---------------------------- MODULE Transactions ----------------------------
(***************************************************************************)
(* What a wallet builds: every operation that chooses inputs and outputs,  *)
(* of both facades, over every set of utxos that may be free when it is    *)
(* called.  A call prepares one transaction and returns it or fails; the   *)
(* rules it has to meet are those of the fullnode (TxFunds).               *)
(***************************************************************************)
EXTENDS SendData, TemplateData, ServiceData

CONSTANTS Requests      \* the calls: a builder, its arguments and the utxos of the wallet

\* The operations, by the names the requests give them.
Builders == {"send", "consolidate", "mint", "melt", "create", "delegate", "destroy", "nano",
             "template", "select", "service_send", "service_data", "service_create",
             "service_mint", "service_melt", "service_delegate", "service_destroy"}

\* What a request may be.  The user names an utxo once, the outputs to send carry value
\* and no authority, the token that a contract call creates is new (its uid is the hash
\* of the transaction), and the amount to select is not zero, which the callers of the
\* selections see to.
ASSUME RequestsAssumption ==
    \A r \in Requests :
        /\ r.wallet \subseteq KnownUtxos /\ r.builder \in Builders
        /\ r.builder = "select" => r.amount \in Nat \ {0}
        /\ r.builder \in {"send", "service_send", "service_data"} =>
            /\ r.inputs \in Seq(KnownUtxos) /\ IsInjective(r.inputs)
            /\ r.outputs \in Seq(Range(r.outputs))
            /\ \A i \in DOMAIN r.outputs :
                /\ r.outputs[i].token \in Tokens \cup {HTR}
                /\ r.outputs[i].value \in Nat /\ r.outputs[i].authorities = {}
        /\ r.builder = "consolidate" => r.token \in Tokens \cup {HTR}
        /\ r.builder \in {"mint", "melt", "create", "service_create", "service_mint", "service_melt"} =>
            r.token \in Tokens /\ r.amount \in Nat
        /\ r.builder \in {"mint", "melt", "create", "service_create"} => r.data \in Nat
        /\ r.builder \in {"destroy", "service_destroy"} => r.amount \in Nat
        /\ r.builder = "nano" =>
            /\ r.actions \in Seq(Range(r.actions))
            /\ \A i \in DOMAIN r.actions :
                /\ r.actions[i].type \in {"deposit", "withdrawal", "grant", "acquire"}
                /\ r.actions[i].type \in {"deposit", "withdrawal"} => r.actions[i].amount \in Nat
            /\ Creates(r) =>
                /\ r.create.token \in Tokens /\ r.create.amount \in Nat /\ r.create.data \in Nat
                /\ \A i \in DOMAIN r.actions : r.actions[i].token # r.create.token
                /\ \A u \in r.wallet : UtxoOf[u].token # r.create.token

VARIABLES
    request,            \* the call
    free,               \* the utxos of the wallet that are available to it
    tx                  \* what it returns
txVars == <<request, free, tx>>

None == [ok |-> FALSE, none |-> TRUE]

-----------------------------------------------------------------------------
TxInit ==
    /\ request \in Requests
    /\ free \in SUBSET request.wallet
    /\ tx = None

Asks(builder) == tx = None /\ request.builder = builder
Returns(result) == tx' = result /\ UNCHANGED <<request, free>>

PrepareSend == Asks("send") /\ Returns(PreparedTx(request, free))
PrepareConsolidate == Asks("consolidate") /\ Returns(PrepareConsolidateUtxosData(request, free))
PrepareMint == Asks("mint") /\ Returns(PrepareMintTokens(request, free))
PrepareMelt == Asks("melt") /\ Returns(PrepareMeltTokens(request, free))
PrepareCreate == Asks("create") /\ Returns(PrepareCreateNewToken(request, free))
PrepareDelegate == Asks("delegate") /\ Returns(PrepareDelegateAuthority(request, free))
PrepareDestroy == Asks("destroy") /\ Returns(PrepareDestroyAuthority(request, free))
PrepareNano == Asks("nano") /\ Returns(BuildNano(request, free))
PrepareTemplate == Asks("template") /\ Returns(BuildTemplate(request, free))

\* fastUtxoSelection() and bestUtxoSelection()
SelectInputUtxos ==
    LET fast == FastUtxoSelection(free, request.token, request.amount)
        best == BestUtxoSelection(free, request.token, request.amount)
    IN  /\ Asks("select")
        /\ Returns([ok |-> FALSE, chosen |-> {Range(fast.utxos), Range(best.utxos)}])

AskedSend == Send(request.inputs, request.outputs, 0)
ServicePrepareTx ==
    Asks("service_send") /\ Returns(ServiceTx(PrepareServiceTx(AskedSend, free), request.outputs))
ServicePrepareTxData ==
    Asks("service_data") /\ Returns(ServiceTx(PrepareServiceTxData(AskedSend, free), request.outputs))
ServiceCreate == Asks("service_create") /\ Returns(PrepareServiceCreate(request, free))
ServiceMint == Asks("service_mint") /\ Returns(PrepareServiceMint(request, free))
ServiceMelt == Asks("service_melt") /\ Returns(PrepareServiceMelt(request, free))
ServiceDelegate == Asks("service_delegate") /\ Returns(PrepareServiceDelegate(request, free))
ServiceDestroy == Asks("service_destroy") /\ Returns(PrepareServiceDestroy(request, free))

TxNext ==
    \/ PrepareSend \/ PrepareConsolidate \/ PrepareMint \/ PrepareMelt \/ PrepareCreate
    \/ PrepareDelegate \/ PrepareDestroy \/ PrepareNano \/ PrepareTemplate \/ SelectInputUtxos
    \/ ServicePrepareTx \/ ServicePrepareTxData \/ ServiceCreate \/ ServiceMint
    \/ ServiceMelt \/ ServiceDelegate \/ ServiceDestroy

TxSpec == TxInit /\ [][TxNext]_txVars

-----------------------------------------------------------------------------
(* Properties *)

\* What comes in is what goes out, with the fee, the deposits and what is withdrawn, and
\* nothing is minted or melted without its authority: the inputs, the change and the
\* fee that the builders work out in several rounds add up.
TxIsBalanced == tx.ok => Balanced(tx)

\* The fee that is declared is the one the fullnode will ask for: one for each output
\* and deposit of a token that pays fees, the change that was added later included, one
\* for a token that only comes in, and what each shielded output costs.
FeeIsExact == tx.ok => FeeIsRight(tx)

\* A template does not ask whether its authorities and its raw inputs are available, and
\* its action/complete may choose what one of its input/utxo has chosen.
Unasked(u) ==
    /\ request.builder = "template"
    /\ UtxoOf[u].authorities # {} \/ [type |-> "input/raw", utxo |-> u] \in Range(request.template)
ChosenAgain(u) ==
    /\ request.builder = "template"
    /\ \E i, j \in DOMAIN request.template :
        /\ request.template[i].type = "input/utxo" /\ request.template[i].token = UtxoOf[u].token
        /\ request.template[j].type = "action/complete" /\ ~request.template[j].skipSelection

\* The inputs are available utxos and none is spent twice, whoever chose them: the user,
\* the selection for a token, for the fee, or for the shielded change.
InputsAreAvailable ==
    tx.ok => /\ \A u \in Range(tx.inputs) : u \in free \/ Unasked(u)
             /\ \A i, j \in DOMAIN tx.inputs :
                    tx.inputs[i] = tx.inputs[j] => i = j \/ ChosenAgain(tx.inputs[i])

\* A nano contract build that fails once its actions were executed leaves no utxo marked.
FailedBuildReleases ==
    tx # None /\ request.builder = "nano" /\ ~tx.ok /\ BuildInputsOutputs(request, free).ok
    => tx.marked = {}

\* A utxo that is taken is spent once, and one that is not spent is given back.
UtxosAreRespected == InputsAreAvailable /\ FailedBuildReleases

\* The most an amount of a token and its fees can come to: every change there may be is
\* counted, and one unit more for a change that has to be shielded.
Worth(token, available) ==
    SumFunction([u \in Available(available, token) |-> UtxoOf[u].value])
Changes == Cardinality(TokensOf(request.outputs) \ {HTR})
MostFee ==
    LET outputs == request.outputs
        asked == Hidden(outputs)
    IN  SumFunction([t \in TokensOf(outputs) \cap FeeTokens |->
                        FeePerOutput * (Cardinality(Carriers(outputs, t)) + 1)])
        + ShieldedFees(asked)
        + (IF request.builder = "send" /\ request.mode # "none" /\ asked # <<>>
           THEN ShieldedFee(request.mode) * (Changes + 1) + 1 ELSE 0)

EnoughToSend ==
    /\ request.inputs = <<>>
    /\ \A i \in DOMAIN request.outputs : request.outputs[i].value > 0
    /\ \A t \in TokensOf(request.outputs) \ {HTR} : Worth(t, free) >= Funds(request.outputs, t)
    /\ Worth(HTR, free) >= Funds(request.outputs, HTR) + MostFee

\* The limits of a transaction, with a change of every token; a shielded output is never
\* alone.
WithinTheLimits ==
    LET hidden == Len(Hidden(request.outputs))
    IN  /\ Cardinality(free) <= MaxInputs
        /\ Len(Public(request.outputs)) + Changes + 1 <= MaxOutputs
        /\ hidden + Changes + 1 <= MaxShielded /\ hidden # 1

\* A send of what the wallet has does not fail: the rounds that add change, fees and
\* shielded change end with a transaction whenever the funds cover all of them.
EnoughIsEnough ==
    /\ tx # None
    /\ \/ request.builder = "send" /\ WithinTheLimits
       \/ /\ request.builder \in {"service_send", "service_data"}
          /\ \A u \in free : ~UtxoOf[u].shielded
    /\ EnoughToSend
    => tx.ok

\* The selection takes the smallest number of utxos that covers the amount, and finds
\* one when there is any, so that a transaction does not hit the limit of inputs.
SelectionIsFewest ==
    tx # None /\ request.builder = "select"
    => LET Covers(us) == Worth(request.token, us) >= request.amount
           covering == {us \in SUBSET Available(free, request.token) : Covers(us)}
       IN  \A chosen \in tx.chosen :
               IF covering = {} THEN chosen = {}
               ELSE Covers(chosen) /\ \A us \in covering : Cardinality(chosen) <= Cardinality(us)

=============================================================================
