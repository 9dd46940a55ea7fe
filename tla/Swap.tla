-------------------------------- MODULE Swap --------------------------------
(***************************************************************************)
(* An atomic swap: PartialTxProposal of src/wallet/partialTxProposal.ts    *)
(* over PartialTx and PartialTxInputData of src/models/partial_tx.ts, and  *)
(* the service that keeps the proposal between the wallets                 *)
(* (src/wallet/api/swapService.ts).                                        *)
(*                                                                         *)
(* Each wallet has one proposal object.  Its calls await the storage, the  *)
(* fullnode or the keys, so that two of them overlap when the caller is    *)
(* hasty.  What a signature signs, the data to sign, is the content of the *)
(* transaction: the outputs that are spent, and the outputs with their     *)
(* tokens.                                                                 *)
(***************************************************************************)
EXTENDS Integers, Sequences, FiniteSets, SequencesExt

CONSTANTS
    Wallets, Tokens, HTR, None,
    Utxos, Owner, Token, Value, \* the outputs the wallets own
    Gives,                      \* what each wallet gives: the others receive it
    MaxChanges, MaxVersion,     \* changes of the proposals, updates on the service
    Hasty,                      \* the wallets that may be hasty, one at a time
    Reopens                     \* a proposal is changed after its transaction was prepared

ASSUME SwapAssumption ==
    /\ HTR \in Tokens /\ Gives \in [Wallets -> Tokens]
    /\ Owner \in [Utxos -> Wallets] /\ Token \in [Utxos -> Tokens] /\ Value \in [Utxos -> Nat \ {0}]
    /\ {MaxChanges, MaxVersion} \subseteq Nat /\ Hasty \subseteq Wallets /\ Reopens \in BOOLEAN

VARIABLES
    proposal,       \* the object of each wallet
    calls,          \* its calls that await something
    service,        \* the proposal on the service
    fetched,        \* the version and signatures each wallet has read from it
    changes,        \* calls that changed a proposal
    hasty           \* the wallets whose caller does not await each call

swapVars == <<proposal, calls, service, fetched, changes, hasty>>

Slots == 1..2
Idle == [step |-> "idle"]

NoProposal == [inputs |-> <<>>, outputs |-> <<>>, signatures |-> None, transaction |-> None]

SwapInit ==
    /\ proposal = [w \in Wallets |-> NoProposal]
    /\ calls = [w \in Wallets |-> [k \in Slots |-> Idle]]
    /\ changes = 0
    /\ service = None
    /\ fetched = [w \in Wallets |-> [version |-> 0, signatures |-> None]]
    /\ hasty \in {{}} \cup {{w} : w \in Hasty}

-----------------------------------------------------------------------------
(* PartialTx *)

Output(w, token, value, change) ==
    [address |-> w, token |-> token, value |-> value, isChange |-> change]

SumOf(seq, Amount(_)) == FoldSeq(LAMBDA x, sum : sum + Amount(x), 0, seq)
\* isComplete(): the outputs of every token match its inputs.
IsComplete(p) ==
    \A t \in Tokens :
        SumOf(p.inputs, LAMBDA i : IF Token[i.utxo] = t THEN Value[i.utxo] ELSE 0)
            = SumOf(p.outputs, LAMBDA o : IF o.token = t THEN o.value ELSE 0)

\* getTxData(): the tokens of the outputs and the inputs but HTR, in order of appearance.
InOrder(tokens) ==
    FoldLeft(LAMBDA found, t : IF t = HTR \/ t \in Range(found) THEN found ELSE Append(found, t),
             <<>>, tokens)
TokenArray(p) ==
    InOrder([i \in DOMAIN p.outputs |-> p.outputs[i].token]
                \o [i \in DOMAIN p.inputs |-> Token[p.inputs[i].utxo]])

\* getTokenDataFromOutput()
TokenIndex(p, t) == IF t = HTR THEN 0 ELSE CHOOSE i \in DOMAIN TokenArray(p) : TokenArray(p)[i] = t

\* getDataToSign() of the transaction.
Content(p) ==
    [inputs |-> [i \in DOMAIN p.inputs |-> p.inputs[i].utxo],
     outputs |-> [i \in DOMAIN p.outputs |->
                    [address |-> p.outputs[i].address, value |-> p.outputs[i].value,
                     token |-> TokenIndex(p, p.outputs[i].token)]],
     tokens |-> TokenArray(p)]

\* serialize(): the transaction and which outputs are change.  The token, value and
\* address of the inputs, which the transaction does not have, are Token, Value and Owner.
Serialize(p) ==
    [tx |-> Content(p),
     change |-> {i \in DOMAIN p.outputs : p.outputs[i].isChange}]

\* deserialize() and fromPartialTx(): signatures and data of the inputs are not taken over.
Deserialize(s) ==
    [inputs |-> [i \in DOMAIN s.tx.inputs |-> [utxo |-> s.tx.inputs[i], data |-> None]],
     outputs |-> [i \in DOMAIN s.tx.outputs |->
        LET o == s.tx.outputs[i]
        IN  Output(o.address, IF o.token = 0 THEN HTR ELSE s.tx.tokens[o.token], o.value,
                   i \in s.change)],
     signatures |-> None, transaction |-> None]

-----------------------------------------------------------------------------
(* PartialTxInputData: what each input data signs, by its index *)

Empty(content) == [hash |-> content, data |-> <<>>]
NumberOfData(signatures) == Cardinality(DOMAIN signatures.data)
\* addData(), for every index of more.
AddData(signatures, more) ==
    [hash |-> signatures.hash,
     data |-> [i \in DOMAIN signatures.data \cup DOMAIN more |->
                IF i \in DOMAIN more THEN more[i] ELSE signatures.data[i]]]
SignaturesComplete(p) ==
    p.signatures # None /\ NumberOfData(p.signatures) = Len(p.signatures.hash.inputs)

-----------------------------------------------------------------------------
(* PartialTxProposal *)

\* Faulty: a change of the proposal keeps the signatures.
KeepSignatures(p) == p
ResetSignatures(p) ==
    [inputs |-> p.inputs, outputs |-> p.outputs, signatures |-> None, transaction |-> None]

AddInput(p, u) ==
    [ResetSignatures(p) EXCEPT !.inputs = Append(p.inputs, [utxo |-> u, data |-> None])]
AddOutput(p, o) == [ResetSignatures(p) EXCEPT !.outputs = Append(p.outputs, o)]

Busy(w) == \E k \in Slots : calls[w][k] # Idle
MayCall(w, k) ==
    /\ calls[w][k] = Idle
    /\ w \in hasty \/ ~Busy(w)
    /\ \A j \in 1..(k - 1) : calls[w][j] # Idle
MayChange(w, k) ==
    /\ MayCall(w, k)
    /\ Reopens \/ \A i \in DOMAIN proposal[w].inputs : proposal[w].inputs[i].data = None
    /\ changes < MaxChanges /\ changes' = changes + 1

Goes(w, k, call) == calls' = [calls EXCEPT ![w][k] = call]
Ends(w, k) == Goes(w, k, Idle)
Becomes(w, p) == proposal' = [proposal EXCEPT ![w] = p]

\* addSend() resets the signatures and awaits the utxos of the token.
AddSend(w, k) ==
    /\ MayChange(w, k)
    /\ Becomes(w, ResetSignatures(proposal[w]))
    /\ Goes(w, k, [step |-> "utxos",
                   utxos |-> {u \in Utxos : Owner[u] = w /\ Token[u] = Gives[w]},
                   inputs |-> {proposal[w].inputs[i].utxo : i \in DOMAIN proposal[w].inputs}])
    /\ UNCHANGED <<service, fetched, hasty>>

\* Selects one utxo that pays one token and adds it; the change awaits an
\* address.  With none left the call throws.
Select(w, k, choices) ==
    IF choices = {} THEN Ends(w, k) /\ UNCHANGED proposal
    ELSE \E u \in choices :
        /\ Becomes(w, AddInput(proposal[w], u))
        /\ IF Value[u] > 1
           THEN Goes(w, k, [step |-> "address",
                            output |-> Output(w, Token[u], Value[u] - 1, TRUE)])
           ELSE Ends(w, k)

\* Faulty: the inputs the proposal has were read before the utxos were awaited.
UtxosKnownStale(w, k) ==
    /\ calls[w][k].step = "utxos"
    /\ Select(w, k, calls[w][k].utxos \ calls[w][k].inputs)
    /\ UNCHANGED <<service, fetched, changes, hasty>>

\* addSend() goes on: the utxos were read before, the inputs of the proposal are those of
\* this moment.
UtxosKnown(w, k) ==
    /\ calls[w][k].step = "utxos"
    /\ Select(w, k, calls[w][k].utxos \ {proposal[w].inputs[i].utxo : i \in DOMAIN proposal[w].inputs})
    /\ UNCHANGED <<service, fetched, changes, hasty>>

\* addReceive() resets the signatures and awaits an address.
AddReceive(w, k) ==
    /\ MayChange(w, k)
    /\ Becomes(w, ResetSignatures(proposal[w]))
    /\ \E v \in Wallets \ {w} :
            Goes(w, k, [step |-> "address", output |-> Output(w, Gives[v], 1, FALSE)])
    /\ UNCHANGED <<service, fetched, hasty>>

\* The output of addReceive(), and the change of addSend().
AddressKnown(w, k) ==
    /\ calls[w][k].step = "address"
    /\ Becomes(w, AddOutput(proposal[w], calls[w][k].output))
    /\ Ends(w, k)
    /\ UNCHANGED <<service, fetched, changes, hasty>>

\* signData() captures the transaction, with the data its inputs have, and starts the
\* signatures over; then it awaits the fullnode, and the keys.
SignData(w, k) ==
    /\ MayCall(w, k)
    /\ proposal[w].inputs # <<>> /\ IsComplete(proposal[w])
    /\ Becomes(w, [proposal[w] EXCEPT !.signatures = Empty(Content(proposal[w]))])
    /\ Goes(w, k, [step |-> "sign", content |-> Content(proposal[w]),
                   inputs |-> proposal[w].inputs])
    /\ UNCHANGED <<service, fetched, changes, hasty>>

\* The fullnode does not answer, or the keys cannot be read: the signatures stay empty.
SignFails(w, k) ==
    /\ calls[w][k].step = "sign"
    /\ Ends(w, k)
    /\ UNCHANGED <<proposal, service, fetched, changes, hasty>>

\* The inputs of the wallet are signed, and every input with data is added to the
\* signatures the proposal has now; without any the call throws.
Signed(w, k) ==
    /\ calls[w][k].step = "sign"
    /\ LET call == calls[w][k]
           Data(i) == IF Owner[call.inputs[i].utxo] = w THEN call.content
                      ELSE call.inputs[i].data
           known == {i \in DOMAIN call.inputs : Data(i) # None}
       IN  IF proposal[w].signatures = None
           THEN UNCHANGED proposal
           ELSE Becomes(w, [proposal[w] EXCEPT !.signatures =
                                AddData(@, [i \in known |-> Data(i)])])
    /\ Ends(w, k)
    /\ UNCHANGED <<service, fetched, changes, hasty>>

\* addSignatures() of what another wallet has signed: only of the same transaction.
AddSignatures(w) ==
    /\ proposal[w].signatures # None /\ fetched[w].signatures # None
    /\ w \in hasty \/ ~Busy(w)
    /\ LET theirs == fetched[w].signatures IN
       /\ theirs.hash = proposal[w].signatures.hash
       /\ Becomes(w, [proposal[w] EXCEPT !.signatures = AddData(@, theirs.data)])
    /\ UNCHANGED <<calls, service, fetched, changes, hasty>>

\* prepareTx() sets the data of the inputs, once.
PrepareTx(w) ==
    /\ IsComplete(proposal[w]) /\ SignaturesComplete(proposal[w])
    /\ proposal[w].transaction = None
    /\ w \in hasty \/ ~Busy(w)
    /\ LET p == proposal[w]
           inputs == [i \in DOMAIN p.inputs |->
                        IF i \in DOMAIN p.signatures.data
                        THEN [utxo |-> p.inputs[i].utxo, data |-> p.signatures.data[i]]
                        ELSE p.inputs[i]]
       IN  Becomes(w, [inputs |-> inputs, outputs |-> p.outputs, signatures |-> p.signatures,
                       transaction |-> [content |-> Content(p),
                                        data |-> [i \in DOMAIN inputs |-> inputs[i].data]]])
    /\ UNCHANGED <<calls, service, fetched, changes, hasty>>

-----------------------------------------------------------------------------
(* The service: it keeps one proposal, and refuses an update of an old version *)

Stored(w, version) ==
    service' = [version |-> version, partialTx |-> Serialize(proposal[w]),
                signatures |-> proposal[w].signatures]

\* create(): without signatures.
Create(w) ==
    /\ service = None /\ ~Busy(w) /\ proposal[w].signatures = None
    /\ Stored(w, 0)
    /\ fetched' = [fetched EXCEPT ![w] = [version |-> 0, signatures |-> None]]
    /\ UNCHANGED <<proposal, calls, changes, hasty>>

\* get(): a new proposal object takes the place of the one the wallet had.
Get(w) ==
    /\ service # None /\ ~Busy(w)
    /\ Becomes(w, Deserialize(service.partialTx))
    /\ fetched' = [fetched EXCEPT ![w] =
                     [version |-> service.version, signatures |-> service.signatures]]
    /\ UNCHANGED <<calls, service, changes, hasty>>

\* update(), refused by the service unless it is of the version that was read.
Update(w) ==
    /\ service # None /\ ~Busy(w)
    /\ fetched[w].version = service.version /\ service.version < MaxVersion
    /\ Stored(w, service.version + 1)
    /\ fetched' = [fetched EXCEPT ![w].version = @ + 1]
    /\ UNCHANGED <<proposal, calls, changes, hasty>>

-----------------------------------------------------------------------------

SwapNext ==
    \E w \in Wallets :
        \/ \E k \in Slots :
             \/ AddSend(w, k) \/ UtxosKnown(w, k)
             \/ AddReceive(w, k) \/ AddressKnown(w, k)
             \/ SignData(w, k) \/ SignFails(w, k) \/ Signed(w, k)
        \/ AddSignatures(w) \/ PrepareTx(w)
        \/ Create(w) \/ Get(w) \/ Update(w)

SwapSpec == SwapInit /\ [][SwapNext]_swapVars

-----------------------------------------------------------------------------
(* Properties *)

\* However the calls of addSend() overlap, no output is spent twice by a proposal: the
\* utxos are read before other calls add theirs, and filtered when the call goes on
\* (addSend(), partialTxProposal.ts:119).
InputsOnce ==
    \A w \in Wallets : \A i, j \in DOMAIN proposal[w].inputs :
        proposal[w].inputs[i].utxo = proposal[w].inputs[j].utxo => i = j

\* Signatures are those of the proposal as it is, whichever wallet changed it, signed it
\* or merged the signatures of an old version, and so a transaction that is prepared
\* carries signatures of itself only (resetSignatures(), addSignatures()).  It takes
\* callers that await each call: signData() adds to the signatures of a later one.
SignaturesAreOfTheTx ==
    hasty = {} => \A w \in Wallets : proposal[w].signatures # None =>
        /\ proposal[w].signatures.hash = Content(proposal[w])
        /\ \A i \in DOMAIN proposal[w].signatures.data :
                proposal[w].signatures.data[i] = Content(proposal[w])
=============================================================================
