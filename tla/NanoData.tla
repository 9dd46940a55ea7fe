------------------------------ MODULE NanoData ------------------------------
(***************************************************************************)
(* NanoContractTransactionBuilder of src/nano_contracts/builder.ts: from   *)
(* the actions of a contract call, and the token it may create, to the     *)
(* inputs and outputs that complete them and the fee.  The blueprint, the  *)
(* method, its arguments and the addresses are left out.                   *)
(*                                                                         *)
(* A request has its actions, the options of the token to create or        *)
(* NoToken, contractPaysFees and maxFee.  What is being built is a record  *)
(* of the inputs and outputs so far, the utxos marked as selected, and     *)
(* tokenFeeAddedInDeposit.                                                 *)
(***************************************************************************)
EXTENDS TokenData

NoToken == [token |-> HTR]
Creates(request) == request.create # NoToken
CreatesFeeToken(request) == Creates(request) /\ Version[request.create.token] = "fee"

\* What the creation of the token takes, data outputs included.
HtrToCreateToken(create) ==
    IF Version[create.token] = "fee" THEN FeePerOutput + DataFee(create.data)
    ELSE TransactionHTRDeposit(create.amount, create.data)

\* getUtxosForAmount() with markUtxoSelected() and the change.
SelectInputs(built, token, amount, free) ==
    LET spendable == {u \in Available(free, token) \ built.marked : ~UtxoOf[u].shielded}
        Mark(picked) ==
            IF ~picked.ok THEN [built EXCEPT !.ok = FALSE]
            ELSE [built EXCEPT !.inputs = @ \o picked.utxos,
                               !.outputs = @ \o Change(token, picked.change),
                               !.marked = @ \cup Range(picked.utxos)]
    IN  Mark(SelectUtxos(Sorted(spendable, Descending), amount))

\* executeDeposit(): a native deposit also takes what the new token costs.
ExecuteDeposit(built, action, request, free) ==
    LET pays == /\ action.token = HTR
                /\ Creates(request)
                /\ ~request.create.contractPaysTokenDeposit
                /\ ~request.contractPaysFees
        amount == action.amount + (IF pays THEN HtrToCreateToken(request.create) ELSE 0)
    IN  SelectInputs([built EXCEPT !.feeAdded = @ \/ pays], action.token, amount, free)

\* executeWithdrawal(): the deposit of the new token may come out of what is withdrawn.
ExecuteWithdrawal(built, action, request) ==
    LET taken == IF /\ action.token = HTR
                    /\ Creates(request)
                    /\ request.create.contractPaysTokenDeposit
                    /\ ~CreatesFeeToken(request)
                 THEN HtrToCreateToken(request.create) ELSE 0
    IN  IF action.amount < taken THEN [built EXCEPT !.ok = FALSE]
        ELSE [built EXCEPT !.outputs =
                @ \o Positive(action.token, action.amount - taken, "withdrawal")]

\* executeGrantAuthority()
ExecuteGrantAuthority(built, action, free) ==
    LET utxos == AuthorityUtxos(action.token, action.authority, free \ built.marked)
    IN  IF utxos = <<>> THEN [built EXCEPT !.ok = FALSE]
        ELSE [built EXCEPT !.inputs = Append(@, Head(utxos)),
                           !.outputs = @ \o Another(action.another, action.token, action.authority),
                           !.marked = @ \cup {Head(utxos)}]

\* executeAcquireAuthority()
ExecuteAcquireAuthority(built, action) ==
    [built EXCEPT !.outputs = Append(@, Authority(action.token, action.authority))]

\* buildInputsOutputs(): an action that fails ends the call.
BuildInputsOutputs(request, free) ==
    LET Execute(built, action) ==
            IF ~built.ok THEN built
            ELSE CASE action.type = "deposit" -> ExecuteDeposit(built, action, request, free)
                   [] action.type = "withdrawal" -> ExecuteWithdrawal(built, action, request)
                   [] action.type = "grant" -> ExecuteGrantAuthority(built, action, free)
                   [] action.type = "acquire" -> ExecuteAcquireAuthority(built, action)
        upTo[i \in 0..Len(request.actions)] ==
            IF i = 0 THEN [ok |-> TRUE, inputs |-> <<>>, outputs |-> <<>>, marked |-> {},
                           feeAdded |-> FALSE]
            ELSE Execute(upTo[i - 1], request.actions[i])
    IN  upTo[Len(request.actions)]

\* The first output of the native token, of one kind or of any, or 0.
FirstHtr(outputs, kinds) ==
    LET found == {i \in Carriers(outputs, HTR) : outputs[i].kind \in kinds}
    IN  IF found = {} THEN 0 ELSE Min(found)

\* An output less an amount, and without it when nothing is left.
Deduct(outputs, i, amount) ==
    IF outputs[i].value > amount THEN [outputs EXCEPT ![i].value = @ - amount]
    ELSE RemoveAt(outputs, i)

\* The fee comes out of the change of a native deposit first, then of more inputs.
FundFee(built, total, free) ==
    LET change == FirstHtr(built.outputs, {"change"})
        covered == IF change = 0 THEN 0 ELSE Min({built.outputs[change].value, total})
        left == IF change = 0 THEN built
                ELSE [built EXCEPT !.outputs = Deduct(@, change, total)]
    IN  IF covered = total THEN left
        ELSE SelectInputs(left, HTR, total - covered, free)

\* The fee comes out of the first native output.
DeductFee(built, total) ==
    LET i == FirstHtr(built.outputs, {"change", "withdrawal"})
    IN  IF i = 0 THEN [built EXCEPT !.ok = FALSE]
        ELSE IF built.outputs[i].value < total THEN [built EXCEPT !.ok = FALSE]
        ELSE [built EXCEPT !.outputs = Deduct(@, i, total)]

\* Who pays the fee.
PayFee(built, total, request, free) ==
    IF total = 0 THEN built
    ELSE IF request.contractPaysFees THEN DeductFee(built, total)
    ELSE IF built.feeAdded THEN built
    ELSE FundFee(built, total, free)

\* buildTransaction(): the token to create has its own inputs and outputs.
BuildTransaction(request, built, free) ==
    LET create == request.create
        contractPays == \/ request.contractPaysFees
                        \/ CreatesFeeToken(request)
                        \/ create.contractPaysTokenDeposit
                        \/ built.feeAdded
    IN  IF Creates(request)
        THEN PrepareCreateTokenData(create.token, create.amount, create.another, create.another,
                                    create.data, contractPays, free \ built.marked)
        ELSE Tx(<<>>, <<>>, 0)

ActionTokens(request) == {request.actions[i].token : i \in DOMAIN request.actions}

\* What fails unmarks the inputs that build() knows by then.
FailedBuild(marked, inputs) == [ok |-> FALSE, marked |-> marked \ Range(inputs)]

\* build()
BuildNano(request, free) ==
    LET creates == CreatesFeeToken(request)
        Finish(paid, fee, tx) ==
            IF ~tx.ok THEN FailedBuild(paid.marked, paid.inputs)
            ELSE [tx EXCEPT !.inputs = @ \o paid.inputs, !.outputs = @ \o paid.outputs,
                            !.fee = fee, !.actions = request.actions,
                            !.tokens = (@ \cup ActionTokens(request)) \ {HTR}]
        Create(actions, paid, fee) ==
            IF ~paid.ok THEN FailedBuild(paid.marked, actions.inputs)
            ELSE Finish(paid, fee, BuildTransaction(request, paid, free))
        Pay(actions, fee, total) ==
            IF total > request.maxFee THEN FailedBuild(actions.marked, actions.inputs)
            ELSE Create(actions, PayFee(actions, total, request, free), fee)
        Total(actions, fee) ==
            Pay(actions, fee, fee + (IF creates THEN DataFee(request.create.data) ELSE 0))
        Build(actions) ==
            IF ~actions.ok THEN FailedBuild(actions.marked, <<>>)
            ELSE Total(actions, CalculateFee(actions.inputs, actions.outputs, request.actions)
                                + (IF creates THEN FeePerOutput ELSE 0))
    IN  Build(BuildInputsOutputs(request, free))

=============================================================================
