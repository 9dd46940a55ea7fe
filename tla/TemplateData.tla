---------------------------- MODULE TemplateData ----------------------------
(***************************************************************************)
(* Transaction templates (src/template/transaction): the executor of each  *)
(* instruction over the context of the template, and the interpreter that  *)
(* makes a transaction of what the context has at the end.                 *)
(*                                                                         *)
(* The context keeps, beside the inputs and outputs, a balance of every    *)
(* token: what came in less what went out, the authorities likewise, and   *)
(* the inputs and outputs a fee may be due for.  References to variables   *)
(* are replaced by their values; the positions of inputs and outputs, the  *)
(* instructions that shuffle them or set a variable, addresses, time locks *)
(* and logs are left out.                                                  *)
(***************************************************************************)
EXTENDS NanoData

AnyToken == "any"       \* an action/complete that names no token
NoVersion == "kept"     \* an action/config that sets no version

\* The context of a request, and what is kept for each token; the token it creates has
\* no balance until it has an output.
NoBalance == [tokens |-> 0, mint |-> 0, melt |-> 0, outputs |-> 0, inputs |-> 0]
NewContext(request) ==
    [ok |-> TRUE, inputs |-> <<>>, outputs |-> <<>>, tokens |-> <<>>, version |-> "default",
     named |-> FALSE, token |-> request.token, fee |-> 0, nano |-> FALSE, actions |-> <<>>,
     balance |-> [t \in Tokens \cup {HTR} |-> NoBalance]]
\* isCreateTokenTxContext()
IsCreateTokenTxContext(ctx) == ctx.version = "create"

FailsUnless(ctx, condition) == [ctx EXCEPT !.ok = @ /\ condition]
Charged(t, n) == IF t # HTR /\ Version[t] = "fee" THEN n ELSE 0
One(condition) == IF condition THEN 1 ELSE 0

\* addInputs() with addBalanceFromUtxo()
AddInputs(ctx, utxos) ==
    LET Add(balance, u) ==
            LET x == UtxoOf[u]
                of == balance[x.token]
            IN  [balance EXCEPT ![x.token] =
                    [of EXCEPT !.tokens = @ + x.value,
                               !.mint = @ + One("mint" \in x.authorities),
                               !.melt = @ + One("melt" \in x.authorities),
                               !.inputs = @ + Charged(x.token, One(x.authorities = {}))]]
    IN  [ctx EXCEPT !.inputs = @ \o utxos, !.balance = FoldLeft(Add, @, utxos)]

\* addToken(): a transaction that creates a token has no list of tokens.
AddToken(ctx, t) ==
    [FailsUnless(ctx, t = HTR \/ ~IsCreateTokenTxContext(ctx)) EXCEPT
        !.tokens = IF t = HTR \/ t \in Range(@) THEN @ ELSE Append(@, t)]

\* addOutputs() with addOutput(), addCreatedTokenOutput()
AddOutput(ctx, t, amount, kind) ==
    [ctx EXCEPT !.outputs = @ \o Positive(t, amount, kind),
                !.balance[t] = [ctx.balance[t] EXCEPT !.tokens = @ - amount,
                                                      !.outputs = @ + Charged(t, 1)]]

\* The same with addOutputAuthority(), addCreatedTokenOutputAuthority()
AddAuthorities(ctx, t, kind, count) ==
    [ctx EXCEPT !.outputs = @ \o [i \in 1..count |-> Authority(t, kind)],
                !.balance[t][kind] = @ - count]

\* calculateFee() of the balances
FeeOfBalances(ctx) ==
    LET Of(t) == LET b == ctx.balance[t] IN IF b.outputs > 0 THEN b.outputs ELSE Min({b.inputs, 1})
    IN  FeePerOutput * SumFunction([t \in Tokens |-> Of(t)])

-----------------------------------------------------------------------------
(* The selections *)

\* selectTokens()
SelectTokens(ctx, t, amount, autoChange, free) ==
    LET spendable == {u \in Available(free, t) : ~UtxoOf[u].shielded}
        GiveBack(taken, change) ==
            IF autoChange /\ change > 0 THEN AddOutput(AddToken(taken, t), t, change, "change")
            ELSE taken
        Take(picked) ==
            IF ~picked.ok THEN FailsUnless(ctx, FALSE)
            ELSE GiveBack(AddInputs(ctx, picked.utxos), picked.change)
    IN  Take(SelectUtxos(Sorted(spendable, Descending), amount))

\* selectAuthorities() and getAuthorities(): the first ones in the storage, available or
\* not, and no error when there are not enough.
SelectAuthorities(ctx, t, kind, count, wallet) ==
    LET found == AuthorityUtxos(t, kind, wallet)
    IN  AddInputs(ctx, SubSeq(found, 1, Min({count, Len(found)})))

-----------------------------------------------------------------------------
(* The instructions *)

\* The token of an output, listed in the transaction unless the transaction creates it.
OutputToken(ctx, ins) == IF ins.created THEN ctx.token ELSE ins.token
WithOutputToken(ctx, ins) ==
    IF ins.created THEN FailsUnless(ctx, IsCreateTokenTxContext(ctx)) ELSE AddToken(ctx, ins.token)

\* 'input/raw', 'input/utxo' and 'input/authority'
ExecRawInput(ctx, ins) == AddInputs(FailsUnless(ctx, ~UtxoOf[ins.utxo].shielded), <<ins.utxo>>)
ExecUtxoSelect(ctx, ins, free) == SelectTokens(ctx, ins.token, ins.fill, ins.autoChange, free)
ExecAuthoritySelect(ctx, ins, wallet) ==
    SelectAuthorities(ctx, ins.token, ins.authority, ins.count, wallet)

\* 'output/token', 'output/data', and 'output/raw' of an amount
ExecTokenOutput(ctx, ins) ==
    AddOutput(WithOutputToken(ctx, ins), OutputToken(ctx, ins), ins.amount, "plain")
\* 'output/authority', and 'output/raw' of an authority
ExecAuthorityOutput(ctx, ins) ==
    AddAuthorities(WithOutputToken(ctx, ins), OutputToken(ctx, ins), ins.authority, ins.count)

\* 'action/config': a version may be set as it is, or the one that creates a token, which
\* no token may be listed before; a token needs a name and a symbol.  The version of the
\* token created is the one of the request's token.
ExecConfig(context, ins) ==
    LET ctx == [context EXCEPT !.version = IF ins.version = NoVersion THEN @ ELSE ins.version,
                               !.named = @ \/ ins.named]
    IN  IF ins.createToken
        THEN [FailsUnless(ctx, ctx.tokens = <<>>) EXCEPT !.version = "create"]
        ELSE ctx
\* 'action/fee'
ExecFee(ctx, ins) == [ctx EXCEPT !.fee = @ + ins.amount]

\* completeTokenInputAndOutputs()
CompleteToken(context, t, ins, free) ==
    LET Complete(ctx, surplus) ==
            IF surplus > 0 /\ ~ins.skipChange THEN AddOutput(ctx, t, surplus, "change")
            ELSE IF surplus < 0 /\ ~ins.skipSelection
            THEN SelectTokens(ctx, t, -surplus, TRUE, free)
            ELSE ctx
    IN  Complete(AddToken(context, t), context.balance[t].tokens)

\* One kind of authority of a token: what is left goes back, what is missing is found.
CompleteAuthority(ctx, t, kind, wallet) ==
    LET surplus == ctx.balance[t][kind]
    IN  IF surplus >= 0 THEN AddAuthorities(ctx, t, kind, surplus)
        ELSE SelectAuthorities(ctx, t, kind, -surplus, wallet)

\* 'action/complete': the deposit of a created token first, each token, the fee of what
\* the outputs are then, and the native token.
ExecComplete(ctx, ins, request, free) ==
    LET creates == ins.calculateFee /\ IsCreateTokenTxContext(ctx)
        deposits == creates /\ Version[ctx.token] = "deposit"
        minted == -ctx.balance[ctx.token].tokens
        started == IF deposits
                   THEN [FailsUnless(ctx, ctx.balance[ctx.token] # NoBalance)
                            EXCEPT !.balance[HTR].tokens = @ - DepositOf(ctx.token, minted)]
                   ELSE ctx
        listed == IF ins.token = AnyToken THEN ctx.tokens ELSE <<ins.token>>
        Complete(c, t) ==
            IF ins.skipAuthorities THEN CompleteToken(c, t, ins, free)
            ELSE CompleteAuthority(
                    CompleteAuthority(CompleteToken(c, t, ins, free), t, "mint", request.wallet),
                    t, "melt", request.wallet)
        CompleteHtr(charged, fee) ==
            IF creates \/ ins.token \in {AnyToken, HTR} \/ fee > 0
            THEN CompleteToken(charged, HTR, ins, free) ELSE charged
        Charge(completed, fee) ==
            CompleteHtr([completed EXCEPT !.fee = @ + fee, !.balance[HTR].tokens = @ - fee], fee)
        Completed(completed) ==
            Charge(completed, IF ins.calculateFee THEN FeeOfBalances(completed) ELSE 0)
    IN  Completed(FoldLeft(Complete, started, SelectSeq(listed, LAMBDA t : t # HTR)))

\* The actions of 'nano/execute': what a deposit takes stays a surplus of its token, and
\* what a withdrawal or an acquired authority adds is on no balance.  A deposit or a grant
\* of the token that is created, which the header names by its index, selects nothing.
ActionToken(context, action) == IF action.created THEN context.token ELSE action.token
ExecAction(context, action, request, free) ==
    LET named == [action EXCEPT !.token = ActionToken(context, action)]
        ctx == AddToken([context EXCEPT !.actions = Append(@, named)], action.token)
    IN  CASE action.type = "deposit" ->
                IF action.skip \/ action.created THEN ctx
                ELSE SelectTokens(ctx, action.token, action.amount, action.autoChange, free)
          [] action.type = "withdrawal" ->
                [ctx EXCEPT !.outputs = @ \o (IF action.skip THEN <<>>
                    ELSE Positive(action.token, action.amount, "withdrawal"))]
          [] action.type = "grant" ->
                IF action.skip \/ action.created THEN ctx
                ELSE SelectAuthorities(ctx, action.token, action.authority, 1, request.wallet)
          [] action.type = "acquire" ->
                [ctx EXCEPT !.outputs = @ \o Another(~action.skip, action.token, action.authority)]

ExecNanoMethod(ctx, ins, request, free) ==
    LET Execute(c, action) == IF c.ok THEN ExecAction(c, action, request, free) ELSE c
    IN  [FailsUnless(FoldLeft(Execute, ctx, ins.actions), ~ctx.nano) EXCEPT !.nano = TRUE]

\* runInstruction(): an instruction that throws ends the template.
RunInstruction(ctx, ins, request, free) ==
    IF ~ctx.ok THEN ctx
    ELSE CASE ins.type = "input/raw" -> ExecRawInput(ctx, ins)
           [] ins.type = "input/utxo" -> ExecUtxoSelect(ctx, ins, free)
           [] ins.type = "input/authority" -> ExecAuthoritySelect(ctx, ins, request.wallet)
           [] ins.type = "output/token" -> ExecTokenOutput(ctx, ins)
           [] ins.type = "output/authority" -> ExecAuthorityOutput(ctx, ins)
           [] ins.type = "action/config" -> ExecConfig(ctx, ins)
           [] ins.type = "action/fee" -> ExecFee(ctx, ins)
           [] ins.type = "action/complete" -> ExecComplete(ctx, ins, request, free)
           [] ins.type = "nano/execute" -> ExecNanoMethod(ctx, ins, request, free)

\* build(): a transaction of another version, or that creates a token without a name,
\* is not made.
BuildTemplate(request, free) ==
    LET Run(ctx, ins) == RunInstruction(ctx, ins, request, free)
        Finish(ctx) ==
            IF ~ctx.ok \/ ctx.version \notin {"default", "create"} THEN Failed
            ELSE IF IsCreateTokenTxContext(ctx) /\ ~ctx.named THEN Failed
            ELSE [Tx(ctx.inputs, ctx.outputs, ctx.fee) EXCEPT
                    !.tokens = Range(ctx.tokens), !.actions = ctx.actions,
                    !.created = IF IsCreateTokenTxContext(ctx) THEN {ctx.token} ELSE {}]
    IN  Finish(FoldLeft(Run, NewContext(request), request.template))

=============================================================================
