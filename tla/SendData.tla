------------------------------ MODULE SendData ------------------------------
(***************************************************************************)
(* prepareTxData() of src/new/sendTransaction.ts: from the outputs and the *)
(* inputs of a request to a complete transaction, with the inputs chosen,  *)
(* the change, the fee and the change that is to be shielded.              *)
(*                                                                         *)
(* A request has outputs of kind "plain", "data" and "shielded", the utxos *)
(* the user named, and the mode for the change, or "none".                 *)
(***************************************************************************)
EXTENDS TxFunds

ShieldedDef(token, value, mode) ==
    [token |-> token, value |-> value, authorities |-> {}, mode |-> mode]

\* _prepareSendTokensData() for one token: the inputs chosen for it and its change.
PrepareSendTokensData(token, chooseInputs, inputs, outputs, fee, free) ==
    LET needed == fee + Funds(outputs, token)
        given == {i \in DOMAIN inputs : UtxoOf[inputs[i]].token = token}
        amount == SumFunction([i \in given |-> UtxoOf[inputs[i]].value])
        Proposed(chosen) ==
            IF needed = 0 \/ chosen.amount < needed THEN Failed
            ELSE [ok |-> TRUE, inputs |-> chosen.utxos,
                  outputs |-> Change(token, chosen.amount - needed)]
    IN  IF chooseInputs THEN Proposed(BestUtxoSelection(free, token, needed))
        ELSE IF \/ \E i \in given : inputs[i] \notin Available(free, token)
                \/ amount < needed
             THEN Failed
             ELSE [ok |-> TRUE, inputs |-> <<>>, outputs |-> Change(token, amount - needed)]

\* prepareSendManyTokensData(): one token after the other, each over the request.
PrepareSendManyTokensData(tokenMap, inputs, outputs, free) ==
    LET Join(data, proposed) ==
            IF ~data.ok \/ ~proposed.ok THEN Failed
            ELSE [ok |-> TRUE, inputs |-> data.inputs \o proposed.inputs,
                  outputs |-> data.outputs \o proposed.outputs]
        upTo[i \in 0..Len(TokenOrder)] ==
            IF i = 0 THEN [ok |-> TRUE, inputs |-> <<>>, outputs |-> <<>>]
            ELSE IF TokenOrder[i] \notin DOMAIN tokenMap THEN upTo[i - 1]
            ELSE Join(upTo[i - 1], PrepareSendTokensData(TokenOrder[i], tokenMap[TokenOrder[i]],
                                                         inputs, outputs, 0, free))
    IN  upTo[Len(TokenOrder)]

\* Faulty: what was chosen already is not set aside.
SpareOrUsed(free, used) == Available(free, HTR)

\* The native utxos that are not among the inputs yet.
Spare(free, used) == Available(free, HTR) \ used

\* convertHtrChangeIfRequested(): the native change becomes a shielded output that
\* pays its own fee, from more utxos, the smallest first, when it is too small.
ConvertHtrChange(htr, defs, mode, canSelectMore, used, free) ==
    LET added == ShieldedFee(mode)
        change == htr.outputs[1].value
        Pulled(sorted) ==
            Taken(sorted, Until(sorted, LAMBDA i : Taken(sorted, i).amount > added - change))
        Convert(more) ==
            IF \/ Len(defs) >= MaxShielded
               \/ change <= added /\ ~canSelectMore
               \/ change + more.amount <= added
            THEN Failed
            ELSE [ok |-> TRUE,
                  htr |-> [htr EXCEPT !.inputs = @ \o more.utxos, !.outputs = <<>>],
                  defs |-> Append(defs, ShieldedDef(HTR, change + more.amount - added, mode)),
                  addedFee |-> added]
    IN  IF mode = "none" \/ defs = <<>> \/ htr.outputs = <<>>
        THEN [ok |-> TRUE, htr |-> htr, defs |-> defs, addedFee |-> 0]
        ELSE Convert(IF change > added THEN Selection(<<>>)
                     ELSE Pulled(Sorted(Spare(free, used \cup Range(htr.inputs)), Ascending)))

\* The change of the custom tokens becomes shielded, with its whole value.
ConvertTokenChange(defs, changes, mode) ==
    defs \o [i \in DOMAIN changes |-> ShieldedDef(changes[i].token, changes[i].value, mode)]

\* A non-native token is listed when a transparent or amount-shielded output shows it.
VisibleTokens(outputs, defs) ==
    {t \in Tokens : \/ Carriers(outputs, t) # {}
                    \/ \E i \in Carriers(defs, t) : defs[i].mode # "full"}

\* The outputs that are shielded, and the others.
Hidden(outputs) == Kept(outputs, {i \in DOMAIN outputs : outputs[i].kind = "shielded"})
Public(outputs) == Kept(outputs, {i \in DOMAIN outputs : outputs[i].kind # "shielded"})

\* The shielded outputs that were asked for, which stay beside the others until the
\* inputs are chosen.
ExplicitDefs(outputs) ==
    LET asked == Hidden(outputs)
    IN  [i \in DOMAIN asked |-> ShieldedDef(asked[i].token, asked[i].value, asked[i].mode)]

\* Whether the inputs of a token are to be chosen: not when the user named one of it.
TokenMap(inputTokens, outputTokens) ==
    [t \in (outputTokens \cup inputTokens) \ {HTR} |-> t \notin inputTokens]

InputTokensOf(request) == {UtxoOf[request.inputs[i]].token : i \in DOMAIN request.inputs}
OutputTokensOf(request) == {request.outputs[i].token : i \in DOMAIN request.outputs}

\* The transaction once the custom tokens are covered.
PartialTx(request, explicit, many) ==
    LET shieldChange == request.mode # "none" /\ explicit # <<>>
        defs == IF shieldChange THEN ConvertTokenChange(explicit, many.outputs, request.mode)
                ELSE explicit
    IN  IF ~many.ok THEN Failed
        ELSE IF shieldChange /\ many.outputs # <<>> /\ Len(defs) > MaxShielded THEN Failed
        ELSE [ok |-> TRUE, inputs |-> request.inputs \o many.inputs, defs |-> defs,
              outputs |-> request.outputs \o (IF shieldChange THEN <<>> ELSE many.outputs)]

\* The whole transaction, with the native inputs and change.
FinishTx(request, partial, totalFee, converted) ==
    LET outputs == Public(partial.outputs) \o converted.htr.outputs
        listed == (InputTokensOf(request) \cup OutputTokensOf(request)) \ {HTR}
    IN  IF ~converted.ok THEN Failed
        ELSE IF Len(converted.defs) = 1 \/ Len(converted.defs) > MaxShielded THEN Failed
        ELSE [Tx(partial.inputs \o converted.htr.inputs, outputs, totalFee + converted.addedFee)
                EXCEPT !.shielded = converted.defs,
                       !.tokens = listed \cap VisibleTokens(outputs, converted.defs)]

\* The fee is known now, and the native token covers it.
CoverHtr(request, partial, totalFee, free) ==
    LET chooseHtr == /\ HTR \notin InputTokensOf(request)
                     /\ HTR \in OutputTokensOf(request) \/ totalFee > 0
        Convert(htr) ==
            IF ~htr.ok THEN Failed
            ELSE FinishTx(request, partial, totalFee,
                          ConvertHtrChange(htr, partial.defs, request.mode, chooseHtr,
                                           Range(partial.inputs), free))
    IN  IF HTR \in InputTokensOf(request) \ OutputTokensOf(request) /\ totalFee = 0 THEN Failed
        ELSE Convert(PrepareSendTokensData(HTR, chooseHtr, partial.inputs, partial.outputs,
                                           totalFee, free))

\* prepareTxData()
PrepareTxData(request, free) ==
    LET tokenMap == TokenMap(InputTokensOf(request), OutputTokensOf(request))
        Complete(partial) ==
            IF ~partial.ok THEN Failed
            ELSE CoverHtr(request, partial,
                          CalculateFee(partial.inputs, Public(partial.outputs), <<>>)
                            + ShieldedFees(partial.defs), free)
    IN  IF (InputTokensOf(request) \ {HTR}) \ OutputTokensOf(request) # {} THEN Failed
        ELSE Complete(PartialTx(request, ExplicitDefs(request.outputs),
                                PrepareSendManyTokensData(tokenMap, request.inputs,
                                                          request.outputs, free)))

\* prepareTx() with Transaction.validate()
PreparedTx(request, free) ==
    LET Validate(tx) ==
            IF ~tx.ok THEN Failed
            ELSE IF \/ Len(tx.inputs) > MaxInputs
                    \/ Len(tx.outputs) > MaxOutputs
                    \/ Len(tx.shielded) > MaxShielded
            THEN Failed
            ELSE tx
    IN  Validate(PrepareTxData(request, free))

\* prepareConsolidateUtxosData(): the transparent utxos up to the limit of inputs, sent
\* to one output.
PrepareConsolidateUtxosData(request, free) ==
    LET wanted == {u \in Available(free, request.token) : ~UtxoOf[u].shielded}
        all == Sorted(wanted, Stored)
        inputs == SubSeq(all, 1, Min({Len(all), MaxInputs}))
        total == Received(inputs, request.token)
    IN  IF inputs = <<>> THEN Failed
        ELSE PreparedTx([inputs |-> inputs, mode |-> "none",
                        outputs |-> <<Output(request.token, total, {}, "plain")>>], free)

=============================================================================
