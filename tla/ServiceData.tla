---------------------------- MODULE ServiceData ----------------------------
(***************************************************************************)
(* The transactions of the wallet service facade: prepareTx() and          *)
(* prepareTxData() of src/wallet/sendTransactionWalletService.ts and the   *)
(* token operations of src/wallet/wallet.ts, which do not share the code   *)
(* of the other facade.  The utxos come from the service, in an order of   *)
(* its own and without shielded ones.                                      *)
(*                                                                         *)
(* The object of a send is a record of its fields inputs, outputs and      *)
(* _feeAmount, which the calls change, and whether the call has thrown.    *)
(***************************************************************************)
EXTENDS TxFunds

\* What the service answers to getTxOutputs().
ServiceUtxos(token, free) ==
    Sorted({u \in Available(free, token) : ~UtxoOf[u].shielded}, Stored)
ServiceAuthorities(token, kind, free) ==
    Sorted({u \in free : UtxoOf[u].token = token /\ kind \in UtxoOf[u].authorities}, Stored)

FeeOf(token) == IF token \in Tokens /\ Version[token] = "fee" THEN FeePerOutput ELSE 0
TokensOf(outputs) == {outputs[i].token : i \in DOMAIN outputs}
InputTokens(inputs) == {UtxoOf[inputs[i]].token : i \in DOMAIN inputs}

Send(inputs, outputs, fee) == [ok |-> TRUE, inputs |-> inputs, outputs |-> outputs, fee |-> fee]
Thrown(send) == [send EXCEPT !.ok = FALSE]

\* The change of a token that pays fees pays one too.
WithChange(send, token, change) ==
    IF change = 0 THEN send
    ELSE [send EXCEPT !.outputs = @ \o Change(token, change), !.fee = @ + FeeOf(token)]

\* selectUtxosToUse() and selectUtxosForTokens() for one token
SelectUtxosToUse(send, token, amount, free) ==
    LET Use(picked) ==
            IF ~picked.ok THEN Thrown(send)
            ELSE WithChange([send EXCEPT !.inputs = @ \o picked.utxos], token, picked.change)
    IN  IF ~send.ok THEN send ELSE Use(SelectUtxos(ServiceUtxos(token, free), amount))

\* validateUtxos() and validatePreSelectedInputs() for one token
ValidateUtxos(send, token, amount, given) ==
    IF ~send.ok THEN send
    ELSE IF token \notin InputTokens(given) \/ Received(given, token) < amount THEN Thrown(send)
    ELSE WithChange(send, token, Received(given, token) - amount)

\* selectUtxosForTokens(): one token after the other, the native token aside.
SelectForTokens(send, asked, tokens, free) ==
    LET upTo[i \in 0..Len(TokenOrder)] ==
            IF i = 0 THEN send
            ELSE IF TokenOrder[i] \notin tokens THEN upTo[i - 1]
            ELSE SelectUtxosToUse(upTo[i - 1], TokenOrder[i], Funds(asked, TokenOrder[i]), free)
    IN  upTo[Len(TokenOrder)]

\* validatePreSelectedInputs(), the same way.
ValidateForTokens(send, asked, tokens, given) ==
    LET upTo[i \in 0..Len(TokenOrder)] ==
            IF i = 0 THEN send
            ELSE IF TokenOrder[i] \notin tokens THEN upTo[i - 1]
            ELSE ValidateUtxos(upTo[i - 1], TokenOrder[i], Funds(asked, TokenOrder[i]), given)
    IN  upTo[Len(TokenOrder)]

\* Every output of a token that pays fees is charged on top of what was charged before.
Charge(send) ==
    [send EXCEPT !.fee =
        @ + SumFunction([i \in DOMAIN send.outputs |-> FeeOf(send.outputs[i].token)])]

Unknown(inputs, free) == ~ \A i \in DOMAIN inputs :
                             \E t \in Tokens \cup {HTR} : inputs[i] \in Range(ServiceUtxos(t, free))

\* prepareTx()
PrepareServiceTx(send, free) ==
    LET given == send.inputs
        tokens == TokensOf(send.outputs) \ {HTR}
        charged == Charge([send EXCEPT !.ok = TRUE])
        chosen == SelectForTokens(charged, send.outputs, tokens, free)
        checked == ValidateForTokens(charged, send.outputs, tokens, given)
        NeededHtr(s) == Funds(send.outputs, HTR) + s.fee
        ChooseHtr(s) ==
            IF NeededHtr(s) = 0 THEN s ELSE SelectUtxosToUse(s, HTR, NeededHtr(s), free)
        CheckHtr(s) ==
            IF NeededHtr(s) # 0 THEN ValidateUtxos(s, HTR, NeededHtr(s), given)
            ELSE IF HTR \in InputTokens(given) THEN Thrown(s) ELSE s
    IN  IF given = <<>> THEN ChooseHtr(chosen)
        ELSE IF Unknown(given, free) \/ (InputTokens(given) \ {HTR}) \ tokens # {}
        THEN Thrown(charged)
        ELSE CheckHtr(checked)

\* prepareTxData(): tokens with inputs are validated, the others are selected.  When
\* it throws, only the fee is left changed.
PrepareServiceTxData(send, free) ==
    LET given == send.inputs
        tokens == TokensOf(send.outputs)
        charged == Charge([send EXCEPT !.ok = TRUE])
        checked == ValidateForTokens(charged, send.outputs, InputTokens(given), given)
        chosen == SelectForTokens(checked, send.outputs, tokens \ InputTokens(given), free)
        CoverHtr(s, needed) ==
            IF HTR \in InputTokens(given) THEN ValidateUtxos(s, HTR, needed, given)
            ELSE IF HTR \in tokens \/ s.fee > 0 THEN SelectUtxosToUse(s, HTR, needed, free)
            ELSE s
        Covered(s) == CoverHtr(s, Funds(send.outputs, HTR) + s.fee)
        Finish(s) == IF s.ok THEN s ELSE [Thrown(send) EXCEPT !.fee = s.fee]
    IN  IF Unknown(given, free) \/ InputTokens(given) \ tokens # {} THEN Thrown(charged)
        ELSE Finish(Covered(chosen))

\* The transaction of a send that is prepared.
ServiceTx(send, asked) ==
    IF ~send.ok THEN Failed
    ELSE [Tx(send.inputs, send.outputs, send.fee) EXCEPT !.tokens = TokensOf(asked) \ {HTR}]

-----------------------------------------------------------------------------
(* The token operations *)

Authorities(wanted, token, kind) ==
    IF wanted THEN <<Output(token, 0, {kind}, "authority")>> ELSE <<>>
Data(count) == [i \in 1..count |-> Output(HTR, 1, {}, "data")]

\* prepareCreateNewToken().  The data outputs of an NFT are among the outputs already
\* when the fee of a token that pays fees is counted.
PrepareServiceCreate(request, free) ==
    LET token == request.token
        minted == (IF request.nft THEN Data(request.data) ELSE <<>>)
                  \o <<Output(token, request.amount, {}, "mint")>>
                  \o Authorities(request.another, token, "mint")
        deposit == DataFee(request.data) + DepositOf(token, request.amount)
        charged == {i \in DOMAIN minted : minted[i].authorities = {}}
        fee == FeeOf(token) * Cardinality(charged)
        picked == SelectUtxos(ServiceUtxos(HTR, free), deposit + fee)
    IN  IF ~picked.ok THEN Failed
        ELSE [Tx(picked.utxos,
                 minted \o Change(HTR, picked.change) \o Authorities(request.another, token, "melt")
                 \o (IF request.nft THEN <<>> ELSE Data(request.data)), fee)
                EXCEPT !.created = {token}]

\* prepareMintTokensData()
PrepareServiceMint(request, free) ==
    LET token == request.token
        authorities == ServiceAuthorities(token, "mint", free)
        minted == <<Output(token, request.amount, {}, "mint")>>
                  \o Authorities(request.another, token, "mint")
        fee == CalculateFee(<<>>, minted, <<>>)
        picked == SelectUtxos(ServiceUtxos(HTR, free), DepositOf(token, request.amount) + fee)
    IN  IF authorities = <<>> \/ ~picked.ok THEN Failed
        ELSE [Tx(Append(picked.utxos, Head(authorities)),
                 minted \o Change(HTR, picked.change), fee) EXCEPT !.tokens = {token}]

\* prepareMeltTokensData()
PrepareServiceMelt(request, free) ==
    LET token == request.token
        authorities == ServiceAuthorities(token, "melt", free)
        picked == SelectUtxos(ServiceUtxos(token, free), request.amount)
        melted == Positive(HTR, WithdrawOf(token, request.amount), "plain")
                  \o Authorities(request.another, token, "melt")
                  \o Change(token, picked.change)
        fee == IF Version[token] = "fee" THEN CalculateFee(picked.utxos, melted, <<>>) ELSE 0
        htr == SelectUtxos(ServiceUtxos(HTR, free), fee)
        paid == [ok |-> TRUE, utxos |-> <<>>, change |-> 0]
        cover == IF Version[token] = "fee" THEN htr ELSE paid
    IN  IF ~picked.ok \/ authorities = <<>> THEN Failed
        ELSE IF ~cover.ok THEN Failed
        ELSE [Tx(Append(picked.utxos, Head(authorities)) \o cover.utxos,
                 melted \o Change(HTR, cover.change), fee) EXCEPT !.tokens = {token}]

\* prepareDelegateAuthorityData(): the outputs have the authority that was asked for.
PrepareServiceDelegate(request, free) ==
    LET authorities == ServiceAuthorities(request.token, request.kind, free)
        output == Output(request.token, 0, {request.kind}, "authority")
    IN  IF authorities = <<>> THEN Failed
        ELSE [Tx(<<Head(authorities)>>,
                 IF request.another THEN <<output, output>> ELSE <<output>>, 0)
                EXCEPT !.tokens = {request.token}]

\* prepareDestroyAuthorityData()
PrepareServiceDestroy(request, free) ==
    LET authorities == ServiceAuthorities(request.token, request.kind, free)
    IN  IF Len(authorities) < request.amount THEN Failed
        ELSE [Tx(SubSeq(authorities, 1, request.amount), <<>>, 0)
                EXCEPT !.tokens = {request.token}]

=============================================================================
