----------------------------- MODULE TokenData -----------------------------
(***************************************************************************)
(* The token operations of src/utils/tokens.ts and their callers in        *)
(* src/new/wallet.ts: mint, melt, create, delegate and destroy, each from  *)
(* the available utxos to a complete transaction.                          *)
(*                                                                         *)
(* `contractPays` stands for skipDepositFee and skipFeeCalculation: a nano *)
(* contract pays what the operation costs.  The pin, the read-only guard   *)
(* and the checks of addresses are left out.                               *)
(***************************************************************************)
EXTENDS TxFunds

Authority(token, kind) == Output(token, 0, {kind}, "authority")
Another(wanted, token, kind) == IF wanted THEN <<Authority(token, kind)>> ELSE <<>>
DataOutputs(count) == [i \in 1..count |-> Output(HTR, 1, {}, "data")]

\* Inputs and change that cover an amount of a token; none for nothing.
Cover(token, amount, free) ==
    LET Covered(chosen) ==
            IF chosen.amount < amount THEN Failed
            ELSE [ok |-> TRUE, inputs |-> chosen.utxos,
                  outputs |-> Change(token, chosen.amount - amount)]
    IN  IF amount = 0 THEN [ok |-> TRUE, inputs |-> <<>>, outputs |-> <<>>]
        ELSE Covered(BestUtxoSelection(free, token, amount))

\* getTransactionHTRDeposit()
TransactionHTRDeposit(minted, dataCount) == DepositAmount(minted) + DataFee(dataCount)

\* calculateFeeForMintAndCreateToken(): the change does not count, it is not minted.
FeeForMintAndCreate(outputs, token) == FeePerOutput * Cardinality(Carriers(outputs, token))

\* prepareMintTxData(); `created` when the token does not exist yet.
PrepareMintTxData(token, amount, authorities, another, dataCount, contractPays, free) ==
    LET minted == <<Output(token, amount, {}, "mint")>> \o Another(another, token, "mint")
        deposit == IF contractPays THEN 0
                   ELSE IF Version[token] = "deposit"
                   THEN TransactionHTRDeposit(amount, dataCount)
                   ELSE DataFee(dataCount)
        fee == IF contractPays \/ Version[token] = "deposit" THEN 0
               ELSE FeeForMintAndCreate(minted, token)
        Mint(cover) ==
            IF ~cover.ok THEN Failed
            ELSE [Tx(authorities \o cover.inputs,
                     cover.outputs \o minted \o DataOutputs(dataCount), fee)
                    EXCEPT !.tokens = {token}]
    IN  Mint(Cover(HTR, deposit + fee, free))

\* prepareCreateTokenData()
PrepareCreateTokenData(token, amount, mint, melt, dataCount, contractPays, free) ==
    LET Create(tx) ==
            IF ~tx.ok THEN Failed
            ELSE [tx EXCEPT !.outputs = @ \o Another(melt, token, "melt"),
                            !.tokens = {}, !.created = {token}]
    IN  Create(PrepareMintTxData(token, amount, <<>>, mint, dataCount, contractPays, free))

\* prepareMeltTxData(): what is withdrawn pays the data outputs first.
PrepareMeltTxData(token, authority, amount, another, dataCount, free) ==
    LET withdrawn == IF Version[token] = "deposit" THEN WithdrawAmount(amount) ELSE 0
        paid == Min({withdrawn, DataFee(dataCount)})
        Finish(given, melted, fee, cover) ==
            IF ~cover.ok THEN Failed
            ELSE [Tx(<<authority>> \o given.inputs \o cover.inputs,
                     melted \o cover.outputs \o DataOutputs(dataCount), fee)
                    EXCEPT !.tokens = {token}]
        PayFor(given, melted, fee) ==
            Finish(given, melted, fee, Cover(HTR, DataFee(dataCount) - paid + fee, free))
        Charge(given, melted) == PayFor(given, melted, CalculateFee(given.inputs, melted, <<>>))
        Melt(given) ==
            IF ~given.ok THEN Failed
            ELSE Charge(given, given.outputs \o Another(another, token, "melt")
                               \o Positive(HTR, withdrawn - paid, "plain"))
    IN  IF UtxoOf[authority].authorities # {"melt"} THEN Failed
        ELSE Melt(Cover(token, amount, free))

\* prepareDelegateAuthorityTxData(): the outputs have all authorities of the input.
PrepareDelegateAuthorityTxData(token, authority, another) ==
    LET output == Output(token, 0, UtxoOf[authority].authorities, "authority")
    IN  [Tx(<<authority>>, IF another THEN <<output, output>> ELSE <<output>>, 0)
            EXCEPT !.tokens = {token}]

\* prepareDestroyAuthorityTxData()
PrepareDestroyAuthorityTxData(authorities) == Tx(authorities, <<>>, 0)

-----------------------------------------------------------------------------
(* The callers in new/wallet.ts *)

\* getAuthorityUtxo() of the available utxos, all of them in the order of the storage.
AuthorityUtxos(token, kind, free) ==
    Sorted({u \in free : UtxoOf[u].token = token /\ kind \in UtxoOf[u].authorities}, Stored)

\* prepareMintTokensData()
PrepareMintTokens(request, free) ==
    LET authorities == AuthorityUtxos(request.token, "mint", free)
    IN  IF authorities = <<>> THEN Failed
        ELSE PrepareMintTxData(request.token, request.amount, <<Head(authorities)>>,
                               request.another, request.data, FALSE, free)

\* prepareMeltTokensData()
PrepareMeltTokens(request, free) ==
    LET authorities == AuthorityUtxos(request.token, "melt", free)
    IN  IF authorities = <<>> THEN Failed
        ELSE PrepareMeltTxData(request.token, Head(authorities), request.amount,
                               request.another, request.data, free)

\* prepareCreateNewToken(), createNFTSendTransaction() included.
PrepareCreateNewToken(request, free) ==
    PrepareCreateTokenData(request.token, request.amount, request.another, request.another,
                           request.data, FALSE, free)

\* prepareDelegateAuthorityData()
PrepareDelegateAuthority(request, free) ==
    LET authorities == AuthorityUtxos(request.token, request.kind, free)
    IN  IF authorities = <<>> THEN Failed
        ELSE PrepareDelegateAuthorityTxData(request.token, Head(authorities), request.another)

\* prepareDestroyAuthorityData()
PrepareDestroyAuthority(request, free) ==
    LET authorities == AuthorityUtxos(request.token, request.kind, free)
    IN  IF Len(authorities) < request.amount THEN Failed
        ELSE PrepareDestroyAuthorityTxData(SubSeq(authorities, 1, request.amount))

=============================================================================
