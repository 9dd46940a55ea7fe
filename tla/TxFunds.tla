------------------------------ MODULE TxFunds ------------------------------
(***************************************************************************)
(* The money of a transaction: what the builders of transactions have in   *)
(* common (src/utils/fee.ts, src/utils/utxo.ts, the amounts of             *)
(* src/utils/tokens.ts), and the rules of the fullnode that a transaction  *)
(* they build must satisfy.                                                *)
(*                                                                         *)
(* A transaction is a record of the utxos it spends, its transparent and   *)
(* shielded outputs, the fee of its header and the contract actions of its *)
(* nano header.  Addresses, scripts and the order of outputs are left out. *)
(***************************************************************************)
EXTENDS Integers, Sequences, FiniteSets, FiniteSetsExt, SequencesExt

CONSTANTS
    HTR,                \* the native token
    TokenOrder,         \* the custom tokens, in the order of the maps of the code
    Version,            \* "deposit" or "fee", of every custom token
    UtxoOrder,          \* the utxos of the wallet, in the order of the storage
    UtxoOf,             \* their token, value, authorities and whether shielded
    DepositNumerator, DepositDenominator,
    FeePerOutput, FeePerAmountShielded, FeePerFullShielded,
    MaxInputs, MaxOutputs, MaxShielded      \* MAX_INPUTS and the like

Tokens == Range(TokenOrder)
FeeTokens == {t \in Tokens : Version[t] = "fee"}
KnownUtxos == Range(UtxoOrder)

ASSUME TxFundsAssumption ==
    /\ TokenOrder \in Seq(Tokens) /\ IsInjective(TokenOrder)
    /\ UtxoOrder \in Seq(KnownUtxos) /\ IsInjective(UtxoOrder)
    /\ HTR \notin Tokens
    /\ Version \in [Tokens -> {"deposit", "fee"}]
    /\ UtxoOf \in [KnownUtxos -> [token : Tokens \cup {HTR}, value : Nat,
                                 authorities : SUBSET {"mint", "melt"}, shielded : BOOLEAN]]
    /\ {DepositNumerator, DepositDenominator, FeePerOutput, FeePerAmountShielded,
        FeePerFullShielded, MaxInputs, MaxOutputs, MaxShielded} \subseteq Nat
    /\ DepositNumerator <= DepositDenominator /\ DepositDenominator > 0

-----------------------------------------------------------------------------
(* Outputs and inputs *)

Output(token, value, authorities, kind) ==
    [token |-> token, value |-> value, authorities |-> authorities, kind |-> kind]

\* Nothing when the value is zero.
Positive(token, value, kind) ==
    IF value = 0 THEN <<>> ELSE <<Output(token, value, {}, kind)>>
Change(token, value) == Positive(token, value, "change")

\* The elements of a sequence of outputs, or of shielded outputs, that carry value.
Carriers(outputs, t) ==
    {i \in DOMAIN outputs : outputs[i].token = t /\ outputs[i].authorities = {}}
Funds(outputs, t) == SumFunction([i \in Carriers(outputs, t) |-> outputs[i].value])

SpentOutputs(inputs) == [i \in DOMAIN inputs |-> UtxoOf[inputs[i]]]
Received(inputs, t) == Funds(SpentOutputs(inputs), t)

\* Faulty: the deposit is rounded down.
DepositAmountDown(minted) == (DepositNumerator * minted) \div DepositDenominator

\* tokens.getDepositAmount() and getWithdrawAmount()
DepositAmount(minted) ==
    (DepositNumerator * minted + DepositDenominator - 1) \div DepositDenominator
WithdrawAmount(melted) == (DepositNumerator * melted) \div DepositDenominator

\* The same for the tokens that take a deposit.
DepositOf(t, amount) == IF Version[t] = "deposit" THEN DepositAmount(amount) ELSE 0
WithdrawOf(t, amount) == IF Version[t] = "deposit" THEN WithdrawAmount(amount) ELSE 0

\* getDataFee(): one unit per data output.
DataFee(count) == count

-----------------------------------------------------------------------------
(* Fee.calculate() *)

\* Faulty: what only comes in is not charged.
CalculateFeeOfOutputs(inputs, outputs, actions) ==
    FeePerOutput * SumFunction([t \in FeeTokens |-> Cardinality(Carriers(outputs, t))])

\* Every output and deposit of a token that pays fees is charged; a token that comes
\* in and does not go out is charged once.
CalculateFee(inputs, outputs, actions) ==
    LET Of(type, t) == {i \in DOMAIN actions :
                            actions[i].type = type /\ actions[i].token = t}
        Charged(t) ==
            LET out == Cardinality(Carriers(outputs, t)) + Cardinality(Of("deposit", t))
            IN  IF out > 0 THEN out
                ELSE IF Carriers(SpentOutputs(inputs), t) # {} \/ Of("withdrawal", t) # {}
                THEN 1 ELSE 0
    IN  FeePerOutput * SumFunction([t \in FeeTokens |-> Charged(t)])

ShieldedFee(mode) == IF mode = "full" THEN FeePerFullShielded ELSE FeePerAmountShielded
ShieldedFees(defs) == SumFunction([i \in DOMAIN defs |-> ShieldedFee(defs[i].mode)])

-----------------------------------------------------------------------------
(* The selection of utxos *)

\* The elements of a finite set in an order, which is a set of pairs.
Sorted(S, before) ==
    [i \in 1..Cardinality(S) |->
        CHOOSE x \in S : Cardinality({y \in S : <<y, x>> \in before}) = i - 1]

\* The elements of a sequence at some of its places, in their order.
Kept(s, at) ==
    LET order == Sorted(at, {p \in at \X at : p[1] < p[2]})
    IN  [i \in DOMAIN order |-> s[order[i]]]

\* The order of the storage, and the two of store.selectUtxos() with order_by_value,
\* which is a stable sort.
Position(u) == CHOOSE i \in DOMAIN UtxoOrder : UtxoOrder[i] = u
Stored == {p \in KnownUtxos \X KnownUtxos : Position(p[1]) < Position(p[2])}
Descending ==
    {p \in KnownUtxos \X KnownUtxos :
        \/ UtxoOf[p[1]].value > UtxoOf[p[2]].value
        \/ UtxoOf[p[1]].value = UtxoOf[p[2]].value /\ p \in Stored}
Ascending ==
    {p \in KnownUtxos \X KnownUtxos :
        \/ UtxoOf[p[1]].value < UtxoOf[p[2]].value
        \/ UtxoOf[p[1]].value = UtxoOf[p[2]].value /\ p \in Stored}

\* The utxos without authorities that selectUtxos() yields for a token.
Available(free, token) ==
    {u \in free : UtxoOf[u].token = token /\ UtxoOf[u].authorities = {}}

Selection(utxos) ==
    [utxos |-> utxos,
     amount |-> SumFunction([i \in DOMAIN utxos |-> UtxoOf[utxos[i]].value])]

\* The first index that satisfies a condition, or the last index.
Until(sorted, Stop(_)) ==
    LET stops == {i \in DOMAIN sorted : Stop(i)}
    IN  IF stops = {} THEN Len(sorted) ELSE Min(stops)

Enough(taken, amount) == IF taken.amount < amount THEN Selection(<<>>) ELSE taken
Taken(sorted, i) == Selection(SubSeq(sorted, 1, i))
TakenUntil(sorted, amount) ==
    Enough(Taken(sorted, Until(sorted, LAMBDA i : Taken(sorted, i).amount >= amount)), amount)

\* Faulty: the lowest values first.
FastUtxoSelectionUp(free, token, amount) == TakenUntil(Sorted(Available(free, token), Ascending), amount)

\* fastUtxoSelection(): the highest values until the amount is reached.
FastUtxoSelection(free, token, amount) == TakenUntil(Sorted(Available(free, token), Descending), amount)

\* Faulty: the first utxo below the amount ends the search.
BestUtxoSelectionEarly(free, token, amount) ==
    LET Search(sorted) ==
            Enough(Taken(sorted, Until(sorted, LAMBDA i : UtxoOf[sorted[i]].value <= amount)), amount)
    IN  Search(Sorted(Available(free, token), Descending))

\* bestUtxoSelection(): one utxo of exactly the amount, or the smallest one above it,
\* or the highest values until the amount is reached.
BestUtxoSelection(free, token, amount) ==
    LET Value(u) == UtxoOf[u].value
        Search(sorted) ==
            LET above == {i \in DOMAIN sorted : Value(sorted[i]) > amount}
                Stops(i) == \/ Value(sorted[i]) = amount
                            \/ /\ Value(sorted[i]) < amount
                               /\ above # {} \/ Taken(sorted, i).amount >= amount
                Found(last) ==
                    IF Value(sorted[last]) = amount THEN Selection(<<sorted[last]>>)
                    ELSE IF above = {} THEN Enough(Taken(sorted, last), amount)
                    ELSE Selection(<<sorted[Min({i \in above :
                            \A j \in above : Value(sorted[i]) <= Value(sorted[j])})]>>)
            IN  IF sorted = <<>> THEN Selection(<<>>) ELSE Found(Until(sorted, Stops))
    IN  Search(Sorted(Available(free, token), Descending))

\* transactionUtils.selectUtxos(): the first utxos of the list until they cover the
\* amount, or instead of them the last of those that cover it alone, each of which makes
\* the loop go on.
SelectUtxos(utxos, amount) ==
    LET Alone(i) == UtxoOf[utxos[i]].value >= amount
        Stops(i) == Taken(utxos, i).amount >= amount /\ i + 1 \in DOMAIN utxos /\ ~Alone(i + 1)
        Chosen(last) ==
            LET alone == {i \in 1..last : Alone(i)}
            IN  IF alone = {} THEN Taken(utxos, last) ELSE Selection(<<utxos[Max(alone)]>>)
        Picked(chosen) ==
            IF amount <= 0 \/ chosen.amount < amount THEN [ok |-> FALSE]
            ELSE [ok |-> TRUE, utxos |-> chosen.utxos, change |-> chosen.amount - amount]
    IN  IF utxos = <<>> THEN [ok |-> FALSE] ELSE Picked(Chosen(Until(utxos, Stops)))

-----------------------------------------------------------------------------
(* Transactions *)

Failed == [ok |-> FALSE]

Tx(inputs, outputs, fee) ==
    [ok |-> TRUE, inputs |-> inputs, outputs |-> outputs, fee |-> fee,
     shielded |-> <<>>, actions |-> <<>>, tokens |-> {}, created |-> {}]

-----------------------------------------------------------------------------
(* The rules of the fullnode *)

Acted(tx, type, t) ==
    LET chosen == {i \in DOMAIN tx.actions :
                      tx.actions[i].type = type /\ tx.actions[i].token = t}
    IN  SumFunction([i \in chosen |-> tx.actions[i].amount])

\* What goes out of a transaction less what comes in.
Excess(tx, t) ==
    Funds(tx.outputs, t) + Funds(tx.shielded, t) + Acted(tx, "deposit", t)
    - Received(tx.inputs, t) - Acted(tx, "withdrawal", t)

Minted(tx) == {t \in Tokens : Excess(tx, t) > 0}
Melted(tx) == {t \in Tokens : Excess(tx, t) < 0}
Grants(tx, authority, t) ==
    \/ \E i \in DOMAIN tx.inputs : /\ UtxoOf[tx.inputs[i]].token = t
                                   /\ authority \in UtxoOf[tx.inputs[i]].authorities
    \/ \E i \in DOMAIN tx.actions : /\ tx.actions[i].token = t
                                    /\ tx.actions[i].type = "acquire"
                                    /\ tx.actions[i].authority = authority

\* The least deposit that is enough, and the most that can be withdrawn.
RequiredDeposit(t, amount) ==
    IF Version[t] = "fee" THEN 0
    ELSE Min({d \in 0..amount : d * DepositDenominator >= DepositNumerator * amount})
AllowedWithdraw(t, amount) ==
    IF Version[t] = "fee" THEN 0
    ELSE Max({w \in 0..amount : w * DepositDenominator <= DepositNumerator * amount})

\* A token is minted or melted under its authority only, and what is left of the
\* native token is the fee and the deposits, less what is withdrawn.
Balanced(tx) ==
    /\ \A t \in Minted(tx) : t \in tx.created \/ Grants(tx, "mint", t)
    /\ \A t \in Melted(tx) : Grants(tx, "melt", t)
    /\ Excess(tx, HTR) + tx.fee
        + SumFunction([t \in Minted(tx) |-> RequiredDeposit(t, Excess(tx, t))])
        = SumFunction([t \in Melted(tx) |-> AllowedWithdraw(t, -Excess(tx, t))])

\* A token that pays fees pays for each output and each deposit that carries it, and
\* for one when it only comes in.
FeeDue(tx, t) ==
    LET Count(type) == Cardinality({i \in DOMAIN tx.actions :
                           tx.actions[i].type = type /\ tx.actions[i].token = t})
        given == Cardinality(Carriers(SpentOutputs(tx.inputs), t)) + Count("withdrawal")
        paid == Cardinality(Carriers(tx.outputs, t)) + Count("deposit")
    IN  IF t \in Tokens /\ Version[t] = "fee" THEN FeePerOutput * Max({paid, Min({given, 1})}) ELSE 0

FeeIsRight(tx) ==
    tx.fee = SumFunction([t \in Tokens |-> FeeDue(tx, t)]) + ShieldedFees(tx.shielded)

=============================================================================
