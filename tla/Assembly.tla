------------------------------ MODULE Assembly ------------------------------
(***************************************************************************)
(* How a transaction that is paid for becomes the bytes that are pushed:   *)
(* the blinding factors of shielded outputs, the headers that close the    *)
(* balance, the output scripts and token indexes, the signatures, the      *)
(* weight, and the copy put in the wallet's history (shielded/creation.ts, *)
(* the end of SendTransaction.prepareTxData, utils/transaction.ts and      *)
(* models/transaction.ts).                                                 *)
(*                                                                         *)
(* A plan is what the caller asked for with its inputs chosen.  Its data   *)
(* (IDataTx) is made by the send path, or is the plan itself for a token   *)
(* operation, a nano contract call and an on-chain blueprint, which has no *)
(* inputs and no outputs.  Blinding factors are numbers modulo Prime; a    *)
(* commitment is its opening.                                              *)
(***************************************************************************)
EXTENDS NanoFields

CONSTANTS
    Plans,    \* what the caller may ask for
    Spent,    \* the transactions inputs may spend, by hash
    Stored,   \* those in the wallet's storage; the others are asked for
    Owned,    \* the wallet's addresses, by hash: their chain and index
    Prime,    \* blinding factors are below it
    MaxHidden,\* value of a shielded output: 2^40
    MaxDomain,\* inputs a proof of a hidden token is made against: 256
    Clock, Parents, Nonce \* times, and what the miner answers

VARIABLES
    plan, \* what was asked for
    data, \* IDataTx, or None
    tx,   \* the Transaction, or None
    phase \* "planned", "prepared", "created", "signed", "mined" or "error"

vars == <<plan, data, tx, phase>>

Hold(xs) == {xs[i] : i \in DOMAIN xs}
SumOf(xs, F(_)) == FoldLeft(LAMBDA s, x : s + F(x), 0, xs)
Such(xs, P(_)) == SelectSeq(xs, P)

-----------------------------------------------------------------------------
(* Storage. *)

\* Faulty: the index is used on the transparent outputs alone.
ResolveByPosition(s, index) ==
    IF index < Len(s.outputs) THEN [kind |-> "transparent", output |-> s.outputs[index + 1]]
    ELSE None
\* The on-chain index of a shielded output comes after the transparent ones.
ResolveSpentOutput(s, index) ==
    IF index < Len(s.outputs) THEN [kind |-> "transparent", output |-> s.outputs[index + 1]]
    ELSE IF index < Len(s.outputs) + Len(s.shielded)
    THEN [kind |-> "shielded", output |-> s.shielded[index + 1 - Len(s.outputs)]]
    ELSE None

\* The utxo of an input, as the storage keeps it.
Utxo(i) == (Spent[i.hash].outputs \o Spent[i.hash].shielded)[i.index + 1]
IsShielded(i) == i.index >= Len(Spent[i.hash].outputs)

-----------------------------------------------------------------------------
(* Shielded outputs. *)

\* The factors of an entry, as they enter the balance.
Blinding(e) == (e.value * e.gbf + e.vbf) % Prime
ComputeBalancingBlindingFactor(value, gbf, ins, outs) ==
    (SumOf(ins, Blinding) - SumOf(outs, Blinding) - value * gbf) % Prime
BlindedInputs(d) ==
    LET blinded == Such(d.inputs, IsShielded)
    IN [i \in DOMAIN blinded |-> Utxo(blinded[i])]

\* Commitments: to a value and its factors, and to a token and its factor.
Commitment(v, vbf, gbf) == Byte + (v * Prime + vbf) * Prime + gbf
AssetCommitment(t, gbf) == Byte + t * Prime + gbf

\* Every factor drawn at random.
Drawn(defs, r) ==
    [i \in DOMAIN defs |->
        [value |-> defs[i].value, vbf |-> r[i].vbf,
         gbf |-> IF defs[i].mode = FullShielded THEN r[i].gbf ELSE 0]]
\* Faulty: the last output's factor is balanced as if it had no asset factor.
FactorsWithoutAsset(drawn, ins) ==
    LET n == Len(drawn)
    IN [drawn EXCEPT ![n].vbf =
            ComputeBalancingBlindingFactor(drawn[n].value, 0, ins, SubSeq(drawn, 1, n - 1))]
\* Only the last output is given the factor that closes the balance.
WithFactors(drawn, ins) ==
    LET n == Len(drawn)
    IN [drawn EXCEPT ![n].vbf = ComputeBalancingBlindingFactor(
            drawn[n].value, drawn[n].gbf, ins, SubSeq(drawn, 1, n - 1))]

\* A scan key is a whole point of the curve, never what is left of a cut one.
IsPubkey(key) == key >= Byte
CanCreate(defs, inputs) ==
    /\ Len(defs) \in 2..MaxShielded
    /\ \A i \in DOMAIN defs :
            /\ defs[i].value \in 1..MaxHidden - 1
            /\ IsPubkey(defs[i].scan)
            /\ defs[i].timelock \in 0..Byte ^ Short - 1
    \* Whatever the modes, every input of a token is in the domain.
    /\ Len(inputs) <= MaxDomain
    \* The proof of a hidden token is made against the tokens of the inputs.
    /\ \A i \in DOMAIN defs : defs[i].mode = FullShielded =>
            defs[i].token \in {inputs[j].token : j \in DOMAIN inputs}
CreateShieldedOutputs(defs, r, ins) ==
    LET f == WithFactors(Drawn(defs, r), ins)
    IN [i \in DOMAIN defs |->
            [def |-> defs[i], gbf |-> f[i].gbf, vbf |-> f[i].vbf,
             commitment |-> Commitment(defs[i].value, f[i].vbf, f[i].gbf)]]

-----------------------------------------------------------------------------
(* The data of a transaction. *)

ShieldedDefs(d) == Such(d.outputs, LAMBDA o : o.mode # 0)
Transparent(d) == Such(d.outputs, LAMBDA o : o.mode = 0)
Reorder(xs, p) == [i \in DOMAIN xs |-> xs[p[i]]]
FeeHeaders(fee) ==
    IF fee > 0 THEN <<[kind |-> "fee", entries |-> <<[tokenIndex |-> 0, amount |-> fee]>>]>>
    ELSE <<>>

\* A token is listed only if an output shows it.
Visible(outputs, shielded) ==
    {o.token : o \in {x \in Hold(outputs) : x.authorities = 0 /\ x.token \notin {HTR, None}}}
        \cup {s.def.token : s \in {x \in Hold(shielded) : x.def.mode # FullShielded}}
\* The factor left over when shielded inputs pay transparent outputs only;
\* transparent entries have no factors, and add nothing.
ExcessOf(d, shielded) ==
    IF shielded = <<>> /\ BlindedInputs(d) # <<>>
    THEN ComputeBalancingBlindingFactor(0, 0, BlindedInputs(d), <<>>) ELSE None
DataOf(p, outputs, shielded) ==
    [p EXCEPT !.outputs = outputs, !.shielded = shielded,
              !.tokens = Such(p.tokens, LAMBDA t : t \in Visible(outputs, shielded)),
              !.headers = FeeHeaders(p.fee), !.excess = ExcessOf(p, shielded)]

Shuffled(n, may) == IF may THEN Permutations(1..n) ELSE {[i \in 1..n |-> i]}
Draws(n) == [1..n -> [vbf : 0..Prime - 1, gbf : 0..Prime - 1]]
\* Outputs keep their order when no change was added; shielded ones never do.
PrepareTxData ==
    /\ phase = "planned" /\ plan.path = "send"
    /\ UNCHANGED <<plan, tx>>
    /\ IF ShieldedDefs(plan) = <<>> \/ CanCreate(ShieldedDefs(plan), plan.inputs)
       THEN \E p \in Shuffled(Len(Transparent(plan)), plan.change),
               q \in Permutations(1..Len(ShieldedDefs(plan))),
               r \in Draws(Len(ShieldedDefs(plan))) :
                /\ data' = DataOf(plan, Reorder(Transparent(plan), p),
                                  IF r = <<>> THEN <<>>
                                  ELSE CreateShieldedOutputs(Reorder(ShieldedDefs(plan), q), r,
                                                             BlindedInputs(plan)))
                /\ phase' = "prepared"
       ELSE /\ phase' = "error"
            /\ UNCHANGED data
\* A token operation, a nano contract call and a blueprint bring their data.
BringData ==
    /\ phase = "planned" /\ plan.path # "send"
    /\ data' = [plan EXCEPT !.headers = FeeHeaders(plan.fee)]
    /\ phase' = "prepared"
    /\ UNCHANGED <<plan, tx>>

-----------------------------------------------------------------------------
(* The transaction made of the data. *)

Created(d) == d.version = CreateToken
IndexIn(tokens, t) ==
    IF \E i \in DOMAIN tokens : tokens[i] = t THEN CHOOSE i \in DOMAIN tokens : tokens[i] = t ELSE 0
GetTokenDataFromOutput(o, tokens) ==
    (IF o.token = None THEN 1 ELSE IndexIn(tokens, o.token))
        + (IF o.authorities = 0 THEN 0 ELSE AuthorityMask)

ShieldedModel(s, tokens) ==
    [mode |-> s.def.mode, commitment |-> s.commitment, rangeProof |-> <<s.commitment>>,
     script |-> CreateScript(s.def), ephemeralPubkey |-> s.def.scan]
        @@ (IF s.def.mode = FullShielded
            THEN [assetCommitment |-> AssetCommitment(s.def.token, s.gbf),
                  surjectionProof |-> <<AssetCommitment(s.def.token, s.gbf)>>]
            ELSE [tokenData |-> IndexIn(tokens, s.def.token)])
ShieldedHeader(d) ==
    IF d.shielded = <<>> THEN <<>>
    ELSE <<[kind |-> "shielded",
            outputs |-> [i \in DOMAIN d.shielded |-> ShieldedModel(d.shielded[i], d.tokens)]]>>
UnshieldHeader(d) ==
    IF d.excess = None THEN <<>> ELSE <<[kind |-> "unshield", excess |-> Byte + d.excess]>>

\* What is minted or melted of each token: what leaves less what comes in.
NewToken == 0
TokensOf(d) == IF Created(d) THEN <<NewToken>> ELSE d.tokens
TokenOf(d, o) ==
    IF o.token # None THEN o.token ELSE IF TokensOf(d) = <<>> THEN None ELSE TokensOf(d)[1]
Delta(d, t) ==
    SumOf(d.outputs, LAMBDA o : IF o.authorities = 0 /\ TokenOf(d, o) = t THEN o.value ELSE 0)
        + SumOf(d.shielded, LAMBDA s : IF s.def.token = t THEN s.def.value ELSE 0)
        - SumOf(d.inputs, LAMBDA i : IF i.authorities = 0 /\ i.token = t THEN i.value ELSE 0)
Has(d, t, masks) ==
    \E i \in DOMAIN d.inputs : d.inputs[i].token = t /\ d.inputs[i].authorities \in masks
MintAuthority == {1, 3}
MeltAuthority == {2, 3}
CanMint(d, t) == Created(d) \/ Has(d, t, MintAuthority)
Supply(kind, d, Declares(_), Amount(_)) ==
    LET tokens == TokensOf(d)
        at == Such([i \in DOMAIN tokens |-> i], LAMBDA i : Declares(tokens[i]))
    IN IF at = <<>> THEN <<>>
       ELSE <<[kind |-> kind,
               entries |-> [j \in DOMAIN at |-> [tokenIndex |-> at[j], amount |-> Amount(tokens[at[j]])]]]>>
IsShieldedTx(d) == d.shielded # <<>> \/ d.excess # None
MintMeltHeaders(d, before) ==
    IF ~IsShieldedTx(d) \/ \E i \in DOMAIN before : before[i].kind \in {"mint", "melt"} THEN <<>>
    ELSE Supply("mint", d, LAMBDA t : Delta(d, t) > 0 /\ CanMint(d, t), LAMBDA t : Delta(d, t))
         \o Supply("melt", d, LAMBDA t : Delta(d, t) < 0 /\ Has(d, t, MeltAuthority),
                   LAMBDA t : -Delta(d, t))
\* Attached after those the data has, which is the order of their numbers.
AttachShieldedHeaders(d) ==
    d.headers \o ShieldedHeader(d) \o UnshieldHeader(d) \o MintMeltHeaders(d, d.headers)

Bare(d) ==
    [version |-> d.version, signalBits |-> 0, tokens |-> IF Created(d) THEN <<>> ELSE d.tokens,
     inputs |-> [i \in DOMAIN d.inputs |->
                    [hash |-> d.inputs[i].hash, index |-> d.inputs[i].index, data |-> <<>>]],
     outputs |-> [i \in DOMAIN d.outputs |->
                    [value |-> d.outputs[i].value, script |-> CreateScript(d.outputs[i]),
                     tokenData |-> GetTokenDataFromOutput(d.outputs[i], d.tokens)]],
     headers |-> <<>>, weight |-> 0, timestamp |-> 0, parents |-> <<>>, nonce |-> 0]
Extra(d) == IF Created(d) THEN d.extra ELSE <<>>
CreateTransactionFromData(d) == [Bare(d) EXCEPT !.headers = AttachShieldedHeaders(d)] @@ Extra(d)

\* The builder of a nano contract call adds its header, and its fee, last.
NanoHeader(n) == [kind |-> "nano", script |-> <<>>] @@ n
WithNano(d) ==
    [CreateTransactionFromData([d EXCEPT !.headers = <<>>])
        EXCEPT !.headers = @ \o <<NanoHeader(d.nano)>> \o FeeHeaders(d.fee)]
\* A blueprint is made on its own: it has its code, and the key of its author.
OnChainBlueprint(d) == [Bare(d) EXCEPT !.inputs = <<>>, !.outputs = <<>>] @@ d.extra
BuiltAlone(d) == d.path \in {"nano", "blueprint"}
WithExcess(d) ==
    IF BuiltAlone(d) \/ d.excess # None \/ d.shielded # <<>> THEN d
    ELSE [d EXCEPT !.excess = ExcessOf(d, <<>>)]
Made(d) ==
    CASE d.path = "nano" -> WithNano(d)
      [] d.path = "blueprint" -> OnChainBlueprint(d)
      [] OTHER -> CreateTransactionFromData(d)
\* The headers attached are pushed on the data's own list.
Pushed(d, t) == IF BuiltAlone(d) THEN d ELSE [d EXCEPT !.headers = t.headers]
\* An output of no value cannot be made; the limits of a transaction are
\* checked for a payment only.
HasValues(d) == \A i \in DOMAIN d.outputs : d.outputs[i].value # 0
PrepareTransaction ==
    /\ phase = "prepared"
    /\ UNCHANGED plan
    /\ \/ /\ HasValues(data)
          /\ tx' = Made(WithExcess(data))
          /\ data' = Pushed(WithExcess(data), tx')
          /\ phase' = IF data.path = "send" => Validate(tx') THEN "created" ELSE "error"
       \/ /\ ~HasValues(data)
          /\ phase' = "error"
          /\ UNCHANGED <<data, tx>>

-----------------------------------------------------------------------------
(* Signatures, weight and mining. *)

\* Addresses are the hashes of public keys, one for each key.
Pubkey(key) == 2 * key.index + (IF key.chain = "spend" THEN 1 ELSE 0)
Signature(signed, key) == Byte + Digest(signed) * 16 + Pubkey(key)
CreateInputData(sig, key) == <<sig, Byte + Pubkey(key)>>

IsMine(a) == a.hash \in DOMAIN Owned
\* An input is signed when its transaction is stored and its address is ours,
\* with the key of the chain the address belongs to.
InputData(i, signed) ==
    IF i.data # <<>> \/ i.hash \notin Stored THEN i.data
    ELSE LET resolved == ResolveSpentOutput(Spent[i.hash], i.index)
         IN IF resolved = None \/ ~IsMine(resolved.output.address) THEN i.data
            ELSE LET key == Owned[resolved.output.address.hash]
                 IN CreateInputData(Signature(signed, key), key)
LegacyKey(a) == [chain |-> "legacy", index |-> Owned[a.hash].index]
CallerScript(a, signed) ==
    IF IsMine(a) THEN CreateInputData(Signature(signed, LegacyKey(a)), LegacyKey(a)) ELSE <<>>
SignHeader(h, signed) ==
    IF h.kind = "nano" THEN [h EXCEPT !.script = CallerScript(h.address, signed)] ELSE h
Signed(t, signed) ==
    [t EXCEPT !.inputs = [i \in DOMAIN @ |-> [@[i] EXCEPT !.data = InputData(t.inputs[i], signed)]],
              !.headers = [i \in DOMAIN @ |-> SignHeader(@[i], signed)]]
BlueprintSigned(t, signed) ==
    IF t.version # Blueprint \/ ~IsMine(t.caller) THEN t
    ELSE [t EXCEPT !.signature = <<Signature(signed, LegacyKey(t.caller))>>]
SignTransaction(t) == BlueprintSigned(Signed(t, DataToSign(t)), DataToSign(t))
PrepareToSend(t, time) ==
    LET timed == [t EXCEPT !.timestamp = time]
    IN [timed EXCEPT !.weight = CalculateWeight(timed)]
\* What is signed is written first: what cannot be written is not signed.
SignTx ==
    /\ phase = "created"
    /\ UNCHANGED <<plan, data>>
    /\ \/ /\ IsWritable(tx)
          /\ \E time \in Clock : tx' = PrepareToSend(SignTransaction(tx), time)
          /\ phase' = "signed"
       \/ /\ ~IsWritable(tx)
          /\ phase' = "error"
          /\ UNCHANGED tx

Mine ==
    /\ phase = "signed"
    /\ \E time \in Clock :
        tx' = [tx EXCEPT !.parents = Parents, !.timestamp = time, !.nonce = Nonce]
    /\ phase' = "mined"
    /\ UNCHANGED <<plan, data>>

-----------------------------------------------------------------------------
(* The copy of the transaction in the wallet's history. *)

HistoryInput(i) ==
    LET resolved == ResolveSpentOutput(Spent[i.hash], i.index)
    IN IF resolved = None \/ (resolved.kind = "shielded" /\ i.hash \notin Stored) THEN None
       ELSE [hash |-> i.hash, index |-> i.index, kind |-> resolved.kind,
             token |-> resolved.output.token, value |-> resolved.output.value]
HydrateToken(o, t) ==
    IF o.tokenData = 0 THEN HTR
    ELSE IF IsToken(t) THEN HashOf(t)
    ELSE IF TokenIndex(o) \in DOMAIN t.tokens THEN t.tokens[TokenIndex(o)] ELSE None
HistoryOutput(o, t) ==
    [value |-> o.value, tokenData |-> o.tokenData, token |-> HydrateToken(o, t),
     decoded |-> ParseScript(o.script)]
ConvertTransactionToHistoryTx(t) ==
    [hash |-> HashOf(t), inputs |-> [i \in DOMAIN t.inputs |-> HistoryInput(t.inputs[i])],
     outputs |-> [i \in DOMAIN t.outputs |-> HistoryOutput(t.outputs[i], t)],
     shielded |-> [i \in DOMAIN ShieldedOf(t) |->
                    [mode |-> ShieldedOf(t)[i].mode, commitment |-> ShieldedOf(t)[i].commitment,
                     decoded |-> ParseScript(ShieldedOf(t)[i].script)]]]

-----------------------------------------------------------------------------
Init ==
    /\ plan \in Plans
    /\ data = None /\ tx = None
    /\ phase = "planned"
Next == PrepareTxData \/ BringData \/ PrepareTransaction \/ SignTx \/ Mine
Spec == Init /\ [][Next]_vars

-----------------------------------------------------------------------------
(* Properties. *)

IsMined == phase = "mined"

\* Reading the bytes pushed gives the transaction they were made of, and the
\* arguments of its nano contract call are the ones that were given.
FromBytes(t) == CreateTxFromBytes(ToBytes(t))
Counts(t) == [nTokens |-> Len(t.tokens), nInputs |-> Len(t.inputs), nOutputs |-> Len(t.outputs)]
ArgumentsReadBack(t) ==
    plan.nano # None =>
        LET r == ParseArguments(plan.call.types, t.headers[1].args)
        IN r.ok /\ r.v = plan.call.values
ReadsBack ==
    IsMined /\ tx.version # Blueprint =>
        /\ FromBytes(tx).ok
        /\ FromBytes(tx).v = tx @@ Counts(tx)
        /\ ArgumentsReadBack(FromBytes(tx).v)

\* What the full node verifies of a transaction with shielded inputs or
\* outputs, whichever factors were drawn: the factors of what it spends are
\* those of what it makes and of the excess it states, and what it spends of
\* each token, with what it declares minted, is what it makes, with what it
\* declares melted.
Opened(c) ==
    [value |-> (c - Byte) \div (Prime * Prime), vbf |-> ((c - Byte) \div Prime) % Prime,
     gbf |-> (c - Byte) % Prime]
EntriesOf(t, kind) ==
    FlattenSeq([i \in DOMAIN t.headers |->
                    IF t.headers[i].kind = kind THEN t.headers[i].entries ELSE <<>>])
ExcessIn(t) ==
    SumOf(t.headers, LAMBDA h : IF h.kind = "unshield" THEN h.excess - Byte ELSE 0)
SpendsShielded(t) == \E i \in DOMAIN t.inputs : IsShielded(t.inputs[i])
HasShielded(t) == SpendsShielded(t) \/ ShieldedOf(t) # <<>>
FactorsClose(t) ==
    (SumOf(BlindedInputs(t), Blinding)
        - SumOf(ShieldedOf(t), LAMBDA o : Blinding(Opened(o.commitment))) - ExcessIn(t)) % Prime = 0
TokenAt(t, i) == IF i = 0 THEN HTR ELSE IF IsToken(t) THEN NewToken ELSE t.tokens[i]
TokenShielded(t, o) ==
    IF o.mode = FullShielded THEN (o.assetCommitment - Byte) \div Prime ELSE TokenAt(t, o.tokenData)
Declared(t, kind, token) ==
    SumOf(EntriesOf(t, kind),
          LAMBDA e : IF TokenAt(t, e.tokenIndex) = token THEN e.amount ELSE 0)
ValueCloses(t, token) ==
    SumOf(t.inputs, LAMBDA i : IF Utxo(i).token = token /\ Utxo(i).authorities = 0
                               THEN Utxo(i).value ELSE 0) + Declared(t, "mint", token)
    = SumOf(t.outputs, LAMBDA o : IF TokenAt(t, TokenIndex(o)) = token /\ ~IsAuthority(o)
                                  THEN o.value ELSE 0)
      + SumOf(ShieldedOf(t), LAMBDA o : IF TokenShielded(t, o) = token
                                        THEN Opened(o.commitment).value ELSE 0)
      + Declared(t, "melt", token)
CustomTokens(t) ==
    ({Utxo(i).token : i \in Hold(t.inputs)} \cup {NewToken} \cup Hold(t.tokens)) \ {HTR}
BalanceCloses ==
    IsMined /\ HasShielded(tx) =>
        /\ FactorsClose(tx)
        /\ ShieldedOf(tx) = <<>> => \E i \in DOMAIN tx.headers : tx.headers[i].kind = "unshield"
        /\ \A token \in CustomTokens(tx) : ValueCloses(tx, token)

\* Every input of the wallet's own, the caller of a nano contract and the
\* author of a blueprint sign what the reader of the bytes will hash, with the
\* key the address they spend from is made of.
AsRead(t) == IF t.version = Blueprint THEN t ELSE FromBytes(t).v
Verifies(script, address, t) ==
    /\ Len(script) = 2
    /\ script[2] = Byte + address.hash
    /\ script[1] = Byte + Digest(DataToSign(t)) * 16 + address.hash
AllVerify(t) ==
    /\ \A i \in Hold(t.inputs) : IsMine(Utxo(i).address) => Verifies(i.data, Utxo(i).address, t)
    /\ \A h \in Hold(t.headers) : h.kind = "nano" => Verifies(h.script, h.address, t)
    /\ t.version = Blueprint =>
            t.signature = <<Byte + Digest(DataToSign(t)) * 16 + t.caller.hash>>
SignaturesHold == IsMined => AllVerify(AsRead(tx))

\* The wallet's own copy of the transaction spends the outputs it really
\* spends, shielded ones included, and every output of it shows the token and
\* the address the caller asked for; a token sent hidden is shown only if an
\* output shows it too.
InputIsRight(h, i) ==
    h # None /\ h.token = Utxo(i).token /\ h.value = Utxo(i).value
        /\ (h.kind = "shielded") = IsShielded(i)
TokenAsked(o, hash) ==
    IF o.token # None THEN o.token ELSE IF Created(data) THEN hash ELSE data.tokens[1]
OutputIsRight(h, o, hash) ==
    /\ h.token = TokenAsked(o, hash) /\ h.value = o.value
    /\ h.decoded # None
    /\ h.decoded.type = o.type
    /\ o.type = "data" => h.decoded.data = o.data
    /\ o.type # "data" => h.decoded.address = o.address /\ h.decoded.timelock = o.timelock
HiddenTokensAreHidden ==
    \A i \in DOMAIN tx.tokens :
        plan.path = "send" => tx.tokens[i] \in Visible(data.outputs, data.shielded)
CopyIsRight(h) ==
    /\ \A i \in DOMAIN tx.inputs : InputIsRight(h.inputs[i], tx.inputs[i])
    /\ \A i \in DOMAIN tx.outputs : OutputIsRight(h.outputs[i], data.outputs[i], h.hash)
    /\ \A i \in DOMAIN h.shielded : h.shielded[i].decoded # None
HistoryIsRight ==
    IsMined => CopyIsRight(ConvertTransactionToHistoryTx(tx)) /\ HiddenTokensAreHidden

=============================================================================
