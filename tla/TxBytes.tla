------------------------------- MODULE TxBytes -------------------------------
(***************************************************************************)
(* A transaction as bytes: models/transaction.ts, create_token_            *)
(* transaction.ts, input.ts, output.ts, shielded_output.ts, headers/,      *)
(* nano_contracts/header.ts and on_chain_blueprint.ts.                     *)
(*                                                                         *)
(* An input's data, a nano header's script and a blueprint's signature are *)
(* <<>> until they are signed.                                             *)
(***************************************************************************)
EXTENDS Wire

All(list, Write(_)) == FlattenSeq([i \in DOMAIN list |-> Write(list[i])])
Counted(list, Write(_)) == IntToBytes(Len(list), 1) \o All(list, Write)
\* A count and then that many things.
Listed(r, Read(_)) == IF r.ok THEN Many(r.v, Read, r.rest) ELSE r
ReadCounted(b, Read(_)) == Listed(OneByte(b), Read)

-----------------------------------------------------------------------------
(* Inputs and outputs. *)

WriteInput(i, addData) ==
    <<i.hash>> \o IntToBytes(i.index, 1) \o Var(IF addData THEN i.data ELSE <<>>, 2)
ReadInput(b) ==
    Field(Field(Field(Begin(b), "hash", UnpackToHex), "index", OneByte), "data", VarTwo)

WriteOutput(o) ==
    OutputValueToBytes(o.value) \o IntToBytes(o.tokenData, 1) \o Var(o.script, 2)
ReadOutput(b) ==
    Checked(Field(Field(Field(Begin(b), "value", BytesToOutputValue), "tokenData", OneByte),
                  "script", VarTwo),
            LAMBDA o : o.value > 0)

AuthorityMask == Byte \div 2
IsAuthority(o) == o.tokenData >= AuthorityMask
\* The token of an output: 0 is HTR, i the i-th of the transaction's tokens.
TokenIndex(o) == o.tokenData % AuthorityMask
OutputsSum(tx) ==
    FoldLeft(LAMBDA s, o : IF IsAuthority(o) THEN s ELSE s + o.value, 0, tx.outputs)

AmountShielded == 1
FullShielded == 2

WriteMode(o, includeProof) ==
    IF o.mode = AmountShielded THEN IntToBytes(o.tokenData, 1)
    ELSE <<o.assetCommitment>> \o (IF includeProof THEN Var(o.surjectionProof, 2) ELSE <<>>)
WriteShielded(o) ==
    IntToBytes(o.mode, 1) \o <<o.commitment>> \o Var(o.rangeProof, 2) \o Var(o.script, 2)
        \o WriteMode(o, TRUE) \o <<o.ephemeralPubkey>>
SighashShielded(o) ==
    IntToBytes(o.mode, 1) \o <<o.commitment>> \o WriteMode(o, FALSE) \o o.script
        \o <<o.ephemeralPubkey>>

ReadOpening(b) ==
    Checked(Field(Field(Field(Field(Begin(b), "mode", OneByte), "commitment", UnpackToHex),
                        "rangeProof", VarTwo), "script", VarTwo),
            LAMBDA o : Len(o.rangeProof) <= MaxProof /\ Len(o.script) <= MaxProof)
ReadMode(p) ==
    IF p.ok /\ p.v.mode = AmountShielded THEN Field(p, "tokenData", OneByte)
    ELSE IF p.ok /\ p.v.mode = FullShielded
    THEN Checked(Field(Field(p, "assetCommitment", UnpackToHex), "surjectionProof", VarTwo),
                 LAMBDA o : Len(o.surjectionProof) <= MaxProof)
    ELSE Failed(p.rest)
ReadShielded(b) == Field(ReadMode(ReadOpening(b)), "ephemeralPubkey", UnpackToHex)

-----------------------------------------------------------------------------
(* Headers. *)

HeaderId == [nano |-> 16, fee |-> 17, shielded |-> 18, unshield |-> 19, mint |-> 20, melt |-> 21]

WriteEntry(e) == IntToBytes(e.tokenIndex, 1) \o OutputValueToBytes(e.amount)
ReadEntry(b) == Field(Field(Begin(b), "tokenIndex", OneByte), "amount", BytesToOutputValue)

\* Entries of a mint or a melt header: the amount always takes eight bytes.
WriteSupply(e) == IntToBytes(e.tokenIndex, 1) \o IntToBytes(e.amount, Long)
ReadSupply(b) ==
    Field(Field(Begin(b), "tokenIndex", OneByte), "amount", LAMBDA r : UnpackToInt(Long, r))
SupplyIsValid(es) ==
    /\ Len(es) \in 1..MaxEntries
    /\ \A i \in DOMAIN es : es[i].tokenIndex \in 1..MaxEntries /\ es[i].amount >= 1
    /\ \A i, j \in DOMAIN es : es[i].tokenIndex = es[j].tokenIndex => i = j

WriteAction(a) == IntToBytes(a.type, 1) \o WriteEntry(a)
ReadAction(b) ==
    Field(Field(Field(Begin(b), "type", OneByte), "tokenIndex", OneByte),
          "amount", BytesToOutputValue)
WriteNano(h, addScript) ==
    <<h.nanoId>> \o EncodeLeb128(h.seqnum, FALSE) \o Var(h.method, 1) \o Var(h.args, 2)
        \o Counted(h.actions, WriteAction) \o Decode(h.address)
        \o EncodeLeb128(IF addScript THEN Len(h.script) ELSE 0, FALSE)
        \o (IF addScript THEN h.script ELSE <<>>)
NanoCall(b) ==
    Field(Field(Field(Field(Begin(b), "nanoId", UnpackToHex),
                      "seqnum", LAMBDA r : DecodeLeb128(r, FALSE, 2 * Short)),
                "method", VarOne), "args", VarTwo)
ReadNano(b) ==
    Field(Field(Field(NanoCall(b), "actions", LAMBDA r : ReadCounted(r, ReadAction)),
                "address", LAMBDA r : ReadAddress(r, {"p2pkh", "p2sh"})),
          "script", LAMBDA r : Prefixed(DecodeLeb128(r, FALSE, 2)))

ShieldedIsValid(os) == Len(os) \in 1..MaxShielded
HeaderIsValid(h) ==
    /\ h.kind \in {"mint", "melt"} => SupplyIsValid(h.entries)
    /\ h.kind = "shielded" => ShieldedIsValid(h.outputs)
    /\ h.kind = "fee" => \A i \in DOMAIN h.entries : IsValue(h.entries[i].amount)
    /\ h.kind = "nano" => \A i \in DOMAIN h.actions : IsValue(h.actions[i].amount)

\* What a header adds to the bytes, and to the data that is signed.
WriteBody(h) ==
    CASE h.kind = "nano" -> WriteNano(h, TRUE)
      [] h.kind = "fee" -> Counted(h.entries, WriteEntry)
      [] h.kind = "shielded" -> Counted(h.outputs, WriteShielded)
      [] h.kind = "unshield" -> <<h.excess>>
      [] OTHER -> Counted(h.entries, WriteSupply)
WriteHeader(h) == <<HeaderId[h.kind]>> \o WriteBody(h)
SighashBody(h) ==
    CASE h.kind = "nano" -> WriteNano(h, FALSE)
      [] h.kind = "shielded" -> Counted(h.outputs, SighashShielded)
      [] OTHER -> WriteBody(h)
\* Faulty: what is signed includes the caller's script.
SighashWithScript(h) == WriteHeader(h)
SerializeSighash(h) == <<HeaderId[h.kind]>> \o SighashBody(h)

ReadBody(kind, b) ==
    CASE kind = "nano" -> ReadNano(b)
      [] kind = "fee" -> Field(Begin(b), "entries", LAMBDA r : ReadCounted(r, ReadEntry))
      [] kind = "shielded" ->
            Checked(Field(Begin(b), "outputs", LAMBDA r : ReadCounted(r, ReadShielded)),
                    LAMBDA h : ShieldedIsValid(h.outputs))
      [] kind = "unshield" -> Field(Begin(b), "excess", UnpackToHex)
      [] OTHER -> Checked(Field(Begin(b), "entries", LAMBDA r : ReadCounted(r, ReadSupply)),
                          LAMBDA h : SupplyIsValid(h.entries))
KindsOf(b) == {k \in DOMAIN HeaderId : HeaderId[k] = Head(b)}
ReadHeader(b) ==
    IF KindsOf(b) = {} THEN Failed(b)
    ELSE LET kind == CHOOSE k \in KindsOf(b) : TRUE
         IN As(ReadBody(kind, Tail(b)), LAMBDA h : ("kind" :> kind) @@ h)

\* Headers are read until the buffer is empty; a single byte left is not one.
GetHeaders(b) ==
    IF Len(b) <= 1 THEN Found(<<>>, b)
    ELSE FoldLeft(LAMBDA p, i : IF p.ok /\ p.rest # <<>>
                                THEN As(ReadHeader(p.rest), LAMBDA h : Append(p.v, h)) ELSE p,
                  Found(<<>>, b), b)

-----------------------------------------------------------------------------
(* Transactions. *)

DefaultTx == 1
CreateToken == 2
Blueprint == 6
IsToken(tx) == tx.version = CreateToken

\* A name is a sequence of characters, a character its one or two bytes; the
\* first byte of two is in the upper half.
Utf8(text) == FlattenSeq(text)
IsLead(c) == Len(c) = 1 /\ c[1] >= Byte \div 2
Characters(bytes) ==
    FoldLeft(LAMBDA text, b : IF text # <<>> /\ IsLead(Last(text))
                              THEN Append(Front(text), Append(Last(text), b))
                              ELSE Append(text, <<b>>), <<>>, bytes)
TextIsWritable(text) == Len(text) \in 1..MaxText
WriteText(text) == Var(Utf8(text), 1)
TokenInfo(tx) == IntToBytes(tx.tokenVersion, 1) \o WriteText(tx.name) \o WriteText(tx.symbol)
\* The limit is of characters when it is written, and of bytes when it is read.
ReadText(b) == As(Checked(VarOne(b), LAMBDA s : Len(s) <= MaxText), Characters)
ReadTokenInfo(p) ==
    Field(Field(Checked(Field(p, "tokenVersion", OneByte), LAMBDA tx : tx.tokenVersion \in {1, 2}),
                "name", ReadText), "symbol", ReadText)

Lengths(tx) ==
    (IF IsToken(tx) THEN <<>> ELSE IntToBytes(Len(tx.tokens), 1))
        \o IntToBytes(Len(tx.inputs), 1) \o IntToBytes(Len(tx.outputs), 1)
Arrays(tx, addData) ==
    (IF IsToken(tx) THEN <<>> ELSE tx.tokens)
        \o All(tx.inputs, LAMBDA i : WriteInput(i, addData)) \o All(tx.outputs, WriteOutput)
CodeFields(tx, addData) ==
    <<1>> \o Var(tx.code, Short) \o Var(tx.pubkey, 1)
        \o Var(IF addData THEN tx.signature ELSE <<>>, 1)
SerializeFunds(tx, addData) ==
    <<tx.signalBits, tx.version>> \o Lengths(tx) \o Arrays(tx, addData)
        \o (IF IsToken(tx) THEN TokenInfo(tx) ELSE <<>>)
        \o (IF tx.version = Blueprint THEN CodeFields(tx, addData) ELSE <<>>)
SerializeGraph(tx) ==
    <<tx.weight>> \o IntToBytes(tx.timestamp, Short) \o IntToBytes(Len(tx.parents), 1)
        \o tx.parents
SerializeNonce(tx) == IntToBytes(tx.nonce, Short)
\* A blueprint is written without its headers.
SerializeHeaders(tx) == IF tx.version = Blueprint THEN <<>> ELSE All(tx.headers, WriteHeader)

ToBytes(tx) ==
    SerializeFunds(tx, TRUE) \o SerializeGraph(tx) \o SerializeNonce(tx) \o SerializeHeaders(tx)
DataToSign(tx) == SerializeFunds(tx, FALSE) \o All(tx.headers, SerializeSighash)
HashOf(tx) ==
    Digest(SerializeFunds(tx, TRUE) \o SerializeGraph(tx) \o All(tx.headers, WriteHeader)
               \o SerializeNonce(tx))

\* What a transaction weighs at least grows with its size, two parents
\* included, and with its transparent value; the formula is left out.
ParentsToCome(tx) == IF tx.parents = <<>> THEN 2 ELSE 0
AtLeastOne(n) == IF n < 1 THEN 1 ELSE n
CalculateWeight(tx) ==
    (Len(ToBytes(tx)) + ParentsToCome(tx)) * MaxValue + AtLeastOne(OutputsSum(tx))

\* The writers throw nothing.
IsWritable(tx) ==
    /\ IsToken(tx) => TextIsWritable(tx.name) /\ TextIsWritable(tx.symbol)
    /\ \A i \in DOMAIN tx.outputs : IsValue(tx.outputs[i].value)
    /\ \A i \in DOMAIN tx.headers : HeaderIsValid(tx.headers[i])
\* The counts of a transaction are one byte each.
MaxInputs == Byte - 1
MaxOutputs == Byte - 1
ShieldedOf(tx) ==
    FlattenSeq([i \in DOMAIN tx.headers |->
                    IF tx.headers[i].kind = "shielded" THEN tx.headers[i].outputs ELSE <<>>])
Validate(tx) ==
    /\ Len(tx.inputs) <= MaxInputs
    /\ Len(tx.outputs) <= MaxOutputs
    /\ Len(ShieldedOf(tx)) <= MaxShielded

Put(p, name, v) == IF p.ok THEN Found(p.v @@ (name :> v), p.rest) ELSE p
GetOpening(b) == Field(Field(Begin(b), "signalBits", OneByte), "version", OneByte)
GetTokens(p) ==
    IF p.ok /\ p.v.version # CreateToken THEN Field(p, "nTokens", OneByte)
    ELSE Put(p, "nTokens", 0)
GetLengths(p) == Field(Field(p, "nInputs", OneByte), "nOutputs", OneByte)
GetArrays(p) ==
    Field(Field(Field(p, "tokens", LAMBDA b : Many(p.v.nTokens, UnpackToHex, b)),
                "inputs", LAMBDA b : Many(p.v.nInputs, ReadInput, b)),
          "outputs", LAMBDA b : Many(p.v.nOutputs, ReadOutput, b))
GetFunds(b) == GetArrays(GetLengths(GetTokens(GetOpening(b))))
GetInfo(p) == IF p.ok /\ p.v.version = CreateToken THEN ReadTokenInfo(p) ELSE p
GetGraph(p) ==
    Field(Field(Field(Field(p, "weight", UnpackToHex), "timestamp", FourBytes),
                "parents", LAMBDA b : ReadCounted(b, UnpackToHex)), "nonce", FourBytes)
CreateFromBytes(b) == Field(GetGraph(GetInfo(GetFunds(b))), "headers", GetHeaders)
CreateTxFromBytes(b) ==
    IF Len(b) < 2 \/ b[2] \notin {DefaultTx, CreateToken} THEN Failed(b) ELSE CreateFromBytes(b)
=============================================================================
