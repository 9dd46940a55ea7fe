----------------------------- MODULE NanoFields -----------------------------
(***************************************************************************)
(* The arguments of a nano contract method as bytes (nano_contracts/fields *)
(* and ncTypes/parser.ts for the writing, nano_contracts/parser.ts for the *)
(* reading).                                                               *)
(*                                                                         *)
(* A type is a record with its kind: a simple one, or one that contains    *)
(* other types.  Sets, deques and frozen sets are lists; a dictionary is   *)
(* the sequence of its entries; a text is its bytes; an optional value is  *)
(* None or [some |-> value].                                               *)
(***************************************************************************)
EXTENDS TxBytes

CONSTANTS MaxArg,  \* longest text or byte string of an argument
          HTR

Tag(present) == IF present THEN <<1>> ELSE <<0>>
WriteBytes(s) == EncodeLeb128(Len(s), FALSE) \o s
ReadBytes(b) == Prefixed(Checked(DecodeLeb128(b, FALSE, 3), LAMBDA n : n <= MaxArg))
\* A signed number of four bytes.
WriteSigned(v) == IntToBytes(v, Short)
AsSigned(v) == IF v > MaxShort THEN v - Byte ^ Short ELSE v
ReadSigned(b) == As(UnpackToInt(Short, b), AsSigned)
ReadBool(b) ==
    As(Checked(OneByte(b), LAMBDA tag : tag \in {0, 1}), LAMBDA tag : tag = 1)

WriteTokenUid(t) == IF t = HTR THEN <<0>> ELSE <<1, t>>
ReadTokenUid(b) ==
    IF b = <<>> THEN Failed(b)
    ELSE IF Head(b) = 0 THEN Found(HTR, Tail(b))
    ELSE IF Head(b) = 1 THEN UnpackToHex(Tail(b)) ELSE Failed(b)
\* An address field is read as the address of a key, whatever was written.
ReadAddressField(b) == ReadAddress(b, {"p2pkh"})
WriteCaller(c) == IF c.type = "contract" THEN <<1, c.id>> ELSE <<0>> \o Decode(c)
ReadCaller(b) ==
    IF b = <<>> THEN Failed(b)
    ELSE IF Head(b) = 0 THEN ReadAddressField(Tail(b))
    ELSE IF Head(b) = 1
    THEN As(UnpackToHex(Tail(b)), LAMBDA id : [type |-> "contract", id |-> id])
    ELSE Failed(b)

Simple == {"int", "Amount", "Timestamp", "bool", "bytes", "str", "bytes32", "TokenUid",
           "Address", "CallerId"}
WriteSimple(kind, v) ==
    CASE kind = "int" -> EncodeLeb128(v, TRUE)
      [] kind = "Amount" -> EncodeLeb128(v, FALSE)
      [] kind = "Timestamp" -> WriteSigned(v)
      [] kind = "bool" -> Tag(v)
      [] kind \in {"bytes", "str"} -> WriteBytes(v)
      [] kind = "bytes32" -> <<v>>
      [] kind = "TokenUid" -> WriteTokenUid(v)
      [] kind = "Address" -> Decode(v)
      [] kind = "CallerId" -> WriteCaller(v)
ReadSimple(kind, b) ==
    CASE kind = "int" -> DecodeLeb128(b, TRUE, None)
      [] kind = "Amount" -> DecodeLeb128(b, FALSE, None)
      [] kind = "Timestamp" -> ReadSigned(b)
      [] kind = "bool" -> ReadBool(b)
      [] kind \in {"bytes", "str"} -> ReadBytes(b)
      [] kind = "bytes32" -> UnpackToHex(b)
      [] kind = "TokenUid" -> ReadTokenUid(b)
      [] kind = "Address" -> ReadAddressField(b)
      [] kind = "CallerId" -> ReadCaller(b)

RECURSIVE ToBuffer(_, _)
ToBuffer(t, v) ==
    CASE t.kind \in Simple -> WriteSimple(t.kind, v)
      [] t.kind = "optional" -> IF v = None THEN <<0>> ELSE <<1>> \o ToBuffer(t.inner, v.some)
      [] t.kind = "signed" -> ToBuffer(t.inner, v.value) \o WriteBytes(v.signature)
      [] t.kind = "tuple" -> FlattenSeq([i \in DOMAIN v |-> ToBuffer(t.elements[i], v[i])])
      [] t.kind = "list" ->
            EncodeLeb128(Len(v), FALSE) \o FlattenSeq([i \in DOMAIN v |-> ToBuffer(t.inner, v[i])])
      [] t.kind = "dict" ->
            EncodeLeb128(Len(v), FALSE)
                \o FlattenSeq([i \in DOMAIN v |-> ToBuffer(t.key, v[i][1]) \o ToBuffer(t.value, v[i][2])])

RECURSIVE FromBuffer(_, _)
\* Things of these types, one after the other.
InTurn(types, b) ==
    FoldLeft(LAMBDA p, t : IF p.ok THEN As(FromBuffer(t, p.rest), LAMBDA v : Append(p.v, v)) ELSE p,
             Found(<<>>, b), types)
Times(n, types) == FlattenSeq([i \in 1..n |-> types])
Pairs(s) == [i \in 1..Len(s) \div 2 |-> <<s[2 * i - 1], s[2 * i]>>]
ManyOf(r, types) == IF r.ok THEN InTurn(Times(r.v, types), r.rest) ELSE r
ReadOptional(t, b) ==
    IF b = <<>> THEN Failed(b)
    ELSE IF Head(b) = 0 THEN Found(None, Tail(b))
    ELSE As(FromBuffer(t.inner, Tail(b)), LAMBDA v : [some |-> v])
FromBuffer(t, b) ==
    CASE t.kind \in Simple -> ReadSimple(t.kind, b)
      [] t.kind = "optional" -> ReadOptional(t, b)
      [] t.kind = "signed" ->
            As(InTurn(<<t.inner, [kind |-> "bytes"]>>, b),
               LAMBDA s : [value |-> s[1], signature |-> s[2]])
      [] t.kind = "tuple" -> InTurn(t.elements, b)
      [] t.kind = "list" -> ManyOf(DecodeLeb128(b, FALSE, None), <<t.inner>>)
      [] t.kind = "dict" -> As(ManyOf(DecodeLeb128(b, FALSE, None), <<t.key, t.value>>), Pairs)

SerializeArgs(types, values) ==
    EncodeLeb128(Len(values), FALSE)
        \o FlattenSeq([i \in DOMAIN values |-> ToBuffer(types[i], values[i])])
\* The number of arguments is that of the method, and nothing is left over.
ParseArguments(types, b) ==
    LET n == DecodeLeb128(b, FALSE, None)
        r == InTurn(types, n.rest)
    IN IF n.ok /\ n.v = Len(types) /\ r.ok /\ r.rest = <<>> THEN r ELSE Failed(b)
=============================================================================
