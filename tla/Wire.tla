-------------------------------- MODULE Wire --------------------------------
(***************************************************************************)
(* How transactions are written to bytes and read back: integers, output   *)
(* values, leb128 numbers, output scripts, inputs, outputs, headers and    *)
(* the transactions themselves (utils/buffer.ts, utils/leb128.ts,          *)
(* utils/scripts.ts, models/ and headers/).                                *)
(*                                                                         *)
(* A buffer is a sequence of numbers.  A number below Byte is a byte; a    *)
(* field of a fixed width that is never looked into (a hash, a token uid,  *)
(* a commitment, a key, a weight, a checked secret) is one number.         *)
(* Writer and reader are separate operators, as they are in the code: that *)
(* one undoes the other is what the runs check.  A reader returns what it  *)
(* read, the rest of the buffer, and whether it found enough to read: an   *)
(* exception of the code is ok |-> FALSE.                                  *)
(***************************************************************************)
EXTENDS Integers, Sequences, FiniteSets, SequencesExt, TLC

CONSTANTS
    Byte,        \* values of a byte: 256
    Short, Long, \* bytes of a small and of a large output value: 4 and 8
    HashSize,    \* bytes of an address hash: 20
    MaxPush,     \* longest data pushed without OP_PUSHDATA1: 75
    MaxEntries,  \* entries of a mint or melt header: 16
    MaxShielded, \* shielded outputs of a transaction
    MaxText,     \* size of a token name or symbol
    MaxProof,    \* size of a proof or script of a shielded output
    None

ASSUME WireAssumption ==
    /\ {Byte, Short, Long, HashSize} \subseteq Nat \ {0}
    /\ Byte % 2 = 0 /\ Long = 2 * Short
    /\ MaxPush + 7 < Byte \* the opcodes are bytes, and none is a length pushed

-----------------------------------------------------------------------------
(* Readers. *)

Found(v, rest) == [ok |-> TRUE, v |-> v, rest |-> rest]
Failed(b) == [ok |-> FALSE, v |-> None, rest |-> b]
\* What was read, turned into what it stands for.
As(r, F(_)) == IF r.ok THEN Found(F(r.v), r.rest) ELSE r
\* One more field read into the record p.
Field(p, name, Read(_)) ==
    IF p.ok THEN As(Read(p.rest), LAMBDA v : p.v @@ (name :> v)) ELSE p
Begin(b) == Found(<<>>, b)
\* A condition the code checks on what it has read.
Checked(p, Good(_)) == IF p.ok /\ Good(p.v) THEN p ELSE Failed(p.rest)

UnpackLen(n, b) ==
    IF Len(b) < n THEN Failed(b)
    ELSE Found(SubSeq(b, 1, n), SubSeq(b, n + 1, Len(b)))
Number(bytes) == FoldLeft(LAMBDA v, d : v * Byte + d, 0, bytes)
UnpackToInt(n, b) == As(UnpackLen(n, b), Number)
UnpackToHex(b) == As(UnpackLen(1, b), Head)
\* A number of bytes and then that many bytes.
Prefixed(r) == IF r.ok THEN UnpackLen(r.v, r.rest) ELSE r
UnpackVar(n, b) == Prefixed(UnpackToInt(n, b))
\* n things of one kind, one after the other.
Many(n, Read(_), b) ==
    FoldLeft(LAMBDA p, i : IF p.ok THEN As(Read(p.rest), LAMBDA v : Append(p.v, v)) ELSE p,
             Found(<<>>, b), [i \in 1..n |-> i])

OneByte(b) == UnpackToInt(1, b)
VarOne(b) == UnpackVar(1, b)
VarTwo(b) == UnpackVar(2, b)
FourBytes(b) == UnpackToInt(Short, b)

-----------------------------------------------------------------------------
(* Numbers. *)

\* intToBytes keeps the low bytes of what it is given.
IntToBytes(v, n) == [i \in 1..n |-> (v \div Byte ^ (n - i)) % Byte]
Var(s, n) == IntToBytes(Len(s), n) \o s

MaxShort == Byte ^ Short \div 2 - 1
MaxValue == Byte ^ Long \div 2
IsValue(v) == v \in 1..MaxValue
\* Faulty: a value of exactly 2^31 is written in the small form.
OutputValueOffByOne(v) ==
    IF v > MaxShort + 1 THEN IntToBytes(Byte ^ Long - v, Long) ELSE IntToBytes(v, Short)
\* A value that does not fit the small form is written negated.
OutputValueToBytes(v) ==
    IF v > MaxShort THEN IntToBytes(Byte ^ Long - v, Long) ELSE IntToBytes(v, Short)
\* The sign of the first byte tells which form was written.
BytesToOutputValue(b) ==
    IF b # <<>> /\ Head(b) >= Byte \div 2
    THEN As(UnpackToInt(Long, b), LAMBDA v : Byte ^ Long - v)
    ELSE UnpackToInt(Short, b)

\* A hash: a number that tells the data of the model apart.
Digest(s) ==
    LET h[i \in 0..Len(s)] == IF i = 0 THEN Len(s) ELSE (31 * h[i - 1] + s[i]) % 65521
    IN h[Len(s)]

\* leb128: digits of half a byte, the least significant first; all but the
\* last have the high bit set.
Digit == Byte \div 2
LebFits(v, n, signed) ==
    IF signed THEN -(Digit ^ n) <= 2 * v /\ 2 * v < Digit ^ n ELSE v < Digit ^ n
LebSize(v, signed) ==
    CHOOSE n \in 1..2 * Long : LebFits(v, n, signed) /\ (n = 1 \/ ~LebFits(v, n - 1, signed))
EncodeLeb128(v, signed) ==
    LET n == LebSize(v, signed)
    IN [i \in 1..n |-> ((v \div Digit ^ (i - 1)) % Digit) + (IF i < n THEN Digit ELSE 0)]

LebEnds(b) == {i \in DOMAIN b : b[i] < Digit}
LebSum(s) == FoldRight(LAMBDA d, v : (d % Digit) + Digit * v, s, 0)
LebNumber(s, signed) ==
    IF signed /\ 2 * Last(s) >= Digit THEN LebSum(s) - Digit ^ Len(s) ELSE LebSum(s)
LebTo(n, b, signed) == As(UnpackLen(n, b), LAMBDA s : LebNumber(s, signed))
DecodeLeb128(b, signed, max) ==
    IF LebEnds(b) = {} \/ (max # None /\ \A i \in LebEnds(b) : i > max) THEN Failed(b)
    ELSE LebTo(CHOOSE i \in LebEnds(b) : \A j \in LebEnds(b) : i <= j, b, signed)

-----------------------------------------------------------------------------
(* Addresses and output scripts.  An address is of a key or of a script.    *)

VersionByte == [p2pkh |-> 1, p2sh |-> 2]
ChecksumOf(bytes) == Number(bytes) % Byte
WithVersion(a) == <<VersionByte[a.type]>> \o IntToBytes(a.hash, HashSize)
Decode(a) == WithVersion(a) \o <<ChecksumOf(WithVersion(a))>>
AddressSize == HashSize + 2
AddressOf(type, hashBytes) == [type |-> type, hash |-> Number(hashBytes)]
\* encodeAddress and encodeAddressP2SH, then the check of version and checksum.
AddressFrom(bytes, types) ==
    LET found == {a \in {AddressOf(t, SubSeq(bytes, 2, HashSize + 1)) : t \in types} : Decode(a) = bytes}
    IN IF found = {} THEN None ELSE CHOOSE a \in found : TRUE
ReadAddress(b, types) ==
    Checked(As(UnpackLen(AddressSize, b), LAMBDA bytes : AddressFrom(bytes, types)),
            LAMBDA a : a # None)

OP_PUSHDATA1 == MaxPush + 1
OP_DUP == MaxPush + 2
OP_HASH160 == MaxPush + 3
OP_EQUALVERIFY == MaxPush + 4
OP_CHECKSIG == MaxPush + 5
OP_EQUAL == MaxPush + 6
OP_GREATERTHAN_TIMESTAMP == MaxPush + 7

PushData(d) == (IF Len(d) > MaxPush THEN <<OP_PUSHDATA1>> ELSE <<>>) \o Var(d, 1)

LockScript(t) ==
    IF t = 0 THEN <<>> ELSE PushData(IntToBytes(t, Short)) \o <<OP_GREATERTHAN_TIMESTAMP>>
CreateScript(o) ==
    IF o.type = "data" THEN PushData(o.data) \o <<OP_CHECKSIG>>
    ELSE IF o.type = "p2sh" THEN LockScript(o.timelock) \o
        <<OP_HASH160, HashSize>> \o IntToBytes(o.address.hash, HashSize) \o <<OP_EQUAL>>
    ELSE LockScript(o.timelock) \o
        <<OP_DUP, OP_HASH160, HashSize>> \o IntToBytes(o.address.hash, HashSize)
            \o <<OP_EQUALVERIFY, OP_CHECKSIG>>

LockSize == Short + 2
Locked(b) == Head(b) = Short /\ b[LockSize] = OP_GREATERTHAN_TIMESTAMP
\* b is a script of this size, with or without a time lock before it.
Sized(b, n) == Len(b) = n \/ (Len(b) = n + LockSize /\ Locked(b))
Unlocked(b, n) == SubSeq(b, Len(b) - n + 1, Len(b))
P2pkhSize == HashSize + 5
P2shSize == HashSize + 3
IsP2pkh(b) ==
    /\ Sized(b, P2pkhSize)
    /\ SubSeq(Unlocked(b, P2pkhSize), 1, 3) = <<OP_DUP, OP_HASH160, HashSize>>
    /\ SubSeq(b, Len(b) - 1, Len(b)) = <<OP_EQUALVERIFY, OP_CHECKSIG>>
IsP2sh(b) ==
    /\ Sized(b, P2shSize)
    /\ SubSeq(Unlocked(b, P2shSize), 1, 2) = <<OP_HASH160, HashSize>>
    /\ Last(b) = OP_EQUAL
LockOf(b, n) == IF Len(b) = n THEN 0 ELSE Number(SubSeq(b, 2, Short + 1))
Payment(type, b, n, skip) ==
    [type |-> type, timelock |-> LockOf(b, n),
     address |-> AddressOf(type, SubSeq(Unlocked(b, n), skip + 1, skip + HashSize))]

\* The data a script pushes: where it starts, and how many bytes it says.
DataStart(b) == IF Head(b) = OP_PUSHDATA1 THEN 3 ELSE 2
IsData(b) ==
    /\ Len(b) >= 2
    /\ Len(b) = DataStart(b) + b[DataStart(b) - 1]
    /\ Last(b) = OP_CHECKSIG
GetPushData(b) ==
    LET start == IF Head(b) > MaxPush THEN 3 ELSE 2
    IN SubSeq(b, start, start + b[start - 1] - 1)
ParseScript(b) ==
    IF IsP2pkh(b) THEN Payment("p2pkh", b, P2pkhSize, 3)
    ELSE IF IsP2sh(b) THEN Payment("p2sh", b, P2shSize, 2)
    ELSE IF IsData(b) THEN [type |-> "data", data |-> GetPushData(b)]
    ELSE None
=============================================================================
