----------------------------- MODULE MCAssembly -----------------------------
(* A small instance of Assembly. *)
EXTENDS Assembly

TKA == 201
TKB == 202
Key(a) == [type |-> "p2pkh", hash |-> a]
Script(a) == [type |-> "p2sh", hash |-> a]

\* The wallet's addresses: those of odd hash are on the spend chain.
MCOwned == [h \in {2, 3, 4, 5} |->
    [chain |-> IF h % 2 = 1 THEN "spend" ELSE "legacy", index |-> h \div 2]]

Coin(token, value, authorities, a, vbf, gbf) ==
    [token |-> token, value |-> value, authorities |-> authorities, address |-> Key(a),
     vbf |-> vbf, gbf |-> gbf]
MCSpent == (1 :> [outputs |-> <<Coin(HTR, 600, 0, 2, 0, 0), Coin(TKA, 5, 0, 4, 0, 0),
                                Coin(TKA, 1, 1, 4, 0, 0), Coin(TKA, 2, 2, 2, 0, 0)>>,
                  shielded |-> <<Coin(HTR, 20, 0, 3, 2, 0), Coin(TKA, 7, 0, 5, 1, 2)>>])
        @@ (2 :> [outputs |-> <<Coin(TKB, 9, 0, 14, 0, 0)>>, shielded |-> <<>>])
In(tx_id, index) ==
    [hash |-> tx_id, index |-> index, data |-> <<>>]
        @@ [Utxo([hash |-> tx_id, index |-> index]) EXCEPT !.vbf = 0, !.gbf = 0]
Htr == In(1, 0)
Tka == In(1, 1)
Mint == In(1, 2)
Melt == In(1, 3)
HtrHidden == In(1, 4)
TkaHidden == In(1, 5)
Others == In(2, 0)

Out(address, value, token) ==
    [type |-> address.type, address |-> address, data |-> <<>>, timelock |-> 0, value |-> value,
     authorities |-> 0, token |-> token, mode |-> 0, scan |-> 0]
To(value, token) == Out(Key(9), value, token)
Hidden(mode, value, token) == [Out(Key(11), value, token) EXCEPT !.mode = mode, !.scan = 400]
Data(n) == [Out(Key(9), 1, HTR) EXCEPT !.type = "data", !.data = [i \in 1..n |-> i]]
Authority(mask, token) == [Out(Key(2), mask, token) EXCEPT !.authorities = mask]

Plan(path, inputs, outputs, tokens, fee) ==
    [path |-> path, version |-> DefaultTx, inputs |-> inputs, outputs |-> outputs,
     tokens |-> tokens, fee |-> fee, change |-> FALSE, nano |-> None, call |-> None,
     extra |-> <<>>, headers |-> <<>>, shielded |-> <<>>, excess |-> None]
WithChange(p) == [p EXCEPT !.change = TRUE]

\* Values at the limit of the small form, each kind of script, a time lock,
\* data at the limit of what is pushed without an opcode, others' inputs.
Transparent1 ==
    {WithChange(Plan("send", <<Htr>>, <<To(v, HTR), Out(Key(2), 600 - v, HTR)>>, <<>>, 0)) :
        v \in {1, 88, 511, 512, 513}}
    \cup {Plan("send", <<Htr>>, <<Data(n), Out(Script(9), 599, HTR)>>, <<>>, 0) : n \in {7, 8, 9, 10}}
    \cup {Plan("send", <<Tka, Htr>>,
               <<[To(5, TKA) EXCEPT !.timelock = 700], Out(Key(2), 599, HTR)>>, <<TKA>>, 1),
          Plan("send", <<Htr, Others>>, <<To(9, TKB), To(600, HTR)>>, <<TKB>>, 0)}
\* Each mode, hidden and shown together, one that is not allowed, change.
Shielded1 ==
    {WithChange(Plan("send", <<Htr>>,
        <<Hidden(1, 10, HTR), Hidden(m, 20, HTR), Out(Key(2), 568, HTR)>>, <<>>, 2)) : m \in {1, 2}}
    \cup {Plan("send", <<TkaHidden, HtrHidden>>,
               <<Hidden(m, 4, TKA), Hidden(2, 3, TKA), Hidden(1, 17, HTR)>>, <<TKA>>, 3) : m \in {1, 2}}
    \cup {WithChange(Plan("send", <<Tka, TkaHidden, Htr>>,
               <<Hidden(2, 4, TKA), Hidden(2, 5, TKA), Out(Key(4), 3, TKA), Out(Key(2), 596, HTR)>>,
               <<TKA>>, 4)),
          Plan("send", <<Htr>>, <<Hidden(2, 600, HTR)>>, <<>>, 0),
          Plan("send", <<Htr>>, <<Hidden(1, 1, HTR), Hidden(2, 599, TKA)>>, <<TKA>>, 0)}
\* Shielded outputs that are refused: more inputs than a proof takes, a time
\* lock that does not fit its script, a key that was cut.
Refused ==
    {Plan("send", <<Htr, Tka, HtrHidden, TkaHidden>>,
          <<Hidden(1, 620, HTR), Hidden(1, 12, TKA)>>, <<TKA>>, 0),
     Plan("send", <<HtrHidden>>,
          <<Hidden(1, 12, HTR), [Hidden(1, 7, HTR) EXCEPT !.timelock = 1024]>>, <<>>, 1),
     Plan("send", <<HtrHidden>>,
          <<Hidden(1, 12, HTR), [Hidden(1, 7, HTR) EXCEPT !.scan = 4]>>, <<>>, 1)}
\* Shielded coins spent in the open.
Unshield ==
    {WithChange(Plan("send", <<HtrHidden, Htr>>, <<To(512, HTR), Out(Key(2), 108, HTR)>>, <<>>, 0)),
     Plan("send", <<TkaHidden, HtrHidden>>, <<To(7, TKA), To(19, HTR)>>, <<TKA>>, 1)}
\* Tokens minted, melted and created, paid with shielded coins and without.
Tokens ==
    {Plan("token", <<Mint, pay>>,
          <<To(10, None), Authority(1, TKA), Out(Key(2), pay.value - 1, HTR)>>, <<TKA>>, 0) :
        pay \in {Htr, HtrHidden}}
    \cup {Plan("token", <<Melt, tka>>, <<To(tka.value - 1, TKA), Out(Key(2), 1, HTR)>>, <<TKA>>, 0) :
        tka \in {Tka, TkaHidden}}
    \cup {[Plan("token", <<pay>>,
            <<[To(600, None) EXCEPT !.timelock = 3], [Authority(1, HTR) EXCEPT !.token = None],
              Out(Key(2), pay.value - 6, HTR)>>, <<>>, 1)
            EXCEPT !.version = CreateToken,
                   !.extra = [tokenVersion |-> v, name |-> <<<<5>>, <<6>>>>, symbol |-> <<<<20, 7>>>>]] :
        pay \in {Htr, HtrHidden}, v \in {1, 2}}
\* More outputs than a transaction has, nothing minted, a name too long.
Unwritable ==
    {Plan("send", <<Htr>>, [i \in 1..Byte |-> To(IF i = 1 THEN 601 - Byte ELSE 1, HTR)], <<>>, 0),
     Plan("token", <<Mint>>, <<To(0, None), Authority(1, TKA)>>, <<TKA>>, 0),
     [Plan("token", <<Htr>>, <<To(2, None), Out(Key(2), 598, HTR)>>, <<>>, 1)
        EXCEPT !.version = CreateToken,
               !.extra = [tokenVersion |-> 1, name |-> <<<<5>>, <<6>>, <<7>>>>, symbol |-> <<<<8>>>>]]}

\* Arguments: limits of the encodings, and every way to contain another.
Kind(k) == [kind |-> k]
Arg(type, value) == <<type, value>>
Samples ==
    {Arg(Kind("int"), v) : v \in {-129, -128, -9, -8, -1, 0, 7, 8, 127, 128}}
    \cup {Arg(Kind("Amount"), v) : v \in {0, 15, 16, 255, 256}}
    \cup {Arg(Kind("Timestamp"), v) : v \in {-512, -1, 0, 511}}
    \cup {Arg(Kind("bool"), v) : v \in BOOLEAN}
    \cup {Arg(Kind("TokenUid"), v) : v \in {HTR, TKA}}
    \cup {Arg(Kind("str"), <<>>), Arg(Kind("bytes"), <<1, 0>>), Arg(Kind("bytes32"), 500),
          Arg(Kind("Address"), Key(9)), Arg(Kind("CallerId"), Key(1023)),
          Arg(Kind("CallerId"), [type |-> "contract", id |-> 500]),
          Arg([kind |-> "optional", inner |-> Kind("int")], None),
          Arg([kind |-> "optional", inner |-> Kind("int")], [some |-> -8]),
          Arg([kind |-> "signed", inner |-> Kind("str")], [value |-> <<1>>, signature |-> <<2, 3>>]),
          Arg([kind |-> "tuple", elements |-> <<Kind("bool"), Kind("int")>>], <<TRUE, 8>>),
          Arg([kind |-> "list", inner |-> [kind |-> "list", inner |-> Kind("Amount")]],
              <<<<1, 16>>, <<>>>>),
          Arg([kind |-> "dict", key |-> Kind("str"), value |-> Kind("Amount")],
              <<<<<<1>>, 16>>, <<<<>>, 0>>>>)}
Call(args, types, seqnum) ==
    [Plan("nano", <<Htr>>, <<Out(Key(2), 590, HTR)>>, <<>>, 1)
        EXCEPT !.call = [types |-> types, values |-> args],
               !.nano = [nanoId |-> 300, seqnum |-> seqnum, method |-> <<8, 9>>,
                         args |-> SerializeArgs(types, args),
                         actions |-> <<[type |-> 1, tokenIndex |-> 0, amount |-> 9]>>,
                         address |-> Key(4)]]
Nano ==
    {Call(<<s[2]>>, <<s[1]>>, 15) : s \in Samples} \cup {Call(<<>>, <<>>, 16)}
    \cup {Call(<<-8, <<3>>>>, <<Kind("int"), Kind("str")>>, 256)}
Code ==
    {[Plan("blueprint", <<>>, <<>>, <<>>, 0)
        EXCEPT !.version = Blueprint,
               !.extra = [code |-> <<1, 2, 3>>, pubkey |-> <<4>>, signature |-> <<>>,
                          caller |-> Key(2)]]}

MCPlans == Transparent1 \cup Shielded1 \cup Refused \cup Unshield \cup Tokens
    \cup Unwritable \cup Nano \cup Code
MCParents == <<301, 302>>
MCClock == {20, 513}
=============================================================================
