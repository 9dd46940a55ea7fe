---------------------------- MODULE MCAccessData ----------------------------
(***************************************************************************)
(* The wallets that can be made from one set of words: from the words, from *)
(* a root or a change path private key, from an account or a change path    *)
(* public key, and as one of three participants that need two signatures.   *)
(***************************************************************************)
EXTENDS AccessData

Words == 2
Source(kind, key, multisig, service, old) ==
    [words |-> Words, passphrase |-> 0, kind |-> kind, key |-> key, multisig |-> multisig,
     service |-> service, old |-> old,
     auth |-> DeriveNonCompliantChild(Root(Words, 0), AuthPath)]

RootKey == Root(Words, 0)
AccountKey(path) == DeriveNonCompliantChild(RootKey, path)
ChangeKey == DeriveNonCompliantChild(AccountKey(P2PKHAcctPath), <<0>>)
Xpub(p) == Public(DeriveNonCompliantChild(Root(p, 0), P2SHAcctPath))
TwoOfThree == [pubkeys |-> <<Xpub(3), Xpub(1), Xpub(2)>>, numSignatures |-> 2]

MCHasty == {Source("seed", None, None, FALSE, TRUE)}
MCOrigins ==
    {Source("seed", None, None, FALSE, FALSE),
     Source("seed", None, None, FALSE, TRUE),
     Source("seed", None, TwoOfThree, FALSE, FALSE),
     Source("seed", None, TwoOfThree, FALSE, TRUE),
     Source("xpriv", RootKey, None, FALSE, FALSE),
     Source("xpriv", RootKey, TwoOfThree, FALSE, FALSE),
     Source("xpriv", ChangeKey, None, FALSE, FALSE),
     Source("xpriv", ChangeKey, TwoOfThree, FALSE, FALSE),
     Source("xpub", Public(AccountKey(P2PKHAcctPath)), None, FALSE, FALSE),
     Source("xpub", Public(ChangeKey), None, FALSE, FALSE),
     Source("xpub", Xpub(Words), TwoOfThree, FALSE, FALSE),
     Source("seed", None, None, TRUE, FALSE),
     Source("xpriv", AccountKey(P2PKHAcctPath), None, TRUE, FALSE),
     Source("xpub", Public(AccountKey(P2PKHAcctPath)), None, TRUE, FALSE)}
=============================================================================
