-------------------------------- MODULE Keys --------------------------------
(***************************************************************************)
(* The keys of a wallet: HD keys and their derivation, the data that a pin *)
(* or a password encrypts, the access data record of src/utils/wallet.ts,  *)
(* the addresses of src/utils/address.ts and src/utils/shieldedAddress.ts  *)
(* and the redeem scripts of src/utils/scripts.ts.                         *)
(*                                                                         *)
(* A key is where it comes from: the words and the passphrase of its root  *)
(* and its path.  A public key and an address are the same description     *)
(* without the secret, so two of them are equal when the same key made     *)
(* them.  Encrypted data names what opens it.                              *)
(***************************************************************************)
EXTENDS Integers, Sequences, FiniteSets, SequencesExt

CONSTANTS
    None,
    Hardened    \* the first hardened index of a path, 2^31 in the code

ASSUME HardenedAssumption == Hardened \in Nat /\ Hardened > 280

-----------------------------------------------------------------------------
(* HD keys *)

Root(words, passphrase) == [secret |-> TRUE, seed |-> <<words, passphrase>>, path |-> <<>>]
DeriveChild(key, path) == [key EXCEPT !.path = @ \o path]
\* The non-compliant derivation of bitcore differs on the hardened children only.
DeriveNonCompliantChild(key, path) ==
    [key EXCEPT !.path = @ \o [i \in DOMAIN path |->
                                  IF path[i] >= Hardened THEN path[i] + Hardened ELSE path[i]]]
Public(key) == [key EXCEPT !.secret = FALSE]
Depth(key) == Len(key.path)

Account(purpose, account) == <<purpose + Hardened, 280 + Hardened, account + Hardened>>
P2PKHAcctPath == Account(44, 0)
P2SHAcctPath == Account(45, 0)
ShieldedScanAcctPath == Account(44, 1)
ShieldedSpendAcctPath == Account(44, 2)
AuthPath == <<280 + Hardened, 280 + Hardened>>

\* The order of two public keys as text says nothing about the order of their
\* children: here it is the opposite one.
PubkeyBefore(a, b) ==
    IF Depth(a) = 3 THEN a.seed[1] < b.seed[1] ELSE a.seed[1] > b.seed[1]

\* The places of different keys in their order.
SortedPlaces(keys) ==
    [k \in DOMAIN keys |-> CHOOSE i \in DOMAIN keys :
        Cardinality({j \in DOMAIN keys : PubkeyBefore(keys[j], keys[i])}) = k - 1]

-----------------------------------------------------------------------------
(* Encrypted data *)

EncryptData(data, password) == [data |-> data, under |-> password]
CheckPassword(encrypted, password) == encrypted.under = password
\* decryptData() where it does not throw.
DecryptData(encrypted, password) == IF CheckPassword(encrypted, password) THEN encrypted.data ELSE None

-----------------------------------------------------------------------------
(* The access data *)

\* {...data, ...new}
Over(new, data) ==
    [f \in DOMAIN data \cup DOMAIN new |-> IF f \in DOMAIN new THEN new[f] ELSE data[f]]

PinFields == {"mainKey", "acctPathKey", "authKey", "scanMainKey", "spendMainKey"}
ShieldedFields == {"scanXpubkey", "scanMainKey", "spendXpubkey", "spendMainKey"}

NoAccess == [f \in PinFields \cup ShieldedFields \cup {"words", "multisig"} |-> None]

AccountPath(multisig) == IF multisig = None THEN P2PKHAcctPath ELSE P2SHAcctPath

\* Faulty: the key of the change path, which sorts in another order.
MultisigDataChange(multisig, account) ==
    IF multisig = None THEN None
    ELSE Over(multisig, [pubkey |-> Public(DeriveChild(account, <<0>>))])
\* The multisig configuration with the key that tells this participant from the others.
MultisigData(multisig, account) ==
    IF multisig = None THEN None ELSE Over(multisig, [pubkey |-> Public(account)])

ShieldedKeys(root, pin) ==
    LET scan == DeriveChild(root, ShieldedScanAcctPath \o <<0>>)
        spend == DeriveChild(root, ShieldedSpendAcctPath \o <<0>>) IN
    [scanXpubkey |-> Public(scan), scanMainKey |-> EncryptData(scan, pin),
     spendXpubkey |-> Public(spend), spendMainKey |-> EncryptData(spend, pin)]

\* What a root key gives, whatever it was made from.
FromRoot(root, multisig, pin) ==
    LET account == DeriveNonCompliantChild(root, AccountPath(multisig))
        change == DeriveNonCompliantChild(account, <<0>>) IN
    Over([mainKey |-> EncryptData(change, pin), acctPathKey |-> EncryptData(account, pin),
          xpubkey |-> Public(change), multisig |-> MultisigData(multisig, account), readonly |-> FALSE],
         Over(ShieldedKeys(root, pin), NoAccess))

GenerateAccessDataFromSeed(words, multisig, passphrase, pin, password) ==
    LET root == Root(words, passphrase) IN
    Over([words |-> EncryptData(words, password),
          authKey |-> EncryptData(DeriveNonCompliantChild(root, AuthPath), pin)],
         FromRoot(root, multisig, pin))

\* authXpriv: the key that is given for the requests to the wallet service.
AuthField(xpriv, authXpriv, pin) ==
    IF authXpriv # None THEN [authKey |-> EncryptData(authXpriv, pin)]
    ELSE IF Depth(xpriv) = 0
    THEN [authKey |-> EncryptData(DeriveNonCompliantChild(xpriv, AuthPath), pin)]
    ELSE [authKey |-> None]

\* None: the call throws.
GenerateAccessDataFromXpriv(xpriv, multisig, pin, authXpriv) ==
    IF Depth(xpriv) = 0
    THEN Over(AuthField(xpriv, authXpriv, pin), FromRoot(xpriv, multisig, pin))
    ELSE IF multisig # None THEN None
    ELSE Over(AuthField(xpriv, authXpriv, pin),
              Over([mainKey |-> EncryptData(xpriv, pin), xpubkey |-> Public(xpriv), readonly |-> FALSE],
                   NoAccess))

\* Faulty: the key is taken as it comes.
GenerateAccessDataFromXpubAsGiven(xpub, multisig) ==
    Over([xpubkey |-> xpub, multisig |-> MultisigData(multisig, xpub), readonly |-> TRUE], NoAccess)
GenerateAccessDataFromXpub(xpub, multisig) ==
    IF Depth(xpub) = 3
    THEN Over([xpubkey |-> DeriveChild(xpub, <<0>>), multisig |-> MultisigData(multisig, xpub),
               readonly |-> TRUE], NoAccess)
    ELSE IF Depth(xpub) = 4 /\ multisig = None
    THEN Over([xpubkey |-> xpub, readonly |-> TRUE], NoAccess)
    ELSE None

MigratesShielded(data) == (\E f \in ShieldedFields : data[f] = None) /\ data.words # None
\* Faulty: the pin is not compared with the one of the other keys.
MigrateShieldedAccessDataAnyPin(data, pin, password, passphrase) ==
    IF ~MigratesShielded(data) THEN data
    ELSE IF ~CheckPassword(data.words, password) THEN None
    ELSE Over(ShieldedKeys(Root(data.words.data, passphrase), pin), data)
\* migrateShieldedAccessData(): None when it throws.
MigrateShieldedAccessData(data, pin, password, passphrase) ==
    IF ~MigratesShielded(data) THEN data
    ELSE IF ~CheckPassword(data.words, password) THEN None
    ELSE IF data.mainKey # None /\ ~CheckPassword(data.mainKey, pin) THEN None
    ELSE Over(ShieldedKeys(Root(data.words.data, passphrase), pin), data)

Reencrypted(data, fields, old, new) ==
    [f \in DOMAIN data |-> IF f \in fields THEN EncryptData(data[f].data, new) ELSE data[f]]

ChangeEncryptionPin(data, old, new) ==
    LET fields == {f \in PinFields : data[f] # None} IN
    IF /\ fields \cap {"mainKey", "authKey", "acctPathKey"} # {}
       /\ \A f \in fields : CheckPassword(data[f], old)
    THEN Reencrypted(data, fields, old, new) ELSE None

ChangeEncryptionPassword(data, old, new) ==
    IF data.words # None /\ CheckPassword(data.words, old)
    THEN Reencrypted(data, {"words"}, old, new) ELSE None

-----------------------------------------------------------------------------
(* Addresses *)

PublicKeyToP2PKH(key) == [kind |-> "p2pkh", keys |-> <<Public(key)>>, needs |-> 1]
RedeemScriptToP2SH(script) == [kind |-> "p2sh", keys |-> script.keys, needs |-> script.needs]

\* createP2SHRedeemScript(): the order is the one of the account keys.
RedeemScript(multisig, index) ==
    LET at == SortedPlaces(multisig.pubkeys) IN
    [keys |-> [k \in DOMAIN at |-> DeriveChild(multisig.pubkeys[at[k]], <<0, index>>)],
     needs |-> multisig.numSignatures]

Legacy(data, index) ==
    [base58 |-> IF data.multisig = None
                THEN PublicKeyToP2PKH(DeriveChild(data.xpubkey, <<index>>))
                ELSE RedeemScriptToP2SH(RedeemScript(data.multisig, index)),
     index |-> index, type |-> "legacy"]

\* The address that is given to senders, and the one that is seen in scripts.
DeriveShieldedAddress(scan, spend) ==
    [base58 |-> [kind |-> "shielded", keys |-> <<scan, spend>>, needs |-> 1],
     spendAddress |-> PublicKeyToP2PKH(spend)]

ShieldedPair(data, index) ==
    LET derived == DeriveShieldedAddress(DeriveChild(data.scanXpubkey, <<index>>),
                                         DeriveChild(data.spendXpubkey, <<index>>)) IN
    {[base58 |-> derived.base58, index |-> index, type |-> "shielded"],
     [base58 |-> derived.spendAddress, index |-> index, type |-> "shielded-spend"]}

HasShieldedKeys(data) == data.scanXpubkey # None /\ data.spendXpubkey # None

\* loadAddresses(): an index that has an address keeps it.
LoadAddresses(data, stored, count) ==
    LET Has(i, type) == \E a \in stored : a.index = i /\ a.type = type IN
    stored \cup {Legacy(data, i) : i \in {j \in 0..count - 1 : ~Has(j, "legacy")}}
           \cup (IF HasShieldedKeys(data)
                 THEN UNION {ShieldedPair(data, i) : i \in {j \in 0..count - 1 : ~Has(j, "shielded")}}
                 ELSE {})

-----------------------------------------------------------------------------
(* Signing *)

CheckPin(data, pin) == data.mainKey # None /\ CheckPassword(data.mainKey, pin)
GetMainXPrivKey(data, pin) == DecryptData(data.mainKey, pin)
GetSpendXPrivKey(data, pin) == DecryptData(data.spendMainKey, pin)
GetScanXPrivKey(data, pin) == DecryptData(data.scanMainKey, pin)

\* signTxInputs(): the key of an input that spends an output of this address.
SigningKey(data, pin, address) ==
    IF address.type = "shielded-spend"
    THEN DeriveChild(GetSpendXPrivKey(data, pin), <<address.index>>)
    ELSE DeriveNonCompliantChild(GetMainXPrivKey(data, pin), <<address.index>>)

\* The key that opens what a sender hides in an output to the shielded address.
ScanKey(data, pin, address) == DeriveChild(GetScanXPrivKey(data, pin), <<address.index>>)
=============================================================================
