----------------------------- MODULE AccessData -----------------------------
(***************************************************************************)
(* The access data of one wallet while it is started, reloaded, migrated   *)
(* and given new pins and passwords: start() and reloadStorage() of        *)
(* src/new/wallet.ts, start() and startReadOnly() of src/wallet/wallet.ts, *)
(* and changePin() and changePassword() of src/storage/storage.ts.  Each   *)
(* call reads the record, awaits, and writes it, so two of them overlap;   *)
(* the memory store hands out the record itself and not a copy of it.      *)
(*                                                                         *)
(* A multisig wallet also collects the signatures of the participants and  *)
(* assembles the input of a transaction.                                   *)
(***************************************************************************)
EXTENDS Keys

CONSTANTS
    Origins,        \* what a wallet object is made from
    Hasty,          \* those whose caller may not await each call
    Pins, Passwords,
    Indexes,        \* addresses that are loaded
    Participants    \* the words of the participants of a multisig wallet

ASSUME AccessAssumption ==
    /\ Indexes \in 1..Hardened /\ Participants \subseteq Nat /\ IsFiniteSet(Participants)
    /\ \A o \in Origins : o.kind \in {"seed", "xpriv", "xpub"} /\ (o.old => o.kind = "seed")

RootOf(o) == Root(o.words, o.passphrase)
AccountOf(o) == DeriveNonCompliantChild(RootOf(o), AccountPath(o.multisig))
SingleAccountOf(o) == DeriveNonCompliantChild(RootOf(o), P2PKHAcctPath)
ChangeOf(o) == DeriveNonCompliantChild(SingleAccountOf(o), <<0>>)
MainOf(o) == DeriveNonCompliantChild(AccountOf(o), <<0>>)
AuthOf(o) == DeriveNonCompliantChild(RootOf(o), AuthPath)
ScanOf(o) == DeriveChild(RootOf(o), ShieldedScanAcctPath \o <<0>>)
SpendOf(o) == DeriveChild(RootOf(o), ShieldedSpendAcctPath \o <<0>>)

\* The account key that participant p gives the others of the group of the wallet.
AccountXpub(o, p) ==
    Public(DeriveNonCompliantChild(Root(p, IF p = o.words THEN o.passphrase ELSE 0), P2SHAcctPath))

\* A wallet is made from a key of its words; a group has one key of each participant.
ASSUME OriginAssumption ==
    \A o \in Origins :
        /\ o.kind = "xpriv" => o.key \in {RootOf(o), ChangeOf(o), SingleAccountOf(o)}
        /\ o.kind = "xpub" => o.key \in {Public(AccountOf(o)), Public(ChangeOf(o))}
        /\ o.kind = "xpriv" => (o.service <=> o.key = SingleAccountOf(o))
        /\ o.service => o.multisig = None /\ o.auth = AuthOf(o)
        /\ o.multisig # None =>
             /\ o.words \in Participants
             /\ o.multisig = [pubkeys |-> o.multisig.pubkeys, numSignatures |-> o.multisig.numSignatures]
             /\ \E who \in [1..Cardinality(Participants) -> Participants] :
                  /\ \A i, j \in DOMAIN who : who[i] = who[j] => i = j
                  /\ \A p \in Participants : \E i \in DOMAIN who : who[i] = p
                  /\ o.multisig.pubkeys = [i \in DOMAIN who |-> AccountXpub(o, who[i])]

\* What is there is not None.
ASSUME NoneAssumption ==
    \A o \in Origins :
        /\ AuthOf(o) # None
        /\ o.multisig # None => MultisigData(o.multisig, AccountOf(o)) # None
        /\ \A key \in {AccountOf(o), MainOf(o), AuthOf(o), ScanOf(o), SpendOf(o)},
              pin \in Pins \cup {None} : EncryptData(key, pin) # None

VARIABLES
    origin,
    heap,           \* the records that something refers to
    current,        \* the one in the store, 0 for none
    calls,          \* the calls that await something
    calm,           \* the caller awaits each call
    started,
    addresses,
    signatures,     \* what getAllSignatures() of the participants returned
    assembled       \* the data of the input

vars == <<origin, heap, current, calls, calm, started, addresses, signatures, assembled>>

Slots == {1, 2}
Ids == 1..3
Idle == [op |-> "idle", held |-> 0, old |-> None, new |-> None]

\* A record from before the shielded keys.
Old(data) == [f \in DOMAIN data |-> IF f \in ShieldedFields THEN None ELSE data[f]]

\* The record start() generates when there is none.
Generated(o, pin, password) ==
    CASE o.kind = "seed" -> GenerateAccessDataFromSeed(o.words, o.multisig, o.passphrase, pin, password)
      [] o.kind = "xpriv" /\ ~o.service -> GenerateAccessDataFromXpriv(o.key, o.multisig, pin, None)
      [] o.kind = "xpriv" /\ o.service ->
            GenerateAccessDataFromXpriv(DeriveNonCompliantChild(o.key, <<0>>), None, pin, o.auth)
      [] o.kind = "xpub" -> GenerateAccessDataFromXpub(o.key, o.multisig)

Init ==
    /\ origin \in Origins
    /\ calm \in (IF origin \in Hasty THEN BOOLEAN ELSE {TRUE})
    /\ IF origin.old
       THEN \E pin \in Pins, password \in Passwords :
              heap = [i \in Ids |-> IF i = 1 THEN Old(Generated(origin, pin, password)) ELSE None]
       ELSE heap = [i \in Ids |-> None]
    /\ current = IF origin.old THEN 1 ELSE 0
    /\ calls = [c \in Slots |-> Idle]
    /\ started = FALSE /\ addresses = {}
    /\ signatures = <<>> /\ assembled = None

-----------------------------------------------------------------------------
(* The store *)

\* The call ends and the store refers to record id; what nobody refers to is gone.
Ends(c, id, records) ==
    /\ current' = id
    /\ calls' = [calls EXCEPT ![c] = Idle]
    /\ heap' = [i \in Ids |-> IF i = id \/ \E d \in Slots \ {c} : calls[d].held = i
                              THEN records[i] ELSE None]

SaveAccessData(c, id, data) == Ends(c, id, [heap EXCEPT ![id] = data])
\* The call stores a new record.
SaveNew(c, data) ==
    SaveAccessData(c, CHOOSE i \in Ids : i # current /\ \A d \in Slots : calls[d].held # i, data)
Throws(c) == Ends(c, current, heap)

Free(c) == calls[c] = Idle /\ (calm => \A d \in Slots : calls[d] = Idle)
Rebuilds == \E d \in Slots : calls[d].op \in {"start", "reload", "clean"}

\* The call has read the record and awaits it.
GetAccessData(c, op, old, new) ==
    /\ Free(c)
    /\ calls' = [calls EXCEPT ![c] = [op |-> op, held |-> current, old |-> old, new |-> new]]
    /\ UNCHANGED <<origin, heap, current, calm, started, addresses, signatures, assembled>>

-----------------------------------------------------------------------------
(* start() and reloadStorage() *)

Start(c, pin, password) ==
    /\ ~started /\ ~Rebuilds
    /\ origin.kind = "xpub" \/ pin # None
    /\ origin.kind # "seed" \/ password # None
    /\ GetAccessData(c, "start", pin, password)

\* Without a record one is generated; else an older one is migrated, in place, but
\* by the wallet service facade.  startReadOnly() always writes its own.
StartRest(c) ==
    LET call == calls[c]
        fresh == Generated(origin, call.old, call.new)
        migrated == MigrateShieldedAccessData(heap[call.held], call.old, call.new, origin.passphrase) IN
    /\ call.op = "start"
    /\ IF call.held = 0 \/ (origin.service /\ origin.kind = "xpub")
       THEN /\ started' = (fresh # None)
            /\ IF fresh = None THEN Throws(c) ELSE SaveNew(c, fresh)
       ELSE IF origin.service \/ None \in {call.old, call.new}
       THEN started' = TRUE /\ Throws(c)
       ELSE /\ started' = (migrated # None)
            /\ IF MigratesShielded(heap[call.held]) /\ migrated # None
               THEN SaveAccessData(c, call.held, migrated) ELSE Throws(c)
    /\ UNCHANGED <<origin, calm, addresses, signatures, assembled>>

\* The synchronisation derives what is not in the storage.
Load ==
    /\ started /\ current # 0 /\ ~Rebuilds
    /\ addresses' = LoadAddresses(heap[current], addresses, Indexes)
    /\ UNCHANGED <<origin, heap, current, calls, calm, started, signatures, assembled>>

Stop(cleanAddresses) ==
    /\ started /\ ~Rebuilds
    /\ started' = FALSE
    /\ addresses' = IF cleanAddresses THEN {} ELSE addresses
    /\ signatures' = <<>> /\ assembled' = None
    /\ UNCHANGED <<origin, heap, current, calls, calm>>

Reload(c) == started /\ ~Rebuilds /\ ~origin.service /\ GetAccessData(c, "reload", None, None)
ReloadClean(c) ==
    /\ calls[c].op = "reload"
    /\ addresses' = {}
    /\ calls' = [calls EXCEPT ![c].op = "clean"]
    /\ UNCHANGED <<origin, heap, current, calm, started, signatures, assembled>>
ReloadRest(c) ==
    /\ calls[c].op = "clean"
    /\ SaveAccessData(c, calls[c].held, heap[calls[c].held])
    /\ UNCHANGED <<origin, calm, started, addresses, signatures, assembled>>

-----------------------------------------------------------------------------
(* changePin() and changePassword() *)

ChangePin(c, old, new) == current # 0 /\ GetAccessData(c, "pin", old, new)
ChangePinRest(c) ==
    LET data == ChangeEncryptionPin(heap[calls[c].held], calls[c].old, calls[c].new) IN
    /\ calls[c].op = "pin"
    /\ IF data = None THEN Throws(c) ELSE SaveNew(c, data)
    /\ UNCHANGED <<origin, calm, started, addresses, signatures, assembled>>

ChangePassword(c, old, new) == current # 0 /\ GetAccessData(c, "password", old, new)
ChangePasswordRest(c) ==
    LET data == ChangeEncryptionPassword(heap[calls[c].held], calls[c].old, calls[c].new) IN
    /\ calls[c].op = "password"
    /\ IF data = None THEN Throws(c) ELSE SaveNew(c, data)
    /\ UNCHANGED <<origin, calm, started, addresses, signatures, assembled>>

-----------------------------------------------------------------------------
(* What the wallet service is told: generateCreateWalletAuthData() *)

AccountKeyFor(o, data, pin) ==
    IF data.acctPathKey # None THEN DecryptData(data.acctPathKey, pin)
    ELSE IF o.kind = "seed" THEN DeriveNonCompliantChild(Root(o.words, o.passphrase), P2PKHAcctPath)
    ELSE o.key

CreateWalletAuthData(o, data, pin) ==
    LET xpub == Public(AccountKeyFor(o, data, pin)) IN
    [xpub |-> xpub,
     authXpub |-> Public(DecryptData(data.authKey, pin)),
     firstAddress |-> PublicKeyToP2PKH(DeriveChild(xpub, <<0, 0>>))]

-----------------------------------------------------------------------------
(* Multisig *)

Pin == CHOOSE pin \in Pins : TRUE
\* The record of a participant: this wallet, or another one of the group.
RecordOf(p) ==
    IF p = origin.words THEN heap[current]
    ELSE GenerateAccessDataFromSeed(p, origin.multisig, 0, Pin, CHOOSE w \in Passwords : TRUE)
PinOf(p) == IF p = origin.words THEN heap[current].mainKey.under ELSE Pin

\* getAllSignatures() for an input that spends an output of the address.
AllSignatures(data, pin, address) ==
    [pubkey |-> data.multisig.pubkey, key |-> Public(SigningKey(data, pin, address))]

GetAllSignatures(p, address) ==
    /\ origin.multisig # None /\ started /\ current # 0 /\ assembled = None
    /\ ~RecordOf(p).readonly
    /\ address \in addresses /\ address.type = "legacy" /\ address.index = Indexes - 1
    /\ LET signature == AllSignatures(RecordOf(p), PinOf(p), address) IN
       /\ \A i \in DOMAIN signatures : signatures[i] # signature
       /\ signatures' = Append(signatures, signature)
    /\ UNCHANGED <<origin, heap, current, calls, calm, started, addresses, assembled>>

\* The participants in the order of the keys of the redeem script.
InputOrder(sigs) ==
    LET at == SortedPlaces([i \in DOMAIN sigs |-> sigs[i].pubkey]) IN
    [k \in DOMAIN at |-> sigs[at[k]]]

P2SHInputData(address, sigs, script) ==
    [address |-> address.base58, script |-> script, keys |-> [i \in DOMAIN sigs |-> sigs[i].key]]

\* getP2SHInputData() throws when there are not as many signatures as the script needs.
AssemblePartialTransaction(address) ==
    LET data == heap[current]
        script == RedeemScript(data.multisig, address.index) IN
    /\ started /\ current # 0 /\ assembled = None
    /\ data.multisig # None
    /\ address \in addresses /\ address.type = "legacy" /\ address.index = Indexes - 1
    /\ Len(signatures) = script.needs
    /\ assembled' = P2SHInputData(address, InputOrder(signatures), script)
    /\ UNCHANGED <<origin, heap, current, calls, calm, started, addresses, signatures>>

-----------------------------------------------------------------------------

Call(c) ==
    \/ \E pin \in Pins \cup {None}, password \in Passwords \cup {None} : Start(c, pin, password)
    \/ StartRest(c)
    \/ Reload(c)
    \/ ReloadClean(c)
    \/ ReloadRest(c)
    \/ \E old, new \in Pins : ChangePin(c, old, new)
    \/ ChangePinRest(c)
    \/ \E old, new \in Passwords : ChangePassword(c, old, new)
    \/ ChangePasswordRest(c)

Next ==
    \/ \E c \in Slots : Call(c)
    \/ Load
    \/ \E clean \in BOOLEAN : Stop(clean)
    \/ \E p \in Participants, a \in addresses : GetAllSignatures(p, a)
    \/ \E a \in addresses : AssemblePartialTransaction(a)

Spec == Init /\ [][Next]_vars

-----------------------------------------------------------------------------
(* Properties *)

\* The pin that checkPin() accepts opens every private key of the record, whatever
\* calls overlapped, so that no operation fails on a key after the pin was checked.
PinOpensTheKeys ==
    \A i \in Ids, pin \in Pins : heap[i] # None /\ CheckPin(heap[i], pin) =>
        \A f \in PinFields : heap[i][f] # None => CheckPassword(heap[i][f], pin)

\* The key at the path of BIP 44 for the words the wallet was made from.
KeyAt(o, path) == Public(DeriveNonCompliantChild(Root(o.words, o.passphrase), path))

OwnedBy(o, a) ==
    CASE a.type = "legacy" /\ o.multisig = None ->
            a.base58.keys = <<KeyAt(o, P2PKHAcctPath \o <<0, a.index>>)>>
      [] a.type = "legacy" /\ o.multisig # None ->
            KeyAt(o, P2SHAcctPath \o <<0, a.index>>) \in ToSet(a.base58.keys)
      [] OTHER -> TRUE

SignsFor(data, a) ==
    LET pin == data.mainKey.under IN
    CASE a.type = "legacy" -> Public(SigningKey(data, pin, a)) \in ToSet(a.base58.keys)
      [] a.type = "shielded-spend" -> <<Public(SigningKey(data, pin, a))>> = a.base58.keys
      [] a.type = "shielded" -> Public(ScanKey(data, pin, a)) = a.base58.keys[1]

\* The service derives the addresses from the account key it is told.
ServiceAgrees(o, data, a) ==
    LET auth == CreateWalletAuthData(o, data, data.mainKey.under) IN
    /\ auth.authXpub = KeyAt(o, AuthPath)
    /\ a.type = "legacy" /\ a.index = 0 => a.base58 = auth.firstAddress

\* However a wallet is made from the same words, its addresses are the same, and the
\* keys of its record, a migrated one too, sign and scan for each of them.  The caller
\* awaits each call: a record that a slow call saves back may have no shielded keys.
AddressesAreOurs ==
    calm => \A a \in addresses :
        /\ OwnedBy(origin, a)
        /\ heap[current].mainKey # None =>
             /\ SignsFor(heap[current], a)
             /\ origin.service => ServiceAgrees(origin, heap[current], a)

\* The signatures are those of as many keys of the script as it asks for, in its order.
Verifies(input) ==
    /\ Len(input.keys) = input.script.needs
    /\ \E at \in [DOMAIN input.keys -> DOMAIN input.script.keys] :
        /\ \A i, j \in DOMAIN input.keys : i < j => at[i] < at[j]
        /\ \A i \in DOMAIN input.keys : input.script.keys[at[i]] = input.keys[i]

\* An input assembled from the signatures of enough participants, in whatever order
\* they were given, is accepted: its script has the address that is spent, and the
\* signatures are in the order of the keys.
MultisigVerifies ==
    assembled # None =>
        /\ Verifies(assembled)
        /\ assembled.address = RedeemScriptToP2SH(assembled.script)
=============================================================================
