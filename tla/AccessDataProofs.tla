--------------------------- MODULE AccessDataProofs ---------------------------
(***************************************************************************)
(* Proofs about the access data of a wallet, for any words, keys, pins,    *)
(* passwords and participants, and for calls that overlap as they may: the *)
(* pin that opens the main key opens every other key of the record; the    *)
(* addresses, and the keys that sign for them, are the ones of the words;  *)
(* and an input assembled from signatures is accepted.                     *)
(***************************************************************************)
EXTENDS AccessData, SequenceTheorems, FiniteSetTheorems, TLAPS

-----------------------------------------------------------------------------
(* Records *)

RecordFields == PinFields \cup ShieldedFields \cup {"words", "multisig"}

\* Every private key that the record has is under this pin.
UnderPin(data, pin) == \A f \in PinFields : data[f] # None => data[f].under = pin

\* Where the record has a main key, its other keys are under the pin of that one.
OnePin(data) == data.mainKey # None => UnderPin(data, data.mainKey.under)

Sound(data) == RecordFields \subseteq DOMAIN data /\ OnePin(data)

LEMMA UnderPinIsSound ==
  ASSUME NEW data, RecordFields \subseteq DOMAIN data, NEW pin, UnderPin(data, pin)
  PROVE  Sound(data)
  BY DEF Sound, OnePin, UnderPin, PinFields

LEMMA OverFields ==
  ASSUME NEW new, NEW data
  PROVE  /\ DOMAIN Over(new, data) = DOMAIN data \cup DOMAIN new
         /\ \A f \in DOMAIN new : Over(new, data)[f] = new[f]
         /\ \A f \in DOMAIN data \ DOMAIN new : Over(new, data)[f] = data[f]
  BY DEF Over

\* What is put over a record keeps its pin when its own keys are under that pin.
LEMMA OverKeepsPin ==
  ASSUME NEW new, NEW data, NEW pin, RecordFields \subseteq DOMAIN data, UnderPin(data, pin),
         \A f \in DOMAIN new \cap PinFields : new[f] # None => new[f].under = pin
  PROVE  /\ RecordFields \subseteq DOMAIN Over(new, data)
         /\ UnderPin(Over(new, data), pin)
<1> DEFINE o == Over(new, data)
<1>1. \A f \in PinFields : f \in DOMAIN data
  BY DEF RecordFields
<1>2. /\ DOMAIN o = DOMAIN data \cup DOMAIN new
      /\ \A f \in DOMAIN new : o[f] = new[f]
      /\ \A f \in DOMAIN data \ DOMAIN new : o[f] = data[f]
  BY OverFields
<1> HIDE DEF o
<1>3. ASSUME NEW f \in PinFields, o[f] # None PROVE o[f].under = pin
  BY <1>1, <1>2, <1>3 DEF UnderPin
<1>4. RecordFields \subseteq DOMAIN o /\ UnderPin(o, pin)
  BY <1>2, <1>3 DEF UnderPin
<1> QED
  BY <1>4 DEF o

LEMMA NoAccessIsUnder ==
  ASSUME NEW pin
  PROVE  RecordFields \subseteq DOMAIN NoAccess /\ UnderPin(NoAccess, pin)
  BY DEF NoAccess, RecordFields, UnderPin

LEMMA ShieldedKeysUnder ==
  ASSUME NEW root, NEW pin
  PROVE  LET new == ShieldedKeys(root, pin)
         IN  /\ \A f \in DOMAIN new \cap PinFields : new[f].under = pin
             /\ DOMAIN new = ShieldedFields
  BY DEF ShieldedKeys, EncryptData, PinFields, ShieldedFields

LEMMA FromRootUnder ==
  ASSUME NEW root, NEW multisig, NEW pin
  PROVE  LET data == FromRoot(root, multisig, pin)
         IN  RecordFields \subseteq DOMAIN data /\ UnderPin(data, pin)
<1> DEFINE shielded == Over(ShieldedKeys(root, pin), NoAccess)
           account == DeriveNonCompliantChild(root, AccountPath(multisig))
           change == DeriveNonCompliantChild(account, <<0>>)
           new == [mainKey |-> EncryptData(change, pin), acctPathKey |-> EncryptData(account, pin),
                   xpubkey |-> Public(change), multisig |-> MultisigData(multisig, account),
                   readonly |-> FALSE]
<1>1. RecordFields \subseteq DOMAIN shielded /\ UnderPin(shielded, pin)
  <2> DEFINE keys == ShieldedKeys(root, pin)
  <2>1. \A f \in DOMAIN keys \cap PinFields : keys[f].under = pin
    BY ShieldedKeysUnder
  <2> HIDE DEF keys
  <2>2. RecordFields \subseteq DOMAIN Over(keys, NoAccess) /\ UnderPin(Over(keys, NoAccess), pin)
    BY <2>1, NoAccessIsUnder, OverKeepsPin
  <2> QED
    BY <2>2 DEF keys
<1>2. \A f \in DOMAIN new \cap PinFields : new[f].under = pin
  BY DEF EncryptData, PinFields
<1>3. FromRoot(root, multisig, pin) = Over(new, shielded)
  BY Zenon DEF FromRoot
<1> HIDE DEF shielded, new
<1> QED
  BY <1>1, <1>2, <1>3, OverKeepsPin

LEMMA SeedUnder ==
  ASSUME NEW words, NEW multisig, NEW passphrase, NEW pin, NEW password
  PROVE  LET data == GenerateAccessDataFromSeed(words, multisig, passphrase, pin, password)
         IN  RecordFields \subseteq DOMAIN data /\ UnderPin(data, pin)
<1> DEFINE root == Root(words, passphrase)
           from == FromRoot(root, multisig, pin)
           new == [words |-> EncryptData(words, password),
                   authKey |-> EncryptData(DeriveNonCompliantChild(root, AuthPath), pin)]
<1>1. RecordFields \subseteq DOMAIN from /\ UnderPin(from, pin)
  BY FromRootUnder
<1>2. \A f \in DOMAIN new \cap PinFields : new[f].under = pin
  BY DEF EncryptData, PinFields
<1>3. GenerateAccessDataFromSeed(words, multisig, passphrase, pin, password) = Over(new, from)
  BY Zenon DEF GenerateAccessDataFromSeed
<1> HIDE DEF from, new
<1> QED
  BY <1>1, <1>2, <1>3, OverKeepsPin

LEMMA XprivUnder ==
  ASSUME NEW xpriv, NEW multisig, NEW pin, NEW auth,
         NEW data, data = GenerateAccessDataFromXpriv(xpriv, multisig, pin, auth), data # None
  PROVE  RecordFields \subseteq DOMAIN data /\ UnderPin(data, pin)
<1> DEFINE a == AuthField(xpriv, auth, pin)
           new == [mainKey |-> EncryptData(xpriv, pin), xpubkey |-> Public(xpriv), readonly |-> FALSE]
           plain == Over(new, NoAccess)
           from == FromRoot(xpriv, multisig, pin)
<1>1. \A f \in DOMAIN a \cap PinFields : a[f] # None => a[f].under = pin
  BY DEF AuthField, EncryptData
<1>2. RecordFields \subseteq DOMAIN from /\ UnderPin(from, pin)
  BY FromRootUnder
<1>3. \A f \in DOMAIN new \cap PinFields : new[f].under = pin
  BY DEF EncryptData, PinFields
<1> HIDE DEF new
<1>4. RecordFields \subseteq DOMAIN plain /\ UnderPin(plain, pin)
  BY <1>3, NoAccessIsUnder, OverKeepsPin
<1>5. data = Over(a, from) \/ data = Over(a, plain)
  BY Zenon DEF GenerateAccessDataFromXpriv, new
<1> HIDE DEF a, plain, from
<1> QED
  BY <1>1, <1>2, <1>4, <1>5, OverKeepsPin

\* A record of public keys has no pin.
LEMMA XpubUnder ==
  ASSUME NEW xpub, NEW multisig, NEW pin,
         NEW data, data = GenerateAccessDataFromXpub(xpub, multisig), data # None
  PROVE  RecordFields \subseteq DOMAIN data /\ UnderPin(data, pin)
<1> DEFINE account == [xpubkey |-> DeriveChild(xpub, <<0>>),
                       multisig |-> MultisigData(multisig, xpub), readonly |-> TRUE]
           change == [xpubkey |-> xpub, readonly |-> TRUE]
<1>1. DOMAIN account \cap PinFields = {} /\ DOMAIN change \cap PinFields = {}
  BY DEF PinFields
<1>2. data = Over(account, NoAccess) \/ data = Over(change, NoAccess)
  BY Zenon DEF GenerateAccessDataFromXpub
<1> HIDE DEF account, change
<1> QED
  BY <1>1, <1>2, NoAccessIsUnder, OverKeepsPin

\* However the wallet is made.
LEMMA GeneratedUnder ==
  ASSUME NEW o \in Origins, NEW pin, NEW password,
         NEW data, data = Generated(o, pin, password), data # None \/ o.kind = "seed"
  PROVE  RecordFields \subseteq DOMAIN data /\ UnderPin(data, pin)
<1>1. o.kind \in {"seed", "xpriv", "xpub"}
  BY AccessAssumption
<1>2. CASE o.kind = "seed"
  <2>1. data = GenerateAccessDataFromSeed(o.words, o.multisig, o.passphrase, pin, password)
    BY <1>2 DEF Generated
  <2> QED
    BY <2>1, SeedUnder
<1>3. CASE o.kind = "xpriv"
  <2>1. \/ data = GenerateAccessDataFromXpriv(o.key, o.multisig, pin, None)
        \/ data = GenerateAccessDataFromXpriv(DeriveNonCompliantChild(o.key, <<0>>), None, pin, o.auth)
    BY <1>3 DEF Generated
  <2> QED
    BY <1>3, <2>1, XprivUnder
<1>4. CASE o.kind = "xpub"
  <2>1. data = GenerateAccessDataFromXpub(o.key, o.multisig)
    BY <1>4 DEF Generated
  <2> QED
    BY <1>4, <2>1, XpubUnder
<1> QED
  BY <1>1, <1>2, <1>3, <1>4

\* A record from before the shielded keys.
LEMMA OldIsSound ==
  ASSUME NEW data, NEW pin, RecordFields \subseteq DOMAIN data, UnderPin(data, pin)
  PROVE  Sound(Old(data))
<1>1. RecordFields \subseteq DOMAIN Old(data) /\ UnderPin(Old(data), pin)
  BY DEF Old, UnderPin, RecordFields
<1> QED
  BY <1>1, UnderPinIsSound

\* The migration puts new keys beside the main key under the pin that opens that one.
LEMMA MigratedIsSound ==
  ASSUME NEW data, Sound(data), NEW pin, NEW password, NEW passphrase,
         NEW new, new = MigrateShieldedAccessData(data, pin, password, passphrase), new # None
  PROVE  Sound(new)
<1> DEFINE shielded == ShieldedKeys(Root(data.words.data, passphrase), pin)
<1>1. CASE new = data
  BY <1>1
<1>2. CASE new = Over(shielded, data) /\ (data.mainKey # None => CheckPassword(data.mainKey, pin))
  <2>1. RecordFields \subseteq DOMAIN data /\ "mainKey" \in RecordFields
    BY DEF Sound, RecordFields, PinFields
  <2>2. new.mainKey = data.mainKey /\ DOMAIN data \subseteq DOMAIN new
    <3>1. DOMAIN shielded = ShieldedFields /\ "mainKey" \notin ShieldedFields
      BY ShieldedKeysUnder DEF ShieldedFields
    <3> HIDE DEF shielded
    <3>2. "mainKey" \in DOMAIN data \ DOMAIN shielded
      BY <2>1, <3>1
    <3> DEFINE over == Over(shielded, data)
    <3>3. /\ DOMAIN over = DOMAIN data \cup DOMAIN shielded
          /\ \A f \in DOMAIN data \ DOMAIN shielded : over[f] = data[f]
      BY OverFields
    <3>4. new = over
      BY <1>2
    <3> HIDE DEF over
    <3> QED
      BY <3>2, <3>3, <3>4
  <2>3. ASSUME data.mainKey # None PROVE UnderPin(new, pin)
    <3>1. data.mainKey.under = pin /\ UnderPin(data, pin)
      BY <1>2, <2>3 DEF CheckPassword, Sound, OnePin
    <3> HIDE DEF shielded
    <3>2. \A f \in DOMAIN shielded \cap PinFields : shielded[f] # None => shielded[f].under = pin
      BY ShieldedKeysUnder DEF shielded
    <3> QED
      BY <1>2, <2>1, <3>1, <3>2, OverKeepsPin
  <2> QED
    BY <2>1, <2>2, <2>3 DEF Sound, OnePin, UnderPin, PinFields
<1>3. new = data \/ (new = Over(shielded, data) /\ (data.mainKey # None => CheckPassword(data.mainKey, pin)))
  BY Zenon DEF MigrateShieldedAccessData
<1> QED
  BY <1>1, <1>2, <1>3

\* A new pin takes the place of the old one in every key.
LEMMA NewPinIsSound ==
  ASSUME NEW data, Sound(data), NEW old, NEW pin,
         NEW new, new = ChangeEncryptionPin(data, old, pin), new # None
  PROVE  Sound(new)
<1> DEFINE fields == {f \in PinFields : data[f] # None}
<1>1. new = [f \in DOMAIN data |-> IF f \in fields THEN EncryptData(data[f].data, pin) ELSE data[f]]
  BY Zenon DEF ChangeEncryptionPin, Reencrypted
<1>2. DOMAIN new = DOMAIN data /\ PinFields \subseteq DOMAIN data /\ RecordFields \subseteq DOMAIN data
  BY <1>1 DEF Sound, RecordFields
<1>3. UnderPin(new, pin)
  BY <1>1, <1>2 DEF UnderPin, EncryptData
<1> QED
  BY <1>2, <1>3, UnderPinIsSound

LEMMA NewPasswordIsSound ==
  ASSUME NEW data, Sound(data), NEW old, NEW password,
         NEW new, new = ChangeEncryptionPassword(data, old, password), new # None
  PROVE  Sound(new)
<1>1. new = [f \in DOMAIN data |-> IF f \in {"words"} THEN EncryptData(data[f].data, password) ELSE data[f]]
  BY Zenon DEF ChangeEncryptionPassword, Reencrypted
<1>2. DOMAIN new = DOMAIN data /\ PinFields \subseteq DOMAIN data /\ RecordFields \subseteq DOMAIN data
  BY <1>1 DEF Sound, RecordFields
<1>3. \A f \in PinFields : new[f] = data[f]
  BY <1>1, <1>2 DEF PinFields
<1> QED
  BY <1>2, <1>3 DEF Sound, OnePin, UnderPin, PinFields

-----------------------------------------------------------------------------
(* The store *)

CallOK(call) ==
    /\ call = [op |-> call.op, held |-> call.held, old |-> call.old, new |-> call.new]
    /\ call.op \in {"idle", "start", "reload", "clean", "pin", "password"}
    /\ call.held \in Ids \cup {0}
    /\ call.op = "idle" => call.held = 0
    /\ call.op \in {"reload", "clean", "pin", "password"} => call.held # 0

CallsOK == DOMAIN calls = Slots /\ calls = [c \in Slots |-> calls[c]] /\ \A c \in Slots : CallOK(calls[c])

\* Of two calls one holds the record in the store: a third place is free.
Referred ==
    /\ current \in Ids \cup {0}
    /\ started \/ (\E c \in Slots : calls[c].held # 0) => current # 0
    /\ (\A c \in Slots : calls[c].op # "idle") => \E c \in Slots : calls[c].held = current

\* What the store and the calls hold are records, and each has one pin.
AllSound ==
    /\ \A i \in Ids : heap[i] # None => Sound(heap[i])
    /\ current # 0 => Sound(heap[current])
    /\ \A c \in Slots : calls[c].held # 0 => Sound(heap[calls[c].held])

RecordsInv ==
    /\ origin \in Origins /\ started \in BOOLEAN
    /\ heap = [i \in Ids |-> heap[i]]
    /\ CallsOK /\ Referred /\ AllSound

LEMMA InitRecords == Init => RecordsInv
<1> SUFFICES ASSUME Init PROVE RecordsInv
  OBVIOUS
<1>1. CallsOK /\ \A c \in Slots : calls[c].held = 0 /\ calls[c].op = "idle"
  BY DEF Init, CallsOK, CallOK, Idle
<1>2. CASE origin.old
  <2>1. PICK pin \in Pins, password \in Passwords :
          heap = [i \in Ids |-> IF i = 1 THEN Old(Generated(origin, pin, password)) ELSE None]
    BY <1>2 DEF Init
  <2>2. origin \in Origins /\ origin.kind = "seed"
    BY <1>2, AccessAssumption DEF Init
  <2> DEFINE data == Generated(origin, pin, password)
  <2>3. RecordFields \subseteq DOMAIN data /\ UnderPin(data, pin)
    BY <2>2, GeneratedUnder
  <2> HIDE DEF data
  <2>4. Sound(Old(data))
    BY <2>3, OldIsSound
  <2>5. current = 1 /\ heap[1] = Old(data) /\ heap = [i \in Ids |-> heap[i]]
        /\ \A i \in Ids : heap[i] # None => i = 1
    BY <1>2, <2>1 DEF Init, data, Ids
  <2>6. Referred
    BY <1>1, <2>5 DEF Init, Referred, Ids, Slots
  <2>7. AllSound
    BY <1>1, <2>4, <2>5 DEF AllSound
  <2> QED
    BY <1>1, <2>5, <2>6, <2>7 DEF Init, RecordsInv
<1>3. CASE ~origin.old
  <2>1. current = 0 /\ heap = [i \in Ids |-> None]
    BY <1>3 DEF Init
  <2>2. \A i \in Ids : heap[i] = None
    BY <2>1
  <2> QED
    BY <1>1, <2>1, <2>2 DEF Init, RecordsInv, Referred, AllSound, Slots
<1> QED
  BY <1>2, <1>3

\* A call has read the record.
LEMMA ReadsRecords ==
  ASSUME RecordsInv, NEW c \in Slots, NEW op \in {"start", "reload", "pin", "password"},
         op = "start" \/ current # 0, NEW old, NEW new, GetAccessData(c, op, old, new)
  PROVE  RecordsInv'
<1>1. calls' = [calls EXCEPT ![c] = [op |-> op, held |-> current, old |-> old, new |-> new]]
      /\ UNCHANGED <<origin, heap, current, started>>
  BY DEF GetAccessData
<1>2. /\ calls'[c] = [op |-> op, held |-> current, old |-> old, new |-> new]
      /\ \A d \in Slots \ {c} : calls'[d] = calls[d]
      /\ DOMAIN calls' = Slots /\ calls' = [d \in Slots |-> calls'[d]]
  BY <1>1 DEF RecordsInv, CallsOK
<1>3. current \in Ids \cup {0}
  BY DEF RecordsInv, Referred
<1>4. CallsOK'
  BY <1>2, <1>3 DEF RecordsInv, CallsOK, CallOK
<1>5. Referred'
  BY <1>1, <1>2 DEF RecordsInv, Referred
<1>6. AllSound'
  BY <1>1, <1>2 DEF RecordsInv, AllSound
<1> QED
  BY <1>1, <1>4, <1>5, <1>6 DEF RecordsInv

\* A call ends and the store has a record with one pin, as has every one that is held.
LEMMA EndsRecords ==
  ASSUME RecordsInv, NEW c \in Slots, calls[c].op # "idle",
         NEW id \in Ids \cup {0}, NEW records, Ends(c, id, records),
         origin' = origin, started' \in BOOLEAN, started' => id # 0, current # 0 => id # 0,
         id # 0 => Sound(records[id]),
         \A d \in Slots \ {c} : calls[d].held # 0 => Sound(records[calls[d].held])
  PROVE  RecordsInv'
<1>1. /\ current' = id
      /\ calls' = [calls EXCEPT ![c] = Idle]
      /\ heap' = [i \in Ids |-> IF i = id \/ \E d \in Slots \ {c} : calls[d].held = i
                                THEN records[i] ELSE None]
  BY DEF Ends
<1>2. /\ calls'[c] = [op |-> "idle", held |-> 0, old |-> None, new |-> None]
      /\ \A d \in Slots \ {c} : calls'[d] = calls[d]
      /\ DOMAIN calls' = Slots /\ calls' = [d \in Slots |-> calls'[d]]
  BY <1>1 DEF RecordsInv, CallsOK, Idle
<1>3. CallsOK'
  BY <1>2 DEF RecordsInv, CallsOK, CallOK
<1>4. Referred'
  BY <1>1, <1>2 DEF RecordsInv, Referred
<1>5. AllSound'
  <2>1. \A d \in Slots : calls[d].held \in Ids \cup {0}
    BY DEF RecordsInv, CallsOK, CallOK
  <2>2. \A i \in Ids : i = id \/ (\E d \in Slots \ {c} : calls[d].held = i) => Sound(records[i])
    BY DEF Ids
  <2>3. \A i \in Ids : heap'[i] # None => Sound(heap'[i])
    BY <1>1, <2>2, Zenon
  <2>4. current' # 0 => Sound(heap'[current'])
    BY <1>1, <2>2
  <2>5. \A d \in Slots \ {c} : calls'[d].held # 0 => Sound(heap'[calls'[d].held])
    BY <1>1, <1>2, <2>1, <2>2
  <2> QED
    BY <1>2, <2>3, <2>4, <2>5 DEF AllSound
<1>6. heap' = [i \in Ids |-> heap'[i]]
  BY <1>1
<1> QED
  BY <1>3, <1>4, <1>5, <1>6 DEF RecordsInv

\* Something else happens.
LEMMA OthersKeepRecords ==
  ASSUME RecordsInv, UNCHANGED <<origin, heap, current, calls>>,
         started' = started \/ started' = FALSE
  PROVE  RecordsInv'
<1>1. CallsOK' /\ AllSound'
  BY DEF RecordsInv, CallsOK, AllSound
<1>2. Referred'
  BY DEF RecordsInv, Referred
<1> QED
  BY <1>1, <1>2 DEF RecordsInv

\* The store keeps its record.
LEMMA ThrowsRecords ==
  ASSUME RecordsInv, NEW c \in Slots, calls[c].op # "idle", Throws(c),
         origin' = origin, started' \in BOOLEAN, started' => current # 0
  PROVE  RecordsInv'
<1>1. Ends(c, current, heap) /\ current \in Ids \cup {0}
  BY DEF Throws, RecordsInv, Referred
<1> QED
  BY <1>1, EndsRecords DEF RecordsInv, AllSound

\* A record is saved where it was, or in the place of one that nothing refers to.
LEMMA SavesRecords ==
  ASSUME RecordsInv, NEW c \in Slots, calls[c].op # "idle",
         NEW id \in Ids, NEW data, Sound(data), SaveAccessData(c, id, data),
         origin' = origin, started' \in BOOLEAN
  PROVE  RecordsInv'
<1> DEFINE records == [heap EXCEPT ![id] = data]
<1>1. Ends(c, id, records)
  BY DEF SaveAccessData
<1>2. \A i \in Ids : records[i] = IF i = id THEN data ELSE heap[i]
  BY DEF RecordsInv
<1>3. \A d \in Slots : calls[d].held \in Ids \cup {0} /\ (calls[d].held # 0 => Sound(heap[calls[d].held]))
  BY DEF RecordsInv, CallsOK, CallOK, AllSound
<1>4. id # 0
  BY DEF Ids
<1> HIDE DEF records
<1> QED
  BY <1>1, <1>2, <1>3, <1>4, EndsRecords

LEMMA SavesNewRecords ==
  ASSUME RecordsInv, NEW c \in Slots, calls[c].op # "idle",
         NEW data, Sound(data), SaveNew(c, data),
         origin' = origin, started' \in BOOLEAN
  PROVE  RecordsInv'
<1> DEFINE Unused(i) == i # current /\ \A d \in Slots : calls[d].held # i
           id == CHOOSE i \in Ids : Unused(i)
<1>1. \A d \in Slots : calls[d].op = "idle" => calls[d].held = 0
  BY DEF RecordsInv, CallsOK, CallOK
<1>2. \E d \in Slots : calls[d].held \in {current, 0}
  BY <1>1 DEF RecordsInv, Referred
<1>3. \E i \in Ids : Unused(i)
  BY <1>2 DEF Ids, Slots
<1>4. id \in Ids
  BY <1>3
<1>5. SaveAccessData(c, id, data)
  BY DEF SaveNew
<1> HIDE DEF id
<1> QED
  BY <1>4, <1>5, SavesRecords

-----------------------------------------------------------------------------
(* The steps *)

LEMMA StartRestRecords ==
  ASSUME RecordsInv, NEW c \in Slots, StartRest(c)
  PROVE  RecordsInv'
<1> DEFINE call == calls[c]
           fresh == Generated(origin, call.old, call.new)
           data == heap[call.held]
           migrated == MigrateShieldedAccessData(data, call.old, call.new, origin.passphrase)
<1>1. call.op # "idle" /\ origin \in Origins /\ origin' = origin
  BY DEF StartRest, RecordsInv
<1>2. ASSUME call.held # 0 PROVE call.held \in Ids /\ Sound(data) /\ current # 0
  BY <1>2 DEF RecordsInv, CallsOK, CallOK, AllSound, Referred
<1>3. \/ started' = FALSE /\ Throws(c)
      \/ started' = TRUE /\ call.held # 0 /\ Throws(c)
      \/ started' = TRUE /\ fresh # None /\ SaveNew(c, fresh)
      \/ started' = TRUE /\ call.held # 0 /\ migrated # None /\ SaveAccessData(c, call.held, migrated)
  BY Zenon DEF StartRest
<1>4. CASE Throws(c) /\ started' \in BOOLEAN /\ (started' => call.held # 0)
  BY <1>1, <1>2, <1>4, ThrowsRecords
<1>5. CASE started' = TRUE /\ fresh # None /\ SaveNew(c, fresh)
  <2> HIDE DEF fresh
  <2>1. RecordFields \subseteq DOMAIN fresh /\ UnderPin(fresh, call.old)
    BY <1>1, <1>5, GeneratedUnder DEF fresh
  <2>2. Sound(fresh)
    BY <2>1, UnderPinIsSound
  <2> QED
    BY <1>1, <1>5, <2>2, SavesNewRecords
<1>6. CASE started' = TRUE /\ call.held # 0 /\ migrated # None /\ SaveAccessData(c, call.held, migrated)
  <2> HIDE DEF migrated
  <2>1. Sound(migrated)
    BY <1>2, <1>6, MigratedIsSound DEF migrated
  <2> QED
    BY <1>1, <1>2, <1>6, <2>1, SavesRecords
<1> HIDE DEF fresh, migrated
<1> QED
  BY <1>3, <1>4, <1>5, <1>6

LEMMA ReloadRecords ==
  ASSUME RecordsInv, NEW c \in Slots, ReloadClean(c) \/ ReloadRest(c)
  PROVE  RecordsInv'
<1>1. CASE ReloadClean(c)
  <2>1. calls[c].op = "reload" /\ calls' = [calls EXCEPT ![c].op = "clean"]
        /\ UNCHANGED <<origin, heap, current, started>>
    BY <1>1 DEF ReloadClean
  <2>2. calls[c] = [op |-> calls[c].op, held |-> calls[c].held, old |-> calls[c].old, new |-> calls[c].new]
    BY DEF RecordsInv, CallsOK, CallOK
  <2>3. /\ calls'[c] = [op |-> "clean", held |-> calls[c].held, old |-> calls[c].old, new |-> calls[c].new]
        /\ \A d \in Slots \ {c} : calls'[d] = calls[d]
        /\ DOMAIN calls' = Slots /\ calls' = [d \in Slots |-> calls'[d]]
    BY <2>1, <2>2 DEF RecordsInv, CallsOK
  <2>4. \A d \in Slots : calls'[d].held = calls[d].held
                         /\ (calls'[d].op # "idle" => calls[d].op # "idle")
    <3>1. calls'[c].held = calls[c].held /\ calls[c].op # "idle"
      BY <2>1, <2>3
    <3> QED
      BY <2>3, <3>1
  <2>5. CallsOK'
    BY <2>1, <2>3 DEF RecordsInv, CallsOK, CallOK
  <2>6. Referred'
    BY <2>1, <2>4 DEF RecordsInv, Referred
  <2>7. AllSound'
    BY <2>1, <2>4 DEF RecordsInv, AllSound
  <2> QED
    BY <2>1, <2>5, <2>6, <2>7 DEF RecordsInv
<1>2. CASE ReloadRest(c)
  <2> DEFINE id == calls[c].held
  <2>1. calls[c].op = "clean" /\ SaveAccessData(c, id, heap[id]) /\ UNCHANGED <<origin, started>>
    BY <1>2 DEF ReloadRest
  <2>2. id \in Ids /\ Sound(heap[id]) /\ started \in BOOLEAN
    BY <2>1 DEF RecordsInv, CallsOK, CallOK, AllSound
  <2> HIDE DEF id
  <2> QED
    BY <2>1, <2>2, SavesRecords
<1> QED
  BY <1>1, <1>2

LEMMA ChangeRecords ==
  ASSUME RecordsInv, NEW c \in Slots, ChangePinRest(c) \/ ChangePasswordRest(c)
  PROVE  RecordsInv'
<1> DEFINE call == calls[c]
           pin == ChangeEncryptionPin(heap[call.held], call.old, call.new)
           password == ChangeEncryptionPassword(heap[call.held], call.old, call.new)
<1>1. call.op \in {"pin", "password"} /\ UNCHANGED <<origin, started>>
  BY DEF ChangePinRest, ChangePasswordRest
<1>2. Sound(heap[call.held]) /\ started \in BOOLEAN /\ current # 0
  BY <1>1 DEF RecordsInv, CallsOK, CallOK, AllSound, Referred
<1>3. \/ Throws(c)
      \/ pin # None /\ SaveNew(c, pin)
      \/ password # None /\ SaveNew(c, password)
  BY Zenon DEF ChangePinRest, ChangePasswordRest
<1> HIDE DEF pin, password
<1>4. ASSUME pin # None PROVE Sound(pin)
  BY <1>2, <1>4, NewPinIsSound DEF pin
<1>5. ASSUME password # None PROVE Sound(password)
  BY <1>2, <1>5, NewPasswordIsSound DEF password
<1> QED
  BY <1>1, <1>2, <1>3, <1>4, <1>5, ThrowsRecords, SavesNewRecords

LEMMA NextRecords == RecordsInv /\ [Next]_vars => RecordsInv'
<1> SUFFICES ASSUME RecordsInv, [Next]_vars PROVE RecordsInv'
  OBVIOUS
<1>1. ASSUME NEW c \in Slots, Call(c) PROVE RecordsInv'
  <2>1. ASSUME NEW pin, NEW password, Start(c, pin, password) PROVE RecordsInv'
    BY <2>1, ReadsRecords DEF Start
  <2>2. CASE Reload(c)
    <3>1. current # 0 /\ GetAccessData(c, "reload", None, None)
      BY <2>2 DEF Reload, RecordsInv, Referred
    <3> QED
      BY <3>1, ReadsRecords
  <2>3. ASSUME NEW old, NEW new, ChangePin(c, old, new) \/ ChangePassword(c, old, new)
        PROVE  RecordsInv'
    BY <2>3, ReadsRecords DEF ChangePin, ChangePassword
  <2> QED
    BY <1>1, <2>1, <2>2, <2>3, StartRestRecords, ReloadRecords, ChangeRecords DEF Call
<1>2. CASE Load
  BY <1>2, OthersKeepRecords DEF Load
<1>3. ASSUME NEW clean \in BOOLEAN, Stop(clean) PROVE RecordsInv'
  BY <1>3, OthersKeepRecords DEF Stop
<1>4. ASSUME NEW p \in Participants, NEW a \in addresses, GetAllSignatures(p, a) PROVE RecordsInv'
  BY <1>4, OthersKeepRecords DEF GetAllSignatures
<1>5. ASSUME NEW a \in addresses, AssemblePartialTransaction(a) PROVE RecordsInv'
  BY <1>5, OthersKeepRecords DEF AssemblePartialTransaction
<1>6. CASE UNCHANGED vars
  BY <1>6, OthersKeepRecords DEF vars
<1> QED
  BY <1>1, <1>2, <1>3, <1>4, <1>5, <1>6 DEF Next

\* The pin that checkPin() of src/storage/storage.ts accepts opens every private key
\* of the record, whatever the wallet was made from and however start(),
\* reloadStorage(), changePin() and changePassword() overlap.
THEOREM OnePinOpensAll == Spec => []PinOpensTheKeys
<1>1. RecordsInv => PinOpensTheKeys
  <2> SUFFICES ASSUME RecordsInv, NEW i \in Ids, NEW pin \in Pins, heap[i] # None,
                      CheckPin(heap[i], pin), NEW f \in PinFields, heap[i][f] # None
               PROVE  CheckPassword(heap[i][f], pin)
    BY DEF PinOpensTheKeys
  <2>1. Sound(heap[i])
    BY DEF RecordsInv, AllSound
  <2> QED
    BY <2>1 DEF Sound, OnePin, UnderPin, CheckPin, CheckPassword
<1> QED
  BY <1>1, InitRecords, NextRecords, PTL DEF Spec

-----------------------------------------------------------------------------
(* Keys *)

Key(secret, seed, path) == [secret |-> secret, seed |-> seed, path |-> path]
PrivateKey(seed, path) == Key(TRUE, seed, path)
PublicKey(seed, path) == Key(FALSE, seed, path)
\* The path that the non-compliant derivation adds.
Hard(path) == [i \in DOMAIN path |-> IF path[i] >= Hardened THEN path[i] + Hardened ELSE path[i]]

LEMMA KeysDerive ==
  ASSUME NEW secret, NEW seed, NEW path
  PROVE  /\ \A new : DeriveChild(Key(secret, seed, path), new) = Key(secret, seed, path \o new)
         /\ \A new : DeriveNonCompliantChild(Key(secret, seed, path), new)
                        = Key(secret, seed, path \o Hard(new))
         /\ Public(Key(secret, seed, path)) = PublicKey(seed, path)
         /\ Depth(Key(secret, seed, path)) = Len(path)
<1> DEFINE key == Key(secret, seed, path)
<1>1. key = [secret |-> secret, seed |-> seed, path |-> path]
  BY DEF Key
<1>2. /\ \A new : DeriveChild(key, new) = [key EXCEPT !.path = @ \o new]
      /\ \A new : DeriveNonCompliantChild(key, new) = [key EXCEPT !.path = @ \o Hard(new)]
      /\ Public(key) = [key EXCEPT !.secret = FALSE] /\ Depth(key) = Len(key.path)
  BY Zenon DEF DeriveChild, DeriveNonCompliantChild, Hard, Public, Depth
<1>3. ASSUME NEW p PROVE [key EXCEPT !.path = p] = Key(secret, seed, p)
  BY <1>1 DEF Key
<1>4. ASSUME NEW b PROVE [key EXCEPT !.secret = b] = Key(b, seed, path)
  BY <1>1 DEF Key
<1>5. [key EXCEPT !.secret = FALSE] = PublicKey(seed, path)
  BY <1>4, Zenon DEF PublicKey
<1>6. key.path = path
  BY <1>1
<1> HIDE DEF key
<1> QED
  BY <1>2, <1>3, <1>5, <1>6 DEF key

LEMMA PrivateKeysDerive ==
  ASSUME NEW seed, NEW path
  PROVE  /\ \A new : DeriveChild(PrivateKey(seed, path), new) = PrivateKey(seed, path \o new)
         /\ \A new : DeriveNonCompliantChild(PrivateKey(seed, path), new)
                        = PrivateKey(seed, path \o Hard(new))
         /\ Public(PrivateKey(seed, path)) = PublicKey(seed, path)
         /\ Depth(PrivateKey(seed, path)) = Len(path)
  BY KeysDerive, Zenon DEF PrivateKey

LEMMA PublicKeysDerive ==
  ASSUME NEW seed, NEW path
  PROVE  /\ \A new : DeriveChild(PublicKey(seed, path), new) = PublicKey(seed, path \o new)
         /\ Public(PublicKey(seed, path)) = PublicKey(seed, path)
         /\ Depth(PublicKey(seed, path)) = Len(path)
<1>1. ASSUME NEW new PROVE DeriveChild(PublicKey(seed, path), new) = PublicKey(seed, path \o new)
  <2>1. \A secret : DeriveChild(Key(secret, seed, path), new) = Key(secret, seed, path \o new)
    BY KeysDerive
  <2>2. DeriveChild(Key(FALSE, seed, path), new) = Key(FALSE, seed, path \o new)
    BY <2>1, Zenon
  <2> QED
    BY <2>2, Zenon DEF PublicKey
<1>2. Depth(PublicKey(seed, path)) = Len(path)
  BY KeysDerive, Zenon DEF PublicKey
<1>3. Public(PublicKey(seed, path)) = PublicKey(seed, path)
  <2>1. \A secret : Public(Key(secret, seed, path)) = PublicKey(seed, path)
    BY KeysDerive
  <2> DEFINE key == PublicKey(seed, path)
  <2>2. \A secret : Public(Key(secret, seed, path)) = key
    BY <2>1
  <2> HIDE DEF key
  <2>3. Public(Key(FALSE, seed, path)) = key
    BY <2>2, Zenon
  <2> QED
    BY <2>3, Zenon DEF key, PublicKey
<1> QED
  BY <1>1, <1>2, <1>3

LEMMA HardPaths ==
  ASSUME NEW p \in Seq(Nat)
  PROVE  Hard(p) \in Seq(Nat) /\ Len(Hard(p)) = Len(p)
         /\ \A i \in 1..Len(p) : Hard(p)[i] = IF p[i] >= Hardened THEN p[i] + Hardened ELSE p[i]
<1>1. Hardened \in Nat
  BY HardenedAssumption
<1>2. \A i \in 1..Len(p) : p[i] \in Nat
  OBVIOUS
<1>3. Hard(p) = [i \in 1..Len(p) |-> IF p[i] >= Hardened THEN p[i] + Hardened ELSE p[i]]
  BY DEF Hard
<1> QED
  BY <1>1, <1>2, <1>3

LEMMA HardConcat ==
  ASSUME NEW p \in Seq(Nat), NEW q \in Seq(Nat)
  PROVE  Hard(p \o q) = Hard(p) \o Hard(q)
<1> DEFINE a == Hard(p)
           b == Hard(q)
<1>1. /\ a \in Seq(Nat) /\ Len(a) = Len(p)
      /\ \A i \in 1..Len(p) : a[i] = IF p[i] >= Hardened THEN p[i] + Hardened ELSE p[i]
  BY HardPaths
<1>2. /\ b \in Seq(Nat) /\ Len(b) = Len(q)
      /\ \A i \in 1..Len(q) : b[i] = IF q[i] >= Hardened THEN q[i] + Hardened ELSE q[i]
  BY HardPaths
<1> HIDE DEF a, b
<1> DEFINE c == p \o q
           d == a \o b
<1>3. /\ c \in Seq(Nat) /\ Len(c) = Len(p) + Len(q)
      /\ \A i \in 1..Len(c) : c[i] = IF i <= Len(p) THEN p[i] ELSE q[i - Len(p)]
  BY ConcatProperties
<1>4. /\ d \in Seq(Nat) /\ Len(d) = Len(p) + Len(q)
      /\ \A i \in 1..Len(d) : d[i] = IF i <= Len(p) THEN a[i] ELSE b[i - Len(p)]
  <2>1. /\ d \in Seq(Nat) /\ Len(d) = Len(a) + Len(b)
        /\ \A i \in 1..Len(a) + Len(b) : d[i] = IF i <= Len(a) THEN a[i] ELSE b[i - Len(a)]
    <3> a \in Seq(Nat) /\ b \in Seq(Nat)
      BY <1>1, <1>2
    <3> QED
      BY ConcatProperties
  <2> HIDE DEF d
  <2> QED
    BY <1>1, <1>2, <2>1
<1> HIDE DEF c, d
<1>5. /\ Hard(c) \in Seq(Nat) /\ Len(Hard(c)) = Len(c)
      /\ \A i \in 1..Len(c) : Hard(c)[i] = IF c[i] >= Hardened THEN c[i] + Hardened ELSE c[i]
  BY <1>3, HardPaths
<1>6. ASSUME NEW i \in 1..Len(c) PROVE Hard(c)[i] = d[i]
  <2>1. Len(c) = Len(d) /\ Len(p) \in Nat /\ Len(q) \in Nat
    BY <1>3, <1>4
  <2>2. CASE i <= Len(p)
    <3>1. i \in 1..Len(p)
      BY <2>1, <2>2
    <3>2. c[i] = p[i]
      BY <1>3, <2>2
    <3>3. d[i] = a[i]
      BY <1>4, <2>1, <2>2
    <3>4. Hard(c)[i] = IF c[i] >= Hardened THEN c[i] + Hardened ELSE c[i]
      BY <1>5
    <3>5. a[i] = IF p[i] >= Hardened THEN p[i] + Hardened ELSE p[i]
      BY <1>1, <3>1
    <3> QED
      BY <3>2, <3>3, <3>4, <3>5
  <2>3. CASE ~(i <= Len(p))
    <3>1. i - Len(p) \in 1..Len(q)
      BY <1>3, <2>1, <2>3
    <3>2. c[i] = q[i - Len(p)]
      BY <1>3, <2>3
    <3>3. d[i] = b[i - Len(p)]
      BY <1>4, <2>1, <2>3
    <3>4. Hard(c)[i] = IF c[i] >= Hardened THEN c[i] + Hardened ELSE c[i]
      BY <1>5
    <3> DEFINE j == i - Len(p)
    <3> HIDE DEF j
    <3>5. b[j] = IF q[j] >= Hardened THEN q[j] + Hardened ELSE q[j]
      BY <1>2, <3>1 DEF j
    <3> QED
      BY <3>2, <3>3, <3>4, <3>5 DEF j
  <2> QED
    BY <2>2, <2>3
<1>7. Hard(c) = d
  BY <1>3, <1>4, <1>5, <1>6, SeqEqual
<1> QED
  BY <1>7 DEF a, b, c, d

LEMMA SoftIndex ==
  ASSUME NEW i \in 0..Hardened - 1
  PROVE  Hard(<<i>>) = <<i>> /\ Hard(<<0, i>>) = <<0, i>> /\ Hard(<<0>>) = <<0>>
<1>1. Hardened \in Nat /\ Hardened > 0 /\ i \in Nat
  BY HardenedAssumption
<1>2. ASSUME NEW p \in Seq(Nat), \A j \in 1..Len(p) : p[j] < Hardened PROVE Hard(p) = p
  <2>1. Hard(p) \in Seq(Nat) /\ Len(Hard(p)) = Len(p) /\ \A j \in 1..Len(p) : p[j] \in Nat
    BY <1>2, HardPaths
  <2>2. \A j \in 1..Len(p) : Hard(p)[j] = p[j]
    BY <1>1, <1>2, <2>1, HardPaths
  <2> QED
    BY <1>2, <2>1, <2>2, SeqEqual
<1>3. <<i>> \in Seq(Nat) /\ <<0, i>> \in Seq(Nat) /\ <<0>> \in Seq(Nat)
  BY <1>1
<1>4. (\A j \in 1..Len(<<i>>) : <<i>>[j] < Hardened) /\ (\A j \in 1..Len(<<0>>) : <<0>>[j] < Hardened)
  BY <1>1
<1>5. \A j \in 1..Len(<<0, i>>) : <<0, i>>[j] < Hardened
  BY <1>1
<1> QED
  BY <1>2, <1>3, <1>4, <1>5

LEMMA PathTypes ==
  /\ P2PKHAcctPath \in Seq(Nat) /\ P2SHAcctPath \in Seq(Nat) /\ AuthPath \in Seq(Nat)
  /\ ShieldedScanAcctPath \in Seq(Nat) /\ ShieldedSpendAcctPath \in Seq(Nat)
  /\ Len(P2PKHAcctPath) = 3 /\ Len(P2SHAcctPath) = 3
  BY HardenedAssumption
     DEF P2PKHAcctPath, P2SHAcctPath, AuthPath, ShieldedScanAcctPath, ShieldedSpendAcctPath, Account

LEMMA AccountPaths ==
  ASSUME NEW multisig
  PROVE  /\ AccountPath(multisig) \in Seq(Nat) /\ Len(AccountPath(multisig)) = 3
         /\ Hard(AccountPath(multisig)) \in Seq(Nat) /\ Len(Hard(AccountPath(multisig))) = 3
<1>1. AccountPath(multisig) \in Seq(Nat) /\ Len(AccountPath(multisig)) = 3
  BY PathTypes DEF AccountPath
<1> QED
  BY <1>1, HardPaths

LEMMA RootDerives ==
  ASSUME NEW seed
  PROVE  /\ \A p \in Seq(Nat) : DeriveNonCompliantChild(PrivateKey(seed, <<>>), p) = PrivateKey(seed, Hard(p))
         /\ \A p \in Seq(Nat) : DeriveChild(PrivateKey(seed, <<>>), p) = PrivateKey(seed, p)
<1> SUFFICES ASSUME NEW p \in Seq(Nat)
             PROVE  /\ DeriveNonCompliantChild(PrivateKey(seed, <<>>), p) = PrivateKey(seed, Hard(p))
                    /\ DeriveChild(PrivateKey(seed, <<>>), p) = PrivateKey(seed, p)
  OBVIOUS
<1>1. <<>> \o Hard(p) = Hard(p) /\ <<>> \o p = p
  BY HardPaths, ConcatEmptySeq
<1>2. /\ DeriveNonCompliantChild(PrivateKey(seed, <<>>), p) = PrivateKey(seed, <<>> \o Hard(p))
      /\ DeriveChild(PrivateKey(seed, <<>>), p) = PrivateKey(seed, <<>> \o p)
  BY PrivateKeysDerive
<1> QED
  BY <1>1, <1>2

LEMMA ChangeDerives ==
  ASSUME NEW seed, NEW p
  PROVE  DeriveNonCompliantChild(PrivateKey(seed, p), <<0>>) = PrivateKey(seed, p \o <<0>>)
<1>1. 0 \in 0..Hardened - 1
  BY HardenedAssumption
<1>2. Hard(<<0>>) = <<0>>
  BY <1>1, SoftIndex
<1>3. DeriveNonCompliantChild(PrivateKey(seed, p), <<0>>) = PrivateKey(seed, p \o Hard(<<0>>))
  BY PrivateKeysDerive
<1> QED
  BY <1>2, <1>3

\* The keys of a wallet, by their paths.
LEMMA OwnKeys ==
  ASSUME NEW o
  PROVE  LET seed == <<o.words, o.passphrase>> IN
         /\ RootOf(o) = PrivateKey(seed, <<>>)
         /\ AccountOf(o) = PrivateKey(seed, Hard(AccountPath(o.multisig)))
         /\ SingleAccountOf(o) = PrivateKey(seed, Hard(P2PKHAcctPath))
         /\ MainOf(o) = PrivateKey(seed, Hard(AccountPath(o.multisig)) \o <<0>>)
         /\ ChangeOf(o) = PrivateKey(seed, Hard(P2PKHAcctPath) \o <<0>>)
         /\ AuthOf(o) = PrivateKey(seed, Hard(AuthPath))
         /\ ScanOf(o) = PrivateKey(seed, ShieldedScanAcctPath \o <<0>>)
         /\ SpendOf(o) = PrivateKey(seed, ShieldedSpendAcctPath \o <<0>>)
<1> DEFINE seed == <<o.words, o.passphrase>>
<1>1. RootOf(o) = PrivateKey(seed, <<>>)
  BY Zenon DEF RootOf, Root, PrivateKey, Key
<1> HIDE DEF seed
<1>6. ShieldedScanAcctPath \o <<0>> \in Seq(Nat) /\ ShieldedSpendAcctPath \o <<0>> \in Seq(Nat)
  <2>1. <<0>> \in Seq(Nat)
    OBVIOUS
  <2> QED
    BY <2>1, PathTypes, ConcatProperties
<1>7. /\ AccountOf(o) = PrivateKey(seed, Hard(AccountPath(o.multisig)))
      /\ SingleAccountOf(o) = PrivateKey(seed, Hard(P2PKHAcctPath))
      /\ AuthOf(o) = PrivateKey(seed, Hard(AuthPath))
      /\ ScanOf(o) = PrivateKey(seed, ShieldedScanAcctPath \o <<0>>)
      /\ SpendOf(o) = PrivateKey(seed, ShieldedSpendAcctPath \o <<0>>)
  BY <1>1, <1>6, PathTypes, AccountPaths, RootDerives DEF AccountOf, SingleAccountOf, AuthOf, ScanOf, SpendOf
<1>8. /\ MainOf(o) = PrivateKey(seed, Hard(AccountPath(o.multisig)) \o <<0>>)
      /\ ChangeOf(o) = PrivateKey(seed, Hard(P2PKHAcctPath) \o <<0>>)
  BY <1>7, ChangeDerives DEF MainOf, ChangeOf
<1> QED
  BY <1>1, <1>7, <1>8 DEF seed

LEMMA OwnDepths ==
  ASSUME NEW o
  PROVE  /\ Depth(RootOf(o)) = 0
         /\ Depth(SingleAccountOf(o)) = 3 /\ Depth(AccountOf(o)) = 3 /\ Depth(Public(AccountOf(o))) = 3
         /\ Depth(ChangeOf(o)) = 4 /\ Depth(Public(ChangeOf(o))) = 4
<1> DEFINE seed == <<o.words, o.passphrase>>
<1> HIDE DEF seed
<1>1. ASSUME NEW p, p \in Seq(Nat), Len(p) = 3 PROVE Len(Hard(p)) = 3 /\ Len(Hard(p) \o <<0>>) = 4
  <2>1. Hard(p) \in Seq(Nat) /\ Len(Hard(p)) = 3 /\ <<0>> \in Seq(Nat) /\ Len(<<0>>) = 1
    BY <1>1, HardPaths
  <2> DEFINE a == Hard(p)
             b == <<0>>
  <2> HIDE DEF a, b
  <2>2. a \in Seq(Nat) /\ b \in Seq(Nat) /\ Len(a) = 3 /\ Len(b) = 1
    BY <2>1 DEF a, b
  <2>3. Len(a \o b) = Len(a) + Len(b)
    BY <2>2, ConcatProperties
  <2>4. Len(a \o b) = 4
    BY <2>2, <2>3
  <2> QED
    BY <2>1, <2>4 DEF a, b
<1>2. /\ Len(Hard(AccountPath(o.multisig))) = 3 /\ Len(Hard(P2PKHAcctPath)) = 3
      /\ Len(Hard(P2PKHAcctPath) \o <<0>>) = 4
  BY <1>1, AccountPaths, PathTypes
<1>3. /\ RootOf(o) = PrivateKey(seed, <<>>)
      /\ AccountOf(o) = PrivateKey(seed, Hard(AccountPath(o.multisig)))
      /\ SingleAccountOf(o) = PrivateKey(seed, Hard(P2PKHAcctPath))
      /\ ChangeOf(o) = PrivateKey(seed, Hard(P2PKHAcctPath) \o <<0>>)
  BY OwnKeys DEF seed
<1>4. Depth(PrivateKey(seed, <<>>)) = 0
  <2>1. Depth(PrivateKey(seed, <<>>)) = Len(<<>>)
    BY PrivateKeysDerive
  <2> QED
    BY <2>1
<1>5. \A p : Depth(PrivateKey(seed, p)) = Len(p) /\ Depth(Public(PrivateKey(seed, p))) = Len(p)
  <2> TAKE p
  <2>1. Public(PrivateKey(seed, p)) = PublicKey(seed, p)
    BY PrivateKeysDerive
  <2> QED
    BY <2>1, PrivateKeysDerive, PublicKeysDerive
<1> QED
  BY <1>2, <1>3, <1>4, <1>5

\* The keys of the main key are those of the account, public or not.
LEMMA OwnPublic ==
  ASSUME NEW o
  PROVE  /\ DeriveChild(Public(AccountOf(o)), <<0>>) = Public(MainOf(o))
         /\ Public(Public(AccountOf(o))) = Public(AccountOf(o))
         /\ DeriveNonCompliantChild(SingleAccountOf(o), <<0>>) = ChangeOf(o)
         /\ o.multisig = None => MainOf(o) = ChangeOf(o) /\ AccountOf(o) = SingleAccountOf(o)
<1> DEFINE seed == <<o.words, o.passphrase>>
<1> HIDE DEF seed
<1>1. /\ AccountOf(o) = PrivateKey(seed, Hard(AccountPath(o.multisig)))
      /\ MainOf(o) = PrivateKey(seed, Hard(AccountPath(o.multisig)) \o <<0>>)
  BY OwnKeys DEF seed
<1>2. o.multisig = None => AccountPath(o.multisig) = P2PKHAcctPath
  BY DEF AccountPath
<1> QED
  BY <1>1, <1>2, PrivateKeysDerive, PublicKeysDerive DEF ChangeOf, MainOf, AccountOf, SingleAccountOf

LEMMA JoinPaths ==
  ASSUME NEW p \in Seq(Nat), NEW i \in Nat
  PROVE  /\ (p \o <<0>>) \o <<i>> = p \o <<0, i>>
         /\ p \o <<0>> \in Seq(Nat) /\ p \o <<0, i>> \in Seq(Nat)
<1>1. <<0>> \in Seq(Nat) /\ <<i>> \in Seq(Nat) /\ <<0, i>> \in Seq(Nat)
  OBVIOUS
<1>2. <<0>> \o <<i>> = <<0, i>>
  <2> DEFINE a == <<0>>
             b == <<i>>
  <2>1. a \in Seq(Nat) /\ b \in Seq(Nat) /\ Len(a) = 1 /\ Len(b) = 1 /\ a[1] = 0 /\ b[1] = i
    OBVIOUS
  <2> HIDE DEF a, b
  <2>2. /\ a \o b \in Seq(Nat) /\ Len(a \o b) = Len(a) + Len(b)
        /\ \A j \in 1..Len(a) + Len(b) : (a \o b)[j] = IF j <= Len(a) THEN a[j] ELSE b[j - Len(a)]
    BY <2>1, ConcatProperties
  <2> DEFINE c == a \o b
             d == <<0, i>>
  <2>3. d \in Seq(Nat) /\ Len(d) = 2 /\ d[1] = 0 /\ d[2] = i
    OBVIOUS
  <2>4. c \in Seq(Nat) /\ Len(c) = 2 /\ c[1] = 0 /\ c[2] = i
    BY <2>1, <2>2
  <2> HIDE DEF c, d
  <2>5. \A j \in 1..Len(c) : c[j] = d[j]
    BY <2>3, <2>4
  <2>6. c = d
    BY <2>3, <2>4, <2>5, SeqEqual
  <2> QED
    BY <2>6 DEF a, b, c, d
<1>3. (p \o <<0>>) \o <<i>> = p \o (<<0>> \o <<i>>)
  BY <1>1, ConcatAssociative
<1> QED
  BY <1>1, <1>2, <1>3, ConcatProperties

\* The key of an index, from the main key, from its public key and at its path.
LEMMA IndexKeys ==
  ASSUME NEW o, NEW i \in 0..Indexes - 1
  PROVE  LET path == AccountPath(o.multisig)
             key == PublicKey(<<o.words, o.passphrase>>, Hard(path) \o <<0, i>>) IN
         /\ DeriveChild(Public(MainOf(o)), <<i>>) = key
         /\ Public(DeriveChild(Public(MainOf(o)), <<i>>)) = key
         /\ Public(DeriveNonCompliantChild(MainOf(o), <<i>>)) = key
         /\ KeyAt(o, path \o <<0, i>>) = key
         /\ DeriveChild(Public(AccountOf(o)), <<0, i>>) = key
<1> DEFINE seed == <<o.words, o.passphrase>>
           path == AccountPath(o.multisig)
           key == PublicKey(seed, Hard(path) \o <<0, i>>)
<1> HIDE DEF seed, path
<1>1. /\ RootOf(o) = PrivateKey(seed, <<>>)
      /\ AccountOf(o) = PrivateKey(seed, Hard(path))
      /\ MainOf(o) = PrivateKey(seed, Hard(path) \o <<0>>)
  BY OwnKeys DEF seed, path
<1>2. path \in Seq(Nat) /\ Hard(path) \in Seq(Nat)
  BY AccountPaths DEF path
<1>3. i \in Nat /\ i \in 0..Hardened - 1
  BY AccessAssumption, HardenedAssumption
<1>4. Hard(<<i>>) = <<i>> /\ Hard(<<0, i>>) = <<0, i>>
  BY <1>3, SoftIndex
<1>5. (Hard(path) \o <<0>>) \o <<i>> = Hard(path) \o <<0, i>>
  BY <1>2, <1>3, JoinPaths
<1>6. Hard(path \o <<0, i>>) = Hard(path) \o <<0, i>> /\ path \o <<0, i>> \in Seq(Nat)
  <2>1. <<0, i>> \in Seq(Nat)
    BY <1>3
  <2>2. Hard(path \o <<0, i>>) = Hard(path) \o Hard(<<0, i>>)
    BY <1>2, <2>1, HardConcat
  <2>3. path \o <<0, i>> \in Seq(Nat)
    BY <1>2, <1>3, JoinPaths
  <2> QED
    BY <1>4, <2>2, <2>3
<1>7. \A p : Public(PrivateKey(seed, p)) = PublicKey(seed, p) /\ Public(PublicKey(seed, p)) = PublicKey(seed, p)
  BY PrivateKeysDerive, PublicKeysDerive
<1>8. /\ DeriveChild(Public(MainOf(o)), <<i>>) = key
      /\ DeriveChild(Public(AccountOf(o)), <<0, i>>) = key
      /\ Public(key) = key
  <2>1. Public(MainOf(o)) = PublicKey(seed, Hard(path) \o <<0>>) /\ Public(AccountOf(o)) = PublicKey(seed, Hard(path))
    BY <1>1, <1>7
  <2>2. DeriveChild(Public(MainOf(o)), <<i>>) = PublicKey(seed, (Hard(path) \o <<0>>) \o <<i>>)
    BY <2>1, PublicKeysDerive
  <2>3. DeriveChild(Public(AccountOf(o)), <<0, i>>) = key
    BY <2>1, PublicKeysDerive
  <2> QED
    BY <1>5, <1>7, <2>2, <2>3
<1>9. Public(DeriveNonCompliantChild(MainOf(o), <<i>>)) = key
  <2>1. DeriveNonCompliantChild(MainOf(o), <<i>>) = PrivateKey(seed, (Hard(path) \o <<0>>) \o Hard(<<i>>))
    BY <1>1, PrivateKeysDerive
  <2>2. DeriveNonCompliantChild(MainOf(o), <<i>>) = PrivateKey(seed, Hard(path) \o <<0, i>>)
    BY <1>4, <1>5, <2>1
  <2> QED
    BY <1>7, <2>2
<1>10. KeyAt(o, path \o <<0, i>>) = key
  <2>1. DeriveNonCompliantChild(RootOf(o), path \o <<0, i>>) = PrivateKey(seed, Hard(path \o <<0, i>>))
    BY <1>1, <1>6, RootDerives
  <2>2. DeriveNonCompliantChild(RootOf(o), path \o <<0, i>>) = PrivateKey(seed, Hard(path) \o <<0, i>>)
    BY <1>6, <2>1
  <2>3. KeyAt(o, path \o <<0, i>>) = Public(DeriveNonCompliantChild(RootOf(o), path \o <<0, i>>))
    BY Zenon DEF KeyAt, RootOf
  <2> QED
    BY <1>7, <2>2, <2>3
<1> HIDE DEF key
<1> QED
  BY <1>8, <1>9, <1>10 DEF key, seed, path

\* The same of a shielded key.
LEMMA ShieldedIndexKeys ==
  ASSUME NEW o, NEW k \in {ScanOf(o), SpendOf(o)}, NEW i
  PROVE  /\ Public(DeriveChild(k, <<i>>)) = DeriveChild(Public(k), <<i>>)
         /\ Public(DeriveChild(Public(k), <<i>>)) = DeriveChild(Public(k), <<i>>)
<1>1. \E seed, path : k = PrivateKey(seed, path)
  BY OwnKeys
<1> QED
  BY <1>1, PrivateKeysDerive, PublicKeysDerive

\* What the service is told.
LEMMA ServiceKeys ==
  ASSUME NEW o, o.multisig = None
  PROVE  /\ KeyAt(o, AuthPath) = Public(AuthOf(o))
         /\ Public(DeriveChild(Public(AccountOf(o)), <<0, 0>>)) = Public(DeriveChild(Public(MainOf(o)), <<0>>))
<1>1. 0 \in 0..Indexes - 1
  BY AccessAssumption, HardenedAssumption
<1>2. DeriveChild(Public(AccountOf(o)), <<0, 0>>) = DeriveChild(Public(MainOf(o)), <<0>>)
  BY <1>1, IndexKeys, Zenon
<1> QED
  BY <1>2 DEF KeyAt, AuthOf, RootOf

\* What a participant of the group gives the others.
LEMMA OwnAccountXpub ==
  ASSUME NEW o, o.multisig # None
  PROVE  AccountXpub(o, o.words) = Public(AccountOf(o))
  BY Zenon DEF AccountXpub, AccountOf, RootOf, AccountPath

-----------------------------------------------------------------------------
(* Sorted keys *)

\* Different keys have different ranks, so that there is one for each place.
LEMMA PlacesAreSorted ==
  ASSUME NEW n \in Nat, NEW keys, DOMAIN keys = 1..n, NEW who \in [1..n -> Nat],
         \A i, j \in 1..n : who[i] = who[j] => i = j,
         \A i, j \in 1..n : PubkeyBefore(keys[i], keys[j]) <=> who[i] < who[j]
  PROVE  LET at == SortedPlaces(keys) IN
         /\ at \in [1..n -> 1..n]
         /\ \A i, j \in 1..n : i < j => who[at[i]] < who[at[j]]
         /\ \A i \in 1..n : \E k \in 1..n : at[k] = i
<1> DEFINE Earlier(i) == {j \in 1..n : PubkeyBefore(keys[j], keys[i])}
           rank == [i \in 1..n |-> Cardinality(Earlier(i)) + 1]
           at == SortedPlaces(keys)
<1>1. IsFiniteSet(1..n) /\ Cardinality(1..n) = n
  BY FS_Interval
<1>2. ASSUME NEW i \in 1..n
      PROVE  IsFiniteSet(Earlier(i)) /\ Cardinality(Earlier(i)) \in 0..n - 1
  <2>1. Earlier(i) \subseteq 1..n /\ i \notin Earlier(i)
    OBVIOUS
  <2> HIDE DEF Earlier
  <2>2. IsFiniteSet(Earlier(i)) /\ Cardinality(Earlier(i)) <= n /\ Cardinality(Earlier(i)) # n
    BY <1>1, <2>1, FS_Subset
  <2> QED
    BY <2>2, FS_CardinalityType
<1>3. ASSUME NEW i \in 1..n, NEW j \in 1..n, who[i] < who[j] PROVE rank[i] < rank[j]
  <2>1. Earlier(i) \subseteq Earlier(j) /\ i \in Earlier(j) /\ i \notin Earlier(i)
    BY <1>3
  <2> HIDE DEF Earlier
  <2>2. Cardinality(Earlier(i)) <= Cardinality(Earlier(j)) /\ Cardinality(Earlier(i)) # Cardinality(Earlier(j))
    BY <1>2, <2>1, FS_Subset
  <2> QED
    BY <1>2, <2>2
<1>4. rank \in [1..n -> 1..n]
  <2> HIDE DEF Earlier
  <2>1. \A i \in 1..n : Cardinality(Earlier(i)) + 1 \in 1..n
    BY <1>2
  <2> QED
    BY <2>1
<1>5. at = [k \in 1..n |-> CHOOSE i \in 1..n : Cardinality(Earlier(i)) = k - 1]
  <2>1. at = [k \in DOMAIN keys |-> CHOOSE i \in DOMAIN keys :
                 Cardinality({j \in DOMAIN keys : PubkeyBefore(keys[j], keys[i])}) = k - 1]
    BY Zenon DEF SortedPlaces
  <2> QED
    BY <2>1, DOMAIN keys = 1..n, Zenon
<1>6. \A i \in 1..n : Cardinality(Earlier(i)) = rank[i] - 1
  <2> HIDE DEF Earlier
  <2> QED
    BY <1>2
<1> HIDE DEF Earlier, rank, at
<1>7. ASSUME NEW i \in 1..n, NEW j \in 1..n, rank[i] = rank[j] PROVE i = j
  <2>1. rank[i] \in Nat /\ rank[j] \in Nat /\ who[i] \in Nat /\ who[j] \in Nat
    BY <1>4
  <2>2. ~(who[i] < who[j]) /\ ~(who[j] < who[i])
    BY <1>3, <1>7, <2>1
  <2> QED
    BY <2>1, <2>2
<1>8. rank \in Surjection(1..n, 1..n)
  <2>1. rank \in Injection(1..n, 1..n)
    BY <1>4, <1>7 DEF Injection, IsInjective
  <2> QED
    BY <1>1, <2>1, FS_Injection
<1>9. \A k \in 1..n : \E i \in 1..n : rank[i] = k
  BY <1>8 DEF Surjection
<1>10. ASSUME NEW k \in 1..n PROVE at[k] \in 1..n /\ rank[at[k]] = k
  <2>1. PICK i \in 1..n : rank[i] = k
    BY <1>9
  <2>2. \E j \in 1..n : Cardinality(Earlier(j)) = k - 1
    BY <1>6, <2>1
  <2>3. at[k] = CHOOSE j \in 1..n : Cardinality(Earlier(j)) = k - 1
    BY <1>5
  <2>4. at[k] \in 1..n /\ Cardinality(Earlier(at[k])) = k - 1
    BY <2>2, <2>3
  <2>5. rank[at[k]] \in 1..n /\ Cardinality(Earlier(at[k])) = rank[at[k]] - 1
    BY <1>4, <1>6, <2>4
  <2> QED
    BY <2>4, <2>5
<1>11. at \in [1..n -> 1..n]
  BY <1>5, <1>10
<1>12. ASSUME NEW i \in 1..n, NEW j \in 1..n, i < j PROVE who[at[i]] < who[at[j]]
  <2>1. rank[at[i]] = i /\ rank[at[j]] = j /\ at[i] \in 1..n /\ at[j] \in 1..n
    BY <1>10
  <2>2. ~(who[at[j]] < who[at[i]]) /\ at[i] # at[j]
    BY <1>3, <1>12, <2>1
  <2> QED
    BY <2>1, <2>2
<1>13. ASSUME NEW i \in 1..n PROVE \E k \in 1..n : at[k] = i
  <2>1. rank[i] \in 1..n /\ at[rank[i]] = i
    BY <1>4, <1>7, <1>10
  <2> QED
    BY <2>1
<1> QED
  BY <1>11, <1>12, <1>13 DEF at

-----------------------------------------------------------------------------
(* Whose records these are *)

OwnFields == RecordFields \cup {"xpubkey", "readonly"}

NoShielded(data) == \A f \in ShieldedFields : data[f] = None
AllShielded(o, data, pin) ==
    /\ data.scanXpubkey = Public(ScanOf(o)) /\ data.spendXpubkey = Public(SpendOf(o))
    /\ data.scanMainKey = EncryptData(ScanOf(o), pin)
    /\ data.spendMainKey = EncryptData(SpendOf(o), pin)

\* The record is made of keys of the words of the wallet, under this pin.
OwnUnder(o, data, pin) ==
    /\ OwnFields \subseteq DOMAIN data
    /\ data.xpubkey = Public(MainOf(o)) /\ data.multisig = MultisigData(o.multisig, AccountOf(o))
    /\ data.words # None => data.words.data = o.words /\ data.mainKey # None
    /\ data.mainKey \in {None, EncryptData(MainOf(o), pin)}
    /\ data.acctPathKey \in {None, EncryptData(AccountOf(o), pin)}
    /\ data.authKey \in {None, EncryptData(AuthOf(o), pin)}
    /\ ~data.readonly => data.mainKey # None
    /\ data.mainKey # None => o.kind # "xpub"
    /\ o.service /\ data.mainKey # None => data.authKey # None
    /\ NoShielded(data) \/ (o.kind # "xpub" /\ AllShielded(o, data, pin))
Own(o, data) == \E pin \in Pins \cup {None} : OwnUnder(o, data, pin)

\* What is encrypted is there.
LEMMA EncryptedIsThere ==
  ASSUME NEW o \in Origins, NEW pin \in Pins \cup {None}
  PROVE  /\ EncryptData(AccountOf(o), pin) # None /\ EncryptData(MainOf(o), pin) # None
         /\ EncryptData(AuthOf(o), pin) # None
         /\ EncryptData(ScanOf(o), pin) # None /\ EncryptData(SpendOf(o), pin) # None
  BY NoneAssumption

LEMMA NoAccessFields ==
  /\ DOMAIN NoAccess = RecordFields /\ \A f \in RecordFields : NoAccess[f] = None
  BY DEF NoAccess, RecordFields

\* The shielded keys of the words over any record.
WithShielded(o, data, pin, new) ==
    /\ DOMAIN new = DOMAIN data \cup ShieldedFields
    /\ AllShielded(o, new, pin)
    /\ \A f \in DOMAIN data \ ShieldedFields : new[f] = data[f]

LEMMA ShieldedKeysOver ==
  ASSUME NEW o, NEW data, NEW pin, NEW new, new = Over(ShieldedKeys(RootOf(o), pin), data)
  PROVE  WithShielded(o, data, pin, new)
<1> DEFINE keys == ShieldedKeys(RootOf(o), pin)
           over == Over(keys, data)
<1>1. keys = [scanXpubkey |-> Public(ScanOf(o)), scanMainKey |-> EncryptData(ScanOf(o), pin),
              spendXpubkey |-> Public(SpendOf(o)), spendMainKey |-> EncryptData(SpendOf(o), pin)]
  BY Zenon DEF ShieldedKeys, ScanOf, SpendOf
<1>2. DOMAIN keys = ShieldedFields
  BY <1>1 DEF ShieldedFields
<1>3. /\ DOMAIN over = DOMAIN data \cup DOMAIN keys
      /\ \A f \in DOMAIN keys : over[f] = keys[f]
      /\ \A f \in DOMAIN data \ DOMAIN keys : over[f] = data[f]
  BY OverFields
<1>4. new = over
  OBVIOUS
<1> HIDE DEF keys, over
<1>5. /\ new["scanXpubkey"] = keys["scanXpubkey"] /\ new["spendXpubkey"] = keys["spendXpubkey"]
      /\ new["scanMainKey"] = keys["scanMainKey"] /\ new["spendMainKey"] = keys["spendMainKey"]
  BY <1>2, <1>3, <1>4 DEF ShieldedFields
<1>6. AllShielded(o, new, pin)
  BY <1>1, <1>5 DEF AllShielded
<1> QED
  BY <1>2, <1>3, <1>4, <1>6 DEF WithShielded

LEMMA FromRootOwn ==
  ASSUME NEW o, NEW pin
  PROVE  LET data == FromRoot(RootOf(o), o.multisig, pin) IN
         /\ DOMAIN data = OwnFields
         /\ data.mainKey = EncryptData(MainOf(o), pin) /\ data.acctPathKey = EncryptData(AccountOf(o), pin)
         /\ data.xpubkey = Public(MainOf(o)) /\ data.multisig = MultisigData(o.multisig, AccountOf(o))
         /\ data.readonly = FALSE /\ data.words = None /\ data.authKey = None
         /\ AllShielded(o, data, pin)
<1> DEFINE shielded == Over(ShieldedKeys(RootOf(o), pin), NoAccess)
           new == [mainKey |-> EncryptData(MainOf(o), pin), acctPathKey |-> EncryptData(AccountOf(o), pin),
                   xpubkey |-> Public(MainOf(o)), multisig |-> MultisigData(o.multisig, AccountOf(o)),
                   readonly |-> FALSE]
           data == FromRoot(RootOf(o), o.multisig, pin)
<1>1. data = Over(new, shielded)
  BY Zenon DEF FromRoot, AccountOf, MainOf
<1>2. /\ DOMAIN shielded = RecordFields
      /\ shielded["words"] = None /\ shielded["authKey"] = None
      /\ AllShielded(o, shielded, pin)
  <2> HIDE DEF shielded
  <2>1. /\ DOMAIN shielded = DOMAIN NoAccess \cup ShieldedFields
        /\ AllShielded(o, shielded, pin)
        /\ \A f \in DOMAIN NoAccess \ ShieldedFields : shielded[f] = NoAccess[f]
    <3>1. shielded = Over(ShieldedKeys(RootOf(o), pin), NoAccess)
      BY DEF shielded
    <3>2. WithShielded(o, NoAccess, pin, shielded)
      BY <3>1, ShieldedKeysOver
    <3> QED
      BY <3>2 DEF WithShielded
  <2>2. {"words", "authKey"} \subseteq RecordFields \ ShieldedFields /\ ShieldedFields \subseteq RecordFields
    BY DEF RecordFields, PinFields, ShieldedFields
  <2> QED
    BY <2>1, <2>2, NoAccessFields
<1>3. /\ DOMAIN new = {"mainKey", "acctPathKey", "xpubkey", "multisig", "readonly"}
      /\ new["mainKey"] = EncryptData(MainOf(o), pin) /\ new["acctPathKey"] = EncryptData(AccountOf(o), pin)
      /\ new["xpubkey"] = Public(MainOf(o)) /\ new["multisig"] = MultisigData(o.multisig, AccountOf(o))
      /\ new["readonly"] = FALSE
  OBVIOUS
<1> HIDE DEF shielded, new, data
<1>4. /\ DOMAIN data = DOMAIN shielded \cup DOMAIN new
      /\ \A f \in DOMAIN new : data[f] = new[f]
      /\ \A f \in DOMAIN shielded \ DOMAIN new : data[f] = shielded[f]
  <2> DEFINE over == Over(new, shielded)
  <2>1. /\ DOMAIN over = DOMAIN shielded \cup DOMAIN new
        /\ \A f \in DOMAIN new : over[f] = new[f]
        /\ \A f \in DOMAIN shielded \ DOMAIN new : over[f] = shielded[f]
    BY OverFields
  <2> HIDE DEF over
  <2> QED
    BY <1>1, <2>1 DEF over
<1>5. DOMAIN data = OwnFields
  BY <1>2, <1>3, <1>4 DEF OwnFields, RecordFields, PinFields
<1>6. /\ data["mainKey"] = new["mainKey"] /\ data["acctPathKey"] = new["acctPathKey"]
      /\ data["xpubkey"] = new["xpubkey"] /\ data["multisig"] = new["multisig"]
      /\ data["readonly"] = new["readonly"]
  BY <1>3, <1>4
<1>7. \A f \in {"words", "authKey"} \cup ShieldedFields : data[f] = shielded[f]
  BY <1>2, <1>3, <1>4 DEF RecordFields, PinFields, ShieldedFields
<1>8. /\ data["words"] = None /\ data["authKey"] = None
      /\ data["scanXpubkey"] = shielded["scanXpubkey"] /\ data["spendXpubkey"] = shielded["spendXpubkey"]
      /\ data["scanMainKey"] = shielded["scanMainKey"] /\ data["spendMainKey"] = shielded["spendMainKey"]
  BY <1>2, <1>7 DEF ShieldedFields
<1>9. AllShielded(o, data, pin)
  BY <1>2, <1>8 DEF AllShielded
<1> QED
  BY <1>3, <1>5, <1>6, <1>8, <1>9 DEF data

LEMMA SeedFields ==
  ASSUME NEW o, NEW pin, NEW password,
         NEW data, data = GenerateAccessDataFromSeed(o.words, o.multisig, o.passphrase, pin, password)
  PROVE  /\ DOMAIN data = OwnFields /\ data.words.data = o.words
         /\ data.mainKey = EncryptData(MainOf(o), pin) /\ data.acctPathKey = EncryptData(AccountOf(o), pin)
         /\ data.authKey = EncryptData(AuthOf(o), pin) /\ ~data.readonly
         /\ data.xpubkey = Public(MainOf(o)) /\ data.multisig = MultisigData(o.multisig, AccountOf(o))
         /\ AllShielded(o, data, pin)
<1> DEFINE from == FromRoot(RootOf(o), o.multisig, pin)
           new == [words |-> EncryptData(o.words, password), authKey |-> EncryptData(AuthOf(o), pin)]
<1>1. data = Over(new, from)
  BY Zenon DEF GenerateAccessDataFromSeed, RootOf, AuthOf
<1>2. /\ DOMAIN from = OwnFields
      /\ from.mainKey = EncryptData(MainOf(o), pin) /\ from.acctPathKey = EncryptData(AccountOf(o), pin)
      /\ from.xpubkey = Public(MainOf(o)) /\ from.multisig = MultisigData(o.multisig, AccountOf(o))
      /\ from.readonly = FALSE
      /\ AllShielded(o, from, pin)
  BY FromRootOwn
<1>3. /\ DOMAIN new = {"words", "authKey"} /\ new["words"].data = o.words
      /\ new["authKey"] = EncryptData(AuthOf(o), pin)
  BY DEF EncryptData
<1> HIDE DEF new, from
<1>4. /\ DOMAIN data = OwnFields
      /\ \A f \in {"words", "authKey"} : data[f] = new[f]
      /\ \A f \in OwnFields \ {"words", "authKey"} : data[f] = from[f]
  <2> DEFINE over == Over(new, from)
  <2>1. /\ DOMAIN over = DOMAIN from \cup DOMAIN new
        /\ \A f \in DOMAIN new : over[f] = new[f]
        /\ \A f \in DOMAIN from \ DOMAIN new : over[f] = from[f]
    BY OverFields
  <2> HIDE DEF over
  <2>2. {"words", "authKey"} \subseteq OwnFields
    BY DEF OwnFields, RecordFields, PinFields
  <2> QED
    BY <1>1, <1>2, <1>3, <2>1, <2>2 DEF over
<1>5. /\ data.words = new["words"] /\ data.authKey = new["authKey"]
      /\ data.mainKey = from.mainKey /\ data.acctPathKey = from.acctPathKey
      /\ data.xpubkey = from.xpubkey /\ data.multisig = from.multisig /\ data.readonly = from.readonly
      /\ data.scanXpubkey = from.scanXpubkey /\ data.spendXpubkey = from.spendXpubkey
      /\ data.scanMainKey = from.scanMainKey /\ data.spendMainKey = from.spendMainKey
  BY <1>4 DEF OwnFields, RecordFields, PinFields, ShieldedFields
<1>6. AllShielded(o, data, pin)
  BY <1>2, <1>5 DEF AllShielded
<1> QED
  BY <1>2, <1>3, <1>4, <1>5, <1>6

LEMMA SeedOwn ==
  ASSUME NEW o \in Origins, o.kind # "xpub", NEW pin \in Pins \cup {None}, NEW password,
         NEW data, data = GenerateAccessDataFromSeed(o.words, o.multisig, o.passphrase, pin, password)
  PROVE  OwnUnder(o, data, pin)
<1>1. /\ DOMAIN data = OwnFields /\ data.words.data = o.words
      /\ data.mainKey = EncryptData(MainOf(o), pin) /\ data.acctPathKey = EncryptData(AccountOf(o), pin)
      /\ data.authKey = EncryptData(AuthOf(o), pin) /\ ~data.readonly
      /\ data.xpubkey = Public(MainOf(o)) /\ data.multisig = MultisigData(o.multisig, AccountOf(o))
      /\ AllShielded(o, data, pin)
  BY SeedFields
<1>2. data.mainKey # None /\ data.authKey # None
  BY <1>1, EncryptedIsThere
<1>3. OwnFields \subseteq DOMAIN data
  BY <1>1
<1> QED
  BY <1>1, <1>2, <1>3, Zenon DEF OwnUnder

\* A record with no shielded keys.
LEMMA PlainOver ==
  ASSUME NEW new, DOMAIN new \cap (ShieldedFields \cup {"words", "acctPathKey"}) = {},
         NEW data, data = Over(new, NoAccess)
  PROVE  /\ DOMAIN data = RecordFields \cup DOMAIN new
         /\ \A f \in DOMAIN new : data[f] = new[f]
         /\ \A f \in RecordFields \ DOMAIN new : data[f] = None
         /\ data.words = None /\ data.acctPathKey = None /\ NoShielded(data)
<1> DEFINE base == NoAccess
<1>1. /\ DOMAIN data = DOMAIN base \cup DOMAIN new
      /\ \A f \in DOMAIN new : data[f] = new[f]
      /\ \A f \in DOMAIN base \ DOMAIN new : data[f] = base[f]
  <2> SUFFICES ASSUME NEW b, data = Over(new, b)
               PROVE  /\ DOMAIN data = DOMAIN b \cup DOMAIN new
                      /\ \A f \in DOMAIN new : data[f] = new[f]
                      /\ \A f \in DOMAIN b \ DOMAIN new : data[f] = b[f]
    OBVIOUS
  <2> QED
    BY Zenon DEF Over
<1> HIDE DEF base
<1>2. /\ DOMAIN data = RecordFields \cup DOMAIN new
      /\ \A f \in DOMAIN new : data[f] = new[f]
      /\ \A f \in RecordFields \ DOMAIN new : data[f] = None
  BY <1>1, NoAccessFields DEF base
<1>3. ShieldedFields \cup {"words", "acctPathKey"} \subseteq RecordFields \ DOMAIN new
  BY DEF RecordFields, PinFields
<1> QED
  BY <1>2, <1>3 DEF NoShielded

\* A private key: the root key, or the one of the change path.
LEMMA XprivRootOwn ==
  ASSUME NEW o \in Origins, o.kind = "xpriv", NEW pin \in Pins \cup {None},
         NEW data, data = GenerateAccessDataFromXpriv(RootOf(o), o.multisig, pin, None)
  PROVE  ~o.service => OwnUnder(o, data, pin)
<1> DEFINE from == FromRoot(RootOf(o), o.multisig, pin)
           new == AuthField(RootOf(o), None, pin)
<1>1. Depth(RootOf(o)) = 0
  BY OwnDepths
<1>2. data = Over(new, from)
  BY <1>1, Zenon DEF GenerateAccessDataFromXpriv
<1>3. new = [authKey |-> EncryptData(AuthOf(o), pin)]
  BY <1>1, Zenon DEF AuthField, AuthOf
<1>4. /\ DOMAIN from = OwnFields
      /\ from.mainKey = EncryptData(MainOf(o), pin) /\ from.acctPathKey = EncryptData(AccountOf(o), pin)
      /\ from.xpubkey = Public(MainOf(o)) /\ from.multisig = MultisigData(o.multisig, AccountOf(o))
      /\ from.readonly = FALSE /\ from.words = None
      /\ AllShielded(o, from, pin)
  BY FromRootOwn
<1>5. DOMAIN new = {"authKey"} /\ new["authKey"] = EncryptData(AuthOf(o), pin)
  BY <1>3
<1> HIDE DEF new, from
<1>6. /\ DOMAIN data = OwnFields
      /\ data["authKey"] = new["authKey"]
      /\ \A f \in OwnFields \ {"authKey"} : data[f] = from[f]
  <2> DEFINE over == Over(new, from)
  <2>1. /\ DOMAIN over = DOMAIN from \cup DOMAIN new
        /\ \A f \in DOMAIN new : over[f] = new[f]
        /\ \A f \in DOMAIN from \ DOMAIN new : over[f] = from[f]
    BY OverFields
  <2> HIDE DEF over
  <2>2. "authKey" \in OwnFields
    BY DEF OwnFields, RecordFields, PinFields
  <2> QED
    BY <1>2, <1>4, <1>5, <2>1, <2>2 DEF over
<1>7. /\ data.authKey = new["authKey"] /\ data.words = from.words
      /\ data.mainKey = from.mainKey /\ data.acctPathKey = from.acctPathKey
      /\ data.xpubkey = from.xpubkey /\ data.multisig = from.multisig /\ data.readonly = from.readonly
      /\ data.scanXpubkey = from.scanXpubkey /\ data.spendXpubkey = from.spendXpubkey
      /\ data.scanMainKey = from.scanMainKey /\ data.spendMainKey = from.spendMainKey
  BY <1>6 DEF OwnFields, RecordFields, PinFields, ShieldedFields
<1>8. AllShielded(o, data, pin)
  BY <1>4, <1>7 DEF AllShielded
<1>9. data.mainKey # None /\ data.authKey # None
  BY <1>4, <1>5, <1>7, EncryptedIsThere
<1> QED
  BY <1>4, <1>5, <1>6, <1>7, <1>8, <1>9 DEF OwnUnder

LEMMA XprivChangeOwn ==
  ASSUME NEW o \in Origins, o.kind = "xpriv", NEW pin \in Pins \cup {None},
         NEW auth, auth = IF o.service THEN o.auth ELSE None, NEW multisig,
         o.service => o.multisig = None, multisig = o.multisig \/ o.service,
         NEW data, data = GenerateAccessDataFromXpriv(ChangeOf(o), multisig, pin, auth), data # None
  PROVE  OwnUnder(o, data, pin)
<1> DEFINE new == [mainKey |-> EncryptData(ChangeOf(o), pin), xpubkey |-> Public(ChangeOf(o)), readonly |-> FALSE]
           plain == Over(new, NoAccess)
           a == AuthField(ChangeOf(o), auth, pin)
<1>1. Depth(ChangeOf(o)) = 4
  BY OwnDepths
<1>2. multisig = None /\ data = Over(a, plain)
  <2>1. Depth(ChangeOf(o)) # 0
    BY <1>1
  <2> QED
    BY <2>1, Zenon DEF GenerateAccessDataFromXpriv
<1>3. a = IF o.service THEN [authKey |-> EncryptData(AuthOf(o), pin)] ELSE [authKey |-> None]
  <2>1. Depth(ChangeOf(o)) # 0
    BY <1>1
  <2>2. CASE o.service
    <3>1. auth = AuthOf(o) /\ AuthOf(o) # None
      BY <2>2, OriginAssumption, NoneAssumption
    <3> QED
      BY <2>2, <3>1, Zenon DEF AuthField
  <2>3. CASE ~o.service
    BY <2>1, <2>3, Zenon DEF AuthField
  <2> QED
    BY <2>2, <2>3
<1>4. /\ DOMAIN plain = RecordFields \cup DOMAIN new
      /\ \A f \in DOMAIN new : plain[f] = new[f]
      /\ \A f \in RecordFields \ DOMAIN new : plain[f] = None
      /\ plain.words = None /\ plain.acctPathKey = None /\ NoShielded(plain)
  <2>1. DOMAIN new = {"mainKey", "xpubkey", "readonly"}
    OBVIOUS
  <2>2. DOMAIN new \cap (ShieldedFields \cup {"words", "acctPathKey"}) = {}
    BY <2>1 DEF ShieldedFields
  <2> HIDE DEF new
  <2> QED
    BY <2>2, PlainOver
<1>5. /\ DOMAIN new = {"mainKey", "xpubkey", "readonly"}
      /\ new["mainKey"] = EncryptData(ChangeOf(o), pin) /\ new["xpubkey"] = Public(ChangeOf(o))
      /\ new["readonly"] = FALSE
  OBVIOUS
<1>6. /\ DOMAIN a = {"authKey"}
      /\ a["authKey"] \in {None, EncryptData(AuthOf(o), pin)}
      /\ o.service => a["authKey"] = EncryptData(AuthOf(o), pin)
  BY <1>3
<1> HIDE DEF new, plain, a
<1>7. /\ DOMAIN data = OwnFields
      /\ data["authKey"] = a["authKey"]
      /\ \A f \in OwnFields \ {"authKey"} : data[f] = plain[f]
  <2> DEFINE over == Over(a, plain)
  <2>1. /\ DOMAIN over = DOMAIN plain \cup DOMAIN a
        /\ \A f \in DOMAIN a : over[f] = a[f]
        /\ \A f \in DOMAIN plain \ DOMAIN a : over[f] = plain[f]
    BY OverFields
  <2> HIDE DEF over
  <2>2. {"authKey", "mainKey"} \subseteq RecordFields
    BY DEF RecordFields, PinFields
  <2>3. DOMAIN plain = OwnFields /\ "authKey" \in OwnFields
    BY <1>4, <1>5, <2>2 DEF OwnFields
  <2> QED
    BY <1>2, <1>6, <2>1, <2>2, <2>3 DEF over
<1>8. /\ data.authKey = a["authKey"] /\ data.words = None /\ data.acctPathKey = None
      /\ data.mainKey = EncryptData(ChangeOf(o), pin) /\ data.xpubkey = Public(ChangeOf(o))
      /\ ~data.readonly
  BY <1>4, <1>5, <1>7 DEF OwnFields, RecordFields, PinFields
<1>9. NoShielded(data)
  BY <1>4, <1>7 DEF NoShielded, OwnFields, RecordFields, ShieldedFields
<1>10. data.multisig = None
  BY <1>4, <1>5, <1>7 DEF OwnFields, RecordFields
<1>11. o.multisig = None /\ MainOf(o) = ChangeOf(o) /\ MultisigData(o.multisig, AccountOf(o)) = None
  BY <1>2, OwnPublic DEF MultisigData
<1>12. EncryptData(MainOf(o), pin) # None /\ EncryptData(AuthOf(o), pin) # None
  BY EncryptedIsThere
<1> QED
  BY <1>6, <1>7, <1>8, <1>9, <1>10, <1>11, <1>12 DEF OwnUnder

\* A public key: the one of the account, or the one of the change path.
LEMMA XpubOwn ==
  ASSUME NEW o \in Origins, o.kind = "xpub", NEW pin \in Pins \cup {None},
         NEW data, data = GenerateAccessDataFromXpub(o.key, o.multisig), data # None
  PROVE  OwnUnder(o, data, pin)
<1> DEFINE account == [xpubkey |-> DeriveChild(o.key, <<0>>), multisig |-> MultisigData(o.multisig, o.key),
                       readonly |-> TRUE]
           change == [xpubkey |-> o.key, readonly |-> TRUE]
<1>1. /\ DOMAIN account = {"xpubkey", "multisig", "readonly"} /\ account["readonly"]
      /\ account["xpubkey"] = DeriveChild(o.key, <<0>>)
      /\ account["multisig"] = MultisigData(o.multisig, o.key)
  OBVIOUS
<1>2. DOMAIN change = {"xpubkey", "readonly"} /\ change["readonly"] /\ change["xpubkey"] = o.key
  OBVIOUS
<1>3. \/ Depth(o.key) = 3 /\ data = Over(account, NoAccess)
      \/ Depth(o.key) = 4 /\ o.multisig = None /\ data = Over(change, NoAccess)
  BY Zenon DEF GenerateAccessDataFromXpub
<1>4. o.key \in {Public(AccountOf(o)), Public(ChangeOf(o))}
  BY OriginAssumption
<1> HIDE DEF account, change
<1>5. ASSUME NEW new, data = Over(new, NoAccess), DOMAIN new \subseteq {"xpubkey", "multisig", "readonly"},
             {"xpubkey", "readonly"} \subseteq DOMAIN new, new["readonly"],
             new["xpubkey"] = Public(MainOf(o)),
             data["multisig"] = MultisigData(o.multisig, AccountOf(o))
      PROVE  OwnUnder(o, data, pin)
  <2>1. DOMAIN new \cap (ShieldedFields \cup {"words", "acctPathKey"}) = {}
    BY <1>5 DEF ShieldedFields
  <2>2. /\ DOMAIN data = RecordFields \cup DOMAIN new
        /\ \A f \in DOMAIN new : data[f] = new[f]
        /\ \A f \in RecordFields \ DOMAIN new : data[f] = None
        /\ data.words = None /\ data.acctPathKey = None /\ NoShielded(data)
    BY <1>5, <2>1, PlainOver
  <2>3. OwnFields \subseteq DOMAIN data
    BY <1>5, <2>2 DEF OwnFields
  <2>4. data["readonly"] /\ data["xpubkey"] = Public(MainOf(o))
    BY <1>5, <2>2
  <2>5. data["mainKey"] = None /\ data["authKey"] = None
    BY <1>5, <2>2 DEF RecordFields, PinFields
  <2> QED
    BY <1>5, <2>2, <2>3, <2>4, <2>5 DEF OwnUnder
<1>6. CASE Depth(o.key) = 3 /\ data = Over(account, NoAccess)
  <2>1. o.key = Public(AccountOf(o))
    BY <1>4, <1>6, OwnDepths
  <2>2. account["xpubkey"] = Public(MainOf(o))
    BY <1>1, <2>1, OwnPublic
  <2>3. MultisigData(o.multisig, o.key) = MultisigData(o.multisig, AccountOf(o))
    BY <2>1, OwnPublic, Zenon DEF MultisigData
  <2>4. "multisig" \in DOMAIN account /\ DOMAIN account \cap (ShieldedFields \cup {"words", "acctPathKey"}) = {}
    BY <1>1 DEF ShieldedFields
  <2>5. data["multisig"] = account["multisig"]
    <3>1. \A f \in DOMAIN account : data[f] = account[f]
      BY <1>6, <2>4, PlainOver
    <3> QED
      BY <2>4, <3>1
  <2> QED
    BY <1>1, <1>5, <1>6, <2>2, <2>3, <2>5
<1>7. CASE Depth(o.key) = 4 /\ o.multisig = None /\ data = Over(change, NoAccess)
  <2>1. o.key = Public(ChangeOf(o)) /\ MainOf(o) = ChangeOf(o)
    BY <1>4, <1>7, OwnDepths, OwnPublic
  <2>2. /\ "multisig" \in RecordFields \ DOMAIN change
        /\ DOMAIN change \cap (ShieldedFields \cup {"words", "acctPathKey"}) = {}
    BY <1>2 DEF ShieldedFields, RecordFields
  <2>3. data["multisig"] = None
    <3>1. \A f \in RecordFields \ DOMAIN change : data[f] = None
      BY <1>7, <2>2, PlainOver
    <3> QED
      BY <2>2, <3>1
  <2>4. MultisigData(o.multisig, AccountOf(o)) = None
    BY <1>7 DEF MultisigData
  <2> QED
    BY <1>2, <1>5, <1>7, <2>1, <2>3, <2>4
<1> QED
  BY <1>3, <1>6, <1>7

\* However the wallet is made.
LEMMA GeneratedOwn ==
  ASSUME NEW o \in Origins, NEW pin \in Pins \cup {None}, NEW password,
         NEW data, data = Generated(o, pin, password), data # None \/ o.kind = "seed"
  PROVE  OwnUnder(o, data, pin)
<1>1. o.kind \in {"seed", "xpriv", "xpub"}
  BY AccessAssumption
<1>2. CASE o.kind = "seed"
  <2>1. data = GenerateAccessDataFromSeed(o.words, o.multisig, o.passphrase, pin, password)
    BY <1>2 DEF Generated
  <2> QED
    BY <1>2, <2>1, SeedOwn
<1>3. CASE o.kind = "xpriv" /\ o.service
  <2>1. data = GenerateAccessDataFromXpriv(DeriveNonCompliantChild(o.key, <<0>>), None, pin, o.auth)
    BY <1>3 DEF Generated
  <2>2. DeriveNonCompliantChild(o.key, <<0>>) = ChangeOf(o)
    BY <1>3, OriginAssumption, OwnPublic
  <2>3. data = GenerateAccessDataFromXpriv(ChangeOf(o), None, pin, o.auth)
    BY <2>1, <2>2
  <2>4. o.multisig = None
    BY <1>3, OriginAssumption
  <2> QED
    BY <1>3, <2>3, <2>4, XprivChangeOwn
<1>4. CASE o.kind = "xpriv" /\ ~o.service
  <2>1. data = GenerateAccessDataFromXpriv(o.key, o.multisig, pin, None)
    BY <1>4 DEF Generated
  <2>2. o.key = RootOf(o) \/ o.key = ChangeOf(o)
    BY <1>4, OriginAssumption
  <2>3. CASE o.key = RootOf(o)
    BY <1>4, <2>1, <2>3, XprivRootOwn
  <2>4. CASE o.key = ChangeOf(o)
    <3>1. data = GenerateAccessDataFromXpriv(ChangeOf(o), o.multisig, pin, None)
      BY <2>1, <2>4
    <3> QED
      BY <1>4, <3>1, XprivChangeOwn
  <2> QED
    BY <2>2, <2>3, <2>4
<1>5. CASE o.kind = "xpub"
  <2>1. data = GenerateAccessDataFromXpub(o.key, o.multisig)
    BY <1>5 DEF Generated
  <2> QED
    BY <1>5, <2>1, XpubOwn
<1> QED
  BY <1>1, <1>2, <1>3, <1>4, <1>5

\* A record from before the shielded keys.
LEMMA OldOwn ==
  ASSUME NEW o, NEW pin, NEW data, OwnUnder(o, data, pin)
  PROVE  OwnUnder(o, Old(data), pin)
<1> DEFINE new == Old(data)
<1>1. /\ DOMAIN new = DOMAIN data
      /\ \A f \in DOMAIN data \ ShieldedFields : new[f] = data[f]
      /\ \A f \in DOMAIN data \cap ShieldedFields : new[f] = None
  BY DEF Old
<1> HIDE DEF new
<1>2. OwnFields \subseteq DOMAIN data /\ ShieldedFields \subseteq OwnFields
  BY DEF OwnUnder, OwnFields, RecordFields
<1>3. /\ new.xpubkey = data.xpubkey /\ new.multisig = data.multisig /\ new.words = data.words
      /\ new.mainKey = data.mainKey /\ new.acctPathKey = data.acctPathKey
      /\ new.authKey = data.authKey /\ new.readonly = data.readonly
  BY <1>1, <1>2 DEF OwnFields, RecordFields, PinFields, ShieldedFields
<1>4. NoShielded(new)
  BY <1>1, <1>2 DEF NoShielded
<1>5. OwnUnder(o, new, pin)
  BY <1>1, <1>2, <1>3, <1>4 DEF OwnUnder
<1> QED
  BY <1>5 DEF new

\* The migration derives the shielded keys from the words of the record.
LEMMA MigratedOwn ==
  ASSUME NEW o \in Origins, NEW data, Own(o, data), NEW pin \in Pins, NEW password,
         NEW new, new = MigrateShieldedAccessData(data, pin, password, o.passphrase), new # None
  PROVE  /\ Own(o, new)
         /\ ~NoShielded(data) => ~NoShielded(new)
<1> DEFINE words == data.words
           keys == ShieldedKeys(Root(words.data, o.passphrase), pin)
<1>1. CASE new = data
  BY <1>1
<1>2. CASE new = Over(keys, data) /\ words # None /\ (data.mainKey # None => CheckPassword(data.mainKey, pin))
  <2>1. PICK under \in Pins \cup {None} : OwnUnder(o, data, under)
    BY DEF Own
  <2>2. o.kind # "xpub" /\ data.words.data = o.words /\ data.mainKey # None /\ data.mainKey = EncryptData(MainOf(o), under)
    BY <1>2, <2>1 DEF OwnUnder
  <2>3. under = pin
    BY <1>2, <2>2 DEF CheckPassword, EncryptData
  <2>4. new = Over(ShieldedKeys(RootOf(o), pin), data)
    BY <1>2, <2>2 DEF RootOf
  <2>5. /\ DOMAIN new = DOMAIN data \cup ShieldedFields
        /\ AllShielded(o, new, pin)
        /\ \A f \in DOMAIN data \ ShieldedFields : new[f] = data[f]
    <3>1. WithShielded(o, data, pin, new)
      BY <2>4, ShieldedKeysOver
    <3> QED
      BY <3>1 DEF WithShielded
  <2>6. OwnFields \subseteq DOMAIN data
    BY <2>1 DEF OwnUnder
  <2>7. /\ new.xpubkey = data.xpubkey /\ new.multisig = data.multisig /\ new.words = data.words
        /\ new.mainKey = data.mainKey /\ new.acctPathKey = data.acctPathKey
        /\ new.authKey = data.authKey /\ new.readonly = data.readonly
    BY <2>5, <2>6 DEF OwnFields, RecordFields, PinFields, ShieldedFields
  <2>8. OwnUnder(o, new, pin)
    BY <2>1, <2>2, <2>3, <2>5, <2>6, <2>7 DEF OwnUnder
  <2>9. new.scanMainKey # None
    BY <2>5, EncryptedIsThere DEF AllShielded
  <2> QED
    BY <2>8, <2>9 DEF Own, NoShielded, ShieldedFields
<1>3. \/ new = data
      \/ /\ new = Over(keys, data) /\ words # None
         /\ data.mainKey # None => CheckPassword(data.mainKey, pin)
  BY Zenon DEF MigrateShieldedAccessData, MigratesShielded
<1> QED
  BY <1>1, <1>2, <1>3

LEMMA EncryptedData ==
  ASSUME NEW data, NEW password
  PROVE  EncryptData(data, password).data = data /\ EncryptData(data, password).under = password
  BY DEF EncryptData

LEMMA NewPinOwn ==
  ASSUME NEW o \in Origins, NEW data, Own(o, data), NEW old, NEW pin \in Pins,
         NEW new, new = ChangeEncryptionPin(data, old, pin), new # None
  PROVE  /\ Own(o, new)
         /\ ~NoShielded(data) => ~NoShielded(new)
<1> DEFINE fields == {f \in PinFields : data[f] # None}
<1>1. new = [f \in DOMAIN data |-> IF f \in fields THEN EncryptData(data[f].data, pin) ELSE data[f]]
  BY Zenon DEF ChangeEncryptionPin, Reencrypted
<1>2. PICK under \in Pins \cup {None} : OwnUnder(o, data, under)
  BY DEF Own
<1>3. OwnFields \subseteq DOMAIN data
  BY <1>2 DEF OwnUnder
<1>4. /\ DOMAIN new = DOMAIN data
      /\ \A f \in DOMAIN data \ PinFields : new[f] = data[f]
      /\ \A f \in PinFields : data[f] = None => new[f] = None
      /\ \A f \in PinFields : data[f] # None => new[f] = EncryptData(data[f].data, pin)
  BY <1>1, <1>3 DEF OwnFields, RecordFields
<1>5. /\ new["xpubkey"] = data["xpubkey"] /\ new["multisig"] = data["multisig"]
      /\ new["words"] = data["words"] /\ new["readonly"] = data["readonly"]
      /\ new["scanXpubkey"] = data["scanXpubkey"] /\ new["spendXpubkey"] = data["spendXpubkey"]
  BY <1>3, <1>4 DEF OwnFields, RecordFields, PinFields, ShieldedFields
<1>6. ASSUME NEW f \in PinFields, NEW key, data[f] \in {None, EncryptData(key, under)}
      PROVE  /\ new[f] \in {None, EncryptData(key, pin)}
             /\ data[f] # None => new[f] = EncryptData(key, pin)
  BY <1>4, <1>6, EncryptedData
<1>7. /\ data["mainKey"] \in {None, EncryptData(MainOf(o), under)}
      /\ data["acctPathKey"] \in {None, EncryptData(AccountOf(o), under)}
      /\ data["authKey"] \in {None, EncryptData(AuthOf(o), under)}
  BY <1>2 DEF OwnUnder
<1>8. {"mainKey", "acctPathKey", "authKey", "scanMainKey", "spendMainKey"} = PinFields
  BY DEF PinFields
<1>9. /\ new["mainKey"] \in {None, EncryptData(MainOf(o), pin)}
      /\ new["acctPathKey"] \in {None, EncryptData(AccountOf(o), pin)}
      /\ new["authKey"] \in {None, EncryptData(AuthOf(o), pin)}
  BY <1>6, <1>7, <1>8
<1>10. /\ data["mainKey"] = None <=> new["mainKey"] = None
       /\ data["authKey"] = None <=> new["authKey"] = None
  BY <1>4, <1>6, <1>7, <1>8, EncryptedIsThere
<1>11. NoShielded(data) => NoShielded(new)
  BY <1>4, <1>5, <1>8 DEF NoShielded, ShieldedFields
<1>12. ASSUME o.kind # "xpub", AllShielded(o, data, under) PROVE AllShielded(o, new, pin)
  <2>1. /\ data["scanMainKey"] = EncryptData(ScanOf(o), under) /\ data["scanMainKey"] # None
        /\ data["spendMainKey"] = EncryptData(SpendOf(o), under) /\ data["spendMainKey"] # None
    BY <1>12, EncryptedIsThere DEF AllShielded
  <2>2. /\ new["scanMainKey"] = EncryptData(ScanOf(o), pin)
        /\ new["spendMainKey"] = EncryptData(SpendOf(o), pin)
    BY <1>6, <1>8, <2>1
  <2> QED
    BY <1>5, <1>12, <2>2 DEF AllShielded
<1>13. OwnUnder(o, new, pin)
  BY <1>2, <1>3, <1>4, <1>5, <1>9, <1>10, <1>11, <1>12 DEF OwnUnder
<1>14. AllShielded(o, new, pin) => ~NoShielded(new)
  BY EncryptedIsThere DEF AllShielded, NoShielded, ShieldedFields
<1>15. ~NoShielded(data) => o.kind # "xpub" /\ AllShielded(o, data, under)
  BY <1>2 DEF OwnUnder
<1> QED
  BY <1>12, <1>13, <1>14, <1>15 DEF Own

LEMMA NewPasswordOwn ==
  ASSUME NEW o \in Origins, NEW data, Own(o, data), NEW old, NEW password,
         NEW new, new = ChangeEncryptionPassword(data, old, password), new # None
  PROVE  /\ Own(o, new)
         /\ ~NoShielded(data) => ~NoShielded(new)
<1>1. /\ new = [f \in DOMAIN data |-> IF f \in {"words"} THEN EncryptData(data[f].data, password) ELSE data[f]]
      /\ data.words # None
  BY Zenon DEF ChangeEncryptionPassword, Reencrypted
<1>2. PICK under \in Pins \cup {None} : OwnUnder(o, data, under)
  BY DEF Own
<1>3. OwnFields \subseteq DOMAIN data
  BY <1>2 DEF OwnUnder
<1>4. /\ DOMAIN new = DOMAIN data
      /\ new["words"] = EncryptData(data["words"].data, password)
      /\ \A f \in DOMAIN data \ {"words"} : new[f] = data[f]
  BY <1>1, <1>3 DEF OwnFields, RecordFields
<1>5. /\ new["xpubkey"] = data["xpubkey"] /\ new["multisig"] = data["multisig"]
      /\ new["mainKey"] = data["mainKey"] /\ new["acctPathKey"] = data["acctPathKey"]
      /\ new["authKey"] = data["authKey"] /\ new["readonly"] = data["readonly"]
      /\ new["scanXpubkey"] = data["scanXpubkey"] /\ new["spendXpubkey"] = data["spendXpubkey"]
      /\ new["scanMainKey"] = data["scanMainKey"] /\ new["spendMainKey"] = data["spendMainKey"]
  BY <1>3, <1>4 DEF OwnFields, RecordFields, PinFields, ShieldedFields
<1>6. NoShielded(new) <=> NoShielded(data)
  BY <1>5 DEF NoShielded, ShieldedFields
<1>7. AllShielded(o, data, under) => AllShielded(o, new, under)
  BY <1>5 DEF AllShielded
<1>8. new["words"].data = o.words /\ data["mainKey"] # None
  BY <1>1, <1>2, <1>4, EncryptedData DEF OwnUnder
<1>9. OwnUnder(o, new, under)
  BY <1>2, <1>3, <1>4, <1>5, <1>6, <1>7, <1>8 DEF OwnUnder
<1> QED
  BY <1>6, <1>9 DEF Own

\* The addresses of an index.
LegacyOf(o, i) ==
    [base58 |-> IF o.multisig = None
                THEN PublicKeyToP2PKH(DeriveChild(Public(MainOf(o)), <<i>>))
                ELSE RedeemScriptToP2SH(RedeemScript(MultisigData(o.multisig, AccountOf(o)), i)),
     index |-> i, type |-> "legacy"]
PairOf(o, i) ==
    LET derived == DeriveShieldedAddress(DeriveChild(Public(ScanOf(o)), <<i>>),
                                         DeriveChild(Public(SpendOf(o)), <<i>>)) IN
    {[base58 |-> derived.base58, index |-> i, type |-> "shielded"],
     [base58 |-> derived.spendAddress, index |-> i, type |-> "shielded-spend"]}

\* The signature of a participant for the last address.
SignatureOf(o, p) ==
    [pubkey |-> AccountXpub(o, p), key |-> DeriveChild(AccountXpub(o, p), <<0, Indexes - 1>>)]

\* What is held and what is stored is of the wallet; when the caller awaits each call, a call holds
\* what is stored.
AllOwn ==
    /\ current # 0 => Own(origin, heap[current])
    /\ \A c \in Slots : calls[c].held # 0 => Own(origin, heap[calls[c].held])
OneCall ==
    calm => /\ \A c, d \in Slots : calls[c].op # "idle" /\ calls[d].op # "idle" => c = d
            /\ \A c \in Slots : calls[c].op # "idle" => calls[c].held = current
AddressesOK ==
    /\ \A a \in addresses : \E i \in 0..Indexes - 1 : a = LegacyOf(origin, i) \/ a \in PairOf(origin, i)
    /\ addresses # {} => current # 0
    /\ calm /\ (\E a \in addresses : a.type # "legacy") => ~NoShielded(heap[current]) /\ origin.kind # "xpub"
SignaturesOK ==
    /\ signatures \in Seq({SignatureOf(origin, p) : p \in Participants})
    /\ \A i, j \in DOMAIN signatures : signatures[i] = signatures[j] => i = j
    /\ signatures # <<>> => origin.multisig # None
CallPins == \A c \in Slots :
    /\ calls[c].op = "start" => calls[c].old \in Pins \cup {None}
    /\ calls[c].op = "pin" => calls[c].new \in Pins

OwnInv == AllOwn /\ OneCall /\ AddressesOK /\ SignaturesOK /\ CallPins

-----------------------------------------------------------------------------
(* The store and the addresses *)

LEMMA InitOwn == Init => OwnInv
<1> SUFFICES ASSUME Init PROVE OwnInv
  OBVIOUS
<1>1. \A c \in Slots : calls[c].held = 0 /\ calls[c].op = "idle"
  BY DEF Init, Idle
<1>2. AllOwn
  <2>1. CASE origin.old
    <3>1. PICK pin \in Pins, password \in Passwords :
            heap = [i \in Ids |-> IF i = 1 THEN Old(Generated(origin, pin, password)) ELSE None]
      BY <2>1 DEF Init
    <3>2. origin \in Origins /\ origin.kind = "seed" /\ current = 1 /\ 1 \in Ids
      BY <2>1, AccessAssumption DEF Init, Ids
    <3> DEFINE data == Generated(origin, pin, password)
    <3>3. OwnUnder(origin, data, pin)
      BY <3>2, GeneratedOwn
    <3> HIDE DEF data
    <3>4. OwnUnder(origin, Old(data), pin)
      BY <3>3, OldOwn
    <3>5. heap[1] = Old(data)
      BY <3>1, <3>2 DEF data
    <3> QED
      BY <1>1, <3>2, <3>4, <3>5 DEF AllOwn, Own
  <2>2. CASE ~origin.old
    <3>1. current = 0
      BY <2>2 DEF Init
    <3> QED
      BY <1>1, <3>1 DEF AllOwn
  <2> QED
    BY <2>1, <2>2
<1>3. OneCall /\ CallPins
  BY <1>1 DEF OneCall, CallPins
<1>4. AddressesOK
  BY DEF Init, AddressesOK
<1>5. SignaturesOK
  BY DEF Init, SignaturesOK
<1> QED
  BY <1>2, <1>3, <1>4, <1>5 DEF OwnInv

\* A call has read the record.
LEMMA ReadsOwn ==
  ASSUME RecordsInv, OwnInv, NEW c \in Slots, NEW op \in {"start", "reload", "pin", "password"},
         NEW old, NEW new, GetAccessData(c, op, old, new),
         op = "start" => old \in Pins \cup {None}, op = "pin" => new \in Pins
  PROVE  OwnInv'
<1>1. /\ calls' = [calls EXCEPT ![c] = [op |-> op, held |-> current, old |-> old, new |-> new]]
      /\ UNCHANGED <<origin, heap, current, calm, addresses, signatures>>
      /\ calm => \A d \in Slots : calls[d] = Idle
  BY DEF GetAccessData, Free
<1>2. /\ calls'[c].op = op /\ calls'[c].held = current /\ calls'[c].old = old /\ calls'[c].new = new
      /\ \A d \in Slots \ {c} : calls'[d] = calls[d]
  BY <1>1 DEF RecordsInv, CallsOK
<1>3. AllOwn'
  BY <1>1, <1>2 DEF OwnInv, AllOwn
<1>4. OneCall'
  BY <1>1, <1>2 DEF OwnInv, OneCall, Idle
<1>5. CallPins'
  BY <1>1, <1>2 DEF OwnInv, CallPins
<1>6. AddressesOK' /\ SignaturesOK'
  BY <1>1 DEF OwnInv, AddressesOK, SignaturesOK
<1> QED
  BY <1>3, <1>4, <1>5, <1>6 DEF OwnInv

\* A call ends and the store has a record of the wallet, as has every call that holds one.
LEMMA EndsOwn ==
  ASSUME RecordsInv, OwnInv, NEW c \in Slots, calls[c].op # "idle",
         NEW id \in Ids \cup {0}, NEW records, Ends(c, id, records),
         UNCHANGED <<origin, calm, addresses, signatures>>, current # 0 => id # 0,
         id # 0 => Own(origin, records[id]),
         \A d \in Slots \ {c} : calls[d].held # 0 => Own(origin, records[calls[d].held]),
         calm /\ (\E a \in addresses : a.type # "legacy") => ~NoShielded(records[id])
  PROVE  OwnInv'
<1>1. /\ current' = id
      /\ calls' = [calls EXCEPT ![c] = Idle]
      /\ heap' = [i \in Ids |-> IF i = id \/ \E d \in Slots \ {c} : calls[d].held = i
                                THEN records[i] ELSE None]
  BY DEF Ends
<1>2. /\ calls'[c] = [op |-> "idle", held |-> 0, old |-> None, new |-> None]
      /\ \A d \in Slots \ {c} : calls'[d] = calls[d]
  BY <1>1 DEF RecordsInv, CallsOK, Idle
<1>3. \A d \in Slots : calls[d].held \in Ids \cup {0}
  BY DEF RecordsInv, CallsOK, CallOK
<1>4. AllOwn'
  <2>1. current' # 0 => Own(origin, heap'[current'])
    BY <1>1
  <2>2. \A d \in Slots \ {c} : calls'[d].held # 0 => Own(origin, heap'[calls'[d].held])
    BY <1>1, <1>2, <1>3
  <2> QED
    BY <1>2, <2>1, <2>2 DEF AllOwn
<1>5. OneCall' /\ CallPins'
  BY <1>2 DEF OwnInv, OneCall, CallPins
<1>6. AddressesOK'
  <2>1. addresses # {} => id # 0
    BY DEF OwnInv, AddressesOK
  <2>2. calm /\ (\E a \in addresses : a.type # "legacy") => ~NoShielded(heap'[id]) /\ origin.kind # "xpub"
    BY <1>1, <2>1 DEF OwnInv, AddressesOK
  <2> QED
    BY <1>1, <2>1, <2>2 DEF OwnInv, AddressesOK
<1>7. SignaturesOK'
  BY DEF OwnInv, SignaturesOK
<1> QED
  BY <1>4, <1>5, <1>6, <1>7 DEF OwnInv

LEMMA ThrowsOwn ==
  ASSUME RecordsInv, OwnInv, NEW c \in Slots, calls[c].op # "idle", Throws(c),
         UNCHANGED <<origin, calm, addresses, signatures>>
  PROVE  OwnInv'
<1>1. Ends(c, current, heap) /\ current \in Ids \cup {0}
  BY DEF Throws, RecordsInv, Referred
<1>2. calm /\ (\E a \in addresses : a.type # "legacy") => ~NoShielded(heap[current])
  BY DEF OwnInv, AddressesOK
<1>3. /\ current # 0 => Own(origin, heap[current])
      /\ \A d \in Slots \ {c} : calls[d].held # 0 => Own(origin, heap[calls[d].held])
  BY DEF OwnInv, AllOwn
<1> QED
  BY <1>1, <1>2, <1>3, EndsOwn

LEMMA SavesOwn ==
  ASSUME RecordsInv, OwnInv, NEW c \in Slots, calls[c].op # "idle",
         NEW id \in Ids, NEW data, Own(origin, data), SaveAccessData(c, id, data),
         UNCHANGED <<origin, calm, addresses, signatures>>,
         calm /\ (\E a \in addresses : a.type # "legacy") => ~NoShielded(data)
  PROVE  OwnInv'
<1> DEFINE records == [heap EXCEPT ![id] = data]
<1>1. Ends(c, id, records)
  BY DEF SaveAccessData
<1>2. \A i \in Ids : records[i] = IF i = id THEN data ELSE heap[i]
  BY DEF RecordsInv
<1>3. \A d \in Slots : calls[d].held \in Ids \cup {0} /\ (calls[d].held # 0 => Own(origin, heap[calls[d].held]))
  BY DEF RecordsInv, CallsOK, CallOK, OwnInv, AllOwn
<1>4. id # 0
  BY DEF Ids
<1> HIDE DEF records
<1> QED
  BY <1>1, <1>2, <1>3, <1>4, EndsOwn

LEMMA SavesNewOwn ==
  ASSUME RecordsInv, OwnInv, NEW c \in Slots, calls[c].op # "idle",
         NEW data, Own(origin, data), SaveNew(c, data),
         UNCHANGED <<origin, calm, addresses, signatures>>,
         calm /\ (\E a \in addresses : a.type # "legacy") => ~NoShielded(data)
  PROVE  OwnInv'
<1> DEFINE Unused(i) == i # current /\ \A d \in Slots : calls[d].held # i
           id == CHOOSE i \in Ids : Unused(i)
<1>1. \A d \in Slots : calls[d].op = "idle" => calls[d].held = 0
  BY DEF RecordsInv, CallsOK, CallOK
<1>2. \E d \in Slots : calls[d].held \in {current, 0}
  BY <1>1 DEF RecordsInv, Referred
<1>3. \E i \in Ids : Unused(i)
  BY <1>2 DEF Ids, Slots
<1>4. id \in Ids
  BY <1>3
<1>5. SaveAccessData(c, id, data)
  BY DEF SaveNew
<1> HIDE DEF id
<1> QED
  BY <1>4, <1>5, SavesOwn

LEMMA StartRestOwn ==
  ASSUME RecordsInv, OwnInv, NEW c \in Slots, StartRest(c)
  PROVE  OwnInv'
<1> DEFINE call == calls[c]
           fresh == Generated(origin, call.old, call.new)
           data == heap[call.held]
           migrated == MigrateShieldedAccessData(data, call.old, call.new, origin.passphrase)
<1>1. /\ call.op = "start" /\ call.op # "idle" /\ origin \in Origins /\ call.old \in Pins \cup {None}
      /\ UNCHANGED <<origin, calm, addresses, signatures>>
  BY DEF StartRest, RecordsInv, OwnInv, CallPins
<1>2. \/ Throws(c)
      \/ /\ call.held = 0 \/ origin.kind = "xpub"
         /\ fresh # None /\ SaveNew(c, fresh)
      \/ /\ call.held # 0 /\ call.old # None
         /\ migrated # None /\ SaveAccessData(c, call.held, migrated)
  BY Zenon DEF StartRest
<1>3. CASE Throws(c)
  BY <1>1, <1>3, ThrowsOwn
<1>4. CASE (call.held = 0 \/ origin.kind = "xpub") /\ fresh # None /\ SaveNew(c, fresh)
  <2>1. calm => ~\E a \in addresses : a.type # "legacy"
    BY <1>1, <1>4 DEF OwnInv, OneCall, AddressesOK
  <2> HIDE DEF fresh
  <2>2. OwnUnder(origin, fresh, call.old)
    BY <1>1, <1>4, GeneratedOwn DEF fresh
  <2>3. Own(origin, fresh)
    BY <1>1, <2>2 DEF Own
  <2> QED
    BY <1>1, <1>4, <2>1, <2>3, SavesNewOwn
<1>5. CASE /\ call.held # 0 /\ call.old # None
           /\ migrated # None /\ SaveAccessData(c, call.held, migrated)
  <2>1. call.held \in Ids /\ call.old \in Pins /\ Own(origin, data) /\ (calm => call.held = current)
    BY <1>1, <1>5 DEF RecordsInv, CallsOK, CallOK, OwnInv, AllOwn, OneCall
  <2>2. calm /\ (\E a \in addresses : a.type # "legacy") => ~NoShielded(data)
    BY <2>1 DEF OwnInv, AddressesOK
  <2> HIDE DEF migrated, data
  <2>3. Own(origin, migrated) /\ (~NoShielded(data) => ~NoShielded(migrated))
    BY <1>1, <1>5, <2>1, MigratedOwn DEF migrated
  <2> QED
    BY <1>1, <1>5, <2>1, <2>2, <2>3, SavesOwn
<1> HIDE DEF fresh, migrated
<1> QED
  BY <1>2, <1>3, <1>4, <1>5

LEMMA ReloadOwn ==
  ASSUME RecordsInv, OwnInv, NEW c \in Slots, ReloadClean(c) \/ ReloadRest(c)
  PROVE  OwnInv'
<1>1. CASE ReloadClean(c)
  <2>1. calls[c].op = "reload" /\ calls' = [calls EXCEPT ![c].op = "clean"] /\ addresses' = {}
        /\ UNCHANGED <<origin, heap, current, calm, signatures>>
    BY <1>1 DEF ReloadClean
  <2>2. calls[c] = [op |-> calls[c].op, held |-> calls[c].held, old |-> calls[c].old, new |-> calls[c].new]
    BY DEF RecordsInv, CallsOK, CallOK
  <2>3. /\ calls'[c] = [op |-> "clean", held |-> calls[c].held, old |-> calls[c].old, new |-> calls[c].new]
        /\ \A d \in Slots \ {c} : calls'[d] = calls[d]
    BY <2>1, <2>2 DEF RecordsInv, CallsOK
  <2>4. calls'[c].op = "clean" /\ calls'[c].held = calls[c].held /\ calls[c].op # "idle"
    BY <2>1, <2>3
  <2>5. AllOwn'
    BY <2>1, <2>3, <2>4 DEF OwnInv, AllOwn
  <2>6. OneCall' /\ CallPins'
    BY <2>1, <2>3, <2>4 DEF OwnInv, OneCall, CallPins
  <2>7. AddressesOK' /\ SignaturesOK'
    BY <2>1 DEF OwnInv, AddressesOK, SignaturesOK
  <2> QED
    BY <2>5, <2>6, <2>7 DEF OwnInv
<1>2. CASE ReloadRest(c)
  <2> DEFINE id == calls[c].held
  <2>1. calls[c].op = "clean" /\ calls[c].op # "idle" /\ SaveAccessData(c, id, heap[id])
        /\ UNCHANGED <<origin, calm, addresses, signatures>>
    BY <1>2 DEF ReloadRest
  <2>2. id \in Ids /\ Own(origin, heap[id]) /\ (calm => id = current)
    BY <2>1 DEF RecordsInv, CallsOK, CallOK, OwnInv, AllOwn, OneCall
  <2>3. calm /\ (\E a \in addresses : a.type # "legacy") => ~NoShielded(heap[id])
    BY <2>2 DEF OwnInv, AddressesOK
  <2> HIDE DEF id
  <2> QED
    BY <2>1, <2>2, <2>3, SavesOwn
<1> QED
  BY <1>1, <1>2

LEMMA ChangeOwn ==
  ASSUME RecordsInv, OwnInv, NEW c \in Slots, ChangePinRest(c) \/ ChangePasswordRest(c)
  PROVE  OwnInv'
<1> DEFINE call == calls[c]
           data == heap[call.held]
           pin == ChangeEncryptionPin(data, call.old, call.new)
           password == ChangeEncryptionPassword(data, call.old, call.new)
<1>1. /\ call.op # "idle" /\ call.op \in {"pin", "password"}
      /\ UNCHANGED <<origin, calm, addresses, signatures>>
  BY DEF ChangePinRest, ChangePasswordRest
<1>2. Own(origin, data) /\ origin \in Origins /\ (calm => call.held = current)
  BY <1>1 DEF RecordsInv, CallsOK, CallOK, OwnInv, AllOwn, OneCall
<1>3. calm /\ (\E a \in addresses : a.type # "legacy") => ~NoShielded(data)
  BY <1>2 DEF OwnInv, AddressesOK
<1>4. \/ Throws(c)
      \/ call.op = "pin" /\ pin # None /\ SaveNew(c, pin)
      \/ password # None /\ SaveNew(c, password)
  BY Zenon DEF ChangePinRest, ChangePasswordRest
<1>5. call.op = "pin" => call.new \in Pins
  BY DEF OwnInv, CallPins
<1> HIDE DEF pin, password, data
<1>6. ASSUME call.op = "pin", pin # None PROVE Own(origin, pin) /\ (~NoShielded(data) => ~NoShielded(pin))
  BY <1>2, <1>5, <1>6, NewPinOwn DEF pin
<1>7. ASSUME password # None PROVE Own(origin, password) /\ (~NoShielded(data) => ~NoShielded(password))
  BY <1>2, <1>7, NewPasswordOwn DEF password
<1> QED
  BY <1>1, <1>3, <1>4, <1>6, <1>7, ThrowsOwn, SavesNewOwn

\* Of one key of a record there is one address of each index.
LEMMA RecordAddresses ==
  ASSUME NEW o \in Origins, NEW data, Own(o, data), NEW i
  PROVE  /\ Legacy(data, i) = LegacyOf(o, i)
         /\ ~NoShielded(data) => o.kind # "xpub" /\ ShieldedPair(data, i) = PairOf(o, i)
<1>1. PICK pin \in Pins \cup {None} : OwnUnder(o, data, pin)
  BY DEF Own
<1>2. data.xpubkey = Public(MainOf(o)) /\ data.multisig = MultisigData(o.multisig, AccountOf(o))
  BY <1>1 DEF OwnUnder
<1>3. data.multisig = None <=> o.multisig = None
  BY <1>2, NoneAssumption DEF MultisigData
<1>4. Legacy(data, i) = LegacyOf(o, i)
  <2>1. CASE o.multisig = None
    BY <1>2, <1>3, <2>1, Zenon DEF Legacy, LegacyOf
  <2>2. CASE o.multisig # None
    BY <1>2, <1>3, <2>2, Zenon DEF Legacy, LegacyOf
  <2> QED
    BY <2>1, <2>2
<1>5. ASSUME ~NoShielded(data) PROVE o.kind # "xpub" /\ ShieldedPair(data, i) = PairOf(o, i)
  <2>1. o.kind # "xpub" /\ data.scanXpubkey = Public(ScanOf(o)) /\ data.spendXpubkey = Public(SpendOf(o))
    BY <1>1, <1>5 DEF OwnUnder, AllShielded
  <2> QED
    BY <2>1, Zenon DEF ShieldedPair, PairOf
<1> QED
  BY <1>4, <1>5

LEMMA AddressTypes ==
  ASSUME NEW o, NEW i
  PROVE  /\ LegacyOf(o, i).type = "legacy" /\ LegacyOf(o, i).index = i
         /\ \A a \in PairOf(o, i) : a.index = i /\ a.type # "legacy"
  BY DEF LegacyOf, PairOf

LEMMA LoadOwn ==
  ASSUME RecordsInv, OwnInv, Load
  PROVE  OwnInv'
<1> DEFINE data == heap[current]
<1>1. /\ addresses' = LoadAddresses(data, addresses, Indexes) /\ current # 0
      /\ UNCHANGED <<origin, heap, current, calls, calm, signatures>>
  BY DEF Load
<1>2. Own(origin, data) /\ origin \in Origins
  BY <1>1 DEF RecordsInv, OwnInv, AllOwn
<1> HIDE DEF data
<1>3. ASSUME NEW a \in addresses', a \notin addresses
      PROVE  \/ \E i \in 0..Indexes - 1 : a = Legacy(data, i)
             \/ HasShieldedKeys(data) /\ \E i \in 0..Indexes - 1 : a \in ShieldedPair(data, i)
  BY <1>1, <1>3, Zenon DEF LoadAddresses
<1>4. HasShieldedKeys(data) => ~NoShielded(data)
  BY DEF HasShieldedKeys, NoShielded, ShieldedFields
<1>5. ASSUME NEW a \in addresses', a \notin addresses
      PROVE  /\ \E i \in 0..Indexes - 1 : a = LegacyOf(origin, i) \/ a \in PairOf(origin, i)
             /\ a.type # "legacy" => ~NoShielded(data) /\ origin.kind # "xpub"
  <2>1. CASE \E i \in 0..Indexes - 1 : a = Legacy(data, i)
    BY <1>2, <2>1, RecordAddresses, AddressTypes
  <2>2. CASE HasShieldedKeys(data) /\ \E i \in 0..Indexes - 1 : a \in ShieldedPair(data, i)
    BY <1>2, <1>4, <2>2, RecordAddresses
  <2> QED
    BY <1>3, <1>5, <2>1, <2>2
<1>6. AddressesOK'
  <2>1. \A a \in addresses' : \E i \in 0..Indexes - 1 : a = LegacyOf(origin, i) \/ a \in PairOf(origin, i)
    BY <1>5 DEF OwnInv, AddressesOK
  <2>2. calm /\ (\E a \in addresses' : a.type # "legacy") => ~NoShielded(data) /\ origin.kind # "xpub"
    BY <1>5 DEF OwnInv, AddressesOK, data
  <2> QED
    BY <1>1, <2>1, <2>2 DEF AddressesOK, data
<1>7. AllOwn' /\ OneCall' /\ CallPins' /\ SignaturesOK'
  BY <1>1 DEF OwnInv, AllOwn, OneCall, CallPins, SignaturesOK
<1> QED
  BY <1>6, <1>7 DEF OwnInv

LEMMA StopOwn ==
  ASSUME RecordsInv, OwnInv, NEW clean, Stop(clean)
  PROVE  OwnInv'
<1>1. /\ addresses' = {} \/ addresses' = addresses
      /\ signatures' = <<>>
      /\ UNCHANGED <<origin, heap, current, calls, calm>>
  BY DEF Stop
<1>2. AllOwn' /\ OneCall' /\ CallPins'
  BY <1>1 DEF OwnInv, AllOwn, OneCall, CallPins
<1>3. AddressesOK'
  BY <1>1 DEF OwnInv, AddressesOK
<1>4. SignaturesOK'
  BY <1>1 DEF SignaturesOK
<1> QED
  BY <1>2, <1>3, <1>4 DEF OwnInv

-----------------------------------------------------------------------------
(* The keys of the addresses *)

\* The pubkeys and the number of the group stay beside the own key.
LEMMA GroupOf ==
  ASSUME NEW o \in Origins, o.multisig # None, NEW account,
         NEW m, m = MultisigData(o.multisig, account)
  PROVE  /\ m.pubkeys = o.multisig.pubkeys /\ m.numSignatures = o.multisig.numSignatures
         /\ m.pubkey = Public(account)
<1> DEFINE new == [pubkey |-> Public(account)]
           group == o.multisig
<1>1. DOMAIN new = {"pubkey"} /\ new["pubkey"] = Public(account)
  OBVIOUS
<1>2. DOMAIN group = {"pubkeys", "numSignatures"}
  <2>1. group = [pubkeys |-> group.pubkeys, numSignatures |-> group.numSignatures]
    BY OriginAssumption
  <2> HIDE DEF group
  <2> QED
    BY <2>1
<1>3. m = Over(group, new)
  BY Zenon DEF MultisigData
<1> HIDE DEF new, group
<1>4. /\ \A f \in DOMAIN group : m[f] = group[f]
      /\ \A f \in DOMAIN new \ DOMAIN group : m[f] = new[f]
  <2> DEFINE over == Over(group, new)
  <2>1. /\ \A f \in DOMAIN group : over[f] = group[f]
        /\ \A f \in DOMAIN new \ DOMAIN group : over[f] = new[f]
    BY OverFields
  <2> HIDE DEF over
  <2> QED
    BY <1>3, <2>1 DEF over
<1>5. m["pubkeys"] = group["pubkeys"] /\ m["numSignatures"] = group["numSignatures"]
      /\ m["pubkey"] = new["pubkey"]
  BY <1>1, <1>2, <1>4
<1> QED
  BY <1>1, <1>5 DEF group

\* Who gave the keys of the group.
Group(o, who) ==
    /\ who \in [1..Cardinality(Participants) -> Participants]
    /\ \A i, j \in DOMAIN who : who[i] = who[j] => i = j
    /\ \A p \in Participants : \E i \in DOMAIN who : who[i] = p
    /\ o.multisig.pubkeys = [i \in DOMAIN who |-> AccountXpub(o, who[i])]

LEMMA AccountXpubs ==
  ASSUME NEW o, NEW p, NEW q
  PROVE  PubkeyBefore(AccountXpub(o, p), AccountXpub(o, q)) <=> p < q
<1> DEFINE seed(r) == <<r, IF r = o.words THEN o.passphrase ELSE 0>>
<1>1. ASSUME NEW r PROVE AccountXpub(o, r) = PublicKey(seed(r), Hard(P2SHAcctPath))
  <2>1. Root(r, IF r = o.words THEN o.passphrase ELSE 0) = PrivateKey(seed(r), <<>>)
    BY Zenon DEF Root, PrivateKey, Key
  <2> HIDE DEF seed
  <2>2. DeriveNonCompliantChild(PrivateKey(seed(r), <<>>), P2SHAcctPath) = PrivateKey(seed(r), Hard(P2SHAcctPath))
    BY PathTypes, RootDerives
  <2>3. Public(PrivateKey(seed(r), Hard(P2SHAcctPath))) = PublicKey(seed(r), Hard(P2SHAcctPath))
    BY PrivateKeysDerive
  <2> QED
    BY <2>1, <2>2, <2>3 DEF AccountXpub
<1>2. Len(Hard(P2SHAcctPath)) = 3
  BY PathTypes, HardPaths
<1>3. ASSUME NEW s, NEW path PROVE PublicKey(s, path).seed = s /\ Depth(PublicKey(s, path)) = Len(path)
  BY PublicKeysDerive DEF PublicKey, Key
<1>4. seed(p)[1] = p /\ seed(q)[1] = q
  OBVIOUS
<1> HIDE DEF seed
<1>5. ASSUME NEW r PROVE Depth(AccountXpub(o, r)) = 3 /\ AccountXpub(o, r).seed = seed(r)
  <2>1. AccountXpub(o, r) = PublicKey(seed(r), Hard(P2SHAcctPath))
    BY <1>1
  <2>2. /\ Depth(PublicKey(seed(r), Hard(P2SHAcctPath))) = 3
        /\ PublicKey(seed(r), Hard(P2SHAcctPath)).seed = seed(r)
    BY <1>2, <1>3
  <2> QED
    BY <2>1, <2>2
<1>6. /\ Depth(AccountXpub(o, p)) = 3
      /\ AccountXpub(o, p).seed[1] = p /\ AccountXpub(o, q).seed[1] = q
  BY <1>4, <1>5
<1> QED
  BY <1>6, Zenon DEF PubkeyBefore

\* The keys of the script are the ones of all participants, in their order.
KeysInOrder(o, index, script) ==
    \E by \in [1..Cardinality(Participants) -> Participants] :
      /\ \A i, j \in DOMAIN by : i < j => by[i] < by[j]
      /\ \A p \in Participants : \E i \in DOMAIN by : by[i] = p
      /\ script.keys = [i \in DOMAIN by |-> DeriveChild(AccountXpub(o, by[i]), <<0, index>>)]

LEMMA ScriptKeys ==
  ASSUME NEW o \in Origins, o.multisig # None, NEW index,
         NEW script, script = RedeemScript(MultisigData(o.multisig, AccountOf(o)), index)
  PROVE  KeysInOrder(o, index, script)
<1> DEFINE n == Cardinality(Participants)
           pubkeys == MultisigData(o.multisig, AccountOf(o)).pubkeys
           at == SortedPlaces(pubkeys)
<1>1. n \in Nat
  BY AccessAssumption, FS_CardinalityType
<1>2. PICK who : Group(o, who)
  BY OriginAssumption DEF Group
<1>3. pubkeys = [i \in 1..n |-> AccountXpub(o, who[i])] /\ DOMAIN who = 1..n
  <2> DEFINE m == MultisigData(o.multisig, AccountOf(o))
  <2> HIDE DEF m
  <2>1. m.pubkeys = o.multisig.pubkeys
    BY GroupOf DEF m
  <2> QED
    BY <1>2, <2>1 DEF Group, m
<1>4. script.keys = [k \in DOMAIN at |-> DeriveChild(pubkeys[at[k]], <<0, index>>)]
  BY DEF RedeemScript
<1> HIDE DEF n, pubkeys
<1>5. /\ who \in [1..n -> Nat] /\ who \in [1..n -> Participants]
      /\ \A i, j \in 1..n : who[i] = who[j] => i = j
      /\ \A p \in Participants : \E i \in 1..n : who[i] = p
  BY <1>2, <1>3, AccessAssumption DEF Group, n
<1>6. DOMAIN pubkeys = 1..n /\ \A i, j \in 1..n : PubkeyBefore(pubkeys[i], pubkeys[j]) <=> who[i] < who[j]
  BY <1>3, AccountXpubs
<1>7. /\ at \in [1..n -> 1..n]
      /\ \A i, j \in 1..n : i < j => who[at[i]] < who[at[j]]
      /\ \A i \in 1..n : \E k \in 1..n : at[k] = i
  <2>1. SortedPlaces(pubkeys) \in [1..n -> 1..n]
    BY <1>1, <1>5, <1>6, PlacesAreSorted
  <2>2. \A i, j \in 1..n : i < j => who[SortedPlaces(pubkeys)[i]] < who[SortedPlaces(pubkeys)[j]]
    BY <1>1, <1>5, <1>6, PlacesAreSorted
  <2>3. \A i \in 1..n : \E k \in 1..n : SortedPlaces(pubkeys)[k] = i
    BY <1>1, <1>5, <1>6, PlacesAreSorted
  <2> QED
    BY <2>1, <2>2, <2>3
<1> HIDE DEF at
<1> DEFINE by == [k \in 1..n |-> who[at[k]]]
<1>8. /\ by \in [1..n -> Participants] /\ DOMAIN by = 1..n
      /\ \A i, j \in DOMAIN by : i < j => by[i] < by[j]
      /\ \A p \in Participants : \E i \in DOMAIN by : by[i] = p
  BY <1>5, <1>7
<1>9. script.keys = [i \in DOMAIN by |-> DeriveChild(AccountXpub(o, by[i]), <<0, index>>)]
  BY <1>3, <1>4, <1>7
<1> HIDE DEF by
<1> QED
  BY <1>8, <1>9 DEF n, KeysInOrder

-----------------------------------------------------------------------------
(* Signatures *)

\* A record with its main key signs for the account of its words.
LEMMA SignsForAccount ==
  ASSUME NEW o, o.multisig # None, NEW data, NEW pin,
         data.multisig.pubkey = Public(AccountOf(o)), data.mainKey = EncryptData(MainOf(o), pin),
         NEW address, address.type = "legacy", address.index = Indexes - 1
  PROVE  AllSignatures(data, pin, address)
           = [pubkey |-> AccountXpub(o, o.words),
              key |-> DeriveChild(AccountXpub(o, o.words), <<0, Indexes - 1>>)]
<1>1. Indexes - 1 \in 0..Indexes - 1
  BY AccessAssumption, HardenedAssumption
<1>2. GetMainXPrivKey(data, pin) = MainOf(o)
  BY EncryptedData DEF GetMainXPrivKey, DecryptData, CheckPassword
<1>3. SigningKey(data, pin, address) = DeriveNonCompliantChild(MainOf(o), <<Indexes - 1>>)
  BY <1>2 DEF SigningKey
<1>4. Public(DeriveNonCompliantChild(MainOf(o), <<Indexes - 1>>))
        = DeriveChild(Public(AccountOf(o)), <<0, Indexes - 1>>)
  BY <1>1, IndexKeys, Zenon
<1> QED
  BY <1>3, <1>4, OwnAccountXpub DEF AllSignatures

LEMMA RecordSigns ==
  ASSUME RecordsInv, OwnInv, NEW p \in Participants, NEW address,
         origin.multisig # None, current # 0, ~RecordOf(p).readonly,
         address.type = "legacy", address.index = Indexes - 1
  PROVE  AllSignatures(RecordOf(p), PinOf(p), address) = SignatureOf(origin, p)
<1>1. origin \in Origins /\ Own(origin, heap[current])
  BY DEF RecordsInv, OwnInv, AllOwn
<1>2. CASE p = origin.words
  <2> DEFINE data == heap[current]
  <2>1. RecordOf(p) = data /\ PinOf(p) = data.mainKey.under
    BY <1>2 DEF RecordOf, PinOf
  <2>2. PICK pin \in Pins \cup {None} : OwnUnder(origin, data, pin)
    BY <1>1 DEF Own
  <2> HIDE DEF data
  <2>3. /\ data.multisig = MultisigData(origin.multisig, AccountOf(origin))
        /\ data.mainKey = EncryptData(MainOf(origin), pin)
    BY <2>1, <2>2 DEF OwnUnder
  <2>4. data.mainKey.under = pin /\ data.multisig.pubkey = Public(AccountOf(origin))
    BY <1>1, <2>3, EncryptedData, GroupOf
  <2> QED
    BY <1>2, <2>1, <2>3, <2>4, SignsForAccount DEF SignatureOf
<1>3. CASE p # origin.words
  <2> DEFINE o == [words |-> p, multisig |-> origin.multisig, passphrase |-> 0]
             password == CHOOSE w \in Passwords : TRUE
             data == GenerateAccessDataFromSeed(p, origin.multisig, 0, Pin, password)
  <2>1. RecordOf(p) = data /\ PinOf(p) = Pin
    BY <1>3, Zenon DEF RecordOf, PinOf
  <2>2. o.words = p /\ o.multisig = origin.multisig /\ o.passphrase = 0
    OBVIOUS
  <2> HIDE DEF o, password
  <2>3. data = GenerateAccessDataFromSeed(o.words, o.multisig, o.passphrase, Pin, password)
    BY <2>2
  <2> HIDE DEF data
  <2>4. data.mainKey = EncryptData(MainOf(o), Pin) /\ data.multisig = MultisigData(o.multisig, AccountOf(o))
    BY <2>3, SeedFields
  <2>5. data.multisig.pubkey = Public(AccountOf(o))
    BY <1>1, <2>2, <2>4, GroupOf
  <2>6. AccountXpub(o, o.words) = AccountXpub(origin, p)
    BY <1>3, <2>2, Zenon DEF AccountXpub
  <2> QED
    BY <2>1, <2>2, <2>4, <2>5, <2>6, SignsForAccount DEF SignatureOf
<1> QED
  BY <1>2, <1>3

LEMMA SignaturesOwn ==
  ASSUME RecordsInv, OwnInv, NEW p \in Participants, NEW a \in addresses, GetAllSignatures(p, a)
  PROVE  OwnInv'
<1> DEFINE signature == AllSignatures(RecordOf(p), PinOf(p), a)
           All == {SignatureOf(origin, q) : q \in Participants}
<1>1. /\ origin.multisig # None
      /\ \A i \in DOMAIN signatures : signatures[i] # signature
      /\ signatures' = Append(signatures, signature)
      /\ UNCHANGED <<origin, heap, current, calls, calm, addresses>>
  BY DEF GetAllSignatures
<1>2. signature \in All
  BY RecordSigns DEF GetAllSignatures
<1>3. /\ signatures \in Seq(All)
      /\ \A i, j \in DOMAIN signatures : signatures[i] = signatures[j] => i = j
  BY DEF OwnInv, SignaturesOK
<1> HIDE DEF signature, All
<1>4. signatures' \in Seq(All)
  BY <1>1, <1>2, <1>3
<1>5. \A i, j \in DOMAIN signatures' : signatures'[i] = signatures'[j] => i = j
  <2>1. /\ DOMAIN signatures' = 1..Len(signatures) + 1 /\ DOMAIN signatures = 1..Len(signatures)
        /\ signatures'[Len(signatures) + 1] = signature
        /\ \A i \in 1..Len(signatures) : signatures'[i] = signatures[i]
        /\ Len(signatures) \in Nat
    BY <1>1, <1>2, <1>3
  <2>2. \A i \in DOMAIN signatures' : i \in DOMAIN signatures \/ i = Len(signatures) + 1
    BY <2>1
  <2> QED
    BY <1>1, <1>3, <2>1, <2>2
<1>6. SignaturesOK'
  BY <1>1, <1>4, <1>5 DEF SignaturesOK, All
<1>7. AllOwn' /\ OneCall' /\ CallPins' /\ AddressesOK'
  BY <1>1 DEF OwnInv, AllOwn, OneCall, CallPins, AddressesOK
<1> QED
  BY <1>6, <1>7 DEF OwnInv

LEMMA NextOwn == RecordsInv /\ OwnInv /\ [Next]_vars => OwnInv'
<1> SUFFICES ASSUME RecordsInv, OwnInv, [Next]_vars PROVE OwnInv'
  OBVIOUS
<1>1. ASSUME NEW c \in Slots, Call(c) PROVE OwnInv'
  <2>1. ASSUME NEW pin \in Pins \cup {None}, NEW password, Start(c, pin, password) PROVE OwnInv'
    <3>1. GetAccessData(c, "start", pin, password)
      BY <2>1 DEF Start
    <3> QED
      BY <3>1, ReadsOwn
  <2>2. CASE Reload(c)
    <3>1. GetAccessData(c, "reload", None, None)
      BY <2>2 DEF Reload
    <3> QED
      BY <3>1, ReadsOwn
  <2>3. ASSUME NEW old, NEW new \in Pins, ChangePin(c, old, new) PROVE OwnInv'
    <3>1. GetAccessData(c, "pin", old, new)
      BY <2>3 DEF ChangePin
    <3> QED
      BY <3>1, ReadsOwn
  <2>4. ASSUME NEW old, NEW new, ChangePassword(c, old, new) PROVE OwnInv'
    <3>1. GetAccessData(c, "password", old, new)
      BY <2>4 DEF ChangePassword
    <3> QED
      BY <3>1, ReadsOwn
  <2> QED
    BY <1>1, <2>1, <2>2, <2>3, <2>4, StartRestOwn, ReloadOwn, ChangeOwn DEF Call
<1>2. CASE Load
  BY <1>2, LoadOwn
<1>3. ASSUME NEW clean \in BOOLEAN, Stop(clean) PROVE OwnInv'
  BY <1>3, StopOwn
<1>4. ASSUME NEW p \in Participants, NEW a \in addresses, GetAllSignatures(p, a) PROVE OwnInv'
  BY <1>4, SignaturesOwn
<1>5. CASE UNCHANGED <<origin, heap, current, calls, calm, addresses, signatures>>
  BY <1>5 DEF OwnInv, AllOwn, OneCall, CallPins, AddressesOK, SignaturesOK
<1>6. ASSUME NEW a \in addresses, AssemblePartialTransaction(a) PROVE OwnInv'
  BY <1>5, <1>6 DEF AssemblePartialTransaction
<1>7. CASE UNCHANGED vars
  BY <1>5, <1>7 DEF vars
<1> QED
  BY <1>1, <1>2, <1>3, <1>4, <1>6, <1>7 DEF Next

-----------------------------------------------------------------------------
(* Theorems *)

\* The address of an index has the key of the words at its path.
LEMMA LegacyIsOurs ==
  ASSUME NEW o \in Origins, NEW i \in 0..Indexes - 1
  PROVE  /\ OwnedBy(o, LegacyOf(o, i))
         /\ Public(DeriveNonCompliantChild(MainOf(o), <<i>>)) \in ToSet(LegacyOf(o, i).base58.keys)
         /\ o.multisig = None => LegacyOf(o, i).base58 = PublicKeyToP2PKH(DeriveChild(Public(MainOf(o)), <<i>>))
<1> DEFINE a == LegacyOf(o, i)
           key == Public(DeriveNonCompliantChild(MainOf(o), <<i>>))
<1>1. a.type = "legacy" /\ a.index = i
  BY DEF LegacyOf
<1>2. /\ KeyAt(o, AccountPath(o.multisig) \o <<0, i>>) = key
      /\ Public(DeriveChild(Public(MainOf(o)), <<i>>)) = key
      /\ DeriveChild(Public(AccountOf(o)), <<0, i>>) = key
  BY IndexKeys, Zenon
<1>3. CASE o.multisig = None
  <2>1. a.base58 = PublicKeyToP2PKH(DeriveChild(Public(MainOf(o)), <<i>>))
    BY <1>3 DEF LegacyOf
  <2>2. a.base58.keys = <<key>>
    BY <1>2, <2>1 DEF PublicKeyToP2PKH
  <2>3. KeyAt(o, P2PKHAcctPath \o <<0, i>>) = key
    BY <1>2, <1>3 DEF AccountPath
  <2> HIDE DEF a, key
  <2>4. OwnedBy(o, a)
    BY <1>1, <1>3, <2>2, <2>3 DEF OwnedBy
  <2>5. key \in ToSet(a.base58.keys)
    BY <2>2 DEF ToSet
  <2> QED
    BY <2>1, <2>4, <2>5 DEF a, key
<1>4. CASE o.multisig # None
  <2> DEFINE script == RedeemScript(MultisigData(o.multisig, AccountOf(o)), i)
  <2>1. a.base58 = RedeemScriptToP2SH(script)
    BY <1>4 DEF LegacyOf
  <2> HIDE DEF script
  <2>2. PICK by \in [1..Cardinality(Participants) -> Participants] :
          /\ \A p \in Participants : \E k \in DOMAIN by : by[k] = p
          /\ script.keys = [k \in DOMAIN by |-> DeriveChild(AccountXpub(o, by[k]), <<0, i>>)]
    <3>1. KeysInOrder(o, i, script)
      BY <1>4, ScriptKeys DEF script
    <3> QED
      BY <3>1 DEF KeysInOrder
  <2>3. o.words \in Participants
    BY <1>4, OriginAssumption
  <2>4. PICK k \in DOMAIN by : by[k] = o.words
    BY <2>2, <2>3
  <2>5. script.keys[k] = key /\ k \in DOMAIN script.keys
    BY <1>2, <1>4, <2>2, <2>4, OwnAccountXpub
  <2>6. a.base58.keys = script.keys
    BY <2>1 DEF RedeemScriptToP2SH
  <2> HIDE DEF a, key
  <2>7. key \in ToSet(a.base58.keys)
    BY <2>5, <2>6 DEF ToSet
  <2>8. KeyAt(o, P2SHAcctPath \o <<0, i>>) = key
    BY <1>2, <1>4 DEF AccountPath
  <2>9. OwnedBy(o, a)
    BY <1>1, <1>4, <2>7, <2>8 DEF OwnedBy
  <2> QED
    BY <1>4, <2>7, <2>9 DEF a, key
<1> QED
  BY <1>3, <1>4

\* The shielded keys of the record sign and scan for the addresses of a pair.
LEMMA PairIsOurs ==
  ASSUME NEW o \in Origins, NEW data, NEW pin,
         AllShielded(o, data, pin), data.mainKey.under = pin, NEW i, NEW a \in PairOf(o, i)
  PROVE  OwnedBy(o, a) /\ SignsFor(data, a)
<1> DEFINE scan == DeriveChild(Public(ScanOf(o)), <<i>>)
           spend == DeriveChild(Public(SpendOf(o)), <<i>>)
           shielded == [kind |-> "shielded", keys |-> <<scan, spend>>, needs |-> 1]
<1>1. a \in {[base58 |-> shielded, index |-> i, type |-> "shielded"],
             [base58 |-> PublicKeyToP2PKH(spend), index |-> i, type |-> "shielded-spend"]}
  BY DEF PairOf, DeriveShieldedAddress
<1>2. /\ Public(DeriveChild(ScanOf(o), <<i>>)) = scan
      /\ Public(DeriveChild(SpendOf(o), <<i>>)) = spend /\ Public(spend) = spend
  BY ShieldedIndexKeys
<1>3. GetSpendXPrivKey(data, pin) = SpendOf(o) /\ GetScanXPrivKey(data, pin) = ScanOf(o)
  BY EncryptedData DEF AllShielded, GetSpendXPrivKey, GetScanXPrivKey, DecryptData, CheckPassword
<1>4. CASE a = [base58 |-> shielded, index |-> i, type |-> "shielded"]
  <2>1. a.type = "shielded" /\ a.index = i /\ a.base58 = shielded
    BY <1>4
  <2>2. a.base58.keys[1] = scan
    BY <2>1
  <2>3. ScanKey(data, pin, a) = DeriveChild(ScanOf(o), <<i>>)
    BY <1>3, <2>1 DEF ScanKey
  <2> HIDE DEF scan, spend, shielded
  <2>4. Public(ScanKey(data, pin, a)) = a.base58.keys[1]
    BY <1>2, <2>2, <2>3 DEF scan
  <2> QED
    BY <2>1, <2>4 DEF OwnedBy, SignsFor
<1>5. CASE a = [base58 |-> PublicKeyToP2PKH(spend), index |-> i, type |-> "shielded-spend"]
  <2>1. a.type = "shielded-spend" /\ a.index = i /\ a.base58 = PublicKeyToP2PKH(spend)
    BY <1>5
  <2>2. a.base58.keys = <<Public(spend)>>
    BY <2>1 DEF PublicKeyToP2PKH
  <2>3. SigningKey(data, pin, a) = DeriveChild(SpendOf(o), <<i>>)
    BY <1>3, <2>1 DEF SigningKey
  <2>4. <<Public(SigningKey(data, pin, a))>> = a.base58.keys
    BY <1>2, <2>2, <2>3
  <2> QED
    BY <2>1, <2>4 DEF OwnedBy, SignsFor
<1> QED
  BY <1>1, <1>4, <1>5

\* What the service is told opens the addresses of the wallet.
LEMMA ServiceIsTold ==
  ASSUME NEW o \in Origins, o.service, NEW data, NEW pin, OwnUnder(o, data, pin), data.mainKey # None,
         NEW i \in 0..Indexes - 1, NEW a, a = LegacyOf(o, i) \/ a \in PairOf(o, i)
  PROVE  ServiceAgrees(o, data, a)
<1> DEFINE account == AccountKeyFor(o, data, pin)
           auth == CreateWalletAuthData(o, data, pin)
<1>1. o.multisig = None /\ o.kind \in {"seed", "xpriv"} /\ data.mainKey.under = pin
  <2>1. o.multisig = None
    BY OriginAssumption
  <2>2. o.kind # "xpub" /\ data.mainKey = EncryptData(MainOf(o), pin)
    BY DEF OwnUnder
  <2>3. o.kind \in {"seed", "xpriv"}
    BY <2>2, AccessAssumption
  <2> QED
    BY <2>1, <2>2, <2>3, EncryptedData
<1>2. data.authKey = EncryptData(AuthOf(o), pin) /\ data.acctPathKey \in {None, EncryptData(AccountOf(o), pin)}
  BY DEF OwnUnder
<1>3. DecryptData(data.authKey, pin) = AuthOf(o)
  BY <1>2, EncryptedData DEF DecryptData, CheckPassword
<1>4. account = AccountOf(o)
  <2>1. CASE data.acctPathKey # None
    BY <1>2, <2>1, EncryptedData DEF AccountKeyFor, DecryptData, CheckPassword
  <2>2. CASE data.acctPathKey = None /\ o.kind = "seed"
    <3>1. AccountPath(o.multisig) = P2PKHAcctPath
      BY <1>1 DEF AccountPath
    <3> QED
      BY <2>2, <3>1, Zenon DEF AccountKeyFor, AccountOf, RootOf
  <2>3. CASE data.acctPathKey = None /\ o.kind = "xpriv"
    <3>1. o.key = SingleAccountOf(o) /\ AccountOf(o) = SingleAccountOf(o)
      BY <1>1, <2>3, OriginAssumption, OwnPublic
    <3> QED
      BY <2>3, <3>1 DEF AccountKeyFor
  <2> QED
    BY <1>1, <2>1, <2>2, <2>3
<1>5. /\ auth.authXpub = Public(AuthOf(o))
      /\ auth.firstAddress = PublicKeyToP2PKH(DeriveChild(Public(AccountOf(o)), <<0, 0>>))
  BY <1>3, <1>4 DEF CreateWalletAuthData
<1>6. KeyAt(o, AuthPath) = Public(AuthOf(o))
  BY <1>1, ServiceKeys
<1>7. ASSUME a.type = "legacy", a.index = 0 PROVE a.base58 = auth.firstAddress
  <2>1. a = LegacyOf(o, i) /\ i = 0
    BY <1>7, AddressTypes
  <2>2. a.base58 = PublicKeyToP2PKH(DeriveChild(Public(MainOf(o)), <<0>>))
    BY <1>1, <2>1, LegacyIsOurs
  <2>3. Public(DeriveChild(Public(AccountOf(o)), <<0, 0>>)) = Public(DeriveChild(Public(MainOf(o)), <<0>>))
    BY <1>1, ServiceKeys
  <2> QED
    BY <1>5, <2>2, <2>3 DEF PublicKeyToP2PKH
<1> HIDE DEF auth
<1> QED
  BY <1>1, <1>5, <1>6, <1>7 DEF ServiceAgrees, auth

\* Whatever the wallet was made from, its addresses and the keys of its record are the ones
\* of its words, under the pin of its main key: what generateAccessDataFromSeed() and its siblings of
\* src/utils/wallet.ts, migrateShieldedAccessData() and changeEncryptionPin() promise together.
THEOREM AddressesAlwaysOurs == Spec => []AddressesAreOurs
<1>1. RecordsInv /\ OwnInv => AddressesAreOurs
  <2> SUFFICES ASSUME RecordsInv, OwnInv, calm, NEW a \in addresses
               PROVE  /\ OwnedBy(origin, a)
                      /\ heap[current].mainKey # None =>
                           /\ SignsFor(heap[current], a)
                           /\ origin.service => ServiceAgrees(origin, heap[current], a)
    BY DEF AddressesAreOurs
  <2> DEFINE data == heap[current]
  <2>1. PICK i \in 0..Indexes - 1 : a = LegacyOf(origin, i) \/ a \in PairOf(origin, i)
    BY DEF OwnInv, AddressesOK
  <2>2. origin \in Origins /\ current # 0
    BY DEF RecordsInv, OwnInv, AddressesOK
  <2>3. PICK pin \in Pins \cup {None} : OwnUnder(origin, data, pin)
    BY <2>2 DEF OwnInv, AllOwn, Own
  <2>4. a.type # "legacy" => ~NoShielded(data)
    BY DEF OwnInv, AddressesOK
  <2> HIDE DEF data
  <2>5. data.mainKey # None => data.mainKey = EncryptData(MainOf(origin), pin) /\ data.mainKey.under = pin
    BY <2>3, EncryptedData DEF OwnUnder
  <2>6. CASE a = LegacyOf(origin, i)
    <3>1. a.type = "legacy" /\ a.index = i
      BY <2>6, AddressTypes
    <3>2. ASSUME data.mainKey # None PROVE SignsFor(data, a)
      <4>1. GetMainXPrivKey(data, pin) = MainOf(origin)
        BY <2>5, <3>2, EncryptedData DEF GetMainXPrivKey, DecryptData, CheckPassword
      <4>2. SigningKey(data, pin, a) = DeriveNonCompliantChild(MainOf(origin), <<i>>)
        BY <3>1, <4>1 DEF SigningKey
      <4>3. Public(SigningKey(data, pin, a)) \in ToSet(a.base58.keys)
        BY <2>2, <2>6, <4>2, LegacyIsOurs
      <4> QED
        BY <2>5, <3>1, <3>2, <4>3 DEF SignsFor
    <3>3. OwnedBy(origin, a)
      BY <2>2, <2>6, LegacyIsOurs
    <3> QED
      BY <2>1, <2>2, <2>3, <3>2, <3>3, ServiceIsTold DEF data
  <2>7. CASE a \in PairOf(origin, i)
    <3>1. AllShielded(origin, data, pin)
      BY <2>3, <2>4, <2>7, AddressTypes DEF OwnUnder
    <3>2. OwnedBy(origin, a)
      BY <2>7 DEF PairOf, OwnedBy
    <3>3. ASSUME data.mainKey # None PROVE SignsFor(data, a)
      BY <2>2, <2>5, <2>7, <3>1, <3>3, PairIsOurs
    <3> QED
      BY <2>1, <2>2, <2>3, <3>2, <3>3, ServiceIsTold DEF data
  <2> QED
    BY <2>1, <2>6, <2>7
<1> QED
  BY <1>1, InitRecords, InitOwn, NextRecords, NextOwn, PTL DEF Spec

LEMMA SignatureFields ==
  ASSUME NEW o, NEW p
  PROVE  /\ SignatureOf(o, p).pubkey = AccountXpub(o, p)
         /\ SignatureOf(o, p).key = DeriveChild(AccountXpub(o, p), <<0, Indexes - 1>>)
  BY DEF SignatureOf

\* The signatures are in the order of the participants.
LEMMA OrderedSignatures ==
  ASSUME NEW o \in Origins, NEW sigs \in Seq({SignatureOf(o, p) : p \in Participants}),
         \A i, j \in DOMAIN sigs : sigs[i] = sigs[j] => i = j
  PROVE  \E by \in [1..Len(sigs) -> Participants] :
           /\ \A i, j \in DOMAIN by : i < j => by[i] < by[j]
           /\ InputOrder(sigs) = [k \in 1..Len(sigs) |-> SignatureOf(o, by[k])]
<1> DEFINE n == Len(sigs)
           who == [i \in 1..n |-> CHOOSE p \in Participants : sigs[i] = SignatureOf(o, p)]
           pubkeys == [i \in DOMAIN sigs |-> sigs[i].pubkey]
           at == SortedPlaces(pubkeys)
<1>1. n \in Nat /\ DOMAIN sigs = 1..n
  OBVIOUS
<1>2. \A i \in 1..n : \E p \in Participants : sigs[i] = SignatureOf(o, p)
  OBVIOUS
<1>3. \A i \in 1..n : who[i] \in Participants /\ sigs[i] = SignatureOf(o, who[i])
  BY <1>2
<1>4. \A i \in 1..n : pubkeys[i] = AccountXpub(o, who[i])
  <2> HIDE DEF who
  <2>1. \A i \in 1..n : pubkeys[i] = sigs[i].pubkey
    BY <1>1
  <2> QED
    BY <1>3, <2>1, SignatureFields
<1>5. DOMAIN pubkeys = 1..n /\ DOMAIN who = 1..n /\ who = [i \in 1..n |-> who[i]]
  BY <1>1
<1>6. InputOrder(sigs) = [k \in DOMAIN at |-> sigs[at[k]]]
  BY Zenon DEF InputOrder
<1> HIDE DEF n, who, pubkeys
<1>7. who \in [1..n -> Nat] /\ \A i, j \in 1..n : who[i] = who[j] => i = j
  BY <1>1, <1>3, <1>5, AccessAssumption
<1>8. \A i, j \in 1..n : PubkeyBefore(pubkeys[i], pubkeys[j]) <=> who[i] < who[j]
  BY <1>4, AccountXpubs
<1>9. at \in [1..n -> 1..n] /\ \A i, j \in 1..n : i < j => who[at[i]] < who[at[j]]
  <2>1. SortedPlaces(pubkeys) \in [1..n -> 1..n]
    BY <1>1, <1>5, <1>7, <1>8, PlacesAreSorted
  <2>2. \A i, j \in 1..n : i < j => who[SortedPlaces(pubkeys)[i]] < who[SortedPlaces(pubkeys)[j]]
    BY <1>1, <1>5, <1>7, <1>8, PlacesAreSorted
  <2> QED
    BY <2>1, <2>2
<1> HIDE DEF at
<1> DEFINE by == [k \in 1..n |-> who[at[k]]]
<1>10. /\ by \in [1..n -> Participants] /\ DOMAIN by = 1..n
       /\ \A i, j \in DOMAIN by : i < j => by[i] < by[j]
       /\ \A k \in 1..n : by[k] = who[at[k]] /\ at[k] \in 1..n
  BY <1>3, <1>9
<1> HIDE DEF by
<1>11. InputOrder(sigs) = [k \in 1..n |-> SignatureOf(o, by[k])]
  BY <1>3, <1>6, <1>9, <1>10
<1> QED
  BY <1>10, <1>11 DEF n

\* Places of a sorted part in the sorted whole are in order.
LEMMA PlacesInOrder ==
  ASSUME NEW n \in Nat, NEW m \in Nat,
         NEW all \in [1..n -> Nat], \A i, j \in 1..n : i < j => all[i] < all[j],
         NEW some \in [1..m -> Nat], \A i, j \in 1..m : i < j => some[i] < some[j],
         \A i \in 1..m : \E k \in 1..n : all[k] = some[i]
  PROVE  \E at \in [1..m -> 1..n] :
           /\ \A i, j \in 1..m : i < j => at[i] < at[j]
           /\ \A i \in 1..m : all[at[i]] = some[i]
<1> DEFINE at == [i \in 1..m |-> CHOOSE k \in 1..n : all[k] = some[i]]
<1>1. at \in [1..m -> 1..n] /\ \A i \in 1..m : all[at[i]] = some[i]
  OBVIOUS
<1> HIDE DEF at
<1>2. ASSUME NEW i \in 1..m, NEW j \in 1..m, i < j PROVE at[i] < at[j]
  <2>1. some[i] < some[j] /\ at[i] \in 1..n /\ at[j] \in 1..n
        /\ all[at[i]] = some[i] /\ all[at[j]] = some[j] /\ some[i] \in Nat /\ some[j] \in Nat
    BY <1>1, <1>2
  <2>2. at[j] = at[i] => FALSE
    BY <2>1
  <2>3. at[j] < at[i] => some[j] < some[i]
    BY <2>1
  <2> QED
    BY <2>1, <2>2, <2>3
<1> QED
  BY <1>1, <1>2

\* An input with the signatures of participants, in the order of its script, is accepted.
LEMMA AssembledVerifies ==
  ASSUME RecordsInv, OwnInv, NEW address \in addresses, AssemblePartialTransaction(address)
  PROVE  Verifies(assembled') /\ assembled'.address = RedeemScriptToP2SH(assembled'.script)
<1> DEFINE o == origin
           data == heap[current]
           script == RedeemScript(data.multisig, address.index)
           sigs == InputOrder(signatures)
           last == Indexes - 1
           input == [address |-> address.base58, script |-> script,
                     keys |-> [i \in DOMAIN sigs |-> sigs[i].key]]
<1>1. /\ current # 0 /\ data.multisig # None
      /\ address.type = "legacy" /\ address.index = last
      /\ Len(signatures) = script.needs /\ assembled' = input
  BY DEF AssemblePartialTransaction, P2SHInputData
<1>2. o \in Origins
  BY DEF RecordsInv
<1>3. PICK pin \in Pins \cup {None} : OwnUnder(o, data, pin)
  BY <1>1 DEF OwnInv, AllOwn, Own
<1>4. data.multisig = MultisigData(o.multisig, AccountOf(o)) /\ o.multisig # None
  BY <1>1, <1>3 DEF OwnUnder, MultisigData
<1>5. address = LegacyOf(o, last)
  BY <1>1, AddressTypes DEF OwnInv, AddressesOK
<1>6. script = RedeemScript(MultisigData(o.multisig, AccountOf(o)), last)
  BY <1>1, <1>4
<1>7. address.base58 = RedeemScriptToP2SH(script)
  BY <1>4, <1>5, <1>6 DEF LegacyOf
<1> HIDE DEF o, script, last
<1>8. PICK all \in [1..Cardinality(Participants) -> Participants] :
        /\ \A i, j \in DOMAIN all : i < j => all[i] < all[j]
        /\ \A p \in Participants : \E i \in DOMAIN all : all[i] = p
        /\ script.keys = [i \in DOMAIN all |-> DeriveChild(AccountXpub(o, all[i]), <<0, last>>)]
  <2>1. KeysInOrder(o, last, script)
    BY <1>2, <1>4, <1>6, ScriptKeys
  <2> QED
    BY <2>1 DEF KeysInOrder
<1>9. PICK some \in [1..Len(signatures) -> Participants] :
        /\ \A i, j \in DOMAIN some : i < j => some[i] < some[j]
        /\ sigs = [k \in 1..Len(signatures) |-> SignatureOf(o, some[k])]
  <2>1. /\ signatures \in Seq({SignatureOf(o, p) : p \in Participants})
        /\ \A i, j \in DOMAIN signatures : signatures[i] = signatures[j] => i = j
    BY DEF OwnInv, SignaturesOK, o
  <2> QED
    BY <1>2, <2>1, OrderedSignatures
<1> DEFINE n == Cardinality(Participants)
           m == Len(signatures)
<1>10. n \in Nat /\ m \in Nat /\ Participants \subseteq Nat
  BY AccessAssumption, FS_CardinalityType DEF OwnInv, SignaturesOK
<1> HIDE DEF n, m, sigs
<1>11. PICK at \in [1..m -> 1..n] :
         /\ \A i, j \in 1..m : i < j => at[i] < at[j]
         /\ \A i \in 1..m : all[at[i]] = some[i]
  <2>1. /\ all \in [1..n -> Nat] /\ some \in [1..m -> Nat]
        /\ \A i, j \in 1..n : i < j => all[i] < all[j]
        /\ \A i, j \in 1..m : i < j => some[i] < some[j]
        /\ \A i \in 1..m : \E k \in 1..n : all[k] = some[i]
    BY <1>8, <1>9, <1>10 DEF n, m
  <2> QED
    BY <1>10, <2>1, PlacesInOrder
<1> DEFINE keys == [i \in DOMAIN sigs |-> sigs[i].key]
<1>12. DOMAIN sigs = 1..m /\ \A i \in 1..m : sigs[i].key = DeriveChild(AccountXpub(o, some[i]), <<0, last>>)
  BY <1>9, SignatureFields DEF m, last
<1>13. /\ DOMAIN keys = 1..m /\ Len(keys) = m
       /\ \A i \in 1..m : keys[i] = DeriveChild(AccountXpub(o, some[i]), <<0, last>>)
  <2>1. keys = [i \in 1..m |-> sigs[i].key]
    BY <1>12
  <2> HIDE DEF keys
  <2>2. DOMAIN keys = 1..m /\ \A i \in 1..m : keys[i] = sigs[i].key
    BY <2>1
  <2>3. Len(keys) = m
    BY <1>10, <2>1
  <2> QED
    BY <1>12, <2>2, <2>3
<1>14. DOMAIN script.keys = 1..n /\ \A i \in 1..m : script.keys[at[i]] = keys[i]
  <2> HIDE DEF keys
  <2>1. DOMAIN all = 1..n
    BY <1>8 DEF n
  <2>2. /\ DOMAIN script.keys = 1..n
        /\ \A k \in 1..n : script.keys[k] = DeriveChild(AccountXpub(o, all[k]), <<0, last>>)
    BY <1>8, <2>1
  <2>3. ASSUME NEW i \in 1..m PROVE script.keys[at[i]] = keys[i]
    <3>1. at[i] \in 1..n /\ all[at[i]] = some[i]
      BY <1>11
    <3>2. script.keys[at[i]] = DeriveChild(AccountXpub(o, all[at[i]]), <<0, last>>)
      BY <2>2, <3>1
    <3>3. keys[i] = DeriveChild(AccountXpub(o, some[i]), <<0, last>>)
      BY <1>13
    <3> QED
      BY <3>1, <3>2, <3>3
  <2> QED
    BY <2>2, <2>3
<1>15. input.keys = keys /\ input.script = script /\ input.address = address.base58
  OBVIOUS
<1> HIDE DEF keys, input
<1>16. Verifies(input)
  <2>1. Len(input.keys) = input.script.needs
    BY <1>1, <1>13, <1>15 DEF m
  <2>2. at \in [DOMAIN input.keys -> DOMAIN input.script.keys]
    BY <1>11, <1>13, <1>14, <1>15
  <2>3. /\ \A i, j \in DOMAIN input.keys : i < j => at[i] < at[j]
        /\ \A i \in DOMAIN input.keys : input.script.keys[at[i]] = input.keys[i]
    BY <1>11, <1>13, <1>14, <1>15
  <2> QED
    BY <2>1, <2>2, <2>3, Zenon DEF Verifies
<1> QED
  BY <1>1, <1>7, <1>15, <1>16

\* An input assembled from the signatures of enough participants is accepted, however many of
\* them there are and in whatever order they gave their signatures to
\* assemblePartialTransaction().
THEOREM MultisigAlwaysVerifies == Spec => []MultisigVerifies
<1>1. Init => MultisigVerifies
  BY DEF Init, MultisigVerifies
<1>2. RecordsInv /\ OwnInv /\ MultisigVerifies /\ [Next]_vars => MultisigVerifies'
  <2> SUFFICES ASSUME RecordsInv, OwnInv, MultisigVerifies, [Next]_vars, assembled' # None
               PROVE  /\ Verifies(assembled')
                      /\ assembled'.address = RedeemScriptToP2SH(assembled'.script)
    BY DEF MultisigVerifies
  <2>1. ASSUME NEW a \in addresses, AssemblePartialTransaction(a)
        PROVE  Verifies(assembled') /\ assembled'.address = RedeemScriptToP2SH(assembled'.script)
    BY <2>1, AssembledVerifies
  <2>2. \/ \E a \in addresses : AssemblePartialTransaction(a)
        \/ assembled' = None \/ assembled' = assembled
    BY Zenon DEF Next, Call, Start, StartRest, Reload, ReloadClean, ReloadRest, ChangePin, ChangePinRest,
                 ChangePassword, ChangePasswordRest, GetAccessData, Load, Stop, GetAllSignatures, vars
  <2> QED
    BY <2>1, <2>2 DEF MultisigVerifies
<1> QED
  BY <1>1, <1>2, InitRecords, InitOwn, NextRecords, NextOwn, PTL DEF Spec

=============================================================================
