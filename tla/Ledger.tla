------------------------------- MODULE Ledger -------------------------------
(***************************************************************************)
(* The metadata of the wallet: balances, transaction counters, utxos and   *)
(* locked utxos of src/utils/storage.ts, the utxos selected as input and   *)
(* the best height of src/storage/storage.ts.  HathorWallet shows how the  *)
(* handlers that keep them interleave; here each one is one step and the   *)
(* question is what the sequence of handlers does to the numbers.          *)
(*                                                                         *)
(* Only outputs of the wallet are modelled.  A balance is kept per output: *)
(* how many times its value is in the unlocked and in the locked balance,  *)
(* so that two errors never cancel out in a sum.                           *)
(*                                                                         *)
(* The fullnode accepts, voids and revives transactions and tells the      *)
(* wallet, over one ordered connection, of the transaction and of the ones *)
(* whose outputs it spends; a transaction the wallet pushed is also        *)
(* inserted by the sender.                                                 *)
(***************************************************************************)
EXTENDS Integers, Sequences, FiniteSets

CONSTANTS
    Txs,            \* transactions of the wallet
    Outs,           \* their outputs
    TxOf,           \* the transaction of every output
    InsOf,          \* the outputs every transaction spends
    LockOf,         \* the time and the height that unlock an output, or 0
    MaxTime,        \* the clock goes up to this value
    MaxHeight,      \* the height of the fullnode goes up to this value
    MaxEvents,      \* transactions the fullnode accepts, voids or revives
    MaxReloads,     \* connections after the first one
    Calm            \* the connection drops when nothing is on its way, and
                    \* nothing happens to a transaction before its sender saved it

ASSUME LedgerAssumption ==
    /\ IsFiniteSet(Txs)
    /\ TxOf \in [Outs -> Txs]
    /\ InsOf \in [Txs -> SUBSET Outs]
    /\ LockOf \in [Outs -> [time : Nat, height : Nat]]
    /\ {MaxTime, MaxHeight, MaxEvents, MaxReloads} \subseteq Nat
    /\ Calm \in BOOLEAN

VARIABLES
    \* the fullnode, the connection and the clock
    status,         \* of every transaction
    bestHeight, time,
    wire,           \* messages on their way
    \* the wallet
    history,        \* the transactions saved
    unlocked, locked, numTransactions,
    utxos, lockedUtxos,
    utxosSelectedAsInput,
    currentHeight,  \* bestBlockHeight of the storage, 0 when unknown
    \* the transactions the wallet sends
    sending,        \* their inputs are selected and the push is on its way
    pushed,         \* accepted and not inserted by the sender yet
    \* bounds
    events, reloads

network == <<status, bestHeight, time, wire>>
metadata == <<unlocked, locked, numTransactions, utxos, lockedUtxos>>
vars == <<network, history, metadata, utxosSelectedAsInput, currentHeight, sending,
          pushed, events, reloads>>

-----------------------------------------------------------------------------
(* Data *)

Statuses == {"absent", "valid", "voided"}

OutsOf(t) == {o \in Outs : TxOf[o] = t}
Parents(t) == {TxOf[o] : o \in InsOf[t]}

\* What the storage keeps of a transaction: is_voided and the outputs with spent_by.
Record == [voided : BOOLEAN, spent : SUBSET Outs]
NoTx == [voided |-> TRUE, spent |-> Outs]       \* not saved
TxMessage == [type : {"tx"}, tx : Txs, record : Record]
DashboardMessage == [type : {"dashboard"}, height : Nat]

Saved(h, t) == h[t] # NoTx
SavedValid(h) == {t \in Txs : Saved(h, t) /\ ~h[t].voided}
Spenders(h, o) == {t \in SavedValid(h) : o \in InsOf[t]}

\* The fullnode stamps spent_by with the valid transaction that spends the output.
SpentAt(s, o) == \E t \in Txs : s[t] = "valid" /\ o \in InsOf[t]
RecordAt(s, t) == [voided |-> s[t] = "voided",
                   spent |-> {o \in OutsOf(t) : SpentAt(s, o)}]
MessageAt(s, t) == [type |-> "tx", tx |-> t, record |-> RecordAt(s, t)]

\* isOutputLocked() or isHeightLocked(), which knows nothing at height 0.
IsLocked(o, height) ==
    \/ time < LockOf[o].time
    \/ height # 0 /\ LockOf[o].height # 0 /\ height < LockOf[o].height

Init ==
    /\ status = [t \in Txs |-> "absent"]
    /\ bestHeight = 1
    /\ time = 0
    /\ wire = <<>>
    /\ history = [t \in Txs |-> NoTx]
    /\ unlocked = [o \in Outs |-> 0]
    /\ locked = [o \in Outs |-> 0]
    /\ numTransactions = [t \in Txs |-> 0]
    /\ utxos = {}
    /\ lockedUtxos = {}
    /\ utxosSelectedAsInput = {}
    /\ currentHeight = 0
    /\ sending = {}
    /\ pushed = {}
    /\ events = 0
    /\ reloads = 0

-----------------------------------------------------------------------------
(* The metadata *)

One(condition) == IF condition THEN 1 ELSE 0

\* processNewTx() of a transaction that is not voided, and the deletion of the
\* utxos it spends in processSingleTx().
ProcessNewTx(t, record) ==
    LET created == OutsOf(t)
        held == {o \in created : IsLocked(o, currentHeight)}
        unspent == created \ record.spent
        known == {o \in InsOf[t] : Saved(history', TxOf[o])}
    IN  /\ unlocked' = [o \in Outs |-> unlocked[o] + One(o \in created \ held)
                                                   - One(o \in InsOf[t])]
        /\ locked' = [o \in Outs |-> locked[o] + One(o \in held)]
        /\ numTransactions' = [numTransactions EXCEPT ![t] = @ + 1]
        /\ utxos' = (utxos \cup unspent) \ known
        /\ lockedUtxos' = lockedUtxos \cup (held \cap unspent)
        /\ utxosSelectedAsInput' = utxosSelectedAsInput \ (created \cap record.spent)

\* Faulty: the walk credits the outputs and debits no input.
ProcessHistoryCredits(h) ==
    LET created == {o \in Outs : TxOf[o] \in SavedValid(h)}
        held == {o \in created : IsLocked(o, currentHeight)}
        unspent == {o \in created : o \notin h[TxOf[o]].spent}
    IN  /\ unlocked' = [o \in Outs |-> One(o \in created \ held)]
        /\ locked' = [o \in Outs |-> One(o \in held)]
        /\ numTransactions' = [t \in Txs |-> One(t \in SavedValid(h))]
        /\ utxos' = unspent
        /\ lockedUtxos' = held \cap unspent
        /\ utxosSelectedAsInput' = utxosSelectedAsInput \ (created \ unspent)

\* processHistory(): the metadata is cleaned and every transaction of the history
\* h that is not voided is processed; the utxos it spends are not deleted.
ProcessHistory(h) ==
    LET created == {o \in Outs : TxOf[o] \in SavedValid(h)}
        held == {o \in created : IsLocked(o, currentHeight)}
        unspent == {o \in created : o \notin h[TxOf[o]].spent}
    IN  /\ unlocked' = [o \in Outs |-> One(o \in created \ held)
                                       - Cardinality(Spenders(h, o))]
        /\ locked' = [o \in Outs |-> One(o \in held)]
        /\ numTransactions' = [t \in Txs |-> One(t \in SavedValid(h))]
        /\ utxos' = unspent
        /\ lockedUtxos' = held \cap unspent
        /\ utxosSelectedAsInput' = utxosSelectedAsInput \ (created \ unspent)

\* processMetadataChanged(): an unspent output is saved again, a spent one is not
\* selected any more.
ProcessMetadataChanged(t, record) ==
    /\ utxos' = utxos \cup (OutsOf(t) \ record.spent)
    /\ utxosSelectedAsInput' = utxosSelectedAsInput \ (OutsOf(t) \cap record.spent)
    /\ UNCHANGED <<unlocked, locked, numTransactions, lockedUtxos>>

\* Faulty: a known transaction is processed as a new one.
OnNewTxAgain(t, record) ==
    /\ history' = [history EXCEPT ![t] = record]
    /\ IF record.voided
       THEN IF Saved(history, t) /\ ~history[t].voided
            THEN ProcessHistory(history')
            ELSE UNCHANGED <<metadata, utxosSelectedAsInput>>
       ELSE ProcessNewTx(t, record)

\* Faulty: a changed voided flag is one more metadata update.
OnNewTxFlips(t, record) ==
    /\ history' = [history EXCEPT ![t] = record]
    /\ IF ~Saved(history, t)
       THEN IF record.voided THEN UNCHANGED <<metadata, utxosSelectedAsInput>>
                             ELSE ProcessNewTx(t, record)
       ELSE ProcessMetadataChanged(t, record)

\* Faulty: a transaction that arrives voided spends its inputs.
OnNewTxVoidedSpends(t, record) ==
    /\ history' = [history EXCEPT ![t] = record]
    /\ IF ~Saved(history, t)
       THEN IF record.voided
            THEN /\ utxos' = utxos \ InsOf[t]
                 /\ UNCHANGED <<unlocked, locked, numTransactions, lockedUtxos,
                                utxosSelectedAsInput>>
            ELSE ProcessNewTx(t, record)
       ELSE IF history[t].voided # record.voided
       THEN ProcessHistory(history')
       ELSE IF record.voided THEN UNCHANGED <<metadata, utxosSelectedAsInput>>
                             ELSE ProcessMetadataChanged(t, record)

\* onNewTx() of src/new/wallet.ts
OnNewTx(t, record) ==
    /\ history' = [history EXCEPT ![t] = record]
    /\ IF ~Saved(history, t)
       THEN IF record.voided THEN UNCHANGED <<metadata, utxosSelectedAsInput>>
                             ELSE ProcessNewTx(t, record)
       ELSE IF history[t].voided # record.voided
       THEN ProcessHistory(history')
       ELSE IF record.voided THEN UNCHANGED <<metadata, utxosSelectedAsInput>>
                             ELSE ProcessMetadataChanged(t, record)

\* processLockedUtxos(): the outputs that are not locked any more.
UnlockUtxos(height) ==
    LET ready == {o \in lockedUtxos : ~IsLocked(o, height)}
    IN  /\ unlocked' = [o \in Outs |-> unlocked[o] + One(o \in ready)]
        /\ locked' = [o \in Outs |-> locked[o] - One(o \in ready)]
        /\ lockedUtxos' = lockedUtxos \ ready
        /\ UNCHANGED <<numTransactions, utxos>>

-----------------------------------------------------------------------------
(* The handlers of the wallet *)

\* A websocket message with a transaction.
ReceiveTx ==
    /\ wire # <<>>
    /\ Head(wire).type = "tx"
    /\ wire' = Tail(wire)
    /\ OnNewTx(Head(wire).tx, Head(wire).record)
    /\ UNCHANGED <<status, bestHeight, time, currentHeight, sending, pushed, events,
                   reloads>>

\* A `dashboard' message: handleWsDashboard().
ReceiveDashboard ==
    /\ wire # <<>>
    /\ Head(wire).type = "dashboard"
    /\ wire' = Tail(wire)
    /\ IF Head(wire).height = currentHeight
       THEN UNCHANGED <<metadata, currentHeight>>
       ELSE /\ currentHeight' = Head(wire).height
            /\ UnlockUtxos(Head(wire).height)
    /\ UNCHANGED <<status, bestHeight, time, history, utxosSelectedAsInput, sending,
                   pushed, events, reloads>>

\* A reconnection: reloadStorage() and processHistory() over what the fullnode has.
\* The selected utxos and the best height stay.
Reload ==
    /\ reloads < MaxReloads
    /\ Calm => wire = <<>> /\ pushed = {}
    /\ reloads' = reloads + 1
    /\ wire' = <<>>
    /\ history' = [t \in Txs |-> IF status[t] = "absent" THEN NoTx ELSE RecordAt(status, t)]
    /\ ProcessHistory(history')
    /\ UNCHANGED <<status, bestHeight, time, currentHeight, sending, pushed, events>>

\* mineTx(): the inputs of a transaction of ours are selected.
SelectInputs(t) ==
    /\ status[t] = "absent"
    /\ t \notin sending
    /\ InsOf[t] # {}
    /\ InsOf[t] \subseteq {o \in utxos : ~IsLocked(o, currentHeight)} \ utxosSelectedAsInput
    /\ sending' = sending \cup {t}
    /\ utxosSelectedAsInput' = utxosSelectedAsInput \cup
            {o \in InsOf[t] : Saved(history, TxOf[o]) /\ o \notin history[TxOf[o]].spent}
    /\ UNCHANGED <<network, history, metadata, currentHeight, pushed, events, reloads>>

\* handlePushTx() is answered with success: the sender inserts the transaction with
\* no output spent, whatever has come over the connection meanwhile.
SenderInserts(t) ==
    /\ t \in pushed
    /\ pushed' = pushed \ {t}
    /\ OnNewTx(t, [voided |-> FALSE, spent |-> {}])
    /\ UNCHANGED <<network, currentHeight, sending, events, reloads>>

\* The selection of an output times out after SELECT_OUTPUTS_TIMEOUT.
SelectionExpires(o) ==
    /\ o \in utxosSelectedAsInput
    /\ utxosSelectedAsInput' = utxosSelectedAsInput \ {o}
    /\ UNCHANGED <<network, history, metadata, currentHeight, sending, pushed, events,
                   reloads>>

-----------------------------------------------------------------------------
(* The fullnode *)

\* The inputs of t can be spent: their transactions are valid, they are not spent
\* by another one, and they are not locked for the fullnode.
Spendable(t) ==
    \A o \in InsOf[t] : /\ status[TxOf[o]] = "valid"
                        /\ ~SpentAt(status, o)
                        /\ ~IsLocked(o, bestHeight)

\* The sequences that hold every member of S once.
Orders(S) ==
    {f \in [1..Cardinality(S) -> S] : \A x \in S : \E i \in DOMAIN f : f[i] = x}

\* The status of t changes; the wallet is told of t and of its parents, in any order.
Changes(t, s) ==
    /\ events < MaxEvents
    /\ events' = events + 1
    /\ status' = [status EXCEPT ![t] = s]
    /\ \E order \in Orders({t} \cup Parents(t)) :
          wire' = wire \o [i \in DOMAIN order |-> MessageAt(status', order[i])]
    /\ UNCHANGED <<bestHeight, time, history, metadata, currentHeight, reloads>>

\* A transaction arrives, from this wallet or from another device.
Accept(t) ==
    /\ status[t] = "absent"
    /\ Spendable(t)
    /\ Changes(t, "valid")
    /\ sending' = sending \ {t}
    /\ pushed' = IF t \in sending THEN pushed \cup {t} ELSE pushed
    /\ UNCHANGED utxosSelectedAsInput

\* A transaction of another device arrives although an input of it is spent.
AcceptConflict(t) ==
    /\ status[t] = "absent"
    /\ t \notin sending
    /\ \A o \in InsOf[t] : status[TxOf[o]] = "valid" /\ ~IsLocked(o, bestHeight)
    /\ \E o \in InsOf[t] : SpentAt(status, o)
    /\ Changes(t, "voided")
    /\ UNCHANGED <<utxosSelectedAsInput, sending, pushed>>

\* The push of a transaction of ours fails: its inputs are released.
Reject(t) ==
    /\ t \in sending
    /\ sending' = sending \ {t}
    /\ utxosSelectedAsInput' =
            utxosSelectedAsInput \ {o \in InsOf[t] : Saved(history, TxOf[o])}
    /\ UNCHANGED <<network, history, metadata, currentHeight, pushed, events, reloads>>

Void(t) ==
    /\ status[t] = "valid"
    /\ \A o \in OutsOf(t) : ~SpentAt(status, o)
    /\ Calm => t \notin pushed
    /\ Changes(t, "voided")
    /\ UNCHANGED <<utxosSelectedAsInput, sending, pushed>>

Revive(t) ==
    /\ status[t] = "voided"
    /\ Spendable(t)
    /\ Changes(t, "valid")
    /\ UNCHANGED <<utxosSelectedAsInput, sending, pushed>>

\* A block: the height goes up and the dashboard tells.
NewBlock ==
    /\ bestHeight < MaxHeight
    /\ bestHeight' = bestHeight + 1
    /\ wire' = Append(wire, [type |-> "dashboard", height |-> bestHeight + 1])
    /\ UNCHANGED <<status, time, history, metadata, utxosSelectedAsInput, currentHeight,
                   sending, pushed, events, reloads>>

Tick ==
    /\ time < MaxTime
    /\ time' = time + 1
    /\ UNCHANGED <<status, bestHeight, wire, history, metadata, utxosSelectedAsInput,
                   currentHeight, sending, pushed, events, reloads>>

-----------------------------------------------------------------------------

WalletStep ==
    \/ ReceiveTx \/ ReceiveDashboard \/ Reload
    \/ \E t \in Txs : SelectInputs(t) \/ SenderInserts(t)
    \/ \E o \in Outs : SelectionExpires(o)

NetworkStep ==
    \/ \E t \in Txs : \/ Accept(t) \/ AcceptConflict(t) \/ Reject(t)
                      \/ Void(t) \/ Revive(t)
    \/ NewBlock \/ Tick

Next == WalletStep \/ NetworkStep

Spec == Init /\ [][Next]_vars

-----------------------------------------------------------------------------
(* Properties *)

TypeOK ==
    /\ status \in [Txs -> Statuses]
    /\ {bestHeight, time, currentHeight, events, reloads} \subseteq Nat
    /\ wire \in Seq(TxMessage \cup DashboardMessage)
    /\ history \in [Txs -> Record]
    /\ unlocked \in [Outs -> Int] /\ locked \in [Outs -> Int]
    /\ numTransactions \in [Txs -> Nat]
    /\ utxos \subseteq Outs /\ lockedUtxos \subseteq Outs
    /\ utxosSelectedAsInput \subseteq Outs
    /\ sending \subseteq Txs /\ pushed \subseteq Txs

\* The balance and the counters are what processing the saved history from nothing
\* gives, in every state: the transactions processed one at a time, the voided ones
\* and the ones revived add up to the same numbers as a full processHistory().
CountsTheHistory ==
    /\ \A o \in Outs : unlocked[o] + locked[o] =
            One(TxOf[o] \in SavedValid(history)) - Cardinality(Spenders(history, o))
    /\ \A t \in Txs : numTransactions[t] = One(t \in SavedValid(history))

\* No utxo of a transaction that is voided or not saved is offered.
NoVoidedUtxo == \A o \in utxos : TxOf[o] \in SavedValid(history)

\* Nothing is on its way to the wallet.
AtRest == wire = <<>> /\ pushed = {}

Unspent == {o \in Outs : status[TxOf[o]] = "valid" /\ ~SpentAt(status, o)}

\* When everything has arrived the balance is the value of the unspent outputs, and what
\* is locked of it is indexed as a locked utxo, so that a later height unlocks it.
BalanceIsCorrect ==
    AtRest => \A o \in Outs : /\ unlocked[o] + locked[o] = One(o \in Unspent)
                              /\ locked[o] = One(o \in lockedUtxos)

\* When everything has arrived no unspent output is missing from the utxos.
NoUtxoLost == AtRest => Unspent \subseteq utxos
=============================================================================
