---------------------------- MODULE LedgerProofs ----------------------------
(***************************************************************************)
(* Proofs about the metadata of the wallet, for any set of transactions,   *)
(* any locks and any bounds.  Calm or not: processing the transactions one *)
(* at a time leaves what processing the whole history leaves, and no utxo  *)
(* of a voided transaction is offered.  Over a calm connection: once the   *)
(* wallet has heard everything its balance is the right one, and no output *)
(* that can be spent is lost.                                              *)
(***************************************************************************)
EXTENDS Ledger, FiniteSetTheorems, TLAPS

-----------------------------------------------------------------------------
(* Data *)

LEMMA OneType == \A p \in BOOLEAN : One(p) \in {0, 1}
  BY DEF One

LEMMA SpendersAreFinite ==
  ASSUME NEW h, NEW o
  PROVE  IsFiniteSet(Spenders(h, o)) /\ Cardinality(Spenders(h, o)) \in Nat
<1>1. IsFiniteSet(Txs)
  BY LedgerAssumption
<1>2. Spenders(h, o) \subseteq Txs
  BY DEF Spenders, SavedValid
<1>3. IsFiniteSet(Spenders(h, o))
  BY <1>1, <1>2, FS_Subset
<1> QED
  BY <1>3, FS_CardinalityType

\* The transactions that count, after one of them is saved.
LEMMA NewTxCounts ==
  ASSUME NEW h \in [Txs -> Record], NEW t \in Txs, NEW record \in Record,
         ~Saved(h, t), ~record.voided
  PROVE  LET h2 == [h EXCEPT ![t] = record]
         IN  /\ t \notin SavedValid(h)
             /\ SavedValid(h2) = SavedValid(h) \cup {t}
<1> DEFINE h2 == [h EXCEPT ![t] = record]
<1>1. h2[t] = record /\ \A x \in Txs \ {t} : h2[x] = h[x]
  OBVIOUS
<1>2. record # NoTx
  BY DEF NoTx
<1>3. t \notin SavedValid(h)
  BY DEF SavedValid
<1>4. SavedValid(h2) = SavedValid(h) \cup {t}
  BY <1>1, <1>2 DEF SavedValid, Saved
<1> QED
  BY <1>3, <1>4

LEMMA KnownTxCounts ==
  ASSUME NEW h \in [Txs -> Record], NEW t \in Txs, NEW record \in Record,
         \/ ~Saved(h, t) /\ record.voided
         \/ Saved(h, t) /\ h[t].voided = record.voided
  PROVE  SavedValid([h EXCEPT ![t] = record]) = SavedValid(h)
<1> DEFINE h2 == [h EXCEPT ![t] = record]
<1>1. h2[t] = record /\ \A x \in Txs \ {t} : h2[x] = h[x]
  OBVIOUS
<1>2. t \in SavedValid(h2) <=> ~record.voided
  BY <1>1 DEF SavedValid, Saved, NoTx
<1>3. t \in SavedValid(h) <=> ~record.voided
  BY DEF SavedValid, Saved, NoTx
<1>4. \A x \in Txs \ {t} : x \in SavedValid(h2) <=> x \in SavedValid(h)
  BY <1>1 DEF SavedValid, Saved
<1>5. SavedValid(h2) \subseteq Txs /\ SavedValid(h) \subseteq Txs
  BY DEF SavedValid
<1>6. \A x : x \in SavedValid(h2) <=> x \in SavedValid(h)
  BY <1>2, <1>3, <1>4, <1>5
<1> QED
  BY <1>6

\* One more spender of each of its inputs.
LEMMA NewTxSpends ==
  ASSUME NEW h, NEW h2, NEW t \in Txs, NEW o \in Outs,
         t \notin SavedValid(h), SavedValid(h2) = SavedValid(h) \cup {t}
  PROVE  Cardinality(Spenders(h2, o)) = Cardinality(Spenders(h, o)) + One(o \in InsOf[t])
<1>1. t \notin Spenders(h, o)
  BY DEF Spenders
<1>2. IsFiniteSet(Spenders(h, o)) /\ Cardinality(Spenders(h, o)) \in Nat
  BY SpendersAreFinite
<1>3. CASE o \in InsOf[t]
  <2>1. Spenders(h2, o) = Spenders(h, o) \cup {t}
    BY <1>3 DEF Spenders
  <2>2. Cardinality(Spenders(h2, o)) = Cardinality(Spenders(h, o)) + 1
    BY <1>1, <1>2, <2>1, FS_AddElement
  <2> QED
    BY <1>3, <2>2 DEF One
<1>4. CASE o \notin InsOf[t]
  <2>1. Spenders(h2, o) = Spenders(h, o)
    BY <1>4 DEF Spenders
  <2> QED
    BY <1>2, <1>4, <2>1 DEF One
<1> QED
  BY <1>3, <1>4

-----------------------------------------------------------------------------
(* Types *)

\* Where the metadata of the wallet live.
MetadataOK ==
  /\ unlocked \in [Outs -> Int] /\ locked \in [Outs -> Int]
  /\ numTransactions \in [Txs -> Nat]
  /\ utxos \subseteq Outs /\ lockedUtxos \subseteq Outs
  /\ utxosSelectedAsInput \subseteq Outs

LEMMA DataTypes ==
  /\ IsFiniteSet(Txs)
  /\ TxOf \in [Outs -> Txs]
  /\ InsOf \in [Txs -> SUBSET Outs]
  /\ \A t : OutsOf(t) \subseteq Outs
  /\ \A s, t : RecordAt(s, t) \in Record
  /\ NoTx \in Record
<1>1. \A t : OutsOf(t) \subseteq Outs
  BY DEF OutsOf
<1>2. \A s, t : RecordAt(s, t) \in Record
  BY <1>1 DEF RecordAt, Record
<1>3. NoTx \in Record
  BY DEF NoTx, Record
<1> QED
  BY <1>1, <1>2, <1>3, LedgerAssumption

LEMMA ProcessHistoryType ==
  ASSUME MetadataOK, NEW h, ProcessHistory(h)
  PROVE  MetadataOK'
<1>1. \A o : Cardinality(Spenders(h, o)) \in Nat
  BY SpendersAreFinite
<1>2. unlocked' \in [Outs -> Int] /\ locked' \in [Outs -> Int]
  BY <1>1 DEF ProcessHistory, One
<1>3. numTransactions' \in [Txs -> Nat]
  BY DEF ProcessHistory, One
<1>4. utxos' \subseteq Outs /\ lockedUtxos' \subseteq Outs /\ utxosSelectedAsInput' \subseteq Outs
  BY DEF ProcessHistory, MetadataOK
<1> QED
  BY <1>2, <1>3, <1>4 DEF MetadataOK

LEMMA ProcessNewTxType ==
  ASSUME MetadataOK, NEW t \in Txs, NEW record \in Record, ProcessNewTx(t, record)
  PROVE  MetadataOK'
<1>1. unlocked' \in [Outs -> Int] /\ locked' \in [Outs -> Int]
  BY DEF ProcessNewTx, One, MetadataOK
<1>2. numTransactions' \in [Txs -> Nat]
  BY DEF ProcessNewTx, MetadataOK
<1>3. utxos' \subseteq Outs /\ lockedUtxos' \subseteq Outs /\ utxosSelectedAsInput' \subseteq Outs
  BY DataTypes DEF ProcessNewTx, MetadataOK
<1> QED
  BY <1>1, <1>2, <1>3 DEF MetadataOK

LEMMA OnNewTxType ==
  ASSUME MetadataOK, history \in [Txs -> Record],
         NEW t \in Txs, NEW record \in Record, OnNewTx(t, record)
  PROVE  MetadataOK' /\ history' \in [Txs -> Record]
<1>1. history' \in [Txs -> Record]
  BY DEF OnNewTx
<1>2. \/ UNCHANGED <<metadata, utxosSelectedAsInput>>
      \/ ProcessNewTx(t, record)
      \/ ProcessHistory(history')
      \/ ProcessMetadataChanged(t, record)
  BY DEF OnNewTx
<1>3. ASSUME UNCHANGED <<metadata, utxosSelectedAsInput>> PROVE MetadataOK'
  BY <1>3 DEF MetadataOK, metadata
<1>4. ASSUME ProcessMetadataChanged(t, record) PROVE MetadataOK'
  BY <1>4, DataTypes DEF MetadataOK, ProcessMetadataChanged
<1> QED
  BY <1>1, <1>2, <1>3, <1>4, ProcessNewTxType, ProcessHistoryType

LEMMA UnlockUtxosType ==
  ASSUME MetadataOK, NEW height, UnlockUtxos(height), UNCHANGED utxosSelectedAsInput
  PROVE  MetadataOK'
  BY DEF MetadataOK, UnlockUtxos, One

\* What a change of the fullnode sends.
LEMMA ChangesType ==
  ASSUME wire \in Seq(TxMessage \cup DashboardMessage), events \in Nat,
         status \in [Txs -> Statuses],
         NEW t \in Txs, NEW s \in Statuses, Changes(t, s)
  PROVE  /\ wire' \in Seq(TxMessage \cup DashboardMessage)
         /\ status' \in [Txs -> Statuses]
         /\ events' \in Nat
<1> DEFINE S == {t} \cup Parents(t)
           Told(order) == [i \in DOMAIN order |-> MessageAt(status', order[i])]
<1>1. S \subseteq Txs
  <2>1. \A o \in InsOf[t] : TxOf[o] \in Txs
    BY DataTypes
  <2> QED
    BY <2>1 DEF Parents
<1>2. Cardinality(S) \in Nat
  BY <1>1, DataTypes, FS_Subset, FS_CardinalityType
<1>3. \A x \in Txs : MessageAt(status', x) \in TxMessage
  BY DataTypes DEF MessageAt, TxMessage
<1>4. PICK order \in Orders(S) : wire' = wire \o Told(order)
  BY DEF Changes
<1>5. order \in [1..Cardinality(S) -> S]
  BY <1>4 DEF Orders
<1>6. Told(order) \in Seq(TxMessage \cup DashboardMessage)
  <2> DEFINE n == Cardinality(S)
             told == Told(order)
  <2>1. DOMAIN order = 1..n
    BY <1>5
  <2>2. \A i \in 1..n : MessageAt(status', order[i]) \in TxMessage
    BY <1>1, <1>3, <1>5
  <2>3. told \in [1..n -> TxMessage \cup DashboardMessage]
    BY <2>1, <2>2
  <2>4. n \in Nat
    BY <1>2
  <2> HIDE DEF n, told
  <2>5. told \in Seq(TxMessage \cup DashboardMessage)
    BY <2>3, <2>4
  <2> QED
    BY <2>5 DEF told
<1>7. wire' \in Seq(TxMessage \cup DashboardMessage)
  BY <1>4, <1>6
<1> QED
  BY <1>7 DEF Changes

LEMMA TypeInductive == TypeOK /\ [Next]_vars => TypeOK'
<1> SUFFICES ASSUME TypeOK, [Next]_vars PROVE TypeOK'
  OBVIOUS
<1> DEFINE Rest == /\ status \in [Txs -> Statuses]
                   /\ {bestHeight, time, currentHeight, events, reloads} \subseteq Nat
                   /\ wire \in Seq(TxMessage \cup DashboardMessage)
                   /\ sending \subseteq Txs /\ pushed \subseteq Txs
<1>0. /\ Rest /\ MetadataOK /\ history \in [Txs -> Record]
      /\ (Rest /\ MetadataOK /\ history \in [Txs -> Record])' => TypeOK'
  BY DEF TypeOK, MetadataOK
<1> HIDE DEF Rest
<1>1. CASE ReceiveTx
  <2>1. Head(wire) \in TxMessage /\ wire' \in Seq(TxMessage \cup DashboardMessage)
    <3>1. Head(wire) \in TxMessage \cup DashboardMessage
      BY <1>0, <1>1 DEF ReceiveTx, Rest
    <3> QED
      BY <3>1, <1>0, <1>1 DEF ReceiveTx, Rest, TxMessage, DashboardMessage
  <2>2. Head(wire).tx \in Txs /\ Head(wire).record \in Record
    BY <2>1 DEF TxMessage
  <2>3. MetadataOK' /\ history' \in [Txs -> Record]
    BY <1>0, <1>1, <2>2, OnNewTxType DEF ReceiveTx
  <2> QED
    BY <1>0, <1>1, <2>1, <2>3 DEF ReceiveTx, Rest
<1>2. CASE ReceiveDashboard
  <2>1. Head(wire).height \in Nat /\ wire' \in Seq(TxMessage \cup DashboardMessage)
    <3>1. Head(wire) \in TxMessage \cup DashboardMessage
      BY <1>0, <1>2 DEF ReceiveDashboard, Rest
    <3> QED
      BY <3>1, <1>0, <1>2 DEF ReceiveDashboard, Rest, TxMessage, DashboardMessage
  <2>2. MetadataOK'
    <3>1. CASE Head(wire).height = currentHeight
      BY <3>1, <1>0, <1>2 DEF ReceiveDashboard, MetadataOK, metadata
    <3>2. CASE Head(wire).height # currentHeight
      BY <3>2, <1>0, <1>2, UnlockUtxosType DEF ReceiveDashboard
    <3> QED
      BY <3>1, <3>2
  <2>3. currentHeight' \in Nat
    BY <2>1, <1>0, <1>2 DEF ReceiveDashboard, Rest
  <2> QED
    BY <1>0, <1>2, <2>1, <2>2, <2>3 DEF ReceiveDashboard, Rest
<1>3. CASE Reload
  <2>1. history' \in [Txs -> Record]
    BY <1>3, DataTypes DEF Reload
  <2>2. MetadataOK'
    BY <1>0, <1>3, ProcessHistoryType DEF Reload
  <2>3. wire' \in Seq(TxMessage \cup DashboardMessage)
    BY <1>3 DEF Reload
  <2> QED
    BY <1>0, <1>3, <2>1, <2>2, <2>3 DEF Reload, Rest
<1>4. ASSUME NEW t \in Txs, SelectInputs(t) PROVE TypeOK'
  <2>1. InsOf[t] \subseteq Outs
    BY DataTypes
  <2> QED
    BY <1>0, <1>4, <2>1 DEF SelectInputs, Rest, MetadataOK, network, metadata
<1>5. ASSUME NEW t \in Txs, SenderInserts(t) PROVE TypeOK'
  <2>1. [voided |-> FALSE, spent |-> {}] \in Record
    BY DEF Record
  <2>2. MetadataOK' /\ history' \in [Txs -> Record]
    BY <1>0, <1>5, <2>1, OnNewTxType DEF SenderInserts
  <2> QED
    BY <1>0, <1>5, <2>2 DEF SenderInserts, Rest, network
<1>6. ASSUME NEW o \in Outs, SelectionExpires(o) PROVE TypeOK'
  BY <1>0, <1>6 DEF SelectionExpires, Rest, MetadataOK, network, metadata
<1>7. ASSUME NEW t \in Txs, Accept(t) PROVE TypeOK'
  <2>1. /\ wire' \in Seq(TxMessage \cup DashboardMessage)
        /\ status' \in [Txs -> Statuses] /\ events' \in Nat
    BY <1>0, <1>7, ChangesType DEF Accept, Rest, Statuses
  <2> QED
    BY <1>0, <1>7, <2>1 DEF Accept, Changes, Rest, MetadataOK, metadata
<1>8. ASSUME NEW t \in Txs, AcceptConflict(t) \/ Void(t) \/ Revive(t) PROVE TypeOK'
  <2>1. PICK s \in Statuses : Changes(t, s)
    BY <1>8 DEF AcceptConflict, Void, Revive, Statuses
  <2>2. /\ wire' \in Seq(TxMessage \cup DashboardMessage)
        /\ status' \in [Txs -> Statuses] /\ events' \in Nat
    BY <1>0, <2>1, ChangesType DEF Rest
  <2>3. UNCHANGED <<utxosSelectedAsInput, sending, pushed>>
    BY <1>8 DEF AcceptConflict, Void, Revive
  <2> QED
    BY <1>0, <2>1, <2>2, <2>3 DEF Changes, Rest, MetadataOK, metadata
<1>9. ASSUME NEW t \in Txs, Reject(t) PROVE TypeOK'
  BY <1>0, <1>9 DEF Reject, Rest, MetadataOK, network, metadata
<1>10. CASE NewBlock
  <2>1. [type |-> "dashboard", height |-> bestHeight + 1] \in DashboardMessage
    BY <1>0 DEF DashboardMessage, Rest
  <2>2. wire' \in Seq(TxMessage \cup DashboardMessage)
    BY <1>0, <1>10, <2>1 DEF NewBlock, Rest
  <2> QED
    BY <1>0, <1>10, <2>2 DEF NewBlock, Rest, MetadataOK, metadata
<1>11. CASE Tick
  BY <1>0, <1>11 DEF Tick, Rest, MetadataOK, metadata
<1>12. CASE UNCHANGED vars
  BY <1>0, <1>12 DEF vars, Rest, MetadataOK, network, metadata
<1> QED
  BY <1>1, <1>2, <1>3, <1>4, <1>5, <1>6, <1>7, <1>8, <1>9, <1>10, <1>11, <1>12
  DEF Next, WalletStep, NetworkStep

LEMMA TypeInitially == Init => TypeOK
  BY DataTypes DEF Init, TypeOK, Statuses

\* Every variable of the wallet and of its network keeps its type: no handler leaves
\* a counter below zero or indexes an output that does not exist.
THEOREM TypeCorrect == Spec => []TypeOK
<1> QED
  BY TypeInitially, TypeInductive, PTL DEF Spec

-----------------------------------------------------------------------------
(* The metadata are those of the saved history *)

\* What CountsTheHistory says, of the history h and of numbers yet to be stored.
Counts(h, u, l, n) ==
  /\ \A o \in Outs : u[o] + l[o] =
          One(TxOf[o] \in SavedValid(h)) - Cardinality(Spenders(h, o))
  /\ \A t \in Txs : n[t] = One(t \in SavedValid(h))

Offered(h, set) == \A o \in set : TxOf[o] \in SavedValid(h)

\* Replaying the history gives its numbers, whatever they were.
LEMMA ReplayCounts ==
  ASSUME NEW h, ProcessHistory(h)
  PROVE  Counts(h, unlocked', locked', numTransactions') /\ Offered(h, utxos')
<1> DEFINE created == {o \in Outs : TxOf[o] \in SavedValid(h)}
           held == {o \in created : IsLocked(o, currentHeight)}
<1>1. ASSUME NEW o \in Outs
      PROVE  unlocked'[o] + locked'[o] =
               One(TxOf[o] \in SavedValid(h)) - Cardinality(Spenders(h, o))
  <2>1. unlocked'[o] = One(o \in created \ held) - Cardinality(Spenders(h, o))
    BY DEF ProcessHistory
  <2>2. locked'[o] = One(o \in held)
    BY DEF ProcessHistory
  <2>3. One(o \in created \ held) + One(o \in held) = One(TxOf[o] \in SavedValid(h))
    BY DEF One
  <2>4. Cardinality(Spenders(h, o)) \in Nat
    BY SpendersAreFinite
  <2>5. /\ One(o \in created \ held) \in Nat
        /\ One(o \in held) \in Nat
        /\ One(TxOf[o] \in SavedValid(h)) \in Nat
    BY DEF One
  <2> HIDE DEF created, held
  <2> QED
    BY <2>1, <2>2, <2>3, <2>4, <2>5
<1>2. \A t \in Txs : numTransactions'[t] = One(t \in SavedValid(h))
  BY DEF ProcessHistory
<1>3. Offered(h, utxos')
  BY DEF ProcessHistory, Offered
<1> QED
  BY <1>1, <1>2, <1>3 DEF Counts

\* A new transaction adds to the numbers what a replay would give it.
LEMMA NewTxKeepsCounts ==
  ASSUME MetadataOK, NEW h, NEW h2, NEW t \in Txs, NEW record \in Record,
         Counts(h, unlocked, locked, numTransactions), Offered(h, utxos),
         t \notin SavedValid(h), SavedValid(h2) = SavedValid(h) \cup {t},
         ProcessNewTx(t, record)
  PROVE  Counts(h2, unlocked', locked', numTransactions') /\ Offered(h2, utxos')
<1> DEFINE created == OutsOf(t)
           held == {o \in created : IsLocked(o, currentHeight)}
<1>1. ASSUME NEW o \in Outs
      PROVE  unlocked'[o] + locked'[o] =
               One(TxOf[o] \in SavedValid(h2)) - Cardinality(Spenders(h2, o))
  <2>1. unlocked'[o] = unlocked[o] + One(o \in created \ held) - One(o \in InsOf[t])
    BY DEF ProcessNewTx
  <2>2. locked'[o] = locked[o] + One(o \in held)
    BY DEF ProcessNewTx
  <2>3. One(o \in created \ held) + One(o \in held) = One(TxOf[o] = t)
    BY DEF One, OutsOf
  <2>4. One(TxOf[o] \in SavedValid(h2)) = One(TxOf[o] \in SavedValid(h)) + One(TxOf[o] = t)
    BY DEF One
  <2>5. Cardinality(Spenders(h2, o)) = Cardinality(Spenders(h, o)) + One(o \in InsOf[t])
    BY NewTxSpends
  <2>6. unlocked[o] + locked[o] =
            One(TxOf[o] \in SavedValid(h)) - Cardinality(Spenders(h, o))
    BY DEF Counts
  <2>7. unlocked[o] \in Int /\ locked[o] \in Int /\ Cardinality(Spenders(h, o)) \in Nat
    BY SpendersAreFinite DEF MetadataOK
  <2>8. /\ One(o \in created \ held) \in Nat /\ One(o \in held) \in Nat
        /\ One(TxOf[o] = t) \in Nat /\ One(o \in InsOf[t]) \in Nat
        /\ One(TxOf[o] \in SavedValid(h)) \in Nat
    BY DEF One
  <2> DEFINE free == One(o \in created \ held)
             kept == One(o \in held)
             made == One(TxOf[o] = t)
             used == One(o \in InsOf[t])
             counted == One(TxOf[o] \in SavedValid(h))
             spent == Cardinality(Spenders(h, o))
  <2>9. /\ unlocked'[o] + locked'[o] = (unlocked[o] + free - used) + (locked[o] + kept)
        /\ free + kept = made
        /\ unlocked[o] + locked[o] = counted - spent
        /\ {free, kept, made, used, counted, spent} \subseteq Nat
    BY <2>1, <2>2, <2>3, <2>6, <2>7, <2>8
  <2>10. One(TxOf[o] \in SavedValid(h2)) - Cardinality(Spenders(h2, o))
            = (counted + made) - (spent + used)
    BY <2>4, <2>5
  <2> HIDE DEF free, kept, made, used, counted, spent
  <2>11. unlocked'[o] + locked'[o] = (counted + made) - (spent + used)
    BY <2>7, <2>9
  <2> QED
    BY <2>10, <2>11
<1>2. ASSUME NEW x \in Txs
      PROVE  numTransactions'[x] = One(x \in SavedValid(h2))
  <2>1. numTransactions'[x] = IF x = t THEN numTransactions[x] + 1 ELSE numTransactions[x]
    BY DEF ProcessNewTx, MetadataOK
  <2>2. numTransactions[x] = One(x \in SavedValid(h))
    BY DEF Counts
  <2> QED
    BY <2>1, <2>2 DEF One
<1>3. Offered(h2, utxos')
  BY DEF ProcessNewTx, Offered, OutsOf
<1> QED
  BY <1>1, <1>2, <1>3 DEF Counts

LEMMA OnNewTxKeepsCounts ==
  ASSUME MetadataOK, history \in [Txs -> Record],
         NEW t \in Txs, NEW record \in Record, OnNewTx(t, record),
         Counts(history, unlocked, locked, numTransactions), Offered(history, utxos)
  PROVE  Counts(history', unlocked', locked', numTransactions') /\ Offered(history', utxos')
<1>1. history' = [history EXCEPT ![t] = record]
  BY DEF OnNewTx
<1>2. CASE ~Saved(history, t) /\ ~record.voided
  <2>1. ProcessNewTx(t, record)
    BY <1>2 DEF OnNewTx
  <2>2. t \notin SavedValid(history) /\ SavedValid(history') = SavedValid(history) \cup {t}
    BY <1>1, <1>2, NewTxCounts
  <2> QED
    BY <2>1, <2>2, NewTxKeepsCounts
<1>3. CASE Saved(history, t) /\ history[t].voided # record.voided
  BY <1>3, ReplayCounts DEF OnNewTx
<1>4. CASE \/ ~Saved(history, t) /\ record.voided
           \/ Saved(history, t) /\ history[t].voided = record.voided
  <2>1. SavedValid(history') = SavedValid(history)
    BY <1>1, <1>4, KnownTxCounts
  <2>2. /\ UNCHANGED <<unlocked, locked, numTransactions>>
        /\ \/ utxos' = utxos
           \/ ~record.voided /\ Saved(history, t) /\ utxos' = utxos \cup (OutsOf(t) \ record.spent)
    BY <1>4 DEF OnNewTx, ProcessMetadataChanged, metadata
  <2>3. ASSUME ~record.voided, Saved(history, t) PROVE t \in SavedValid(history)
    BY <1>4, <2>3 DEF SavedValid
  <2>4. Offered(history', utxos')
    BY <2>1, <2>2, <2>3 DEF Offered, OutsOf
  <2>5. \A o \in Outs : Spenders(history', o) = Spenders(history, o)
    BY <2>1 DEF Spenders
  <2> QED
    BY <2>1, <2>2, <2>4, <2>5 DEF Counts
<1> QED
  BY <1>2, <1>3, <1>4

\* The numbers and the utxos of the saved history.
IInv == CountsTheHistory /\ NoVoidedUtxo

LEMMA CountsInitially == Init => IInv
<1> SUFFICES ASSUME Init PROVE IInv
  OBVIOUS
<1>1. SavedValid(history) = {}
  BY DEF Init, SavedValid, Saved
<1>2. \A o \in Outs : Spenders(history, o) = {}
  BY <1>1 DEF Spenders
<1>3. Cardinality({}) = 0
  BY FS_EmptySet
<1>4. CountsTheHistory
  <2>1. \A o \in Outs : unlocked[o] + locked[o] = 0
    BY DEF Init
  <2>2. \A t \in Txs : numTransactions[t] = 0
    BY DEF Init
  <2>3. \A o \in Outs : One(TxOf[o] \in SavedValid(history)) = 0
    BY <1>1 DEF One
  <2>4. \A t \in Txs : One(t \in SavedValid(history)) = 0
    BY <1>1 DEF One
  <2>5. \A o \in Outs : Cardinality(Spenders(history, o)) = 0
    BY <1>2, <1>3
  <2>6. \A o \in Outs : unlocked[o] + locked[o] =
            One(TxOf[o] \in SavedValid(history)) - Cardinality(Spenders(history, o))
    BY <2>1, <2>3, <2>5
  <2> QED
    BY <2>2, <2>4, <2>6 DEF CountsTheHistory
<1>5. NoVoidedUtxo
  BY DEF Init, NoVoidedUtxo
<1> QED
  BY <1>4, <1>5 DEF IInv

LEMMA CountsInductive == TypeOK /\ IInv /\ [Next]_vars => IInv'
<1> SUFFICES ASSUME TypeOK, IInv, [Next]_vars PROVE IInv'
  OBVIOUS
<1>0. /\ MetadataOK /\ history \in [Txs -> Record]
      /\ Counts(history, unlocked, locked, numTransactions) /\ Offered(history, utxos)
  BY DEF TypeOK, MetadataOK, IInv, CountsTheHistory, NoVoidedUtxo, Counts, Offered
<1>00. ASSUME Counts(history', unlocked', locked', numTransactions'), Offered(history', utxos')
       PROVE  IInv'
  BY <1>00 DEF IInv, CountsTheHistory, NoVoidedUtxo, Counts, Offered, Spenders, SavedValid, Saved
<1>1. CASE ReceiveTx
  <2>1. Head(wire) \in TxMessage \cup DashboardMessage
    BY <1>1 DEF ReceiveTx, TypeOK
  <2>2. Head(wire).tx \in Txs /\ Head(wire).record \in Record
    BY <1>1, <2>1 DEF ReceiveTx, TxMessage, DashboardMessage
  <2> QED
    BY <1>0, <1>00, <1>1, <2>2, OnNewTxKeepsCounts DEF ReceiveTx
<1>2. CASE ReceiveDashboard
  <2>1. CASE UNCHANGED metadata
    BY <1>0, <1>00, <1>2, <2>1 DEF ReceiveDashboard, metadata
  <2>2. CASE UnlockUtxos(Head(wire).height)
    <3>1. \A o \in Outs : unlocked'[o] + locked'[o] = unlocked[o] + locked[o]
      <4> TAKE o \in Outs
      <4>1. unlocked[o] \in Int /\ locked[o] \in Int
        BY <1>0 DEF MetadataOK
      <4>2. PICK d \in {0, 1} : unlocked'[o] = unlocked[o] + d /\ locked'[o] = locked[o] - d
        BY <2>2 DEF UnlockUtxos, One
      <4> QED
        BY <4>1, <4>2
    <3>2. UNCHANGED <<numTransactions, utxos, history>>
      BY <1>2, <2>2 DEF ReceiveDashboard, UnlockUtxos
    <3> QED
      BY <1>0, <1>00, <3>1, <3>2 DEF Counts
  <2> QED
    BY <1>2, <2>1, <2>2 DEF ReceiveDashboard
<1>3. CASE Reload
  BY <1>00, <1>3, ReplayCounts DEF Reload
<1>4. ASSUME NEW t \in Txs, SenderInserts(t) PROVE IInv'
  <2>1. [voided |-> FALSE, spent |-> {}] \in Record
    BY DEF Record
  <2> QED
    BY <1>0, <1>00, <1>4, <2>1, OnNewTxKeepsCounts DEF SenderInserts
<1>5. CASE UNCHANGED <<history, metadata>>
  BY <1>0, <1>00, <1>5 DEF metadata
<1>6. ASSUME NEW t \in Txs,
             SelectInputs(t) \/ Accept(t) \/ AcceptConflict(t) \/ Reject(t) \/ Void(t) \/ Revive(t)
      PROVE  UNCHANGED <<history, metadata>>
  BY <1>6 DEF SelectInputs, Accept, AcceptConflict, Reject, Void, Revive, Changes
<1>7. ASSUME NEW o \in Outs, SelectionExpires(o) PROVE UNCHANGED <<history, metadata>>
  BY <1>7 DEF SelectionExpires
<1>8. CASE NewBlock \/ Tick \/ UNCHANGED vars
  BY <1>5, <1>8 DEF NewBlock, Tick, vars
<1> QED
  BY <1>1, <1>2, <1>3, <1>4, <1>5, <1>6, <1>7, <1>8 DEF Next, WalletStep, NetworkStep

LEMMA CountsInvariant == Spec => []IInv
<1> QED
  BY CountsInitially, CountsInductive, TypeCorrect, PTL DEF Spec

\* The transactions processed one at a time by onNewTx(), with the ones voided and
\* revived, leave the balance and the counters of a full processHistory().
THEOREM AlwaysCountsTheHistory == Spec => []CountsTheHistory
<1>1. IInv => CountsTheHistory
  BY DEF IInv
<1> QED
  BY <1>1, CountsInvariant, PTL

\* A utxo of a transaction that is voided, or that a reload forgot, is never offered:
\* a changed voided flag always replays the history.
THEOREM NeverAVoidedUtxo == Spec => []NoVoidedUtxo
<1>1. IInv => NoVoidedUtxo
  BY DEF IInv
<1> QED
  BY <1>1, CountsInvariant, PTL

-----------------------------------------------------------------------------
(* The last thing the wallet was told *)

\* The record says of t what the fullnode does: whether it is valid, and no output
\* spent that is not.
Right(record, s, t) ==
  /\ ~record.voided <=> s[t] = "valid"
  /\ s[t] = "valid" => \A o \in OutsOf(t) \cap record.spent : SpentAt(s, o)

Tells(i, t) == wire[i].type = "tx" /\ wire[i].tx = t

\* Of every transaction the wallet has what is right, or the last messages of it do.
TellsRight(t) ==
  \/ Right(history[t], status, t) /\ \A i \in DOMAIN wire : ~Tells(i, t)
  \/ \E i \in DOMAIN wire :
        /\ Tells(i, t)
        /\ \A j \in DOMAIN wire : j >= i /\ Tells(j, t) => Right(wire[j].record, status, t)
Told ==
  /\ \A t \in Txs : TellsRight(t)
  /\ \A t \in pushed : status[t] = "valid"

\* An output is spent by one valid transaction at most, and only a valid one.
Chained ==
  \A t \in Txs, o \in Outs : o \in InsOf[t] =>
    /\ status[t] # "absent" => status[TxOf[o]] # "absent"
    /\ status[t] = "valid" =>
         /\ status[TxOf[o]] = "valid"
         /\ \A u \in Txs : status[u] = "valid" /\ o \in InsOf[u] => u = t

\* The heights the wallet is told go up to the one of the fullnode.
Dashboard(i) == i \in DOMAIN wire /\ wire[i].type = "dashboard"
Heights ==
  /\ bestHeight >= 1 /\ currentHeight <= bestHeight
  /\ \A i \in DOMAIN wire : Dashboard(i) =>
       /\ currentHeight <= wire[i].height /\ wire[i].height <= bestHeight
       /\ \A j \in DOMAIN wire : Dashboard(j) /\ i <= j => wire[i].height <= wire[j].height
  /\ \/ bestHeight = 1 \/ currentHeight = bestHeight
     \/ \E i \in DOMAIN wire : Dashboard(i) /\ wire[i].height = bestHeight

\* What is spent was unlocked before: the wallet knew the height by the time it is told.
Reached(o, i) ==
  \/ LockOf[o].height <= 1 \/ LockOf[o].height <= currentHeight
  \/ \E j \in DOMAIN wire : j < i /\ Dashboard(j) /\ LockOf[o].height <= wire[j].height

Opened(o) == /\ LockOf[o].time <= time
             /\ LockOf[o].height <= 1 \/ LockOf[o].height <= currentHeight

SpentByUnlocked == \A o \in Outs : SpentAt(status, o) => ~IsLocked(o, bestHeight)
ToldUnlocked ==
  \A i \in DOMAIN wire : wire[i].type = "tx" =>
     \A o \in OutsOf(wire[i].tx) \cap wire[i].record.spent : LockOf[o].time <= time /\ Reached(o, i)
SavedUnlocked ==
  \A o \in Outs : ~history[TxOf[o]].voided /\ o \in history[TxOf[o]].spent => Opened(o)
SpentIsUnlocked == SpentByUnlocked /\ ToldUnlocked /\ SavedUnlocked

\* What is in the locked balance is indexed.
LockedIsIndexed ==
  \A o \in Outs : /\ locked[o] = One(o \in lockedUtxos)
                  /\ o \in lockedUtxos => ~history[TxOf[o]].voided

\* An output that is not recorded as spent is offered, or a transaction spends it.
UnspentIsOffered ==
  \A o \in Outs : ~history[TxOf[o]].voided /\ o \notin history[TxOf[o]].spent =>
    o \in utxos \/ \E t \in Txs : ~history[t].voided /\ o \in InsOf[t]

CInv == Told /\ Chained /\ Heights /\ SpentIsUnlocked /\ LockedIsIndexed /\ UnspentIsOffered

-----------------------------------------------------------------------------
(* The wire *)

LEMMA WireIs ==
  ASSUME TypeOK
  PROVE  /\ Len(wire) \in Nat /\ DOMAIN wire = 1..Len(wire)
         /\ \A i \in DOMAIN wire : wire[i] \in TxMessage \cup DashboardMessage
  BY DEF TypeOK

\* A message is taken from the wire.
LEMMA TailOfTheWire ==
  ASSUME TypeOK, wire # <<>>, wire' = Tail(wire)
  PROVE  /\ Head(wire) = wire[1] /\ 1 \in DOMAIN wire
         /\ DOMAIN wire' = 1..(Len(wire) - 1) /\ Len(wire) \in Nat \ {0}
         /\ \A i \in DOMAIN wire' : i + 1 \in DOMAIN wire /\ wire'[i] = wire[i + 1]
         /\ \A i \in DOMAIN wire : i # 1 => i - 1 \in DOMAIN wire' /\ wire[i] = wire'[i - 1]
<1>1. wire \in Seq(TxMessage \cup DashboardMessage)
  BY DEF TypeOK
<1>2. /\ Len(wire) \in Nat \ {0} /\ DOMAIN wire = 1..Len(wire) /\ Head(wire) = wire[1]
      /\ DOMAIN Tail(wire) = 1..(Len(wire) - 1)
      /\ \A i \in 1..(Len(wire) - 1) : Tail(wire)[i] = wire[i + 1]
  BY <1>1
<1>3. \A i \in 1..Len(wire) : i # 1 => i - 1 \in 1..(Len(wire) - 1) /\ (i - 1) + 1 = i
  BY <1>2
<1>4. \A i \in 1..(Len(wire) - 1) : i + 1 \in 1..Len(wire)
  BY <1>2
<1>5. \A i \in 1..Len(wire) : i # 1 => wire[i] = Tail(wire)[i - 1]
  BY <1>2, <1>3
<1> QED
  BY <1>2, <1>3, <1>4, <1>5

\* A change tells of the transaction and of its parents, after what is on its way.
LEMMA ChangesTell ==
  ASSUME TypeOK, NEW t \in Txs, NEW s \in Statuses, Changes(t, s)
  PROVE  /\ {t} \cup Parents(t) \subseteq Txs
         /\ \A i \in DOMAIN wire : i \in DOMAIN wire' /\ wire'[i] = wire[i]
         /\ \A i \in DOMAIN wire' \ DOMAIN wire :
              \E x \in {t} \cup Parents(t) : wire'[i] = MessageAt(status', x)
         /\ \A x \in {t} \cup Parents(t) :
              \E i \in DOMAIN wire' \ DOMAIN wire : wire'[i] = MessageAt(status', x)
<1> DEFINE S == {t} \cup Parents(t)
           Told1(order) == [i \in DOMAIN order |-> MessageAt(status', order[i])]
           n == Cardinality(S)
<1>1. S \subseteq Txs
  <2>1. \A o \in InsOf[t] : TxOf[o] \in Txs
    BY DataTypes
  <2> QED
    BY <2>1 DEF Parents
<1>2. n \in Nat
  BY <1>1, DataTypes, FS_Subset, FS_CardinalityType
<1>3. PICK order \in Orders(S) : wire' = wire \o Told1(order)
  BY DEF Changes
<1>4. order \in [1..n -> S] /\ \A x \in S : \E i \in 1..n : order[i] = x
  BY <1>3 DEF Orders
<1> DEFINE told == Told1(order)
<1>5. DOMAIN told = 1..n /\ \A i \in 1..n : told[i] = MessageAt(status', order[i])
  BY <1>4
<1>6. wire' = wire \o told
  BY <1>3
<1>7. \A x \in Txs : MessageAt(status', x) \in TxMessage
  BY DataTypes DEF MessageAt, TxMessage
<1> HIDE DEF told
<1>8. told \in [1..n -> TxMessage]
  <2>1. told = [i \in 1..n |-> MessageAt(status', order[i])]
    BY <1>4 DEF told
  <2>2. \A i \in 1..n : MessageAt(status', order[i]) \in TxMessage
    BY <1>1, <1>4, <1>7
  <2> QED
    BY <2>1, <2>2
<1> HIDE DEF n
<1>9. told \in Seq(TxMessage \cup DashboardMessage) /\ Len(told) = n
  <2>1. told \in [1..n -> TxMessage \cup DashboardMessage]
    BY <1>8
  <2>2. told \in Seq(TxMessage \cup DashboardMessage)
    BY <1>2, <2>1
  <2>3. DOMAIN told = 1..Len(told) /\ DOMAIN told = 1..n /\ Len(told) \in Nat
    BY <2>1, <2>2
  <2>4. Len(told) = n
    <3> DEFINE m == Len(told)
    <3> HIDE DEF m
    <3>1. 1..m = 1..n /\ m \in Nat
      BY <2>3 DEF m
    <3>2. (m # 0 => m \in 1..n) /\ (n # 0 => n \in 1..m)
      BY <1>2, <3>1
    <3>3. m = n
      BY <1>2, <3>1, <3>2
    <3> QED
      BY <3>3 DEF m
  <2> QED
    BY <2>2, <2>4
<1>10. /\ DOMAIN wire = 1..Len(wire) /\ DOMAIN wire' = 1..(Len(wire) + n) /\ Len(wire) \in Nat
       /\ \A i \in 1..Len(wire) : wire'[i] = wire[i]
       /\ \A i \in 1..n : wire'[Len(wire) + i] = told[i]
  <2>1. wire \in Seq(TxMessage \cup DashboardMessage)
    BY DEF TypeOK
  <2>2. DOMAIN wire = 1..Len(wire) /\ Len(wire) \in Nat
    BY <2>1
  <2>3. Len(wire \o told) = Len(wire) + n /\ wire \o told \in Seq(TxMessage \cup DashboardMessage)
    BY <1>9, <2>1
  <2>4. DOMAIN (wire \o told) = 1..(Len(wire) + n)
    BY <2>3
  <2>5. \A i \in 1..(Len(wire) + n) :
          (wire \o told)[i] = IF i <= Len(wire) THEN wire[i] ELSE told[i - Len(wire)]
    BY <1>9, <2>1
  <2>6. \A i \in 1..Len(wire) : i \in 1..(Len(wire) + n) /\ i <= Len(wire)
    BY <1>2, <2>2
  <2>7. \A i \in 1..n : /\ Len(wire) + i \in 1..(Len(wire) + n) /\ ~(Len(wire) + i <= Len(wire))
                         /\ (Len(wire) + i) - Len(wire) = i
    BY <1>2, <2>2
  <2> QED
    BY <1>6, <2>2, <2>4, <2>5, <2>6, <2>7
<1>11. \A i \in DOMAIN wire : i \in DOMAIN wire' /\ wire'[i] = wire[i]
  BY <1>2, <1>10
<1>12. \A i \in DOMAIN wire' \ DOMAIN wire : \E x \in S : wire'[i] = MessageAt(status', x)
  <2> TAKE i \in DOMAIN wire' \ DOMAIN wire
  <2>1. i - Len(wire) \in 1..n /\ Len(wire) + (i - Len(wire)) = i
    BY <1>2, <1>10
  <2>2. wire'[i] = MessageAt(status', order[i - Len(wire)])
    BY <1>5, <1>10, <2>1
  <2> QED
    BY <1>4, <2>1, <2>2
<1>13. \A x \in S : \E i \in DOMAIN wire' \ DOMAIN wire : wire'[i] = MessageAt(status', x)
  <2> TAKE x \in S
  <2>1. PICK i \in 1..n : order[i] = x
    BY <1>4
  <2>2. Len(wire) + i \in DOMAIN wire' \ DOMAIN wire
    BY <1>2, <1>10
  <2>3. wire'[Len(wire) + i] = MessageAt(status', x)
    BY <1>5, <1>10, <2>1
  <2> QED
    BY <2>2, <2>3
<1> QED
  BY <1>1, <1>11, <1>12, <1>13

-----------------------------------------------------------------------------
(* The fullnode *)

\* What may become of a transaction.
LEMMA StatusSteps ==
  ASSUME TypeOK, [Next]_vars
  PROVE  \/ UNCHANGED status
         \/ \E t \in Txs : /\ status' = [status EXCEPT ![t] = "valid"]
                           /\ Spendable(t) /\ status[t] # "valid"
         \/ \E t \in Txs : /\ status' = [status EXCEPT ![t] = "voided"] /\ status[t] = "absent"
                           /\ \A o \in InsOf[t] : status[TxOf[o]] = "valid"
         \/ \E t \in Txs : /\ status' = [status EXCEPT ![t] = "voided"] /\ status[t] = "valid"
                           /\ \A o \in OutsOf(t) : ~SpentAt(status, o)
<1>1. ASSUME NEW t \in Txs, Accept(t) \/ Revive(t)
      PROVE  status' = [status EXCEPT ![t] = "valid"] /\ Spendable(t) /\ status[t] # "valid"
  BY <1>1 DEF Accept, Revive, Changes
<1>2. ASSUME NEW t \in Txs, AcceptConflict(t)
      PROVE  /\ status' = [status EXCEPT ![t] = "voided"] /\ status[t] = "absent"
             /\ \A o \in InsOf[t] : status[TxOf[o]] = "valid"
  BY <1>2 DEF AcceptConflict, Changes
<1>3. ASSUME NEW t \in Txs, Void(t)
      PROVE  /\ status' = [status EXCEPT ![t] = "voided"] /\ status[t] = "valid"
             /\ \A o \in OutsOf(t) : ~SpentAt(status, o)
  BY <1>3 DEF Void, Changes
<1>4. ASSUME \/ ReceiveTx \/ ReceiveDashboard \/ Reload \/ NewBlock \/ Tick \/ UNCHANGED vars
             \/ \E t \in Txs : SelectInputs(t) \/ SenderInserts(t) \/ Reject(t)
             \/ \E o \in Outs : SelectionExpires(o)
      PROVE  UNCHANGED status
  BY <1>4 DEF ReceiveTx, ReceiveDashboard, Reload, NewBlock, Tick, vars, network, SelectInputs,
              SenderInserts, Reject, SelectionExpires
<1> QED
  BY <1>1, <1>2, <1>3, <1>4 DEF Next, WalletStep, NetworkStep

LEMMA ChainedKeeps ==
  ASSUME TypeOK, Chained, [Next]_vars
  PROVE  Chained'
<1>1. CASE UNCHANGED status
  BY <1>1 DEF Chained
<1>2. ASSUME NEW t \in Txs, status' = [status EXCEPT ![t] = "valid"], Spendable(t), status[t] # "valid"
      PROVE  Chained'
  <2>1. status'[t] = "valid" /\ \A x \in Txs \ {t} : status'[x] = status[x]
    BY <1>2 DEF TypeOK
  <2>2. \A o \in InsOf[t] : /\ o \in Outs /\ TxOf[o] \in Txs \ {t} /\ status[TxOf[o]] = "valid"
                            /\ \A u \in Txs : status[u] = "valid" => o \notin InsOf[u]
    BY <1>2, DataTypes DEF Spendable, SpentAt
  <2> QED
    BY <2>1, <2>2, DataTypes DEF Chained
<1>3. ASSUME NEW t \in Txs, status' = [status EXCEPT ![t] = "voided"], status[t] = "absent",
             \A o \in InsOf[t] : status[TxOf[o]] = "valid"
      PROVE  Chained'
  <2>1. status'[t] = "voided" /\ \A x \in Txs \ {t} : status'[x] = status[x]
    BY <1>3 DEF TypeOK
  <2> QED
    BY <1>3, <2>1, DataTypes DEF Chained
<1>4. ASSUME NEW t \in Txs, status' = [status EXCEPT ![t] = "voided"], status[t] = "valid",
             \A o \in OutsOf(t) : ~SpentAt(status, o)
      PROVE  Chained'
  <2>1. status'[t] = "voided" /\ \A x \in Txs \ {t} : status'[x] = status[x]
    BY <1>4 DEF TypeOK
  <2>2. \A u \in Txs, o \in Outs : status[u] = "valid" /\ o \in InsOf[u] => TxOf[o] # t
    BY <1>4 DEF OutsOf, SpentAt
  <2> QED
    BY <1>4, <2>1, <2>2, DataTypes DEF Chained
<1> QED
  BY <1>1, <1>2, <1>3, <1>4, StatusSteps

\* The valid transactions that spend an output are one or none.
LEMMA SpendersAreOne ==
  ASSUME TypeOK, Chained, NEW o \in Outs
  PROVE  LET S == {t \in Txs : status[t] = "valid" /\ o \in InsOf[t]}
         IN  Cardinality(S) = One(SpentAt(status, o))
<1> DEFINE S == {t \in Txs : status[t] = "valid" /\ o \in InsOf[t]}
<1>1. CASE SpentAt(status, o)
  <2>1. PICK t \in Txs : status[t] = "valid" /\ o \in InsOf[t]
    BY <1>1 DEF SpentAt
  <2>2. S = {t}
    BY <2>1 DEF Chained
  <2>3. Cardinality({t}) = 1
    BY FS_Singleton
  <2> QED
    BY <1>1, <2>2, <2>3 DEF One
<1>2. CASE ~SpentAt(status, o)
  <2>1. S = {}
    BY <1>2 DEF SpentAt
  <2> QED
    BY <1>2, <2>1, FS_EmptySet DEF One
<1> QED
  BY <1>1, <1>2

\* What the steps do to the wire and the heights, when the wallet is calm.
LEMMA WireSteps ==
  ASSUME TypeOK, Calm, [Next]_vars
  PROVE  \/ ReceiveTx \/ ReceiveDashboard \/ NewBlock
         \/ \E t \in Txs, s \in Statuses : Changes(t, s) /\ UNCHANGED <<time, bestHeight, currentHeight>>
         \/ UNCHANGED <<wire, bestHeight, currentHeight>>
<1>1. ASSUME NEW t \in Txs, Accept(t) \/ AcceptConflict(t) \/ Void(t) \/ Revive(t)
      PROVE  \E s \in Statuses : Changes(t, s) /\ UNCHANGED <<time, bestHeight, currentHeight>>
  BY <1>1 DEF Accept, AcceptConflict, Void, Revive, Changes, Statuses
<1>2. ASSUME Reload PROVE UNCHANGED <<wire, bestHeight, currentHeight>>
  BY <1>2 DEF Reload
<1>3. ASSUME \/ Tick \/ UNCHANGED vars
             \/ \E t \in Txs : SelectInputs(t) \/ SenderInserts(t) \/ Reject(t)
             \/ \E o \in Outs : SelectionExpires(o)
      PROVE  UNCHANGED <<wire, bestHeight, currentHeight>>
  BY <1>3 DEF Tick, vars, network, SelectInputs, SenderInserts, Reject, SelectionExpires
<1> QED
  BY <1>1, <1>2, <1>3 DEF Next, WalletStep, NetworkStep

LEMMA HeightsKeep ==
  ASSUME TypeOK, Calm, Heights, [Next]_vars
  PROVE  Heights'
<1>1. /\ bestHeight \in Nat /\ currentHeight \in Nat
      /\ \A i \in DOMAIN wire : i \in Nat /\ (wire[i].type = "dashboard" => wire[i].height \in Nat)
  <2>1. \A m \in TxMessage \cup DashboardMessage : m.type = "dashboard" => m.height \in Nat
    BY DEF TxMessage, DashboardMessage
  <2> QED
    BY <2>1, WireIs DEF TypeOK
<1>2. ASSUME wire # <<>>, wire' = Tail(wire), UNCHANGED bestHeight,
             IF Dashboard(1) THEN currentHeight' = wire[1].height ELSE UNCHANGED currentHeight
      PROVE  Heights'
  <2>1. /\ 1 \in DOMAIN wire
        /\ \A i \in DOMAIN wire' : i + 1 \in DOMAIN wire /\ wire'[i] = wire[i + 1]
        /\ \A i \in DOMAIN wire : i # 1 => i - 1 \in DOMAIN wire' /\ wire[i] = wire'[i - 1]
    BY <1>2, TailOfTheWire
  <2>2. \A i \in DOMAIN wire' : i \in Nat /\ 1 <= i + 1 /\ \A j \in DOMAIN wire' : i <= j => i + 1 <= j + 1
    BY <1>1, <1>2, TailOfTheWire
  <2>3. /\ \A i \in DOMAIN wire' : Dashboard(i)' <=> Dashboard(i + 1)
        /\ \A i \in DOMAIN wire : i # 1 => (Dashboard(i) <=> Dashboard(i - 1)')
    BY <2>1 DEF Dashboard
  <2>4. /\ currentHeight' <= bestHeight'
        /\ \A i \in DOMAIN wire' : Dashboard(i)' => currentHeight' <= wire'[i].height
    BY <1>2, <2>1, <2>2, <2>3 DEF Heights
  <2>5. \A i \in DOMAIN wire' : Dashboard(i)' =>
          /\ wire'[i].height <= bestHeight'
          /\ \A j \in DOMAIN wire' : Dashboard(j)' /\ i <= j => wire'[i].height <= wire'[j].height
    BY <1>2, <2>1, <2>2, <2>3 DEF Heights
  <2>6. \/ bestHeight' = 1 \/ currentHeight' = bestHeight'
        \/ \E i \in DOMAIN wire' : Dashboard(i)' /\ wire'[i].height = bestHeight'
    <3>1. CASE Dashboard(1) /\ wire[1].height = bestHeight
      BY <1>2, <3>1
    <3>2. ASSUME NEW i \in DOMAIN wire, i # 1, Dashboard(i), wire[i].height = bestHeight
          PROVE  \E j \in DOMAIN wire' : Dashboard(j)' /\ wire'[j].height = bestHeight'
      BY <1>2, <2>1, <2>3, <3>2
    <3>3. CASE currentHeight = bestHeight
      <4>1. Dashboard(1) => wire[1].height = bestHeight
        BY <1>1, <2>1, <3>3 DEF Heights, Dashboard
      <4> QED
        BY <1>2, <3>3, <4>1
    <3> QED
      BY <1>2, <3>1, <3>2, <3>3 DEF Heights
  <2> QED
    BY <1>2, <2>4, <2>5, <2>6 DEF Heights
<1>3. CASE ReceiveTx \/ ReceiveDashboard
  <2>1. /\ wire # <<>> /\ wire' = Tail(wire) /\ UNCHANGED bestHeight
        /\ IF Head(wire).type = "dashboard" THEN currentHeight' = Head(wire).height
           ELSE UNCHANGED currentHeight
    BY <1>3 DEF ReceiveTx, ReceiveDashboard
  <2> QED
    BY <1>2, <2>1, TailOfTheWire DEF Dashboard
<1>4. CASE NewBlock
  <2>1. /\ Len(wire) + 1 \in DOMAIN wire' /\ wire'[Len(wire) + 1].type = "dashboard"
        /\ wire'[Len(wire) + 1].height = bestHeight + 1
        /\ DOMAIN wire' = 1..(Len(wire) + 1) /\ DOMAIN wire = 1..Len(wire) /\ Len(wire) \in Nat
        /\ \A i \in DOMAIN wire : wire'[i] = wire[i]
    BY <1>4 DEF NewBlock, TypeOK
  <2>2. bestHeight' = bestHeight + 1 /\ currentHeight' = currentHeight
    BY <1>4 DEF NewBlock
  <2>3. \A i \in DOMAIN wire' : i \in DOMAIN wire \/ i = Len(wire) + 1
    BY <2>1
  <2>4. \A i \in DOMAIN wire : ~(Len(wire) + 1 <= i)
    BY <2>1
  <2> QED
    BY <1>1, <2>1, <2>2, <2>3, <2>4 DEF Heights, Dashboard
<1>5. ASSUME NEW t \in Txs, NEW s \in Statuses, Changes(t, s), UNCHANGED <<bestHeight, currentHeight>>
      PROVE  Heights'
  <2>1. \A i \in DOMAIN wire' : wire'[i].type = "dashboard" => i \in DOMAIN wire /\ wire'[i] = wire[i]
    BY <1>5, ChangesTell DEF MessageAt
  <2>2. \A i \in DOMAIN wire : i \in DOMAIN wire' /\ wire'[i] = wire[i]
    BY <1>5, ChangesTell
  <2> QED
    BY <1>5, <2>1, <2>2 DEF Heights, Dashboard
<1>6. CASE UNCHANGED <<wire, bestHeight, currentHeight>>
  BY <1>6 DEF Heights, Dashboard
<1> QED
  BY <1>3, <1>4, <1>5, <1>6, WireSteps

-----------------------------------------------------------------------------
(* What is spent was unlocked *)

LEMMA LockTypes == \A o \in Outs : LockOf[o].time \in Nat /\ LockOf[o].height \in Nat
  BY LedgerAssumption

LEMMA OpenedIsUnlocked ==
  ASSUME TypeOK, NEW o \in Outs, Opened(o)
  PROVE  ~IsLocked(o, currentHeight)
<1>1. time \in Nat /\ currentHeight \in Nat
  BY DEF TypeOK
<1> QED
  BY <1>1, LockTypes DEF Opened, IsLocked

\* The clock and the height only go up.
LEMMA TimeGoesOn ==
  ASSUME TypeOK, Calm, Heights, [Next]_vars
  PROVE  time <= time' /\ bestHeight <= bestHeight' /\ currentHeight <= currentHeight'
<1>1. time \in Nat /\ bestHeight \in Nat /\ currentHeight \in Nat
  BY DEF TypeOK
<1>2. time' = time \/ time' = time + 1
  BY DEF Next, WalletStep, NetworkStep, vars, network, ReceiveTx, ReceiveDashboard, Reload, SelectInputs,
         SenderInserts, SelectionExpires, Accept, AcceptConflict, Reject, Void, Revive, Changes,
         NewBlock, Tick
<1>3. bestHeight' = bestHeight \/ bestHeight' = bestHeight + 1
  BY DEF Next, WalletStep, NetworkStep, vars, network, ReceiveTx, ReceiveDashboard, Reload, SelectInputs,
         SenderInserts, SelectionExpires, Accept, AcceptConflict, Reject, Void, Revive, Changes,
         NewBlock, Tick
<1>4. currentHeight <= currentHeight'
  <2>1. CASE ReceiveDashboard
    <3>1. currentHeight' = wire[1].height /\ Dashboard(1)
      BY <2>1, TailOfTheWire DEF ReceiveDashboard, Dashboard
    <3> QED
      BY <1>1, <3>1 DEF Heights, Dashboard
  <2>2. CASE ~ReceiveDashboard
    <3>1. currentHeight' = currentHeight
      BY <2>2, WireSteps DEF ReceiveTx, NewBlock
    <3> QED
      BY <1>1, <3>1
  <2> QED
    BY <2>1, <2>2
<1> QED
  BY <1>1, <1>2, <1>3, <1>4

\* What the fullnode has of an unlocked output the wallet knows once it heard everything.
LEMMA FullnodeIsReached ==
  ASSUME TypeOK, Heights, NEW o \in Outs, ~IsLocked(o, bestHeight),
         NEW n \in Nat, \A i \in DOMAIN wire : i < n
  PROVE  LockOf[o].time <= time /\ Reached(o, n)
<1>1. time \in Nat /\ bestHeight \in Nat /\ currentHeight \in Nat
  BY DEF TypeOK
<1>2. LockOf[o].time <= time /\ LockOf[o].height <= bestHeight /\ bestHeight >= 1
  BY <1>1, LockTypes DEF IsLocked, Heights
<1>3. CASE bestHeight = 1
  BY <1>2, <1>3 DEF Reached
<1>4. CASE currentHeight = bestHeight
  BY <1>2, <1>4 DEF Reached
<1>5. CASE \E i \in DOMAIN wire : Dashboard(i) /\ wire[i].height = bestHeight
  BY <1>2, <1>5 DEF Reached
<1> QED
  BY <1>3, <1>4, <1>5 DEF Heights

LEMMA ReachedStays ==
  ASSUME TypeOK, Calm, Heights, [Next]_vars, NEW o \in Outs
  PROVE  /\ Opened(o) => Opened(o)'
         /\ LockOf[o].time <= time => LockOf[o].time <= time'
         /\ ~IsLocked(o, bestHeight) => ~IsLocked(o, bestHeight)'
<1>1. /\ time \in Nat /\ bestHeight \in Nat /\ currentHeight \in Nat
      /\ time' \in Nat /\ bestHeight' \in Nat /\ currentHeight' \in Nat
  BY TypeInductive DEF TypeOK
<1>2. bestHeight >= 1
  BY DEF Heights
<1> QED
  BY <1>1, <1>2, TimeGoesOn, LockTypes DEF Opened, IsLocked

\* What is reached stays so when messages follow, and when the first one is taken.
LEMMA ReachedLater ==
  ASSUME TypeOK, Calm, Heights, [Next]_vars, NEW o \in Outs, NEW i \in DOMAIN wire, Reached(o, i),
         \A j \in DOMAIN wire : j \in DOMAIN wire' /\ wire'[j] = wire[j]
  PROVE  Reached(o, i)'
<1>1. currentHeight \in Nat /\ currentHeight' \in Nat /\ currentHeight <= currentHeight'
  BY TypeInductive, TimeGoesOn DEF TypeOK
<1> QED
  BY <1>1, LockTypes DEF Reached, Dashboard

LEMMA ReachedNext ==
  ASSUME TypeOK, Calm, Heights, [Next]_vars, NEW o \in Outs, NEW i \in DOMAIN wire, Reached(o, i),
         wire # <<>>, wire' = Tail(wire), Dashboard(1) => currentHeight' = wire[1].height
  PROVE  IF i = 1 THEN LockOf[o].height <= 1 \/ LockOf[o].height <= currentHeight'
                  ELSE Reached(o, i - 1)'
<1>1. currentHeight \in Nat /\ currentHeight' \in Nat /\ currentHeight <= currentHeight'
  BY TypeInductive, TimeGoesOn DEF TypeOK
<1>2. /\ DOMAIN wire = 1..Len(wire) /\ Len(wire) \in Nat /\ i \in Nat
      /\ \A j \in DOMAIN wire : j # 1 => j - 1 \in DOMAIN wire' /\ wire[j] = wire'[j - 1]
  BY WireIs, TailOfTheWire
<1>3. CASE LockOf[o].height <= 1 \/ LockOf[o].height <= currentHeight
  BY <1>1, <1>3, LockTypes DEF Reached
<1>4. ASSUME NEW j \in DOMAIN wire, j < i, Dashboard(j), LockOf[o].height <= wire[j].height
      PROVE  IF i = 1 THEN LockOf[o].height <= 1 \/ LockOf[o].height <= currentHeight'
                      ELSE Reached(o, i - 1)'
  <2>1. i # 1
    BY <1>2, <1>4
  <2>2. CASE j = 1
    BY <1>4, <2>1, <2>2 DEF Reached
  <2>3. CASE j # 1
    <3>1. j - 1 \in DOMAIN wire' /\ wire[j] = wire'[j - 1] /\ j - 1 < i - 1
      BY <1>2, <1>4, <2>3
    <3> QED
      BY <1>4, <2>1, <3>1 DEF Reached, Dashboard
  <2> QED
    BY <2>2, <2>3
<1> QED
  BY <1>3, <1>4 DEF Reached

LEMMA FullnodeUnlocks ==
  ASSUME TypeOK, Calm, Heights, SpentByUnlocked, [Next]_vars
  PROVE  SpentByUnlocked'
<1> SUFFICES ASSUME NEW o \in Outs, SpentAt(status, o)' PROVE ~IsLocked(o, bestHeight)'
  BY DEF SpentByUnlocked
<1>1. CASE SpentAt(status, o)
  BY <1>1, ReachedStays DEF SpentByUnlocked
<1>2. CASE ~SpentAt(status, o)
  <2>1. PICK t \in Txs : status' = [status EXCEPT ![t] = "valid"] /\ Spendable(t)
    BY <1>2, StatusSteps DEF SpentAt, TypeOK
  <2>2. o \in InsOf[t]
    BY <1>2, <2>1 DEF SpentAt, TypeOK
  <2> QED
    BY <2>1, <2>2, ReachedStays DEF Spendable
<1> QED
  BY <1>1, <1>2

LEMMA ToldUnlockedKeeps ==
  ASSUME TypeOK, Calm, Heights, SpentByUnlocked, ToldUnlocked, [Next]_vars
  PROVE  ToldUnlocked'
<1> SUFFICES ASSUME NEW i \in DOMAIN wire', wire'[i].type = "tx",
                    NEW o \in OutsOf(wire'[i].tx) \cap wire'[i].record.spent
             PROVE  LockOf[o].time <= time' /\ Reached(o, i)'
  BY DEF ToldUnlocked, OutsOf
<1>0. o \in Outs
  BY DEF OutsOf
<1>1. CASE i \in DOMAIN wire /\ \A j \in DOMAIN wire : j \in DOMAIN wire' /\ wire'[j] = wire[j]
  BY <1>0, <1>1, ReachedLater, ReachedStays DEF ToldUnlocked
<1>2. CASE ReceiveTx \/ ReceiveDashboard
  <2>1. /\ wire # <<>> /\ wire' = Tail(wire)
        /\ Dashboard(1) => currentHeight' = wire[1].height
    BY <1>2, TailOfTheWire DEF ReceiveTx, ReceiveDashboard, Dashboard
  <2>2. i + 1 \in DOMAIN wire /\ wire'[i] = wire[i + 1] /\ i \in Nat /\ i + 1 # 1 /\ (i + 1) - 1 = i
    BY <2>1, TailOfTheWire
  <2>3. LockOf[o].time <= time /\ Reached(o, i + 1)
    BY <2>2 DEF ToldUnlocked
  <2>4. Reached(o, (i + 1) - 1)'
    BY <1>0, <2>1, <2>2, <2>3, ReachedNext
  <2> QED
    BY <1>0, <2>2, <2>3, <2>4, ReachedStays
<1>3. CASE NewBlock
  <2>1. /\ \A j \in DOMAIN wire : j \in DOMAIN wire' /\ wire'[j] = wire[j]
        /\ i \in DOMAIN wire \/ wire'[i].type = "dashboard"
    BY <1>3 DEF NewBlock, TypeOK
  <2> QED
    BY <1>1, <2>1
<1>4. ASSUME NEW t \in Txs, NEW s \in Statuses, Changes(t, s), UNCHANGED <<time, bestHeight, currentHeight>>
      PROVE  LockOf[o].time <= time' /\ Reached(o, i)'
  <2>1. \A j \in DOMAIN wire : j \in DOMAIN wire' /\ wire'[j] = wire[j]
    BY <1>4, ChangesTell
  <2>2. CASE i \notin DOMAIN wire
    <3>1. PICK x \in {t} \cup Parents(t) : wire'[i] = MessageAt(status', x)
      BY <1>4, <2>2, ChangesTell
    <3>2. SpentAt(status', o)
      BY <3>1 DEF MessageAt, RecordAt
    <3>3. ~IsLocked(o, bestHeight)
      <4>1. ~IsLocked(o, bestHeight)'
        BY <1>0, <3>2, FullnodeUnlocks DEF SpentByUnlocked
      <4> QED
        BY <1>4, <4>1 DEF IsLocked
    <3>4. i \in Nat /\ \A j \in DOMAIN wire : j < i
      <4>1. /\ DOMAIN wire = 1..Len(wire) /\ Len(wire) \in Nat
            /\ DOMAIN wire' = 1..Len(wire') /\ Len(wire') \in Nat
        BY TypeInductive DEF TypeOK
      <4> QED
        BY <2>2, <4>1
    <3>5. LockOf[o].time <= time /\ Reached(o, i)
      BY <1>0, <3>3, <3>4, FullnodeIsReached
    <3> QED
      BY <1>4, <2>1, <3>5 DEF Reached, Dashboard
  <2> QED
    BY <1>1, <2>1, <2>2
<1>5. CASE UNCHANGED <<wire, bestHeight, currentHeight>>
  BY <1>1, <1>5
<1> QED
  BY <1>2, <1>3, <1>4, <1>5, WireSteps

-----------------------------------------------------------------------------
(* The history *)

\* What saves a transaction or touches the metadata.
LEMMA HistorySteps ==
  ASSUME [Next]_vars
  PROVE  \/ ReceiveTx \/ ReceiveDashboard \/ Reload \/ \E t \in Txs : SenderInserts(t)
         \/ UNCHANGED <<history, metadata>>
<1>1. ASSUME NEW t \in Txs,
             SelectInputs(t) \/ Accept(t) \/ AcceptConflict(t) \/ Reject(t) \/ Void(t) \/ Revive(t)
      PROVE  UNCHANGED <<history, metadata>>
  BY <1>1 DEF SelectInputs, Accept, AcceptConflict, Reject, Void, Revive, Changes
<1>2. ASSUME NEW o \in Outs, SelectionExpires(o) PROVE UNCHANGED <<history, metadata>>
  BY <1>2 DEF SelectionExpires
<1>3. CASE NewBlock \/ Tick \/ UNCHANGED vars
  BY <1>3 DEF NewBlock, Tick, vars
<1> QED
  BY <1>1, <1>2, <1>3 DEF Next, WalletStep, NetworkStep

\* The record a message or the sender saves.
Sent == [voided |-> FALSE, spent |-> {}]
LEMMA SentIsARecord == Sent \in Record
  BY DEF Sent, Record

LEMMA ReceivedTx ==
  ASSUME TypeOK, ReceiveTx
  PROVE  /\ wire[1].tx \in Txs /\ wire[1].record \in Record /\ wire[1].type = "tx"
         /\ OnNewTx(wire[1].tx, wire[1].record)
         /\ wire # <<>> /\ wire' = Tail(wire) /\ 1 \in DOMAIN wire
         /\ history' = [history EXCEPT ![wire[1].tx] = wire[1].record]
<1>1. wire # <<>> /\ wire' = Tail(wire)
  BY DEF ReceiveTx
<1>2. Head(wire) = wire[1] /\ 1 \in DOMAIN wire
  BY <1>1, TailOfTheWire
<1>3. wire[1] \in TxMessage \cup DashboardMessage
  BY <1>2, WireIs
<1>4. wire[1].type = "tx" /\ OnNewTx(wire[1].tx, wire[1].record)
  BY <1>2 DEF ReceiveTx
<1>5. wire[1].tx \in Txs /\ wire[1].record \in Record
  BY <1>3, <1>4 DEF TxMessage, DashboardMessage
<1> QED
  BY <1>1, <1>2, <1>4, <1>5 DEF OnNewTx

LEMMA SavedUnlockedKeeps ==
  ASSUME TypeOK, Calm, Heights, SpentIsUnlocked, [Next]_vars
  PROVE  SavedUnlocked'
<1> SUFFICES ASSUME NEW o \in Outs, ~history'[TxOf[o]].voided, o \in history'[TxOf[o]].spent
             PROVE  Opened(o)'
  BY DEF SavedUnlocked
<1>0. /\ TxOf[o] \in Txs /\ o \in OutsOf(TxOf[o]) /\ history \in [Txs -> Record]
      /\ Opened(o) => Opened(o)'
  BY DataTypes, ReachedStays DEF OutsOf, TypeOK
<1>1. CASE history'[TxOf[o]] = history[TxOf[o]]
  BY <1>0, <1>1 DEF SavedUnlocked, SpentIsUnlocked
<1>2. CASE ReceiveTx
  <2>1. CASE TxOf[o] = wire[1].tx
    <3>1. history'[TxOf[o]] = wire[1].record
      BY <1>0, <1>2, <2>1, ReceivedTx
    <3>2. wire # <<>> /\ wire' = Tail(wire) /\ 1 \in DOMAIN wire /\ wire[1].type = "tx"
      BY <1>2, ReceivedTx
    <3>3. LockOf[o].time <= time /\ Reached(o, 1)
      BY <1>0, <2>1, <3>1, <3>2 DEF SpentIsUnlocked, ToldUnlocked
    <3>4. LockOf[o].height <= 1 \/ LockOf[o].height <= currentHeight'
      BY <3>2, <3>3, ReachedNext DEF Dashboard
    <3> QED
      BY <3>3, <3>4, ReachedStays DEF Opened
  <2>2. CASE TxOf[o] # wire[1].tx
    BY <1>0, <1>1, <1>2, <2>2, ReceivedTx
  <2> QED
    BY <2>1, <2>2
<1>3. ASSUME NEW t \in Txs, SenderInserts(t) PROVE Opened(o)'
  <2>1. history' = [history EXCEPT ![t] = Sent]
    BY <1>3 DEF SenderInserts, OnNewTx, Sent
  <2>2. TxOf[o] # t
    BY <1>0, <2>1 DEF Sent
  <2> QED
    BY <1>0, <1>1, <2>1, <2>2
<1>4. CASE Reload
  <2>1. history' = [t \in Txs |-> IF status[t] = "absent" THEN NoTx ELSE RecordAt(status, t)]
    BY <1>4 DEF Reload
  <2>2. SpentAt(status, o)
    BY <1>0, <2>1 DEF NoTx, RecordAt
  <2>3. ~IsLocked(o, bestHeight) /\ wire = <<>>
    BY <1>4, <2>2 DEF SpentIsUnlocked, SpentByUnlocked, Reload
  <2>4. LockOf[o].time <= time /\ Reached(o, 0)
    BY <2>3, FullnodeIsReached
  <2>5. LockOf[o].height <= 1 \/ LockOf[o].height <= currentHeight
    BY <2>3, <2>4 DEF Reached
  <2> QED
    BY <1>0, <2>4, <2>5 DEF Opened
<1>5. CASE ReceiveDashboard \/ UNCHANGED <<history, metadata>>
  BY <1>1, <1>5 DEF ReceiveDashboard
<1> QED
  BY <1>2, <1>3, <1>4, <1>5, HistorySteps

LEMMA SpentIsUnlockedKeeps ==
  ASSUME TypeOK, Calm, Heights, SpentIsUnlocked, [Next]_vars
  PROVE  SpentIsUnlocked'
  BY FullnodeUnlocks, ToldUnlockedKeeps, SavedUnlockedKeeps DEF SpentIsUnlocked

-----------------------------------------------------------------------------
(* The last thing the wallet was told, step by step *)

LEMMA RightStays ==
  ASSUME NEW record, NEW s, NEW s2, NEW x, s2[x] = s[x],
         \A o \in OutsOf(x) : SpentAt(s, o) => SpentAt(s2, o),
         Right(record, s, x)
  PROVE  Right(record, s2, x)
  BY DEF Right

\* What the fullnode tells is right when it tells it.
LEMMA ToldIsRight ==
  ASSUME NEW s, NEW x \in Txs, s[x] \in {"valid", "voided"}
  PROVE  /\ Right(RecordAt(s, x), s, x)
         /\ MessageAt(s, x).record = RecordAt(s, x) /\ MessageAt(s, x).tx = x
         /\ MessageAt(s, x).type = "tx"
  BY DEF Right, RecordAt, MessageAt

LEMMA ReceiveTellsRight ==
  ASSUME TypeOK, ReceiveTx, NEW x \in Txs, TellsRight(x)
  PROVE  TellsRight(x)'
<1>0. /\ wire[1].tx \in Txs /\ wire[1].type = "tx" /\ wire # <<>> /\ wire' = Tail(wire) /\ 1 \in DOMAIN wire
      /\ history' = [history EXCEPT ![wire[1].tx] = wire[1].record] /\ status' = status
      /\ history \in [Txs -> Record]
  BY ReceivedTx DEF TypeOK, ReceiveTx
<1>1. /\ \A i \in DOMAIN wire' : i + 1 \in DOMAIN wire /\ wire'[i] = wire[i + 1]
      /\ \A i \in DOMAIN wire : i # 1 => i - 1 \in DOMAIN wire' /\ wire[i] = wire'[i - 1]
      /\ \A i \in DOMAIN wire : i \in Nat /\ i >= 1
      /\ \A i \in DOMAIN wire' : i \in Nat /\ i + 1 # 1 /\ i >= 1
  BY <1>0, TailOfTheWire, WireIs
<1>2. /\ \A i \in DOMAIN wire' : Tells(i, x)' <=> Tells(i + 1, x)
      /\ \A i \in DOMAIN wire : i # 1 => (Tells(i, x) <=> Tells(i - 1, x)')
  BY <1>1 DEF Tells
<1>3. ASSUME NEW i \in DOMAIN wire, i # 1, Tells(i, x),
             \A j \in DOMAIN wire : j >= i /\ Tells(j, x) => Right(wire[j].record, status, x)
      PROVE  TellsRight(x)'
  <2>1. i - 1 \in DOMAIN wire' /\ Tells(i - 1, x)'
    BY <1>1, <1>2, <1>3
  <2>2. ASSUME NEW j \in DOMAIN wire', j >= i - 1, Tells(j, x)' PROVE Right(wire'[j].record, status', x)
    <3>1. j + 1 \in DOMAIN wire /\ j + 1 >= i /\ Tells(j + 1, x) /\ wire'[j] = wire[j + 1]
      BY <1>1, <1>2, <2>2
    <3> QED
      BY <1>0, <1>3, <3>1
  <2> QED
    BY <2>1, <2>2 DEF TellsRight
<1>4. CASE \A i \in DOMAIN wire : i # 1 => ~Tells(i, x)
  <2>1. \A i \in DOMAIN wire' : ~Tells(i, x)'
    BY <1>1, <1>2, <1>4
  <2>2. Right(history'[x], status', x)
    <3>1. CASE wire[1].tx = x
      <4>1. Tells(1, x) /\ \A i \in DOMAIN wire : Tells(i, x) => i = 1
        BY <1>0, <1>4, <3>1 DEF Tells
      <4>2. Right(wire[1].record, status, x)
        BY <1>0, <1>1, <4>1 DEF TellsRight
      <4> QED
        BY <1>0, <3>1, <4>2
    <3>2. CASE wire[1].tx # x
      <4>1. \A i \in DOMAIN wire : ~Tells(i, x)
        BY <1>4, <3>2 DEF Tells
      <4>2. Right(history[x], status, x)
        BY <4>1 DEF TellsRight
      <4> QED
        BY <1>0, <3>2, <4>2
    <3> QED
      BY <3>1, <3>2
  <2> QED
    BY <2>1, <2>2 DEF TellsRight
<1>5. ASSUME NEW i \in DOMAIN wire, i # 1, Tells(i, x) PROVE TellsRight(x)'
  <2>1. PICK k \in DOMAIN wire : /\ Tells(k, x)
           /\ \A j \in DOMAIN wire : j >= k /\ Tells(j, x) => Right(wire[j].record, status, x)
    BY <1>5 DEF TellsRight
  <2>2. CASE k # 1
    BY <1>3, <2>1, <2>2
  <2>3. CASE k = 1
    <3>1. \A j \in DOMAIN wire : j >= i /\ Tells(j, x) => Right(wire[j].record, status, x)
      BY <1>1, <2>1, <2>3
    <3> QED
      BY <1>3, <1>5, <3>1
  <2> QED
    BY <2>2, <2>3
<1> QED
  BY <1>4, <1>5

LEMMA AppendTellsRight ==
  ASSUME TypeOK, NewBlock, NEW x \in Txs, TellsRight(x)
  PROVE  TellsRight(x)'
<1>1. /\ \A i \in DOMAIN wire : i \in DOMAIN wire' /\ wire'[i] = wire[i]
      /\ \A i \in DOMAIN wire' : i \in DOMAIN wire \/ wire'[i].type = "dashboard"
      /\ UNCHANGED <<status, history>>
  BY DEF NewBlock, TypeOK
<1>2. /\ \A i \in DOMAIN wire : Tells(i, x)' <=> Tells(i, x)
      /\ \A i \in DOMAIN wire' : Tells(i, x)' => i \in DOMAIN wire
  BY <1>1 DEF Tells
<1> QED
  BY <1>1, <1>2 DEF TellsRight

LEMMA ChangesTellRight ==
  ASSUME TypeOK, Chained, Chained', NEW t \in Txs, NEW s \in {"valid", "voided"}, Changes(t, s),
         NEW x \in Txs, TellsRight(x)
  PROVE  TellsRight(x)'
<1> DEFINE S == {t} \cup Parents(t)
<1>1. /\ S \subseteq Txs
      /\ \A i \in DOMAIN wire : i \in DOMAIN wire' /\ wire'[i] = wire[i]
      /\ \A i \in DOMAIN wire' \ DOMAIN wire : \E y \in S : wire'[i] = MessageAt(status', y)
      /\ \A y \in S : \E i \in DOMAIN wire' \ DOMAIN wire : wire'[i] = MessageAt(status', y)
  BY ChangesTell DEF Statuses
<1>2. /\ status' = [status EXCEPT ![t] = s] /\ history' = history
      /\ status \in [Txs -> Statuses] /\ status' \in [Txs -> Statuses]
  BY DEF Changes, TypeOK, Statuses
<1>3. \A i \in DOMAIN wire : Tells(i, x)' <=> Tells(i, x)
  BY <1>1 DEF Tells
<1>4. \A y \in S : status'[y] \in {"valid", "voided"}
  <2>1. status'[t] = s
    BY <1>2
  <2>2. \A o \in InsOf[t] : o \in Outs /\ status'[TxOf[o]] # "absent"
    BY <2>1, DataTypes DEF Chained
  <2>3. \A y \in Parents(t) : status'[y] # "absent"
    BY <2>2 DEF Parents
  <2> QED
    BY <1>1, <1>2, <2>1, <2>3 DEF Statuses
<1>5. \A y \in S : /\ Right(RecordAt(status', y), status', y)
                   /\ MessageAt(status', y).record = RecordAt(status', y)
                   /\ MessageAt(status', y).tx = y /\ MessageAt(status', y).type = "tx"
  BY <1>1, <1>4, ToldIsRight
<1>6. CASE x \in S
  <2>1. PICK i \in DOMAIN wire' \ DOMAIN wire : wire'[i] = MessageAt(status', x)
    BY <1>1, <1>6
  <2>2. Tells(i, x)'
    BY <1>5, <1>6, <2>1 DEF Tells
  <2>3. ASSUME NEW j \in DOMAIN wire', j >= i, Tells(j, x)' PROVE Right(wire'[j].record, status', x)
    <3>1. j \notin DOMAIN wire
      <4>1. /\ DOMAIN wire = 1..Len(wire) /\ Len(wire) \in Nat
            /\ DOMAIN wire' = 1..Len(wire') /\ Len(wire') \in Nat
        <5>1. wire' \in Seq(TxMessage \cup DashboardMessage)
          BY ChangesType DEF TypeOK, Statuses
        <5> QED
          BY <5>1, WireIs
      <4> QED
        BY <2>3, <4>1
    <3>2. PICK y \in S : wire'[j] = MessageAt(status', y)
      BY <1>1, <3>1
    <3>3. y = x
      BY <1>5, <2>3, <3>2 DEF Tells
    <3> QED
      BY <1>5, <3>2, <3>3
  <2> QED
    BY <2>1, <2>2, <2>3 DEF TellsRight
<1>7. CASE x \notin S
  <2>1. \A i \in DOMAIN wire' : Tells(i, x)' => i \in DOMAIN wire
    BY <1>1, <1>5, <1>7 DEF Tells
  <2>2. status'[x] = status[x] /\ \A o \in OutsOf(x) : SpentAt(status, o) => SpentAt(status', o)
    <3>1. \A o \in OutsOf(x) : o \notin InsOf[t]
      BY <1>7 DEF OutsOf, Parents
    <3>2. \A u \in Txs \ {t} : status'[u] = status[u]
      BY <1>2
    <3> QED
      BY <1>7, <3>1, <3>2 DEF SpentAt
  <2>3. \A record : Right(record, status, x) => Right(record, status', x)
    BY <2>2, RightStays
  <2> QED
    BY <1>1, <1>2, <1>3, <2>1, <2>3 DEF TellsRight
<1> QED
  BY <1>6, <1>7

LEMMA ToldKeeps ==
  ASSUME TypeOK, Calm, Chained, Told, [Next]_vars
  PROVE  Told'
<1>0. Chained' /\ status \in [Txs -> Statuses] /\ history \in [Txs -> Record]
  BY ChainedKeeps DEF TypeOK
<1>1. CASE ReceiveTx
  BY <1>1, ReceiveTellsRight DEF Told, ReceiveTx
<1>2. CASE ReceiveDashboard
  <2>1. /\ wire # <<>> /\ wire' = Tail(wire) /\ wire[1].type = "dashboard"
        /\ UNCHANGED <<history, status, pushed>>
    BY <1>2, TailOfTheWire DEF ReceiveDashboard, Tells
  <2>2. /\ \A i \in DOMAIN wire' : i + 1 \in DOMAIN wire /\ wire'[i] = wire[i + 1]
        /\ \A i \in DOMAIN wire : i # 1 => i - 1 \in DOMAIN wire' /\ wire[i] = wire'[i - 1]
        /\ \A i \in DOMAIN wire : i \in Nat /\ i >= 1
        /\ \A i \in DOMAIN wire' : i \in Nat
    BY <2>1, TailOfTheWire, WireIs
  <2>3. ASSUME NEW x \in Txs, TellsRight(x) PROVE TellsRight(x)'
    <3>1. /\ \A i \in DOMAIN wire' : Tells(i, x)' <=> Tells(i + 1, x)
          /\ \A i \in DOMAIN wire : Tells(i, x) => i # 1 /\ i - 1 \in DOMAIN wire' /\ Tells(i - 1, x)'
      BY <2>1, <2>2 DEF Tells
    <3>2. CASE \A i \in DOMAIN wire : ~Tells(i, x)
      BY <2>1, <2>2, <2>3, <3>1, <3>2 DEF TellsRight
    <3>3. ASSUME NEW i \in DOMAIN wire, Tells(i, x),
                 \A j \in DOMAIN wire : j >= i /\ Tells(j, x) => Right(wire[j].record, status, x)
          PROVE  TellsRight(x)'
      <4>1. i - 1 \in DOMAIN wire' /\ Tells(i - 1, x)'
        BY <3>1, <3>3
      <4>2. ASSUME NEW j \in DOMAIN wire', j >= i - 1, Tells(j, x)' PROVE Right(wire'[j].record, status', x)
        <5>1. j + 1 \in DOMAIN wire /\ j + 1 >= i /\ Tells(j + 1, x) /\ wire'[j] = wire[j + 1]
          BY <2>2, <3>1, <4>2
        <5> QED
          BY <2>1, <3>3, <5>1
      <4> QED
        BY <4>1, <4>2 DEF TellsRight
    <3> QED
      BY <2>3, <3>2, <3>3 DEF TellsRight
  <2> QED
    BY <2>1, <2>3 DEF Told
<1>3. CASE Reload
  <2>1. /\ wire' = <<>> /\ pushed = {} /\ UNCHANGED <<status, pushed>>
        /\ history' = [t \in Txs |-> IF status[t] = "absent" THEN NoTx ELSE RecordAt(status, t)]
    BY <1>3 DEF Reload
  <2>2. ASSUME NEW x \in Txs PROVE TellsRight(x)'
    <3>1. Right(history'[x], status, x)
      <4>1. CASE status[x] = "absent"
        BY <2>1, <4>1 DEF Right, NoTx
      <4>2. CASE status[x] # "absent"
        BY <1>0, <2>1, <4>2, ToldIsRight DEF Statuses
      <4> QED
        BY <4>1, <4>2
    <3> QED
      BY <2>1, <3>1 DEF TellsRight
  <2> QED
    BY <2>1, <2>2 DEF Told
<1>4. ASSUME NEW t \in Txs, SenderInserts(t) PROVE Told'
  <2>1. /\ t \in pushed /\ pushed' = pushed \ {t} /\ UNCHANGED <<status, wire>>
        /\ history' = [history EXCEPT ![t] = Sent]
    BY <1>4 DEF SenderInserts, OnNewTx, Sent, network
  <2>2. Right(Sent, status, t)
    BY <2>1 DEF Told, Right, Sent
  <2>3. ASSUME NEW x \in Txs PROVE TellsRight(x)'
    <3>1. \A i \in DOMAIN wire : Tells(i, x)' <=> Tells(i, x)
      BY <2>1 DEF Tells
    <3>2. Right(history[x], status, x) => Right(history'[x], status', x)
      BY <1>0, <2>1, <2>2
    <3> QED
      BY <2>1, <3>1, <3>2 DEF TellsRight, Told
  <2> QED
    BY <2>1, <2>3 DEF Told
<1>5. ASSUME NEW t \in Txs, Accept(t) \/ AcceptConflict(t) \/ Void(t) \/ Revive(t) PROVE Told'
  <2>1. PICK s \in {"valid", "voided"} :
          /\ Changes(t, s)
          /\ s = "voided" => t \notin pushed /\ pushed' = pushed
          /\ s = "valid" => pushed' \subseteq pushed \cup {t}
    BY <1>0, <1>5 DEF Accept, AcceptConflict, Void, Revive, Told
  <2>2. \A x \in Txs : TellsRight(x)'
    BY <1>0, <2>1, ChangesTellRight DEF Told
  <2>3. \A x \in pushed' : status'[x] = "valid"
    BY <1>0, <2>1 DEF Changes, Told, TypeOK
  <2> QED
    BY <2>2, <2>3 DEF Told
<1>6. CASE NewBlock
  BY <1>6, AppendTellsRight DEF Told, NewBlock
<1>7. ASSUME UNCHANGED <<status, wire, history, pushed>> PROVE Told'
  BY <1>7 DEF Told, TellsRight, Tells
<1>8. ASSUME \/ Tick \/ UNCHANGED vars
             \/ \E t \in Txs : SelectInputs(t) \/ Reject(t)
             \/ \E o \in Outs : SelectionExpires(o)
      PROVE  UNCHANGED <<status, wire, history, pushed>>
  BY <1>8 DEF Tick, vars, network, SelectInputs, Reject, SelectionExpires
<1> QED
  BY <1>1, <1>2, <1>3, <1>4, <1>5, <1>6, <1>7, <1>8 DEF Next, WalletStep, NetworkStep

-----------------------------------------------------------------------------
(* The locked and the offered utxos *)

LEMMA SavedValidIs ==
  ASSUME NEW h
  PROVE  \A t : t \in SavedValid(h) <=> t \in Txs /\ ~h[t].voided
  BY DEF SavedValid, Saved, NoTx

\* The cases of onNewTx(): one of them processes the transaction, one everything.
LEMMA OnNewTxCases ==
  ASSUME history \in [Txs -> Record], NEW t \in Txs, NEW record \in Record, OnNewTx(t, record)
  PROVE  /\ history' = [history EXCEPT ![t] = record] /\ history' \in [Txs -> Record]
         /\ \/ history[t].voided /\ ~record.voided /\ ~Saved(history, t) /\ ProcessNewTx(t, record)
            \/ ProcessHistory(history')
            \/ /\ history[t].voided /\ record.voided
               /\ UNCHANGED <<unlocked, locked, utxos, lockedUtxos>>
            \/ /\ ~history[t].voided /\ ~record.voided
               /\ utxos' = utxos \cup (OutsOf(t) \ record.spent)
               /\ UNCHANGED <<unlocked, locked, lockedUtxos>>
<1>1. history' = [history EXCEPT ![t] = record] /\ history' \in [Txs -> Record]
  BY DEF OnNewTx
<1>2. history[t].voided \in BOOLEAN /\ record.voided \in BOOLEAN
  BY DEF Record
<1>3. ~Saved(history, t) => history[t].voided
  BY DEF Saved, NoTx
<1> QED
  BY <1>1, <1>2, <1>3 DEF OnNewTx, ProcessMetadataChanged, metadata

LEMMA ReplayIndexes ==
  ASSUME NEW h, ProcessHistory(h), h = history', UNCHANGED <<time, currentHeight>>, TypeOK,
         SavedUnlocked'
  PROVE  LockedIsIndexed' /\ UnspentIsOffered'
<1> DEFINE created == {o \in Outs : TxOf[o] \in SavedValid(h)}
           held == {o \in created : IsLocked(o, currentHeight)}
           unspent == {o \in created : o \notin h[TxOf[o]].spent}
<1>1. /\ locked' = [o \in Outs |-> One(o \in held)] /\ utxos' = unspent
      /\ lockedUtxos' = held \cap unspent
  BY DEF ProcessHistory
<1>2. \A o \in Outs : o \in created <=> ~history'[TxOf[o]].voided
  BY SavedValidIs, DataTypes
<1>3. \A o \in held : o \in unspent
  <2> SUFFICES ASSUME NEW o \in held, o \in h[TxOf[o]].spent PROVE FALSE
    OBVIOUS
  <2>1. Opened(o)'
    BY <1>2 DEF SavedUnlocked
  <2>2. Opened(o)
    BY <2>1 DEF Opened
  <2> QED
    BY <2>2, OpenedIsUnlocked
<1>4. held \subseteq created /\ held \cap unspent = held
  BY <1>3
<1> HIDE DEF created, held
<1> QED
  BY <1>1, <1>2, <1>4 DEF LockedIsIndexed, UnspentIsOffered

LEMMA OnNewTxIndexes ==
  ASSUME TypeOK, LockedIsIndexed, NEW t \in Txs, NEW record \in Record, OnNewTx(t, record),
         UNCHANGED <<time, currentHeight>>, SavedUnlocked'
  PROVE  LockedIsIndexed'
<1>0. history \in [Txs -> Record] /\ \A o \in Outs : TxOf[o] \in Txs
  BY DataTypes DEF TypeOK
<1>1. history' = [history EXCEPT ![t] = record]
  BY <1>0, OnNewTxCases
<1>2. CASE ProcessHistory(history')
  BY <1>2, ReplayIndexes
<1>3. CASE ~record.voided /\ history[t].voided /\ ProcessNewTx(t, record)
  <2> DEFINE held == {o \in OutsOf(t) : IsLocked(o, currentHeight)}
  <2>1. /\ locked' = [o \in Outs |-> locked[o] + One(o \in held)]
        /\ lockedUtxos' = lockedUtxos \cup (held \cap (OutsOf(t) \ record.spent))
    BY <1>3 DEF ProcessNewTx
  <2>2. \A o \in held : o \in Outs /\ TxOf[o] = t /\ o \notin lockedUtxos
    BY <1>3 DEF OutsOf, LockedIsIndexed
  <2>3. \A o \in held : o \notin record.spent
    <3> SUFFICES ASSUME NEW o \in held, o \in record.spent PROVE FALSE
      OBVIOUS
    <3>1. history'[TxOf[o]] = record
      BY <1>0, <1>1, <2>2
    <3>2. Opened(o)'
      BY <1>3, <2>2, <3>1 DEF SavedUnlocked
    <3>3. Opened(o)
      BY <3>2 DEF Opened
    <3> QED
      BY <2>2, <3>3, OpenedIsUnlocked
  <2>4. held \cap (OutsOf(t) \ record.spent) = held
    BY <2>3
  <2> HIDE DEF held
  <2>5. \A o \in Outs : locked'[o] = One(o \in lockedUtxos')
    BY <2>1, <2>2, <2>4 DEF LockedIsIndexed, One
  <2>6. \A o \in Outs : o \in lockedUtxos' => ~history'[TxOf[o]].voided
    BY <1>0, <1>1, <1>3, <2>1, <2>2, <2>4 DEF LockedIsIndexed
  <2> QED
    BY <2>5, <2>6 DEF LockedIsIndexed
<1>4. CASE (history[t].voided <=> record.voided) /\ UNCHANGED <<locked, lockedUtxos>>
  BY <1>0, <1>1, <1>4 DEF LockedIsIndexed
<1> QED
  BY <1>0, <1>2, <1>3, <1>4, OnNewTxCases

LEMMA OnNewTxOffers ==
  ASSUME TypeOK, UnspentIsOffered, NEW t \in Txs, NEW record \in Record, OnNewTx(t, record),
         UNCHANGED <<time, currentHeight>>, SavedUnlocked'
  PROVE  UnspentIsOffered'
<1>0. /\ history \in [Txs -> Record] /\ \A o \in Outs : TxOf[o] \in Txs
      /\ \A o \in Outs : TxOf[o] = t => o \in OutsOf(t)
  BY DataTypes DEF TypeOK, OutsOf
<1>1. history' = [history EXCEPT ![t] = record]
  BY <1>0, OnNewTxCases
<1>2. CASE ProcessHistory(history')
  BY <1>2, ReplayIndexes
<1>3. CASE ~record.voided /\ history[t].voided /\ ProcessNewTx(t, record)
  <2>1. \A o \in Outs : o \in utxos \/ o \in OutsOf(t) \ record.spent => o \in utxos' \/ o \in InsOf[t]
    BY <1>3 DEF ProcessNewTx
  <2>2. ~history'[t].voided /\ \A x \in Txs : ~history[x].voided => ~history'[x].voided
    BY <1>0, <1>1, <1>3
  <2> QED
    BY <1>0, <1>1, <1>3, <2>1, <2>2 DEF UnspentIsOffered
<1>4. CASE /\ history[t].voided <=> record.voided
           /\ utxos \subseteq utxos'
           /\ ~record.voided => OutsOf(t) \ record.spent \subseteq utxos'
  BY <1>0, <1>1, <1>4 DEF UnspentIsOffered
<1> QED
  BY <1>0, <1>2, <1>3, <1>4, OnNewTxCases

LEMMA IndexesKeep ==
  ASSUME TypeOK, Calm, Heights, SpentIsUnlocked, LockedIsIndexed, UnspentIsOffered, [Next]_vars
  PROVE  LockedIsIndexed' /\ UnspentIsOffered'
<1>0. SavedUnlocked'
  BY SavedUnlockedKeeps
<1>1. CASE ReceiveTx
  <2>1. UNCHANGED <<time, currentHeight>>
    BY <1>1 DEF ReceiveTx
  <2> QED
    BY <1>0, <1>1, <2>1, ReceivedTx, OnNewTxIndexes, OnNewTxOffers
<1>2. ASSUME NEW t \in Txs, SenderInserts(t) PROVE LockedIsIndexed' /\ UnspentIsOffered'
  <2>1. UNCHANGED <<time, currentHeight>> /\ OnNewTx(t, Sent)
    BY <1>2 DEF SenderInserts, Sent, network
  <2> QED
    BY <1>0, <2>1, SentIsARecord, OnNewTxIndexes, OnNewTxOffers
<1>3. CASE Reload
  <2>1. UNCHANGED <<time, currentHeight>> /\ ProcessHistory(history')
    BY <1>3 DEF Reload
  <2> QED
    BY <1>0, <2>1, ReplayIndexes
<1>4. CASE ReceiveDashboard
  <2>1. UNCHANGED <<history, utxos>>
    BY <1>4 DEF ReceiveDashboard, UnlockUtxos, metadata
  <2>2. UnspentIsOffered'
    BY <2>1 DEF UnspentIsOffered
  <2>3. LockedIsIndexed'
    <3>1. CASE UNCHANGED metadata
      BY <2>1, <3>1 DEF LockedIsIndexed, metadata
    <3>2. CASE UnlockUtxos(Head(wire).height)
      <4> DEFINE ready == {o \in lockedUtxos : ~IsLocked(o, Head(wire).height)}
      <4>1. /\ locked' = [o \in Outs |-> locked[o] - One(o \in ready)]
            /\ lockedUtxos' = lockedUtxos \ ready /\ ready \subseteq lockedUtxos
        BY <3>2 DEF UnlockUtxos
      <4> HIDE DEF ready
      <4> QED
        BY <2>1, <4>1 DEF LockedIsIndexed, One
    <3> QED
      BY <1>4, <3>1, <3>2 DEF ReceiveDashboard
  <2> QED
    BY <2>2, <2>3
<1>5. CASE UNCHANGED <<history, metadata>>
  BY <1>5 DEF LockedIsIndexed, UnspentIsOffered, metadata
<1> QED
  BY <1>1, <1>2, <1>3, <1>4, <1>5, HistorySteps

-----------------------------------------------------------------------------
(* When everything has arrived *)

LEMMA CalmInitially == Init => CInv
<1> SUFFICES ASSUME Init PROVE CInv
  OBVIOUS
<1>1. /\ \A t \in Txs : status[t] = "absent" /\ history[t] = NoTx
      /\ \A o \in Outs : TxOf[o] \in Txs
      /\ DOMAIN wire = {} /\ NoTx.voided
  BY DataTypes DEF Init, NoTx
<1>2. Told
  BY <1>1 DEF Init, Told, TellsRight, Right
<1>3. Chained /\ Heights
  BY <1>1 DEF Init, Chained, Heights
<1>4. SpentIsUnlocked
  BY <1>1 DEF SpentIsUnlocked, SpentByUnlocked, ToldUnlocked, SavedUnlocked, SpentAt
<1>5. LockedIsIndexed /\ UnspentIsOffered
  BY <1>1 DEF Init, LockedIsIndexed, UnspentIsOffered, One
<1> QED
  BY <1>2, <1>3, <1>4, <1>5 DEF CInv

\* The invariant of a calm connection.
CalmInv == Calm => CInv

LEMMA CalmKeeps == TypeOK /\ CalmInv /\ [Next]_vars => CalmInv'
<1> SUFFICES ASSUME TypeOK, CInv, Calm, [Next]_vars PROVE CInv'
  BY DEF CalmInv
<1> QED
  BY ToldKeeps, ChainedKeeps, HeightsKeep, SpentIsUnlockedKeeps, IndexesKeep DEF CInv

LEMMA CalmInvariant == Spec => []CalmInv
<1>1. Init => CalmInv
  BY CalmInitially DEF CalmInv
<1> QED
  BY <1>1, CalmKeeps, TypeCorrect, PTL DEF Spec

\* At rest what is saved as valid is what is valid.
LEMMA RestIsRight ==
  ASSUME AtRest, Told
  PROVE  /\ \A t \in Txs : Right(history[t], status, t)
         /\ SavedValid(history) = {t \in Txs : status[t] = "valid"}
<1>1. DOMAIN wire = {}
  BY DEF AtRest
<1>2. \A t \in Txs : Right(history[t], status, t)
  BY <1>1 DEF Told, TellsRight
<1>3. \A t : t \in SavedValid(history) <=> t \in {u \in Txs : status[u] = "valid"}
  BY <1>2, SavedValidIs DEF Right
<1> QED
  BY <1>2, <1>3

\* Over a calm connection, when every message has arrived, the balance is the value of
\* the unspent outputs, and what is locked of it is indexed: onNewTx() of
\* src/new/wallet.ts with processHistory() and processUtxoUnlock() of
\* src/utils/storage.ts, in whatever order the fullnode told of it.
THEOREM BalancesAreCorrect == Spec => [](Calm => BalanceIsCorrect)
<1>1. TypeOK /\ IInv /\ CalmInv => (Calm => BalanceIsCorrect)
  <2> SUFFICES ASSUME TypeOK, CountsTheHistory, CInv, AtRest, NEW o \in Outs
               PROVE  /\ unlocked[o] + locked[o] = One(o \in Unspent)
                      /\ locked[o] = One(o \in lockedUtxos)
    BY DEF IInv, CalmInv, BalanceIsCorrect
  <2>1. SavedValid(history) = {t \in Txs : status[t] = "valid"}
    BY RestIsRight DEF CInv
  <2>2. TxOf[o] \in SavedValid(history) <=> status[TxOf[o]] = "valid"
    BY <2>1, DataTypes
  <2>3. Spenders(history, o) = {t \in Txs : status[t] = "valid" /\ o \in InsOf[t]}
    BY <2>1 DEF Spenders
  <2>4. Cardinality(Spenders(history, o)) = One(SpentAt(status, o))
    BY <2>3, SpendersAreOne DEF CInv
  <2>5. unlocked[o] + locked[o] = One(status[TxOf[o]] = "valid") - One(SpentAt(status, o))
    BY <2>2, <2>4 DEF CountsTheHistory
  <2>6. SpentAt(status, o) => status[TxOf[o]] = "valid"
    BY DEF CInv, Chained, SpentAt
  <2>7. One(status[TxOf[o]] = "valid") - One(SpentAt(status, o)) = One(o \in Unspent)
    BY <2>6 DEF One, Unspent
  <2> QED
    BY <2>5, <2>7 DEF CInv, LockedIsIndexed
<1> QED
  BY <1>1, TypeCorrect, CountsInvariant, CalmInvariant, PTL

\* Over a calm connection, when every message has arrived, every unspent output is
\* offered again, whatever spent it in between and was voided.
THEOREM NoUtxoIsLost == Spec => [](Calm => NoUtxoLost)
<1>1. CalmInv => (Calm => NoUtxoLost)
  <2> SUFFICES ASSUME CInv, AtRest, NEW o \in Unspent PROVE o \in utxos
    BY DEF CalmInv, NoUtxoLost
  <2>1. /\ \A t \in Txs : Right(history[t], status, t)
        /\ o \in Outs /\ TxOf[o] \in Txs /\ o \in OutsOf(TxOf[o])
        /\ status[TxOf[o]] = "valid" /\ ~SpentAt(status, o)
    BY RestIsRight, DataTypes DEF CInv, Unspent, OutsOf
  <2>2. ~history[TxOf[o]].voided /\ o \notin history[TxOf[o]].spent
    BY <2>1 DEF Right
  <2>3. \A t \in Txs : o \in InsOf[t] => history[t].voided
    BY <2>1 DEF Right, SpentAt
  <2> QED
    BY <2>1, <2>2, <2>3 DEF CInv, UnspentIsOffered
<1> QED
  BY <1>1, CalmInvariant, PTL

=============================================================================
