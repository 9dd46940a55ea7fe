-------------------------- MODULE StreamSyncProofs --------------------------
(***************************************************************************)
(* Proofs about the history stream, for any history, any window and any    *)
(* number of connections and faults: who owns the connection, how long the *)
(* queue can be and what a synchronisation that succeeds has saved.        *)
(***************************************************************************)
EXTENDS StreamSync, TLAPS

Before == {"idle", "stopping", "deaf", "reload", "setup"}
Ended == {"done", "error"}

\* What the counters of a manager say of each other.  What is acknowledged and not
\* processed is less than half a window: this is what shouldACK() is for.
Counts(m) ==
    /\ m.proc <= m.seen
    /\ m.acked <= m.seen
    /\ m.work # "idle" => m.proc # 0
    /\ Window # 0 => /\ 2 * m.acked < 2 * m.proc + Window
                     /\ m.seen <= m.acked + Window

Rested(m) == m.work = "idle" /\ ~m.aborted => m.proc = m.seen

\* A manager and its stream on the fullnode, which sends no more than the window.
Flows(m, s, phase) ==
    /\ s.sent <= Items
    /\ s.ended => s.sent = Items
    /\ s.ack <= m.acked
    /\ Window # 0 => s.sent <= s.ack + Window
    /\ phase \notin Ended => m.seen <= s.sent
    /\ m.seen <= Items
    /\ m.ended => m.seen = Items

\* A manager and its synchronisation.
Phased(m, phase) ==
    /\ m.listening => phase \in Running
    /\ phase \in {"shutdown", "drain"} => m.aborted \/ m.ended
    /\ phase \in Before => m.seen = 0

ManagersOK ==
    \A e \in Syncs : /\ Counts(man[e]) /\ Rested(man[e])
                     /\ Flows(man[e], srv[e], sync[e])
                     /\ Phased(man[e], sync[e])

IdleAfter == \A e \in Syncs : e > conns => sync[e] = "idle"

\* What is processed is in the storage, unless somebody cleans it.
SavedSoFar ==
    \A e \in Syncs :
        sync[e] \in Running /\ man[e].alone =>
            /\ 1..Saved(e) \subseteq stored
            /\ \A f \in Syncs : sync[f] # "reload"

IInv == TypeOK /\ ManagersOK /\ IdleAfter /\ OwnsTheConnection /\ LockIsFreed /\ SavedSoFar

-----------------------------------------------------------------------------
(* The queue of a manager *)

LEMMA Numbers == Items \in Nat /\ Window \in Nat /\ PerMessage \in Nat /\ MaxConns \in Nat
  BY StreamAssumption

LEMMA NewManagerIsSound ==
  /\ NewManager \in Manager /\ Counts(NewManager) /\ Rested(NewManager)
  /\ NewStream \in Stream
  BY Numbers DEF NewManager, Manager, Counts, Rested, NewStream, Stream

LEMMA AckIsSound ==
  ASSUME NEW m \in Manager, NEW queued
  PROVE  /\ Ack(m, queued) \in Manager
         /\ \/ Ack(m, queued) = m
            \/ /\ Ack(m, queued) = [m EXCEPT !.acked = m.seen]
               /\ ShouldAck(m, queued)
  BY DEF Ack, Manager

\* Two fields at once.
LEMMA TakenFields ==
  ASSUME NEW m \in Manager, NEW p \in Nat
  PROVE  LET r == [m EXCEPT !.proc = p, !.work = "busy"]
         IN  /\ r \in Manager /\ r.proc = p /\ r.work = "busy"
             /\ r.seen = m.seen /\ r.acked = m.acked /\ r.loaded = m.loaded
             /\ r.listening = m.listening /\ r.aborted = m.aborted
             /\ r.ended = m.ended /\ r.alone = m.alone
  BY DEF Manager

\* Taking the next item keeps the counters together, and everything else as it was.
LEMMA TakeIsSound ==
  ASSUME NEW m \in Manager, Counts(m)
  PROVE  LET r == Take(m)
         IN  /\ r \in Manager /\ Counts(r) /\ Rested(r)
             /\ r.seen = m.seen /\ r.loaded = m.loaded /\ m.acked <= r.acked
             /\ r.listening = m.listening /\ r.aborted = m.aborted
             /\ r.ended = m.ended /\ r.alone = m.alone
             /\ \/ r.work = "idle" /\ r.proc = m.proc
                \/ r.work = "busy" /\ r.proc = m.proc + 1
<1> USE Numbers
<1>1. CASE m.aborted
  <2> DEFINE r == [m EXCEPT !.work = "idle"]
  <2>1. Take(m) = r
    BY <1>1 DEF Take
  <2>2. /\ r \in Manager /\ r.proc = m.proc /\ r.work = "idle"
        /\ r.seen = m.seen /\ r.acked = m.acked /\ r.loaded = m.loaded
        /\ r.listening = m.listening /\ r.aborted = m.aborted
        /\ r.ended = m.ended /\ r.alone = m.alone
    BY DEF Manager
  <2>3. {m.seen, m.proc, m.acked} \subseteq Nat
    BY DEF Manager
  <2> HIDE DEF r
  <2>4. Counts(r) /\ Rested(r)
    BY <1>1, <2>2, <2>3 DEF Counts, Rested
  <2> QED
    BY <2>1, <2>2, <2>3, <2>4
<1>2. CASE ~m.aborted /\ m.seen > m.proc
  <2> DEFINE a == Ack(m, Queued(m) - 1)
             r == [a EXCEPT !.proc = @ + 1, !.work = "busy"]
  <2>1. Take(m) = r
    BY <1>2 DEF Take
  <2>2. /\ a \in Manager
        /\ a.seen = m.seen /\ a.proc = m.proc /\ a.loaded = m.loaded
        /\ a.listening = m.listening /\ a.aborted = m.aborted
        /\ a.ended = m.ended /\ a.alone = m.alone
        /\ \/ a.acked = m.acked
           \/ a.acked = m.seen /\ Window # 0 /\ 2 * (m.proc - m.acked) > Window
    <3>1. CASE a = m
      BY <3>1
    <3>2. CASE a = [m EXCEPT !.acked = m.seen] /\ ShouldAck(m, Queued(m) - 1)
      <4>1. Window # 0 /\ 2 * (m.proc - m.acked) > Window
        BY <3>2 DEF ShouldAck
      <4> QED
        BY <3>2, <4>1 DEF Manager
    <3> QED
      BY <3>1, <3>2, AckIsSound
  <2>3. {m.seen, m.proc, m.acked} \subseteq Nat
    BY DEF Manager
  <2> HIDE DEF a
  <2>4. /\ r \in Manager /\ r.proc = m.proc + 1 /\ r.work = "busy"
        /\ r.seen = m.seen /\ r.acked = a.acked /\ r.loaded = m.loaded
        /\ r.listening = m.listening /\ r.aborted = m.aborted
        /\ r.ended = m.ended /\ r.alone = m.alone
    <3> DEFINE p == a.proc + 1
    <3>1. p \in Nat /\ p = m.proc + 1
      BY <2>2, <2>3
    <3>2. r = [a EXCEPT !.proc = p, !.work = "busy"]
      OBVIOUS
    <3> HIDE DEF p, r
    <3> QED
      BY <2>2, <3>1, <3>2, TakenFields
  <2> HIDE DEF r
  <2>5. m.acked <= r.acked /\ Counts(r)
    BY <1>2, <2>2, <2>3, <2>4 DEF Counts
  <2> QED
    BY <2>1, <2>4, <2>5 DEF Rested
<1>3. CASE ~m.aborted /\ ~(m.seen > m.proc)
  <2> DEFINE a == Ack(m, 0)
  <2>1. Take(m) = [a EXCEPT !.work = "idle"]
    BY <1>3 DEF Take
  <2>2. m.seen = m.proc
    BY <1>3 DEF Counts, Manager
  <2>3. CASE a = m
    BY <2>1, <2>2, <2>3 DEF Counts, Rested, Manager
  <2>4. CASE a = [m EXCEPT !.acked = m.seen] /\ ShouldAck(m, 0)
    BY <2>1, <2>2, <2>4 DEF Counts, Rested, Manager, ShouldAck
  <2> QED
    BY <2>3, <2>4, AckIsSound
<1> QED
  BY <1>1, <1>2, <1>3

LEMMA EnqueueIsSound ==
  ASSUME NEW m \in Manager, Counts(m), Rested(m),
         Window # 0 => m.seen + 1 <= m.acked + Window
  PROVE  LET r == Enqueue(m)
         IN  /\ r \in Manager /\ Counts(r) /\ Rested(r)
             /\ r.seen = m.seen + 1 /\ m.acked <= r.acked
             /\ r.listening = m.listening /\ r.aborted = m.aborted
             /\ r.ended = m.ended /\ r.alone = m.alone
             /\ \/ r.work = m.work /\ r.proc = m.proc
                \/ m.work = "idle" /\ r.work = "busy" /\ r.proc = m.proc + 1
<1> USE Numbers
<1> DEFINE q == [m EXCEPT !.seen = @ + 1]
<1>1. /\ q \in Manager /\ q.seen = m.seen + 1 /\ q.acked = m.acked /\ q.proc = m.proc
      /\ q.work = m.work /\ q.listening = m.listening /\ q.aborted = m.aborted
      /\ q.ended = m.ended /\ q.alone = m.alone
  BY DEF Manager
<1>2. {m.seen, m.proc, m.acked} \subseteq Nat
  BY DEF Manager
<1>3. Counts(q)
  BY <1>1, <1>2 DEF Counts
<1>4. CASE m.work = "idle"
  <2>1. Enqueue(m) = Take(q)
    BY <1>4 DEF Enqueue
  <2> QED
    BY <1>1, <1>3, <1>4, <2>1, TakeIsSound
<1>5. CASE m.work # "idle"
  BY <1>1, <1>2, <1>3, <1>5 DEF Enqueue, Rested
<1> QED
  BY <1>4, <1>5

-----------------------------------------------------------------------------
(* The initial states *)

LEMMA InitIsSound == Init => IInv
<1> SUFFICES ASSUME Init PROVE IInv
  OBVIOUS
<1> USE Numbers DEF Init
<1>1. \A e \in Syncs : man[e] = NewManager /\ srv[e] = NewStream /\ sync[e] = "idle"
  OBVIOUS
<1>2. TypeOK
  <2>1. man \in [Syncs -> Manager] /\ srv \in [Syncs -> Stream] /\ sync \in [Syncs -> Phases]
    BY NewManagerIsSound DEF Phases
  <2>2. \A e \in Syncs : man[e].proc <= man[e].seen
    BY <1>1 DEF NewManager
  <2>3. faults \in 0..MaxFaults
    BY StreamAssumption
  <2> QED
    BY <2>1, <2>2, <2>3 DEF TypeOK
<1>3. ManagersOK
  <2>1. \A phase : Flows(NewManager, NewStream, phase)
    BY DEF Flows, NewManager, NewStream
  <2>2. Phased(NewManager, "idle")
    BY DEF Phased, NewManager
  <2> QED
    BY <1>1, <2>1, <2>2, NewManagerIsSound DEF ManagersOK
<1>4. IdleAfter /\ OwnsTheConnection /\ LockIsFreed /\ SavedSoFar
  BY <1>1 DEF IdleAfter, OwnsTheConnection, LockIsFreed, SavedSoFar, Running
<1> QED
  BY <1>2, <1>3, <1>4 DEF IInv

-----------------------------------------------------------------------------
(* The connection *)

\* Aborting leaves the queue as it is.
LEMMA AbortedIsSound ==
  ASSUME NEW m \in Manager, Counts(m)
  PROVE  LET r == Aborted(m)
         IN  /\ r \in Manager /\ Counts(r) /\ Rested(r)
             /\ r.seen = m.seen /\ r.acked = m.acked /\ r.proc = m.proc
             /\ r.work = m.work /\ r.ended = m.ended /\ r.alone = m.alone
             /\ ~r.listening /\ r.aborted
<1> DEFINE r == Aborted(m)
<1>1. /\ r \in Manager
      /\ r.seen = m.seen /\ r.acked = m.acked /\ r.proc = m.proc
      /\ r.work = m.work /\ r.ended = m.ended /\ r.alone = m.alone
      /\ ~r.listening /\ r.aborted
  BY DEF Manager, Aborted
<1> HIDE DEF r
<1>2. {m.seen, m.proc, m.acked} \subseteq Nat
  BY DEF Manager
<1>3. Counts(r) /\ Rested(r)
  BY <1>1, <1>2 DEF Counts, Rested
<1> QED
  BY <1>1, <1>3 DEF r

\* The streams of the fullnode are closed and otherwise as they were.
LEMMA ClosedIsSound ==
  ASSUME srv \in [Syncs -> Stream], Disconnected
  PROVE  /\ srv' \in [Syncs -> Stream]
         /\ \A e \in Syncs : /\ srv'[e].sent = srv[e].sent /\ srv'[e].ack = srv[e].ack
                             /\ srv'[e].ended <=> srv[e].ended
<1>1. \A s \in Stream : LET r == [s EXCEPT !.open = FALSE]
                        IN  /\ r \in Stream /\ r.sent = s.sent /\ r.ack = s.ack
                            /\ r.ended <=> s.ended
  BY DEF Stream
<1> QED
  BY <1>1 DEF Disconnected

LEMMA StartIsSound == ASSUME IInv, Start \/ ConnectionDown PROVE IInv'
<1> USE Numbers DEF IInv
<1>1. UNCHANGED <<conns, lock, stored, sync, man, faults>>
  BY DEF Start, ConnectionDown
<1>2. /\ srv' \in [Syncs -> Stream]
      /\ \A e \in Syncs : /\ srv'[e].sent = srv[e].sent /\ srv'[e].ack = srv[e].ack
                          /\ srv'[e].ended <=> srv[e].ended
  <2>1. CASE Start
    BY <2>1 DEF Start, TypeOK
  <2>2. CASE ConnectionDown
    BY <2>2, ClosedIsSound DEF ConnectionDown, TypeOK
  <2> QED
    BY <2>1, <2>2
<1>3. TypeOK'
  BY <1>1, <1>2 DEF TypeOK, Start, ConnectionDown, lock
<1>4. ManagersOK'
  BY <1>1, <1>2 DEF ManagersOK, Flows
<1>5. (IdleAfter /\ OwnsTheConnection /\ LockIsFreed /\ SavedSoFar)'
  BY <1>1 DEF IdleAfter, OwnsTheConnection, LockIsFreed, SavedSoFar, Saved, lock
<1> QED
  BY <1>3, <1>4, <1>5

LEMMA ConnectionUpIsSound == ASSUME IInv, ConnectionUp PROVE IInv'
<1> USE Numbers DEF IInv
<1> DEFINE e == conns + 1
           held == ~firstConnection /\ controller # 0
           aborts == held /\ ~man[controller].aborted
<1>1. /\ e \in Syncs /\ sync[e] = "idle"
      /\ conns' = e /\ conn' = "CONNECTED" /\ firstConnection' = FALSE
      /\ UNCHANGED <<lock, stored, srv, faults>>
  BY DEF ConnectionUp, TypeOK, IdleAfter, Syncs
<1>2. held => controller \in Syncs
  BY DEF TypeOK, Syncs
<1>3. /\ sync' \in [Syncs -> Phases]
      /\ \A f \in Syncs \ {e} :
            \/ sync'[f] = sync[f]
            \/ aborts /\ f = controller /\ sync[f] = "stream" /\ sync'[f] = "shutdown"
      /\ aborts => sync'[controller] # "stream"
      /\ sync'[e] \in {"stopping", "reload", "setup"}
      /\ sync'[e] = "reload" => controller = 0
  BY <1>1, <1>2 DEF ConnectionUp, TypeOK, Phases
<1>4. /\ aborts => man' = [man EXCEPT ![controller] = Aborted(man[controller])]
      /\ ~aborts => man' = man
  BY DEF ConnectionUp
<1>5. \A f \in Syncs : man[f] \in Manager /\ Counts(man[f])
  BY DEF TypeOK, ManagersOK
<1>6. /\ man' \in [Syncs -> Manager]
      /\ \A f \in Syncs :
            /\ Counts(man'[f]) /\ Rested(man'[f])
            /\ man'[f].seen = man[f].seen /\ man'[f].acked = man[f].acked
            /\ man'[f].proc = man[f].proc /\ man'[f].work = man[f].work
            /\ man'[f].ended <=> man[f].ended
            /\ man'[f].alone <=> man[f].alone
            /\ man'[f].listening => man[f].listening
            /\ man[f].aborted => man'[f].aborted
      /\ aborts => man'[controller].aborted /\ ~man'[controller].listening
  <2>1. CASE aborts
    <3>1. man' = [man EXCEPT ![controller] = Aborted(man[controller])]
      BY <1>4, <2>1
    <3>2. controller \in Syncs
      BY <1>2, <2>1
    <3>3. Aborted(man[controller]) \in Manager
      BY <1>5, <3>2, AbortedIsSound
    <3> QED
      BY <1>5, <2>1, <3>1, <3>2, <3>3, AbortedIsSound DEF TypeOK, ManagersOK
  <2>2. CASE ~aborts
    BY <1>4, <2>2 DEF TypeOK, ManagersOK
  <2> QED
    BY <2>1, <2>2
<1> HIDE DEF e, aborts
<1>7. TypeOK'
  <2>1. conns' \in 0..MaxConns /\ controller' \in 0..MaxConns /\ faults' \in 0..MaxFaults
    BY <1>1 DEF TypeOK, lock, Syncs
  <2>2. /\ {firstConnection', handler'} \subseteq BOOLEAN
        /\ conn' \in {"CLOSED", "CONNECTING", "CONNECTED"}
    BY <1>1 DEF TypeOK, lock
  <2>3. srv' \in [Syncs -> Stream] /\ stored' \subseteq 1..Items
    BY <1>1 DEF TypeOK
  <2>4. \A f \in Syncs : man'[f].proc <= man'[f].seen
    BY <1>6 DEF Counts
  <2> QED
    BY <1>3, <1>6, <2>1, <2>2, <2>3, <2>4 DEF TypeOK
<1>8. ManagersOK'
  <2> SUFFICES ASSUME NEW f \in Syncs
               PROVE  /\ Counts(man'[f]) /\ Rested(man'[f])
                      /\ Flows(man'[f], srv'[f], sync'[f])
                      /\ Phased(man'[f], sync'[f])
    BY DEF ManagersOK, Syncs
  <2>1. Flows(man'[f], srv'[f], sync'[f])
    BY <1>1, <1>3, <1>6 DEF ManagersOK, Flows, Ended
  <2>2. Phased(man'[f], sync'[f])
    BY <1>1, <1>3, <1>6 DEF ManagersOK, Phased, Running, Before
  <2> QED
    BY <1>6, <2>1, <2>2
<1>9. IdleAfter'
  BY <1>1, <1>2, <1>3 DEF IdleAfter, TypeOK, e, aborts, Syncs
<1>10. OwnsTheConnection'
  BY <1>1, <1>3 DEF OwnsTheConnection, Running, lock
<1>11. LockIsFreed'
  BY <1>1, <1>3 DEF LockIsFreed, Running, lock, TypeOK, Syncs
<1>12. SavedSoFar'
  BY <1>1, <1>3, <1>6 DEF SavedSoFar, Saved, Running, OwnsTheConnection, Syncs
<1> QED
  BY <1>7, <1>8, <1>9, <1>10, <1>11, <1>12

LEMMA StopIsSound == ASSUME IInv, Stop PROVE IInv'
<1> USE Numbers DEF IInv
<1>1. /\ UNCHANGED <<conns, controller, faults>>
      /\ conn' = "CLOSED" /\ firstConnection' = TRUE /\ handler' = FALSE /\ stored' = {}
  BY DEF Stop
<1>2. /\ sync' \in [Syncs -> Phases]
      /\ \A f \in Syncs : \/ sync'[f] = sync[f]
                          \/ sync[f] = "stopping" /\ sync'[f] = "deaf"
  BY DEF Stop, TypeOK, Phases
<1>3. \A m \in Manager :
         LET r == [m EXCEPT !.listening = FALSE, !.alone = FALSE]
         IN  /\ r \in Manager /\ ~r.listening /\ ~r.alone
             /\ r.seen = m.seen /\ r.acked = m.acked
             /\ r.proc = m.proc /\ r.work = m.work
             /\ r.ended = m.ended /\ r.aborted = m.aborted
  BY DEF Manager
<1>4. man' = [f \in Syncs |-> [man[f] EXCEPT !.listening = FALSE, !.alone = FALSE]]
  BY DEF Stop
<1>5. /\ man' \in [Syncs -> Manager]
      /\ \A f \in Syncs :
            /\ man'[f].seen = man[f].seen /\ man'[f].acked = man[f].acked
            /\ man'[f].proc = man[f].proc /\ man'[f].work = man[f].work
            /\ man'[f].ended <=> man[f].ended
            /\ man'[f].aborted <=> man[f].aborted
            /\ ~man'[f].alone /\ ~man'[f].listening
  BY <1>3, <1>4 DEF TypeOK
<1>6. /\ srv' \in [Syncs -> Stream]
      /\ \A e \in Syncs : /\ srv'[e].sent = srv[e].sent /\ srv'[e].ack = srv[e].ack
                          /\ srv'[e].ended <=> srv[e].ended
  BY ClosedIsSound DEF Stop, TypeOK
<1>7. TypeOK'
  BY <1>1, <1>2, <1>5, <1>6 DEF TypeOK
<1>8. ManagersOK'
  <2> SUFFICES ASSUME NEW f \in Syncs
               PROVE  /\ Counts(man'[f]) /\ Rested(man'[f])
                      /\ Flows(man'[f], srv'[f], sync'[f])
                      /\ Phased(man'[f], sync'[f])
    BY DEF ManagersOK, Syncs
  <2>1. Counts(man'[f]) /\ Rested(man'[f])
    BY <1>5 DEF ManagersOK, Counts, Rested
  <2>2. Flows(man'[f], srv'[f], sync'[f])
    BY <1>2, <1>5, <1>6 DEF ManagersOK, Flows, Ended
  <2>3. Phased(man'[f], sync'[f])
    BY <1>2, <1>5 DEF ManagersOK, Phased, Running, Before
  <2> QED
    BY <2>1, <2>2, <2>3
<1>9. (IdleAfter /\ OwnsTheConnection /\ LockIsFreed /\ SavedSoFar)'
  BY <1>1, <1>2, <1>5 DEF IdleAfter, OwnsTheConnection, LockIsFreed, SavedSoFar, Running
<1> QED
  BY <1>7, <1>8, <1>9

\* A synchronisation moves and its manager and its stream stay as they are.
LEMMA PhaseStep ==
  ASSUME IInv, NEW e \in Syncs, NEW phase \in Phases,
         sync' = [sync EXCEPT ![e] = phase], sync[e] \in Before \ {"idle"},
         phase \notin Running, phase # "reload", stored' \subseteq 1..Items,
         sync[e] = "reload" \/ stored' = stored,
         UNCHANGED <<conn, conns, firstConnection, lock, man, srv, faults>>
  PROVE  IInv'
<1> USE Numbers DEF IInv
<1>1. TypeOK'
  BY DEF TypeOK, lock
<1>2. ManagersOK'
  <2> SUFFICES ASSUME NEW f \in Syncs
               PROVE  Flows(man[f], srv[f], sync'[f]) /\ Phased(man[f], sync'[f])
    BY DEF ManagersOK, Syncs
  <2>1. CASE f # e
    BY <2>1 DEF ManagersOK, TypeOK
  <2>2. CASE f = e
    BY <2>2 DEF ManagersOK, TypeOK, Flows, Phased, Running, Before, Ended
  <2> QED
    BY <2>1, <2>2
<1>3. (IdleAfter /\ OwnsTheConnection /\ LockIsFreed)'
  BY DEF IdleAfter, OwnsTheConnection, LockIsFreed, TypeOK, lock, Syncs, Before, Running
<1>4. SavedSoFar'
  BY DEF SavedSoFar, Saved, TypeOK, Before, Running
<1> QED
  BY <1>1, <1>2, <1>3, <1>4

LEMMA WaitIsSound ==
  ASSUME IInv, NEW e \in Syncs, StopStreamTimeout(e) \/ Reload(e)
  PROVE  IInv'
<1>1. CASE StopStreamTimeout(e)
  <2>1. "error" \in Phases /\ "error" \notin Running /\ sync[e] \in Before \ {"idle"}
    BY <1>1 DEF StopStreamTimeout, Phases, Running, Before
  <2>2. stored' \subseteq 1..Items
    BY <1>1 DEF StopStreamTimeout, IInv, TypeOK
  <2> QED
    BY <1>1, <2>1, <2>2, PhaseStep DEF StopStreamTimeout
<1>2. CASE Reload(e)
  <2>1. "setup" \in Phases /\ "setup" \notin Running /\ sync[e] \in Before \ {"idle"}
    BY <1>2 DEF Reload, Phases, Running, Before
  <2> QED
    BY <1>2, <2>1, PhaseStep DEF Reload
<1> QED
  BY <1>1, <1>2

LEMMA SetupIsSound == ASSUME IInv, NEW e \in Syncs, SetupStream(e) PROVE IInv'
<1> USE Numbers DEF IInv
<1>1. CASE controller # 0
  <2>1. "error" \in Phases /\ "error" \notin Running /\ sync[e] \in Before \ {"idle"}
    BY DEF SetupStream, Phases, Running, Before
  <2>2. stored' \subseteq 1..Items
    BY DEF SetupStream, TypeOK
  <2> QED
    BY <1>1, <2>1, <2>2, PhaseStep DEF SetupStream, lock
<1>2. CASE controller = 0
  <2> DEFINE free == \A f \in Syncs : sync[f] # "reload"
  <2>1. /\ sync[e] = "setup" /\ controller' = e /\ sync' = [sync EXCEPT ![e] = "stream"]
        /\ UNCHANGED <<conn, conns, firstConnection, handler, stored, faults>>
    BY <1>2 DEF SetupStream
  <2>2. man' = [man EXCEPT ![e] = [man[e] EXCEPT !.listening = TRUE,
                                                 !.loaded = PerMessage, !.alone = free]]
    BY <1>2, Zenon DEF SetupStream
  <2>3. \A m \in Manager, b \in BOOLEAN :
           LET r == [m EXCEPT !.listening = TRUE, !.loaded = PerMessage, !.alone = b]
           IN  /\ r \in Manager /\ (r.alone <=> b)
               /\ r.seen = m.seen /\ r.acked = m.acked
               /\ r.proc = m.proc /\ r.work = m.work
               /\ (r.ended <=> m.ended) /\ (r.aborted <=> m.aborted)
    BY DEF Manager
  <2>4. /\ man' \in [Syncs -> Manager]
        /\ \A f \in Syncs \ {e} : man'[f] = man[f]
        /\ man'[e].alone => free
        /\ man'[e].seen = man[e].seen /\ man'[e].acked = man[e].acked
        /\ man'[e].proc = man[e].proc /\ man'[e].work = man[e].work
        /\ man'[e].ended <=> man[e].ended
        /\ man'[e].aborted <=> man[e].aborted
    <3>1. free \in BOOLEAN /\ man[e] \in Manager
      BY DEF TypeOK
    <3> DEFINE r == [man[e] EXCEPT !.listening = TRUE, !.loaded = PerMessage, !.alone = free]
    <3>2. /\ r \in Manager /\ (r.alone <=> free)
          /\ r.seen = man[e].seen /\ r.acked = man[e].acked
          /\ r.proc = man[e].proc /\ r.work = man[e].work
          /\ (r.ended <=> man[e].ended) /\ (r.aborted <=> man[e].aborted)
      BY <2>3, <3>1, Zenon
    <3>3. man' = [man EXCEPT ![e] = r]
      BY <2>2, Zenon
    <3> HIDE DEF r, free
    <3> QED
      BY <3>2, <3>3 DEF TypeOK
  <2>5. /\ srv' \in [Syncs -> Stream]
        /\ \A f \in Syncs : /\ srv'[f].sent = srv[f].sent /\ srv'[f].ack = srv[f].ack
                            /\ srv'[f].ended <=> srv[f].ended
    <3>1. srv' = [srv EXCEPT ![e] = [srv[e] EXCEPT !.open = (conn = "CONNECTED"),
                                                   !.known = PerMessage]]
      BY <1>2, Zenon DEF SetupStream
    <3>2. \A s \in Stream, b \in BOOLEAN :
             LET r == [s EXCEPT !.open = b, !.known = PerMessage]
             IN  /\ r \in Stream /\ r.sent = s.sent /\ r.ack = s.ack
                 /\ r.ended <=> s.ended
      BY DEF Stream
    <3> DEFINE r == [srv[e] EXCEPT !.open = (conn = "CONNECTED"), !.known = PerMessage]
    <3>3. srv[e] \in Stream /\ (conn = "CONNECTED") \in BOOLEAN
      BY DEF TypeOK
    <3>4. /\ r \in Stream /\ r.sent = srv[e].sent /\ r.ack = srv[e].ack
          /\ r.ended <=> srv[e].ended
      BY <3>2, <3>3, Zenon
    <3>5. srv' = [srv EXCEPT ![e] = r]
      BY <3>1, Zenon
    <3> HIDE DEF r
    <3> QED
      BY <3>4, <3>5 DEF TypeOK
  <2>6. \A f \in Syncs : sync[f] \notin Running
    BY <1>2 DEF OwnsTheConnection, Syncs
  <2>7. sync' \in [Syncs -> Phases] /\ sync'[e] = "stream"
        /\ \A f \in Syncs \ {e} : sync'[f] = sync[f]
    BY <2>1 DEF TypeOK, Phases
  <2>8. man[e].seen = 0 /\ man[e].proc = 0
    <3>1. man[e].seen = 0 /\ man[e].proc <= man[e].seen
      BY <2>1 DEF ManagersOK, Phased, Before, TypeOK
    <3>2. man[e].proc \in Nat
      BY DEF TypeOK, Manager
    <3> QED
      BY <3>1, <3>2
  <2>9. TypeOK'
    <3>1. conns' \in 0..MaxConns /\ controller' \in 0..MaxConns /\ faults' \in 0..MaxFaults
      BY <2>1 DEF TypeOK, Syncs
    <3>2. /\ {firstConnection', handler'} \subseteq BOOLEAN
          /\ conn' \in {"CLOSED", "CONNECTING", "CONNECTED"}
          /\ stored' \subseteq 1..Items
      BY <2>1 DEF TypeOK
    <3>3. \A f \in Syncs : man'[f].proc <= man'[f].seen
      BY <2>4 DEF TypeOK
    <3> QED
      BY <2>4, <2>5, <2>7, <3>1, <3>2, <3>3 DEF TypeOK
  <2>10. ManagersOK'
    <3> SUFFICES ASSUME NEW f \in Syncs
                 PROVE  /\ Counts(man'[f]) /\ Rested(man'[f])
                        /\ Flows(man'[f], srv'[f], sync'[f])
                        /\ Phased(man'[f], sync'[f])
      BY DEF ManagersOK, Syncs
    <3>1. Counts(man'[f]) /\ Rested(man'[f])
      BY <2>4 DEF ManagersOK, Counts, Rested
    <3>2. Flows(man'[f], srv'[f], sync'[f])
      BY <2>1, <2>4, <2>5, <2>7 DEF ManagersOK, Flows, Ended
    <3>3. Phased(man'[f], sync'[f])
      BY <2>4, <2>7 DEF ManagersOK, Phased, Running, Before
    <3> QED
      BY <3>1, <3>2, <3>3
  <2>11. (IdleAfter /\ OwnsTheConnection /\ LockIsFreed)'
    BY <2>1, <2>6, <2>7 DEF IdleAfter, OwnsTheConnection, LockIsFreed, Running
  <2>12. SavedSoFar'
    <3> SUFFICES ASSUME sync'[e] \in Running, man'[e].alone
                 PROVE  /\ 1..Saved(e)' \subseteq stored'
                        /\ \A f \in Syncs : sync'[f] # "reload"
      BY <2>6, <2>7 DEF SavedSoFar, Syncs
    <3>1. man'[e].proc = 0 /\ 1..Saved(e)' = {}
      BY <2>4, <2>8 DEF Saved
    <3>2. \A f \in Syncs : sync'[f] # "reload"
      BY <2>4, <2>7
    <3> QED
      BY <3>1, <3>2
  <2> QED
    BY <2>9, <2>10, <2>11, <2>12
<1> QED
  BY <1>1, <1>2

-----------------------------------------------------------------------------
(* The manager *)

\* A manager moves on within its synchronisation: the connection, the lock and the
\* stream stay as they are.  It suffices that what it holds is sound.
LEMMA ManagerStep ==
  ASSUME IInv, NEW e \in Syncs, NEW r \in Manager, NEW phase \in Phases,
         man' = [man EXCEPT ![e] = r], sync' = [sync EXCEPT ![e] = phase],
         \/ phase = sync[e]
         \/ sync[e] \in Running /\ phase \in Running,
         Counts(r), Rested(r), Flows(r, srv[e], phase), Phased(r, phase),
         stored \subseteq stored', stored' \subseteq 1..Items,
         r.alone => man[e].alone,
         phase \in Running /\ r.alone =>
             1..(IF r.work = "idle" THEN r.proc ELSE r.proc - 1) \subseteq stored',
         faults' \in 0..MaxFaults,
         UNCHANGED <<conn, conns, firstConnection, lock, srv>>
  PROVE  IInv'
<1> USE Numbers DEF IInv
<1>1. /\ man' \in [Syncs -> Manager] /\ man'[e] = r
      /\ \A f \in Syncs \ {e} : man'[f] = man[f]
      /\ sync' \in [Syncs -> Phases] /\ sync'[e] = phase
      /\ \A f \in Syncs \ {e} : sync'[f] = sync[f]
  BY DEF TypeOK
<1>2. TypeOK'
  <2>1. \A f \in Syncs : man'[f].proc <= man'[f].seen
    BY <1>1 DEF TypeOK, Counts
  <2> QED
    BY <1>1, <2>1 DEF TypeOK, lock
<1>3. ManagersOK'
  BY <1>1 DEF ManagersOK, Syncs
<1>4. (IdleAfter /\ OwnsTheConnection /\ LockIsFreed)'
  BY <1>1 DEF IdleAfter, OwnsTheConnection, LockIsFreed, lock, Running, TypeOK, Syncs
<1>5. \A f \in Syncs : sync'[f] = "reload" <=> sync[f] = "reload"
  BY <1>1 DEF Running
<1>6. SavedSoFar'
  <2> SUFFICES ASSUME NEW f \in Syncs, sync'[f] \in Running, man'[f].alone
               PROVE  /\ 1..Saved(f)' \subseteq stored'
                      /\ \A g \in Syncs : sync'[g] # "reload"
    BY DEF SavedSoFar, Syncs
  <2>1. CASE f = e
    <3>1. 1..Saved(f)' \subseteq stored'
      BY <1>1, <2>1 DEF Saved
    <3>2. sync[e] \in Running /\ man[e].alone
      BY <1>1, <2>1
    <3> QED
      BY <1>5, <3>1, <3>2 DEF SavedSoFar
  <2>2. CASE f # e
    <3>1. Saved(f)' = Saved(f) /\ sync[f] \in Running /\ man[f].alone
      BY <1>1, <2>2 DEF Saved
    <3> QED
      BY <1>5, <3>1 DEF SavedSoFar
  <2> QED
    BY <2>1, <2>2
<1> QED
  BY <1>2, <1>3, <1>4, <1>6

\* What a manager and its stream are before a step.
LEMMA ManagerFacts ==
  ASSUME IInv, NEW e \in Syncs
  PROVE  /\ man[e] \in Manager /\ srv[e] \in Stream /\ sync[e] \in Phases
         /\ Counts(man[e]) /\ Rested(man[e])
         /\ Flows(man[e], srv[e], sync[e]) /\ Phased(man[e], sync[e])
         /\ {man[e].seen, man[e].proc, man[e].acked, srv[e].sent, srv[e].ack} \subseteq Nat
         /\ sync = [sync EXCEPT ![e] = sync[e]]
         /\ stored \subseteq 1..Items /\ faults \in 0..MaxFaults
         /\ sync[e] \in Running /\ man[e].alone => 1..Saved(e) \subseteq stored
<1> USE DEF IInv
<1>1. man[e] \in Manager /\ srv[e] \in Stream /\ sync[e] \in Phases
  BY DEF TypeOK
<1>2. {man[e].seen, man[e].proc, man[e].acked, srv[e].sent, srv[e].ack} \subseteq Nat
  BY <1>1 DEF Manager, Stream
<1>3. sync = [sync EXCEPT ![e] = sync[e]]
  BY DEF TypeOK
<1> QED
  BY <1>1, <1>2, <1>3 DEF ManagersOK, TypeOK, SavedSoFar

LEMMA ReceiveItemIsSound == ASSUME IInv, NEW e \in Syncs, ReceiveItem(e) PROVE IInv'
<1> USE Numbers
<1> DEFINE m == man[e]
           q == Enqueue(m)
           r == IF m.seen + 1 \in Addresses THEN [q EXCEPT !.batch = TRUE] ELSE q
<1>1. m.seen < srv[e].sent /\ m.listening
  BY DEF ReceiveItem
<1>2. Window # 0 => m.seen + 1 <= m.acked + Window
  BY <1>1, ManagerFacts DEF Flows
<1>3. /\ q \in Manager /\ Counts(q) /\ Rested(q)
      /\ q.seen = m.seen + 1 /\ m.acked <= q.acked
      /\ q.listening = m.listening /\ q.aborted = m.aborted
      /\ q.ended = m.ended /\ q.alone = m.alone
      /\ \/ q.work = m.work /\ q.proc = m.proc
         \/ m.work = "idle" /\ q.work = "busy" /\ q.proc = m.proc + 1
  BY <1>2, ManagerFacts, EnqueueIsSound
<1> HIDE DEF q
<1>4. /\ r \in Manager /\ r.seen = q.seen /\ r.acked = q.acked
      /\ r.proc = q.proc /\ r.work = q.work
      /\ r.listening <=> m.listening
      /\ r.aborted <=> m.aborted
      /\ r.ended <=> m.ended
      /\ r.alone <=> m.alone
  <2>1. CASE r = q
    BY <1>3, <2>1
  <2>2. CASE r = [q EXCEPT !.batch = TRUE]
    <3>1. /\ r \in Manager /\ r.seen = q.seen /\ r.acked = q.acked
          /\ r.proc = q.proc /\ r.work = q.work
          /\ r.listening = q.listening /\ r.aborted = q.aborted
          /\ r.ended = q.ended /\ r.alone = q.alone
      BY <1>3, <2>2 DEF Manager
    <3> QED
      BY <1>3, <3>1
  <2> QED
    BY <2>1, <2>2
<1>5. man' = [man EXCEPT ![e] = r]
  BY DEF ReceiveItem, q
<1> HIDE DEF r
<1>6. {q.seen, q.proc, q.acked} \subseteq Nat
  BY <1>3 DEF Manager
<1>7. Counts(r) /\ Rested(r)
  BY <1>3, <1>4 DEF Counts, Rested
<1>8. Flows(r, srv[e], sync[e])
  BY <1>1, <1>3, <1>4, <1>6, ManagerFacts DEF Flows
<1>9. Phased(r, sync[e])
  BY <1>1, <1>4, ManagerFacts DEF Phased, Before, Running
<1>10. sync[e] \in Running /\ r.alone =>
          1..(IF r.work = "idle" THEN r.proc ELSE r.proc - 1) \subseteq stored
  BY <1>3, <1>4, <1>6, ManagerFacts DEF Saved
<1>11. UNCHANGED <<conn, conns, firstConnection, lock, stored, sync, srv, faults>>
  BY DEF ReceiveItem
<1> QED
  BY <1>4, <1>5, <1>7, <1>8, <1>9, <1>10, <1>11, ManagerFacts, ManagerStep

LEMMA SaveItemIsSound == ASSUME IInv, NEW e \in Syncs, SaveItem(e) PROVE IInv'
<1> USE Numbers
<1> DEFINE m == man[e]
           r == Take(m)
<1>1. /\ m.work = "busy" /\ stored' = stored \cup {m.proc}
      /\ man' = [man EXCEPT ![e] = r]
      /\ UNCHANGED <<conn, conns, firstConnection, lock, sync, srv, faults>>
  BY DEF SaveItem
<1>2. /\ r \in Manager /\ Counts(r) /\ Rested(r)
      /\ r.seen = m.seen /\ m.acked <= r.acked
      /\ r.listening = m.listening /\ r.aborted = m.aborted
      /\ r.ended = m.ended /\ r.alone = m.alone
      /\ \/ r.work = "idle" /\ r.proc = m.proc
         \/ r.work = "busy" /\ r.proc = m.proc + 1
  BY ManagerFacts, TakeIsSound
<1> HIDE DEF r
<1>3. {r.seen, r.proc, r.acked} \subseteq Nat
  BY <1>2 DEF Manager
<1>4. Flows(r, srv[e], sync[e])
  BY <1>2, <1>3, ManagerFacts DEF Flows
<1>5. Phased(r, sync[e])
  BY <1>2, ManagerFacts DEF Phased, Before, Running
<1>6. m.proc \in 1..Items
  BY <1>1, ManagerFacts DEF Counts, Flows
<1>7. sync[e] \in Running /\ r.alone =>
          1..(IF r.work = "idle" THEN r.proc ELSE r.proc - 1) \subseteq stored'
  <2> SUFFICES ASSUME sync[e] \in Running, m.alone
               PROVE  1..(IF r.work = "idle" THEN r.proc ELSE r.proc - 1) \subseteq stored'
    BY <1>2
  <2>1. 1..(m.proc - 1) \subseteq stored
    BY <1>1, ManagerFacts DEF Saved
  <2>2. 1..m.proc \subseteq stored'
    BY <1>1, <1>6, <2>1, ManagerFacts
  <2> QED
    BY <1>2, <1>3, <1>6, <2>2
<1> QED
  BY <1>1, <1>2, <1>4, <1>5, <1>6, <1>7, ManagerFacts, ManagerStep

\* Steps that leave the counters alone.
LEMMA QuietStep ==
  ASSUME IInv, NEW e \in Syncs, NEW r \in Manager, NEW phase \in Phases,
         man' = [man EXCEPT ![e] = r], sync' = [sync EXCEPT ![e] = phase],
         \/ phase = sync[e]
         \/ sync[e] \in Running /\ phase \in Running,
         r.seen = man[e].seen, r.proc = man[e].proc, r.acked = man[e].acked,
         \/ r.work = man[e].work
         \/ man[e].work = "busy" /\ r.work = "stuck",
         r.ended => r.seen = Items,
         r.listening => man[e].listening, man[e].aborted => r.aborted,
         r.alone => man[e].alone,
         phase \in {"shutdown", "drain"} => r.aborted \/ r.ended,
         faults' \in 0..MaxFaults,
         UNCHANGED <<conn, conns, firstConnection, lock, stored, srv>>
  PROVE  IInv'
<1> USE Numbers
<1>1. Counts(r) /\ Rested(r)
  BY ManagerFacts DEF Counts, Rested
<1>2. Flows(r, srv[e], phase)
  BY ManagerFacts DEF Flows, Ended, Running
<1>3. Phased(r, phase)
  BY ManagerFacts DEF Phased, Before, Running
<1>4. phase \in Running /\ r.alone =>
          1..(IF r.work = "idle" THEN r.proc ELSE r.proc - 1) \subseteq stored'
  BY ManagerFacts DEF Saved
<1>5. stored' \subseteq 1..Items /\ stored \subseteq stored'
  BY ManagerFacts
<1> QED
  BY <1>1, <1>2, <1>3, <1>4, <1>5, ManagerStep

LEMMA SaveItemFailsIsSound == ASSUME IInv, NEW e \in Syncs, SaveItemFails(e) PROVE IInv'
<1> USE Numbers
<1> DEFINE m == man[e]
           r == [m EXCEPT !.work = "stuck"]
<1>1. /\ r \in Manager /\ r.work = "stuck"
      /\ r.seen = m.seen /\ r.proc = m.proc /\ r.acked = m.acked
      /\ r.listening = m.listening /\ r.aborted = m.aborted
      /\ r.ended = m.ended /\ r.alone = m.alone
  BY ManagerFacts DEF Manager
<1>2. /\ m.work = "busy" /\ man' = [man EXCEPT ![e] = r] /\ faults' \in 0..MaxFaults
      /\ UNCHANGED <<conn, conns, firstConnection, lock, stored, sync, srv>>
  BY StreamAssumption, ManagerFacts DEF SaveItemFails
<1>3. m.ended => m.seen = Items
  BY ManagerFacts DEF Flows
<1>4. sync[e] \in {"shutdown", "drain"} => m.aborted \/ m.ended
  BY ManagerFacts DEF Phased
<1> HIDE DEF r
<1> QED
  BY <1>1, <1>2, <1>3, <1>4, ManagerFacts, QuietStep

LEMMA GenerateIsSound == ASSUME IInv, NEW e \in Syncs, GenerateNextBatch(e) PROVE IInv'
<1> USE Numbers
<1> DEFINE m == man[e]
<1>1. UNCHANGED <<conn, conns, firstConnection, lock, stored, sync, srv, faults>>
  BY DEF GenerateNextBatch
<1>2. \/ man' = [man EXCEPT ![e] = [m EXCEPT !.batch = FALSE]]
      \/ man' = [man EXCEPT ![e] = [m EXCEPT !.loaded = @ + PerMessage]]
  BY DEF GenerateNextBatch
<1>3. PICK r \in Manager :
         /\ man' = [man EXCEPT ![e] = r]
         /\ r.seen = m.seen /\ r.proc = m.proc /\ r.acked = m.acked
         /\ r.work = m.work /\ r.listening = m.listening /\ r.aborted = m.aborted
         /\ r.ended = m.ended /\ r.alone = m.alone
  <2>1. CASE man' = [man EXCEPT ![e] = [m EXCEPT !.batch = FALSE]]
    <3> DEFINE r == [m EXCEPT !.batch = FALSE]
    <3>1. /\ r \in Manager
          /\ r.seen = m.seen /\ r.proc = m.proc /\ r.acked = m.acked
          /\ r.work = m.work /\ r.listening = m.listening /\ r.aborted = m.aborted
          /\ r.ended = m.ended /\ r.alone = m.alone
      BY Numbers, ManagerFacts DEF Manager
    <3>2. man' = [man EXCEPT ![e] = r]
      BY <2>1
    <3> HIDE DEF r
    <3> QED
      BY <3>1, <3>2
  <2>2. CASE man' = [man EXCEPT ![e] = [m EXCEPT !.loaded = @ + PerMessage]]
    <3> DEFINE r == [m EXCEPT !.loaded = @ + PerMessage]
    <3>1. /\ r \in Manager
          /\ r.seen = m.seen /\ r.proc = m.proc /\ r.acked = m.acked
          /\ r.work = m.work /\ r.listening = m.listening /\ r.aborted = m.aborted
          /\ r.ended = m.ended /\ r.alone = m.alone
      BY Numbers, ManagerFacts DEF Manager
    <3>2. man' = [man EXCEPT ![e] = r]
      BY <2>2
    <3> HIDE DEF r
    <3> QED
      BY <3>1, <3>2
  <2> QED
    BY <1>2, <2>1, <2>2
<1>4. m.ended => m.seen = Items
  BY ManagerFacts DEF Flows
<1>5. sync[e] \in {"shutdown", "drain"} => m.aborted \/ m.ended
  BY ManagerFacts DEF Phased
<1> QED
  BY <1>1, <1>3, <1>4, <1>5, ManagerFacts, QuietStep

LEMMA ReceiveEndIsSound == ASSUME IInv, NEW e \in Syncs, ReceiveEnd(e) PROVE IInv'
<1> USE Numbers
<1> DEFINE m == man[e]
           r == [m EXCEPT !.ended = TRUE]
           phase == IF sync[e] = "stream" THEN "shutdown" ELSE sync[e]
<1>1. /\ r \in Manager /\ r.ended
      /\ r.seen = m.seen /\ r.proc = m.proc /\ r.acked = m.acked
      /\ r.work = m.work /\ r.listening = m.listening /\ r.aborted = m.aborted
      /\ r.alone = m.alone
  BY ManagerFacts DEF Manager
<1>2. /\ man' = [man EXCEPT ![e] = r] /\ sync' = [sync EXCEPT ![e] = phase]
      /\ UNCHANGED <<conn, conns, firstConnection, lock, stored, srv, faults>>
      /\ srv[e].ended /\ m.seen = srv[e].sent
  BY DEF ReceiveEnd
<1>3. r.seen = Items
  BY <1>1, <1>2, ManagerFacts DEF Flows
<1>4. phase \in Phases /\ (phase = sync[e] \/ (sync[e] \in Running /\ phase \in Running))
  <2>1. CASE sync[e] = "stream"
    BY <2>1 DEF Phases, Running
  <2>2. CASE sync[e] # "stream"
    <3>1. sync[e] \in Phases
      BY DEF IInv, TypeOK
    <3>2. phase = sync[e]
      BY <2>2
    <3> HIDE DEF phase
    <3> QED
      BY <3>1, <3>2
  <2> QED
    BY <2>1, <2>2
<1> HIDE DEF r, phase
<1> QED
  BY <1>1, <1>2, <1>3, <1>4, ManagerFacts, QuietStep

LEMMA ReceiveErrorIsSound == ASSUME IInv, NEW e \in Syncs, ReceiveError(e) PROVE IInv'
<1> USE Numbers
<1> DEFINE m == man[e]
           r == IF m.aborted THEN m ELSE Aborted(m)
           phase == IF sync[e] = "stream" THEN "shutdown" ELSE sync[e]
<1>1. /\ r \in Manager /\ r.aborted
      /\ r.seen = m.seen /\ r.proc = m.proc /\ r.acked = m.acked /\ r.work = m.work
      /\ r.listening => m.listening
      /\ r.ended <=> m.ended
      /\ r.alone <=> m.alone
  BY ManagerFacts, AbortedIsSound
<1>2. /\ man' = [man EXCEPT ![e] = r] /\ sync' = [sync EXCEPT ![e] = phase]
      /\ UNCHANGED <<conn, conns, firstConnection, lock, stored, srv>>
      /\ faults' \in 0..MaxFaults
  BY StreamAssumption, ManagerFacts DEF ReceiveError, Abort
<1>3. m.ended => m.seen = Items
  BY ManagerFacts DEF Flows
<1>4. phase \in Phases /\ (phase = sync[e] \/ (sync[e] \in Running /\ phase \in Running))
  <2>1. CASE sync[e] = "stream"
    BY <2>1 DEF Phases, Running
  <2>2. CASE sync[e] # "stream"
    <3>1. sync[e] \in Phases
      BY DEF IInv, TypeOK
    <3>2. phase = sync[e]
      BY <2>2
    <3> HIDE DEF phase
    <3> QED
      BY <3>1, <3>2
  <2> QED
    BY <2>1, <2>2
<1> HIDE DEF r, phase
<1> QED
  BY <1>1, <1>2, <1>3, <1>4, ManagerFacts, QuietStep

LEMMA ShutdownIsSound == ASSUME IInv, NEW e \in Syncs, Shutdown(e) PROVE IInv'
<1> USE Numbers
<1> DEFINE m == man[e]
           r == IF m.work = "idle" THEN Take(m) ELSE m
<1>1. /\ sync[e] = "shutdown" /\ sync' = [sync EXCEPT ![e] = "drain"]
      /\ man' = [man EXCEPT ![e] = r]
      /\ UNCHANGED <<conn, conns, firstConnection, lock, stored, srv, faults>>
  BY DEF Shutdown
<1>2. /\ r \in Manager /\ Counts(r) /\ Rested(r)
      /\ r.seen = m.seen /\ m.acked <= r.acked
      /\ r.listening <=> m.listening
      /\ r.aborted <=> m.aborted
      /\ r.ended <=> m.ended
      /\ r.alone <=> m.alone
      /\ \/ r.work = m.work /\ r.proc = m.proc
         \/ m.work = "idle" /\ r.work = "busy" /\ r.proc = m.proc + 1
  BY ManagerFacts, TakeIsSound
<1> HIDE DEF r
<1>3. {r.seen, r.proc, r.acked} \subseteq Nat
  BY <1>2 DEF Manager
<1>4. Flows(r, srv[e], "drain")
  BY <1>1, <1>2, <1>3, ManagerFacts DEF Flows, Ended
<1>5. Phased(r, "drain")
  BY <1>1, <1>2, ManagerFacts DEF Phased, Before, Running
<1>6. r.alone => 1..(IF r.work = "idle" THEN r.proc ELSE r.proc - 1) \subseteq stored
  BY <1>1, <1>2, <1>3, ManagerFacts DEF Saved, Running
<1>7. "drain" \in Phases /\ "drain" \in Running /\ "shutdown" \in Running
  BY DEF Phases, Running
<1> QED
  BY <1>1, <1>2, <1>4, <1>5, <1>6, <1>7, ManagerFacts, ManagerStep

LEMMA FinishIsSound ==
  ASSUME IInv, NEW e \in Syncs, sync[e] = "drain", NEW failed \in BOOLEAN, Finish(e, failed)
  PROVE  IInv'
<1> USE Numbers DEF IInv
<1> DEFINE m == man[e]
           n == IF m.work = "idle" THEN NewManager ELSE m
           r == [n EXCEPT !.listening = FALSE, !.aborted = TRUE]
           phase == IF failed THEN "error" ELSE "done"
<1>1. /\ man' = [man EXCEPT ![e] = r] /\ srv' = [srv EXCEPT ![e] = NewStream]
      /\ controller' = IF handler THEN 0 ELSE controller
      /\ UNCHANGED <<conn, conns, firstConnection, handler, stored, faults>>
  BY DEF Finish
<1>2. sync' = [f \in Syncs |-> IF f = e THEN phase
                               ELSE IF sync[f] = "stopping" THEN "reload" ELSE sync[f]]
  BY Zenon DEF Finish
<1>3. phase \in Ended
  BY DEF Ended
<1>4. /\ n \in Manager /\ Counts(n) /\ n.seen <= Items
      /\ n.ended => n.seen = Items
  <2>1. NewManager.seen = 0 /\ ~NewManager.ended
    BY DEF NewManager
  <2> QED
    BY <2>1, NewManagerIsSound, ManagerFacts DEF Flows
<1> HIDE DEF n, phase
<1>5. /\ r \in Manager /\ ~r.listening /\ r.aborted
      /\ r.seen = n.seen /\ r.proc = n.proc /\ r.acked = n.acked
      /\ r.work = n.work /\ r.ended = n.ended
  BY <1>4 DEF Manager
<1> HIDE DEF r
<1>6. {n.seen, n.proc, n.acked} \subseteq Nat
  BY <1>4 DEF Manager
<1>7. Counts(r) /\ Rested(r)
  BY <1>4, <1>5, <1>6 DEF Counts, Rested
<1>8. Flows(r, NewStream, phase)
  BY <1>3, <1>4, <1>5, <1>6 DEF Flows, NewStream
<1>9. Phased(r, phase)
  BY <1>3, <1>5 DEF Phased, Before, Ended
<1>10. \A f \in Syncs \ {e} : sync[f] \notin Running
  BY DEF OwnsTheConnection, Running
<1>11. /\ sync' \in [Syncs -> Phases] /\ sync'[e] = phase
       /\ \A f \in Syncs \ {e} : \/ sync'[f] = sync[f]
                                 \/ sync[f] = "stopping" /\ sync'[f] = "reload"
  BY <1>2, <1>3 DEF TypeOK, Phases, Ended
<1>12. \A f \in Syncs : sync'[f] \notin Running
  BY <1>3, <1>10, <1>11 DEF Running, Ended
<1>13. TypeOK'
  <2>1. man' \in [Syncs -> Manager] /\ srv' \in [Syncs -> Stream]
    BY <1>1, <1>5, NewManagerIsSound DEF TypeOK
  <2>2. \A f \in Syncs : man'[f].proc <= man'[f].seen
    BY <1>1, <1>5, <1>7 DEF TypeOK, Counts
  <2>3. controller' \in 0..MaxConns
    BY <1>1 DEF TypeOK
  <2> QED
    BY <1>1, <1>11, <2>1, <2>2, <2>3 DEF TypeOK
<1>14. ManagersOK'
  <2> SUFFICES ASSUME NEW f \in Syncs
               PROVE  /\ Counts(man'[f]) /\ Rested(man'[f])
                      /\ Flows(man'[f], srv'[f], sync'[f])
                      /\ Phased(man'[f], sync'[f])
    BY DEF ManagersOK, Syncs
  <2>1. CASE f = e
    <3>1. man'[f] = r /\ srv'[f] = NewStream /\ sync'[f] = phase
      BY <1>1, <1>11, <2>1 DEF TypeOK
    <3> QED
      BY <1>7, <1>8, <1>9, <3>1
  <2>2. CASE f # e
    <3>1. man'[f] = man[f] /\ srv'[f] = srv[f]
      BY <1>1, <2>2 DEF TypeOK
    <3>2. Flows(man[f], srv[f], sync'[f])
      BY <1>11, <2>2 DEF ManagersOK, Flows, Ended
    <3>3. Phased(man[f], sync'[f])
      BY <1>11, <2>2 DEF ManagersOK, Phased, Before, Running
    <3> QED
      BY <3>1, <3>2, <3>3 DEF ManagersOK
  <2> QED
    BY <2>1, <2>2
<1>15. (IdleAfter /\ OwnsTheConnection /\ LockIsFreed /\ SavedSoFar)'
  BY <1>1, <1>11, <1>12 DEF IdleAfter, OwnsTheConnection, LockIsFreed, SavedSoFar, Syncs
<1> QED
  BY <1>13, <1>14, <1>15

-----------------------------------------------------------------------------
(* The fullnode *)

LEMMA ServerStep ==
  ASSUME IInv, NEW e \in Syncs, NEW s \in Stream, srv' = [srv EXCEPT ![e] = s],
         Flows(man[e], s, sync[e]),
         UNCHANGED <<conn, conns, firstConnection, lock, stored, sync, man, faults>>
  PROVE  IInv'
<1> USE Numbers DEF IInv
<1>1. srv' \in [Syncs -> Stream] /\ srv'[e] = s /\ \A f \in Syncs \ {e} : srv'[f] = srv[f]
  BY DEF TypeOK
<1>2. TypeOK'
  BY <1>1 DEF TypeOK, lock
<1>3. ManagersOK'
  BY <1>1 DEF ManagersOK, Syncs
<1>4. (IdleAfter /\ OwnsTheConnection /\ LockIsFreed /\ SavedSoFar)'
  BY DEF IdleAfter, OwnsTheConnection, LockIsFreed, SavedSoFar, Saved, lock
<1> QED
  BY <1>2, <1>3, <1>4

LEMMA ServedIsSound == ASSUME IInv, NEW e \in Syncs, Served(e) PROVE IInv'
<1> USE Numbers
<1>1. CASE ServerSends(e)
  <2> DEFINE s == [srv[e] EXCEPT !.sent = srv[e].sent + 1]
  <2>1. /\ srv' = [srv EXCEPT ![e] = s]
        /\ ~srv[e].ended /\ srv[e].sent + 1 <= Items
        /\ Window # 0 => srv[e].sent - srv[e].ack < Window
        /\ UNCHANGED <<conn, conns, firstConnection, lock, stored, sync, man, faults>>
    BY <1>1 DEF ServerSends
  <2>2. /\ s \in Stream /\ s.sent = srv[e].sent + 1
        /\ s.ack = srv[e].ack /\ s.ended = srv[e].ended
    BY ManagerFacts DEF Stream
  <2> HIDE DEF s
  <2>3. Flows(man[e], s, sync[e])
    BY <2>1, <2>2, ManagerFacts DEF Flows
  <2> QED
    BY <2>1, <2>2, <2>3, ServerStep
<1>2. CASE ServerEnds(e)
  <2> DEFINE s == [srv[e] EXCEPT !.ended = TRUE]
  <2>1. /\ srv' = [srv EXCEPT ![e] = s] /\ srv[e].sent = Items
        /\ UNCHANGED <<conn, conns, firstConnection, lock, stored, sync, man, faults>>
    BY <1>2 DEF ServerEnds
  <2>2. s \in Stream /\ s.sent = srv[e].sent /\ s.ack = srv[e].ack
    BY ManagerFacts DEF Stream
  <2> HIDE DEF s
  <2>3. Flows(man[e], s, sync[e])
    BY <2>1, <2>2, ManagerFacts DEF Flows
  <2> QED
    BY <2>1, <2>2, <2>3, ServerStep
<1>3. CASE ServerHears(e)
  <2> DEFINE a == man[e].acked
             k == man[e].loaded
             s == [srv[e] EXCEPT !.ack = a, !.known = k]
  <2>1. /\ srv' = [srv EXCEPT ![e] = s]
        /\ UNCHANGED <<conn, conns, firstConnection, lock, stored, sync, man, faults>>
    BY <1>3 DEF ServerHears
  <2>2. a \in Nat /\ k \in Nat
    BY ManagerFacts DEF Manager
  <2>4. s \in Stream /\ s.sent = srv[e].sent /\ s.ack = a /\ s.ended = srv[e].ended
    <3>1. srv[e] \in Stream
      BY ManagerFacts
    <3> HIDE DEF a, k
    <3> QED
      BY <2>2, <3>1 DEF Stream
  <2> HIDE DEF s
  <2>5. Flows(man[e], s, sync[e])
    BY <2>4, ManagerFacts DEF Flows
  <2> QED
    BY <2>1, <2>4, <2>5, ServerStep
<1> QED
  BY <1>1, <1>2, <1>3 DEF Served

-----------------------------------------------------------------------------
(* The theorems *)

LEMMA DrainIsSound ==
  ASSUME IInv, NEW e \in Syncs, Drained(e) \/ DrainTimeout(e)
  PROVE  IInv'
<1>1. CASE Drained(e)
  <2>1. man[e].aborted \in BOOLEAN
    BY ManagerFacts DEF Manager
  <2> QED
    BY <1>1, <2>1, FinishIsSound DEF Drained
<1>2. CASE DrainTimeout(e)
  BY <1>2, FinishIsSound DEF DrainTimeout
<1> QED
  BY <1>1, <1>2

LEMMA NextIsSound == IInv /\ [Next]_vars => IInv'
<1> SUFFICES ASSUME IInv, [Next]_vars PROVE IInv'
  OBVIOUS
<1>1. CASE Connected
  BY <1>1, StartIsSound, ConnectionUpIsSound, StopIsSound DEF Connected
<1>2. ASSUME NEW e \in Syncs, Managed(e) PROVE IInv'
  BY <1>2, WaitIsSound, SetupIsSound, ReceiveItemIsSound, SaveItemIsSound, GenerateIsSound,
     ReceiveEndIsSound, ShutdownIsSound, DrainIsSound DEF Managed
<1>3. ASSUME NEW e \in Syncs, Troubled(e) PROVE IInv'
  BY <1>3, SaveItemFailsIsSound, ReceiveErrorIsSound, WaitIsSound, DrainIsSound DEF Troubled
<1>4. CASE UNCHANGED vars
  BY <1>4 DEF vars, lock, IInv, TypeOK, ManagersOK, IdleAfter, OwnsTheConnection,
              LockIsFreed, SavedSoFar, Saved
<1> QED
  BY <1>1, <1>2, <1>3, <1>4, ServedIsSound DEF Next

LEMMA Inductive == Spec => []IInv
  BY InitIsSound, NextIsSound, PTL DEF Spec

\* Every variable keeps its type.
THEOREM TypeCorrect == Spec => []TypeOK
<1>1. IInv => TypeOK
  BY DEF IInv
<1> QED
  BY <1>1, Inductive, PTL

\* Two streams never run over one connection (StreamManager.setupStream()).
THEOREM AlwaysOwnsTheConnection == Spec => []OwnsTheConnection
<1>1. IInv => OwnsTheConnection
  BY DEF IInv
<1> QED
  BY <1>1, Inductive, PTL

\* Until the first stop(), every end of a stream frees the connection
\* (streamSyncHistory() and streamEndHandler()).
THEOREM LockIsAlwaysFreed == Spec => []LockIsFreed
<1>1. IInv => LockIsFreed
  BY DEF IInv
<1> QED
  BY <1>1, Inductive, PTL

\* The acknowledgements keep the queue below one window and a half, for any window
\* (StreamManager.shouldACK()).
THEOREM QueueIsAlwaysBounded == Spec => []QueueIsBounded
<1>1. ASSUME IInv, Window # 0, NEW e \in Syncs
      PROVE  2 * Queued(man[e]) < 3 * Window
  <2>1. /\ 2 * man[e].acked < 2 * man[e].proc + Window
        /\ man[e].seen <= man[e].acked + Window
    BY <1>1, ManagerFacts DEF Counts
  <2> QED
    BY <1>1, <2>1, Numbers, ManagerFacts DEF Queued
<1>2. IInv => QueueIsBounded
  BY <1>1 DEF QueueIsBounded
<1> QED
  BY <1>2, Inductive, PTL

\* A synchronisation that succeeds has left the whole history in the storage
\* (StreamManager.shutdown()).
THEOREM SuccessIsAlwaysComplete == Spec => SuccessIsComplete
<1> DEFINE Succeeds(e) == sync[e] = "drain" /\ sync'[e] = "done" /\ man[e].alone
<1>1. ASSUME IInv, NEW e \in Syncs, [Next]_vars, Succeeds(e)
      PROVE  Drained(e) /\ ~man[e].aborted
  <2>1. sync \in [Syncs -> Phases] /\ sync[e] = "drain" /\ sync'[e] = "done"
    BY <1>1 DEF IInv, TypeOK
  <2>2. CASE Connected
    <3>1. CASE Start \/ ConnectionDown
      BY <2>1, <3>1 DEF Start, ConnectionDown
    <3>2. CASE ConnectionUp
      BY <2>1, <3>2 DEF ConnectionUp
    <3>3. CASE Stop
      BY <2>1, <3>3 DEF Stop
    <3> QED
      BY <2>2, <3>1, <3>2, <3>3 DEF Connected
  <2>3. ASSUME NEW f \in Syncs, f # e, Managed(f) \/ Troubled(f)
        PROVE  FALSE
    <3>1. CASE Drained(f) \/ DrainTimeout(f)
      BY <2>1, <2>3, <3>1 DEF Drained, DrainTimeout, Finish
    <3>2. CASE Reload(f) \/ SetupStream(f) \/ ReceiveEnd(f) \/ Shutdown(f) \/ StopStreamTimeout(f)
      BY <2>1, <2>3, <3>2 DEF Reload, SetupStream, ReceiveEnd, Shutdown, StopStreamTimeout
    <3>3. CASE ReceiveItem(f) \/ SaveItem(f) \/ GenerateNextBatch(f) \/ SaveItemFails(f)
      BY <2>1, <2>3, <3>3 DEF ReceiveItem, SaveItem, GenerateNextBatch, SaveItemFails
    <3>4. CASE ReceiveError(f)
      BY <2>1, <2>3, <3>4 DEF ReceiveError, Abort
    <3> QED
      BY <2>3, <3>1, <3>2, <3>3, <3>4 DEF Managed, Troubled
  <2>4. CASE Managed(e) \/ Troubled(e)
    <3>1. CASE Drained(e)
      <4>1. man[e].aborted \in BOOLEAN
        BY <1>1, ManagerFacts DEF Manager
      <4> QED
        BY <2>1, <3>1, <4>1 DEF Drained, Finish
    <3>2. CASE DrainTimeout(e)
      BY <2>1, <3>2 DEF DrainTimeout, Finish
    <3>3. CASE Reload(e) \/ SetupStream(e) \/ ReceiveEnd(e) \/ Shutdown(e) \/ StopStreamTimeout(e)
      BY <2>1, <3>3 DEF Reload, SetupStream, ReceiveEnd, Shutdown, StopStreamTimeout
    <3>4. CASE ReceiveItem(e) \/ SaveItem(e) \/ GenerateNextBatch(e) \/ SaveItemFails(e)
      BY <2>1, <3>4 DEF ReceiveItem, SaveItem, GenerateNextBatch, SaveItemFails
    <3>5. CASE ReceiveError(e)
      BY <2>1, <3>5 DEF ReceiveError, Abort
    <3> QED
      BY <2>4, <3>1, <3>2, <3>3, <3>4, <3>5 DEF Managed, Troubled
  <2>5. \A f \in Syncs : ~Served(f)
    BY <2>1 DEF Served, ServerSends, ServerEnds, ServerHears
  <2>6. sync' # sync
    BY <2>1
  <2> QED
    BY <1>1, <2>2, <2>3, <2>4, <2>5, <2>6 DEF Next, vars
<1>2. ASSUME IInv, NEW e \in Syncs, Drained(e), ~man[e].aborted, Succeeds(e)
      PROVE  stored = 1..Items
  <2>1. man[e].proc = Items /\ man[e].work = "idle"
    BY <1>2, ManagerFacts DEF Drained, Phased, Flows, Rested
  <2>2. 1..Saved(e) \subseteq stored /\ stored \subseteq 1..Items
    BY <1>2, ManagerFacts DEF Running
  <2> QED
    BY <2>1, <2>2 DEF Saved
<1>3. IInv /\ [Next]_vars => [\A e \in Syncs : Succeeds(e) => stored = 1..Items]_vars
  BY <1>1, <1>2
<1> QED
  BY <1>3, Inductive, PTL DEF Spec, SuccessIsComplete

=============================================================================
