----------------------------- MODULE StreamSync -----------------------------
(***************************************************************************)
(* The history stream of src/sync/stream.ts and the stream lock of         *)
(* src/new/connection.ts: a StreamManager asks the fullnode for the        *)
(* history of the wallet, queues what arrives, saves it one item at a time *)
(* and acknowledges, over a connection that drops, reloads and is stopped. *)
(*                                                                         *)
(* The synchronisation e is the one started by the e-th connection; it has *)
(* its manager man[e] and, on the fullnode, the stream srv[e].  Items are  *)
(* numbered from 1 (the counters of the code start one below the first     *)
(* item).  Messages of a stream stay in order: those on their way are the  *)
(* ones the fullnode sent and the manager has not seen.                    *)
(***************************************************************************)
EXTENDS Naturals, FiniteSets

CONSTANTS
    Items,          \* items of the history: addresses and vertices
    Addresses,      \* the items that are addresses
    Window,         \* streamWindowSize, 0 when it is not configured
    Manual,         \* MANUAL_STREAM_WS, or XPUB_STREAM_WS
    PerMessage,     \* ADDRESSES_PER_MESSAGE
    MaxWindow,      \* MAX_WINDOW_SIZE
    MaxConns,       \* connections that open
    MaxFaults       \* errors of the fullnode, and items the storage fails to save

ASSUME StreamAssumption ==
    /\ {Items, Window, MaxFaults} \subseteq Nat
    /\ Addresses \subseteq 1..Items
    /\ Manual \in BOOLEAN
    /\ {PerMessage, MaxWindow, MaxConns} \subseteq Nat \ {0}
    /\ PerMessage <= MaxWindow

VARIABLES
    conn,           \* state of the connection
    conns,          \* connections so far
    firstConnection,
    controller,     \* the synchronisation streamController names, 0 for null
    handler,        \* the constructor's stream-end handler is registered
    stored,         \* the items in the storage
    sync,           \* where each synchronisation is
    man,            \* its StreamManager
    srv,            \* its stream on the fullnode
    faults

lock == <<controller, handler>>
vars == <<conn, conns, firstConnection, lock, stored, sync, man, srv, faults>>

Syncs == 1..MaxConns

\* stopping: stopStream() waits for stream-end; deaf: its listener is gone and only
\* its timer is left.  reload: before cleanStorage().  setup: before lockStream().
\* stream: the promise of streamSyncHistory().  shutdown and drain: shutdown() and
\* its wait for the queue.
Phases == {"idle", "stopping", "deaf", "reload", "setup", "stream", "shutdown", "drain",
           "done", "error"}
Running == {"stream", "shutdown", "drain"}

Manager == [listening : BOOLEAN,    \* the stream listener is registered
            aborted : BOOLEAN,      \* signal.aborted, and errorMessage is set
            ended : BOOLEAN,        \* hasReceivedEndStream
            work : {"idle", "busy", "stuck"},   \* processQueue(): stuck when it threw
            seen : Nat,             \* lastSeenSeq
            proc : Nat,             \* lastProcSeq
            acked : Nat,            \* lastAcked
            loaded : Nat,           \* addresses sent to the fullnode
            batch : BOOLEAN,        \* a call of generateNextBatch() is due
            alone : BOOLEAN]        \* nobody else cleans the storage (bookkeeping)
NewManager == [listening |-> FALSE, aborted |-> FALSE, ended |-> FALSE,
               work |-> "idle", seen |-> 0, proc |-> 0, acked |-> 0, loaded |-> 0,
               batch |-> FALSE, alone |-> FALSE]

\* What it sent, the last acknowledgement it got and the addresses it knows.
Stream == [open : BOOLEAN, sent : Nat, ack : Nat, known : Nat, ended : BOOLEAN]
NewStream == [open |-> FALSE, sent |-> 0, ack |-> 0, known |-> 0, ended |-> FALSE]

\* The addresses among the first n items.
AddressesIn(n) == Cardinality(Addresses \cap 1..n)

Init ==
    /\ conn = "CLOSED"
    /\ conns = 0
    /\ firstConnection = TRUE
    /\ controller = 0
    /\ handler = TRUE
    /\ stored = {}
    /\ sync = [e \in Syncs |-> "idle"]
    /\ man = [e \in Syncs |-> NewManager]
    /\ srv = [e \in Syncs |-> NewStream]
    /\ faults = 0

-----------------------------------------------------------------------------
(* The queue of a manager, as functions of its record m *)

Queued(m) == m.seen - m.proc

\* Faulty: more than a window must be seen.
ShouldAckLate(m, queued) ==
    /\ Window # 0
    /\ ~m.ended /\ ~m.aborted
    /\ m.seen - m.acked > Window
    /\ 2 * (m.proc - m.acked) > Window
    /\ 2 * queued <= Window

\* shouldACK(), with the number of items in the queue.
ShouldAck(m, queued) ==
    /\ Window # 0
    /\ ~m.ended /\ ~m.aborted
    /\ 2 * (m.seen - m.acked) > Window
    /\ 2 * (m.proc - m.acked) > Window
    /\ 2 * queued <= Window

\* ack(): what was seen, whether it is processed or not.
Ack(m, queued) == IF ShouldAck(m, queued) THEN [m EXCEPT !.acked = m.seen] ELSE m

\* The top of the loop of processQueue(): the next item is taken, or it ends.
Take(m) ==
    IF m.aborted THEN [m EXCEPT !.work = "idle"]
    ELSE IF m.seen > m.proc
         THEN [Ack(m, Queued(m) - 1) EXCEPT !.proc = @ + 1, !.work = "busy"]
         ELSE [Ack(m, 0) EXCEPT !.work = "idle"]

\* Faulty: what arrives is acknowledged at once.
EnqueueAcks(m) ==
    LET q == [m EXCEPT !.seen = @ + 1, !.acked = m.seen + 1]
    IN  IF m.work = "idle" THEN Take(q) ELSE q

\* addTx(), addAddress(): queued, and taken at once when the loop is not running.
Enqueue(m) ==
    LET q == [m EXCEPT !.seen = @ + 1]
    IN  IF m.work = "idle" THEN Take(q) ELSE q

\* abortWithError(): the listener is removed with the signal.
Aborted(m) == [m EXCEPT !.listening = FALSE, !.aborted = TRUE]

\* The synchronisation e is aborted: its promise resolves.
Abort(e) ==
    /\ man' = [man EXCEPT ![e] = IF @.aborted THEN @ ELSE Aborted(@)]
    /\ sync' = [sync EXCEPT ![e] = IF @ = "stream" THEN "shutdown" ELSE @]

-----------------------------------------------------------------------------
(* The connection *)

\* start()
Start ==
    /\ conn = "CLOSED"
    /\ conns < MaxConns
    /\ conn' = "CONNECTING"
    /\ UNCHANGED <<conns, firstConnection, lock, stored, sync, man, srv, faults>>

\* onConnectionChangedState(CONNECTED): the first connection loads the history, the
\* others reload it, stopStream() first, which aborts the stream that is locked.
ConnectionUp ==
    LET e == conns + 1
        held == ~firstConnection /\ controller # 0
        next == [sync EXCEPT ![e] = IF held THEN "stopping"
                                   ELSE IF firstConnection THEN "setup" ELSE "reload"]
    IN  /\ conn = "CONNECTING"
        /\ conns < MaxConns
        /\ conns' = e
        /\ conn' = "CONNECTED"
        /\ firstConnection' = FALSE
        /\ IF held /\ ~man[controller].aborted
           THEN /\ man' = [man EXCEPT ![controller] = Aborted(@)]
                /\ sync' = [next EXCEPT ![controller] =
                               IF @ = "stream" THEN "shutdown" ELSE @]
           ELSE /\ sync' = next
                /\ UNCHANGED man
        /\ UNCHANGED <<lock, stored, srv, faults>>

\* The websocket is lost, and the streams of the fullnode with it.
Disconnected == srv' = [e \in Syncs |-> [srv[e] EXCEPT !.open = FALSE]]

ConnectionDown ==
    /\ conn = "CONNECTED"
    /\ conn' = "CONNECTING"
    /\ Disconnected
    /\ UNCHANGED <<conns, firstConnection, lock, stored, sync, man, faults>>

\* stop() cleans the storage and removes every listener of the connection, stream-end
\* and the listener of a running stream included.
Stop ==
    /\ conn # "CLOSED"
    /\ conn' = "CLOSED"
    /\ firstConnection' = TRUE
    /\ handler' = FALSE
    /\ stored' = {}
    /\ man' = [e \in Syncs |-> [man[e] EXCEPT !.listening = FALSE, !.alone = FALSE]]
    /\ sync' = [e \in Syncs |-> IF sync[e] = "stopping" THEN "deaf" ELSE sync[e]]
    /\ Disconnected
    /\ UNCHANGED <<conns, controller, faults>>

\* STREAM_ABORT_TIMEOUT: stopStream() rejects and the synchronisation fails.
StopStreamTimeout(e) ==
    /\ sync[e] \in {"stopping", "deaf"}
    /\ sync' = [sync EXCEPT ![e] = "error"]
    /\ UNCHANGED <<conn, conns, firstConnection, lock, stored, man, srv, faults>>

\* reloadStorage() cleans the storage, whoever writes to it.
Reload(e) ==
    /\ sync[e] = "reload"
    /\ stored' = {}
    /\ sync' = [sync EXCEPT ![e] = "setup"]
    /\ UNCHANGED <<conn, conns, firstConnection, lock, man, srv, faults>>

-----------------------------------------------------------------------------
(* The manager *)

\* Faulty: a setup that fails ends the stream of the connection.
SetupStreamEnds(e) ==
    /\ sync[e] = "setup"
    /\ IF controller # 0
       THEN /\ sync' = [sync EXCEPT ![e] = "error"]
            /\ controller' = 0
            /\ UNCHANGED <<man, srv>>
       ELSE /\ controller' = e
            /\ sync' = [sync EXCEPT ![e] = "stream"]
            /\ man' = [man EXCEPT ![e].listening = TRUE, ![e].loaded = PerMessage,
                                  ![e].alone = \A f \in Syncs : sync[f] # "reload"]
            /\ srv' = [srv EXCEPT ![e].open = conn = "CONNECTED", ![e].known = PerMessage]
    /\ UNCHANGED <<conn, conns, firstConnection, handler, stored, faults>>

\* setupStream() and the start message, which is lost when nothing is connected.
SetupStream(e) ==
    /\ sync[e] = "setup"
    /\ IF controller # 0
       THEN /\ sync' = [sync EXCEPT ![e] = "error"]
            /\ UNCHANGED <<controller, man, srv>>
       ELSE /\ controller' = e
            /\ sync' = [sync EXCEPT ![e] = "stream"]
            /\ man' = [man EXCEPT ![e].listening = TRUE, ![e].loaded = PerMessage,
                                  ![e].alone = \A f \in Syncs : sync[f] # "reload"]
            /\ srv' = [srv EXCEPT ![e].open = conn = "CONNECTED", ![e].known = PerMessage]
    /\ UNCHANGED <<conn, conns, firstConnection, handler, stored, faults>>

\* The listener gets the next vertex or address; an address asks for a batch.
ReceiveItem(e) ==
    /\ srv[e].open /\ man[e].listening
    /\ man[e].seen < srv[e].sent
    /\ man' = [man EXCEPT ![e] = IF @.seen + 1 \in Addresses
                                 THEN [Enqueue(@) EXCEPT !.batch = TRUE] ELSE Enqueue(@)]
    /\ UNCHANGED <<conn, conns, firstConnection, lock, stored, sync, srv, faults>>

\* The item in hand is saved and the loop goes on.
SaveItem(e) ==
    /\ man[e].work = "busy"
    /\ stored' = stored \cup {man[e].proc}
    /\ man' = [man EXCEPT ![e] = Take(@)]
    /\ UNCHANGED <<conn, conns, firstConnection, lock, sync, srv, faults>>

\* The storage throws: processQueue() is rejected, with isProcessingQueue set.
SaveItemFails(e) ==
    /\ man[e].work = "busy"
    /\ faults < MaxFaults
    /\ faults' = faults + 1
    /\ man' = [man EXCEPT ![e].work = "stuck"]
    /\ UNCHANGED <<conn, conns, firstConnection, lock, stored, sync, srv>>

\* generateNextBatch(), again and again until the fullnode has enough addresses.
GenerateNextBatch(e) ==
    LET m == man[e]
        idle == \/ m.aborted \/ m.ended \/ ~Manual
                \/ m.loaded - AddressesIn(m.seen) > MaxWindow - PerMessage
    IN  /\ m.batch
        /\ man' = [man EXCEPT ![e] = IF idle THEN [m EXCEPT !.batch = FALSE]
                                     ELSE [m EXCEPT !.loaded = @ + PerMessage]]
        /\ UNCHANGED <<conn, conns, firstConnection, lock, stored, sync, srv, faults>>

\* The listener gets the end of the stream.
ReceiveEnd(e) ==
    /\ srv[e].open /\ man[e].listening
    /\ srv[e].ended /\ ~man[e].ended
    /\ man[e].seen = srv[e].sent
    /\ man' = [man EXCEPT ![e].ended = TRUE]
    /\ sync' = [sync EXCEPT ![e] = IF @ = "stream" THEN "shutdown" ELSE @]
    /\ UNCHANGED <<conn, conns, firstConnection, lock, stored, srv, faults>>

\* The listener gets an error of the fullnode.
ReceiveError(e) ==
    /\ srv[e].open /\ man[e].listening
    /\ ~srv[e].ended
    /\ faults < MaxFaults
    /\ faults' = faults + 1
    /\ Abort(e)
    /\ UNCHANGED <<conn, conns, firstConnection, lock, stored, srv>>

\* shutdown(): the batches, then what is left in the queue.
Shutdown(e) ==
    /\ sync[e] = "shutdown"
    /\ sync' = [sync EXCEPT ![e] = "drain"]
    /\ man' = [man EXCEPT ![e] = IF @.work = "idle" THEN Take(@) ELSE @]
    /\ UNCHANGED <<conn, conns, firstConnection, lock, stored, srv, faults>>

\* Faulty: `stream-end' is not emitted when the stream fails.
FinishQuietly(e, failed) ==
    /\ man' = [man EXCEPT ![e].listening = FALSE, ![e].aborted = TRUE]
    /\ srv' = [srv EXCEPT ![e] = NewStream]
    /\ IF failed
       THEN sync' = [sync EXCEPT ![e] = "error"] /\ UNCHANGED controller
       ELSE /\ sync' = [f \in Syncs |-> IF f = e THEN "done"
                            ELSE IF sync[f] = "stopping" THEN "reload" ELSE sync[f]]
            /\ controller' = IF handler THEN 0 ELSE controller
    /\ UNCHANGED <<conn, conns, firstConnection, handler, stored, faults>>

\* The end of streamSyncHistory(): the manager is aborted and `stream-end' frees the
\* lock and wakes the reload that waits for it.  What nothing uses is forgotten.
Finish(e, failed) ==
    /\ man' = [man EXCEPT ![e] = [IF @.work = "idle" THEN NewManager ELSE @
                                  EXCEPT !.listening = FALSE, !.aborted = TRUE]]
    /\ srv' = [srv EXCEPT ![e] = NewStream]
    /\ sync' = [f \in Syncs |-> IF f = e THEN IF failed THEN "error" ELSE "done"
                                ELSE IF sync[f] = "stopping" THEN "reload" ELSE sync[f]]
    /\ controller' = IF handler THEN 0 ELSE controller
    /\ UNCHANGED <<conn, conns, firstConnection, handler, stored, faults>>

\* Faulty: isQueueDone() and no wait for the item in hand.
DrainedEarly(e) ==
    /\ sync[e] = "drain"
    /\ man[e].work = "idle" \/ Queued(man[e]) = 0
    /\ Finish(e, man[e].aborted)

Drained(e) ==
    /\ sync[e] = "drain"
    /\ man[e].work = "idle"
    /\ Finish(e, man[e].aborted)

\* QUEUE_GRACEFUL_SHUTDOWN_LIMIT
DrainTimeout(e) ==
    /\ sync[e] = "drain"
    /\ man[e].work # "idle"
    /\ Finish(e, TRUE)

-----------------------------------------------------------------------------
(* The fullnode, as long as somebody listens *)

\* It sends the next item, if it knows the address and the window is not full.
ServerSends(e) ==
    LET s == srv[e]
        n == s.sent + 1
    IN  /\ s.open /\ ~s.ended /\ man[e].listening
        /\ n <= Items
        /\ Window # 0 => s.sent - s.ack < Window
        /\ Manual => AddressesIn(n) <= s.known
        /\ srv' = [srv EXCEPT ![e].sent = n]
        /\ UNCHANGED <<conn, conns, firstConnection, lock, stored, sync, man, faults>>

ServerEnds(e) ==
    /\ srv[e].open /\ ~srv[e].ended /\ man[e].listening
    /\ srv[e].sent = Items
    /\ srv' = [srv EXCEPT ![e].ended = TRUE]
    /\ UNCHANGED <<conn, conns, firstConnection, lock, stored, sync, man, faults>>

\* The acknowledgement and the addresses that were on their way.
ServerHears(e) ==
    /\ srv[e].open /\ man[e].listening
    /\ srv' = [srv EXCEPT ![e].ack = man[e].acked, ![e].known = man[e].loaded]
    /\ UNCHANGED <<conn, conns, firstConnection, lock, stored, sync, man, faults>>

-----------------------------------------------------------------------------

Connected == Start \/ ConnectionUp \/ ConnectionDown \/ Stop

Managed(e) ==
    \/ Reload(e) \/ SetupStream(e) \/ ReceiveItem(e) \/ SaveItem(e) \/ GenerateNextBatch(e)
    \/ ReceiveEnd(e) \/ Shutdown(e) \/ Drained(e)

Troubled(e) ==
    SaveItemFails(e) \/ ReceiveError(e) \/ StopStreamTimeout(e) \/ DrainTimeout(e)

Served(e) == ServerSends(e) \/ ServerEnds(e) \/ ServerHears(e)

Next == Connected \/ \E e \in Syncs : Managed(e) \/ Troubled(e) \/ Served(e)

Spec == Init /\ [][Next]_vars

\* The event loop runs what can go on, the timers fire, the fullnode sends what it
\* may and hears what it is told.
Fairness ==
    \A e \in Syncs :
        /\ WF_vars(ReceiveItem(e)) /\ WF_vars(SaveItem(e))
        /\ WF_vars(GenerateNextBatch(e)) /\ WF_vars(ReceiveEnd(e))
        /\ WF_vars(Shutdown(e)) /\ WF_vars(Drained(e)) /\ WF_vars(DrainTimeout(e))
        /\ WF_vars(ServerSends(e)) /\ WF_vars(ServerEnds(e)) /\ WF_vars(ServerHears(e))

FairSpec == Spec /\ Fairness

-----------------------------------------------------------------------------
(* Safety *)

\* The type of every variable.
TypeOK ==
    /\ conn \in {"CLOSED", "CONNECTING", "CONNECTED"}
    /\ conns \in 0..MaxConns
    /\ {firstConnection, handler} \subseteq BOOLEAN
    /\ controller \in 0..MaxConns
    /\ sync \in [Syncs -> Phases]
    /\ man \in [Syncs -> Manager]
    /\ srv \in [Syncs -> Stream]
    /\ faults \in 0..MaxFaults
    /\ stored \subseteq 1..Items
    /\ \A e \in Syncs : man[e].proc <= man[e].seen

\* The lock holds: a stream that is running owns the connection, so that no two run
\* at a time, although synchronisations of several connections overlap and one that
\* is refused the lock fails beside the one that has it.
OwnsTheConnection == \A e \in Syncs : sync[e] \in Running => controller = e

\* Unless the connection was stopped once, the lock is held only by a stream that is
\* running: every way a stream ends frees it, and the next reload is not refused.
LockIsFreed == handler /\ controller # 0 => sync[controller] \in Running

\* The items processed, without the one in hand.
Saved(e) == IF man[e].work = "idle" THEN man[e].proc ELSE man[e].proc - 1

\* A synchronisation that succeeds leaves every item of the history in the storage:
\* nothing is left in the queue or in hand, whatever was acknowledged and whatever an
\* earlier stream left.  The exceptions are a stop(), and a reload that was about to
\* clean the storage when the stream took the lock: it had seen nothing to stop.
SuccessIsComplete ==
    [][\A e \in Syncs :
          sync[e] = "drain" /\ sync'[e] = "done" /\ man[e].alone => stored = 1..Items]_vars

\* Acknowledging what was only seen, with items still in the queue, never lets the
\* queue reach one window and a half.
QueueIsBounded == Window # 0 => \A e \in Syncs : 2 * Queued(man[e]) < 3 * Window

-----------------------------------------------------------------------------
(* Liveness *)

\* A stream that the fullnode has open comes to an end, unless its connection drops:
\* the two never wait for each other, the one for an acknowledgement or an address
\* and the other for an item.  A storage that throws stops the queue for ever: nobody
\* aborts the stream, and its end is not sent to a window that stays full.
StreamSettles ==
    \A e \in Syncs :
        (sync[e] = "stream" /\ srv[e].open) ~>
            (sync[e] \in {"done", "error"} \/ ~srv[e].open \/ man[e].work = "stuck")

=============================================================================
