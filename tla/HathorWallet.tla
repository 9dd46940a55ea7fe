---------------------------- MODULE HathorWallet ----------------------------
(***************************************************************************)
(* The event side of the wallet of src/new/wallet.ts: how the connection,  *)
(* the history synchronisation, the queue of websocket transactions and    *)
(* stop() interleave over one storage.                                     *)
(*                                                                         *)
(* Every async function is a process whose steps are the runs between two  *)
(* awaits.  The connection is seen as ConnectionLifecycle promises it.     *)
(* The fullnode publishes versions of transactions; the storage keeps the  *)
(* last version saved of each one (history) and how many times each one is *)
(* counted in the metadata (balances and utxos, processNewTx and           *)
(* processHistory of src/utils/storage.ts): the effect of a transaction on *)
(* them is additive.                                                       *)
(***************************************************************************)
EXTENDS Naturals, Sequences, FiniteSets

CONSTANTS
    Txs,            \* transactions of the wallet, numbered in time order
    AddrOf,         \* the address index each one touches
    GapLimit,       \* addresses to keep loaded after the last used one
    MaxVer,         \* versions the fullnode publishes of a transaction, at most
    MaxConns,       \* connections that open, at most
    MaxCount,       \* times a transaction is counted, up to this value
    Plans           \* what may happen: see Plan

ASSUME WalletAssumption ==
    /\ Txs \subseteq Nat /\ IsFiniteSet(Txs)
    /\ AddrOf \in [Txs -> Nat]
    /\ GapLimit \in Nat \ {0}
    /\ {MaxVer, MaxConns} \subseteq Nat \ {0}
    /\ MaxCount \in Nat \ {0}
    /\ \A p \in Plans :
        /\ p.vers \in [Txs -> 0..MaxVer] /\ p.conns \in 1..MaxConns
        /\ {p.stops, p.fails} \subseteq Nat /\ p.calm \in BOOLEAN

VARIABLES
    \* the fullnode and the websocket
    server,         \* last version of every transaction
    conn,           \* state of the connection
    subscribed,     \* addresses subscribed on the connection
    wire,           \* messages on their way to the wallet
    \* fields of the wallet
    state, walletStopped, firstConnection,
    wsTxQueue,      \* messages parked by handleWebsocketMsg
    newTxPromise,   \* messages chained by enqueueOnNewTx and not started
    \* storage
    history, counted,
    loaded,         \* lastLoadedAddressIndex + 1
    used,           \* lastUsedAddressIndex + 1
    \* async functions in flight
    sync,           \* onConnectionChangedState(CONNECTED), per connection
    proc,           \* onEnterStateProcessing, per connection that ended its sync
    newTx,          \* onNewTx: 0 in the promise chain, e in processTxQueue of proc[e]
    stopping,       \* stop() waits for handleStop()
    \* bounds
    plan,           \* what may happen in this behaviour
    conns, stops, fails

fullnode == <<server, conn, subscribed, wire>>
fields == <<state, walletStopped, firstConnection, wsTxQueue, newTxPromise>>
storage == <<history, counted, loaded, used>>
tasks == <<sync, proc, newTx, stopping>>
bounds == <<plan, conns, stops, fails>>
vars == <<fullnode, fields, storage, tasks, bounds>>

-----------------------------------------------------------------------------
(* Data *)

WalletStates == {"CLOSED", "CONNECTING", "SYNCING", "PROCESSING", "READY", "ERROR"}

\* How far a behaviour goes: the versions published of every transaction, the
\* connections that open, the calls of stop() and the history requests that fail;
\* a calm one moves the connection and the user only between the wallet's tasks.
Plan(calm, vers, opened, stopped, failed) ==
    [calm |-> calm, vers |-> vers, conns |-> opened, stops |-> stopped, fails |-> failed]

Version == [ver : 0..MaxVer, voided : BOOLEAN]
NoVersion == [ver |-> 0, voided |-> FALSE]          \* not there
Page == [Txs -> Version]
NoPage == [t \in Txs |-> NoVersion]

Message == [tx : Txs, version : Version]

Conns == 1..MaxConns
Runners == 0..MaxConns

IdleLoad == [pc |-> "idle", from |-> 0, to |-> 0, page |-> NoPage]
IdleNewTx == [pc |-> "idle", tx |-> 0, version |-> NoVersion, stored |-> NoVersion,
              prev |-> "CLOSED", load |-> IdleLoad, todo |-> {}]
IdleProc == [pc |-> "idle", todo |-> {}]

Larger(a, b) == IF a > b THEN a ELSE b
Smallest(S) == CHOOSE t \in S : \A u \in S : t <= u

\* Faulty: nobody notices a transaction that is gone.
NextIsNeverGone(todo) == FALSE

\* historyIter(): the next transaction to process is not in the store any more.
NextIsGone(todo) == todo # {} /\ history[Smallest(todo)].ver = 0

Saved(h) == {t \in Txs : h[t].ver > 0}

\* How many times a transaction has to be counted, given the history.
Due(t) == IF history[t].ver > 0 /\ ~history[t].voided THEN 1 ELSE 0

\* processNewTx: one more time, voided transactions are ignored.
Credited(c, t, version) ==
    [c EXCEPT ![t] = IF version.voided \/ @ = MaxCount THEN @ ELSE @ + 1]

\* lastUsedAddressIndex + 1 after saving the transactions of the page p.
UsedAfter(p) ==
    LET touched == {AddrOf[t] + 1 : t \in Saved(p)}
    IN  CHOOSE n \in touched \cup {used} : \A m \in touched \cup {used} : m <= n

-----------------------------------------------------------------------------
(* Tasks in flight *)

TasksIdle ==
    /\ \A e \in Conns : sync[e].pc = "idle" /\ proc[e].pc = "idle"
    /\ \A r \in Runners : newTx[r].pc = "idle"
    /\ newTxPromise = <<>>
    /\ ~stopping

\* The environment acts now, or waits for the tasks when it is calm.
EnvironmentActs == plan.calm => TasksIdle

Init ==
    /\ plan \in Plans
    /\ server = NoPage
    /\ conn = "CLOSED"
    /\ subscribed = {}
    /\ wire = <<>>
    /\ state = "CLOSED"
    /\ walletStopped = FALSE
    /\ firstConnection = TRUE
    /\ wsTxQueue = <<>>
    /\ newTxPromise = <<>>
    /\ history = NoPage
    /\ counted = [t \in Txs |-> 0]
    /\ loaded = 0
    /\ used = 0
    /\ sync = [e \in Conns |-> IdleLoad]
    /\ proc = [e \in Conns |-> IdleProc]
    /\ newTx = [r \in Runners |-> IdleNewTx]
    /\ stopping = FALSE
    /\ conns = 0
    /\ stops = 0
    /\ fails = 0

-----------------------------------------------------------------------------
(* The fullnode *)

\* A transaction is new, gets new metadata or changes its voided flag; the
\* connection hears of it if the address is subscribed.
Publish(t, voided) ==
    /\ server[t].ver < plan.vers[t]
    /\ LET version == [ver |-> server[t].ver + 1, voided |-> voided]
       IN  /\ server' = [server EXCEPT ![t] = version]
           /\ wire' = IF conn = "CONNECTED" /\ AddrOf[t] \in subscribed
                      THEN Append(wire, [tx |-> t, version |-> version])
                      ELSE wire
    /\ UNCHANGED <<conn, subscribed, fields, storage, tasks, bounds>>

\* Faulty: a message that comes before READY is dropped.
HandleWebsocketMsgReady ==
    /\ wire # <<>>
    /\ wire' = Tail(wire)
    /\ newTxPromise' = IF state = "READY" THEN Append(newTxPromise, Head(wire))
                                          ELSE newTxPromise
    /\ UNCHANGED <<server, conn, subscribed, state, walletStopped, firstConnection,
                   wsTxQueue, storage, tasks, bounds>>

\* handleWebsocketMsg()
HandleWebsocketMsg ==
    /\ wire # <<>>
    /\ wire' = Tail(wire)
    /\ IF state # "READY"
       THEN /\ wsTxQueue' = Append(wsTxQueue, Head(wire))
            /\ UNCHANGED newTxPromise
       ELSE /\ newTxPromise' = Append(newTxPromise, Head(wire))
            /\ UNCHANGED wsTxQueue
    /\ UNCHANGED <<server, conn, subscribed, state, walletStopped, firstConnection,
                   storage, tasks, bounds>>

-----------------------------------------------------------------------------
(* The connection, start() and stop() *)

\* start() to its conn.start(), which announces CONNECTING.
Start ==
    /\ conn = "CLOSED"
    /\ EnvironmentActs
    /\ ~stopping
    /\ conns < plan.conns
    /\ walletStopped' = FALSE
    /\ conn' = "CONNECTING"
    /\ state' = "CONNECTING"
    /\ UNCHANGED <<server, subscribed, wire, firstConnection, wsTxQueue, newTxPromise,
                   storage, tasks, bounds>>

\* onConnectionChangedState(CONNECTED): SYNCING, and the first connection loads
\* the history while the others clean the storage first.
ConnectionUp ==
    /\ conn = "CONNECTING"
    /\ EnvironmentActs
    /\ conns < plan.conns
    /\ conns' = conns + 1
    /\ conn' = "CONNECTED"
    /\ state' = "SYNCING"
    /\ firstConnection' = FALSE
    /\ sync' = [sync EXCEPT ![conns + 1] =
                  [IdleLoad EXCEPT !.pc = IF firstConnection THEN "subscribe" ELSE "reload",
                                   !.to = GapLimit]]
    /\ UNCHANGED <<server, subscribed, wire, walletStopped, wsTxQueue, newTxPromise,
                   storage, proc, newTx, stopping, plan, stops, fails>>

\* onConnectionChangedState(CONNECTING): the messages and subscriptions of the
\* connection are gone.
ConnectionDown ==
    /\ conn = "CONNECTED"
    /\ EnvironmentActs
    /\ conns < plan.conns
    /\ conn' = "CONNECTING"
    /\ subscribed' = {}
    /\ wire' = <<>>
    /\ state' = IF walletStopped THEN "CLOSED" ELSE "CONNECTING"
    /\ UNCHANGED <<server, walletStopped, firstConnection, wsTxQueue, newTxPromise,
                   storage, tasks, bounds>>

\* stop() to its first await: the flag first, then CLOSED.
Stop ==
    /\ conn # "CLOSED"
    /\ ~stopping
    /\ EnvironmentActs
    /\ stops < plan.stops
    /\ stops' = stops + 1
    /\ walletStopped' = TRUE
    /\ state' = "CLOSED"
    /\ stopping' = TRUE
    /\ UNCHANGED <<fullnode, firstConnection, wsTxQueue, newTxPromise, storage, sync,
                   proc, newTx, plan, conns, fails>>

\* The rest of stop(): handleStop() cleans the history, conn.stop() is silent.
StopEnd ==
    /\ stopping
    /\ stopping' = FALSE
    /\ history' = NoPage
    /\ counted' = [t \in Txs |-> 0]
    /\ firstConnection' = TRUE
    /\ conn' = "CLOSED"
    /\ subscribed' = {}
    /\ wire' = <<>>
    /\ UNCHANGED <<server, state, walletStopped, wsTxQueue, newTxPromise, loaded, used,
                   sync, proc, newTx, bounds>>

-----------------------------------------------------------------------------
(* syncHistory(): apiSyncHistory over the gap limit, as a loop of three      *)
(* steps on a record l with the addresses from..to-1                         *)

\* loadAddresses(), then the subscription: lost if the websocket is not connected.
LoadSubscribe(l) ==
    /\ l.pc = "subscribe"
    /\ loaded' = Larger(loaded, l.to)
    /\ subscribed' = IF conn = "CONNECTED" THEN subscribed \cup (l.from .. l.to - 1)
                                           ELSE subscribed
    /\ UNCHANGED <<history, used>>

\* The answer of the fullnode for those addresses, on its way.
LoadFetch(l) ==
    /\ l.pc = "fetch"
    /\ UNCHANGED <<subscribed, history, loaded, used>>

Fetched(l) ==
    [l EXCEPT !.pc = "save",
              !.page = [t \in Txs |-> IF AddrOf[t] \in l.from .. l.to - 1
                                      THEN server[t] ELSE NoVersion]]

\* addTx() of the transactions of the page.
LoadSave(l) ==
    /\ l.pc = "save"
    /\ history' = [t \in Txs |-> IF l.page[t].ver > 0 THEN l.page[t] ELSE history[t]]
    /\ used' = UsedAfter(l.page)
    /\ UNCHANGED <<subscribed, loaded>>

\* Faulty: one address short of the gap.
MoreToLoadShort(l, u) ==
    IF u + GapLimit > loaded + 1
    THEN [l EXCEPT !.pc = "subscribe", !.from = loaded, !.to = u + GapLimit,
                   !.page = NoPage]
    ELSE [IdleLoad EXCEPT !.pc = "done"]

\* checkGapLimit(): the next addresses to load, or none.
MoreToLoad(l, u) ==
    IF u + GapLimit > loaded
    THEN [l EXCEPT !.pc = "subscribe", !.from = loaded, !.to = u + GapLimit,
                   !.page = NoPage]
    ELSE [IdleLoad EXCEPT !.pc = "done"]

\* One step of the load l, and the load that is left.
LoadStep(l) == LoadSubscribe(l) \/ LoadFetch(l) \/ LoadSave(l)

Loads(l) ==
    CASE l.pc = "subscribe" -> [l EXCEPT !.pc = "fetch"]
      [] l.pc = "fetch"     -> Fetched(l)
      [] l.pc = "save"      -> MoreToLoad(l, UsedAfter(l.page))
      [] OTHER              -> l

\* A request of the load l fails for good.
LoadFails(l) ==
    /\ l.pc = "fetch"
    /\ fails < plan.fails
    /\ fails' = fails + 1

-----------------------------------------------------------------------------
(* onConnectionChangedState(CONNECTED), after its first await *)

\* reloadStorage(): unsubscribe everything and clean the storage.
SyncReload(e) ==
    /\ sync[e].pc = "reload"
    /\ sync' = [sync EXCEPT ![e].pc = "subscribe"]
    /\ subscribed' = IF conn = "CONNECTED" THEN subscribed \ (0 .. loaded - 1) ELSE subscribed
    /\ history' = NoPage
    /\ counted' = [t \in Txs |-> 0]
    /\ loaded' = 0
    /\ used' = 0
    /\ UNCHANGED <<server, conn, wire, fields, proc, newTx, stopping, bounds>>

\* syncHistory()
SyncLoad(e) ==
    /\ LoadStep(sync[e])
    /\ sync' = [sync EXCEPT ![e] = Loads(sync[e])]
    /\ UNCHANGED <<server, conn, wire, fields, counted, proc, newTx, stopping, bounds>>

SyncFails(e) ==
    /\ LoadFails(sync[e])
    /\ sync' = [sync EXCEPT ![e] = IdleLoad]
    /\ state' = "ERROR"
    /\ UNCHANGED <<fullnode, walletStopped, firstConnection, wsTxQueue, newTxPromise,
                   storage, proc, newTx, stopping, plan, conns, stops>>

\* Faulty: the field is set and nobody starts the processing.
SyncEndQuietly(e) ==
    /\ sync[e].pc = "done"
    /\ sync' = [sync EXCEPT ![e] = IdleLoad]
    /\ state' = "PROCESSING"
    /\ UNCHANGED <<fullnode, walletStopped, firstConnection, wsTxQueue, newTxPromise,
                   storage, proc, newTx, stopping, bounds>>

\* setState(PROCESSING) starts onEnterStateProcessing() if the state changes.
SyncEnd(e) ==
    /\ sync[e].pc = "done"
    /\ sync' = [sync EXCEPT ![e] = IdleLoad]
    /\ state' = "PROCESSING"
    /\ proc' = IF state # "PROCESSING" THEN [proc EXCEPT ![e].pc = "drain"] ELSE proc
    /\ UNCHANGED <<fullnode, walletStopped, firstConnection, wsTxQueue, newTxPromise,
                   storage, newTx, stopping, bounds>>

-----------------------------------------------------------------------------
(* onNewTx() *)

\* The entry of onNewTx(m) in runner r: nothing at all if the wallet was stopped.
Entered(m) ==
    IF walletStopped THEN IdleNewTx
    ELSE [IdleNewTx EXCEPT !.pc = "add", !.tx = m.tx, !.version = m.version,
                           !.stored = history[m.tx]]

\* The next message of the promise chain of enqueueOnNewTx().
ChainNext ==
    /\ newTx[0].pc = "idle"
    /\ newTxPromise # <<>>
    /\ newTxPromise' = Tail(newTxPromise)
    /\ newTx' = [newTx EXCEPT ![0] = Entered(Head(newTxPromise))]
    /\ UNCHANGED <<fullnode, state, walletStopped, firstConnection, wsTxQueue, storage,
                   sync, proc, stopping, bounds>>

\* onNewTx() of runner r is over; processTxQueue() goes on with the queue.
Leave(r) ==
    /\ newTx' = [newTx EXCEPT ![r] = IdleNewTx]
    /\ proc' = IF r \in Conns THEN [proc EXCEPT ![r].pc = "drain"] ELSE proc

\* addTx(), then scanAddressesToLoad() looks whether more addresses are needed.
AddTx(r) ==
    LET n == newTx[r]
        u == UsedAfter([NoPage EXCEPT ![n.tx] = n.version])
    IN  /\ n.pc = "add"
        /\ history' = [history EXCEPT ![n.tx] = n.version]
        /\ used' = u
        /\ newTx' = [newTx EXCEPT ![r].pc = "scan", ![r].load = MoreToLoad(IdleLoad, u)]
        /\ UNCHANGED <<fullnode, fields, counted, loaded, sync, proc, stopping, bounds>>

\* scanAddressesToLoad(): syncHistory() that does not process what it finds.
Scan(r) ==
    /\ newTx[r].pc = "scan"
    /\ LoadStep(newTx[r].load)
    /\ newTx' = [newTx EXCEPT ![r].load = Loads(newTx[r].load)]
    /\ UNCHANGED <<server, conn, wire, fields, counted, sync, proc, stopping, bounds>>

\* It throws: the promise chain logs it, onEnterStateProcessing() is in ERROR.
ScanFails(r) ==
    /\ newTx[r].pc = "scan"
    /\ LoadFails(newTx[r].load)
    /\ newTx' = [newTx EXCEPT ![r] = IdleNewTx]
    /\ proc' = IF r \in Conns THEN [proc EXCEPT ![r] = IdleProc] ELSE proc
    /\ state' = IF r \in Conns THEN "ERROR" ELSE state
    /\ UNCHANGED <<fullnode, walletStopped, firstConnection, wsTxQueue, newTxPromise,
                   storage, sync, stopping, plan, conns, stops>>

\* Faulty: every message is processed as a new transaction.
MarkNew(r) ==
    LET n == newTx[r]
    IN  /\ n.pc = "scan"
        /\ n.load.pc = "done"
        /\ state' = "PROCESSING"
        /\ newTx' = [newTx EXCEPT ![r] =
              [n EXCEPT !.prev = state, !.load = IdleLoad, !.pc = "credit"]]
        /\ UNCHANGED <<fullnode, walletStopped, firstConnection, wsTxQueue, newTxPromise,
                       storage, sync, proc, stopping, bounds>>

\* previousState and PROCESSING, set on the field: no event and no queue drained.
Mark(r) ==
    LET n == newTx[r]
    IN  /\ n.pc = "scan"
        /\ n.load.pc = "done"
        /\ state' = "PROCESSING"
        /\ newTx' = [newTx EXCEPT ![r] =
              [n EXCEPT !.prev = state, !.load = IdleLoad,
                        !.pc = IF n.stored.ver = 0 THEN "credit"
                               ELSE IF n.stored.voided # n.version.voided THEN "clean"
                               ELSE "finish"]]
        /\ UNCHANGED <<fullnode, walletStopped, firstConnection, wsTxQueue, newTxPromise,
                       storage, sync, proc, stopping, bounds>>

\* storage.processNewTx()
Credit(r) ==
    /\ newTx[r].pc = "credit"
    /\ counted' = Credited(counted, newTx[r].tx, newTx[r].version)
    /\ newTx' = [newTx EXCEPT ![r].pc = "finish"]
    /\ UNCHANGED <<fullnode, fields, history, loaded, used, sync, proc, stopping, bounds>>

\* storage.processHistory(): the metadata is cleaned, then every transaction is
\* processed in turn; one that is gone makes it throw.
CleanMetadata(r) ==
    /\ newTx[r].pc = "clean"
    /\ counted' = [t \in Txs |-> 0]
    /\ newTx' = [newTx EXCEPT ![r].todo = Saved(history),
                              ![r].pc = IF Saved(history) = {} THEN "finish" ELSE "walk"]
    /\ UNCHANGED <<fullnode, fields, history, loaded, used, sync, proc, stopping, bounds>>

Walk(r) ==
    /\ newTx[r].pc = "walk"
    /\ newTx[r].todo # {}
    /\ LET t == Smallest(newTx[r].todo)
       IN  /\ history[t].ver > 0
           /\ counted' = Credited(counted, t, history[t])
           /\ newTx' = [newTx EXCEPT ![r].todo = @ \ {t},
                                     ![r].pc = IF newTx[r].todo = {t} THEN "finish" ELSE @]
    /\ UNCHANGED <<fullnode, fields, history, loaded, used, sync, proc, stopping, bounds>>

\* The finally block: PROCESSING is not left behind by an open wallet.
Restored(n) ==
    IF state = "PROCESSING" /\ ~walletStopped THEN n.prev ELSE state

WalkThrows(r) ==
    /\ newTx[r].pc = "walk"
    /\ NextIsGone(newTx[r].todo)
    /\ newTx' = [newTx EXCEPT ![r] = IdleNewTx]
    /\ proc' = IF r \in Conns THEN [proc EXCEPT ![r] = IdleProc] ELSE proc
    /\ state' = IF r \in Conns THEN "ERROR" ELSE Restored(newTx[r])
    /\ UNCHANGED <<fullnode, walletStopped, firstConnection, wsTxQueue, newTxPromise,
                   storage, sync, stopping, bounds>>

\* A stopped wallet is left alone; else the state is restored and the
\* transaction is read again, if it is still there.
Finish(r) ==
    LET n == newTx[r]
    IN  /\ n.pc = "finish"
        /\ state' = IF walletStopped THEN state ELSE n.prev
        /\ IF walletStopped \/ history[n.tx].ver = 0
           THEN Leave(r)
           ELSE /\ newTx' = [newTx EXCEPT ![r].pc = "resave",
                                          ![r].version = history[n.tx]]
                /\ UNCHANGED proc
        /\ UNCHANGED <<fullnode, walletStopped, firstConnection, wsTxQueue, newTxPromise,
                       storage, sync, stopping, bounds>>

\* addTx() of what was read, and the finally block.
Resave(r) ==
    LET n == newTx[r]
    IN  /\ n.pc = "resave"
        /\ history' = [history EXCEPT ![n.tx] = n.version]
        /\ state' = Restored(n)
        /\ Leave(r)
        /\ UNCHANGED <<fullnode, walletStopped, firstConnection, wsTxQueue, newTxPromise,
                       counted, loaded, used, sync, stopping, bounds>>

-----------------------------------------------------------------------------
(* onEnterStateProcessing(): processTxQueue(), processHistory(), READY *)

ProcDequeue(e) ==
    /\ proc[e].pc = "drain"
    /\ wsTxQueue # <<>>
    /\ wsTxQueue' = Tail(wsTxQueue)
    /\ newTx' = [newTx EXCEPT ![e] = Entered(Head(wsTxQueue))]
    /\ proc' = IF walletStopped THEN proc ELSE [proc EXCEPT ![e].pc = "newTx"]
    /\ UNCHANGED <<fullnode, state, walletStopped, firstConnection, newTxPromise, storage,
                   sync, stopping, bounds>>

ProcClean(e) ==
    /\ proc[e].pc = "drain"
    /\ wsTxQueue = <<>>
    /\ counted' = [t \in Txs |-> 0]
    /\ proc' = [proc EXCEPT ![e] = [pc |-> "walk", todo |-> Saved(history)]]
    /\ UNCHANGED <<fullnode, fields, history, loaded, used, sync, newTx, stopping, bounds>>

ProcWalk(e) ==
    /\ proc[e].pc = "walk"
    /\ proc[e].todo # {}
    /\ LET t == Smallest(proc[e].todo)
       IN  /\ history[t].ver > 0
           /\ counted' = Credited(counted, t, history[t])
           /\ proc' = [proc EXCEPT ![e].todo = @ \ {t}]
    /\ UNCHANGED <<fullnode, fields, history, loaded, used, sync, newTx, stopping, bounds>>

\* setState(READY), or ERROR if a transaction of the walk is gone.
ProcEnd(e) ==
    /\ proc[e].pc = "walk"
    /\ proc[e].todo = {} \/ NextIsGone(proc[e].todo)
    /\ proc' = [proc EXCEPT ![e] = IdleProc]
    /\ state' = IF proc[e].todo = {} THEN "READY" ELSE "ERROR"
    /\ UNCHANGED <<fullnode, walletStopped, firstConnection, wsTxQueue, newTxPromise,
                   storage, sync, newTx, stopping, bounds>>

-----------------------------------------------------------------------------

SyncStep(e) == SyncReload(e) \/ SyncLoad(e) \/ SyncEnd(e)
ProcStep(e) == ProcDequeue(e) \/ ProcClean(e) \/ ProcWalk(e) \/ ProcEnd(e)
NewTxStep(r) == \/ AddTx(r) \/ Scan(r) \/ Mark(r) \/ Credit(r) \/ CleanMetadata(r)
                \/ Walk(r) \/ WalkThrows(r) \/ Finish(r) \/ Resave(r)

WalletStep ==
    \/ HandleWebsocketMsg \/ StopEnd \/ ChainNext
    \/ \E e \in Conns : SyncStep(e) \/ ProcStep(e)
    \/ \E r \in Runners : NewTxStep(r)

Environment ==
    \/ \E t \in Txs, voided \in BOOLEAN : Publish(t, voided)
    \/ Start \/ ConnectionUp \/ ConnectionDown \/ Stop
    \/ \E e \in Conns : SyncFails(e)
    \/ \E r \in Runners : ScanFails(r)

Next == WalletStep \/ Environment

Spec == Init /\ [][Next]_vars

\* The event loop runs every function that can go on and the connection delivers.
Fairness ==
    /\ WF_vars(HandleWebsocketMsg)
    /\ WF_vars(StopEnd)
    /\ WF_vars(ChainNext)
    /\ \A e \in Conns : WF_vars(SyncStep(e)) /\ WF_vars(ProcStep(e))
    /\ \A r \in Runners : WF_vars(NewTxStep(r))

FairSpec == Spec /\ Fairness

-----------------------------------------------------------------------------
(* Safety *)

\* READY and nothing in flight, and no request failed: onNewTx() gives up the
\* transaction whose addresses it cannot load.
AtRest == state = "READY" /\ TasksIdle /\ fails = 0
\* The same in a connection of a wallet that was not restarted: stop() keeps the
\* addresses loaded, and start() does not subscribe them again.
Connected == AtRest /\ conn = "CONNECTED" /\ stops = 0

\* When the wallet is READY and nothing is in flight, the balances count every
\* transaction of the history once, and the voided ones not at all: no overlap of
\* processNewTx and processHistory left a transaction out or counted it twice.
CountedOnce == AtRest => \A t \in Txs : counted[t] = Due(t)

\* When the wallet is READY, nothing is in flight and no message waits, the
\* history is the fullnode's for every loaded address: no transaction fell
\* between the subscription, the history request and the queue.  It is said of the
\* first connection: a message parked on it is replayed on the next one, over what
\* was loaded there.
HistoryCurrent ==
    AtRest /\ conn = "CONNECTED" /\ conns = 1 /\ wire = <<>> /\ wsTxQueue = <<>> =>
        \A t \in Txs : AddrOf[t] < loaded => history[t] = server[t]

\* When the wallet is READY and nothing is in flight, the gap after the last used
\* address is loaded, whoever used the address (the history, a message that was
\* parked, one that was chained).
GapKept == Connected => used + GapLimit <= loaded

\* When the wallet is READY and nothing is in flight, the fullnode will tell it of
\* the transactions of every loaded address: the addresses were subscribed on this
\* connection and not on one that is gone.
LoadedAreSubscribed ==
    Connected => 0 .. loaded - 1 \subseteq subscribed

\* The gap is loaded, and every address of it is watched.
GapIsWatched == GapKept /\ LoadedAreSubscribed

-----------------------------------------------------------------------------
(* Liveness *)

\* A wallet that synchronises becomes READY, unless a request fails, its
\* connection drops or it is stopped.
BecomesReady ==
    state = "SYNCING" ~> (state \in {"READY", "ERROR"} \/ conn # "CONNECTED")

\* What is in flight when the wallet is stopped comes to an end: no task waits for
\* a transaction that stop() removed under it.
StopQuiesces == walletStopped ~> (TasksIdle \/ ~walletStopped)

=============================================================================
