--------------------------- MODULE BaseWebSocket ---------------------------
(***************************************************************************)
(* The state and the handlers of src/websocket/base.ts: one managed        *)
(* websocket with its heartbeat, its pong timeout and its reconnection     *)
(* timer.  GenericWebSocket and WalletServiceWebSocket extend it the way   *)
(* the two subclasses extend the class.                                    *)
(*                                                                         *)
(* The sockets of the runtime are the members of Sockets.  A socket is     *)
(* created by setup(), used while it is `ws', terminated by closeWs() and  *)
(* goes back to the pool when the runtime has delivered its last event,    *)
(* which comes after terminate() returned.  `attached' is the set of       *)
(* sockets whose event handlers are the ones setup() installed (closeWs()  *)
(* replaces them with noops).                                              *)
(*                                                                         *)
(* A timer handle of JavaScript is a count of the timers of that kind that *)
(* will fire and the fact that the handle field names one of them: an      *)
(* overwritten handle leaves a timer nobody can clear any more.            *)
(***************************************************************************)
EXTENDS Naturals, FiniteSets

CONSTANTS
    Sockets,        \* sockets the runtime can create
    NoSocket,       \* the null value of the field ws
    MaxRetry,       \* retryAttempt is counted up to this value
    MaxDeferred     \* pings are not sent while so many are postponed

ASSUME SocketAssumption == /\ NoSocket \notin Sockets
                           /\ MaxRetry \in Nat \ {0}
                           /\ MaxDeferred \in Nat

VARIABLES
    ws,             \* the current socket or NoSocket
    sock,           \* life cycle of every socket, as the runtime sees it
    attached,       \* sockets whose handlers are installed
    dead,           \* sockets whose peer is gone without closing (half open)
    started,        \* the websocket was instantiated
    connected,      \* the connection is established (null is modelled as FALSE)
    isOnline,       \* last value announced with the `is_online' event
    latestPing,     \* latestPingDate is set: a ping waits for its pong
    due,            \* messages of each kind the peer of ws has to answer
    timers,         \* the timers of each kind
    deferred,       \* sends postponed by one second (readyState not OPEN)
    retryAttempt    \* failures since the last successful open

wsVars == <<ws, sock, attached, dead, started, connected, isOnline, latestPing,
            due, timers, deferred, retryAttempt>>

TimerKinds == {"setup", "pong", "heartbeat", "join"}   \* "join": wallet service only
MsgKinds == {"ping", "join"}   \* messages the peer answers
SocketStates == {"free", "connecting", "open", "closing", "terminated"}

WsTypeOK ==
    /\ ws \in Sockets \cup {NoSocket}
    /\ sock \in [Sockets -> SocketStates]
    /\ attached \subseteq Sockets
    /\ dead \subseteq Sockets
    /\ started \in BOOLEAN
    /\ connected \in BOOLEAN
    /\ isOnline \in BOOLEAN
    /\ latestPing \in BOOLEAN
    /\ due \in [MsgKinds -> BOOLEAN]
    /\ timers \in [TimerKinds -> [live: Nat, held: BOOLEAN]]
    /\ deferred \in [MsgKinds -> Nat]
    /\ retryAttempt \in 0..MaxRetry

WsInit ==
    /\ ws = NoSocket
    /\ sock = [s \in Sockets |-> "free"]
    /\ attached = {}
    /\ dead = {}
    /\ started = FALSE
    /\ connected = FALSE
    /\ isOnline = FALSE
    /\ latestPing = FALSE
    /\ due = [m \in MsgKinds |-> FALSE]
    /\ timers = [k \in TimerKinds |-> [live |-> 0, held |-> FALSE]]
    /\ deferred = [m \in MsgKinds |-> 0]
    /\ retryAttempt = 0

-----------------------------------------------------------------------------
(* Timers *)

\* this.handle = setTimeout(...): the previous handle is forgotten.
Armed(t, k) == [t EXCEPT ![k] = [live |-> t[k].live + 1, held |-> TRUE]]

\* clearTimeout(this.handle)
Cleared(t, k) ==
    [t EXCEPT ![k] = [live |-> IF t[k].held THEN t[k].live - 1 ELSE t[k].live,
                      held |-> FALSE]]

\* The values of the timers after one timer of kind k fired: the one the handle
\* names, or, when there is more than one, a forgotten one.
Fired(t, k) ==
    { [t EXCEPT ![k] = [live |-> t[k].live - 1, held |-> h]] :
        h \in {FALSE} \cup (IF t[k].live > 1 THEN {t[k].held} ELSE {}) }

-----------------------------------------------------------------------------
(* The handlers, as effects on the state *)

\* closeWs(): noop handlers, terminate, forget.  sk is the value of sock so far.
CloseWs(sk) ==
    /\ sock' = IF ws = NoSocket THEN sk ELSE [sk EXCEPT ![ws] = "terminated"]
    /\ attached' = attached \ {ws}
    /\ ws' = NoSocket
    /\ started' = FALSE
    /\ connected' = FALSE
    /\ due' = [m \in MsgKinds |-> FALSE]

\* setup(), called with the timers t.  The branch for a socket that was created
\* and is not started returns too: it compares seconds with milliseconds.
SetupSocket(t) ==
    /\ timers' = t
    /\ IF started \/ ws # NoSocket
       THEN UNCHANGED <<ws, sock, attached, started>>
       ELSE \E s \in Sockets :
              /\ sock[s] = "free"
              /\ ws' = s
              /\ sock' = [sock EXCEPT ![s] = "connecting"]
              /\ attached' = attached \cup {s}
              /\ started' = TRUE
    /\ UNCHANGED <<dead, connected, isOnline, latestPing, due, deferred, retryAttempt>>

\* Faulty: no reconnection is planned when one was planned before.
OnCloseOneRetry(sk, t) ==
    /\ CloseWs(sk)
    /\ isOnline' = FALSE
    /\ latestPing' = FALSE
    /\ timers' = Cleared(Cleared(IF retryAttempt > 0 THEN t ELSE Armed(t, "setup"), "pong"),
                         "heartbeat")
    /\ retryAttempt' = IF retryAttempt < MaxRetry THEN retryAttempt + 1 ELSE MaxRetry
    /\ UNCHANGED deferred

\* onClose(), with the sockets sk and the timers t.
OnClose(sk, t) ==
    /\ CloseWs(sk)
    /\ isOnline' = FALSE
    /\ latestPing' = FALSE
    /\ timers' = Cleared(Armed(Cleared(Cleared(t, "setup"), "pong"), "setup"),
                         "heartbeat")
    /\ retryAttempt' = IF retryAttempt < MaxRetry THEN retryAttempt + 1 ELSE MaxRetry
    /\ UNCHANGED deferred

\* sendMessage(m), with `postponed' sends of each kind waiting.  The field
\* isOnline is left to the caller when the websocket is connected.
SendMessage(m, postponed) ==
    /\ due' = [due EXCEPT ![m] = @ \/ (connected /\ sock[ws] = "open")]
    /\ deferred' = [postponed EXCEPT
                      ![m] = IF connected /\ sock[ws] # "open" THEN @ + 1 ELSE @]
    /\ isOnline' = (isOnline /\ started /\ connected)

\* BaseWebSocket.onOpen(): everything but the announcement of the subclasses.
OnOpen ==
    IF started
    THEN /\ retryAttempt' = 0
         /\ connected' = TRUE
         /\ timers' = Armed(timers, "heartbeat")
    ELSE UNCHANGED <<retryAttempt, connected, timers>>

\* Faulty: the pong timer goes on.
OnPongTimed ==
    /\ latestPing' = FALSE
    /\ UNCHANGED timers

\* Faulty: the ping is still waited for.
OnPongWaiting ==
    /\ UNCHANGED latestPing
    /\ timers' = Cleared(timers, "pong")

\* onPong()
OnPong ==
    /\ latestPing' = FALSE
    /\ timers' = Cleared(timers, "pong")

\* Any other message proves that the peer is there: the pong has more time.
OnOtherMessage ==
    timers' = IF timers["pong"].held THEN Armed(Cleared(timers, "pong"), "pong")
                                     ELSE timers

-----------------------------------------------------------------------------
(* Actions shared by the subclasses *)

\* Connection.setup() and the start of a connection.
Setup == SetupSocket(timers)

\* endConnection() leaves the setup and the pong timers and latestPingDate alone.
EndConnection ==
    /\ CloseWs(sock)
    /\ isOnline' = FALSE
    /\ timers' = Cleared(timers, "heartbeat")
    /\ UNCHANGED <<dead, latestPing, deferred, retryAttempt>>

\* close(): endConnection() and the two timers, but not latestPingDate.
Close ==
    /\ CloseWs(sock)
    /\ isOnline' = FALSE
    /\ timers' = Cleared(Cleared(Cleared(timers, "heartbeat"), "setup"), "pong")
    /\ UNCHANGED <<dead, latestPing, deferred, retryAttempt>>

\* The reconnection timer fires: setup().
SetupTimer ==
    /\ timers["setup"].live > 0
    /\ \E t \in Fired(timers, "setup") : SetupSocket(t)

\* The heartbeat interval fires: sendPing().
SendPing ==
    /\ timers["heartbeat"].live > 0
    /\ \/ /\ latestPing
          /\ UNCHANGED wsVars
       \/ /\ ~latestPing
          /\ deferred["ping"] < MaxDeferred
          /\ latestPing' = TRUE
          /\ timers' = Armed(timers, "pong")
          /\ SendMessage("ping", deferred)
          /\ UNCHANGED <<ws, sock, attached, dead, started, connected, retryAttempt>>

\* A send postponed by one second is tried again.
SendDeferred(m) ==
    /\ deferred[m] > 0
    /\ SendMessage(m, [deferred EXCEPT ![m] = @ - 1])
    /\ UNCHANGED <<ws, sock, attached, dead, started, connected, latestPing, timers,
                   retryAttempt>>

\* The pong did not arrive in connectionTimeout: onConnectionDown().
PongTimeout ==
    /\ timers["pong"].live > 0
    /\ \E t \in Fired(timers, "pong") : OnClose(sock, t)
    /\ UNCHANGED dead

\* The runtime reports the end of the current socket: onerror or onclose.
SocketClosed ==
    /\ ws # NoSocket
    /\ sock[ws] \in {"connecting", "open", "closing"}
    /\ OnClose(sock, timers)
    /\ UNCHANGED dead

\* The last event of a terminated socket; its handlers are noops, if closeWs()
\* replaced them.
LateEvent(s) ==
    /\ sock[s] = "terminated"
    /\ dead' = dead \ {s}
    /\ LET sk == [sock EXCEPT ![s] = "free"]
       IN  IF s \in attached
           THEN OnClose(sk, timers)
           ELSE /\ sock' = sk
                /\ UNCHANGED <<ws, attached, started, connected, isOnline, latestPing,
                               due, timers, deferred, retryAttempt>>

-----------------------------------------------------------------------------
(* The peer and the network, under the model's control *)

\* The peer starts the closing handshake: readyState is CLOSING.
PeerCloses ==
    /\ ws # NoSocket
    /\ sock[ws] = "open"
    /\ ws \notin dead
    /\ sock' = [sock EXCEPT ![ws] = "closing"]
    /\ UNCHANGED <<ws, attached, dead, started, connected, isOnline, latestPing, due,
                   timers, deferred, retryAttempt>>

\* The peer disappears and nothing tells the client.
PeerDies ==
    /\ ws # NoSocket
    /\ sock[ws] = "open"
    /\ ws \notin dead
    /\ dead' = dead \cup {ws}
    /\ UNCHANGED <<ws, sock, attached, started, connected, isOnline, latestPing, due,
                   timers, deferred, retryAttempt>>

\* The peer of the current socket can deliver a message.
PeerTalks == ws # NoSocket /\ sock[ws] = "open" /\ ws \notin dead

-----------------------------------------------------------------------------
(* Safety shared by the subclasses *)

\* Only the socket named by ws is alive, and only its handlers are installed:
\* closeWs() leaks no ESTABLISHED connection and no event of an old socket
\* reaches the object, however failures and reconnections interleave.
NoLeakedSocket ==
    /\ \A s \in Sockets : sock[s] \in {"connecting", "open", "closing"} <=> s = ws
    /\ attached = {ws} \ {NoSocket}

\* At most one timer of each kind of the base class will fire, and its handle
\* still names it, so the clear functions can always cancel it: no heartbeat or
\* timeout outlives the connection it watches.
TimersAreHeld ==
    \A k \in TimerKinds \ {"join"} :
        timers[k].live = IF timers[k].held THEN 1 ELSE 0

\* A pong timer runs only while a ping waits for its pong.
PongTimerHasPing == timers["pong"].live > 0 => latestPing

=============================================================================
