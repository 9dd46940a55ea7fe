----------------------------- MODULE Connection -----------------------------
(***************************************************************************)
(* src/connection.ts and the connection half of src/new/connection.ts: a   *)
(* WalletConnection drives one GenericWebSocket object through any number  *)
(* of start() and stop() calls and turns its `is_online' events into the   *)
(* connection state the wallet follows.                                    *)
(***************************************************************************)
EXTENDS GenericWebSocket

CONSTANT MaxStarts      \* bound on the calls of start()

ASSUME ConnAssumption == MaxStarts \in Nat

VARIABLES
    listening,      \* start() registered the listeners, stop() removed them
    connState,      \* the field state
    starts,         \* calls of start() so far
    legacy          \* endConnection() or setup() was called from outside

connVars == <<listening, connState, starts, legacy>>
vars == <<wsVars, connVars>>

ConnTypeOK ==
    /\ WsTypeOK
    /\ listening \in BOOLEAN
    /\ connState \in {"CLOSED", "CONNECTING", "CONNECTED"}
    /\ starts \in 0..MaxStarts
    /\ legacy \in BOOLEAN

Init ==
    /\ WsInit
    /\ listening = FALSE
    /\ connState = "CLOSED"
    /\ starts = 0
    /\ legacy = FALSE

\* Faulty: a connection that drops is announced as closed.
OnConnectionChangeClosed ==
    connState' = IF isOnline' # isOnline /\ listening
                 THEN IF isOnline' THEN "CONNECTED" ELSE "CLOSED"
                 ELSE connState

\* setIsOnline() emits only a change, and onConnectionChange() follows it while
\* the listeners are registered.
OnConnectionChange ==
    connState' = IF isOnline' # isOnline /\ listening
                 THEN IF isOnline' THEN "CONNECTED" ELSE "CONNECTING"
                 ELSE connState

\* A handler of the websocket and what its event does to the connection.
Relayed(handler) ==
    /\ handler
    /\ OnConnectionChange
    /\ UNCHANGED <<listening, starts>>

Handled(handler) == Relayed(handler) /\ UNCHANGED legacy

WebSocketEvent == Handled(Event)

\* start(): listeners, CONNECTING, websocket.setup().
Start ==
    /\ ~listening
    /\ starts < MaxStarts
    /\ starts' = starts + 1
    /\ listening' = TRUE
    /\ connState' = "CONNECTING"
    /\ UNCHANGED legacy
    /\ Setup

\* stop(): removeAllListeners() and websocket.close(), which removes the
\* listeners of the websocket before it goes offline, then CLOSED.
Stop ==
    /\ listening
    /\ listening' = FALSE
    /\ connState' = "CLOSED"
    /\ UNCHANGED <<starts, legacy>>
    /\ Close

\* Connection.endConnection() and Connection.setup(), kept for the old wallet code.
LegacyCall == legacy' = TRUE /\ Relayed(EndConnection \/ Setup)

Next == WebSocketEvent \/ Start \/ Stop \/ LegacyCall

Spec == Init /\ [][Next]_vars

\* The timers fire, the runtime delivers the end of a socket, the kernel answers
\* a connection attempt one way or the other and the server accepts one of the
\* attempts when it is tried again and again.  A peer that is there answers.
Fairness ==
    /\ WF_vars(Handled(SetupTimer))
    /\ WF_vars(Handled(SendPing))
    /\ WF_vars(Handled(PongTimeout))
    /\ WF_vars(Handled(SendDeferred("ping")))
    /\ WF_vars(Handled(ReceivePong))
    /\ \A s \in Sockets : WF_vars(Handled(LateEvent(s)))
    /\ WF_vars(ws # NoSocket /\ sock[ws] # "open" /\ Handled(SocketClosed))
    /\ SF_vars(Handled(Open))

FairSpec == Spec /\ Fairness

-----------------------------------------------------------------------------
(* Safety *)

\* The type of every variable of the connection and of its websocket.
TypeOK == ConnTypeOK

\* started, connected, the heartbeat and the online state agree with the socket
\* the runtime is using.
FlagsAgree ==
    /\ started <=> ws # NoSocket
    /\ connected <=> (ws # NoSocket /\ sock[ws] \in {"open", "closing"})
    /\ timers["heartbeat"].live > 0 <=> connected
    /\ isOnline <=> connected

\* A started connection never gives up: it has a socket or a reconnection timer,
\* never both, and a stopped one has neither and no timer at all, as long as
\* nobody uses the legacy calls.
NeverStranded ==
    ~legacy =>
        /\ listening => (ws # NoSocket <=> timers["setup"].live = 0)
        /\ ~listening => ws = NoSocket /\ \A k \in TimerKinds : timers[k].live = 0

\* The state announced to the wallet is the state of the websocket, as long as
\* nobody uses the legacy calls.
StateAgrees ==
    ~legacy =>
        connState = IF ~listening THEN "CLOSED"
                    ELSE IF isOnline THEN "CONNECTED" ELSE "CONNECTING"

\* Whatever fails, fires late or is called, the object holds one socket and every timer
\* it will need to cancel, what it says of itself is what the runtime does, and it is
\* going to try again exactly when it was started and has no socket.
AlwaysConsistent ==
    NoLeakedSocket /\ TimersAreHeld /\ PongTimerHasPing /\ FlagsAgree /\ StateAgrees
        /\ NeverStranded

\* The exponential backoff advances once per socket that failed, although an
\* error and a close are reported for the same socket, and goes back only when
\* a connection is open.
BackoffPerFailure ==
    [][ ~legacy =>
          /\ retryAttempt' > retryAttempt => ws # NoSocket /\ ws' = NoSocket
          /\ retryAttempt' < retryAttempt => retryAttempt' = 0 /\ connected' ]_vars

-----------------------------------------------------------------------------
(* Liveness *)

\* A started connection comes back: it is connected again and again, unless it is
\* stopped or the legacy calls take it down.
Reconnects ==
    listening /\ ~legacy ~> (connState = "CONNECTED" \/ ~listening \/ legacy)

\* close() and endConnection() left latestPingDate set: no later ping arms the timer.
StalePing == (starts > 1 \/ legacy) /\ latestPing /\ timers["pong"].live = 0

\* A peer that disappears is noticed by the heartbeat and the dead socket is given
\* up, if no ping was waiting for its pong when an earlier connection was stopped.
DeadPeerNoticed ==
    \A s \in Sockets : (ws = s /\ s \in dead /\ ~StalePing) ~> ws # s

\* The announced state follows the contract of a connection.
Lifecycle == INSTANCE ConnectionLifecycle WITH state <- connState
ImplementsLifecycle == Lifecycle!Spec

=============================================================================
