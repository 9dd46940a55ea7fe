---------------------- MODULE WalletServiceConnection ----------------------
(***************************************************************************)
(* src/wallet/websocket.ts and src/wallet/connection.ts: the websocket of  *)
(* the wallet service.  Opening it is not enough: the client joins the     *)
(* stream of its wallet and is online when the server confirms.  start()   *)
(* makes a new websocket object, so one behaviour is the life of one       *)
(* object, from its start() to its stop() and what is left of it after.    *)
(***************************************************************************)
EXTENDS BaseWebSocket

CONSTANT MaxJoinTimers      \* pending join timers are counted up to this value

ASSUME JoinAssumption == MaxJoinTimers \in Nat \ {0}

VARIABLES
    phase,          \* "new", "started" or "stopped", the calls made so far
    connState       \* the field state of the connection

vars == <<wsVars, phase, connState>>

Init ==
    /\ WsInit
    /\ phase = "new"
    /\ connState = "CLOSED"

-----------------------------------------------------------------------------
(* The websocket *)

\* joinWallet(), with the timers t: the join timer is armed whatever sendMessage()
\* does, which sends when readyState is OPEN, and waits when it is not.
JoinWallet(t, isConnected, isOpen) ==
    /\ timers' = IF t["join"].live < MaxJoinTimers
                 THEN Armed(t, "join")
                 ELSE [t EXCEPT !["join"].held = TRUE]
    /\ due' = [due EXCEPT !["join"] = @ \/ (isConnected /\ isOpen)]
    /\ deferred' = [deferred EXCEPT
                      !["join"] = IF isConnected /\ ~isOpen THEN @ + 1 ELSE @]

\* onOpen(): super.onOpen(), then joinWallet().  The handlers of a socket are
\* installed while it is started, so the early return of super is not taken.
Open ==
    /\ ws # NoSocket
    /\ sock[ws] = "connecting"
    /\ sock' = [sock EXCEPT ![ws] = "open"]
    /\ retryAttempt' = 0
    /\ connected' = TRUE
    /\ JoinWallet(Armed(timers, "heartbeat"), TRUE, TRUE)
    /\ UNCHANGED <<ws, attached, dead, started, isOnline, latestPing>>

\* onMessage(): pong
ReceivePong ==
    /\ PeerTalks
    /\ due["ping"]
    /\ due' = [due EXCEPT !["ping"] = FALSE]
    /\ OnPong
    /\ UNCHANGED <<ws, sock, attached, dead, started, connected, isOnline, deferred,
                   retryAttempt>>

\* onMessage(): join-success, onJoinSuccess().
ReceiveJoinSuccess ==
    /\ PeerTalks
    /\ due["join"]
    /\ due' = [due EXCEPT !["join"] = FALSE]
    /\ timers' = Cleared(timers, "join")
    /\ isOnline' = TRUE
    /\ UNCHANGED <<ws, sock, attached, dead, started, connected, latestPing, deferred,
                   retryAttempt>>

\* onMessage(): new-tx, update-tx and the rest.
ReceiveOther ==
    /\ PeerTalks
    /\ OnOtherMessage
    /\ UNCHANGED <<ws, sock, attached, dead, started, connected, isOnline, latestPing,
                   due, deferred, retryAttempt>>

\* Faulty: a join that is timed out is not sent again.
JoinTimeoutGivesUp ==
    /\ timers["join"].live > 0
    /\ timers' \in Fired(timers, "join")
    /\ isOnline' = FALSE
    /\ UNCHANGED <<ws, sock, attached, dead, started, connected, latestPing, due, deferred,
                   retryAttempt>>

\* onJoinTimeout(): clear, joinWallet() again, and offline.
JoinTimeout ==
    /\ timers["join"].live > 0
    /\ deferred["join"] < MaxDeferred
    /\ \E t \in Fired(timers, "join") :
          JoinWallet(Cleared(t, "join"), connected, connected /\ sock[ws] = "open")
    /\ isOnline' = FALSE
    /\ UNCHANGED <<ws, sock, attached, dead, started, connected, latestPing, retryAttempt>>

\* The server does not answer a join.
JoinLost ==
    /\ due["join"]
    /\ due' = [due EXCEPT !["join"] = FALSE]
    /\ UNCHANGED <<ws, sock, attached, dead, started, connected, isOnline, latestPing,
                   timers, deferred, retryAttempt>>

Event ==
    \/ Open \/ ReceivePong \/ ReceiveJoinSuccess \/ ReceiveOther \/ SocketClosed
    \/ SetupTimer \/ SendPing \/ PongTimeout \/ JoinTimeout
    \/ \E m \in MsgKinds : SendDeferred(m)
    \/ \E s \in Sockets : LateEvent(s)
    \/ PeerCloses \/ PeerDies \/ JoinLost

-----------------------------------------------------------------------------
(* The connection *)

\* onConnectionChange() follows the changes of isOnline until stop() removes it.
Relayed(handler) ==
    /\ handler
    /\ connState' = IF isOnline' # isOnline /\ phase = "started"
                    THEN IF isOnline' THEN "CONNECTED" ELSE "CONNECTING"
                    ELSE connState
    /\ UNCHANGED phase

WebSocketEvent == Relayed(Event)

\* start(): a new websocket, its listeners, CONNECTING and setup().
Start ==
    /\ phase = "new"
    /\ phase' = "started"
    /\ connState' = "CONNECTING"
    /\ Setup

\* stop() of Connection: the websocket's close() knows nothing of the join timer.
Stop ==
    /\ phase = "started"
    /\ phase' = "stopped"
    /\ connState' = "CLOSED"
    /\ Close

Next == WebSocketEvent \/ Start \/ Stop

Spec == Init /\ [][Next]_vars

\* The timers fire, the runtime ends the sockets, and the network gets one of the
\* attempts through: a connection is accepted and a join is confirmed when they
\* are tried for ever.
Fairness ==
    /\ WF_vars(Relayed(SetupTimer))
    /\ WF_vars(Relayed(SendPing))
    /\ WF_vars(Relayed(PongTimeout))
    /\ WF_vars(Relayed(JoinTimeout))
    /\ \A m \in MsgKinds : WF_vars(Relayed(SendDeferred(m)))
    /\ WF_vars(Relayed(ReceivePong))
    /\ \A s \in Sockets : WF_vars(Relayed(LateEvent(s)))
    /\ WF_vars(ws # NoSocket /\ sock[ws] # "open" /\ Relayed(SocketClosed))
    /\ SF_vars(Relayed(Open))
    /\ SF_vars(Relayed(ReceiveJoinSuccess))

FairSpec == Spec /\ Fairness

-----------------------------------------------------------------------------
(* Properties *)

\* A started connection is online again and again, until it is stopped, although
\* sockets fail and joins are lost.
Joins == phase = "started" ~> (connState = "CONNECTED" \/ phase = "stopped")

=============================================================================
