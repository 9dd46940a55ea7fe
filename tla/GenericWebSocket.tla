------------------------- MODULE GenericWebSocket -------------------------
(***************************************************************************)
(* src/websocket/index.ts: the websocket of the fullnode and of the atomic *)
(* swap service.  It is online as soon as the connection is open.          *)
(***************************************************************************)
EXTENDS BaseWebSocket

\* ws.onopen: BaseWebSocket.onOpen(), then setIsOnline(true) in any case.
Open ==
    /\ ws # NoSocket
    /\ sock[ws] = "connecting"
    /\ sock' = [sock EXCEPT ![ws] = "open"]
    /\ OnOpen
    /\ isOnline' = TRUE
    /\ UNCHANGED <<ws, attached, dead, started, latestPing, due, deferred>>

\* ws.onmessage with the answer of a ping.
ReceivePong ==
    /\ PeerTalks
    /\ due["ping"]
    /\ due' = [due EXCEPT !["ping"] = FALSE]
    /\ OnPong
    /\ UNCHANGED <<ws, sock, attached, dead, started, connected, isOnline, deferred,
                   retryAttempt>>

\* ws.onmessage with any other message.
ReceiveOther ==
    /\ PeerTalks
    /\ OnOtherMessage
    /\ UNCHANGED <<ws, sock, attached, dead, started, connected, isOnline, latestPing,
                   due, deferred, retryAttempt>>

\* What the runtime, the timers and the peer do.
Event ==
    \/ Open \/ ReceivePong \/ ReceiveOther \/ SocketClosed
    \/ SetupTimer \/ SendPing \/ PongTimeout
    \/ SendDeferred("ping")
    \/ \E s \in Sockets : LateEvent(s)
    \/ PeerCloses \/ PeerDies

=============================================================================
