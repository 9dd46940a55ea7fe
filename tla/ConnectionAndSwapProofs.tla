---------------------- MODULE ConnectionAndSwapProofs ----------------------
(***************************************************************************)
(* Proofs about Connection and about Swap, two components that share       *)
(* nothing; Part 1 and Part 2 below.                                       *)
(*                                                                         *)
(* Part 1: Connection, for any pool of sockets, any number of start()      *)
(* calls and any bound on the retry counter.  The inductive invariant is   *)
(* WsInv, on the state of the websocket; the one of the connection         *)
(* (ConnInv) adds what stop() leaves behind, as long as the legacy calls   *)
(* are not made.                                                           *)
(*                                                                         *)
(* Part 2: the proposals of an atomic swap, for any wallets, outputs,      *)
(* number of changes and versions: no output is spent twice by a proposal  *)
(* however the calls of a wallet overlap, and, when each caller awaits its *)
(* calls, the signatures are those of the proposal as it is.               *)
(***************************************************************************)
EXTENDS Connection, Swap, TLAPS

-----------------------------------------------------------------------------
(* Part 1: the connection *)

Alive == {"connecting", "open", "closing"}

Timers == [TimerKinds -> [live: Nat, held: BOOLEAN]]

\* A timer runs exactly when its handle names it, and there is no join timer.
GoodTimers(t) ==
    /\ t \in Timers
    /\ \A k \in TimerKinds : t[k].live = IF t[k].held THEN 1 ELSE 0
    /\ t["join"].live = 0

\* The inductive invariant of the websocket.
WsInv ==
    /\ WsTypeOK
    /\ GoodTimers(timers)
    /\ NoLeakedSocket
    /\ FlagsAgree
    /\ PongTimerHasPing

-----------------------------------------------------------------------------
(* Timers *)

\* Clearing a timer turns off the timer of its kind and leaves the others alone:
\* clearSetupTimer(), clearPongTimeoutTimer() and the clearInterval of the
\* heartbeat of src/websocket/base.ts.
LEMMA ClearedIsOff ==
    ASSUME NEW t, GoodTimers(t), NEW k \in TimerKinds
    PROVE  /\ GoodTimers(Cleared(t, k))
           /\ Cleared(t, k)[k].live = 0
           /\ \A j \in TimerKinds \ {k} : Cleared(t, k)[j] = t[j]
BY SMT DEF GoodTimers, Timers, TimerKinds, Cleared

\* Arming a timer that is off turns it on and leaves the others alone: the
\* setTimeout and setInterval calls of src/websocket/base.ts.
LEMMA ArmedIsOn ==
    ASSUME NEW t, GoodTimers(t), NEW k \in TimerKinds \ {"join"}, t[k].live = 0
    PROVE  /\ GoodTimers(Armed(t, k))
           /\ Armed(t, k)[k].live = 1
           /\ \A j \in TimerKinds \ {k} : Armed(t, k)[j] = t[j]
BY SMT DEF GoodTimers, Timers, TimerKinds, Armed

\* A timer that fires is off afterwards: no other one of its kind was forgotten.
LEMMA FiredIsOff ==
    ASSUME NEW t, GoodTimers(t), NEW k \in TimerKinds, t[k].live > 0,
           NEW u \in Fired(t, k)
    PROVE  /\ GoodTimers(u)
           /\ u[k].live = 0
           /\ \A j \in TimerKinds \ {k} : u[j] = t[j]
<1>1. /\ t \in Timers
      /\ t[k].live = 1
      /\ t[k].live - 1 = 0
  BY SMT DEF GoodTimers, Timers
<1>2. u \in {[t EXCEPT ![k] = [live |-> t[k].live - 1, held |-> h]] : h \in {FALSE}}
  BY <1>1, SMT DEF Fired
<1>3. u = [t EXCEPT ![k] = [live |-> 0, held |-> FALSE]]
  BY <1>1, <1>2, SMT
<1>4. QED
  BY <1>1, <1>3, SMT DEF GoodTimers, Timers, TimerKinds

-----------------------------------------------------------------------------
(* The handlers keep the invariant *)

\* onClose() with good timers keeps the invariant: one reconnection timer is
\* left, and nothing else.
LEMMA OnCloseKeeps ==
    ASSUME WsInv, NEW t, GoodTimers(t), OnClose(sock, t), UNCHANGED dead
    PROVE  WsInv'
<1> DEFINE t1 == Cleared(t, "setup")
           t2 == Cleared(t1, "pong")
           t3 == Armed(t2, "setup")
<1>1. GoodTimers(t1) /\ t1["setup"].live = 0
  BY ClearedIsOff DEF TimerKinds
<1>2. GoodTimers(t2) /\ t2["setup"].live = 0 /\ t2["pong"].live = 0
  BY <1>1, ClearedIsOff DEF TimerKinds
<1>3. GoodTimers(t3) /\ t3["pong"].live = 0
  BY <1>2, ArmedIsOn DEF TimerKinds
<1>4. timers' = Cleared(t3, "heartbeat")
  BY DEF OnClose
<1>5. /\ GoodTimers(timers')
      /\ timers'["heartbeat"].live = 0
      /\ timers'["pong"].live = 0
  BY <1>3, <1>4, ClearedIsOff DEF TimerKinds
<1> HIDE DEF t1, t2, t3
<1>6. WsTypeOK'
  <2>1. ws' \in Sockets \cup {NoSocket} /\ attached' \subseteq Sockets /\ dead' \subseteq Sockets
    BY DEF WsInv, WsTypeOK, OnClose, CloseWs
  <2>2. sock' \in [Sockets -> SocketStates]
    BY SMT DEF WsInv, WsTypeOK, OnClose, CloseWs, SocketStates
  <2>3. timers' \in Timers
    BY <1>5 DEF GoodTimers
  <2>4. due' \in [MsgKinds -> BOOLEAN] /\ deferred' \in [MsgKinds -> Nat]
    BY SMT DEF WsInv, WsTypeOK, OnClose, CloseWs
  <2>5. retryAttempt' \in 0..MaxRetry
    BY SocketAssumption, SMT DEF WsInv, WsTypeOK, OnClose
  <2>6. {started', connected', isOnline', latestPing'} \subseteq BOOLEAN
    BY DEF OnClose, CloseWs
  <2>7. QED
    BY <2>1, <2>2, <2>3, <2>4, <2>5, <2>6 DEF WsTypeOK, Timers
<1>7. NoLeakedSocket'
  BY SocketAssumption, SMT DEF WsInv, WsTypeOK, NoLeakedSocket, OnClose, CloseWs, SocketStates
<1>8. FlagsAgree'
  BY <1>5, SMT DEF FlagsAgree, OnClose, CloseWs
<1>9. PongTimerHasPing' /\ GoodTimers(timers)'
  BY <1>5, SMT DEF PongTimerHasPing, GoodTimers, Timers
<1>10. QED
  BY <1>6, <1>7, <1>8, <1>9 DEF WsInv

\* setup() with good timers, which differ from those of the state at most in the
\* reconnection timer, keeps the invariant.
LEMMA SetupKeeps ==
    ASSUME WsInv, NEW t, GoodTimers(t),
           \A k \in TimerKinds \ {"setup"} : t[k] = timers[k],
           SetupSocket(t)
    PROVE  WsInv'
<1>1. /\ GoodTimers(timers')
      /\ timers'["heartbeat"].live = timers["heartbeat"].live
      /\ timers'["pong"].live = timers["pong"].live
  BY SMT DEF SetupSocket, TimerKinds
<1>2. WsTypeOK'
  <2>1. timers' \in Timers
    BY <1>1 DEF GoodTimers
  <2>2. started' \in BOOLEAN
    BY Zenon DEF WsInv, WsTypeOK, SetupSocket
  <2>3. /\ ws' \in Sockets \cup {NoSocket}
        /\ attached' \subseteq Sockets
        /\ sock' \in [Sockets -> SocketStates]
    BY SMT DEF WsInv, WsTypeOK, SetupSocket, SocketStates
  <2>4. QED
    BY <2>1, <2>2, <2>3 DEF WsInv, WsTypeOK, SetupSocket, Timers
<1>3. NoLeakedSocket'
  BY SocketAssumption, SMT DEF WsInv, WsTypeOK, NoLeakedSocket, SetupSocket, SocketStates
<1>4. FlagsAgree'
  BY <1>1, SocketAssumption, SMT DEF WsInv, WsTypeOK, FlagsAgree, SetupSocket, SocketStates
<1>5. PongTimerHasPing' /\ GoodTimers(timers)'
  BY <1>1, SMT DEF WsInv, PongTimerHasPing, SetupSocket, GoodTimers, Timers
<1>6. QED
  BY <1>2, <1>3, <1>4, <1>5 DEF WsInv

\* close() and endConnection() keep the invariant.
LEMMA CloseKeeps ==
    ASSUME WsInv, Close \/ EndConnection
    PROVE  WsInv'
<1> DEFINE t1 == Cleared(timers, "heartbeat")
           t2 == Cleared(t1, "setup")
           t3 == Cleared(t2, "pong")
<1>1. GoodTimers(timers)
  BY DEF WsInv
<1>2. /\ GoodTimers(t1)
      /\ t1["heartbeat"].live = 0
      /\ t1["pong"] = timers["pong"]
  BY <1>1, ClearedIsOff DEF TimerKinds
<1>3. GoodTimers(t2) /\ t2["heartbeat"].live = 0
  BY <1>2, ClearedIsOff DEF TimerKinds
<1>4. GoodTimers(t3) /\ t3["heartbeat"].live = 0 /\ t3["pong"].live = 0
  BY <1>3, ClearedIsOff DEF TimerKinds
<1>5. timers' \in {t1, t3} /\ latestPing' = latestPing
  BY DEF Close, EndConnection
<1>6. /\ GoodTimers(timers')
      /\ timers'["heartbeat"].live = 0
      /\ timers'["pong"].live > 0 => timers["pong"].live > 0
  BY <1>2, <1>4, <1>5
<1> HIDE DEF t1, t2, t3
<1>7. WsTypeOK'
  <2>1. ws' \in Sockets \cup {NoSocket} /\ attached' \subseteq Sockets /\ dead' \subseteq Sockets
    BY DEF WsInv, WsTypeOK, Close, EndConnection, CloseWs
  <2>2. sock' \in [Sockets -> SocketStates]
    BY SMT DEF WsInv, WsTypeOK, Close, EndConnection, CloseWs, SocketStates
  <2>3. timers' \in Timers
    BY <1>6 DEF GoodTimers
  <2>4. due' \in [MsgKinds -> BOOLEAN] /\ deferred' \in [MsgKinds -> Nat]
    <3>1. due' = [m \in MsgKinds |-> FALSE] /\ deferred' = deferred
      BY DEF Close, EndConnection, CloseWs
    <3>2. QED
      BY <3>1, SMT DEF WsInv, WsTypeOK
  <2>5. retryAttempt' \in 0..MaxRetry /\ latestPing' \in BOOLEAN
    BY DEF WsInv, WsTypeOK, Close, EndConnection
  <2>6. {started', connected', isOnline'} \subseteq BOOLEAN
    BY DEF Close, EndConnection, CloseWs
  <2>7. QED
    BY <2>1, <2>2, <2>3, <2>4, <2>5, <2>6 DEF WsTypeOK, Timers
<1>8. NoLeakedSocket'
  BY SocketAssumption, SMT
  DEF WsInv, WsTypeOK, NoLeakedSocket, Close, EndConnection, CloseWs, SocketStates
<1>9. FlagsAgree'
  BY <1>6, SMT DEF FlagsAgree, Close, EndConnection, CloseWs
<1>10. PongTimerHasPing'
  BY <1>5, <1>6 DEF WsInv, PongTimerHasPing
<1>11. QED
  BY <1>6, <1>7, <1>8, <1>9, <1>10 DEF WsInv

\* onopen keeps the invariant: the heartbeat is off before it is armed.
LEMMA OpenKeeps ==
    ASSUME WsInv, Open
    PROVE  WsInv'
<1>1. /\ started /\ ~connected
      /\ GoodTimers(timers) /\ timers["heartbeat"].live = 0
  BY SMT DEF WsInv, GoodTimers, Timers, TimerKinds, FlagsAgree, Open
<1>2. connected' = TRUE /\ isOnline' = TRUE /\ timers' = Armed(timers, "heartbeat")
  BY <1>1 DEF Open, OnOpen
<1>3. /\ GoodTimers(timers')
      /\ timers'["heartbeat"].live = 1
      /\ timers'["pong"] = timers["pong"]
  BY <1>1, <1>2, ArmedIsOn DEF TimerKinds
<1>4. WsTypeOK'
  <2>1. sock' \in [Sockets -> SocketStates]
    BY SMT DEF WsInv, WsTypeOK, Open, SocketStates
  <2>2. retryAttempt' \in 0..MaxRetry
    BY <1>1, SocketAssumption, SMT DEF Open, OnOpen
  <2>3. timers' \in Timers
    BY <1>3 DEF GoodTimers
  <2>4. QED
    BY <1>2, <2>1, <2>2, <2>3 DEF WsInv, WsTypeOK, Open, Timers
<1>5. NoLeakedSocket'
  BY SMT DEF WsInv, WsTypeOK, NoLeakedSocket, Open, SocketStates
<1>6. FlagsAgree'
  BY <1>1, <1>2, <1>3, SMT DEF WsInv, WsTypeOK, FlagsAgree, Open
<1>7. PongTimerHasPing'
  BY <1>3 DEF WsInv, PongTimerHasPing, Open
<1>8. QED
  BY <1>3, <1>4, <1>5, <1>6, <1>7 DEF WsInv

\* The messages of the peer keep the invariant: a pong turns the pong timer off
\* and any other message arms it again.
LEMMA ReceiveKeeps ==
    ASSUME WsInv, ReceivePong \/ ReceiveOther
    PROVE  WsInv'
<1> DEFINE t1 == Cleared(timers, "pong")
           t2 == Armed(t1, "pong")
<1>1. GoodTimers(timers)
  BY DEF WsInv
<1>2. GoodTimers(t1) /\ t1["pong"].live = 0 /\ t1["heartbeat"] = timers["heartbeat"]
  BY <1>1, ClearedIsOff DEF TimerKinds
<1>3. GoodTimers(t2) /\ t2["heartbeat"] = timers["heartbeat"]
  BY <1>2, ArmedIsOn DEF TimerKinds
<1>4. \/ timers' = t1 /\ latestPing' = FALSE
      \/ /\ (timers["pong"].held /\ timers' = t2) \/ timers' = timers
         /\ latestPing' = latestPing
  <2>1. CASE ReceivePong
    BY <2>1 DEF ReceivePong, OnPong
  <2>2. CASE ReceiveOther
    BY <2>2, Zenon DEF ReceiveOther, OnOtherMessage
  <2>3. QED
    BY <2>1, <2>2
<1>5. /\ GoodTimers(timers')
      /\ timers'["heartbeat"] = timers["heartbeat"]
      /\ latestPing' \in BOOLEAN
  BY <1>1, <1>2, <1>3, <1>4 DEF WsInv, WsTypeOK
<1>6. PongTimerHasPing'
  BY <1>1, <1>2, <1>4, SMT DEF WsInv, PongTimerHasPing, GoodTimers, TimerKinds
<1> HIDE DEF t1, t2
<1>7. due' \in [MsgKinds -> BOOLEAN]
  <2>1. CASE due' = [due EXCEPT !["ping"] = FALSE]
    BY <2>1 DEF WsInv, WsTypeOK
  <2>2. CASE due' = due
    BY <2>2 DEF WsInv, WsTypeOK
  <2>3. QED
    BY <2>1, <2>2 DEF ReceivePong, ReceiveOther
<1>8. WsTypeOK'
  BY <1>5, <1>7 DEF WsInv, WsTypeOK, ReceivePong, ReceiveOther, GoodTimers, Timers
<1>9. NoLeakedSocket' /\ FlagsAgree'
  BY <1>5 DEF WsInv, NoLeakedSocket, FlagsAgree, ReceivePong, ReceiveOther
<1>10. QED
  BY <1>5, <1>6, <1>8, <1>9 DEF WsInv

\* sendMessage() changes the messages to answer and the postponed sends within
\* their types.
LEMMA SendMessageTypes ==
    ASSUME due \in [MsgKinds -> BOOLEAN], NEW m \in MsgKinds,
           NEW postponed \in [MsgKinds -> Nat], SendMessage(m, postponed)
    PROVE  due' \in [MsgKinds -> BOOLEAN] /\ deferred' \in [MsgKinds -> Nat]
<1> DEFINE sent == due[m] \/ (connected /\ sock[ws] = "open")
           waiting == IF connected /\ sock[ws] # "open" THEN postponed[m] + 1 ELSE postponed[m]
<1>1. sent \in BOOLEAN
  OBVIOUS
<1>2. waiting \in Nat
  BY SMT
<1>3. due' = [due EXCEPT ![m] = sent] /\ deferred' = [postponed EXCEPT ![m] = waiting]
  BY DEF SendMessage
<1> HIDE DEF sent, waiting
<1>4. QED
  BY <1>1, <1>2, <1>3, SMT

\* sendPing() keeps the invariant: the pong timer is off when no ping waits.
LEMMA SendPingKeeps ==
    ASSUME WsInv, SendPing
    PROVE  WsInv'
<1>1. CASE UNCHANGED wsVars
  BY <1>1 DEF WsInv, WsTypeOK, GoodTimers, NoLeakedSocket, FlagsAgree, PongTimerHasPing, wsVars
<1>2. CASE ~UNCHANGED wsVars
  <2>1. /\ ~latestPing
        /\ latestPing' = TRUE
        /\ timers' = Armed(timers, "pong")
        /\ SendMessage("ping", deferred)
        /\ UNCHANGED <<ws, sock, attached, dead, started, connected, retryAttempt>>
    BY <1>2 DEF SendPing
  <2>2. GoodTimers(timers) /\ timers["pong"].live = 0
    BY <2>1, SMT DEF WsInv, PongTimerHasPing, GoodTimers, Timers, TimerKinds
  <2>3. GoodTimers(timers') /\ timers'["heartbeat"] = timers["heartbeat"]
    BY <2>1, <2>2, ArmedIsOn DEF TimerKinds
  <2>4. started /\ connected /\ isOnline
    BY SMT DEF WsInv, FlagsAgree, SendPing
  <2>5. isOnline' = TRUE
    BY <2>1, <2>4 DEF SendMessage
  <2>6. "ping" \in MsgKinds
    BY DEF MsgKinds
  <2>7. due' \in [MsgKinds -> BOOLEAN] /\ deferred' \in [MsgKinds -> Nat]
    BY <2>1, <2>6, SendMessageTypes DEF WsInv, WsTypeOK
  <2>8. WsTypeOK'
    BY <2>1, <2>3, <2>5, <2>7 DEF WsInv, WsTypeOK, GoodTimers, Timers
  <2>9. NoLeakedSocket'
    BY <2>1 DEF WsInv, NoLeakedSocket
  <2>10. FlagsAgree'
    BY <2>1, <2>3, <2>4, <2>5 DEF WsInv, FlagsAgree
  <2>11. QED
    BY <2>1, <2>3, <2>8, <2>9, <2>10 DEF WsInv, PongTimerHasPing
<1>3. QED
  BY <1>1, <1>2

\* A postponed send that is tried again keeps the invariant.
LEMMA SendDeferredKeeps ==
    ASSUME WsInv, SendDeferred("ping")
    PROVE  WsInv'
<1> DEFINE postponed == [deferred EXCEPT !["ping"] = @ - 1]
<1>1. postponed \in [MsgKinds -> Nat]
  BY SMT DEF WsInv, WsTypeOK, SendDeferred, MsgKinds
<1> HIDE DEF postponed
<1>2. /\ SendMessage("ping", postponed)
      /\ UNCHANGED <<ws, sock, attached, dead, started, connected, latestPing, timers,
                     retryAttempt>>
  BY DEF SendDeferred, postponed
<1>3. "ping" \in MsgKinds
  BY DEF MsgKinds
<1>4. due' \in [MsgKinds -> BOOLEAN] /\ deferred' \in [MsgKinds -> Nat]
  BY <1>1, <1>2, <1>3, SendMessageTypes DEF WsInv, WsTypeOK
<1>5. isOnline' = isOnline
  BY <1>2, Zenon DEF WsInv, WsTypeOK, FlagsAgree, SendMessage
<1>6. QED
  BY <1>2, <1>4, <1>5
  DEF WsInv, WsTypeOK, GoodTimers, NoLeakedSocket, FlagsAgree, PongTimerHasPing

\* A late event of a terminated socket finds noop handlers: nothing but the pool of
\* sockets changes.
LEMMA LateEventKeeps ==
    ASSUME WsInv, NEW s \in Sockets, LateEvent(s)
    PROVE  /\ WsInv'
           /\ UNCHANGED <<ws, attached, started, connected, isOnline, latestPing, due,
                          timers, deferred, retryAttempt>>
<1>1. s \notin attached /\ s # ws
  BY SMT DEF WsInv, NoLeakedSocket, LateEvent
<1>2. /\ sock' = [sock EXCEPT ![s] = "free"]
      /\ dead' = dead \ {s}
      /\ UNCHANGED <<ws, attached, started, connected, isOnline, latestPing, due,
                     timers, deferred, retryAttempt>>
  BY <1>1 DEF LateEvent
<1>3. sock' \in [Sockets -> SocketStates]
  BY <1>2, SMT DEF WsInv, WsTypeOK, SocketStates
<1>4. NoLeakedSocket'
  BY <1>1, <1>2, SMT DEF WsInv, WsTypeOK, NoLeakedSocket, LateEvent
<1>5. FlagsAgree'
  BY <1>1, <1>2, SMT DEF WsInv, WsTypeOK, FlagsAgree
<1>6. QED
  BY <1>2, <1>3, <1>4, <1>5 DEF WsInv, WsTypeOK, GoodTimers, PongTimerHasPing

\* What the peer does keeps the invariant.
LEMMA PeerKeeps ==
    ASSUME WsInv, PeerCloses \/ PeerDies
    PROVE  WsInv'
<1>1. /\ ws \in Sockets /\ sock[ws] = "open"
      /\ \/ sock' = [sock EXCEPT ![ws] = "closing"] /\ dead' = dead
         \/ sock' = sock /\ dead' = dead \cup {ws}
      /\ UNCHANGED <<ws, attached, started, connected, isOnline, latestPing, due,
                     timers, deferred, retryAttempt>>
  BY DEF WsInv, WsTypeOK, PeerCloses, PeerDies
<1>2. sock' \in [Sockets -> SocketStates] /\ dead' \subseteq Sockets
  BY <1>1, SMT DEF WsInv, WsTypeOK, SocketStates
<1>3. NoLeakedSocket'
  BY <1>1, SMT DEF WsInv, WsTypeOK, NoLeakedSocket
<1>4. FlagsAgree'
  BY <1>1, SMT DEF WsInv, WsTypeOK, FlagsAgree
<1>5. QED
  BY <1>1, <1>2, <1>3, <1>4 DEF WsInv, WsTypeOK, GoodTimers, PongTimerHasPing

\* Every event of the websocket keeps the invariant.
LEMMA EventKeeps ==
    ASSUME WsInv, Event
    PROVE  WsInv'
<1>1. CASE Open
  BY <1>1, OpenKeeps
<1>2. CASE ReceivePong \/ ReceiveOther
  BY <1>2, ReceiveKeeps
<1>3. CASE SocketClosed
  BY <1>3, OnCloseKeeps DEF SocketClosed, WsInv
<1>4. CASE SetupTimer
  <2>1. PICK t \in Fired(timers, "setup") : SetupSocket(t)
    BY <1>4 DEF SetupTimer
  <2>2. GoodTimers(t) /\ \A k \in TimerKinds \ {"setup"} : t[k] = timers[k]
    BY <1>4, FiredIsOff DEF WsInv, SetupTimer, TimerKinds
  <2>3. QED
    BY <2>1, <2>2, SetupKeeps
<1>5. CASE SendPing
  BY <1>5, SendPingKeeps
<1>6. CASE PongTimeout
  <2>1. PICK t \in Fired(timers, "pong") : OnClose(sock, t)
    BY <1>6 DEF PongTimeout
  <2>2. GoodTimers(t)
    BY <1>6, FiredIsOff DEF WsInv, PongTimeout, TimerKinds
  <2>3. QED
    BY <1>6, <2>1, <2>2, OnCloseKeeps DEF PongTimeout
<1>7. CASE SendDeferred("ping")
  BY <1>7, SendDeferredKeeps
<1>8. CASE \E s \in Sockets : LateEvent(s)
  BY <1>8, LateEventKeeps
<1>9. CASE PeerCloses \/ PeerDies
  BY <1>9, PeerKeeps
<1>10. QED
  BY <1>1, <1>2, <1>3, <1>4, <1>5, <1>6, <1>7, <1>8, <1>9 DEF Event

-----------------------------------------------------------------------------
(* What an event does to the socket, the reconnection timer and the retries *)

\* The socket is given up, which arms the reconnection timer and counts a failure.
GivesUp ==
    /\ ws # NoSocket \/ timers["pong"].live > 0
    /\ ws' = NoSocket
    /\ timers'["setup"].live = 1
    /\ timers'["pong"].live = 0
    /\ retryAttempt' >= retryAttempt

\* The reconnection timer fires and a socket is there.
Retries ==
    /\ timers["setup"].live > 0
    /\ timers'["setup"].live = 0
    /\ timers'["pong"] = timers["pong"]
    /\ ws' # NoSocket
    /\ ws # NoSocket => ws' = ws
    /\ retryAttempt' = retryAttempt

\* The socket stays; the timers that change belong to a socket.
Stays ==
    /\ ws' = ws
    /\ timers'["setup"] = timers["setup"]
    /\ ws # NoSocket \/ timers' = timers
    /\ retryAttempt' = retryAttempt \/ (retryAttempt' = 0 /\ connected')

\* onClose() gives the socket up.
LEMMA OnCloseGivesUp ==
    ASSUME WsInv, NEW t, GoodTimers(t), OnClose(sock, t),
           ws # NoSocket \/ timers["pong"].live > 0
    PROVE  GivesUp
<1> DEFINE t1 == Cleared(t, "setup")
           t2 == Cleared(t1, "pong")
           t3 == Armed(t2, "setup")
<1>1. GoodTimers(t1) /\ t1["setup"].live = 0
  BY ClearedIsOff DEF TimerKinds
<1>2. GoodTimers(t2) /\ t2["setup"].live = 0 /\ t2["pong"].live = 0
  BY <1>1, ClearedIsOff DEF TimerKinds
<1>3. GoodTimers(t3) /\ t3["setup"].live = 1 /\ t3["pong"].live = 0
  BY <1>2, ArmedIsOn DEF TimerKinds
<1>4. timers' = Cleared(t3, "heartbeat")
  BY DEF OnClose
<1>5. timers'["setup"].live = 1 /\ timers'["pong"].live = 0
  BY <1>3, <1>4, ClearedIsOff DEF TimerKinds
<1>6. retryAttempt' >= retryAttempt
  BY SocketAssumption, SMT DEF WsInv, WsTypeOK, OnClose
<1>7. QED
  BY <1>5, <1>6 DEF GivesUp, OnClose, CloseWs

\* setup() leaves a socket behind, the one there was or a new one.
LEMMA SetupHasSocket ==
    ASSUME WsInv, NEW t, SetupSocket(t)
    PROVE  ws' # NoSocket /\ (ws # NoSocket => ws' = ws) /\ timers' = t
BY SocketAssumption, SMT DEF WsInv, FlagsAgree, SetupSocket

\* Every event is of one of the three kinds.
LEMMA EventShape ==
    ASSUME WsInv, Event
    PROVE  GivesUp \/ Retries \/ Stays
<1>1. GoodTimers(timers)
  BY DEF WsInv
<1>2. CASE Open
  <2>1. started /\ ~connected /\ ws # NoSocket /\ timers["heartbeat"].live = 0
    BY <1>2, SMT DEF WsInv, WsTypeOK, GoodTimers, Timers, TimerKinds, FlagsAgree, Open
  <2>2. /\ timers' = Armed(timers, "heartbeat")
        /\ retryAttempt' = 0
        /\ connected'
        /\ ws' = ws
    BY <1>2, <2>1 DEF Open, OnOpen
  <2>3. timers'["setup"] = timers["setup"]
    BY <1>1, <2>1, <2>2, ArmedIsOn DEF TimerKinds
  <2>4. QED
    BY <2>1, <2>2, <2>3 DEF Stays
<1>3. CASE ReceivePong \/ ReceiveOther
  <2>1. ws # NoSocket /\ UNCHANGED <<ws, retryAttempt>>
    BY <1>3 DEF ReceivePong, ReceiveOther, PeerTalks
  <2>2. timers' \in {timers, Cleared(timers, "pong"), Armed(Cleared(timers, "pong"), "pong")}
    BY <1>3 DEF ReceivePong, ReceiveOther, OnPong, OnOtherMessage
  <2>3. timers'["setup"] = timers["setup"]
    BY <1>1, <2>2, ArmedIsOn, ClearedIsOff DEF TimerKinds
  <2>4. QED
    BY <2>1, <2>3 DEF Stays
<1>4. CASE SocketClosed
  BY <1>1, <1>4, OnCloseGivesUp DEF SocketClosed
<1>5. CASE SetupTimer
  <2>1. PICK t \in Fired(timers, "setup") : SetupSocket(t)
    BY <1>5 DEF SetupTimer
  <2>2. t["setup"].live = 0 /\ t["pong"] = timers["pong"] /\ timers["setup"].live > 0
    BY <1>1, <1>5, FiredIsOff DEF SetupTimer, TimerKinds
  <2>3. retryAttempt' = retryAttempt
    BY <2>1 DEF SetupSocket
  <2>4. QED
    BY <2>1, <2>2, <2>3, SetupHasSocket DEF Retries
<1>6. CASE SendPing
  <2>1. connected /\ ws # NoSocket /\ UNCHANGED <<ws, retryAttempt>>
    BY <1>6 DEF WsInv, FlagsAgree, SendPing, wsVars
  <2>2. timers' = timers \/ (~latestPing /\ timers' = Armed(timers, "pong"))
    BY <1>6 DEF SendPing, wsVars
  <2>3. ~latestPing => timers["pong"].live = 0
    BY <1>1, SMT DEF WsInv, PongTimerHasPing, GoodTimers, Timers, TimerKinds
  <2>4. timers'["setup"] = timers["setup"]
    BY <1>1, <2>2, <2>3, ArmedIsOn DEF TimerKinds
  <2>5. QED
    BY <2>1, <2>4 DEF Stays
<1>7. CASE PongTimeout
  <2>1. PICK t \in Fired(timers, "pong") : OnClose(sock, t)
    BY <1>7 DEF PongTimeout
  <2>2. GoodTimers(t) /\ timers["pong"].live > 0
    BY <1>1, <1>7, FiredIsOff DEF PongTimeout, TimerKinds
  <2>3. QED
    BY <2>1, <2>2, OnCloseGivesUp
<1>8. CASE SendDeferred("ping") \/ PeerCloses \/ PeerDies
  BY <1>8 DEF SendDeferred, PeerCloses, PeerDies, Stays
<1>9. CASE \E s \in Sockets : LateEvent(s)
  BY <1>9, LateEventKeeps DEF Stays
<1>10. QED
  BY <1>2, <1>3, <1>4, <1>5, <1>6, <1>7, <1>8, <1>9 DEF Event

-----------------------------------------------------------------------------
(* The theorems about the websocket, with the legacy calls or without *)

\* The invariant of the websocket holds at the start.
LEMMA InitWsInv == Init => WsInv
<1> SUFFICES ASSUME Init PROVE WsInv
  OBVIOUS
<1>1. WsTypeOK
  <2>1. /\ sock \in [Sockets -> SocketStates]
        /\ due \in [MsgKinds -> BOOLEAN]
        /\ deferred \in [MsgKinds -> Nat]
    BY DEF Init, WsInit, SocketStates
  <2>2. timers \in [TimerKinds -> [live: Nat, held: BOOLEAN]]
    BY SMT DEF Init, WsInit
  <2>3. retryAttempt \in 0..MaxRetry
    BY SocketAssumption, SMT DEF Init, WsInit
  <2>4. QED
    BY <2>1, <2>2, <2>3 DEF Init, WsInit, WsTypeOK
<1>2. GoodTimers(timers)
  BY SMT DEF Init, WsInit, GoodTimers, Timers, TimerKinds
<1>3. NoLeakedSocket
  BY SocketAssumption, SMT DEF Init, WsInit, NoLeakedSocket
<1>4. FlagsAgree /\ PongTimerHasPing
  BY <1>2, SMT DEF Init, WsInit, FlagsAgree, PongTimerHasPing, TimerKinds
<1>5. QED
  BY <1>1, <1>2, <1>3, <1>4 DEF WsInv

\* Every step of the connection keeps the invariant of the websocket.
LEMMA NextWsInv == WsInv /\ [Next]_vars => WsInv'
<1> SUFFICES ASSUME WsInv, [Next]_vars PROVE WsInv'
  OBVIOUS
<1>1. CASE WebSocketEvent
  BY <1>1, EventKeeps DEF WebSocketEvent, Handled, Relayed
<1>2. CASE Start
  BY <1>2, SetupKeeps DEF WsInv, Start, Setup
<1>3. CASE Stop
  BY <1>3, CloseKeeps DEF Stop
<1>4. CASE LegacyCall
  BY <1>4, SetupKeeps, CloseKeeps DEF WsInv, LegacyCall, Relayed, Setup
<1>5. CASE UNCHANGED vars
  BY <1>5
  DEF vars, wsVars, WsInv, WsTypeOK, GoodTimers, NoLeakedSocket, FlagsAgree, PongTimerHasPing
<1>6. QED
  BY <1>1, <1>2, <1>3, <1>4, <1>5 DEF Next

\* Every reachable state satisfies the invariant of the websocket.
LEMMA WsInvariant == Spec => []WsInv
BY InitWsInv, NextWsInv, PTL DEF Spec

\* Every variable of the connection and of its websocket keeps its type: no timer
\* or postponed send is counted below zero and no retry above the bound.
THEOREM TypeCorrect == Spec => []TypeOK
<1>1. Init => TypeOK
  <2>1. 0 \in 0..MaxStarts
    BY ConnAssumption, SMT
  <2>2. QED
    BY <2>1, InitWsInv DEF WsInv, Init, TypeOK, ConnTypeOK
<1>2. WsInv /\ TypeOK /\ [Next]_vars => TypeOK'
  <2> SUFFICES ASSUME WsInv, TypeOK, [Next]_vars PROVE TypeOK'
    OBVIOUS
  <2>1. WsTypeOK'
    BY NextWsInv DEF WsInv
  <2>2. listening' \in BOOLEAN
    BY DEF TypeOK, ConnTypeOK, Next, WebSocketEvent, Handled, LegacyCall, Relayed, Start, Stop, vars, connVars
  <2>3. connState' \in {"CLOSED", "CONNECTING", "CONNECTED"}
    BY DEF TypeOK, ConnTypeOK, Next, WebSocketEvent, Handled, LegacyCall, Relayed, OnConnectionChange,
           Start, Stop, vars, connVars
  <2>4. starts' \in 0..MaxStarts
    <3>1. starts' = starts \/ (starts < MaxStarts /\ starts' = starts + 1)
      BY DEF Next, WebSocketEvent, Handled, LegacyCall, Relayed, Start, Stop, vars, connVars
    <3>2. QED
      BY <3>1, ConnAssumption, SMT DEF TypeOK, ConnTypeOK
  <2>5. legacy' \in BOOLEAN
    BY DEF TypeOK, ConnTypeOK, Next, WebSocketEvent, Handled, LegacyCall, Start, Stop, vars, connVars
  <2>6. QED
    BY <2>1, <2>2, <2>3, <2>4, <2>5 DEF TypeOK, ConnTypeOK
<1>3. QED
  BY <1>1, <1>2, WsInvariant, PTL DEF Spec

-----------------------------------------------------------------------------
(* The theorems about the connection *)

\* A pong timer runs only while there is a socket.
PongHasSocket == timers["pong"].live > 0 => ws # NoSocket

\* The inductive invariant of the connection.
ConnInv ==
    /\ WsInv
    /\ listening \in BOOLEAN
    /\ legacy \in BOOLEAN
    /\ NeverStranded
    /\ StateAgrees
    /\ ~legacy => PongHasSocket

\* The invariant of the connection holds at the start.
LEMMA InitConnInv == Init => ConnInv
<1> SUFFICES ASSUME Init PROVE ConnInv
  OBVIOUS
<1>1. \A k \in TimerKinds : timers[k].live = 0
  BY SMT DEF Init, WsInit, TimerKinds
<1>2. timers["pong"].live = 0
  BY <1>1 DEF TimerKinds
<1>3. ~(timers["pong"].live > 0)
  BY <1>2, SMT
<1>4. QED
  BY <1>1, <1>3, InitWsInv DEF Init, WsInit, ConnInv, NeverStranded, StateAgrees, PongHasSocket

\* An event keeps the invariant of the connection.
LEMMA EventConnInv ==
    ASSUME ConnInv, WebSocketEvent
    PROVE  ConnInv'
<1>1. Event /\ OnConnectionChange /\ listening' = listening /\ legacy' = legacy
  BY DEF WebSocketEvent, Handled, Relayed
<1>2. WsInv /\ WsInv'
  BY <1>1, EventKeeps DEF ConnInv
<1>3. GivesUp \/ Retries \/ Stays
  BY <1>1, <1>2, EventShape
<1>4. \A k \in TimerKinds : timers[k].live \in Nat
  BY <1>2, SMT DEF WsInv, GoodTimers, Timers
<1>5. ASSUME ~legacy PROVE PongHasSocket'
  <2>1. CASE GivesUp
    BY <2>1, SMT DEF GivesUp, PongHasSocket
  <2>2. CASE Retries
    BY <2>2 DEF Retries, PongHasSocket
  <2>3. CASE Stays
    BY <1>5, <2>3 DEF Stays, ConnInv, PongHasSocket
  <2>4. QED
    BY <1>3, <2>1, <2>2, <2>3
<1>6. NeverStranded'
  <2> SUFFICES ASSUME ~legacy PROVE NeverStranded'
    BY <1>1 DEF NeverStranded
  <2>1. CASE ~listening
    <3>1. ws = NoSocket /\ \A k \in TimerKinds : timers[k].live = 0
      BY <2>1 DEF ConnInv, NeverStranded
    <3>2. timers["setup"].live = 0 /\ timers["pong"].live = 0
      BY <3>1 DEF TimerKinds
    <3>3. Stays
      BY <1>3, <3>1, <3>2, SMT DEF GivesUp, Retries
    <3>4. ws' = NoSocket /\ timers' = timers
      BY <3>1, <3>3 DEF Stays
    <3>5. QED
      BY <1>1, <2>1, <3>1, <3>4 DEF NeverStranded
  <2>2. CASE listening
    <3>1. ws # NoSocket <=> timers["setup"].live = 0
      BY <2>2 DEF ConnInv, NeverStranded
    <3>2. ws' # NoSocket <=> timers'["setup"].live = 0
      BY <1>3, <3>1, SMT DEF GivesUp, Retries, Stays
    <3>3. QED
      BY <1>1, <2>2, <3>2 DEF NeverStranded
  <2>3. QED
    BY <2>1, <2>2 DEF ConnInv
<1>7. StateAgrees'
  <2> SUFFICES ASSUME ~legacy PROVE StateAgrees'
    BY <1>1 DEF StateAgrees
  <2>1. isOnline \in BOOLEAN /\ isOnline' \in BOOLEAN
    BY <1>2 DEF WsInv, WsTypeOK
  <2>2. CASE ~listening
    BY <1>1, <2>2 DEF ConnInv, StateAgrees, OnConnectionChange
  <2>3. CASE listening /\ isOnline' = isOnline
    BY <1>1, <2>3 DEF ConnInv, StateAgrees, OnConnectionChange
  <2>4. CASE listening /\ isOnline' # isOnline
    BY <1>1, <2>1, <2>4 DEF StateAgrees, OnConnectionChange
  <2>5. QED
    BY <2>2, <2>3, <2>4 DEF ConnInv
<1>8. QED
  BY <1>1, <1>2, <1>5, <1>6, <1>7 DEF ConnInv

\* start() keeps the invariant of the connection.
LEMMA StartConnInv ==
    ASSUME ConnInv, Start
    PROVE  ConnInv'
<1>1. /\ ~listening /\ listening' = TRUE /\ legacy' = legacy
      /\ connState' = "CONNECTING" /\ SetupSocket(timers)
  BY DEF Start, Setup
<1>2. WsInv'
  BY <1>1, SetupKeeps DEF ConnInv, WsInv
<1>3. ASSUME ~legacy
      PROVE  NeverStranded' /\ StateAgrees' /\ PongHasSocket'
  <2>1. ws = NoSocket /\ \A k \in TimerKinds : timers[k].live = 0
    BY <1>1, <1>3 DEF ConnInv, NeverStranded
  <2>2. ws' # NoSocket /\ timers' = timers
    BY <1>1, SetupHasSocket DEF ConnInv
  <2>3. isOnline' = FALSE
    BY <1>1, <2>1, Zenon DEF ConnInv, WsInv, WsTypeOK, FlagsAgree, SetupSocket
  <2>4. timers'["setup"].live = 0
    BY <2>1, <2>2 DEF TimerKinds
  <2>5. QED
    BY <1>1, <2>2, <2>3, <2>4 DEF NeverStranded, StateAgrees, PongHasSocket
<1>4. NeverStranded' /\ StateAgrees' /\ (~legacy' => PongHasSocket')
  BY <1>1, <1>3 DEF NeverStranded, StateAgrees
<1>5. QED
  BY <1>1, <1>2, <1>4 DEF ConnInv

\* stop() keeps the invariant of the connection: no timer outlives it.
LEMMA StopConnInv ==
    ASSUME ConnInv, Stop
    PROVE  ConnInv'
<1> DEFINE t1 == Cleared(timers, "heartbeat")
           t2 == Cleared(t1, "setup")
           t3 == Cleared(t2, "pong")
<1>1. Close /\ listening' = FALSE /\ connState' = "CLOSED" /\ legacy' = legacy
  BY DEF Stop
<1>2. WsInv'
  BY <1>1, CloseKeeps DEF ConnInv
<1>3. GoodTimers(timers)
  BY DEF ConnInv, WsInv
<1>4. GoodTimers(t1) /\ t1["heartbeat"].live = 0
  BY <1>3, ClearedIsOff DEF TimerKinds
<1>5. GoodTimers(t2) /\ t2["heartbeat"].live = 0 /\ t2["setup"].live = 0
  BY <1>4, ClearedIsOff DEF TimerKinds
<1>6. /\ GoodTimers(t3)
      /\ t3["heartbeat"].live = 0
      /\ t3["setup"].live = 0
      /\ t3["pong"].live = 0
      /\ t3["join"].live = 0
  BY <1>5, ClearedIsOff DEF TimerKinds, GoodTimers
<1>7. timers' = t3 /\ ws' = NoSocket
  BY <1>1 DEF Close, CloseWs
<1>8. \A k \in TimerKinds : timers'[k].live = 0
  BY <1>6, <1>7 DEF TimerKinds
<1>9. PongHasSocket'
  BY <1>6, <1>7, SMT DEF PongHasSocket
<1>10. NeverStranded' /\ StateAgrees'
  BY <1>1, <1>7, <1>8 DEF NeverStranded, StateAgrees
<1>11. QED
  BY <1>1, <1>2, <1>9, <1>10 DEF ConnInv

\* Every step keeps the invariant of the connection; a legacy call leaves nothing
\* to prove but the invariant of the websocket.
LEMMA NextConnInv == ConnInv /\ [Next]_vars => ConnInv'
<1> SUFFICES ASSUME ConnInv, [Next]_vars PROVE ConnInv'
  OBVIOUS
<1>1. CASE WebSocketEvent
  BY <1>1, EventConnInv
<1>2. CASE Start
  BY <1>2, StartConnInv
<1>3. CASE Stop
  BY <1>3, StopConnInv
<1>4. CASE LegacyCall
  <2>1. legacy' = TRUE /\ listening' = listening
    BY <1>4 DEF LegacyCall, Relayed
  <2>2. NeverStranded' /\ StateAgrees'
    BY <2>1 DEF NeverStranded, StateAgrees
  <2>3. WsInv'
    BY NextWsInv DEF ConnInv
  <2>4. QED
    BY <2>1, <2>2, <2>3 DEF ConnInv
<1>5. CASE UNCHANGED vars
  BY <1>5
  DEF vars, wsVars, connVars, ConnInv, WsInv, WsTypeOK, GoodTimers, NoLeakedSocket,
      FlagsAgree, PongTimerHasPing, NeverStranded, StateAgrees, PongHasSocket
<1>6. QED
  BY <1>1, <1>2, <1>3, <1>4, <1>5 DEF Next

\* Every reachable state satisfies the invariant of the connection.
LEMMA ConnInvariant == Spec => []ConnInv
BY InitConnInv, NextConnInv, PTL DEF Spec

\* A started connection always has a socket or a reconnection timer, never both,
\* and a stopped one has neither, as long as nobody uses the legacy calls of
\* src/connection.ts.
THEOREM IsNeverStranded == Spec => []NeverStranded
<1>1. ConnInv => NeverStranded
  BY DEF ConnInv
<1>2. QED
  BY <1>1, ConnInvariant, PTL

\* The object holds one socket and every timer it will need to cancel, and what it
\* says of itself agrees with the runtime: NoLeakedSocket, TimersAreHeld,
\* PongTimerHasPing, FlagsAgree and StateAgrees, the legacy calls included.
THEOREM IsAlwaysConsistent == Spec => []AlwaysConsistent
<1>1. WsInv => NoLeakedSocket /\ TimersAreHeld /\ PongTimerHasPing /\ FlagsAgree
  BY DEF WsInv, GoodTimers, TimersAreHeld
<1>2. ConnInv => StateAgrees /\ NeverStranded
  BY DEF ConnInv
<1>3. WsInv /\ ConnInv => AlwaysConsistent
  BY <1>1, <1>2 DEF AlwaysConsistent
<1>4. QED
  BY <1>3, WsInvariant, ConnInvariant, PTL

\* The retry counter of src/websocket/base.ts advances once per socket that fails
\* and goes back only when a connection opens.
THEOREM BackoffIsPerFailure == Spec => BackoffPerFailure
<1> DEFINE Backoff == /\ retryAttempt' > retryAttempt => ws # NoSocket /\ ws' = NoSocket
                      /\ retryAttempt' < retryAttempt => retryAttempt' = 0 /\ connected'
<1>1. ConnInv /\ [Next]_vars => [~legacy => Backoff]_vars
  <2> SUFFICES ASSUME ConnInv, [Next]_vars, ~legacy PROVE Backoff \/ UNCHANGED vars
    OBVIOUS
  <2>1. retryAttempt \in Nat
    BY SocketAssumption, SMT DEF ConnInv, WsInv, WsTypeOK
  <2>2. CASE WebSocketEvent
    <3>1. GivesUp \/ Retries \/ Stays
      BY <2>2, EventShape DEF ConnInv, WebSocketEvent, Handled, Relayed
    <3>2. CASE GivesUp
      <4>1. retryAttempt' \in Nat
        BY <2>2, EventKeeps, SocketAssumption, SMT
        DEF ConnInv, WsInv, WsTypeOK, WebSocketEvent, Handled, Relayed
      <4>2. QED
        BY <2>1, <3>2, <4>1, SMT DEF ConnInv, GivesUp, PongHasSocket
    <3>3. CASE Retries \/ Stays
      BY <2>1, <3>3, SMT DEF Retries, Stays
    <3>4. QED
      BY <3>1, <3>2, <3>3
  <2>3. CASE Start \/ Stop \/ LegacyCall \/ UNCHANGED vars
    <3>1. retryAttempt' = retryAttempt
      BY <2>3 DEF Start, Setup, SetupSocket, Stop, Close, LegacyCall, Relayed, EndConnection,
                  vars, wsVars
    <3>2. QED
      BY <2>1, <3>1, SMT
  <2>4. QED
    BY <2>2, <2>3 DEF Next
<1>2. QED
  BY <1>1, ConnInvariant, PTL DEF Spec, BackoffPerFailure

-----------------------------------------------------------------------------
(* The connection implements the contract the wallet relies on *)

\* A connection is CLOSED exactly while it does not listen to its websocket.
ClosedIsDeaf ==
    /\ listening \in BOOLEAN
    /\ connState \in {"CLOSED", "CONNECTING", "CONNECTED"}
    /\ listening <=> connState # "CLOSED"

\* The connection announces CONNECTED only after CONNECTING and a loss only after
\* CONNECTED, and leaves CLOSED only in start(), with the legacy calls or without.
THEOREM ImplementsItsLifecycle == Spec => ImplementsLifecycle
<1>1. Init => ClosedIsDeaf /\ Lifecycle!Init
  BY DEF Init, ClosedIsDeaf, Lifecycle!Init
<1>2. ClosedIsDeaf /\ [Next]_vars => ClosedIsDeaf' /\ [Lifecycle!Next]_connState
  <2> SUFFICES ASSUME ClosedIsDeaf, [Next]_vars
               PROVE  ClosedIsDeaf' /\ [Lifecycle!Next]_connState
    OBVIOUS
  <2>1. CASE WebSocketEvent \/ LegacyCall
    <3>1. listening' = listening /\ OnConnectionChange
      BY <2>1 DEF WebSocketEvent, Handled, LegacyCall, Relayed
    <3>2. connState' = connState \/ (listening /\ connState' \in {"CONNECTING", "CONNECTED"})
      BY <3>1 DEF OnConnectionChange
    <3>3. QED
      BY <3>1, <3>2 DEF ClosedIsDeaf, Lifecycle!Next, Lifecycle!Connect, Lifecycle!Lose
  <2>2. CASE Start
    BY <2>2 DEF ClosedIsDeaf, Start, Lifecycle!Next, Lifecycle!Start
  <2>3. CASE Stop
    BY <2>3 DEF ClosedIsDeaf, Stop, Lifecycle!Next, Lifecycle!Stop
  <2>4. CASE UNCHANGED vars
    BY <2>4 DEF ClosedIsDeaf, vars, connVars
  <2>5. QED
    BY <2>1, <2>2, <2>3, <2>4 DEF Next
<1>3. QED
  BY <1>1, <1>2, PTL DEF Spec, ImplementsLifecycle, Lifecycle!Spec

-----------------------------------------------------------------------------
(* Part 2: the proposals of a swap.  Shapes *)

IsSequence(s) == s \in Seq({s[i] : i \in DOMAIN s})

IsProposal(p) ==
    p = [inputs |-> p.inputs, outputs |-> p.outputs, signatures |-> p.signatures,
         transaction |-> p.transaction]
IsEntry(e) == e = [utxo |-> e.utxo, data |-> e.data]
IsFetched(f) == f = [version |-> f.version, signatures |-> f.signatures]

\* The utxos of the inputs are different ones.
Distinct(inputs) == \A i, j \in DOMAIN inputs : inputs[i].utxo = inputs[j].utxo => i = j

Shape ==
    /\ proposal = [w \in Wallets |-> proposal[w]]
    /\ \A w \in Wallets : /\ IsProposal(proposal[w])
                          /\ IsSequence(proposal[w].inputs)
                          /\ \A i \in DOMAIN proposal[w].inputs : IsEntry(proposal[w].inputs[i])
    /\ service # None => IsSequence(service.partialTx.tx.inputs)

\* Nor does the transaction the service keeps spend an output twice.
StoredOnce ==
    service # None =>
        \A i, j \in DOMAIN service.partialTx.tx.inputs :
            service.partialTx.tx.inputs[i] = service.partialTx.tx.inputs[j] => i = j

-----------------------------------------------------------------------------
(* Sequences and proposals *)

\* What Append() does, whatever is in the sequence.
LEMMA AppendLast ==
  ASSUME NEW s, IsSequence(s), NEW x
  PROVE  LET a == Append(s, x)
         IN  /\ IsSequence(a)
             /\ Len(s) \in Nat /\ DOMAIN s = 1..Len(s) /\ DOMAIN a = 1..(Len(s) + 1)
             /\ \A i \in DOMAIN s : a[i] = s[i]
             /\ a[Len(s) + 1] = x
<1> DEFINE R == {s[i] : i \in DOMAIN s} \cup {x}
           a == Append(s, x)
<1>1. s \in Seq(R)
  BY DEF IsSequence
<1> HIDE DEF R
<1>2. x \in R
  BY DEF R
<1>3. /\ a \in Seq(R) /\ Len(a) = Len(s) + 1
      /\ Len(s) \in Nat /\ DOMAIN s = 1..Len(s) /\ DOMAIN a = 1..(Len(s) + 1)
      /\ \A i \in DOMAIN s : a[i] = s[i]
      /\ a[Len(s) + 1] = x
  BY <1>1, <1>2
<1> HIDE DEF a
<1>4. a \in Seq({a[i] : i \in DOMAIN a})
  <2>1. Len(a) \in Nat /\ DOMAIN a = 1..Len(a) /\ a \in [1..Len(a) -> R]
    BY <1>3
  <2>2. a = [i \in 1..Len(a) |-> a[i]]
    BY <2>1
  <2> QED
    BY <2>1, <2>2
<1>5. IsSequence(a)
  BY <1>4 DEF IsSequence
<1> USE DEF a
<1> QED
  BY <1>3, <1>5

LEMMA FunctionIsSequence ==
  ASSUME NEW s, IsSequence(s), NEW f, DOMAIN f = DOMAIN s, f = [i \in DOMAIN f |-> f[i]]
  PROVE  IsSequence(f)
<1>1. Len(s) \in Nat /\ DOMAIN s = 1..Len(s)
  BY DEF IsSequence
<1>2. f = [i \in 1..Len(s) |-> f[i]]
  BY <1>1
<1>3. f \in Seq({f[i] : i \in DOMAIN f})
  BY <1>1, <1>2
<1> QED
  BY <1>3 DEF IsSequence

-----------------------------------------------------------------------------
(* No output is spent twice *)

\* A proposal that spends no output twice.
IsGood(p) ==
    /\ IsProposal(p) /\ IsSequence(p.inputs)
    /\ \A i \in DOMAIN p.inputs : IsEntry(p.inputs[i])
    /\ Distinct(p.inputs)

IInv == Shape /\ InputsOnce /\ StoredOnce

LEMMA ProposalsAreGood == ASSUME IInv, NEW w \in Wallets PROVE IsGood(proposal[w])
  BY DEF IInv, Shape, InputsOnce, IsGood, Distinct

LEMMA BecomesKeeps ==
  ASSUME IInv, NEW w \in Wallets, NEW p, IsGood(p), Becomes(w, p), UNCHANGED service
  PROVE  IInv'
<1>1. proposal' = [proposal EXCEPT ![w] = p] /\ DOMAIN proposal = Wallets
  BY DEF Becomes, IInv, Shape
<1>2. proposal'[w] = p /\ \A v \in Wallets \ {w} : proposal'[v] = proposal[v]
  BY <1>1
<1>3. \A v \in Wallets : IsGood(proposal'[v])
  BY <1>2, ProposalsAreGood
<1>4. proposal' = [v \in Wallets |-> proposal'[v]]
  BY <1>1
<1>5. Shape'
  BY <1>3, <1>4 DEF Shape, IInv, IsGood
<1>6. InputsOnce'
  BY <1>3 DEF InputsOnce, IsGood, Distinct
<1> QED
  BY <1>5, <1>6 DEF IInv, StoredOnce

\* What leaves the inputs alone.
LEMMA SameInputsGood ==
  ASSUME NEW p, IsGood(p), NEW q, IsProposal(q), q.inputs = p.inputs
  PROVE  IsGood(q)
  BY DEF IsGood

LEMMA ResetGood ==
  ASSUME NEW p, IsGood(p)
  PROVE  /\ IsGood(ResetSignatures(p))
         /\ ResetSignatures(p) = [inputs |-> p.inputs, outputs |-> p.outputs,
                                  signatures |-> None, transaction |-> None]
<1>1. ResetSignatures(p) = [inputs |-> p.inputs, outputs |-> p.outputs,
                            signatures |-> None, transaction |-> None]
  BY DEF IsGood, IsProposal, ResetSignatures
<1>2. IsProposal(ResetSignatures(p)) /\ ResetSignatures(p).inputs = p.inputs
  BY <1>1 DEF IsProposal
<1> QED
  BY <1>1, <1>2, SameInputsGood

\* An input that the proposal does not have.
LEMMA AddInputGood ==
  ASSUME NEW p, IsGood(p), NEW u, u \notin {p.inputs[i].utxo : i \in DOMAIN p.inputs}
  PROVE  IsGood(AddInput(p, u))
<1> DEFINE e == [utxo |-> u, data |-> None]
           a == Append(p.inputs, e)
<1>1. AddInput(p, u) = [inputs |-> a, outputs |-> p.outputs, signatures |-> None,
                        transaction |-> None]
  BY DEF AddInput, ResetSignatures
<1>2. /\ IsSequence(a)
      /\ Len(p.inputs) \in Nat /\ DOMAIN p.inputs = 1..Len(p.inputs)
      /\ DOMAIN a = 1..(Len(p.inputs) + 1)
      /\ \A i \in DOMAIN p.inputs : a[i] = p.inputs[i]
      /\ a[Len(p.inputs) + 1] = e
  BY AppendLast DEF IsGood
<1>3. IsEntry(e) /\ e.utxo = u
  BY DEF IsEntry
<1> HIDE DEF a, e
<1>4. \A i \in DOMAIN a : i \in DOMAIN p.inputs \/ i = Len(p.inputs) + 1
  BY <1>2
<1>5. \A i \in DOMAIN a : IsEntry(a[i])
  BY <1>2, <1>3, <1>4 DEF IsGood
<1>6. Distinct(a)
  <2> SUFFICES ASSUME NEW i \in DOMAIN a, NEW j \in DOMAIN a, a[i].utxo = a[j].utxo PROVE i = j
    BY DEF Distinct
  <2>1. CASE i \in DOMAIN p.inputs /\ j \in DOMAIN p.inputs
    BY <1>2, <2>1 DEF IsGood, Distinct
  <2>2. CASE i \in DOMAIN p.inputs /\ j = Len(p.inputs) + 1
    BY <1>2, <1>3, <2>2
  <2>3. CASE i = Len(p.inputs) + 1 /\ j \in DOMAIN p.inputs
    BY <1>2, <1>3, <2>3
  <2> QED
    BY <1>4, <2>1, <2>2, <2>3
<1>7. IsProposal(AddInput(p, u)) /\ AddInput(p, u).inputs = a
  BY <1>1 DEF IsProposal
<1> QED
  BY <1>2, <1>5, <1>6, <1>7 DEF IsGood

\* What prepareTx() sets, and what the service keeps: as many inputs, with the same utxos.
LEMMA SameUtxosGood ==
  ASSUME NEW p, IsGood(p), NEW q, IsProposal(q), DOMAIN q.inputs = DOMAIN p.inputs,
         q.inputs = [i \in DOMAIN q.inputs |-> q.inputs[i]],
         \A i \in DOMAIN q.inputs : IsEntry(q.inputs[i]) /\ q.inputs[i].utxo = p.inputs[i].utxo
  PROVE  IsGood(q)
  BY FunctionIsSequence DEF IsGood, Distinct

LEMMA PrepareTxKeeps ==
  ASSUME IInv, NEW w \in Wallets, PrepareTx(w)
  PROVE  IInv'
<1> DEFINE p == proposal[w]
           Data(i) == IF i \in DOMAIN p.signatures.data
                      THEN [utxo |-> p.inputs[i].utxo, data |-> p.signatures.data[i]]
                      ELSE p.inputs[i]
           inputs == [i \in DOMAIN p.inputs |-> Data(i)]
           q == [inputs |-> inputs, outputs |-> p.outputs, signatures |-> p.signatures,
                 transaction |-> [content |-> Content(p),
                                  data |-> [i \in DOMAIN inputs |-> inputs[i].data]]]
<1>1. IsGood(p)
  BY ProposalsAreGood
<1>2. Becomes(w, q) /\ UNCHANGED service
  BY DEF PrepareTx
<1>3. \A i \in DOMAIN p.inputs : IsEntry(Data(i)) /\ Data(i).utxo = p.inputs[i].utxo
  BY <1>1 DEF IsGood, IsEntry
<1>4. IsProposal(q) /\ q.inputs = inputs
  BY <1>1 DEF IsGood, IsProposal
<1>5. IsGood(q)
  <2> HIDE DEF p, q, Data
  <2>1. DOMAIN q.inputs = DOMAIN p.inputs /\ q.inputs = [i \in DOMAIN q.inputs |-> q.inputs[i]]
    BY <1>4
  <2>2. \A i \in DOMAIN q.inputs : IsEntry(q.inputs[i]) /\ q.inputs[i].utxo = p.inputs[i].utxo
    BY <1>3, <1>4
  <2> QED
    BY <1>1, <1>4, <2>1, <2>2, SameUtxosGood
<1> QED
  BY <1>2, <1>5, BecomesKeeps

LEMMA AddOutputGood ==
  ASSUME NEW p, IsGood(p), NEW o
  PROVE  IsGood(AddOutput(p, o))
<1>1. AddOutput(p, o) = [inputs |-> p.inputs, outputs |-> Append(p.outputs, o),
                         signatures |-> None, transaction |-> None]
  <2> DEFINE r == [inputs |-> p.inputs, outputs |-> p.outputs, signatures |-> None,
                   transaction |-> None]
             a == Append(p.outputs, o)
  <2>1. AddOutput(p, o) = [r EXCEPT !.outputs = a]
    BY ResetGood DEF AddOutput
  <2>2. ASSUME NEW b
        PROVE  [r EXCEPT !.outputs = b] = [inputs |-> p.inputs, outputs |-> b, signatures |-> None,
                                           transaction |-> None]
    OBVIOUS
  <2> QED
    BY <2>1, <2>2
<1>2. IsProposal(AddOutput(p, o)) /\ AddOutput(p, o).inputs = p.inputs
  BY <1>1 DEF IsProposal
<1> QED
  BY <1>2, SameInputsGood

LEMMA SelectKeeps ==
  ASSUME IInv, NEW w \in Wallets, NEW k, UNCHANGED service, NEW choices,
         choices \cap {proposal[w].inputs[i].utxo : i \in DOMAIN proposal[w].inputs} = {},
         Select(w, k, choices)
  PROVE  IInv'
<1>1. CASE UNCHANGED proposal
  BY <1>1 DEF IInv, Shape, InputsOnce, StoredOnce
<1>2. CASE \E u \in choices : Becomes(w, AddInput(proposal[w], u))
  <2>1. PICK u \in choices : Becomes(w, AddInput(proposal[w], u))
    BY <1>2
  <2>2. u \notin {proposal[w].inputs[i].utxo : i \in DOMAIN proposal[w].inputs}
    OBVIOUS
  <2>3. IsGood(AddInput(proposal[w], u))
    BY <2>2, AddInputGood, ProposalsAreGood
  <2> QED
    BY <2>1, <2>3, BecomesKeeps
<1> QED
  BY <1>1, <1>2 DEF Select

\* The proposal that is read from the service, from the transaction that is stored.
LEMMA GetKeeps ==
  ASSUME IInv, NEW w \in Wallets, Get(w)
  PROVE  IInv'
<1> DEFINE p == Deserialize(service.partialTx)
           stored == service.partialTx.tx.inputs
<1>1. Becomes(w, p) /\ UNCHANGED service /\ service # None
  BY DEF Get
<1>2. IsSequence(stored) /\ \A i, j \in DOMAIN stored : stored[i] = stored[j] => i = j
  BY <1>1 DEF IInv, Shape, StoredOnce
<1>3. IsProposal(p) /\ p.inputs = [i \in DOMAIN stored |-> [utxo |-> stored[i], data |-> None]]
  BY DEF Deserialize, IsProposal
<1> HIDE DEF p, stored
<1>4. /\ DOMAIN p.inputs = DOMAIN stored /\ p.inputs = [i \in DOMAIN p.inputs |-> p.inputs[i]]
      /\ \A i \in DOMAIN p.inputs : IsEntry(p.inputs[i]) /\ p.inputs[i].utxo = stored[i]
  BY <1>3 DEF IsEntry
<1>5. IsSequence(p.inputs)
  BY <1>2, <1>4, FunctionIsSequence
<1>6. IsGood(p)
  BY <1>2, <1>3, <1>4, <1>5 DEF IsGood, Distinct
<1> QED
  BY <1>1, <1>6, BecomesKeeps

\* create() and update() store the transaction of a proposal that spends nothing twice.
LEMMA StoredKeeps ==
  ASSUME IInv, NEW w \in Wallets, UNCHANGED proposal, NEW n, Stored(w, n)
  PROVE  IInv'
<1> DEFINE p == proposal[w]
           stored == [i \in DOMAIN p.inputs |-> p.inputs[i].utxo]
<1>1. IsGood(p)
  BY ProposalsAreGood
<1>2. service'.partialTx.tx.inputs = stored
  BY DEF Stored, Serialize, Content
<1>3. IsSequence(stored)
  BY <1>1, FunctionIsSequence DEF IsGood
<1>4. \A i, j \in DOMAIN stored : stored[i] = stored[j] => i = j
  BY <1>1 DEF IsGood, Distinct
<1>5. Shape'
  BY <1>2, <1>3 DEF IInv, Shape
<1>6. StoredOnce'
  BY <1>2, <1>4 DEF StoredOnce
<1> QED
  BY <1>5, <1>6 DEF IInv, InputsOnce

LEMMA InvInit == SwapInit => IInv
<1> SUFFICES ASSUME SwapInit PROVE IInv
  OBVIOUS
<1>1. IsSequence(NoProposal.inputs) /\ IsProposal(NoProposal) /\ NoProposal.inputs = <<>>
  BY DEF NoProposal, IsProposal, IsSequence
<1>2. \A w \in Wallets : proposal[w] = NoProposal
  BY DEF SwapInit
<1>3. Shape
  BY <1>1, <1>2 DEF SwapInit, Shape
<1>4. InputsOnce
  BY <1>1, <1>2 DEF InputsOnce
<1> QED
  BY <1>3, <1>4 DEF IInv, StoredOnce, SwapInit

LEMMA InvNext == IInv /\ [SwapNext]_swapVars => IInv'
<1> SUFFICES ASSUME IInv, [SwapNext]_swapVars PROVE IInv'
  OBVIOUS
<1>1. ASSUME NEW w \in Wallets, NEW k \in Slots, AddSend(w, k) \/ AddReceive(w, k) PROVE IInv'
  BY <1>1, ResetGood, ProposalsAreGood, BecomesKeeps DEF AddSend, AddReceive
<1>2. ASSUME NEW w \in Wallets, NEW k \in Slots, UtxosKnown(w, k) PROVE IInv'
  <2> DEFINE used == {proposal[w].inputs[i].utxo : i \in DOMAIN proposal[w].inputs}
  <2>1. Select(w, k, calls[w][k].utxos \ used) /\ UNCHANGED service
    BY <1>2 DEF UtxosKnown
  <2>2. (calls[w][k].utxos \ used) \cap used = {}
    OBVIOUS
  <2> QED
    BY <2>1, <2>2, SelectKeeps
<1>3. ASSUME NEW w \in Wallets, NEW k \in Slots, AddressKnown(w, k) PROVE IInv'
  BY <1>3, AddOutputGood, ProposalsAreGood, BecomesKeeps DEF AddressKnown
<1>4. ASSUME NEW w \in Wallets, NEW q, Becomes(w, q), UNCHANGED service,
             NEW s, q = [proposal[w] EXCEPT !.signatures = s]
      PROVE  IInv'
  <2>1. IsGood(proposal[w])
    BY ProposalsAreGood
  <2>2. q = [inputs |-> proposal[w].inputs, outputs |-> proposal[w].outputs, signatures |-> s,
             transaction |-> proposal[w].transaction]
    BY <1>4, <2>1 DEF IsGood, IsProposal
  <2>3. IsProposal(q) /\ q.inputs = proposal[w].inputs
    BY <2>2 DEF IsProposal
  <2> QED
    BY <1>4, <2>1, <2>3, SameInputsGood, BecomesKeeps
<1>5. ASSUME UNCHANGED proposal, UNCHANGED service PROVE IInv'
  BY <1>5 DEF IInv, Shape, InputsOnce, StoredOnce
<1>6. ASSUME NEW w \in Wallets, NEW k \in Slots, SignData(w, k) PROVE IInv'
  BY <1>4, <1>6 DEF SignData
<1>7. ASSUME NEW w \in Wallets, NEW k \in Slots, SignFails(w, k) PROVE IInv'
  BY <1>5, <1>7 DEF SignFails
<1>8. ASSUME NEW w \in Wallets, NEW k \in Slots, Signed(w, k) PROVE IInv'
  BY <1>4, <1>5, <1>8 DEF Signed
<1>9. ASSUME NEW w \in Wallets, AddSignatures(w) PROVE IInv'
  BY <1>4, <1>9 DEF AddSignatures
<1>10. ASSUME NEW w \in Wallets, Create(w) \/ Update(w) PROVE IInv'
  BY <1>10, StoredKeeps DEF Create, Update
<1>11. CASE UNCHANGED swapVars
  BY <1>5, <1>11 DEF swapVars
<1> QED
  BY <1>1, <1>2, <1>3, <1>6, <1>7, <1>8, <1>9, <1>10, <1>11, PrepareTxKeeps, GetKeeps DEF SwapNext

\* However the calls of addSend() overlap, and whatever is fetched, stored and signed in
\* between, no proposal of any wallet spends an output twice (addSend(), which filters the
\* utxos by the inputs the proposal has when it goes on).
THEOREM ProposalsSpendOnce == SwapSpec => []InputsOnce
<1>1. IInv => InputsOnce
  BY DEF IInv
<1> QED
  BY <1>1, InvInit, InvNext, PTL DEF SwapSpec

-----------------------------------------------------------------------------
(* Signatures are those of the proposal as it is *)

\* Every signature that was read from the service, or stored on it, is of its transaction.
Told(signatures) ==
    signatures # None =>
        \A i \in DOMAIN signatures.data : signatures.data[i] = signatures.hash

\* The signatures, and the data that prepareTx() set, are of the proposal.
Honest(p) ==
    /\ p.signatures # None =>
           /\ p.signatures.hash = Content(p)
           /\ \A i \in DOMAIN p.signatures.data : p.signatures.data[i] = Content(p)
    /\ \A i \in DOMAIN p.inputs : p.inputs[i].data \in {None, Content(p)}

Unprepared(p) == \A i \in DOMAIN p.inputs : p.inputs[i].data = None

\* What a call that awaits something has captured is still so, and a change comes before
\* the data of the inputs.
Awaits(p, call) ==
    /\ call.step = "sign" => call.content = Content(p) /\ call.inputs = p.inputs
    /\ call.step \in {"utxos", "address"} => Unprepared(p)

OneAtATime(w) ==
    \A j, k \in Slots : calls[w][j] # Idle /\ calls[w][k] # Idle => j = k

CallsShape ==
    /\ calls = [w \in Wallets |-> calls[w]]
    /\ fetched = [w \in Wallets |-> fetched[w]]
    /\ \A w \in Wallets : calls[w] = [k \in Slots |-> calls[w][k]] /\ IsFetched(fetched[w])

SInv ==
    /\ CallsShape
    /\ \A w \in Wallets :
        /\ Honest(proposal[w]) /\ OneAtATime(w) /\ Told(fetched[w].signatures)
        /\ \A k \in Slots : Awaits(proposal[w], calls[w][k])
    /\ service # None => Told(service.signatures)

\* The content is that of the outputs and of the utxos of the inputs: neither signatures
\* nor data of inputs change it.
LEMMA SameContent ==
  ASSUME NEW p, NEW q, q.outputs = p.outputs, DOMAIN q.inputs = DOMAIN p.inputs,
         \A i \in DOMAIN p.inputs : q.inputs[i].utxo = p.inputs[i].utxo
  PROVE  Content(q) = Content(p)
<1>1. [i \in DOMAIN q.inputs |-> Token[q.inputs[i].utxo]]
        = [i \in DOMAIN p.inputs |-> Token[p.inputs[i].utxo]]
  OBVIOUS
<1>2. TokenArray(q) = TokenArray(p)
  BY <1>1 DEF TokenArray
<1>3. \A t : TokenIndex(q, t) = TokenIndex(p, t)
  BY <1>2 DEF TokenIndex
<1>4. [i \in DOMAIN q.inputs |-> q.inputs[i].utxo] = [i \in DOMAIN p.inputs |-> p.inputs[i].utxo]
  OBVIOUS
<1> DEFINE Out(r) == [i \in DOMAIN r.outputs |->
                        [address |-> r.outputs[i].address, value |-> r.outputs[i].value,
                         token |-> TokenIndex(r, r.outputs[i].token)]]
<1>5. Out(q) = Out(p)
  BY <1>3
<1>6. /\ Content(q) = [inputs |-> [i \in DOMAIN q.inputs |-> q.inputs[i].utxo],
                       outputs |-> Out(q), tokens |-> TokenArray(q)]
      /\ Content(p) = [inputs |-> [i \in DOMAIN p.inputs |-> p.inputs[i].utxo],
                       outputs |-> Out(p), tokens |-> TokenArray(p)]
  BY Zenon DEF Content
<1> HIDE DEF Out
<1> QED
  BY <1>2, <1>4, <1>5, <1>6

\* A step of a call: the others of the wallet are idle.
LEMMA CallKeeps ==
  ASSUME IInv, SInv, NEW w \in Wallets, NEW k \in Slots,
         \A j \in Slots \ {k} : calls[w][j] = Idle,
         NEW p, Becomes(w, p), Honest(p),
         NEW call, Goes(w, k, call), Awaits(p, call),
         UNCHANGED <<service, fetched>>
  PROVE  SInv'
<1>1. DOMAIN proposal = Wallets /\ DOMAIN calls = Wallets /\ DOMAIN calls[w] = Slots
  BY DEF IInv, Shape, SInv, CallsShape
<1>2. /\ proposal'[w] = p /\ \A v \in Wallets \ {w} : proposal'[v] = proposal[v]
      /\ \A v \in Wallets \ {w} : calls'[v] = calls[v]
      /\ calls'[w] = [calls[w] EXCEPT ![k] = call]
  BY <1>1 DEF Becomes, Goes
<1>3. calls'[w][k] = call /\ \A j \in Slots \ {k} : calls'[w][j] = Idle
  BY <1>1, <1>2
<1>4. \A v \in Wallets : Honest(proposal'[v]) /\ Told(fetched'[v].signatures)
  BY <1>2 DEF SInv
<1>5. \A v \in Wallets : OneAtATime(v)'
  <2> SUFFICES ASSUME NEW v \in Wallets, NEW i \in Slots, NEW j \in Slots,
                      calls'[v][i] # Idle, calls'[v][j] # Idle
               PROVE  i = j
    BY Zenon DEF OneAtATime
  <2>1. CASE v = w
    BY <1>3, <2>1
  <2>2. CASE v # w
    BY <1>2, <2>2 DEF SInv, OneAtATime
  <2> QED
    BY <2>1, <2>2
<1>6. Awaits(p, Idle)
  BY DEF Awaits, Idle
<1>7. \A v \in Wallets : \A j \in Slots : Awaits(proposal'[v], calls'[v][j])
  <2> SUFFICES ASSUME NEW v \in Wallets, NEW j \in Slots
               PROVE  Awaits(proposal'[v], calls'[v][j])
    OBVIOUS
  <2>1. CASE v = w /\ j = k
    BY <1>2, <1>3, <2>1
  <2>2. CASE v = w /\ j # k
    BY <1>2, <1>3, <1>6, <2>2
  <2>3. CASE v # w
    BY <1>2, <2>3 DEF SInv
  <2> QED
    BY <2>1, <2>2, <2>3
<1>8. CallsShape'
  <2>1. calls' = [v \in Wallets |-> calls'[v]]
    BY <1>1 DEF Goes
  <2>2. \A v \in Wallets : calls'[v] = [j \in Slots |-> calls'[v][j]]
    <3> SUFFICES ASSUME NEW v \in Wallets PROVE calls'[v] = [j \in Slots |-> calls'[v][j]]
      OBVIOUS
    <3>1. CASE v = w
      BY <1>1, <1>2, <3>1
    <3>2. CASE v # w
      BY <1>2, <3>2 DEF SInv, CallsShape
    <3> QED
      BY <3>1, <3>2
  <2> QED
    BY <2>1, <2>2 DEF SInv, CallsShape
<1> QED
  BY <1>4, <1>5, <1>7, <1>8 DEF SInv

\* A step between the calls of the wallet.
LEMMA BetweenKeeps ==
  ASSUME IInv, SInv, NEW w \in Wallets, ~Busy(w), NEW p, Becomes(w, p), Honest(p),
         UNCHANGED calls, CallsShape', UNCHANGED service,
         \A v \in Wallets : Told(fetched'[v].signatures)
  PROVE  SInv'
<1>1. proposal'[w] = p /\ \A v \in Wallets \ {w} : proposal'[v] = proposal[v]
  BY DEF IInv, Shape, Becomes
<1>2. Awaits(p, Idle)
  BY DEF Awaits, Idle
<1>3. \A k \in Slots : calls[w][k] = Idle
  BY DEF Busy
<1> QED
  BY <1>1, <1>2, <1>3 DEF SInv, OneAtATime

\* A call that goes on is the only one of its wallet.
LEMMA OthersIdle ==
  ASSUME SInv, NEW w \in Wallets, NEW k \in Slots, calls[w][k].step \in {"utxos", "address", "sign"}
  PROVE  \A j \in Slots \ {k} : calls[w][j] = Idle
  BY DEF SInv, OneAtATime, Idle

LEMMA UnpreparedIsHonest ==
  ASSUME NEW p, Unprepared(p), p.signatures = None
  PROVE  Honest(p)
  BY DEF Unprepared, Honest

LEMMA AddInputUnprepared ==
  ASSUME NEW p, IsGood(p), Unprepared(p), NEW u
  PROVE  Unprepared(AddInput(p, u)) /\ AddInput(p, u).signatures = None
<1> DEFINE e == [utxo |-> u, data |-> None]
           a == Append(p.inputs, e)
<1>1. AddInput(p, u) = [inputs |-> a, outputs |-> p.outputs, signatures |-> None,
                        transaction |-> None]
  BY DEF AddInput, ResetSignatures
<1>2. /\ Len(p.inputs) \in Nat /\ DOMAIN p.inputs = 1..Len(p.inputs)
      /\ DOMAIN a = 1..(Len(p.inputs) + 1)
      /\ \A i \in DOMAIN p.inputs : a[i] = p.inputs[i]
      /\ a[Len(p.inputs) + 1] = e
  BY AppendLast DEF IsGood
<1>3. e.data = None
  OBVIOUS
<1> HIDE DEF a, e
<1>4. \A i \in DOMAIN a : a[i].data = None
  <2> SUFFICES ASSUME NEW i \in DOMAIN a PROVE a[i].data = None
    OBVIOUS
  <2>1. i \in DOMAIN p.inputs \/ i = Len(p.inputs) + 1
    BY <1>2
  <2> QED
    BY <1>2, <1>3, <2>1 DEF Unprepared
<1> QED
  BY <1>1, <1>4 DEF Unprepared

LEMMA AddOutputUnprepared ==
  ASSUME NEW p, Unprepared(p), NEW o
  PROVE  Unprepared(AddOutput(p, o)) /\ AddOutput(p, o).signatures = None
<1>1. AddOutput(p, o) = [ResetSignatures(p) EXCEPT !.outputs = Append(p.outputs, o)]
  BY DEF AddOutput
<1>2. ASSUME NEW b
      PROVE  LET q == [ResetSignatures(p) EXCEPT !.outputs = b]
             IN  q.inputs = p.inputs /\ q.signatures = None
  BY DEF ResetSignatures
<1>3. AddOutput(p, o).inputs = p.inputs /\ AddOutput(p, o).signatures = None
  BY <1>1, <1>2
<1> QED
  BY <1>3 DEF Unprepared

\* addSend() and addReceive() change a proposal whose inputs have no data yet.
LEMMA ChangesKeepSignatures ==
  ASSUME IInv, SInv, ~Reopens, hasty = {}, NEW w \in Wallets, NEW k \in Slots,
         AddSend(w, k) \/ AddReceive(w, k)
  PROVE  SInv'
<1> DEFINE q == ResetSignatures(proposal[w])
<1>1. ~Busy(w) /\ Unprepared(proposal[w])
  BY DEF AddSend, AddReceive, MayChange, MayCall, Unprepared
<1>2. Becomes(w, q) /\ UNCHANGED <<service, fetched>>
  BY DEF AddSend, AddReceive
<1>3. PICK call : Goes(w, k, call) /\ call.step \in {"utxos", "address"}
  <2>1. CASE AddSend(w, k)
    <3> DEFINE c(us, is) == [step |-> "utxos", utxos |-> us, inputs |-> is]
    <3>1. PICK us, is : Goes(w, k, c(us, is))
      BY <2>1 DEF AddSend
    <3>2. c(us, is).step = "utxos"
      OBVIOUS
    <3> HIDE DEF c
    <3> QED
      BY <3>1, <3>2
  <2>2. CASE AddReceive(w, k)
    <3> DEFINE c(o) == [step |-> "address", output |-> o]
    <3>1. PICK o : Goes(w, k, c(o))
      BY <2>2 DEF AddReceive
    <3>2. c(o).step = "address"
      OBVIOUS
    <3> HIDE DEF c
    <3> QED
      BY <3>1, <3>2
  <2> QED
    BY <2>1, <2>2
<1>4. Unprepared(q) /\ Honest(q)
  BY <1>1, UnpreparedIsHonest DEF ResetSignatures, Unprepared
<1>5. Awaits(q, call)
  BY <1>3, <1>4 DEF Awaits
<1>6. \A j \in Slots \ {k} : calls[w][j] = Idle
  BY <1>1 DEF Busy
<1> HIDE DEF q
<1> QED
  BY <1>2, <1>3, <1>4, <1>5, <1>6, CallKeeps

LEMMA GoesOnKeepsSignatures ==
  ASSUME IInv, SInv, NEW w \in Wallets, NEW k \in Slots,
         UtxosKnown(w, k) \/ AddressKnown(w, k)
  PROVE  SInv'
<1>1. calls[w][k].step \in {"utxos", "address"} /\ UNCHANGED <<service, fetched>>
  BY DEF UtxosKnown, AddressKnown
<1>2. \A j \in Slots \ {k} : calls[w][j] = Idle
  BY <1>1, OthersIdle
<1>3. Unprepared(proposal[w]) /\ IsGood(proposal[w]) /\ Honest(proposal[w])
  BY <1>1, ProposalsAreGood DEF SInv, Awaits
<1>4. \A q : Awaits(q, Idle)
  BY DEF Awaits, Idle
<1>5. CASE \E u : Becomes(w, AddInput(proposal[w], u))
                    /\ (Ends(w, k) \/ \E o : Goes(w, k, [step |-> "address", output |-> o]))
  <2>1. PICK u : Becomes(w, AddInput(proposal[w], u))
                    /\ (Ends(w, k) \/ \E o : Goes(w, k, [step |-> "address", output |-> o]))
    BY <1>5
  <2> DEFINE q == AddInput(proposal[w], u)
  <2>2. Unprepared(q) /\ Honest(q)
    BY <1>3, AddInputUnprepared, UnpreparedIsHonest
  <2>3. \A o : Awaits(q, [step |-> "address", output |-> o])
    BY <2>2 DEF Awaits
  <2> HIDE DEF q
  <2>4. PICK call : Goes(w, k, call) /\ Awaits(q, call)
    BY <1>4, <2>1, <2>3 DEF Ends
  <2>5. Becomes(w, q)
    BY <2>1 DEF q
  <2> QED
    BY <1>1, <1>2, <2>2, <2>4, <2>5, CallKeeps
<1>6. CASE Ends(w, k) /\ UNCHANGED proposal
  <2>1. Becomes(w, proposal[w])
    BY <1>6 DEF Becomes, IInv, Shape
  <2> QED
    BY <1>1, <1>2, <1>3, <1>4, <1>6, <2>1, CallKeeps DEF Ends
<1>7. CASE AddressKnown(w, k)
  <2> DEFINE q == AddOutput(proposal[w], calls[w][k].output)
  <2>1. Becomes(w, q) /\ Goes(w, k, Idle)
    BY <1>7 DEF AddressKnown, Ends
  <2>2. Honest(q)
    BY <1>3, AddOutputUnprepared, UnpreparedIsHonest
  <2> HIDE DEF q
  <2> QED
    BY <1>1, <1>2, <1>4, <2>1, <2>2, CallKeeps
<1>8. CASE UtxosKnown(w, k)
  BY <1>5, <1>6, <1>8 DEF UtxosKnown, Select
<1> QED
  BY <1>7, <1>8

\* What changes no more than the signatures leaves the content as it is.
LEMMA SignaturesChange ==
  ASSUME NEW p, IsProposal(p), Honest(p), NEW s,
         s.hash = Content(p), \A i \in DOMAIN s.data : s.data[i] = Content(p)
  PROVE  LET q == [p EXCEPT !.signatures = s]
         IN  Honest(q) /\ Content(q) = Content(p) /\ q.inputs = p.inputs
<1> DEFINE q == [p EXCEPT !.signatures = s]
<1>1. q = [inputs |-> p.inputs, outputs |-> p.outputs, signatures |-> s,
           transaction |-> p.transaction]
  BY DEF IsProposal
<1>2. q.inputs = p.inputs /\ q.outputs = p.outputs /\ q.signatures = s
  BY <1>1
<1> HIDE DEF q
<1>3. Content(q) = Content(p)
  BY <1>2, SameContent
<1>4. Honest(q)
  BY <1>2, <1>3 DEF Honest
<1> USE DEF q
<1> QED
  BY <1>2, <1>3, <1>4

LEMMA SignDataKeepsSignatures ==
  ASSUME IInv, SInv, hasty = {}, NEW w \in Wallets, NEW k \in Slots, SignData(w, k)
  PROVE  SInv'
<1> DEFINE p == proposal[w]
           s == Empty(Content(p))
           q == [p EXCEPT !.signatures = s]
           call == [step |-> "sign", content |-> Content(p), inputs |-> p.inputs]
<1>1. IsProposal(p) /\ Honest(p)
  BY ProposalsAreGood DEF IsGood, SInv
<1>2. s.hash = Content(p) /\ \A i \in DOMAIN s.data : s.data[i] = Content(p)
  BY DEF Empty
<1>3. Honest(q) /\ Content(q) = Content(p) /\ q.inputs = p.inputs
  BY <1>1, <1>2, SignaturesChange
<1>4. \A j \in Slots \ {k} : calls[w][j] = Idle
  BY DEF SignData, MayCall, Busy
<1>5. Becomes(w, q) /\ Goes(w, k, call) /\ UNCHANGED <<service, fetched>>
  BY DEF SignData
<1>6. Awaits(q, call)
  BY <1>3 DEF Awaits
<1> HIDE DEF p, q, call
<1> QED
  BY <1>3, <1>4, <1>5, <1>6, CallKeeps

\* Data that is added to the signatures.
LEMMA AddDataKeeps ==
  ASSUME NEW c, NEW s, s.hash = c, \A i \in DOMAIN s.data : s.data[i] = c,
         NEW more, \A i \in DOMAIN more : more[i] = c
  PROVE  /\ AddData(s, more).hash = c
         /\ \A i \in DOMAIN AddData(s, more).data : AddData(s, more).data[i] = c
  BY DEF AddData

LEMMA SignedKeepsSignatures ==
  ASSUME IInv, SInv, NEW w \in Wallets, NEW k \in Slots, Signed(w, k) \/ SignFails(w, k)
  PROVE  SInv'
<1> DEFINE p == proposal[w]
           call == calls[w][k]
<1>1. IsProposal(p) /\ Honest(p)
  BY ProposalsAreGood DEF IsGood, SInv
<1>2. call.step = "sign" /\ Goes(w, k, Idle) /\ UNCHANGED <<service, fetched>>
  BY DEF Signed, SignFails, Ends
<1>3. \A j \in Slots \ {k} : calls[w][j] = Idle
  BY <1>2, OthersIdle
<1>4. \A q : Awaits(q, Idle)
  BY DEF Awaits, Idle
<1>5. CASE UNCHANGED proposal
  <2>1. Becomes(w, p)
    BY <1>5 DEF Becomes, IInv, Shape
  <2> QED
    BY <1>1, <1>2, <1>3, <1>4, <2>1, CallKeeps
<1>6. CASE Signed(w, k) /\ p.signatures # None
  <2> DEFINE Data(i) == IF Owner[call.inputs[i].utxo] = w THEN call.content
                        ELSE call.inputs[i].data
             known == {i \in DOMAIN call.inputs : Data(i) # None}
             more == [i \in known |-> Data(i)]
             s == AddData(p.signatures, more)
             q == [p EXCEPT !.signatures = s]
  <2>1. Becomes(w, q)
    BY <1>6 DEF Signed
  <2>2. call.content = Content(p) /\ call.inputs = p.inputs
    BY <1>2 DEF SInv, Awaits
  <2>3. \A i \in DOMAIN more : more[i] = Content(p)
    BY <1>1, <2>2 DEF Honest
  <2>4. /\ p.signatures.hash = Content(p)
        /\ \A i \in DOMAIN p.signatures.data : p.signatures.data[i] = Content(p)
    BY <1>1, <1>6 DEF Honest
  <2> HIDE DEF p, more
  <2>5. s.hash = Content(p) /\ \A i \in DOMAIN s.data : s.data[i] = Content(p)
    BY <2>3, <2>4, AddDataKeeps
  <2> HIDE DEF s
  <2>6. Honest(q)
    BY <1>1, <2>5, SignaturesChange
  <2> HIDE DEF q
  <2> QED
    BY <1>2, <1>3, <1>4, <2>1, <2>6, CallKeeps
<1> QED
  BY <1>5, <1>6 DEF Signed, SignFails

LEMMA AddSignaturesKeepsSignatures ==
  ASSUME IInv, SInv, hasty = {}, NEW w \in Wallets, AddSignatures(w)
  PROVE  SInv'
<1> DEFINE p == proposal[w]
           theirs == fetched[w].signatures
           s == AddData(p.signatures, theirs.data)
           q == [p EXCEPT !.signatures = s]
<1>1. IsProposal(p) /\ Honest(p) /\ Told(theirs)
  BY ProposalsAreGood DEF IsGood, SInv
<1>2. /\ Becomes(w, q) /\ ~Busy(w) /\ UNCHANGED <<calls, service, fetched>>
      /\ p.signatures # None /\ theirs # None /\ theirs.hash = p.signatures.hash
  BY DEF AddSignatures
<1>3. /\ p.signatures.hash = Content(p)
      /\ \A i \in DOMAIN p.signatures.data : p.signatures.data[i] = Content(p)
      /\ \A i \in DOMAIN theirs.data : theirs.data[i] = Content(p)
  BY <1>1, <1>2 DEF Honest, Told
<1> HIDE DEF p
<1>4. s.hash = Content(p) /\ \A i \in DOMAIN s.data : s.data[i] = Content(p)
  BY <1>3, AddDataKeeps
<1> HIDE DEF s
<1>5. Honest(q)
  BY <1>1, <1>4, SignaturesChange
<1>6. CallsShape' /\ \A v \in Wallets : Told(fetched'[v].signatures)
  BY <1>2 DEF SInv, CallsShape
<1> HIDE DEF q
<1> QED
  BY <1>2, <1>5, <1>6, BetweenKeeps

LEMMA PrepareTxKeepsSignatures ==
  ASSUME IInv, SInv, hasty = {}, NEW w \in Wallets, PrepareTx(w)
  PROVE  SInv'
<1> DEFINE p == proposal[w]
           Data(i) == IF i \in DOMAIN p.signatures.data
                      THEN [utxo |-> p.inputs[i].utxo, data |-> p.signatures.data[i]]
                      ELSE p.inputs[i]
           inputs == [i \in DOMAIN p.inputs |-> Data(i)]
           q == [inputs |-> inputs, outputs |-> p.outputs, signatures |-> p.signatures,
                 transaction |-> [content |-> Content(p),
                                  data |-> [i \in DOMAIN inputs |-> inputs[i].data]]]
<1>1. Honest(p)
  BY DEF SInv
<1>2. /\ Becomes(w, q) /\ ~Busy(w) /\ UNCHANGED <<calls, service, fetched>>
      /\ p.signatures # None
  BY DEF PrepareTx, SignaturesComplete
<1>3. \A i \in DOMAIN p.inputs : Data(i).utxo = p.inputs[i].utxo
                                   /\ Data(i).data \in {None, Content(p)}
  BY <1>1, <1>2 DEF Honest
<1>4. q.inputs = inputs /\ q.outputs = p.outputs /\ q.signatures = p.signatures
  OBVIOUS
<1> HIDE DEF q, p, Data
<1>5. /\ DOMAIN q.inputs = DOMAIN p.inputs
      /\ \A i \in DOMAIN p.inputs : q.inputs[i].utxo = p.inputs[i].utxo
                                      /\ q.inputs[i].data \in {None, Content(p)}
  BY <1>3, <1>4
<1>6. Content(q) = Content(p)
  BY <1>4, <1>5, SameContent
<1>7. Honest(q)
  BY <1>1, <1>4, <1>5, <1>6 DEF Honest
<1>8. CallsShape' /\ \A v \in Wallets : Told(fetched'[v].signatures)
  BY <1>2 DEF SInv, CallsShape
<1> QED
  BY <1>2, <1>7, <1>8, BetweenKeeps

\* get(): the signatures that come with the transaction are kept apart.
LEMMA GetKeepsSignatures ==
  ASSUME IInv, SInv, NEW w \in Wallets, Get(w)
  PROVE  SInv'
<1> DEFINE q == Deserialize(service.partialTx)
           f == [version |-> service.version, signatures |-> service.signatures]
<1>1. /\ Becomes(w, q) /\ ~Busy(w) /\ UNCHANGED <<calls, service>> /\ service # None
      /\ fetched' = [fetched EXCEPT ![w] = f]
  BY DEF Get
<1>2. Unprepared(q) /\ q.signatures = None
  BY DEF Deserialize, Unprepared
<1>3. Honest(q)
  BY <1>2, UnpreparedIsHonest
<1>4. IsFetched(f) /\ f.signatures = service.signatures
  BY DEF IsFetched
<1> HIDE DEF q, f
<1>5. fetched'[w] = f /\ \A v \in Wallets \ {w} : fetched'[v] = fetched[v]
  BY <1>1 DEF SInv, CallsShape
<1>6. CallsShape'
  BY <1>1, <1>4, <1>5 DEF SInv, CallsShape
<1>7. \A v \in Wallets : Told(fetched'[v].signatures)
  BY <1>1, <1>4, <1>5 DEF SInv
<1> QED
  BY <1>1, <1>3, <1>6, <1>7, BetweenKeeps

LEMMA StoredKeepsSignatures ==
  ASSUME IInv, SInv, NEW w \in Wallets, Create(w) \/ Update(w)
  PROVE  SInv'
<1> DEFINE p == proposal[w]
<1>1. /\ UNCHANGED <<proposal, calls>>
      /\ \E n : Stored(w, n)
  BY DEF Create, Update
<1>2. service'.signatures = p.signatures
  BY <1>1 DEF Stored
<1>3. Told(p.signatures)
  BY DEF SInv, Honest, Told
<1>4. PICK n, s : /\ fetched' = [fetched EXCEPT ![w] = [version |-> n, signatures |-> s]]
                  /\ Told(s)
  <2>1. CASE Create(w)
    BY <2>1 DEF Create, Told
  <2>2. CASE Update(w)
    <3> DEFINE f == fetched[w]
    <3>1. IsFetched(f) /\ Told(f.signatures)
      BY DEF SInv, CallsShape
    <3>2. fetched' = [fetched EXCEPT ![w] = [f EXCEPT !.version = f.version + 1]]
      BY <2>2 DEF Update
    <3>3. [f EXCEPT !.version = f.version + 1]
            = [version |-> f.version + 1, signatures |-> f.signatures]
      BY <3>1 DEF IsFetched
    <3> QED
      BY <3>1, <3>2, <3>3
  <2> QED
    BY <2>1, <2>2
<1> DEFINE f == [version |-> n, signatures |-> s]
<1>5. IsFetched(f) /\ Told(f.signatures)
  BY <1>4 DEF IsFetched
<1>6. fetched'[w] = f /\ \A v \in Wallets \ {w} : fetched'[v] = fetched[v]
  BY <1>4 DEF SInv, CallsShape
<1>7. fetched' = [v \in Wallets |-> fetched'[v]]
  BY <1>4 DEF SInv, CallsShape
<1> HIDE DEF f
<1>8. CallsShape'
  BY <1>1, <1>5, <1>6, <1>7 DEF SInv, CallsShape
<1>9. \A v \in Wallets : Told(fetched'[v].signatures)
  BY <1>5, <1>6 DEF SInv
<1> QED
  BY <1>1, <1>2, <1>3, <1>8, <1>9 DEF SInv, OneAtATime

LEMMA SInvInit == SwapInit => SInv
<1> SUFFICES ASSUME SwapInit PROVE SInv
  OBVIOUS
<1>1. Honest(NoProposal) /\ Awaits(NoProposal, Idle)
  BY DEF NoProposal, Honest, Awaits, Idle
<1>2. \A w \in Wallets : /\ proposal[w] = NoProposal
                         /\ calls[w] = [k \in Slots |-> Idle]
                         /\ fetched[w] = [version |-> 0, signatures |-> None]
  BY DEF SwapInit
<1>3. IsFetched([version |-> 0, signatures |-> None]) /\ Told(None)
  BY DEF IsFetched, Told
<1>4. CallsShape
  BY <1>2, <1>3 DEF SwapInit, CallsShape
<1>5. \A w \in Wallets : OneAtATime(w)
  BY <1>2 DEF OneAtATime
<1> QED
  BY <1>1, <1>2, <1>3, <1>4, <1>5 DEF SInv, SwapInit

LEMMA SInvNext ==
  ASSUME ~Reopens
  PROVE  IInv /\ (hasty = {} => SInv) /\ [SwapNext]_swapVars => (hasty = {} => SInv)'
<1> SUFFICES ASSUME IInv, hasty = {} => SInv, [SwapNext]_swapVars, hasty' = {} PROVE SInv'
  OBVIOUS
<1>1. CASE UNCHANGED swapVars
  BY <1>1 DEF swapVars, SInv, CallsShape, OneAtATime
<1>2. CASE SwapNext
  <2>1. hasty = {}
    BY <1>2 DEF SwapNext, AddSend, UtxosKnown, AddReceive, AddressKnown, SignData, SignFails, Signed,
                AddSignatures, PrepareTx, Create, Get, Update
  <2> QED
    BY <1>2, <2>1, ChangesKeepSignatures, GoesOnKeepsSignatures, SignDataKeepsSignatures,
       SignedKeepsSignatures, AddSignaturesKeepsSignatures, PrepareTxKeepsSignatures,
       GetKeepsSignatures, StoredKeepsSignatures DEF SwapNext
<1> QED
  BY <1>1, <1>2

\* When each caller awaits its calls, and none changes a proposal whose transaction was
\* prepared, the signatures of every proposal are those of its content as it is, through
\* any changes, merges and exchanges with the service (resetSignatures(), addSignatures()).
THEOREM SignaturesMatch ==
  ASSUME ~Reopens
  PROVE  SwapSpec => []SignaturesAreOfTheTx
<1> DEFINE Calm == hasty = {} => SInv
<1>1. SwapInit => Calm
  BY SInvInit
<1>2. IInv /\ Calm /\ [SwapNext]_swapVars => Calm'
  BY SInvNext
<1>3. Calm => SignaturesAreOfTheTx
  BY DEF SInv, Honest, SignaturesAreOfTheTx
<1> HIDE DEF Calm
<1> QED
  BY <1>1, <1>2, <1>3, InvInit, InvNext, PTL DEF SwapSpec

=============================================================================
