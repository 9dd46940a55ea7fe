------------------------ MODULE ConnectionLifecycle ------------------------
(***************************************************************************)
(* What a Connection promises to the wallet that listens to its `state'    *)
(* event (src/connection.ts, ConnectionState in src/wallet/types.ts): the  *)
(* announced state is CONNECTED only after CONNECTING, a lost connection   *)
(* goes back to CONNECTING and never to CLOSED, and only start() leaves    *)
(* CLOSED.                                                                 *)
(***************************************************************************)
EXTENDS Naturals

VARIABLE state

States == {"CLOSED", "CONNECTING", "CONNECTED"}

Init == state = "CLOSED"

Start   == state = "CLOSED" /\ state' = "CONNECTING"
Connect == state = "CONNECTING" /\ state' = "CONNECTED"
Lose    == state = "CONNECTED" /\ state' = "CONNECTING"
Stop    == state # "CLOSED" /\ state' = "CLOSED"

Next == Start \/ Connect \/ Lose \/ Stop

Spec == Init /\ [][Next]_state
=============================================================================
