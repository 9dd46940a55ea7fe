---- MODULE MCSendTransaction ----
(* Two sends over two utxos: one takes both of them and may be tried again, the other takes
   one of them. *)
EXTENDS SendTransaction

CONSTANTS s1, s2, u1, u2
MCAmount == s1 :> 2 @@ s2 :> 1
MCRuns == s1 :> 2 @@ s2 :> 1
MCGiven == [s \in Sends |-> <<>>]
====
