------------------------------- MODULE MCSwap -------------------------------
(***************************************************************************)
(* Two wallets: one has two outputs of HTR and pays with one of them, the  *)
(* other pays with a token.                                                *)
(***************************************************************************)
EXTENDS Swap

MCUtxos == {"a1", "a2", "b1"}
MCOwner == [u \in MCUtxos |-> IF u = "b1" THEN "bob" ELSE "alice"]
MCToken == [u \in MCUtxos |-> IF u = "b1" THEN "TKA" ELSE "HTR"]
MCValue == [u \in MCUtxos |-> IF u = "a2" THEN 2 ELSE 1]
MCGives == [w \in {"alice", "bob"} |-> IF w = "bob" THEN "TKA" ELSE "HTR"]
=============================================================================
