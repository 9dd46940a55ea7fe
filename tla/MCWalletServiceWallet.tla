------------------------ MODULE MCWalletServiceWallet ------------------------
(***************************************************************************)
(* The facade of the wallet service: two transactions and as many starts   *)
(* as make four events together, one retry of each kind, and a service     *)
(* that answers two unused addresses.                                      *)
(***************************************************************************)
EXTENDS WalletServiceWallet
=============================================================================
