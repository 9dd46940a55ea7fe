--------------------- MODULE MCWalletServiceConnection ---------------------
(***************************************************************************)
(* The wallet service connection with two sockets and two join timers, so  *)
(* that a timer of the previous socket meets the join of the next one.     *)
(***************************************************************************)
EXTENDS WalletServiceConnection

=============================================================================
