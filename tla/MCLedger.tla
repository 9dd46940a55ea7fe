------------------------------ MODULE MCLedger ------------------------------
(***************************************************************************)
(* The ledger with three transactions of the wallet: every kind of lock,   *)
(* a chain of two spends and two transactions that spend the same output.  *)
(***************************************************************************)
EXTENDS Ledger

\* Transaction 1 creates an output that unlocks with time and a block reward that
\* unlocks with height; 2 and 3 spend the first one, 3 both.
ThreeTxs == {1, 2, 3}
FourOuts == 1..4
TxOfOut == <<1, 1, 2, 3>>
InsOfTx == <<{}, {1}, {1, 2}>>
Locks == << [time |-> 1, height |-> 0], [time |-> 0, height |-> 3],
            [time |-> 0, height |-> 0], [time |-> 0, height |-> 0] >>
=============================================================================
