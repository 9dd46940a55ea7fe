--------------------------- MODULE MCHathorWallet ---------------------------
(***************************************************************************)
(* The wallet with two transactions, on the same address (no address has   *)
(* to be loaded later) or so that the second one is seen only when the     *)
(* first one has moved the gap.                                            *)
(***************************************************************************)
EXTENDS HathorWallet

TwoTxs == {1, 2}
SameAddress == [t \in Txs |-> 0]
BeyondTheGap == [t \in Txs |-> t - 1]
Many(n) == [t \in Txs |-> n]
Only(n) == [t \in Txs |-> IF t = 1 THEN n ELSE 0]

\* One session, two transactions that change once.
Session == Plan(FALSE, Many(2), 1, 0, 0)
\* Reconnections and a stop between the tasks, one transaction that changes twice.
Reconnects == Plan(TRUE, Only(3), 3, 1, 0)
\* A stop and a failed request at any moment.
Interrupted == Plan(FALSE, Only(2), 1, 1, 1)
AllPlans == {Session, Reconnects, Interrupted}

OnceEach == {Plan(FALSE, Many(1), 1, 0, 0)}
=============================================================================
