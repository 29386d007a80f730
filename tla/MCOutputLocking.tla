-------------------------- MODULE MCOutputLocking --------------------------
(* Small instances of OutputLocking. *)
EXTENDS OutputLocking, TLC

CONSTANTS a, b, n1, n2, t1, t2

TwoOwners == {a, b}
TwoNotes == {n1, n2}
OneTx == {t1}
TwoTxs == {t1, t2}

\* a retries under its own token after a crash and may draw on its own locks and on
\* the locks of b.
OwnAndB == [o \in Owners |-> IF o = a THEN {a, b} ELSE {}]

\* a asks for the shortest window there is.
ShortA == [o \in Owners |-> IF o = a THEN 0 ELSE 1]

NoteTxSymmetry == Permutations(Notes) \cup Permutations(TxIds)
=============================================================================
