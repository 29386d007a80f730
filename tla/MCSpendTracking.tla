--------------------------- MODULE MCSpendTracking ---------------------------
(***************************************************************************)
(* One transaction pays the wallet two notes, one of them to the later     *)
(* account, and a transparent output.  Two transactions compete for the    *)
(* first note; the transparent output can be spent on in the block that    *)
(* pays it.                                                                *)
(***************************************************************************)
EXTENDS SpendTracking

CONSTANTS pay, sweep, rival, hop, n, late, p

MCTxs == {pay, sweep, rival, hop}
MCOutputs == [t \in MCTxs |-> IF t = pay THEN {n, late, p} ELSE {}]
MCInputs == [t \in MCTxs |-> CASE t = pay   -> {}
                               [] t = sweep -> {n, late}
                               [] t = rival -> {n}
                               [] t = hop   -> {p}]
=============================================================================
