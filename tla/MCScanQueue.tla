----------------------------- MODULE MCScanQueue -----------------------------
(* A small instance of ScanQueue: one account, one shielded pool. *)
EXTENDS ScanQueue

CONSTANT a

\* One pool, whose first subtree is completed by block 4.
EndsAtFour == [p \in Pools |-> <<4>>]

\* A block in the middle, and everything from it on.
MiddleAndRest == {<<2, 3>>, <<2, 5>>}

\* An account joins and may leave, one reorg, and one rewind, truncation or rescan.
OneOfEach == [k \in EventKinds |-> 1]
=============================================================================
