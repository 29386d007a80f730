--------------------------- MODULE MCScanPriorities ---------------------------
(* A small instance of ScanPriorities: two accounts, one shielded pool. *)
EXTENDS ScanPriorities, TLC

CONSTANTS a, b
Either == {a, b}
Symmetric == Permutations(Either)

\* One pool, whose first subtree is completed by block 2.
EndsAtTwo == [p \in Pools |-> <<2>>]

\* A block in the middle, and everything from it on.
MiddleAndRest == {<<2, 3>>, <<2, 5>>}

\* Two accounts join, one may leave, and one rewind, truncation or rescan is requested.
TwoAccountsOneRequest ==
  [k \in EventKinds |-> CASE k = "account" -> 2 [] k = "reorg" -> 0 [] OTHER -> 1]
=============================================================================
