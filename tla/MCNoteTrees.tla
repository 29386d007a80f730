----------------------------- MODULE MCNoteTrees -----------------------------
(* Instances of NoteTrees. *)
EXTENDS NoteTrees

CONSTANTS dense, sparse

\* Every block but the anchors and one has commitments of one pool; the other has them in
\* one block at most. The wallet has at most one note in each pool.
OneSparsePool ==
  LET busy == Heights \ (Anchors \cup {4})
  IN  {[outs |-> [h \in Heights |-> {p \in {dense, sparse} :
                                       h \in IF p = dense THEN busy ELSE {only}}],
        mine |-> [h \in Heights |-> {p \in {dense, sparse} :
                                       h \in IF p = dense THEN {first} \cap busy
                                             ELSE {only} \cap ours}]] :
         only, first \in 0..(MaxHeight - 2), ours \in {{}, Heights}}
=============================================================================
