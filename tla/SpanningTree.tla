---------------------------- MODULE SpanningTree ----------------------------
(***************************************************************************)
(* The tree in which replace_queue_entries merges scan ranges.  A leaf is  *)
(* a scan range, a parent the span of its two subtrees; the Rust           *)
(* assertions are assertions here.                                         *)
(***************************************************************************)
EXTENDS ScanRanges, SequencesExt, TLC

Leaf(r) == [leaf |-> TRUE, start |-> r.start, end |-> r.end, range |-> r]
Parent(l, r) == [leaf |-> FALSE, start |-> l.start, end |-> r.end, left |-> l, right |-> r]

-----------------------------------------------------------------------------
(* Joining two ranges.  The result is the sequence of one to three ranges  *)
(* of Joined.                                                              *)

Abutting(l, r) ==
  IF l.pri = r.pri THEN <<ScanRange(l.start, r.end, l.pri)>> ELSE <<l, r>>

\* Mutated form: a gap is left open.
JoinLeavesGap(l, r) == IF l.end = r.start THEN Abutting(l, r) ELSE <<l, r>>

\* join_nonoverlapping: a gap becomes Historic and merges with its neighbours.
JoinNonoverlapping(l, r) ==
  IF Assert(l.end <= r.start, "join_nonoverlapping") /\ l.end = r.start
  THEN Abutting(l, r)
  ELSE IF l.pri = Historic
       THEN Abutting(ScanRange(l.start, r.start, Historic), r)
       ELSE <<l>> \o Abutting(ScanRange(l.end, r.start, Historic), r)

\* ScanRange::truncate_start and truncate_end, as sequences of at most one range.
TruncateStart(r, h) ==
  IF h >= r.end \/ IsEmpty(r) THEN << >>
  ELSE <<ScanRange(Greatest(r.start, h), r.end, r.pri)>>
TruncateEnd(r, h) ==
  IF h <= r.start \/ IsEmpty(r) THEN << >>
  ELSE <<ScanRange(r.start, Least(r.end, h), r.pri)>>

\* join_overlapping, where l starts first.  The winner is the side whose
\* priority prevails on the overlap.
JoinOverlapping(l, r, winner) ==
  CASE ~Assert(l.start <= r.start /\ l.end > r.start, "join_overlapping") -> << >>
    [] winner = "left"  -> <<l>> \o TruncateStart(r, l.end)
    [] winner = "equal" -> <<ScanRange(l.start, Greatest(l.end, r.end), l.pri)>>
    [] winner = "right" -> TruncateEnd(l, r.start) \o <<r>> \o TruncateStart(l, r.end)

\* The side on which `inserted` is prevails, or the other one.
Winner(current, inserted, side, other, force) ==
  CASE current.pri = inserted.pri -> "equal"
    [] OTHER -> IF Prevails(inserted.pri, current.pri, force) THEN side ELSE other

\* RangeOrdering::cmp, tested in its order.
RangeOrdering(a, b) ==
  CASE a.end <= b.start -> "LeftFirstDisjoint"
    [] a.end > b.start /\ b.end <= a.start -> "RightFirstDisjoint"
    [] OTHER ->
       CASE a.start < b.start /\ a.end < b.end -> "LeftFirstOverlap"
         [] a.start = b.start /\ a.end = b.end -> "Equal"
         [] a.start > b.start /\ a.end > b.end -> "RightFirstOverlap"
         [] a.start <= b.start /\ a.end >= b.end -> "RightContained"
         [] OTHER -> "LeftContained"

\* insert: one range into another.
InsertIntoRange(current, inserted, force) ==
  LET order == RangeOrdering(inserted, current)
  IN  CASE order = "LeftFirstDisjoint" -> JoinNonoverlapping(inserted, current)
        [] order = "RightFirstDisjoint" -> JoinNonoverlapping(current, inserted)
        [] order \in {"LeftFirstOverlap", "RightContained"} ->
             JoinOverlapping(inserted, current, Winner(current, inserted, "left", "right", force))
        [] order \in {"RightFirstOverlap", "LeftContained"} ->
             JoinOverlapping(current, inserted, Winner(current, inserted, "right", "left", force))
        [] order = "Equal" ->
             <<IF Winner(current, inserted, "right", "left", force) = "right"
               THEN inserted ELSE current>>

-----------------------------------------------------------------------------
(* The tree *)

FromJoined(j) ==
  CASE Len(j) = 1 -> Leaf(j[1])
    [] Len(j) = 2 -> Parent(Leaf(j[1]), Leaf(j[2]))
    [] Len(j) = 3 -> Parent(Leaf(j[1]), Parent(Leaf(j[2]), Leaf(j[3])))

\* Which child, or both, an insertion into a parent goes to.
Descent(tree, r) ==
  LET order == RangeOrdering(tree, r)
      split == tree.left.end
  IN  CASE order = "LeftFirstDisjoint" -> "right"
        [] order = "RightFirstDisjoint" -> "left"
        [] order = "LeftFirstOverlap" -> IF split > r.start THEN "both" ELSE "right"
        [] order = "RightContained" ->
             IF r.start >= split THEN "right" ELSE IF r.end <= split THEN "left" ELSE "both"
        [] order = "Equal" -> IF split > r.start THEN "both" ELSE "replace"
        [] order = "LeftContained" -> "both"
        [] order = "RightFirstOverlap" -> IF split < r.end THEN "both" ELSE "left"

RECURSIVE InsertIntoTree(_, _, _)
InsertIntoTree(tree, r, force) ==
  IF tree.leaf THEN FromJoined(InsertIntoRange(tree.range, r, force))
  ELSE LET split == tree.left.end
           way == Descent(tree, r)
       IN  CASE way = "left" -> Parent(InsertIntoTree(tree.left, r, force), tree.right)
             [] way = "right" -> Parent(tree.left, InsertIntoTree(tree.right, r, force))
             [] way = "replace" -> InsertIntoTree(tree.right, r, force)
             [] way = "both" ->
                  Parent(InsertIntoTree(tree.left, ScanRange(r.start, split, r.pri), force),
                         InsertIntoTree(tree.right, ScanRange(split, r.end, r.pri), force))

\* from_split expects the split point within the inserted range; where it is not
\* the insertion panics.
RECURSIVE SplitsWithin(_, _)
SplitsWithin(tree, r) ==
  IF tree.leaf THEN TRUE
  ELSE LET split == tree.left.end
           way == Descent(tree, r)
       IN  CASE way = "left" -> SplitsWithin(tree.left, r)
             [] way \in {"right", "replace"} -> SplitsWithin(tree.right, r)
             [] way = "both" ->
                  /\ r.start < split /\ split < r.end
                  /\ SplitsWithin(tree.left, ScanRange(r.start, split, r.pri))
                  /\ SplitsWithin(tree.right, ScanRange(split, r.end, r.pri))

RECURSIVE Leaves(_)
Leaves(tree) ==
  IF tree.leaf THEN <<tree.range>> ELSE Leaves(tree.left) \o Leaves(tree.right)

\* into_vec: the non-empty leaves, neighbours of one priority merged.
IntoVec(tree) ==
  FoldLeft(LAMBDA acc, r : IF acc = << >> THEN <<r>>
                           ELSE Front(acc) \o JoinNonoverlapping(Last(acc), r),
           << >>, SelectSeq(Leaves(tree), LAMBDA r : ~IsEmpty(r)))

\* The loop of replace_queue_entries: the first range becomes the root.
BuildTree(ranges, force) ==
  FoldLeft(LAMBDA tree, r : InsertIntoTree(tree, r, force), Leaf(Head(ranges)), Tail(ranges))

\* Whether the loop ends without a panic.
TreeBuilds(ranges, force) ==
  \A i \in 2..Len(ranges) :
    LET prefix == SubSeq(ranges, 1, i - 1) IN SplitsWithin(BuildTree(prefix, force), ranges[i])
=============================================================================
