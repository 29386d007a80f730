-------------------------- MODULE NoteTreesProofs --------------------------
(***************************************************************************)
(* Theorems about NoteTrees, for every set of pools and chains, every      *)
(* pruning depth, batch size and anchor policy: no truncation loses the    *)
(* witness of a note that no rescan re-creates, a tree that a truncation   *)
(* leaves untouched holds nothing above it, and the pools stay aligned     *)
(* within the pruning depth.                                               *)
(***************************************************************************)
EXTENDS NoteTrees, DataInduction

-----------------------------------------------------------------------------
(* Extremes of finite sets of heights *)

Levels == 0..MaxHeight

LEMMA HeightsType == /\ MaxHeight \in Nat \ {0} /\ PruningDepth \in Nat \ {0}
                     /\ Heights \subseteq Levels /\ Anchors \subseteq Heights
                     /\ \A h \in Levels : h \in Nat
BY NoteTreesAssumption DEF Heights, Levels

LEMMA LeastIs ==
  ASSUME NEW S \in SUBSET Levels, S # {}
  PROVE  Least(S) \in S /\ \A b \in S : Least(S) <= b
<1>1. \E a \in S : \A b \in S : a <= b
  BY HeightsType, LeastNumber DEF Levels
<1> QED BY <1>1, Zenon DEF Least

LEMMA GreatestIs ==
  ASSUME NEW S \in SUBSET Levels, S # {}
  PROVE  Greatest(S) \in S /\ \A b \in S : b <= Greatest(S)
<1> DEFINE T == {MaxHeight - a : a \in S}
<1>1. \A a \in S : a \in Nat /\ MaxHeight - a \in Nat
  BY HeightsType DEF Levels
<1>2. PICK m \in T : \A n \in T : m <= n
  <2>1. T \subseteq Nat /\ T # {}
    BY <1>1
  <2> HIDE DEF T
  <2> QED BY <2>1, LeastNumber
<1>3. PICK a \in S : m = MaxHeight - a
  OBVIOUS
<1>4. \A b \in S : b <= a
  <2>1. ASSUME NEW b \in S PROVE b <= a
    <3>1. MaxHeight - b \in T
      OBVIOUS
    <3>2. MaxHeight - a <= MaxHeight - b
      BY <1>2, <1>3, <3>1
    <3> QED BY <1>1, <3>2, HeightsType
  <2> QED BY <2>1
<1>5. \E x \in S : \A b \in S : b <= x
  BY <1>4
<1> QED BY <1>5, Zenon DEF Greatest

\* A set of heights with few numbers between its bounds is small.
LEMMA FewHeights ==
  ASSUME NEW a \in Int, NEW b \in Int, NEW S \in SUBSET (a..b), a <= b + 1
  PROVE  IsFiniteSet(S) /\ Cardinality(S) \in Nat /\ Cardinality(S) <= b - a + 1
<1>1. IsFiniteSet(a..b) /\ Cardinality(a..b) = IF a > b THEN 0 ELSE b - a + 1
  BY FS_Interval
<1>2. IsFiniteSet(S) /\ Cardinality(S) <= Cardinality(a..b)
  BY <1>1, FS_Subset
<1>3. Cardinality(S) \in Nat
  BY <1>2, FS_CardinalityType
<1> QED BY <1>1, <1>2, <1>3

-----------------------------------------------------------------------------
(* Pruning *)

LEMMA PrunedType ==
  ASSUME NEW t \in Tree
  PROVE  /\ Pruned(t) \in Tree
         /\ Pruned(t).leaves = t.leaves /\ Pruned(t).retained = t.retained
         /\ Pruned(t).checkpoints \subseteq t.checkpoints
BY DEF Pruned, Tree

\* A checkpoint is kept when few checkpoints are at or above it.
LEMMA PrunedKeeps ==
  ASSUME NEW t \in Tree, NEW c \in t.checkpoints,
         Cardinality({d \in t.checkpoints \ t.retained : d >= c}) <= PruningDepth,
         Cardinality({d \in t.checkpoints \ t.retained : d >= c}) \in Nat
  PROVE  c \in Pruned(t).checkpoints
<1> DEFINE excess == {x \in t.checkpoints \ t.retained :
                        Cardinality({d \in t.checkpoints \ t.retained : d >= x}) > PruningDepth}
<1>1. Pruned(t).checkpoints = t.checkpoints \ excess
  BY DEF Pruned, Tree
<1>2. c \notin excess
  <2>1. PruningDepth \in Nat
    BY HeightsType
  <2> QED BY <2>1
<1> QED BY <1>1, <1>2

\* Those within the pruning depth of the end are kept.
LEMMA PrunedKeepsWindow ==
  ASSUME NEW t \in Tree, NEW e \in Levels, \A d \in t.checkpoints : d <= e,
         NEW c \in t.checkpoints, c > e - PruningDepth
  PROVE  c \in Pruned(t).checkpoints
<1> DEFINE above == {d \in t.checkpoints \ t.retained : d >= c}
<1>1. t.checkpoints \subseteq Levels /\ c \in Nat /\ e \in Nat /\ c <= e /\ PruningDepth \in Nat
  BY HeightsType DEF Tree, Levels
<1>2. above \subseteq c..e
  BY <1>1 DEF Levels
<1>3. Cardinality(above) \in Nat /\ Cardinality(above) <= e - c + 1
  <2> HIDE DEF above
  <2> QED BY <1>1, <1>2, FewHeights
<1>4. Cardinality(above) <= PruningDepth
  <2> HIDE DEF above
  <2> QED BY <1>1, <1>3
<1> QED BY <1>3, <1>4, PrunedKeeps

\* Pruning keeps a checkpoint at or above every one there was.
LEMMA PrunedKeepsNewest ==
  ASSUME NEW t \in Tree, NEW c \in t.checkpoints
  PROVE  \E d \in Pruned(t).checkpoints : d >= c
<1>1. t.checkpoints \in SUBSET Levels /\ t.checkpoints # {} /\ PruningDepth \in Nat \ {0}
  BY HeightsType DEF Tree, Levels
<1> DEFINE g == Greatest(t.checkpoints)
<1>2. g \in t.checkpoints /\ g \in Levels /\ g \in Nat /\ \A d \in t.checkpoints : d <= g
  BY <1>1, GreatestIs, HeightsType
<1> HIDE DEF g
<1>3. g > g - PruningDepth
  BY <1>1, <1>2
<1>4. g \in Pruned(t).checkpoints
  BY <1>2, <1>3, PrunedKeepsWindow
<1> QED BY <1>2, <1>4

\* And one below every height within the pruning depth of the end that has none.
LEMMA PrunedKeepsBelow ==
  ASSUME NEW t \in Tree, NEW e \in Levels, \A d \in t.checkpoints : d <= e,
         NEW x \in Levels, x \notin t.checkpoints, x > e - PruningDepth, x <= e,
         \E d \in t.checkpoints : d < x
  PROVE  \E d \in Pruned(t).checkpoints : d < x
<1> DEFINE B == {d \in t.checkpoints : d < x}
           g == Greatest(B)
           above == {d \in t.checkpoints \ t.retained : d >= g}
<1>1. /\ t.checkpoints \subseteq Levels /\ B # {} /\ B \in SUBSET Levels
      /\ PruningDepth \in Nat /\ x \in Nat /\ e \in Nat
  BY HeightsType DEF Tree, Levels
<1>2. g \in B /\ \A d \in B : d <= g
  <2> HIDE DEF B
  <2> QED BY <1>1, GreatestIs
<1>3. g \in Nat /\ g < x /\ g \in t.checkpoints
  BY <1>1, <1>2, HeightsType
<1>4. \A d \in t.checkpoints : d >= g /\ d # g => d \in (x + 1)..e
  <2>1. ASSUME NEW d \in t.checkpoints, d >= g, d # g PROVE d \in (x + 1)..e
    <3>1. d \in Nat /\ d <= e /\ d # x
      BY <1>1, HeightsType
    <3>2. ~(d < x)
      BY <1>2, <1>3, <2>1, <3>1
    <3> QED BY <1>1, <3>1, <3>2
  <2> QED BY <2>1
<1>5. above \ {g} \subseteq (x + 1)..e
  BY <1>4
<1> HIDE DEF B, g, above
<1>6. /\ IsFiniteSet(above \ {g}) /\ Cardinality(above \ {g}) \in Nat
      /\ Cardinality(above \ {g}) <= e - x
  <2>1. x + 1 \in Int /\ e \in Int /\ x + 1 <= e + 1 /\ e - (x + 1) + 1 = e - x
    BY <1>1
  <2>2. /\ IsFiniteSet(above \ {g}) /\ Cardinality(above \ {g}) \in Nat
        /\ Cardinality(above \ {g}) <= e - (x + 1) + 1
    BY <1>5, <2>1, FewHeights
  <2> QED BY <2>1, <2>2
<1>7. /\ Cardinality((above \ {g}) \cup {g}) \in Nat
      /\ Cardinality((above \ {g}) \cup {g}) <= e - x + 1
  <2>1. /\ IsFiniteSet((above \ {g}) \cup {g})
        /\ Cardinality((above \ {g}) \cup {g}) = Cardinality(above \ {g}) + 1
    BY <1>6, FS_AddElement
  <2> QED BY <1>1, <1>6, <2>1
<1>8. Cardinality(above) \in Nat /\ Cardinality(above) <= e - x + 1
  <2>1. CASE g \in above
    <3>1. above = (above \ {g}) \cup {g}
      BY <2>1
    <3> QED BY <1>7, <3>1
  <2>2. CASE g \notin above
    <3>1. Cardinality(above) = Cardinality(above \ {g})
      <4>1. above = above \ {g}
        BY <2>2
      <4> QED BY <4>1, Zenon
    <3> QED BY <1>1, <1>6, <3>1
  <2> QED BY <2>1, <2>2
<1>9. Cardinality(above) <= PruningDepth
  BY <1>1, <1>8
<1>10. g \in Pruned(t).checkpoints
  BY <1>3, <1>8, <1>9, PrunedKeeps DEF above
<1> QED BY <1>3, <1>10

-----------------------------------------------------------------------------
(* The operations on a tree *)

Covered(t) == \A l \in t.leaves : \E c \in t.checkpoints : c >= l

LEMMA PrunedCovered ==
  ASSUME NEW t \in Tree, Covered(t)
  PROVE  Covered(Pruned(t))
<1>1. ASSUME NEW l \in t.leaves PROVE \E d \in Pruned(t).checkpoints : d >= l
  <2>1. PICK c \in t.checkpoints : c >= l
    BY DEF Covered
  <2>2. PICK d \in Pruned(t).checkpoints : d >= c
    BY PrunedKeepsNewest
  <2>3. l \in Nat /\ c \in Nat /\ d \in Nat
    BY PrunedType, HeightsType DEF Tree, Heights, Levels
  <2> QED BY <2>1, <2>2, <2>3
<1> QED BY <1>1, PrunedType DEF Covered

With(t, new) == [t EXCEPT !.checkpoints = @ \cup new, !.leaves = @ \cup new]

\* Leaves added, each checkpointed.
LEMMA LeavesAdded ==
  ASSUME NEW t \in Tree, Covered(t), NEW new \in SUBSET Heights
  PROVE  /\ With(t, new) \in Tree /\ Covered(With(t, new))
         /\ With(t, new).checkpoints = t.checkpoints \cup new
         /\ With(t, new).leaves = t.leaves \cup new
<1> DEFINE u == With(t, new)
<1>1. /\ u.checkpoints = t.checkpoints \cup new /\ u.leaves = t.leaves \cup new
      /\ u.retained = t.retained
  BY DEF Tree, With
<1>2. u \in Tree
  BY HeightsType DEF Tree, Levels, With
<1>3. \A h \in Heights : h >= h
  BY DEF Heights
<1> HIDE DEF u
<1>4. Covered(u)
  BY <1>1, <1>3 DEF Covered
<1> QED BY <1>1, <1>2, <1>4 DEF u

LEMMA CheckpointAdded ==
  ASSUME NEW t \in Tree, Covered(t), NEW cs \in SUBSET Levels
  PROVE  LET u == [t EXCEPT !.checkpoints = @ \cup cs]
         IN  /\ u \in Tree /\ Covered(u)
             /\ u.checkpoints = t.checkpoints \cup cs /\ u.leaves = t.leaves
             /\ u.retained = t.retained
<1> DEFINE u == [t EXCEPT !.checkpoints = @ \cup cs]
<1>1. u.checkpoints = t.checkpoints \cup cs /\ u.leaves = t.leaves /\ u.retained = t.retained
  BY DEF Tree
<1>2. u \in Tree
  BY DEF Tree, Levels
<1> HIDE DEF u
<1>3. Covered(u)
  BY <1>1 DEF Covered
<1> QED BY <1>1, <1>2, <1>3 DEF u

LEMMA RetainType ==
  ASSUME NEW t \in Tree, Covered(t), NEW hs
  PROVE  /\ RetainAnchors(t, hs) \in Tree /\ Covered(RetainAnchors(t, hs))
         /\ RetainAnchors(t, hs).leaves = t.leaves
         /\ RetainAnchors(t, hs).checkpoints = t.checkpoints
<1>1. /\ RetainAnchors(t, hs).leaves = t.leaves
      /\ RetainAnchors(t, hs).checkpoints = t.checkpoints
  BY DEF RetainAnchors, Tree
<1>2. RetainAnchors(t, hs) \in Tree
  BY HeightsType DEF RetainAnchors, Tree
<1> QED BY <1>1, <1>2 DEF Covered

\* Inserting a frontier checkpoints its height, prunes, and drops no leaf.
LEMMA FrontierType ==
  ASSUME NEW t \in Tree, Covered(t), NEW p \in Pools, NEW h \in Levels
  PROVE  LET u == FrontierInserted(t, p, h)
         IN  /\ u \in Tree /\ Covered(u) /\ t.leaves \subseteq u.leaves
             /\ u.checkpoints \subseteq t.checkpoints \cup {h}
             /\ \E full \in Tree : /\ full.checkpoints = t.checkpoints \cup {h}
                                   /\ u.checkpoints \in {full.checkpoints, Pruned(full).checkpoints}
<1> DEFINE below == {i \in OutputsOf(p) : i <= h}
           added == [t EXCEPT !.checkpoints = @ \cup {h}]
           leafed == [added EXCEPT !.leaves = @ \cup {Greatest(below)}]
<1>1. /\ added \in Tree /\ Covered(added) /\ added.leaves = t.leaves
      /\ added.checkpoints = t.checkpoints \cup {h}
  BY CheckpointAdded
<1>2. CASE below = {}
  <2>1. FrontierInserted(t, p, h) = added
    BY <1>2 DEF FrontierInserted
  <2> HIDE DEF added
  <2> QED BY <1>1, <2>1
<1>3. CASE below # {}
  <2>1. Greatest(below) \in Heights /\ Greatest(below) <= h
    <3>1. below \in SUBSET Levels /\ below \subseteq Heights
      BY HeightsType DEF OutputsOf
    <3>2. Greatest(below) \in below
      BY <1>3, <3>1, GreatestIs
    <3> QED BY <3>1, <3>2
  <2> DEFINE ls == {Greatest(below)}
  <2>2. /\ leafed.leaves = t.leaves \cup ls /\ leafed.checkpoints = t.checkpoints \cup {h}
        /\ leafed.retained = added.retained
    BY <1>1 DEF Tree
  <2>3. leafed \in Tree
    <3> HIDE DEF added, below
    <3> QED BY <1>1, <2>1 DEF Tree
  <2>4. Covered(leafed)
    <3> HIDE DEF added, below, leafed
    <3> QED BY <1>1, <2>1, <2>2 DEF Covered
  <2>5. FrontierInserted(t, p, h) = Pruned(leafed)
    BY <1>3 DEF FrontierInserted
  <2> HIDE DEF leafed, ls
  <2> QED BY <2>2, <2>3, <2>4, <2>5, PrunedType, PrunedCovered
<1> QED BY <1>2, <1>3

LEMMA SubtreesType ==
  ASSUME NEW t \in Tree, Covered(t), NEW new \in SUBSET Heights
  PROVE  LET u == SubtreesInserted(t, new)
         IN  /\ u \in Tree /\ Covered(u) /\ u.leaves = t.leaves \cup new
             /\ u.checkpoints \subseteq t.checkpoints \cup new
             /\ \E full \in Tree : /\ full.checkpoints = t.checkpoints \cup new
                                   /\ u.checkpoints \in {full.checkpoints, Pruned(full).checkpoints}
<1>1. CASE new = {}
  <2>1. SubtreesInserted(t, new) = t
    BY <1>1 DEF SubtreesInserted
  <2> QED BY <1>1, <2>1
<1>2. CASE new # {}
  <2> DEFINE full == With(t, new)
  <2>2. /\ full \in Tree /\ Covered(full)
        /\ full.checkpoints = t.checkpoints \cup new /\ full.leaves = t.leaves \cup new
    BY LeavesAdded
  <2>3. SubtreesInserted(t, new) = Pruned(full)
    BY <1>2 DEF SubtreesInserted, With
  <2> HIDE DEF full
  <2> QED BY <2>2, <2>3, PrunedType, PrunedCovered
<1> QED BY <1>1, <1>2

\* The heights of the pool's commitments in a batch.
Own(p, s, e) == OutputsOf(p) \cap s..e

\* A batch adds its commitments to a tree and drops no leaf.
LEMMA UpdateType ==
  ASSUME NEW t \in Tree, Covered(t), NEW p \in Pools, NEW s \in Heights, NEW e \in Heights
  PROVE  LET u == UpdateTree(t, p, s, e)
         IN  u \in Tree /\ Covered(u) /\ t.leaves \cup Own(p, s, e) \subseteq u.leaves
<1> DEFINE own == Own(p, s, e)
           frontier == RetainAnchors(FrontierInserted(t, p, s - 1), {s - 1})
           inserted == SubtreesInserted(RetainAnchors(frontier, own), own)
           missing == {h \in BatchEnsureHeights(p, s..e) \ own : h > Least(inserted.checkpoints)}
           last == [inserted EXCEPT !.checkpoints = @ \cup missing]
<1>1. s - 1 \in Levels /\ s..e \subseteq Heights /\ own \in SUBSET Heights
  BY HeightsType DEF Heights, Levels, Own, OutputsOf
<1>2. frontier \in Tree /\ Covered(frontier) /\ t.leaves \subseteq frontier.leaves
  BY <1>1, FrontierType, RetainType
<1>3. inserted \in Tree /\ Covered(inserted) /\ inserted.leaves = frontier.leaves \cup own
  <2> HIDE DEF frontier, own
  <2> QED BY <1>1, <1>2, RetainType, SubtreesType
<1>4. missing \in SUBSET Levels
  <2>1. BatchEnsureHeights(p, s..e) \subseteq s..e
    BY DEF BatchEnsureHeights
  <2> QED BY <1>1, <2>1, HeightsType
<1>5. last \in Tree /\ Covered(last) /\ last.leaves = inserted.leaves
  <2> HIDE DEF inserted, missing
  <2> QED BY <1>3, <1>4, CheckpointAdded
<1>6. UpdateTree(t, p, s, e) = RetainAnchors(last, missing)
  BY DEF UpdateTree, Own
<1> HIDE DEF last, missing, inserted, frontier, own
<1> QED BY <1>2, <1>3, <1>5, <1>6, RetainType DEF own

-----------------------------------------------------------------------------
(* The invariant *)

Wallets == [blocks : SUBSET Heights, trees : [Pools -> Tree], owed : SUBSET Heights]

Witnessed(w, p) == NotesOf(w, p) \subseteq w.trees[p].leaves \cup w.owed

Sound(w) == /\ w \in Wallets
            /\ \A p \in Pools : Covered(w.trees[p]) /\ Witnessed(w, p)

ChainType ==
  /\ chain \in Chains
  /\ \A h \in Heights : chain.outs[h] \subseteq Pools /\ chain.mine[h] \subseteq chain.outs[h]

IInv == ChainType /\ Sound(wallet)

LEMMA ChainsType == chain \in Chains => ChainType
BY NoteTreesAssumption DEF ChainType

\* Scanning.
LEMMA PutSound ==
  ASSUME ChainType, NEW w, Sound(w), NEW s \in Heights, NEW e \in Heights
  PROVE  Sound(PutBlocks(w, s, e))
<1> DEFINE v == PutBlocks(w, s, e)
<1>1. s..e \subseteq Heights
  BY HeightsType DEF Heights
<1>2. \A p \in Pools : w.trees[p] \in Tree /\ Covered(w.trees[p])
  BY DEF Sound, Wallets
<1>3. \A p \in Pools : LET u == UpdateTree(w.trees[p], p, s, e)
                       IN  u \in Tree /\ Covered(u) /\ w.trees[p].leaves \cup Own(p, s, e) \subseteq u.leaves
  BY <1>2, UpdateType
<1>4. /\ v.blocks = w.blocks \cup s..e /\ v.owed = w.owed \ s..e
      /\ v.trees = [p \in Pools |-> UpdateTree(w.trees[p], p, s, e)]
      /\ v = [blocks |-> v.blocks, trees |-> v.trees, owed |-> v.owed]
  BY DEF PutBlocks
<1> HIDE DEF v
<1>5. v \in Wallets
  <2>1. v.trees \in [Pools -> Tree]
    BY <1>3, <1>4
  <2>2. v.blocks \subseteq Heights /\ v.owed \subseteq Heights
    BY <1>1, <1>4 DEF Sound, Wallets
  <2> QED BY <1>4, <2>1, <2>2 DEF Wallets
<1>6. ASSUME NEW p \in Pools PROVE Covered(v.trees[p])
  BY <1>3, <1>4
<1>7. ASSUME NEW p \in Pools PROVE Witnessed(v, p)
  <2>1. ASSUME NEW n \in v.blocks, p \in chain.mine[n]
        PROVE  n \in v.trees[p].leaves \cup v.owed
    <3>1. n \in Heights
      BY <1>5 DEF Wallets
    <3>2. CASE n \in s..e
      <4>1. n \in Own(p, s, e)
        BY <2>1, <3>1, <3>2 DEF ChainType, Own, OutputsOf
      <4> QED BY <1>3, <1>4, <4>1
    <3>3. CASE n \notin s..e
      <4>1. n \in w.trees[p].leaves \cup w.owed
        BY <1>4, <2>1, <3>3 DEF Sound, Witnessed, NotesOf
      <4> QED BY <1>3, <1>4, <3>3, <4>1
    <3> QED BY <3>2, <3>3
  <2> QED BY <2>1 DEF Witnessed, NotesOf
<1> QED BY <1>5, <1>6, <1>7 DEF Sound, v

\* A truncation of the trees keeps the witness of every note but those above the floor
\* from which the blocks are to be scanned again.
LEMMA TruncatedSound ==
  ASSUME ChainType, NEW w, Sound(w), NEW h \in Levels, NEW f \in Levels,
         NEW v \in TruncateToHeightInternal(w, h, f)
  PROVE  \/ v = w
         \/ /\ v \in Wallets /\ \A n \in v.blocks : n <= h
            /\ \A p \in Pools : /\ Covered(v.trees[p])
                                /\ \A n \in NotesOf(v, p) :
                                     n \in v.trees[p].leaves \cup v.owed \/ n > f
<1> DEFINE plan(p) == PlanTreeTruncation(w, p, h, f)
           cut == [blocks |-> {b \in w.blocks : b <= h},
                   trees  |-> [p \in Pools |-> TruncatedTree(w.trees[p], plan(p), h)],
                   owed   |-> {b \in w.owed : b <= h}]
<1>1. CASE v = w
  BY <1>1
<1>2. CASE v # w
  <2>1. /\ v = cut
        /\ \A p \in Pools : plan(p) \notin {"WouldDestroyWitnesses", "DivergedCheckpoints"}
    BY <1>2 DEF TruncateToHeightInternal
  <2>2. \A p \in Pools : w.trees[p] \in Tree /\ Covered(w.trees[p])
    BY DEF Sound, Wallets
  <2>3. \A n \in w.blocks \cup w.owed : n \in Nat
    BY HeightsType DEF Sound, Wallets
  <2>4. ASSUME NEW p \in Pools
        PROVE  /\ cut.trees[p] \in Tree /\ Covered(cut.trees[p])
               /\ \A n \in w.trees[p].leaves : n <= h => n \in cut.trees[p].leaves
                                                 \/ \A m \in NotesOf(w, p) : m > f
    <3> DEFINE t == w.trees[p]
               u == TruncatedTree(t, plan(p), h)
    <3>0. t \in Tree /\ Covered(t) /\ cut.trees[p] = u
      BY <2>2
    <3>1. CASE h \in t.checkpoints
      <4>1. plan(p) = "ToCheckpoint"
        BY <3>1 DEF PlanTreeTruncation
      <4>2. u = TruncatedToCheckpoint(t, h)
        BY <4>1 DEF TruncatedTree
      <4>3. u \in Tree /\ u.checkpoints = {c \in t.checkpoints : c <= h}
            /\ u.leaves = {l \in t.leaves : l <= h}
        BY <3>0, <4>2 DEF TruncatedToCheckpoint, Tree
      <4> HIDE DEF t, u
      <4>4. h \in u.checkpoints
        BY <3>1, <4>3, HeightsType
      <4>5. Covered(u)
        BY <4>3, <4>4 DEF Covered
      <4> QED BY <3>0, <4>3, <4>5 DEF t
    <3>2. CASE h \notin t.checkpoints /\ Above(t, h) = {}
      <4>1. plan(p) = "Unaffected"
        BY <3>2 DEF PlanTreeTruncation
      <4>2. u = t
        BY <4>1 DEF TruncatedTree
      <4> QED BY <3>0, <4>2
    <3>3. CASE h \notin t.checkpoints /\ Above(t, h) # {} /\ Below(t, h) # {}
      BY <2>1, <3>3 DEF PlanTreeTruncation
    <3>4. CASE h \notin t.checkpoints /\ Above(t, h) # {} /\ Below(t, h) = {}
      <4>1. plan(p) = IF \E n \in NotesOf(w, p) : n <= f
                      THEN "WouldDestroyWitnesses" ELSE "ResetToSubtreeRoots"
        BY <3>4 DEF PlanTreeTruncation
      <4>2. plan(p) = "ResetToSubtreeRoots" /\ ~ \E n \in NotesOf(w, p) : n <= f
        BY <2>1, <4>1
      <4>3. u = [t EXCEPT !.checkpoints = {}, !.leaves = {}]
        BY <4>2 DEF TruncatedTree
      <4>4. u \in Tree /\ u.leaves = {}
        BY <3>0, <4>3 DEF Tree
      <4>5. Covered(u)
        BY <4>4 DEF Covered
      <4>6. \A m \in NotesOf(w, p) : m > f
        BY <2>3, <4>2, HeightsType DEF NotesOf
      <4> QED BY <3>0, <4>4, <4>5, <4>6
    <3> QED BY <3>1, <3>2, <3>3, <3>4
  <2> HIDE DEF plan
  <2>5. cut \in Wallets
    <3>1. cut.trees \in [Pools -> Tree]
      BY <2>4
    <3> QED BY <3>1 DEF Wallets, Sound
  <2>6. ASSUME NEW p \in Pools, NEW n \in NotesOf(cut, p)
        PROVE  n \in cut.trees[p].leaves \cup cut.owed \/ n > f
    <3>1. n \in NotesOf(w, p) /\ n <= h
      BY DEF NotesOf
    <3>2. n \in w.trees[p].leaves \cup w.owed
      BY <3>1 DEF Sound, Witnessed
    <3>3. n \in w.owed => n \in cut.owed
      BY <3>1
    <3> HIDE DEF cut
    <3> QED BY <2>4, <3>1, <3>2, <3>3
  <2>7. \A n \in cut.blocks : n <= h
    OBVIOUS
  <2> HIDE DEF cut
  <2> QED BY <2>1, <2>4, <2>5, <2>6, <2>7
<1> QED BY <1>1, <1>2

LEMMA SameFloorSound ==
  ASSUME ChainType, NEW w, Sound(w), NEW h \in Levels, NEW v \in TruncateToHeightInternal(w, h, h)
  PROVE  Sound(v)
<1>1. CASE v = w
  BY <1>1
<1>2. CASE v # w
  <2>1. /\ v \in Wallets /\ \A n \in v.blocks : n <= h
        /\ \A p \in Pools : /\ Covered(v.trees[p])
                            /\ \A n \in NotesOf(v, p) :
                                 n \in v.trees[p].leaves \cup v.owed \/ n > h
    BY <1>2, TruncatedSound
  <2>2. \A n \in v.blocks : ~(n > h)
    BY <2>1, HeightsType DEF Wallets
  <2> QED BY <2>1, <2>2 DEF Sound, Witnessed, NotesOf
<1> QED BY <1>1, <1>2

LEMMA MaxScannedType ==
  ASSUME NEW w, Sound(w)
  PROVE  MaxScanned(w) \in Levels
<1>1. w.blocks \in SUBSET Levels
  BY HeightsType DEF Sound, Wallets
<1> QED BY <1>1, GreatestIs, HeightsType DEF MaxScanned, Levels

LEMMA CheckpointsType ==
  ASSUME NEW w, Sound(w)
  PROVE  UNION {w.trees[p].checkpoints : p \in Pools} \subseteq Levels
BY DEF Sound, Wallets, Tree, Levels

LEMMA TruncateSound ==
  ASSUME ChainType, NEW w, Sound(w), NEW requested, NEW v \in TruncateToHeight(w, requested)
  PROVE  Sound(v)
<1> DEFINE q == Qualifying(w, requested)
<1>1. q \in SUBSET Levels
  BY HeightsType DEF Qualifying, Sound, Wallets
<1>2. q # {} /\ v \in TruncateToHeightInternal(w, Greatest(q), Greatest(q))
  BY DEF TruncateToHeight
<1>3. Greatest(q) \in Levels
  <2> HIDE DEF q
  <2> QED BY <1>1, <1>2, GreatestIs
<1> HIDE DEF q
<1> QED BY <1>2, <1>3, SameFloorSound

LEMMA ChainStateSound ==
  ASSUME ChainType, NEW w, Sound(w), NEW h \in Levels, NEW v \in TruncateToChainState(w, h)
  PROVE  Sound(v)
<1>1. CASE v \in TruncateToHeightInternal(w, h, h)
  BY <1>1, SameFloorSound
<1>2. CASE v \notin TruncateToHeightInternal(w, h, h)
  <2>1. PICK roomy \in MakeRoom(w, h) : v \in TruncateToHeightInternal(WithFrontiers(roomy, h), h, h)
    BY <1>2 DEF TruncateToChainState
  <2>2. Sound(roomy)
    <3> DEFINE least == Least(SharedCheckpoints(w))
    <3>1. CASE roomy = w
      BY <3>1
    <3>2. CASE roomy # w
      <4>1. SharedCheckpoints(w) # {} /\ roomy \in TruncateToHeightInternal(w, least, least)
        BY <2>1, <3>2 DEF MakeRoom
      <4>2. SharedCheckpoints(w) \in SUBSET Levels
        BY CheckpointsType DEF SharedCheckpoints
      <4>3. least \in Levels
        BY <4>1, <4>2, LeastIs
      <4> HIDE DEF least
      <4> QED BY <4>1, <4>3, SameFloorSound
    <3> QED BY <3>1, <3>2
  <2> DEFINE u == WithFrontiers(roomy, h)
  <2>3. \A p \in Pools : roomy.trees[p] \in Tree /\ Covered(roomy.trees[p])
    BY <2>2 DEF Sound, Wallets
  <2>4. \A p \in Pools : LET t == FrontierInserted(roomy.trees[p], p, h)
                         IN  t \in Tree /\ Covered(t) /\ roomy.trees[p].leaves \subseteq t.leaves
    BY <2>3, FrontierType
  <2>5. /\ u.trees = [p \in Pools |-> FrontierInserted(roomy.trees[p], p, h)]
        /\ u.blocks = roomy.blocks /\ u.owed = roomy.owed
    BY <2>2 DEF WithFrontiers, Sound, Wallets
  <2>6. u \in Wallets
    <3>1. [p \in Pools |-> FrontierInserted(roomy.trees[p], p, h)] \in [Pools -> Tree]
      BY <2>4
    <3> QED BY <2>2, <3>1 DEF WithFrontiers, Sound, Wallets
  <2> HIDE DEF u
  <2>7. Sound(u)
    BY <2>2, <2>4, <2>5, <2>6 DEF Sound, Witnessed, NotesOf
  <2> QED BY <2>1, <2>7, SameFloorSound DEF u
<1> QED BY <1>1, <1>2

LEMMA RewindHeightType ==
  ASSUME NEW w, Sound(w), NEW target \in Levels
  PROVE  RewindHeight(w, target) \in Levels
<1> DEFINE floor == IF MaxScanned(w) > PruningDepth - 1 THEN MaxScanned(w) - (PruningDepth - 1) ELSE 0
           from == IF target > floor THEN target ELSE floor
           window == {c \in UNION {w.trees[p].checkpoints : p \in Pools} : c >= from}
<1>1. floor \in Levels
  BY MaxScannedType, HeightsType DEF Levels
<1>2. window \in SUBSET Levels
  BY CheckpointsType
<1>3. RewindHeight(w, target) = IF window = {} THEN floor ELSE Least(window)
  BY DEF RewindHeight
<1> HIDE DEF floor, window
<1> QED BY <1>1, <1>2, <1>3, LeastIs

\* A rewind may cut above its target, and queues what it leaves there.
LEMMA RewindSound ==
  ASSUME ChainType, NEW w, Sound(w), NEW target \in Levels, NEW u \in RewindToChainState(w, target)
  PROVE  Sound(u)
<1> DEFINE cut == IF target < MaxScanned(w)
                  THEN TruncateToHeightInternal(w, RewindHeight(w, target), target) ELSE {w}
<1>1. PICK v \in cut : u = [v EXCEPT !.owed = @ \cup {b \in v.blocks : b > target}]
  BY DEF RewindToChainState
<1>2. /\ v \in Wallets
      /\ \A p \in Pools : /\ Covered(v.trees[p])
                          /\ \A n \in NotesOf(v, p) :
                               n \in v.trees[p].leaves \cup v.owed \/ n > target
  <2>1. CASE v = w
    BY <2>1 DEF Sound, Witnessed
  <2>2. CASE v # w
    BY <1>1, <2>2, RewindHeightType, TruncatedSound
  <2> QED BY <2>1, <2>2
<1>3. /\ u.blocks = v.blocks /\ u.trees = v.trees
      /\ u.owed = v.owed \cup {b \in v.blocks : b > target}
  BY <1>1, <1>2 DEF Wallets
<1>4. u \in Wallets
  BY <1>1, <1>2 DEF Wallets
<1> QED BY <1>2, <1>3, <1>4 DEF Sound, Witnessed, NotesOf

LEMMA BecomeSound ==
  ASSUME ChainType, NEW w, Sound(w), Become(w)
  PROVE  IInv'
<1>1. wallet' = [blocks |-> w.blocks, trees |-> w.trees, owed |-> w.owed]
  BY DEF wallet, Become
<1>2. chain' = chain
  BY DEF Become
<1>3. w.blocks \subseteq Heights /\ w.trees \in [Pools -> Tree] /\ w.owed \subseteq Heights
  BY DEF Sound, Wallets
<1>4. /\ wallet'.blocks = w.blocks /\ wallet'.trees = w.trees /\ wallet'.owed = w.owed
      /\ wallet' \in Wallets
  BY <1>1, <1>3 DEF Wallets
<1>5. (Sound(wallet))'
  BY <1>2, <1>4 DEF Sound, Witnessed, NotesOf
<1> QED BY <1>2, <1>5 DEF IInv, ChainType

LEMMA InitIInv == Init => IInv
<1> SUFFICES ASSUME Init PROVE IInv
  OBVIOUS
<1> DEFINE bare == [checkpoints |-> {}, retained |-> {}, leaves |-> {}]
<1>1. bare \in Tree /\ bare.leaves = {}
  BY DEF Tree
<1>2. wallet = [blocks |-> {}, trees |-> [p \in Pools |-> bare], owed |-> {}]
  BY DEF Init, wallet
<1> HIDE DEF bare
<1>3. wallet \in Wallets
  BY <1>1, <1>2 DEF Wallets
<1>4. Sound(wallet)
  BY <1>1, <1>2, <1>3 DEF Sound, Covered, Witnessed, NotesOf
<1> QED BY <1>4, ChainsType DEF Init, IInv

LEMMA NextIInv == IInv /\ [Next]_vars => IInv'
<1> SUFFICES ASSUME IInv, [Next]_vars PROVE IInv'
  OBVIOUS
<1>0. ChainType /\ Sound(wallet)
  BY DEF IInv
<1>1. CASE Scan
  <2>1. PICK s \in Heights : \E e \in s..MaxHeight : Become(PutBlocks(wallet, s, e))
    BY <1>1 DEF Scan
  <2>2. PICK e \in s..MaxHeight : Become(PutBlocks(wallet, s, e))
    BY <2>1
  <2>3. e \in Heights
    BY HeightsType DEF Heights
  <2> QED BY <1>0, <2>2, <2>3, PutSound, BecomeSound
<1>2. CASE Truncate
  <2>1. PICK h \in Heights : \E w \in TruncateToHeight(wallet, h) : Become(w)
    BY <1>2 DEF Truncate
  <2> QED BY <1>0, <2>1, TruncateSound, BecomeSound
<1>3. CASE TruncateToState
  <2>1. PICK h \in Levels : \E w \in TruncateToChainState(wallet, h) : Become(w)
    BY <1>3 DEF TruncateToState, Levels
  <2> QED BY <1>0, <2>1, ChainStateSound, BecomeSound
<1>4. CASE Rewind
  <2>1. PICK h \in Levels : \E w \in RewindToChainState(wallet, h) : Become(w)
    BY <1>4 DEF Rewind, Levels
  <2> QED BY <1>0, <2>1, RewindSound, BecomeSound
<1>5. CASE UNCHANGED vars
  <2>1. Become(wallet)
    BY <1>5 DEF vars, Become, wallet
  <2> QED BY <1>0, <2>1, BecomeSound
<1> QED BY <1>1, <1>2, <1>3, <1>4, <1>5 DEF Next

LEMMA Reachable == Spec => []IInv
BY InitIInv, NextIInv, PTL DEF Spec

LEMMA WalletIs == /\ wallet.blocks = blocks /\ wallet.trees = trees /\ wallet.owed = owed
BY DEF wallet

\* No scan, truncation or rewind destroys the witness of a stored note unless its
\* block is queued to be scanned again.
THEOREM WitnessesAreKept == Spec => []WitnessesKept
<1>1. IInv => WitnessesKept
  BY WalletIs DEF IInv, Sound, Witnessed, WitnessesKept
<1> QED BY <1>1, Reachable, PTL

\* Every commitment in a tree has a checkpoint at or above it, so a tree without a
\* checkpoint above a height holds nothing that a truncation to it must remove.
THEOREM LeavesAreCheckpointed == Spec => []LeavesCheckpointed
<1>1. IInv => LeavesCheckpointed
  BY WalletIs DEF IInv, Sound, Covered, LeavesCheckpointed
<1> QED BY <1>1, Reachable, PTL

-----------------------------------------------------------------------------
(* Alignment *)

LEMMA UpdateAligns ==
  ASSUME NEW t \in Tree, Covered(t), NEW p \in Pools, NEW s \in Heights, NEW e \in Heights,
         Above(t, e) = {}, NEW c \in Wanted(s, e), c > e - PruningDepth
  PROVE  c \in UpdateTree(t, p, s, e).checkpoints
<1> DEFINE own == Own(p, s, e)
           first == FrontierInserted(t, p, s - 1)
           frontier == RetainAnchors(first, {s - 1})
           ready == RetainAnchors(frontier, own)
           inserted == SubtreesInserted(ready, own)
           missing == {h \in BatchEnsureHeights(p, s..e) \ own : h > Least(inserted.checkpoints)}
           last == [inserted EXCEPT !.checkpoints = @ \cup missing]
<1>1. /\ s - 1 \in Levels /\ s..e \subseteq Heights /\ own \in SUBSET Heights
      /\ own \subseteq s..e /\ e \in Levels /\ c \in s..e /\ c \in Levels
      /\ s - 1 <= e /\ s - 1 < c /\ c <= e
  BY HeightsType DEF Heights, Levels, Own, OutputsOf, Wanted
<1>2. \A d \in t.checkpoints : d <= e
  <2>1. \A d \in t.checkpoints : d \in Nat /\ ~(d > e)
    BY HeightsType DEF Above, Tree, Levels
  <2> QED BY <1>1, <2>1, HeightsType
<1>3. /\ first \in Tree /\ Covered(first)
      /\ \E full \in Tree : /\ full.checkpoints = t.checkpoints \cup {s - 1}
                            /\ first.checkpoints \in {full.checkpoints, Pruned(full).checkpoints}
  BY <1>1, FrontierType
<1>4. PICK full1 \in Tree : /\ full1.checkpoints = t.checkpoints \cup {s - 1}
                            /\ first.checkpoints \in {full1.checkpoints, Pruned(full1).checkpoints}
  BY <1>3
<1> HIDE DEF first
<1>5. frontier \in Tree /\ Covered(frontier) /\ frontier.checkpoints = first.checkpoints
  BY <1>3, RetainType
<1> HIDE DEF frontier
<1>6. ready \in Tree /\ Covered(ready) /\ ready.checkpoints = first.checkpoints
  BY <1>5, RetainType
<1> HIDE DEF ready, own
<1>7. /\ inserted \in Tree
      /\ \E full \in Tree :
           /\ full.checkpoints = first.checkpoints \cup own
           /\ inserted.checkpoints \in {full.checkpoints, Pruned(full).checkpoints}
  <2>1. /\ SubtreesInserted(ready, own) \in Tree
        /\ \E full \in Tree :
             /\ full.checkpoints = ready.checkpoints \cup own
             /\ SubtreesInserted(ready, own).checkpoints \in
                  {full.checkpoints, Pruned(full).checkpoints}
    BY <1>1, <1>6, SubtreesType
  <2> QED BY <1>6, <2>1
<1>8. PICK full2 \in Tree : /\ full2.checkpoints = first.checkpoints \cup own
                            /\ inserted.checkpoints \in {full2.checkpoints, Pruned(full2).checkpoints}
  BY <1>7
<1> HIDE DEF inserted
<1>9. \A d \in full1.checkpoints : d <= e
  BY <1>1, <1>2, <1>4
<1>10. \A d \in full2.checkpoints : d <= e
  <2>1. first.checkpoints \subseteq full1.checkpoints
    BY <1>4, PrunedType
  <2>2. \A d \in own : d <= e
    BY <1>1
  <2> QED BY <1>8, <1>9, <2>1, <2>2
<1>11. ASSUME c \in full2.checkpoints PROVE c \in inserted.checkpoints
  BY <1>1, <1>8, <1>10, <1>11, PrunedKeepsWindow
<1>12. ASSUME c \notin full2.checkpoints PROVE c \in missing
  <2>1. c \notin own /\ c \notin first.checkpoints
    BY <1>8, <1>12
  <2>2. c \notin full1.checkpoints
    <3>1. ASSUME c \in full1.checkpoints PROVE FALSE
      <4>1. c \in Pruned(full1).checkpoints
        BY <1>1, <1>9, <3>1, PrunedKeepsWindow
      <4> QED BY <1>4, <2>1, <3>1, <4>1
    <3> QED BY <3>1
  <2>3. \E d \in first.checkpoints : d < c
    <3>1. s - 1 \in full1.checkpoints
      BY <1>4
    <3>2. \E d \in full1.checkpoints : d < c
      BY <1>1, <3>1
    <3>3. \E d \in Pruned(full1).checkpoints : d < c
      BY <1>1, <1>9, <2>2, <3>2, PrunedKeepsBelow
    <3> QED BY <1>4, <3>2, <3>3
  <2>4. \E d \in inserted.checkpoints : d < c
    <3>1. \E d \in full2.checkpoints : d < c
      BY <1>8, <2>3
    <3>2. \E d \in Pruned(full2).checkpoints : d < c
      BY <1>1, <1>10, <1>12, <3>1, PrunedKeepsBelow
    <3> QED BY <1>8, <3>1, <3>2
  <2>5. c > Least(inserted.checkpoints)
    <3>1. inserted.checkpoints \in SUBSET Levels /\ inserted.checkpoints # {}
      BY <1>7, <2>4 DEF Tree, Levels
    <3>2. /\ Least(inserted.checkpoints) \in Levels
          /\ \A d \in inserted.checkpoints : Least(inserted.checkpoints) <= d
      BY <3>1, LeastIs
    <3>3. PICK d \in inserted.checkpoints : d < c
      BY <2>4
    <3>4. d \in Levels /\ Least(inserted.checkpoints) <= d
      BY <3>1, <3>2, <3>3
    <3>5. c \in Nat /\ d \in Nat /\ Least(inserted.checkpoints) \in Nat
      BY <1>1, <3>2, <3>4, HeightsType
    <3> QED BY <3>3, <3>4, <3>5
  <2>6. c \in BatchEnsureHeights(p, s..e)
    <3>1. CASE c \in Anchors
      BY <1>1, <3>1 DEF BatchEnsureHeights
    <3>2. CASE c \notin Anchors
      <4>1. c \in Heights /\ chain.outs[c] # {}
        BY <1>1, <3>2 DEF Wanted
      <4>2. p \notin chain.outs[c]
        BY <1>1, <2>1, <4>1 DEF own, Own, OutputsOf
      <4> QED BY <1>1, <4>1, <4>2 DEF BatchEnsureHeights
    <3> QED BY <3>1, <3>2
  <2> QED BY <2>1, <2>5, <2>6
<1>13. missing \in SUBSET Levels
  BY <1>1, HeightsType DEF BatchEnsureHeights
<1>14. last.checkpoints = inserted.checkpoints \cup missing
  BY <1>7 DEF Tree
<1>15. UpdateTree(t, p, s, e) = RetainAnchors(last, missing)
  BY DEF UpdateTree, inserted, ready, frontier, first, own, Own
<1>16. RetainAnchors(last, missing).checkpoints = last.checkpoints
  <2> HIDE DEF missing
  <2>1. last.checkpoints \subseteq Levels /\ last \in [checkpoints : SUBSET Levels, retained : SUBSET Heights, leaves : SUBSET Heights]
    BY <1>7, <1>13 DEF Tree, Levels
  <2> HIDE DEF last
  <2> QED BY <2>1 DEF RetainAnchors
<1> QED BY <1>11, <1>12, <1>14, <1>15, <1>16

\* Whatever was scanned, pruned and truncated before, a batch at the end of the scanned
\* chain leaves every pool checkpointed at each height within the pruning depth that any
\* pool has commitments at or that the anchor policy wants.
THEOREM PoolsAreAligned == Spec => []PoolsAligned
<1>1. IInv => PoolsAligned
  <2> SUFFICES ASSUME IInv, NEW s \in Heights, NEW e \in s..(s + MaxBatch - 1), e <= MaxHeight,
                      \A p \in Pools : Above(trees[p], e) = {},
                      NEW p \in Pools, NEW c \in Wanted(s, e), c > e - PruningDepth
               PROVE  c \in PutBlocks(wallet, s, e).trees[p].checkpoints
    BY DEF PoolsAligned
  <2>1. e \in Heights
    BY HeightsType DEF Heights
  <2>2. trees[p] \in Tree /\ Covered(trees[p])
    BY WalletIs DEF IInv, Sound, Wallets
  <2>3. c \in UpdateTree(trees[p], p, s, e).checkpoints
    BY <2>1, <2>2, UpdateAligns
  <2>4. PutBlocks(wallet, s, e).trees[p] = UpdateTree(trees[p], p, s, e)
    BY WalletIs DEF PutBlocks
  <2> QED BY <2>3, <2>4
<1> QED BY <1>1, Reachable, PTL
=============================================================================
