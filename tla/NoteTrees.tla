------------------------------ MODULE NoteTrees ------------------------------
(***************************************************************************)
(* The note commitment trees of the wallet: what scanning adds to them in  *)
(* any order of ranges, which checkpoints are pruned, and what a           *)
(* truncation of the wallet does to each. A tree is the set of heights     *)
(* whose commitments it holds and the heights it has checkpoints for; a    *)
(* checkpoint marks the last commitment at or below its height, so the     *)
(* order of positions is the order of heights. The trees themselves are    *)
(* those of the external shardtree crate.                                  *)
(* Height 0 is the block before the wallet's first. The chain is fixed:    *)
(* what a reorganisation does to the rest is in the scan modules.          *)
(***************************************************************************)
EXTENDS Integers, FiniteSets

CONSTANTS
  Pools,          \* the shielded pools
  MaxHeight,      \* bound: the last block of the chain
  PruningDepth,   \* PRUNING_DEPTH, the checkpoints a tree keeps
  MaxBatch,       \* bound: the blocks of a scanned batch
  Anchors,        \* the heights the anchor retention policy retains
  Chains          \* the chains considered: for each block the pools it has
                  \* commitments of, and those it has notes of the wallet of

Heights == 1..MaxHeight

ASSUME NoteTreesAssumption ==
  /\ MaxHeight \in Nat \ {0} /\ PruningDepth \in Nat \ {0} /\ MaxBatch \in Nat \ {0}
  /\ Anchors \subseteq Heights
  /\ \A c \in Chains : /\ c \in [outs : [Heights -> SUBSET Pools], mine : [Heights -> SUBSET Pools]]
                       /\ \A h \in Heights : c.mine[h] \subseteq c.outs[h]

VARIABLES
  chain,    \* the chain
  blocks,   \* heights with a row in the blocks table
  trees,    \* the tree of each pool
  owed      \* stored heights that a rewind has queued for another scan

vars == <<chain, blocks, trees, owed>>

Tree == [checkpoints : SUBSET (0..MaxHeight),
         retained    : SUBSET Heights,   \* checkpoints exempt from pruning
         leaves      : SUBSET Heights]

wallet == [blocks |-> blocks, trees |-> trees, owed |-> owed]

Least(S) == CHOOSE a \in S : \A b \in S : a <= b
Greatest(S) == CHOOSE a \in S : \A b \in S : b <= a

\* The heights of the pool's commitments.
OutputsOf(p) == {h \in Heights : p \in chain.outs[h]}

\* The stored notes of the wallet in the pool; each has a witness position.
NotesOf(w, p) == {h \in w.blocks : p \in chain.mine[h]}

-----------------------------------------------------------------------------
(* A tree (external: shardtree) *)

\* Pruned to the newest checkpoints, those retained aside.
Pruned(t) ==
  LET excess == {c \in t.checkpoints \ t.retained :
                   Cardinality({d \in t.checkpoints \ t.retained : d >= c}) > PruningDepth}
  IN  [t EXCEPT !.checkpoints = @ \ excess]

\* The frontier at height h inserted and checkpointed: a frontier without commitments
\* has no node to insert, and then nothing is pruned.
FrontierInserted(t, p, h) ==
  LET below == {i \in OutputsOf(p) : i <= h}
      added == [t EXCEPT !.checkpoints = @ \cup {h}]
  IN  IF below = {} THEN added ELSE Pruned([added EXCEPT !.leaves = @ \cup {Greatest(below)}])

\* Commitments inserted, each block's last one checkpointed.
SubtreesInserted(t, new) ==
  IF new = {} THEN t
  ELSE Pruned([t EXCEPT !.checkpoints = @ \cup new, !.leaves = @ \cup new])

TruncatedToCheckpoint(t, h) ==
  [t EXCEPT !.checkpoints = {c \in @ : c <= h}, !.leaves = {l \in @ : l <= h}]

-----------------------------------------------------------------------------
(* Scanning *)

\* (variant: the checkpoints of the other pools only)
CrossPoolEnsureHeights(p, batch) == {h \in batch : chain.outs[h] \ {p} # {}}

\* The checkpoints every pool must have for the batch: those of the other pools and
\* those of the anchor retention policy.
BatchEnsureHeights(p, batch) ==
  {h \in batch : chain.outs[h] \ {p} # {}} \cup (Anchors \cap batch)

\* A height is retained whether or not its checkpoint exists (yet).
RetainAnchors(t, hs) == [t EXCEPT !.retained = @ \cup (hs \cap Anchors)]

\* The tree of pool p after the commitments of the blocks s..e.
UpdateTree(t, p, s, e) ==
  LET own      == OutputsOf(p) \cap s..e
      frontier == RetainAnchors(FrontierInserted(t, p, s - 1), {s - 1})
      inserted == SubtreesInserted(RetainAnchors(frontier, own), own)
      missing  == {h \in BatchEnsureHeights(p, s..e) \ own : h > Least(inserted.checkpoints)}
  IN  RetainAnchors([inserted EXCEPT !.checkpoints = @ \cup missing], missing)

\* The blocks s..e stored with their commitments.
PutBlocks(w, s, e) ==
  [blocks |-> w.blocks \cup s..e,
   trees  |-> [p \in Pools |-> UpdateTree(w.trees[p], p, s, e)],
   owed   |-> w.owed \ s..e]

-----------------------------------------------------------------------------
(* Truncation *)

Above(t, h) == {c \in t.checkpoints : c > h}
Below(t, h) == {c \in t.checkpoints : c < h}

\* (variant: a reset whatever the notes of the tree)
PlanWithoutNotes(w, p, h, rescanFloor) ==
  LET t == w.trees[p]
  IN  CASE h \in t.checkpoints -> "ToCheckpoint"
        [] h \notin t.checkpoints /\ Above(t, h) = {} -> "Unaffected"
        [] h \notin t.checkpoints /\ Above(t, h) # {} /\ Below(t, h) # {} -> "DivergedCheckpoints"
        [] OTHER -> "ResetToSubtreeRoots"

\* What a truncation to h does to the tree of pool p, or why it is refused.
PlanTreeTruncation(w, p, h, rescanFloor) ==
  LET t == w.trees[p]
  IN  CASE h \in t.checkpoints -> "ToCheckpoint"
        [] h \notin t.checkpoints /\ Above(t, h) = {} -> "Unaffected"
        [] h \notin t.checkpoints /\ Above(t, h) # {} /\ Below(t, h) # {} -> "DivergedCheckpoints"
        [] OTHER -> IF \E n \in NotesOf(w, p) : n <= rescanFloor
                    THEN "WouldDestroyWitnesses" ELSE "ResetToSubtreeRoots"

\* (variant: a reset that deletes the checkpoints only)
TruncatedCheckpoints(t, plan, h) ==
  CASE plan = "ToCheckpoint" -> TruncatedToCheckpoint(t, h)
    [] plan = "ResetToSubtreeRoots" -> [t EXCEPT !.checkpoints = {}]
    [] OTHER -> t

\* A reset tree keeps the roots of completed subtrees, which are no leaves.
TruncatedTree(t, plan, h) ==
  CASE plan = "ToCheckpoint" -> TruncatedToCheckpoint(t, h)
    [] plan = "ResetToSubtreeRoots" -> [t EXCEPT !.checkpoints = {}, !.leaves = {}]
    [] OTHER -> t

MaxScanned(w) == IF w.blocks = {} THEN 0 ELSE Greatest(w.blocks)

\* The wallet truncated to h, and the empty set when a tree refuses.
TruncateToHeightInternal(w, h, rescanFloor) ==
  LET plan == [p \in Pools |-> PlanTreeTruncation(w, p, h, rescanFloor)]
  IN  IF h >= MaxScanned(w) THEN {w}
      ELSE IF \E p \in Pools : plan[p] \in {"WouldDestroyWitnesses", "DivergedCheckpoints"} THEN {}
      ELSE {[blocks |-> {b \in w.blocks : b <= h},
             trees  |-> [p \in Pools |-> TruncatedTree(w.trees[p], plan[p], h)],
             owed   |-> {b \in w.owed : b <= h}]}

\* Whether the tree of the pool can be truncated to h, as the queries say it.
PoolTruncationTolerance(w, p, h) ==
  LET t == w.trees[p]
  IN  \/ h \in t.checkpoints
      \/ Above(t, h) = {}
      \/ Below(t, h) = {} /\ \A n \in NotesOf(w, p) : n > h

\* The stored heights up to the requested one to which the wallet can be truncated.
Qualifying(w, requested) ==
  {h \in w.blocks : h <= requested /\ \A p \in Pools : PoolTruncationTolerance(w, p, h)}

\* The checkpoints that every tree with checkpoints has.
SharedCheckpoints(w) ==
  {c \in UNION {w.trees[p].checkpoints : p \in Pools} :
     \A p \in Pools : c \in w.trees[p].checkpoints \/ w.trees[p].checkpoints = {}}

TruncateToHeight(w, requested) ==
  LET qualifying == Qualifying(w, requested)
  IN  IF qualifying = {} THEN {}
      ELSE TruncateToHeightInternal(w, Greatest(qualifying), Greatest(qualifying))

\* Room made for a checkpoint at the target: nothing if some stored height qualifies.
MakeRoom(w, target) ==
  IF Qualifying(w, target) # {} \/ SharedCheckpoints(w) = {} THEN {w}
  ELSE TruncateToHeightInternal(w, Least(SharedCheckpoints(w)), Least(SharedCheckpoints(w)))

WithFrontiers(w, target) ==
  [w EXCEPT !.trees = [p \in Pools |-> FrontierInserted(w.trees[p], p, target)]]

TruncateToChainState(w, target) ==
  LET qualifying == Qualifying(w, target)
  IN  IF MaxScanned(w) <= target \/ (qualifying # {} /\ Greatest(qualifying) = target)
      THEN TruncateToHeightInternal(w, target, target)
      ELSE UNION {TruncateToHeightInternal(WithFrontiers(roomy, target), target, target) :
                    roomy \in MakeRoom(w, target)}

\* The height a rewind truncates to: the least checkpoint in the pruning window.
RewindHeight(w, target) ==
  LET floor  == IF MaxScanned(w) > PruningDepth - 1 THEN MaxScanned(w) - (PruningDepth - 1) ELSE 0
      from   == IF target > floor THEN target ELSE floor
      window == {c \in UNION {w.trees[p].checkpoints : p \in Pools} : c >= from}
  IN  IF window = {} THEN floor ELSE Least(window)

\* The blocks above the target that the truncation leaves are queued again.
RewindToChainState(w, target) ==
  LET truncated == IF target < MaxScanned(w)
                   THEN TruncateToHeightInternal(w, RewindHeight(w, target), target) ELSE {w}
  IN  {[v EXCEPT !.owed = @ \cup {b \in v.blocks : b > target}] : v \in truncated}

-----------------------------------------------------------------------------
(* Actions; an operation that is refused is rolled back *)

Init ==
  /\ chain \in Chains
  /\ blocks = {} /\ owed = {}
  /\ trees = [p \in Pools |-> [checkpoints |-> {}, retained |-> {}, leaves |-> {}]]

Become(w) ==
  /\ blocks' = w.blocks /\ trees' = w.trees /\ owed' = w.owed
  /\ UNCHANGED chain

Scan ==
  \E s \in Heights : \E e \in s..MaxHeight :
    e < s + MaxBatch /\ Become(PutBlocks(wallet, s, e))

Truncate == \E h \in Heights : \E w \in TruncateToHeight(wallet, h) : Become(w)

TruncateToState == \E h \in 0..MaxHeight : \E w \in TruncateToChainState(wallet, h) : Become(w)

Rewind == \E h \in 0..MaxHeight : \E w \in RewindToChainState(wallet, h) : Become(w)

Next == Scan \/ Truncate \/ TruncateToState \/ Rewind

Spec == Init /\ [][Next]_vars

-----------------------------------------------------------------------------
(* Properties *)

\* "the tree can be reset ... without destroying any witness that a rescan of the heights
\* above it would not re-create": a stored note is in its tree, or its block is queued again.
WitnessesKept ==
  \A p \in Pools : NotesOf(wallet, p) \subseteq trees[p].leaves \cup owed

\* What leaving a tree untouched rests on: a tree without a checkpoint above a height
\* "holds no state that the truncation must remove".
LeavesCheckpointed ==
  \A p \in Pools : \A l \in trees[p].leaves : \E c \in trees[p].checkpoints : c >= l

\* The heights of a batch that some pool has commitments at, or an anchor is wanted at.
Wanted(s, e) == {h \in s..e : chain.outs[h] # {}} \cup (Anchors \cap s..e)

\* A batch at the end of the scanned chain leaves every pool with a checkpoint at each such
\* height within the pruning depth of its end: "all three trees end up checkpointed at the same
\* set of heights", whatever was scanned, pruned and truncated before.
PoolsAligned ==
  \A s \in Heights : \A e \in {h \in s..(s + MaxBatch - 1) : h <= MaxHeight} :
    (\A p \in Pools : Above(trees[p], e) = {}) =>
      LET w == PutBlocks(wallet, s, e)
      IN  \A p \in Pools : \A c \in Wanted(s, e) :
            c > e - PruningDepth => c \in w.trees[p].checkpoints

-----------------------------------------------------------------------------
(* What comments say and no run checks, because it is not so *)

\* A truncation to a chain state "enables precise truncation even when the target
\* height's checkpoint has been pruned": it is never refused.
ChainStateReached == \A h \in 0..MaxHeight : TruncateToChainState(wallet, h) # {}

\* Nor do the pools keep as many of the heights they want as a tree keeps checkpoints: the
\* checkpoint an earlier scan left at its frontier, where no pool has commitments, counts
\* against a tree that adds its own commitments and not against one that ensures their heights.
NewestAligned ==
  \A s \in Heights : \A e \in {h \in s..(s + MaxBatch - 1) : h <= MaxHeight} :
    (\A p \in Pools : Above(trees[p], e) = {}) =>
      LET w == PutBlocks(wallet, s, e)
      IN  \A p \in Pools : \A c \in Wanted(s, e) :
            Cardinality({d \in Wanted(s, e) : d >= c}) <= PruningDepth =>
              c \in w.trees[p].checkpoints

\* A truncation is refused for checkpoints that diverged only "in corrupted wallet data".
NeverDiverged ==
  \A p \in Pools, h \in 0..MaxHeight :
    h < MaxScanned(wallet) =>
      PlanTreeTruncation(wallet, p, RewindHeight(wallet, h), h) # "DivergedCheckpoints"

\* The height reported when none qualifies "is guaranteed to qualify".
SafeHeightQualifies ==
  \A h \in Heights :
    Qualifying(wallet, h) = {} /\ SharedCheckpoints(wallet) # {} =>
      Least(SharedCheckpoints(wallet)) \in Qualifying(wallet, Least(SharedCheckpoints(wallet)))
=============================================================================
