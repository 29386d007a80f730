----------------------------- MODULE ScanRanges -----------------------------
(***************************************************************************)
(* Scan ranges and their priorities, and which ranges each operation of    *)
(* the wallet merges into its scan queue.                                  *)
(*                                                                         *)
(* An edit is what one call of replace_queue_entries is given: the range   *)
(* of heights it queries, the entries it inserts in order (None for an     *)
(* entry that is not there), and whether rescans are forced.  How an edit  *)
(* is merged is the subject of ScanQueue (the code) and ScanPriorities     *)
(* (what the code promises).                                               *)
(***************************************************************************)
EXTENDS Integers

CONSTANTS
  MaxHeight,        \* bound: the highest block of any chain explored
  PruningDepth,     \* PRUNING_DEPTH, 100 in the code
  VerifyLookahead   \* VERIFY_LOOKAHEAD, 10 in the code

ASSUME RangeAssumption ==
  /\ MaxHeight \in Nat \ {0}
  /\ PruningDepth \in Nat \ {0}
  /\ VerifyLookahead \in Nat \ {0}

\* Heights from Sapling activation on; 0 stands for "no block".
SaplingActivation == 1
Heights == SaplingActivation..MaxHeight

Least(a, b) == IF a <= b THEN a ELSE b
Greatest(a, b) == IF a >= b THEN a ELSE b

-----------------------------------------------------------------------------
(* Priorities, in the order of the ScanPriority enumeration.  Unqueued is  *)
(* the priority of a height no row covers.                                 *)

Unqueued == -1
Ignored == 0
Scanned == 1
Historic == 2
OpenAdjacent == 3
FoundNote == 4
ChainTip == 5
Verify == 6
Priorities == Ignored..Verify

\* A block range [start, end) with its priority.
ScanRange(s, e, p) == [start |-> s, end |-> e, pri |-> p]
IsEmpty(r) == r.end <= r.start
None == ScanRange(0, 0, Unqueued)

\* dominance, for an inserted priority that differs from the current one.
Prevails(inserted, current, force) ==
  \/ inserted \in {Verify, Scanned}
  \/ (current = Scanned => force) /\ inserted > current

-----------------------------------------------------------------------------
(* Edits *)

When(c, r) == IF c THEN r ELSE None
Edit(s, e, entries, force) ==
  [start |-> s, end |-> e, entries |-> entries, force |-> force]

\* queue_rescans, and the rescan a rewind installs above its target.
Rescan(s, e, p) == Edit(s, e, <<ScanRange(s, e, p), None, None>>, TRUE)

\* add_account: what lies below the new account's birthday.
IgnoreBelow(birthday) ==
  Edit(SaplingActivation, birthday,
       <<ScanRange(SaplingActivation, birthday, Ignored), None, None>>, FALSE)

\* scan_complete: [s, e) was scanned, and [lo, hi) holds it and the subtrees of
\* the notes found.
ScanComplete(s, e, lo, hi) ==
  Edit(lo, hi, <<ScanRange(s, e, Scanned),
                 When(lo < s, ScanRange(lo, s, FoundNote)),
                 When(e < hi, ScanRange(e, hi, FoundNote))>>, FALSE)

\* update_chain_tip: the range of the last, incomplete subtree of every pool.
\* shardTips holds the greatest known subtree end of each pool that has one,
\* birthday and maxScanned are 0 where the wallet has none.
TipShardEntry(tip, birthday, shardTips) ==
  LET h == CHOOSE x \in shardTips : \A y \in shardTips : x <= y
  IN  When(shardTips # {} /\ h <= tip,
           ScanRange(Greatest(birthday, h), tip + 1, ChainTip))

\* Mutated form: the block after the greatest scanned one is left out.
TipEntryLate(tip, birthday, maxScanned, shardEntry) ==
  LET next == maxScanned + 2
      stable == Greatest(tip - PruningDepth, 0)
  IN  CASE maxScanned = 0 /\ birthday = 0 -> ScanRange(SaplingActivation, tip + 1, Ignored)
        [] maxScanned = 0 /\ birthday # 0 -> ScanRange(birthday, tip + 1, Historic)
        [] maxScanned # 0 /\ shardEntry = None -> ScanRange(next, tip + 1, Historic)
        [] maxScanned > stable /\ shardEntry # None -> ScanRange(next, tip + 1, ChainTip)
        [] OTHER -> ScanRange(next, Least(stable + 1, next + VerifyLookahead), Verify)

\* ... and the range that connects what was scanned to the new tip.
TipEntry(tip, birthday, maxScanned, shardEntry) ==
  LET next == maxScanned + 1
      stable == Greatest(tip - PruningDepth, 0)
  IN  CASE maxScanned = 0 /\ birthday = 0 -> ScanRange(SaplingActivation, tip + 1, Ignored)
        [] maxScanned = 0 /\ birthday # 0 -> ScanRange(birthday, tip + 1, Historic)
        [] maxScanned # 0 /\ shardEntry = None -> ScanRange(next, tip + 1, Historic)
        [] maxScanned > stable /\ shardEntry # None -> ScanRange(next, tip + 1, ChainTip)
        [] OTHER -> ScanRange(next, Least(stable + 1, next + VerifyLookahead), Verify)

ChainTipUpdate(tip, birthday, maxScanned, shardTips) ==
  LET shard == TipShardEntry(tip, birthday, shardTips)
      entry == TipEntry(tip, birthday, maxScanned, shard)
  IN  Edit(IF shard = None THEN entry.start ELSE Least(shard.start, entry.start),
           IF shard = None THEN entry.end ELSE Greatest(shard.end, entry.end),
           <<shard, entry, None>>, FALSE)

\* ScanRange::from_parts asserts that a range does not end before it starts.
WellFormed(edit) == \A i \in 1..3 : edit.entries[i].start <= edit.entries[i].end
=============================================================================
