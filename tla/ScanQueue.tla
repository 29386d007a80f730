------------------------------ MODULE ScanQueue ------------------------------
(***************************************************************************)
(* The scan queue as it is stored: rows of the scan_queue table, edited    *)
(* through the spanning tree.  An operation on the wallet is one database  *)
(* transaction, hence one action.                                          *)
(***************************************************************************)
EXTENDS ScanWallet, SpanningTree

VARIABLE queue   \* the rows, as scan ranges

vars == <<queue, wallet>>

\* The priority the rows give each height (SubSeq: as a sequence, for TLC).
PriorityOf(rows) ==
  SubSeq([h \in Heights |-> IF \E r \in rows : r.start <= h /\ h < r.end
                            THEN (CHOOSE r \in rows : r.start <= h /\ h < r.end).pri
                            ELSE Unqueued], 1, MaxHeight)
pri == PriorityOf(queue)

-----------------------------------------------------------------------------
(* Rows *)

\* Mutated form: rows that are adjacent to the queried range are not read.
OverlappingOnly(rows, e) == {r \in rows : ~(r.start >= e.end \/ e.start >= r.end)}

\* The rows that overlap the queried range or are adjacent to it.
Overlapping(rows, e) == {r \in rows : ~(r.start > e.end \/ e.start > r.end)}

\* The ranges replace_queue_entries inserts into one tree, in order.
ToInsert(rows, e) ==
  SetToSortSeq(Overlapping(rows, e), LAMBDA a, b : a.end < b.end)
    \o SelectSeq(e.entries, LAMBDA r : r # None)

\* replace_queue_entries, and whether it returns rather than panics.
ReplaceQueueEntries(rows, e) ==
  (rows \ Overlapping(rows, e)) \cup ToSet(IntoVec(BuildTree(ToInsert(rows, e), e.force)))
Returns(rows, e) == TreeBuilds(ToInsert(rows, e), e.force)

\* Mutated form: the rows above h are not deleted.
TrimKeepsAbove(rows, h) == {[r EXCEPT !.end = Least(@, h + 1)] : r \in rows}

\* trim_scan_queue_to
TrimScanQueue(rows, h) ==
  {[r EXCEPT !.end = Least(@, h + 1)] : r \in {r \in rows : r.start <= h}}

\* prune_scan_queue_below
PruneScanQueue(rows, h, retain) ==
  LET below == {r \in rows : r.start < h}
      kept == {r \in below : Retained(r.pri, retain)}
      floor == MinOf({r.start : r \in kept})
      pieces(r) ==
        IF r \in kept THEN {r}
        ELSE {p \in {ScanRange(r.start, Least(r.end, h), Ignored)} : kept # {} /\ p.end > floor}
             \cup {p \in {ScanRange(h, r.end, r.pri)} : r.end > h}
      cut == SetToSortSeq(UNION {pieces(r) : r \in below}, LAMBDA a, b : a.start < b.start)
      coalesced ==
        FoldLeft(LAMBDA acc, r : IF acc # << >> /\ Last(acc).end = r.start /\ Last(acc).pri = r.pri
                                 THEN Front(acc) \o Abutting(Last(acc), r) ELSE Append(acc, r),
                 << >>, cut)
  IN  (rows \ below) \cup ToSet(coalesced)

Rewound(rows, target, h) ==
  IF target < KnownTip(PriorityOf(rows))
  THEN ReplaceQueueEntries(TrimScanQueue(rows, h), RewindEdit(PriorityOf(rows), target))
  ELSE TrimScanQueue(rows, h)

-----------------------------------------------------------------------------
(* Actions *)

Init == WalletInit /\ queue = {}

Chain == (Mine \/ Reorg \/ PutSubtreeRoots) /\ UNCHANGED queue

UpdateChainTip ==
  /\ LearnTip /\ Returns(queue, TipEdit)
  /\ queue' = ReplaceQueueEntries(queue, TipEdit)

ScanBlocks ==
  \E r \in Suggested(pri) :
    /\ StoreBlocks(r) /\ Connects(r)
    /\ \E found \in Findings(r) : queue' = ReplaceQueueEntries(queue, ScanEdit(r, found))

Truncate ==
  \E h \in ReorgTargets(pri) \cup ChosenTargets :
    TruncateWallet(pri, h) /\ Truncation(pri, h) /\ queue' = TrimScanQueue(queue, h)

RewindTo(target) ==
  \E reset \in SUBSET Held :
    /\ RewindAccounts(target, reset)
    /\ \E h \in RewindTruncations(target) :
         TruncateWallet(pri, h) /\ queue' = Rewound(queue, target, h)

RewindToChainState == \E target \in 0..top : RewindTo(target)

AddAccountAt(birthday) ==
  \E a \in Accounts :
    /\ Joins(pri, a, birthday)
    /\ \E h \in RewindTruncations(birthday - 1) :
         /\ TruncateWallet(pri, h)
         /\ LET rewound == Rewound(queue, birthday - 1, h)
            IN  queue' = IF birthday > SaplingActivation
                         THEN ReplaceQueueEntries(rewound, IgnoreBelow(birthday)) ELSE rewound

AddAccount == \E birthday \in 1..(MaxHeight + 1) : AddAccountAt(birthday)

LeaveAccount == DeleteAccount /\ UNCHANGED queue

QueueRescan ==
  \E s, e \in 1..(MaxHeight + 1) :
    RescanOf(pri, s, e) /\ queue' = ReplaceQueueEntries(queue, Rescan(s, e, Historic))

Prune ==
  \E h \in Heights \ {SaplingActivation}, retain \in Retains :
    PruneBelow(pri, h) /\ queue' = PruneScanQueue(queue, h, retain) /\ queue' # queue

Next ==
  \/ Chain \/ UpdateChainTip \/ ScanBlocks \/ Truncate \/ RewindToChainState
  \/ AddAccount \/ LeaveAccount \/ QueueRescan \/ Prune

Spec == Init /\ [][Next]_vars

-----------------------------------------------------------------------------
(* Properties *)

\* The rows are those of a queue: non-empty, with the ranges of known priority.
TypeOK ==
  /\ WalletTypeOK
  /\ \A r \in queue : r.start \in Heights /\ r.end \in (r.start + 1)..(MaxHeight + 1)
                      /\ r.pri \in Priorities

\* What fully_scanned_height rests on: rows do not overlap, and a contiguous run
\* of scanned blocks is a single row, however it was scanned, rewound or pruned.
ScannedRowsMaximal ==
  \A r, s \in queue : r # s =>
    /\ r.end <= s.start \/ s.end <= r.start
    /\ r.pri = Scanned /\ s.pri = Scanned => r.end # s.start

\* The rows and the tree implement the priorities, and so keep what these promise.
Abstract == INSTANCE ScanPriorities WITH pri <- PriorityOf(queue)
Refinement == Abstract!Spec

\* A wallet that is synced to the best tip holds blocks of one chain only.
SyncedToOneChain == Abstract!SyncedToOneChain

\* A block the wallet drops is queued again, or is above the tip the queue shows, or
\* below the target of a rewind that finds no checkpoint to truncate to.
DroppedIsRequeued == Abstract!DroppedIsRequeued
=============================================================================
