----------------------------- MODULE ScanWallet -----------------------------
(***************************************************************************)
(* What surrounds the scan queue: the chain, the wallet's blocks, accounts *)
(* and subtree roots, and for every operation its guard, its effect on     *)
(* these, and the edit of the queue it makes.  The operations are written  *)
(* against q, the priority the queue gives each height; how an edit is     *)
(* carried out is left to the modules that extend this one.                *)
(*                                                                         *)
(* `told` and `seen` are history: the chain tip the wallet was told, as    *)
(* far as no truncation has taken it back, and with which accounts' keys   *)
(* each block was last scanned.  Callers update the chain tip before they  *)
(* scan, which is the one use a guard makes of `told`.                     *)
(***************************************************************************)
EXTENDS ScanRanges, Sequences

CONSTANTS
  Accounts,      \* accounts the wallet may hold
  Pools,         \* shielded pools with a note commitment tree
  SubtreeEnds,   \* SubtreeEnds[p][i]: the block that completes subtree i of pool p
  RewindBy,      \* how far below a continuity error the sync loop rewinds
  Rescans,       \* the ranges callers ask to have rescanned, as <<start, end>>
  Retains,       \* what callers of prune_scan_queue_below retain, Unqueued for None
  Checkpointed,  \* whether every block has a shielded output, hence a checkpoint
  AheadAllowed,  \* whether an account may be born above the tip the wallet knows
  Bounds         \* bound on the number of events of each kind

\* A request is a truncation, a rewind or a rescan asked for by the user.
EventKinds == {"reorg", "account", "deletion", "request"}

ASSUME WalletAssumption ==
  /\ SubtreeEnds \in [Pools -> Seq(Heights)]
  /\ \A p \in Pools : \A i, j \in DOMAIN SubtreeEnds[p] :
       i < j => SubtreeEnds[p][i] < SubtreeEnds[p][j]
  /\ RewindBy \subseteq Nat \ {0}
  /\ Rescans \subseteq Heights \X (Heights \cup {MaxHeight + 1})
  /\ Retains \subseteq {Unqueued} \cup Priorities
  /\ Checkpointed \in BOOLEAN /\ AheadAllowed \in BOOLEAN
  /\ Bounds \in [EventKinds -> Nat]

VARIABLES
  blocks,  \* heights with a row in the blocks table
  stale,   \* those whose row is of a chain that has been reorganised away
  born,    \* birthday of each account, 0 for an account the wallet does not hold
  roots,   \* roots[p]: how many subtrees of p have a recorded end height
  top,     \* the height of the best chain
  told,    \* the tip the wallet was told
  seen,    \* seen[h]: the accounts block h was last scanned for
  events   \* how many events of each kind have happened

wallet == <<blocks, stale, born, roots, top, told, seen, events>>

WalletInit ==
  /\ blocks = {}
  /\ stale = {}
  /\ born = [a \in Accounts |-> 0]
  /\ roots = [p \in Pools |-> 0]
  /\ top \in Heights
  /\ told = 0
  /\ seen = [h \in Heights |-> {}]
  /\ events = [k \in EventKinds |-> 0]

WalletTypeOK ==
  /\ blocks \subseteq Heights /\ stale \subseteq blocks
  /\ born \in [Accounts -> 0..MaxHeight + 1]
  /\ roots \in [Pools -> Nat] /\ \A p \in Pools : roots[p] <= Len(SubtreeEnds[p])
  /\ top \in Heights /\ told \in 0..MaxHeight
  /\ seen \in [Heights -> SUBSET Accounts]
  /\ events \in [EventKinds -> Nat]

Event(k) == events[k] < Bounds[k] /\ events' = [events EXCEPT ![k] = @ + 1]

-----------------------------------------------------------------------------
(* Queries *)

MaxOf(s) == IF s = {} THEN 0 ELSE CHOOSE x \in s : \A y \in s : y <= x
MinOf(s) == IF s = {} THEN 0 ELSE CHOOSE x \in s : \A y \in s : x <= y

Held == {a \in Accounts : born[a] # 0}
WalletBirthday == MinOf({born[a] : a \in Held})
MaxScanned == MaxOf(blocks)

\* chain_tip_height: the end of the queue, 0 while it is empty.
KnownTip(q) == MaxOf({h \in Heights : q[h] # Unqueued})

\* What a caller scans of suggest_scan_ranges: a batch from the front of one of
\* the runs of heights of one priority.
Suggested(q) ==
  {r \in [start : Heights, end : 2..(MaxHeight + 1)] :
     /\ r.start < r.end /\ q[r.start] >= Historic
     /\ r.start > SaplingActivation => q[r.start - 1] # q[r.start]
     /\ \A h \in r.start..(r.end - 1) : q[h] = q[r.start]}

\* What the sync loop scans next: the last of the runs of the greatest priority.
Foremost(q) ==
  LET suggested == Suggested(q)
  IN  {r \in suggested : \A t \in suggested :
         \/ q[t.start] < q[r.start]
         \/ q[t.start] = q[r.start] /\ t.start <= r.start}

\* The greatest recorded subtree end of each pool that has one.
ShardTips == {SubtreeEnds[p][roots[p]] : p \in {p \in Pools : roots[p] > 0}}

-----------------------------------------------------------------------------
(* The chain *)

Mine ==
  /\ top < MaxHeight
  /\ top' = top + 1
  /\ UNCHANGED <<blocks, stale, born, roots, told, seen, events>>

\* Blocks above h are replaced; the new chain may be shorter for the moment.
Reorg ==
  /\ Event("reorg")
  /\ \E h \in Heights :
       /\ h < top
       /\ top' \in h..top
       /\ stale' = stale \cup {b \in blocks : b > h}
  /\ UNCHANGED <<blocks, born, roots, told, seen>>

\* put_*_subtree_roots records the end height of the next completed subtree.
PutSubtreeRoots ==
  /\ \E p \in Pools :
       /\ roots[p] < Len(SubtreeEnds[p])
       /\ SubtreeEnds[p][roots[p] + 1] <= top
       /\ roots' = [roots EXCEPT ![p] = @ + 1]
  /\ UNCHANGED <<blocks, stale, born, top, told, seen, events>>

-----------------------------------------------------------------------------
(* update_chain_tip *)

TipEdit == ChainTipUpdate(top, WalletBirthday, MaxScanned, ShardTips)

\* Below the greatest scanned block a reorg is under way, nothing is done.
LearnTip ==
  /\ UNCHANGED <<blocks, stale, born, roots, top, seen, events>>
  /\ told' = top
  /\ top >= MaxScanned
  /\ WellFormed(TipEdit)

-----------------------------------------------------------------------------
(* scan_cached_blocks and put_blocks *)

\* The subtrees of p (from 1) with leaves in the blocks s to e - 1.
SubtreesIn(p, s, e) ==
  {i \in 1..(Len(SubtreeEnds[p]) + 1) :
     /\ i > 1 => SubtreeEnds[p][i - 1] < e
     /\ i <= Len(SubtreeEnds[p]) => s <= SubtreeEnds[p][i]}

\* extend_range over all pools, found[p] the subtrees notes were found in.
ExtendedStart(found, s) ==
  LET start(p) == LET i == MinOf(found[p])
                  IN  IF i = 1 THEN {Greatest(WalletBirthday, SaplingActivation)}
                      ELSE IF i - 1 <= roots[p]
                           THEN {Greatest(WalletBirthday, SubtreeEnds[p][i - 1])} ELSE {}
  IN  MinOf({s} \cup UNION {start(p) : p \in {p \in Pools : found[p] # {}}})
ExtendedEnd(found, e) ==
  LET end(p) == LET i == MaxOf(found[p])
                IN  IF i <= roots[p] THEN {SubtreeEnds[p][i] + 1} ELSE {}
  IN  MaxOf({e} \cup UNION {end(p) : p \in {p \in Pools : found[p] # {}}})

\* Mutated form: the connection to the block below is not checked.
ConnectsAlways(r) ==
  /\ r.end - 1 <= top
  /\ \A h \in stale : h \notin r.start..(r.end - 1)

\* The blocks exist, connect to the stored block below them, and conflict with
\* no stored block (put_block).
Connects(r) ==
  /\ r.end - 1 <= top
  /\ r.start - 1 \notin stale
  /\ \A h \in stale : h \notin r.start..(r.end - 1)

ScanEdit(r, found) ==
  ScanComplete(r.start, r.end, ExtendedStart(found, r.start), ExtendedEnd(found, r.end))

\* The subtrees of each pool the notes found in r belong to.
Findings(r) ==
  {f \in [Pools -> SUBSET (1..(MaxHeight + 1))] :
     \A p \in Pools : f[p] \subseteq SubtreesIn(p, r.start, r.end) /\ (Held = {} => f[p] = {})}

\* The wallet-side effect of scanning r.
StoreBlocks(r) ==
  LET new == r.start..(r.end - 1)
  IN  /\ told # 0
      /\ UNCHANGED <<stale, born, roots, top, told, events>>
      /\ blocks' = blocks \cup new
      /\ seen' = [h \in Heights |-> IF h \in new THEN Held ELSE seen[h]]

-----------------------------------------------------------------------------
(* Truncation and rewinds *)

\* truncate_to_height_internal(h): what it leaves of the wallet.  Which subtree
\* ends above h survive depends on the checkpoints of their pool.
TruncateWallet(q, h) ==
  /\ blocks' = {b \in blocks : b <= h}
  /\ stale' = {b \in stale : b <= h}
  /\ seen' = [b \in Heights |-> IF b <= h THEN seen[b] ELSE {}]
  /\ roots' \in [Pools -> 0..MaxHeight]
  /\ \A p \in Pools :
       /\ roots'[p] <= roots[p]
       /\ \A i \in 1..roots[p] : SubtreeEnds[p][i] <= h \/ h >= MaxScanned => i <= roots'[p]
  /\ told' = Least(told, Least(h, KnownTip(q)))

\* scan_blocks of sync.rs: the blocks suggested first do not connect; the wallet
\* goes back to the greatest block it holds at or below the chosen height.
ReorgTargets(q) ==
  {MaxOf({b \in blocks : b <= r.start - by}) :
     r \in {r \in Foremost(q) : r.start <= top /\ r.start - 1 \in stale}, by \in RewindBy}
  \ {0}

\* rewind_to_chain_state truncates where the target is below what was scanned:
\* to the deepest checkpoint at or above the target and the pruning floor, or
\* to that floor if there is none.  MaxHeight stands for no truncation.
RewindTruncations(target) ==
  LET floor == Greatest(MaxScanned - (PruningDepth - 1), 0)
      above == {b \in blocks : b >= Greatest(target, floor)}
  IN  CASE target >= MaxScanned -> {MaxHeight}
        [] target < MaxScanned /\ Checkpointed -> {MinOf(above)}
        [] OTHER -> above \cup {floor}

\* The heights a caller may truncate to: truncate_to_height accepts a height it
\* holds a block of, truncate_to_chain_state any height.
ChosenTargets == 0..MaxHeight

\* A truncation chosen by the user is bounded, one the sync loop makes is not.
Truncation(q, h) ==
  /\ UNCHANGED <<born, top>>
  /\ h < KnownTip(q)
  /\ IF h \in ReorgTargets(q) THEN UNCHANGED events ELSE Event("request")

\* Mutated form: the rescan does not override what was scanned.
RewindEditUnforced(q, target) ==
  [Rescan(target + 1, KnownTip(q) + 1, Historic) EXCEPT !.force = FALSE]

\* Mutated form: the rescan starts one block late.
RewindEditLate(q, target) == Rescan(target + 2, KnownTip(q) + 1, Historic)

\* ... and it queues all blocks above the target up to the tip known before.
RewindEdit(q, target) == Rescan(target + 1, KnownTip(q) + 1, Historic)

\* RewindError::RewindBeyondBirthdays, when no account may be lowered.
WithinBirthdays(target, reset) == reset # {} \/ \E a \in Held : born[a] <= target + 1

Lowered(target, reset) ==
  [a \in Accounts |-> IF a \in reset THEN Least(born[a], target + 1) ELSE born[a]]

RewindAccounts(target, reset) ==
  /\ Event("request")
  /\ Held # {} /\ WithinBirthdays(target, reset)
  /\ born' = Lowered(target, reset)
  /\ UNCHANGED top

-----------------------------------------------------------------------------
(* Accounts *)

\* A new account: the chain state before its birthday is one of the chain.
Joins(q, a, birthday) ==
  /\ Event("account")
  /\ a \notin Held
  /\ birthday <= top + 1
  /\ AheadAllowed \/ birthday <= KnownTip(q) + 1 \/ (Held = {} /\ blocks = {})
  /\ born' = [born EXCEPT ![a] = birthday]
  /\ UNCHANGED top

\* delete_account leaves the scan queue alone; nothing seen for it remains.
DeleteAccount ==
  /\ Event("deletion")
  /\ \E a \in Held :
       /\ born' = [born EXCEPT ![a] = 0]
       /\ seen' = [h \in Heights |-> seen[h] \ {a}]
  /\ UNCHANGED <<blocks, stale, roots, top, told>>

-----------------------------------------------------------------------------
(* prune_scan_queue_below *)

\* retain is the priority to retain, Unqueued to retain nothing.
Retained(p, retain) == retain # Unqueued /\ (p \in {Ignored, Scanned} \/ p >= retain)

\* The queue after pruning below h.
Pruned(q, h, retain) ==
  [i \in Heights |->
     IF i >= h \/ q[i] = Unqueued \/ Retained(q[i], retain) THEN q[i]
     ELSE IF \E j \in Heights : j < i /\ q[j] # Unqueued /\ Retained(q[j], retain)
          THEN Ignored ELSE Unqueued]

\* Callers prune below the wallet's birthday, where there is nothing to find, and
\* not all of the queue.
PruneBelow(q, h) == UNCHANGED wallet /\ h <= WalletBirthday /\ h <= KnownTip(q)

-----------------------------------------------------------------------------
(* queue_rescan  *)

RescanOf(q, s, e) ==
  /\ <<s, e>> \in Rescans /\ s < e
  /\ Event("request") /\ e <= KnownTip(q) + 1
  /\ UNCHANGED <<blocks, stale, born, roots, top, told, seen>>

-----------------------------------------------------------------------------
(* Properties *)

\* A block counted as scanned is stored, and was scanned with the keys of every
\* account that may have received something in it: an account that joins late,
\* below what was scanned, has everything from its birthday scanned again.
ScannedForEveryAccount(q) ==
  \A h \in Heights : q[h] = Scanned =>
    /\ h \in blocks
    /\ \A a \in Held : born[a] <= h => a \in seen[h]

\* Once the wallet was told a tip, no height from its birthday to that tip is
\* left out: each is scanned or queued with a priority that gets it scanned
\* ("any gap ... will be filled by the scan range merging logic").
NothingForgotten(q) ==
  \A h \in Heights : Held # {} /\ WalletBirthday <= h /\ h <= told => q[h] >= Scanned

\* A wallet that counts every block from its birthday to the tip of the chain as
\* scanned, the tip itself being of the best chain, holds there no block of a
\* chain that was reorganised away, whatever the order the blocks came in.
OneChain(q) ==
  /\ Held # {} /\ top \notin stale
  /\ \A h \in WalletBirthday..top : q[h] = Scanned
  => stale \cap (WalletBirthday..top) = {}
=============================================================================
