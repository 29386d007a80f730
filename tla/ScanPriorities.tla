--------------------------- MODULE ScanPriorities ---------------------------
(***************************************************************************)
(* What the scan queue promises: every height has one priority, or is not  *)
(* queued, and an operation changes the priorities by three rules only.    *)
(*   - Inserting a range gives its priority to the heights that were not   *)
(*     queued and to those where it dominates.                             *)
(*   - What lies between the inserted ranges and the ranges they meet or   *)
(*     touch is Historic if it was not queued.                             *)
(*   - Trimming and pruning drop heights above and below a height.         *)
(* ScanQueue, with its rows and its spanning tree, implements this.        *)
(***************************************************************************)
EXTENDS ScanWallet

VARIABLE pri   \* the priority of each height

vars == <<pri, wallet>>

-----------------------------------------------------------------------------
(* The rules *)

\* The heights queued within one block of the queried range.
Met(q, e) == {h \in (e.start - 1)..e.end \cap Heights : q[h] # Unqueued}

\* The heights the first i inserted ranges span with those they met.
Spanned(q, e, i) ==
  LET ranges == {e.entries[j] : j \in 1..i} \ {None}
  IN  MinOf(Met(q, e) \cup {r.start : r \in ranges})
        ..(MaxOf({h + 1 : h \in Met(q, e)} \cup {r.end : r \in ranges}) - 1)

\* The priority of height h, v before, after r is inserted.
Inserted(h, v, r, spanned, force) ==
  CASE h \in r.start..(r.end - 1) /\ (v = Unqueued \/ Prevails(r.pri, v, force)) -> r.pri
    [] ~(h \in r.start..(r.end - 1)) /\ v = Unqueued /\ h \in spanned -> Historic
    [] OTHER -> v

\* The priorities after edit e.
Merged(q, e) ==
  LET spanned == [i \in 0..3 |-> Spanned(q, e, i)]
  IN  [h \in Heights |->
         LET v0 == IF q[h] = Unqueued /\ h \in spanned[0] THEN Historic ELSE q[h]
             v1 == Inserted(h, v0, e.entries[1], spanned[1], e.force)
             v2 == Inserted(h, v1, e.entries[2], spanned[2], e.force)
         IN  Inserted(h, v2, e.entries[3], spanned[3], e.force)]

Trimmed(q, h) == [i \in Heights |-> IF i <= h THEN q[i] ELSE Unqueued]

Rewound(q, target, h) ==
  IF target < KnownTip(q) THEN Merged(Trimmed(q, h), RewindEdit(q, target)) ELSE Trimmed(q, h)

-----------------------------------------------------------------------------
(* Actions *)

Init == WalletInit /\ pri = [h \in Heights |-> Unqueued]

Chain == (Mine \/ Reorg \/ PutSubtreeRoots) /\ UNCHANGED pri

UpdateChainTip == LearnTip /\ pri' = Merged(pri, TipEdit)

ScanBlocks ==
  \E r \in Suggested(pri) :
    /\ StoreBlocks(r) /\ Connects(r)
    /\ \E found \in Findings(r) : pri' = Merged(pri, ScanEdit(r, found))

Truncate ==
  \E h \in ReorgTargets(pri) \cup ChosenTargets :
    TruncateWallet(pri, h) /\ Truncation(pri, h) /\ pri' = Trimmed(pri, h)

RewindTo(target) ==
  \E reset \in SUBSET Held :
    /\ RewindAccounts(target, reset)
    /\ \E h \in RewindTruncations(target) :
         TruncateWallet(pri, h) /\ pri' = Rewound(pri, target, h)

RewindToChainState == \E target \in 0..top : RewindTo(target)

AddAccountAt(birthday) ==
  \E a \in Accounts :
    /\ Joins(pri, a, birthday)
    /\ \E h \in RewindTruncations(birthday - 1) :
         /\ TruncateWallet(pri, h)
         /\ LET rewound == Rewound(pri, birthday - 1, h)
            IN  pri' = IF birthday > SaplingActivation
                         THEN Merged(rewound, IgnoreBelow(birthday)) ELSE rewound

AddAccount == \E birthday \in 1..(MaxHeight + 1) : AddAccountAt(birthday)

LeaveAccount == DeleteAccount /\ UNCHANGED pri

QueueRescan ==
  \E s, e \in 1..(MaxHeight + 1) :
    RescanOf(pri, s, e) /\ pri' = Merged(pri, Rescan(s, e, Historic))

Prune ==
  \E h \in Heights \ {SaplingActivation}, retain \in Retains :
    PruneBelow(pri, h) /\ pri' = Pruned(pri, h, retain) /\ pri' # pri

Next ==
  \/ Chain \/ UpdateChainTip \/ ScanBlocks \/ Truncate \/ RewindToChainState
  \/ AddAccount \/ LeaveAccount \/ QueueRescan \/ Prune

Spec == Init /\ [][Next]_vars

-----------------------------------------------------------------------------
(* Properties *)

\* The wallet's types, and one known priority for every queued height.
TypeOK == WalletTypeOK /\ pri \in [Heights -> {Unqueued} \cup Priorities]

\* A block counted as scanned is stored and was scanned for every account born by then.
AllAccountsScanned == ScannedForEveryAccount(pri)
\* No height from the wallet's birthday to the tip it was told is left out.
NoGapForgotten == NothingForgotten(pri)
\* A wallet that is synced to the best tip holds blocks of one chain only.
SyncedToOneChain == OneChain(pri)

\* A block the wallet drops is queued again, or is above the tip the queue shows.  Where
\* no checkpoint is left from its target up, a rewind drops blocks below the target as
\* well: those alone it does not queue again, whatever its comment says
\* (wallet.rs:4978: it "re-queues the blocks above the truncation floor").
DroppedIsRequeued ==
  [][\A h \in blocks \ blocks' :
       \/ pri'[h] >= Historic \/ h > KnownTip(pri')
       \/ \E target \in Heights : h <= target /\ (RewindTo(target) \/ AddAccountAt(target + 1))]_vars
=============================================================================
