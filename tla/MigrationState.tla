--------------------------- MODULE MigrationState ---------------------------
(***************************************************************************)
(* The persisted state of a ZIP 318 pool migration and the pure operations *)
(* on it (zcash_pool_migration/src/state.rs).  A migration is a set of     *)
(* pre-signed transactions: PREPARATIONS mint the funding notes that       *)
(* TRANSFERS move across the pool boundary.  The state is one record of    *)
(* functions over the transaction ids:                                     *)
(*                                                                         *)
(*   status   overall MigrationStatus                                      *)
(*   st       per-transaction MigrationTxState (without the Mined height)  *)
(*   mined    height carried by Mined, 0 otherwise                         *)
(*   mark     stamp of the unsatisfiability mark, 0 when unmarked          *)
(*   kind     UnsatisfiableKind beside the stamp, "None" when unmarked     *)
(*   report   tip of the standing broadcast-failure report, 0 when none    *)
(*   sched, expiry, bound   scheduled, expiry and anchor-boundary heights  *)
(*            (bound is 0 for a preparation, which draws none)             *)
(*                                                                         *)
(* Heights start at 1, so 0 is free to stand for "none"; an expiry of 0    *)
(* disables expiry, as in ZIP 203.                                         *)
(***************************************************************************)
EXTENDS Integers, FiniteSets, FiniteSetsExt

CONSTANTS
    Preparations,   \* ids of the preparation transactions (naturals)
    Transfers,      \* ids of the transfers (naturals)
    Deps,           \* Deps[t]: the ids t depends on
    CrossingValue,  \* CrossingValue[t]: the value a transfer moves, 0 for a preparation
    ReplanPercent,  \* the committed ReplanThreshold, in percent
    AnchorDepth,    \* PROVABLE_ANCHOR_DEPTH
    AnchorInterval  \* the committed anchor bucket interval, in blocks

Ids == Preparations \cup Transfers

ASSUME IdsAssumption ==
    /\ Preparations \subseteq Nat /\ Transfers \subseteq Nat
    /\ Preparations \cap Transfers = {}
    /\ IsFiniteSet(Preparations) /\ IsFiniteSet(Transfers)

\* Only preparations are depended on: a transfer is a leaf of the graph.
ASSUME DepsAssumption ==
    /\ Deps \in [Ids -> SUBSET Preparations]
    /\ \A t \in Ids : t \notin Deps[t]

ASSUME ParameterAssumption ==
    /\ CrossingValue \in [Ids -> Nat]
    /\ ReplanPercent \in 0..100
    /\ AnchorDepth \in Nat
    /\ AnchorInterval \in Nat \ {0}

TxStates == {"AwaitingSignature", "Signed", "Proved", "Broadcast", "Mined"}
Statuses == {"Planning", "Committed", "InProgress", "Complete", "Failed",
             "Superseded", "Cancelled"}
PolicyTerminal == {"Failed", "Superseded", "Cancelled"}
\* InputAbsent is an InputsSpent mark that prove_transfer or prove_preparation made
\* from the prover's failure to find an input.  The row does not tell the two apart and
\* no guard does; the model keeps them apart to say what each rests on.
Kinds == {"None", "InputsSpent", "InputAbsent", "AnchorInvalidated", "Inherited"}

Migrations ==
    [status : Statuses, st : [Ids -> TxStates], mined : [Ids -> Nat],
     mark : [Ids -> Nat], kind : [Ids -> Kinds], report : [Ids -> Nat],
     sched : [Ids -> Nat], expiry : [Ids -> Nat], bound : [Ids -> Nat]]

-----------------------------------------------------------------------------
(* Derived predicates.                                                     *)

IsTerminal(m) == m.status \in PolicyTerminal \cup {"Complete"}

IsMined(m, t) == m.st[t] = "Mined"

IsMarked(m, t) == m.mark[t] # 0

\* Built but never handed to a node: what a schedule shift or a cancel may touch.
IsPending(m, t) == m.st[t] \in {"AwaitingSignature", "Signed", "Proved"}

DepsMined(m, t) == \A d \in Deps[t] : IsMined(m, d)

\* Mutated form: expired already at the last height it can mine at.
IsExpiredEarly(m, t, target) ==
    ~IsMined(m, t) /\ m.expiry[t] # 0 /\ m.expiry[t] <= target

\* A transaction mines at or below its expiry height or not at all.
IsExpired(m, t, target) ==
    ~IsMined(m, t) /\ m.expiry[t] # 0 /\ m.expiry[t] < target

DeadSeeds(m, target) ==
    {t \in Ids : ~IsMined(m, t) /\ (IsMarked(m, t) \/ IsExpired(m, t, target))}

\* The least set that holds the seeds and every unmined dependent of a member.
DeadSet(m, target) ==
    {t \in Ids :
        \A S \in SUBSET Ids :
            (/\ DeadSeeds(m, target) \subseteq S
             /\ \A u \in Ids : ~IsMined(m, u) /\ Deps[u] \cap S # {} => u \in S)
            => t \in S}

Total(S) == MapThenSumSet(LAMBDA t : CrossingValue[t], S)

\* Strictly more than the committed share of the planned value is marked.
ReplanRequired(m) ==
    100 * Total({t \in Transfers : IsMarked(m, t) /\ ~IsMined(m, t)})
        > ReplanPercent * Total(Transfers)

-----------------------------------------------------------------------------
(* Mutators.  Each one is the whole method, the trailing status            *)
(* recomputation included.                                                 *)

RecomputeStatus(m) ==
    [m EXCEPT !.status =
        IF IsTerminal(m) THEN @
        ELSE IF Ids # {} /\ \A t \in Ids : IsMined(m, t) THEN "Complete"
        ELSE IF \E t \in Ids : m.st[t] \in {"Broadcast", "Mined"} THEN "InProgress"
        ELSE @]

MarkSuperseded(m) == [m EXCEPT !.status = IF IsTerminal(m) THEN @ ELSE "Superseded"]

MarkCancelled(m) == [m EXCEPT !.status = IF IsTerminal(m) THEN @ ELSE "Cancelled"]

MarkBroadcast(m, t) == RecomputeStatus([m EXCEPT !.st[t] = "Broadcast", !.mined[t] = 0])

\* mark_mined for every t with at[t] # 0: inclusion outranks every verdict.
MarkMined(m, at) ==
    LET S == {t \in Ids : at[t] # 0}
    IN  IF S = {} THEN m
        ELSE RecomputeStatus(
          [m EXCEPT !.st = [t \in Ids |-> IF t \in S THEN "Mined" ELSE @[t]],
                    !.mined = [t \in Ids |-> IF t \in S THEN at[t] ELSE @[t]],
                    !.mark = [t \in Ids |-> IF t \in S THEN 0 ELSE @[t]],
                    !.kind = [t \in Ids |-> IF t \in S THEN "None" ELSE @[t]],
                    !.report = [t \in Ids |-> IF t \in S THEN 0 ELSE @[t]]])

SetTransactionProved(m, t) == [m EXCEPT !.st[t] = "Proved", !.mined[t] = 0]

ApplySignature(m, t) == [m EXCEPT !.st[t] = "Signed"]

ReportBroadcastFailure(m, t, tip) ==
    IF m.st[t] = "Proved" THEN [m EXCEPT !.report[t] = tip] ELSE m

ClearBroadcastFailures(m, S) ==
    [m EXCEPT !.report = [t \in Ids |-> IF t \in S THEN 0 ELSE @[t]]]

\* Direct marks: the first observation wins, and a mined row is final.
MarkDirect(m, S, kindOf, asOf) ==
    LET new == {t \in S : ~IsMarked(m, t) /\ ~IsMined(m, t)}
    IN  [m EXCEPT !.mark = [t \in Ids |-> IF t \in new THEN asOf ELSE @[t]],
                  !.kind = [t \in Ids |-> IF t \in new THEN kindOf[t] ELSE @[t]]]

\* Mutated form: a producer past its expiry height counts as dead even when it mined.
DepStampsMinedToo(m, d, target) ==
    (IF IsMarked(m, d) THEN {m.mark[d]} ELSE {})
        \cup (IF m.expiry[d] # 0 /\ m.expiry[d] < target THEN {m.expiry[d]} ELSE {})

\* The stamps a direct dependency contributes to the durable closure.
DepStamps(m, d, target) ==
    IF IsMined(m, d) THEN {}
    ELSE (IF IsMarked(m, d) THEN {m.mark[d]} ELSE {})
           \cup (IF IsExpired(m, d, target) THEN {m.expiry[d]} ELSE {})

InheritStamps(m, t, target) == UNION {DepStamps(m, d, target) : d \in Deps[t]}

\* The rows one pass of the closure marks: unmined, unmarked, a dead direct dependency.
Inheritors(m, target) ==
    {t \in Ids : /\ ~IsMined(m, t) /\ ~IsMarked(m, t)
                 /\ InheritStamps(m, t, target) # {}}

\* One two-phase pass of record_satisfiability's closure.
InheritPass(m, target) ==
    LET new == Inheritors(m, target)
    IN  [m EXCEPT !.mark = [t \in Ids |-> IF t \in new THEN Min(InheritStamps(m, t, target)) ELSE @[t]],
                  !.kind = [t \in Ids |-> IF t \in new THEN "Inherited" ELSE @[t]]]

\* Mutated form: the marks that rest on rolled-back blocks survive.
TruncateKeepsMarks(m, h) ==
    LET demoted == {t \in Ids : IsMined(m, t) /\ m.mined[t] > h}
    IN  [m EXCEPT
          !.report = [t \in Ids |-> IF @[t] > h THEN 0 ELSE @[t]],
          !.st = [t \in Ids |-> IF t \in demoted THEN "Broadcast" ELSE @[t]],
          !.mined = [t \in Ids |-> IF t \in demoted THEN 0 ELSE @[t]],
          !.status = IF @ = "Complete" /\ \E t \in Ids : ~IsMined(m, t) \/ t \in demoted
                     THEN "InProgress" ELSE @]

\* Mutated form: Complete outlives the inclusions it was derived from.
TruncateKeepsComplete(m, h) ==
    LET demoted == {t \in Ids : IsMined(m, t) /\ m.mined[t] > h}
    IN  [m EXCEPT
          !.mark = [t \in Ids |-> IF @[t] > h THEN 0 ELSE @[t]],
          !.kind = [t \in Ids |-> IF m.mark[t] > h THEN "None" ELSE @[t]],
          !.report = [t \in Ids |-> IF @[t] > h THEN 0 ELSE @[t]],
          !.st = [t \in Ids |-> IF t \in demoted THEN "Broadcast" ELSE @[t]],
          !.mined = [t \in Ids |-> IF t \in demoted THEN 0 ELSE @[t]]]

\* Everything resting on chain state strictly above h is withdrawn.
TruncateToHeight(m, h) ==
    LET demoted == {t \in Ids : IsMined(m, t) /\ m.mined[t] > h}
    IN  [m EXCEPT
          !.mark = [t \in Ids |-> IF @[t] > h THEN 0 ELSE @[t]],
          !.kind = [t \in Ids |-> IF m.mark[t] > h THEN "None" ELSE @[t]],
          !.report = [t \in Ids |-> IF @[t] > h THEN 0 ELSE @[t]],
          !.st = [t \in Ids |-> IF t \in demoted THEN "Broadcast" ELSE @[t]],
          !.mined = [t \in Ids |-> IF t \in demoted THEN 0 ELSE @[t]],
          !.status = IF @ = "Complete" /\ \E t \in Ids : ~IsMined(m, t) \/ t \in demoted
                     THEN "InProgress" ELSE @]

-----------------------------------------------------------------------------
(* Anchor boundaries: multiples of the bucket interval.                    *)

BoundaryBelow(h) == (h \div AnchorInterval) * AnchorInterval

\* The boundaries draw_anchor_boundary may return: at or above the funding note,
\* and at least one whole interval below the most recent boundary at tip.
DrawableBoundaries(funding, tip) ==
    {b \in 1..(BoundaryBelow(tip) - AnchorInterval) :
        b % AnchorInterval = 0 /\ b >= funding}

\* redraw_anchor_boundary: the prior boundary is kept when nothing can be drawn.
RedrawnBoundaries(prior, sched) ==
    LET fresh == DrawableBoundaries(prior, sched)
    IN  IF fresh = {} THEN {prior} ELSE fresh

\* Mutated form: the lag is taken off the schedule instead of being added.
ShiftScheduleBack(m, delta) ==
    {[m EXCEPT !.sched = [t \in Ids |-> IF IsPending(m, t) THEN @[t] - delta ELSE @[t]]]}

\* Mutated form: the shifted schedule is not kept.
ShiftScheduleUnkept(m, delta) == {m}

\* The states shift_schedule(delta) can leave, one per way to redraw the boundaries.
ShiftSchedule(m, delta) ==
    LET pending == {t \in Ids : IsPending(m, t)}
        redrawn == {t \in pending \cap Transfers : m.st[t] # "Proved"}
        sched == [t \in Ids |-> IF t \in pending THEN m.sched[t] + delta ELSE m.sched[t]]
        bounds == {b \in [Ids -> {m.bound[t] : t \in Ids}
                                  \cup UNION {RedrawnBoundaries(m.bound[t], sched[t]) : t \in redrawn}] :
                     \A t \in Ids : b[t] \in IF t \in redrawn
                                             THEN RedrawnBoundaries(m.bound[t], sched[t])
                                             ELSE {m.bound[t]}}
    IN  {[m EXCEPT !.sched = sched, !.bound = b] : b \in bounds}

-----------------------------------------------------------------------------
(* The planning kernel.  tg.scan is the target the wallet's own chain data *)
(* supports, tg.eff the target the schedule is served at.                  *)

Steps == {"None", "Broadcast", "Replan", "Prove", "Rebuild", "Complete",
          "Waiting", "Reevaluate"}

Step(k, S) == [kind |-> k, txs |-> S]

ProveReady(m, t, tg) ==
    /\ ~IsExpired(m, t, tg.eff)
    /\ DepsMined(m, t)
    /\ IF t \in Transfers THEN m.bound[t] + AnchorDepth < tg.scan
                          ELSE m.sched[t] <= tg.eff

Provable(m, tg, dead, aside) ==
    {t \in Ids \ (dead \cup aside) : m.st[t] = "Signed" /\ ProveReady(m, t, tg)}

\* Mutated form: a proof alone makes a transaction ready.
BroadcastableUnfunded(m, tg, dead, aside) ==
    {t \in Ids \ (dead \cup aside) :
        m.st[t] = "Proved" /\ m.sched[t] <= tg.eff /\ m.report[t] = 0
            /\ ~IsExpired(m, t, tg.eff)}

Broadcastable(m, tg, dead, aside) ==
    {t \in Ids \ (dead \cup aside) :
        /\ m.st[t] = "Proved"
        /\ m.sched[t] <= tg.eff
        /\ m.report[t] = 0
        /\ DepsMined(m, t)
        /\ ~IsExpired(m, t, tg.eff)}

Rebuildable(m, tg, dead, aside) ==
    {t \in Transfers \ aside :
        IsExpired(m, t, tg.scan) /\ ~IsMarked(m, t) /\ Deps[t] \cap dead = {}}

\* The longest-scheduled member of a queue, ties broken by id.
EarliestScheduled(m, S) ==
    CHOOSE t \in S : \A u \in S :
        m.sched[t] < m.sched[u] \/ (m.sched[t] = m.sched[u] /\ t <= u)

\* Dead value is all that remains and nothing was deferred in this call.
LateReplan(m, dead, aside) ==
    /\ dead # {} /\ aside = {}
    /\ \A t \in Ids : IsMined(m, t) \/ t \in dead

\* next_step: broadcast, replan past the threshold, prove, rebuild, replan what is left.
NextStep(m, tg, aside) ==
    LET dead == DeadSet(m, tg.scan)
        broadcastable == Broadcastable(m, tg, dead, aside)
        provable == Provable(m, tg, dead, aside)
        rebuildable == Rebuildable(m, tg, dead, aside)
    IN  IF IsTerminal(m) THEN Step("Complete", {})
        ELSE IF broadcastable # {} THEN Step("Broadcast", {EarliestScheduled(m, broadcastable)})
        ELSE IF ReplanRequired(m) THEN Step("Replan", {})
        ELSE IF provable # {} THEN Step("Prove", provable)
        ELSE IF rebuildable # {} THEN Step("Rebuild", {EarliestScheduled(m, rebuildable)})
        ELSE IF LateReplan(m, dead, aside) THEN Step("Replan", {})
        ELSE IF Ids # {} /\ \A t \in Ids : IsMined(m, t) THEN Step("Complete", {})
        ELSE Step("Waiting", {})
=============================================================================
