--------------------------- MODULE MigrationDrive ---------------------------
(***************************************************************************)
(* Driving a ZIP 318 pool migration against a scanning wallet.             *)
(*                                                                         *)
(* A consumer loads the stored migration, calls advance_migration          *)
(* (zcash_pool_migration/src/satisfiability.rs), which sweeps the in-flight *)
(* transactions, adjudicates broadcast-failure reports, plans and verifies *)
(* a step and persists what it learned; the consumer then serves the step  *)
(* (prove, take and submit, rebuild, supersede) and persists the outcome.  *)
(* The store answers from the wallet database                              *)
(* (zcash_client_sqlite/src/pool_migration), whose view of the chain moves *)
(* with scanning and is rolled back by a reorg.  Blocks are scanned out of *)
(* order: the satisfiability oracle and mined_height answer as of the      *)
(* fully scanned height, note selection as of the known tip.               *)
(*                                                                         *)
(* The consumer is a process with a program counter; `store' is the        *)
(* persisted row and `mem' the consumer's copy.  ScanPoints,               *)
(* TruncatePoints and CancelPoints say at which of its control points      *)
(* another thread of the wallet may scan, truncate or cancel.              *)
(***************************************************************************)
EXTENDS MigrationState

CONSTANTS
    InitSched, InitExpiry, InitBound,  \* the committed schedule
    InitStates,       \* states a committed transaction may start in (signing mode)
    Contested,        \* ids whose inputs another wallet of the same seed may spend
    Payable,          \* ids whose inputs the user may spend in an ordinary payment
    PaymentExpiry,    \* until when the wallet takes an unmined spend of either for live
    Tolerance,        \* overdue_shift_tolerance of the committed schedule
    SettleDepth,      \* ReorgSettleDepth
    RebuildDelays,    \* delays a rebuild may draw
    ExpiryWindow,     \* expiry of a rebuilt transfer, past its schedule
    MaxHeight,        \* bound: highest block
    MaxLead,          \* bound: how far the estimate and a rejecting node run ahead
    MaxAhead,         \* bound: blocks scanned above the fully scanned height
    MaxReorgs,        \* bound: wallet truncations
    MaxCrashes,       \* bound: consumer deaths
    ScanPoints, TruncatePoints, CancelPoints

PCs == {"idle", "sweep", "swept", "report", "closing", "plan", "persist", "serve", "submit"}

ASSUME DriveAssumption ==
    /\ InitSched \in [Ids -> Nat] /\ InitExpiry \in [Ids -> Nat] /\ InitBound \in [Ids -> Nat]
    /\ InitStates \subseteq {"AwaitingSignature", "Signed"}
    /\ Contested \subseteq Ids /\ Payable \subseteq Ids /\ PaymentExpiry \in Nat
    /\ Tolerance \in Nat \ {0} /\ SettleDepth \in Nat /\ ExpiryWindow \in Nat
    /\ RebuildDelays \subseteq Nat
    /\ MaxHeight \in Nat \ {0} /\ MaxLead \in Nat /\ MaxAhead \in Nat
    /\ MaxReorgs \in Nat /\ MaxCrashes \in Nat
    /\ ScanPoints \subseteq PCs /\ TruncatePoints \subseteq PCs /\ CancelPoints \subseteq PCs

VARIABLES
    store,      \* the persisted migration
    mem,        \* the consumer's copy (equal to store at idle)
    pc,         \* the consumer's control point
    ret,        \* where the durable closure returns to
    closeAt,    \* the target the closure judges expiry at
    tgt,        \* DuenessTargets of the running advance
    aside,      \* its call-local deferrals
    asked,      \* its mined_height answers, 0 for "not mined"
    dirty,      \* whether it has recorded anything
    step,       \* the step it surfaces
    scanned,    \* fully scanned height of the wallet
    chMined,    \* height up to there at which t is mined, 0 if it is not
    chSpent,    \* height up to there at which another transaction spends t's inputs
    ahead,      \* the blocks scanned above it, and the spends of inputs they show
    taken,      \* transactions handed out for broadcast: they may mine
    linked,     \* transactions whose outputs' nullifiers a scan has derived
    rival,      \* expiry of an unmined transaction the wallet holds that spends t's
                \* inputs too, 0 if there is none
    displaced,  \* proved transfers whose anchor the scanned chain no longer has
    reorgs, crashes

session == <<ret, closeAt, tgt, aside, asked, dirty, step>>
chain == <<scanned, chMined, chSpent, ahead, taken, linked, rival, displaced>>
vars == <<store, mem, pc, session, chain, reorgs, crashes>>

Zero == [t \in Ids |-> 0]

NoStep == Step("None", {})

\* The consumer lets go of its copy.
Release ==
    /\ pc' = "idle" /\ ret' = "idle" /\ closeAt' = 0
    /\ tgt' = [scan |-> 0, eff |-> 0]
    /\ aside' = {} /\ asked' = Zero /\ dirty' = FALSE /\ step' = NoStep

Init ==
    /\ \E st \in [Ids -> InitStates] :
        store = [status |-> "Committed", st |-> st, mined |-> Zero, mark |-> Zero,
                 kind |-> [t \in Ids |-> "None"], report |-> Zero,
                 sched |-> InitSched, expiry |-> InitExpiry, bound |-> InitBound]
    /\ mem = store
    /\ pc = "idle" /\ ret = "idle" /\ closeAt = 0
    /\ tgt = [scan |-> 0, eff |-> 0]
    /\ aside = {} /\ asked = Zero /\ dirty = FALSE /\ step = NoStep
    /\ scanned = 1 /\ chMined = Zero /\ chSpent = Zero
    /\ ahead = [heights |-> {}, spent |-> Zero]
    /\ taken = {} /\ linked = {} /\ rival = Zero /\ displaced = {}
    /\ reorgs = 0 /\ crashes = 0

-----------------------------------------------------------------------------
(* The wallet's answers.                                                   *)

\* The nullifiers of t are known once a scan has seen everything that mints its
\* inputs; a truncation keeps the notes it un-mines.
InputsKnown(t) == Deps[t] \subseteq linked

\* The height the wallet's scan queue ends at.
Tip == Max({scanned} \cup ahead.heights)

\* Any mined transaction that reveals the nullifier, t itself included.
SeenSpent(t) == chSpent[t] # 0 \/ chMined[t] # 0

\* The settled, exhaustive anchor judgment, made of broadcast transfers only.
AnchorDisplaced(m, t) ==
    /\ m.st[t] = "Broadcast" /\ t \in Transfers /\ t \in displaced
    /\ m.bound[t] <= scanned /\ scanned - m.bound[t] >= SettleDepth

\* check_step_satisfiability, as of the fully scanned height.
Answer(m, t) ==
    CASE SeenSpent(t) -> "InputsSpent"
      [] ~SeenSpent(t) /\ IsExpired(m, t, scanned + 1) -> "Expired"
      [] ~SeenSpent(t) /\ ~IsExpired(m, t, scanned + 1) /\ AnchorDisplaced(m, t) -> "AnchorInvalidated"
      [] OTHER -> IF InputsKnown(t) THEN "Satisfiable" ELSE "NotYetSatisfiable"

RecordsADetermination(m, t) == Answer(m, t) \in {"InputsSpent", "AnchorInvalidated"}

\* select_unspent_notes at the known tip: a spend in any scanned block takes the inputs
\* out of the set, and so does an unmined transaction until it expires.
NoteAvailable(t) ==
    /\ ~SeenSpent(t) /\ ahead.spent[t] = 0
    /\ rival[t] <= Tip
    /\ \A d \in Deps[t] : chMined[d] # 0

Causes(m) == [t \in Ids |-> Answer(m, t)]

\* broaden_after_discovery: every other pending transaction the same event killed.
Broadened(m, found) ==
    found \cup {t \in Ids : /\ IsPending(m, t) /\ ~IsMarked(m, t) /\ DepsMined(m, t)
                            /\ RecordsADetermination(m, t)}

-----------------------------------------------------------------------------
(* advance_migration.                                                      *)

\* Mutated form: the latest row is loaded, terminal or not.
BeginAdvanceAnyRow ==
    /\ pc = "idle"
    /\ \E lead \in 0..MaxLead : tgt' = [scan |-> scanned + 1, eff |-> scanned + 1 + lead]
    /\ pc' = "sweep"
    /\ UNCHANGED <<store, mem, ret, closeAt, aside, asked, dirty, step, chain, reorgs, crashes>>

\* The consumer loads the pending row and calls advance_migration.
BeginAdvance ==
    /\ pc = "idle" /\ ~IsTerminal(store)
    /\ \E lead \in 0..MaxLead : tgt' = [scan |-> scanned + 1, eff |-> scanned + 1 + lead]
    /\ pc' = "sweep"
    /\ UNCHANGED <<store, mem, ret, closeAt, aside, asked, dirty, step, chain, reorgs, crashes>>

\* Mutated form: only rows recorded as broadcast are asked after.
SweepMinedBroadcastOnly ==
    /\ pc = "sweep"
    /\ asked' = [t \in Ids |-> IF mem.st[t] = "Broadcast" THEN chMined[t] ELSE 0]
    /\ pc' = "swept"
    /\ UNCHANGED <<store, mem, ret, closeAt, tgt, aside, dirty, step, chain, reorgs, crashes>>

\* mined_height of every row that could be on chain.
SweepMined ==
    /\ pc = "sweep"
    /\ asked' = [t \in Ids |-> IF mem.st[t] \in {"Broadcast", "Proved"} THEN chMined[t] ELSE 0]
    /\ pc' = "swept"
    /\ UNCHANGED <<store, mem, ret, closeAt, tgt, aside, dirty, step, chain, reorgs, crashes>>

\* Viability of the broadcast rows the first question did not settle; promotions
\* are applied before determinations.
SweepOracle ==
    LET findings == {t \in Ids : /\ mem.st[t] = "Broadcast" /\ asked[t] = 0
                                 /\ ~IsMarked(mem, t) /\ RecordsADetermination(mem, t)}
        promoted == MarkMined(mem, asked)
    IN  /\ pc = "swept"
        /\ mem' = MarkDirect(promoted, findings, Causes(mem), scanned)
        /\ dirty' = (findings # {} \/ asked # Zero)
        /\ asked' = Zero
        /\ IF findings = {} THEN pc' = "report" /\ UNCHANGED <<ret, closeAt>>
                            ELSE pc' = "closing" /\ ret' = "report" /\ closeAt' = tgt.scan
        /\ UNCHANGED <<store, tgt, aside, step, chain, reorgs, crashes>>

\* Mutated form: one pass over the rows instead of a fixpoint.
ClosePassOnce ==
    /\ pc = "closing"
    /\ mem' = InheritPass(mem, closeAt)
    /\ pc' = ret /\ ret' = "idle" /\ closeAt' = 0
    /\ UNCHANGED <<store, tgt, aside, asked, dirty, step, chain, reorgs, crashes>>

\* The fixpoint loop of record_satisfiability.
ClosePass ==
    /\ pc = "closing"
    /\ IF Inheritors(mem, closeAt) # {}
       THEN mem' = InheritPass(mem, closeAt) /\ UNCHANGED <<pc, ret, closeAt>>
       ELSE pc' = ret /\ ret' = "idle" /\ closeAt' = 0 /\ UNCHANGED mem
    /\ UNCHANGED <<store, tgt, aside, asked, dirty, step, chain, reorgs, crashes>>

\* Mutated form: only a verdict discharges a report, a transient refusal stands.
AdjudicateKeepsTransient ==
    LET reported == {t \in Ids : ~IsTerminal(mem) /\ mem.report[t] # 0}
        verdicts == {t \in reported : mem.report[t] <= scanned /\ RecordsADetermination(mem, t)}
    IN  /\ pc = "report"
        /\ mem' = ClearBroadcastFailures(MarkDirect(mem, verdicts, Causes(mem), scanned), verdicts)
        /\ dirty' = (dirty \/ verdicts # {})
        /\ pc' = "plan" /\ step' = NoStep
        /\ UNCHANGED <<store, ret, closeAt, tgt, aside, asked, chain, reorgs, crashes>>

\* A report is testimony: nothing follows from it until the scan covers its tip.
Adjudicate ==
    LET reported == {t \in Ids : ~IsTerminal(mem) /\ mem.report[t] # 0}
        ripe == {t \in reported : mem.report[t] <= scanned}
        verdicts == {t \in ripe : RecordsADetermination(mem, t)}
        found == IF verdicts = {} THEN {} ELSE Broadened(mem, verdicts)
        next == IF ripe # reported THEN "persist" ELSE "plan"
    IN  /\ pc = "report"
        /\ mem' = ClearBroadcastFailures(MarkDirect(mem, found, Causes(mem), scanned), ripe)
        /\ dirty' = (dirty \/ ripe # {})
        /\ step' = IF ripe # reported THEN Step("Reevaluate", {}) ELSE NoStep
        /\ IF found = {} THEN pc' = next /\ UNCHANGED <<ret, closeAt>>
                         ELSE pc' = "closing" /\ ret' = next /\ closeAt' = tgt.scan
        /\ UNCHANGED <<store, tgt, aside, asked, chain, reorgs, crashes>>

\* Since when a candidate of step s counts as overdue.
OverdueFrom(m, s, t) ==
    IF s.kind = "Prove" /\ t \in Transfers
    THEN Max({m.sched[t], m.bound[t] + AnchorDepth + 1})
    ELSE m.sched[t]

\* The schedule of the most overdue candidate: least overdue_from, then least schedule.
MostOverdue(m, s) ==
    LET from == Min({OverdueFrom(m, s, t) : t \in s.txs})
    IN  [from |-> from,
         sched |-> Min({m.sched[t] : t \in {u \in s.txs : OverdueFrom(m, s, u) = from}})]

\* Mutated form: only proving triggers the shift.
NeedsShiftToProve(m, s, eff) ==
    s.kind = "Prove" /\ MostOverdue(m, s).from + Tolerance < eff

NeedsShift(m, s, eff) ==
    /\ s.kind \in {"Prove", "Broadcast"}
    /\ MostOverdue(m, s).from + Tolerance < eff

\* The kernel names no transaction: nothing to verify.
PlanSettle ==
    LET s == NextStep(mem, tgt, aside)
    IN  /\ pc = "plan" /\ s.txs = {}
        /\ step' = s /\ pc' = "persist"
        /\ UNCHANGED <<store, mem, ret, closeAt, tgt, aside, asked, dirty, chain, reorgs, crashes>>

\* The missed-schedule policy: every pending transaction moves by the lag.
PlanShift ==
    LET s == NextStep(mem, tgt, aside)
    IN  /\ pc = "plan" /\ s.txs # {} /\ NeedsShift(mem, s, tgt.eff)
        /\ mem' \in ShiftSchedule(mem, tgt.eff - MostOverdue(mem, s).sched)
        /\ dirty' = TRUE
        /\ UNCHANGED <<store, pc, ret, closeAt, tgt, aside, asked, step, chain, reorgs, crashes>>

\* Every candidate is put to the oracle; deferrals are set aside, discoveries
\* recorded, and the step surfaced once what is left of it stands.
PlanVerify ==
    LET s == NextStep(mem, tgt, aside)
        deferred == {t \in s.txs : Answer(mem, t) = "NotYetSatisfiable"}
        found == {t \in s.txs : RecordsADetermination(mem, t)}
        kept == s.txs \ (deferred \cup found)
    IN  /\ pc = "plan" /\ s.txs # {} /\ ~NeedsShift(mem, s, tgt.eff)
        /\ aside' = aside \cup deferred
        /\ \/ /\ found # {}
              /\ mem' = MarkDirect(mem, Broadened(mem, found), Causes(mem), scanned)
              /\ dirty' = TRUE
              /\ pc' = "closing" /\ ret' = "plan" /\ closeAt' = tgt.scan
              /\ UNCHANGED step
           \/ /\ found = {} /\ (deferred = {} \/ (s.kind = "Prove" /\ kept # {}))
              /\ step' = [s EXCEPT !.txs = kept]
              /\ pc' = "persist"
              /\ UNCHANGED <<mem, dirty, ret, closeAt>>
           \/ /\ found = {} /\ deferred # {} /\ (s.kind # "Prove" \/ kept = {})
              /\ UNCHANGED <<mem, dirty, pc, ret, closeAt, step>>
        /\ UNCHANGED <<store, tgt, asked, chain, reorgs, crashes>>

\* What was recorded is durable before the step is surfaced.
Persist ==
    /\ pc = "persist"
    /\ store' = IF dirty THEN mem ELSE store
    /\ IF step.kind \in {"Prove", "Broadcast", "Rebuild", "Replan"}
       THEN /\ pc' = "serve" /\ dirty' = FALSE
            /\ UNCHANGED <<mem, ret, closeAt, tgt, aside, asked, step>>
       ELSE Release /\ mem' = store'
    /\ UNCHANGED <<chain, reorgs, crashes>>

-----------------------------------------------------------------------------
(* The consumer serves the step.                                           *)

\* The consumer persists m and, with nothing left of the step, lets go.
Store(m, rest) ==
    /\ store' = m /\ mem' = m
    /\ IF rest = {} THEN Release
       ELSE /\ step' = [step EXCEPT !.txs = rest]
            /\ UNCHANGED <<pc, ret, closeAt, tgt, aside, asked, dirty>>

Serving(k, t) == pc = "serve" /\ step.kind = k /\ t \in step.txs

Funding(m, t) == {m.mined[d] : d \in {e \in Deps[t] : IsMined(m, e)}}

\* Mutated form: the boundary drawn at commit is used whatever the funding height.
ProveBoundariesAsDrawn(m, t) == IF t \in Transfers THEN {m.bound[t]} ELSE {0}

\* The boundaries prove_transfer may prove against: a funding note mined above
\* the drawn boundary is not in that tree state, so another is drawn.
ProveBoundaries(m, t) ==
    IF t \in Transfers /\ \E h \in Funding(m, t) : h > m.bound[t]
    THEN DrawableBoundaries(Max(Funding(m, t)), scanned)
    ELSE {m.bound[t]}

\* prove_transfer or prove_preparation, then store_proved_transaction.
Prove(t) ==
    /\ Serving("Prove", t) /\ mem.st[t] = "Signed" /\ NoteAvailable(t)
    /\ \E b \in ProveBoundaries(mem, t) :
        Store(SetTransactionProved([mem EXCEPT !.bound[t] = b], t), step.txs \ {t})
    /\ UNCHANGED <<chain, reorgs, crashes>>

\* Nothing to draw, or an input missing whose producers the scan does not cover.
ProveNotYet(t) ==
    /\ Serving("Prove", t) /\ mem.st[t] = "Signed"
    /\ \/ ProveBoundaries(mem, t) = {}
       \/ ~NoteAvailable(t) /\ \E d \in Deps[t] : mem.mined[d] \notin 1..scanned
    /\ IF step.txs = {t} THEN Release /\ mem' = store
       ELSE /\ step' = [step EXCEPT !.txs = @ \ {t}]
            /\ UNCHANGED <<mem, pc, ret, closeAt, tgt, aside, asked, dirty>>
    /\ UNCHANGED <<store, chain, reorgs, crashes>>

\* interpret_input_not_available: with every producer scanned past, absence from the
\* unspent set at the tip is recorded as a spend as of the fully scanned height, and
\* the closure runs at as_of + 1.
ProveInputNotAvailable(t) ==
    /\ Serving("Prove", t) /\ mem.st[t] = "Signed" /\ ~NoteAvailable(t)
    /\ \A d \in Deps[t] : mem.mined[d] \in 1..scanned
    /\ \E b \in ProveBoundaries(mem, t) :
        mem' = MarkDirect([mem EXCEPT !.bound[t] = b], {t},
                          [u \in Ids |-> "InputAbsent"], scanned)
    /\ pc' = "closing" /\ ret' = "persist" /\ closeAt' = scanned + 1
    /\ step' = NoStep /\ dirty' = TRUE
    /\ UNCHANGED <<store, tgt, aside, asked, chain, reorgs, crashes>>

\* take_transaction_for_broadcast: the wallet record binds at the attempt.
TakeForBroadcast(t) ==
    /\ Serving("Broadcast", t) /\ mem.st[t] = "Proved"
    /\ taken' = taken \cup {t}
    /\ store' = mem /\ pc' = "submit"
    /\ UNCHANGED <<mem, session, scanned, chMined, chSpent, ahead, linked, rival, displaced, reorgs, crashes>>

SubmitAccepted ==
    /\ pc = "submit"
    /\ \E t \in step.txs : Store(MarkBroadcast(mem, t), {})
    /\ UNCHANGED <<chain, reorgs, crashes>>

\* A node refuses at a tip the wallet may not have scanned.
SubmitRejected ==
    /\ pc = "submit"
    /\ \E t \in step.txs, lead \in 0..MaxLead :
        /\ scanned + lead <= MaxHeight
        /\ Store(ReportBroadcastFailure(mem, t, scanned + lead), {})
    /\ UNCHANGED <<chain, reorgs, crashes>>

\* The end of the pending transfer schedule, clamped below by the target.
RebuildBase(m, target) ==
    Max({target} \cup {m.sched[u] : u \in {v \in Transfers : ~IsMined(m, v) /\ ~IsMarked(m, v)}})

\* rebuild_expired_transfer: a different transaction spending the same note,
\* chained past the end of the pending transfer schedule.  The one it replaces stays
\* in the wallet, should it have been handed out.
Rebuild(t) ==
    LET target == Tip + 1
        funding == Max({1} \cup Funding(mem, t))
    IN  /\ Serving("Rebuild", t)
        /\ ~IsMarked(mem, t) /\ \A d \in Deps[t] : ~IsMarked(mem, d)
        /\ IsExpired(mem, t, target) /\ NoteAvailable(t)
        /\ \E delay \in RebuildDelays, st \in InitStates :
            LET sched == RebuildBase(mem, target) + delay
            IN  \E b \in DrawableBoundaries(funding, sched) :
                 Store([mem EXCEPT !.sched[t] = sched, !.expiry[t] = sched + ExpiryWindow,
                                   !.bound[t] = b, !.st[t] = st], {})
        /\ taken' = taken \ {t} /\ displaced' = displaced \ {t}
        /\ rival' = IF t \in taken THEN [rival EXCEPT ![t] = Max({@, mem.expiry[t]})] ELSE rival
        /\ UNCHANGED <<scanned, chMined, chSpent, ahead, linked, reorgs, crashes>>

\* The note is tied up or no boundary can be drawn: an error, nothing is changed.
RebuildRefused(t) ==
    /\ Serving("Rebuild", t)
    /\ \/ ~NoteAvailable(t)
       \/ \E delay \in RebuildDelays :
            DrawableBoundaries(Max({1} \cup Funding(mem, t)),
                               RebuildBase(mem, Tip + 1) + delay) = {}
    /\ Release /\ mem' = store
    /\ UNCHANGED <<store, chain, reorgs, crashes>>

\* The consumer's answer to Replan.
Supersede ==
    /\ pc = "serve" /\ step.kind = "Replan"
    /\ Store(MarkSuperseded(mem), {})
    /\ UNCHANGED <<chain, reorgs, crashes>>

\* An external signer returns a signed transaction.
Sign(t) ==
    /\ pc = "idle" /\ ~IsTerminal(store) /\ store.st[t] = "AwaitingSignature"
    /\ Store(ApplySignature(store, t), {})
    /\ UNCHANGED <<chain, reorgs, crashes>>

\* The consumer dies, or drops its session on an error.
Crash ==
    /\ pc # "idle" /\ crashes < MaxCrashes
    /\ Release /\ mem' = store
    /\ crashes' = crashes + 1
    /\ UNCHANGED <<store, chain, reorgs>>

-----------------------------------------------------------------------------
(* The rest of the wallet.                                                 *)

\* What the network can include at height h, as far as the blocks scanned so far tell.
Minable(t, h) ==
    /\ t \in taken /\ ~SeenSpent(t) /\ ahead.spent[t] = 0 /\ t \notin displaced
    /\ store.expiry[t] = 0 \/ store.expiry[t] >= h
    /\ \A d \in Deps[t] : /\ chMined[d] # 0
                          /\ t \in Transfers => chMined[d] <= store.bound[t]

\* Inputs that another transaction can spend at height h.
Spendable(t, h) ==
    /\ ~SeenSpent(t) /\ ahead.spent[t] = 0
    /\ t \in Contested \/ rival[t] >= h
    /\ \A d \in Deps[t] : chMined[d] # 0

\* The fully scanned height once block h is scanned: the next gap is at its end.
Frontier(h) == Max({g \in h..MaxHeight : (h + 1)..g \subseteq ahead.heights})

\* Heights in h..top at which transactions of the migration mine, 0 for the others.
Inclusions(h, top) ==
    {at \in [Ids -> {0} \cup h..top] : \A t \in Ids : at[t] # 0 => Minable(t, at[t])}

\* The wallet scans the block above its fully scanned height, and so covers the blocks
\* scanned ahead up to the next gap: what these hold of the migration's own is chosen
\* here, where it is first read.  A copy at idle stays equal to the row.
Scan ==
    /\ pc \in ScanPoints /\ scanned < MaxHeight
    /\ LET h == scanned + 1
           top == Frontier(h)
       IN  \E at \in Inclusions(h, top), foreign \in SUBSET {t \in Ids : Spendable(t, h)} :
            /\ \A t \in foreign : at[t] = 0
            /\ scanned' = top
            /\ chMined' = [t \in Ids |-> IF at[t] # 0 THEN at[t] ELSE chMined[t]]
            /\ chSpent' = [t \in Ids |-> IF t \in foreign THEN h
                                         ELSE IF ahead.spent[t] \in h..top THEN ahead.spent[t]
                                         ELSE chSpent[t]]
            /\ ahead' = [heights |-> {g \in ahead.heights : g > top},
                         spent |-> [t \in Ids |-> IF ahead.spent[t] > top THEN ahead.spent[t] ELSE 0]]
            /\ linked' = linked \cup {t \in Ids : at[t] # 0}
    /\ UNCHANGED <<store, mem, pc, session, taken, rival, displaced, reorgs, crashes>>

\* The wallet scans a block above a gap, the tip first as suggest_scan_ranges has it.
\* Inputs the wallet has not scanned yet are linked to such a spend when it does.
ScanAhead ==
    /\ pc \in ScanPoints /\ Cardinality(ahead.heights) < MaxAhead
    /\ \E h \in (scanned + 2)..MaxHeight \ ahead.heights :
        \E foreign \in SUBSET {t \in Ids : Spendable(t, h)} :
            ahead' = [heights |-> ahead.heights \cup {h},
                      spent |-> [t \in Ids |-> IF t \in foreign THEN h ELSE ahead.spent[t]]]
    /\ UNCHANGED <<store, mem, pc, session, scanned, chMined, chSpent, taken, linked, rival,
                   displaced, reorgs, crashes>>

\* The user spends a note the migration has neither locked nor handed out.
Pay(t) ==
    /\ pc = "idle" /\ t \in Payable /\ PaymentExpiry > Tip
    /\ store.st[t] \in {"AwaitingSignature", "Signed"}
    /\ NoteAvailable(t)
    /\ rival' = [rival EXCEPT ![t] = PaymentExpiry]
    /\ UNCHANGED <<store, mem, pc, session, scanned, chMined, chSpent, ahead, taken, linked,
                   displaced, reorgs, crashes>>

\* A reorg: wallet and stored migration are rolled back to a block the wallet holds in
\* one transaction, a policy-terminal row excepted.  Anchors above it may or may not
\* reappear; the transactions un-mined stay in the wallet.
Truncate ==
    /\ pc \in TruncatePoints /\ reorgs < MaxReorgs
    /\ \E h \in (1..scanned \cup ahead.heights) \ {Tip} :
        LET judged == {t \in Transfers : /\ store.st[t] \in {"Proved", "Broadcast", "Mined"}
                                         /\ store.bound[t] > h}
        IN  \E gone \in SUBSET judged :
            /\ scanned' = Min({scanned, h})
            /\ chMined' = [t \in Ids |-> IF chMined[t] > h THEN 0 ELSE chMined[t]]
            /\ chSpent' = [t \in Ids |-> IF chSpent[t] > h THEN 0 ELSE chSpent[t]]
            /\ ahead' = [heights |-> {g \in ahead.heights : g <= h},
                         spent |-> [t \in Ids |-> IF ahead.spent[t] > h THEN 0 ELSE ahead.spent[t]]]
            /\ rival' = [t \in Ids |-> IF chSpent[t] > h \/ ahead.spent[t] > h
                                       THEN Max({rival[t], PaymentExpiry}) ELSE rival[t]]
            /\ displaced' = (displaced \ judged) \cup gone
            /\ store' = IF store.status \in PolicyTerminal THEN store
                        ELSE TruncateToHeight(store, h)
    /\ mem' = IF pc = "idle" THEN store' ELSE mem
    /\ reorgs' = reorgs + 1
    /\ UNCHANGED <<pc, session, taken, linked, crashes>>

\* Store::cancel_migration on the pending row.
Cancel ==
    /\ pc \in CancelPoints /\ ~IsTerminal(store)
    /\ store' = MarkCancelled(store)
    /\ mem' = IF pc = "idle" THEN store' ELSE mem
    /\ UNCHANGED <<pc, session, chain, reorgs, crashes>>

-----------------------------------------------------------------------------
Advance == SweepMined \/ SweepOracle \/ ClosePass \/ Adjudicate
           \/ PlanSettle \/ PlanShift \/ PlanVerify \/ Persist

Serve == \/ \E t \in Ids : \/ Prove(t) \/ ProveNotYet(t) \/ ProveInputNotAvailable(t)
                           \/ TakeForBroadcast(t) \/ Rebuild(t) \/ RebuildRefused(t)
         \/ SubmitAccepted \/ SubmitRejected \/ Supersede

Next == \/ BeginAdvance \/ Advance \/ Serve
        \/ \E t \in Ids : Sign(t) \/ Pay(t)
        \/ Crash \/ Scan \/ ScanAhead \/ Truncate \/ Cancel

Spec == Init /\ [][Next]_vars

\* The consumer's code runs on, calls advance_migration again and again, and the
\* wallet keeps scanning.  Nothing is assumed of the network, the user or reorgs.
Fairness == WF_vars(BeginAdvance) /\ WF_vars(Advance) /\ WF_vars(Serve) /\ WF_vars(Scan)

LiveSpec == Spec /\ Fairness

-----------------------------------------------------------------------------
(* Properties.                                                             *)

Targets == [scan : Nat, eff : Nat]

\* Type invariant.
TypeOK ==
    /\ store \in Migrations /\ mem \in Migrations
    /\ pc \in PCs /\ ret \in {"idle", "report", "plan", "persist"} /\ closeAt \in Nat
    /\ tgt \in Targets /\ aside \subseteq Ids /\ asked \in [Ids -> Nat] /\ dirty \in BOOLEAN
    /\ step \in [kind : Steps, txs : SUBSET Ids]
    /\ scanned \in 1..MaxHeight /\ chMined \in [Ids -> 0..MaxHeight]
    /\ chSpent \in [Ids -> 0..MaxHeight]
    /\ ahead \in [heights : SUBSET (1..MaxHeight), spent : [Ids -> 0..MaxHeight]]
    /\ taken \subseteq Ids /\ linked \subseteq Ids /\ rival \in [Ids -> Nat]
    /\ displaced \subseteq Transfers
    /\ reorgs \in 0..MaxReorgs /\ crashes \in 0..MaxCrashes

Revisable == store.status \notin PolicyTerminal

Closed(m) ==
    \A t \in Ids : (~IsMined(m, t) /\ \E d \in Deps[t] : IsMarked(m, d)) => IsMarked(m, t)

\* What every direct mark of the stored migration rests on, as of its stamp.  The
\* oracle's: a spend by another transaction mined at or below the stamp and still there,
\* or an anchor that left the chain; a reorg that withdraws the evidence withdraws the
\* mark.  The prover's: an absence that is not that of an input yet to come, since every
\* producer is mined at or below the stamp, and that strands no transaction handed out.
MarkEvidence ==
    Revisable => \A t \in Ids :
        /\ store.mark[t] <= scanned
        /\ store.kind[t] = "InputsSpent" => chSpent[t] \in 1..store.mark[t]
        /\ store.kind[t] = "AnchorInvalidated" => t \in displaced /\ store.bound[t] <= store.mark[t]
        /\ store.kind[t] = "InputAbsent" =>
              /\ store.st[t] = "Signed" /\ t \notin taken
              /\ \A d \in Deps[t] : chMined[d] \in 1..store.mark[t]

\* What prove_orchard_classified's doc says of the prover's stamp (wallet.rs:872): it
\* clears with the evidence, unless the wallet scans new blocks between two queries of
\* one call.  Where no scan comes between two, a truncation that takes back the spend a
\* mark was made for takes the mark back.
MarkFallsWithEvidence ==
    [][\A t \in Ids :
         (/\ Revisable /\ store.kind[t] = "InputAbsent"
          /\ chSpent[t] # 0 \/ ahead.spent[t] # 0
          /\ chSpent'[t] = 0 /\ ahead'.spent[t] = 0)
         => store'.mark[t] = 0]_vars

\* What interpret_input_not_available's doc says of the absence (engine.rs:3014): it is
\* evidence of a spend.  A transaction that was never mined, or no longer is, makes the
\* input absent too: no run checks this (README, section 6).
AbsenceIsSpend ==
    Revisable => \A t \in Ids :
        store.kind[t] = "InputAbsent" => chSpent[t] # 0 \/ ahead.spent[t] # 0

\* An Inherited mark is never stored against a live transaction: some producer of its
\* inputs is unmined and expired, spent elsewhere, refused by the prover, or itself
\* inherits death.
InheritedJustified ==
    Revisable => \A t \in Ids :
        store.kind[t] = "Inherited" =>
            \E d \in Deps[t] : /\ chMined[d] = 0
                               /\ \/ store.expiry[d] \in 1..scanned
                                  \/ chSpent[d] # 0
                                  \/ store.kind[d] \in {"InputAbsent", "Inherited"}

\* The durable closure stays closed: short of a reorg, no rebuild, promotion or later
\* discovery leaves an unmarked dependent beside a marked producer.
MarksClosed == Revisable /\ reorgs = 0 => Closed(store)

\* What record_satisfiability's doc says of the inherited stamp (state.rs:1016): it is
\* the earliest height whose rollback would revive the dependent, and a truncation clears
\* the mark exactly then.  A mark so cleared never leaves a marked producer behind.  It
\* does: no run checks this (README, section 6).
ClosureSurvivesReorg == Revisable => Closed(store)

\* The stored migration never claims an inclusion the scanned chain does not have,
\* and is Complete exactly when every transaction is mined there.
MinedTruth ==
    Revisable =>
        /\ \A t \in Ids : IsMined(store, t) => chMined[t] # 0 /\ chMined[t] = store.mined[t]
        /\ (store.status = "Complete") <=> \A t \in Ids : IsMined(store, t)

\* A surfaced step is planned with every inclusion in the scanned chain known, the
\* submission whose record a crash lost included.
InclusionKnown ==
    pc = "serve" => \A t \in Ids :
        mem.st[t] \in {"Proved", "Broadcast"} => chMined[t] = 0

\* The transactions that cannot mine on the scanned chain, or whose inputs a prover did
\* not find, whatever the records of their dependents say.
DeadOnChain ==
    LET unmined == {t \in Ids : chMined[t] = 0}
        seeds == {t \in unmined : \/ chSpent[t] # 0 \/ t \in displaced
                                   \/ mem.expiry[t] \in 1..scanned
                                   \/ mem.kind[t] = "InputAbsent"}
        closed(S) == seeds \subseteq S /\ \A u \in unmined : Deps[u] \cap S # {} => u \in S
    IN  {t \in Ids : \A S \in SUBSET Ids : closed(S) => t \in S}

\* Replan is surfaced only when the chain, or a prover that did not find the inputs, has
\* ruled out more than the committed share of the value, or everything that is left.
ReplanHonest ==
    (pc = "serve" /\ step.kind = "Replan") =>
        \/ 100 * Total(DeadOnChain \cap Transfers) > ReplanPercent * Total(Transfers)
        \/ \A t \in Ids : chMined[t] # 0 \/ t \in DeadOnChain

\* ZIP 318's missed-schedule policy: nothing is handed out for broadcast more than the
\* tolerance past its (possibly re-spread) schedule.
NotServedLate ==
    (pc = "serve" /\ step.kind = "Broadcast") =>
        \A t \in step.txs : mem.sched[t] <= tgt.eff /\ tgt.eff <= mem.sched[t] + Tolerance

\* A transaction first handed out for broadcast has mined producers and unspent
\* inputs, can still mine, and carries no mark.
HandedOutLive ==
    [][\A t \in taken' \ taken :
         /\ ~SeenSpent(t) /\ ~IsMarked(store, t) /\ ~IsExpired(store, t, scanned + 1)
         /\ \A d \in Deps[t] : chMined[d] # 0]_vars

\* A rebuild replaces only an artifact that can no longer mine: the funding note is
\* never signed into two transactions that are both live.
RebuildReplacesDead ==
    [][\A t \in taken \ taken' : chMined[t] = 0 /\ store.expiry[t] \in 1..scanned]_vars

\* A transfer is proved only against a boundary whose tree state holds its funding
\* note and that lies below the scanned tip.
ProvedAnchored ==
    [][\A t \in Transfers :
         (store.st[t] = "Signed" /\ store'.st[t] = "Proved") =>
            /\ store'.bound[t] <= scanned
            /\ \A d \in Deps[t] : chMined[d] \in 1..store'.bound[t]]_vars

\* A policy determination is final: a cancelled, superseded or failed migration is
\* never driven further.
PolicyFinal ==
    [][store.status \in PolicyTerminal => store' = store]_vars

\* Every call of advance_migration ends, and so does the service of its step: the
\* planning loop cannot chase its own shifts, deferrals or marks.
AdvanceTerminates == (pc # "idle") ~> (pc = "idle")

\* A standing broadcast-failure report is discharged once the scan covers its tip; it
\* cannot withhold a transaction for ever.
ReportDischarged ==
    \A t \in Ids :
        (store.report[t] # 0) ~> (store.report[t] = 0 \/ IsTerminal(store))
=============================================================================
