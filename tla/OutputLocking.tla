--------------------------- MODULE OutputLocking ---------------------------
(***************************************************************************)
(* Advisory output locking and the double-selection protection it hands    *)
(* over to spend records.                                                  *)
(*                                                                         *)
(* A flow (a send, a shielding, a migration prove) selects notes, locks    *)
(* them under its owner token, builds a transaction outside the database   *)
(* and stores it.  Selection and locking are two calls on the store        *)
(* (propose_transfer), each a database transaction of its own; storing     *)
(* records the spends and releases the locks of every note it spends.      *)
(* Meanwhile the chain tip moves, in both directions, and flows crash.     *)
(*                                                                         *)
(* `exposed`, `died` and `crashed` are history: the code keeps none of     *)
(* them, and no guard reads them.                                          *)
(***************************************************************************)
EXTENDS Naturals, FiniteSets

CONSTANTS
  Notes,      \* received notes of one account
  Owners,     \* lock owner tokens, one per flow
  NoOwner,    \* the NULL of the lock_owner column
  TxIds,      \* identities available to stored transactions
  Lockers,    \* flows that pass a LockRequest to propose_transfer
  Override,   \* Override[o]: the lock owners o's LockedInputPolicy may draw on
  Window,     \* Window[o]: LockRequest.for_blocks
  TxDelta,    \* blocks between a transaction's target height and its expiry
  MaxHeight,  \* bound: the highest chain tip explored
  Shared      \* every call goes through one exclusively borrowed handle

ASSUME LockAssumption ==
  /\ NoOwner \notin Owners
  /\ Lockers \subseteq Owners
  /\ Override \in [Owners -> SUBSET Owners]
  /\ Window \in [Owners -> Nat]
  /\ TxDelta \in Nat
  /\ MaxHeight \in Nat
  /\ Shared \in BOOLEAN

VARIABLES
  tip,   \* the chain tip the wallet knows
  lock,  \* lock[n]: the lock_owner and lock_expiry_height columns
  flow,  \* flow[o]: what the flow of owner o remembers
  tx     \* tx[i]: the stored transactions; an unused identity has no inputs

vars == <<tip, lock, flow, tx>>

Row(o, e) == [owner |-> o, expiry |-> e]
Unlocked == Row(NoOwner, 0)
Idle(c) == [phase |-> "idle", ins |-> {}, target |-> 0, expiry |-> 0,
            exposed |-> FALSE, crashed |-> c]
Unused == [ins |-> {}, expiry |-> 0, mined |-> 0, exposed |-> FALSE, died |-> FALSE]

\* The two columns are set together and cleared together.
Rows == {Unlocked} \cup [owner : Owners, expiry : Nat]
Flows == [phase : {"idle", "selected", "proposed", "releasing"}, ins : SUBSET Notes,
          target : Nat, expiry : Nat, exposed : BOOLEAN, crashed : BOOLEAN]
Txs == [ins : SUBSET Notes, expiry : Nat, mined : Nat, exposed : BOOLEAN, died : BOOLEAN]

Init ==
  /\ tip = 1
  /\ lock = [n \in Notes |-> Unlocked]
  /\ flow = [o \in Owners |-> Idle(FALSE)]
  /\ tx = [i \in TxIds |-> Unused]

Becomes(o, f) == flow' = [flow EXCEPT ![o] = f]

\* The protection of a proposal in flight is gone.
Expose(f) == IF f.phase = "proposed" THEN [f EXCEPT !.exposed = TRUE] ELSE f

-----------------------------------------------------------------------------
(* Queries *)

Target == tip + 1

\* tx_unexpired_condition: mined below the target, or not yet expired at it.
UnexpiredAt(t, h) == (t.mined # 0 /\ t.mined < h) \/ t.expiry >= h

\* Mutated form: only mined transactions spend.
SpentMinedOnly(n) ==
  \E i \in TxIds : n \in tx[i].ins /\ tx[i].mined # 0 /\ tx[i].mined < Target

\* spent_notes_clause.
Spent(n) == \E i \in TxIds : n \in tx[i].ins /\ UnexpiredAt(tx[i], Target)

\* output_eligible_condition under LockFilter::Policy.
Eligible(o, n) ==
  \/ lock[n].owner = NoOwner
  \/ lock[n].expiry < Target
  \/ lock[n].owner \in Override[o]

\* Mutated form: expiry is judged at the target height.
LockableLate(o, n) == lock[n].owner \in {NoOwner, o} \/ lock[n].expiry <= Target

\* output_lockable_condition.
Lockable(o, n) == lock[n].owner \in {NoOwner, o} \/ lock[n].expiry <= tip

\* The exclusive borrow of the handle a propose_transfer call keeps from its
\* selection to its lock: with one handle, nobody else's call comes between.
HandleFree(o) == Shared => \A p \in Owners \ {o} : flow[p].phase # "selected"

-----------------------------------------------------------------------------
(* propose_transfer *)

\* The selection half.  A flow without a LockRequest returns with its proposal
\* and no protection: it is exposed from the start.
Select(o) ==
  /\ flow[o].phase = "idle"
  /\ HandleFree(o)
  /\ \E s \in SUBSET {n \in Notes : Eligible(o, n) /\ ~Spent(n)} :
       /\ s # {}
       /\ Becomes(o, [flow[o] EXCEPT
                        !.phase = IF o \in Lockers THEN "selected" ELSE "proposed",
                        !.ins = s,
                        !.target = Target,
                        !.exposed = o \notin Lockers])
  /\ UNCHANGED <<tip, lock, tx>>

\* lock_proposal_inputs: one database transaction, rolled back unless every
\* input could be locked.
LockInputs(o) ==
  LET e == flow[o].target + Window[o]
  IN
  /\ flow[o].phase = "selected"
  /\ \A n \in flow[o].ins : Lockable(o, n)
  /\ lock' = [n \in Notes |-> IF n \in flow[o].ins THEN Row(o, e) ELSE lock[n]]
  /\ Becomes(o, [flow[o] EXCEPT !.phase = "proposed", !.expiry = e, !.exposed = e <= tip])
  /\ UNCHANGED <<tip, tx>>

\* Mutated form: the batch is not rolled back, what could be locked stays locked.
LockRefusedPartial(o) ==
  LET e == flow[o].target + Window[o]
  IN
  /\ flow[o].phase = "selected"
  /\ \E n \in flow[o].ins : ~Lockable(o, n)
  /\ lock' = [n \in Notes |-> IF n \in flow[o].ins /\ Lockable(o, n)
                              THEN Row(o, e) ELSE lock[n]]
  /\ Becomes(o, Idle(flow[o].crashed))
  /\ UNCHANGED <<tip, tx>>

\* ProposalError::InputsLocked: the caller learns that the account is busy.
LockRefused(o) ==
  /\ flow[o].phase = "selected"
  /\ \E n \in flow[o].ins : ~Lockable(o, n)
  /\ Becomes(o, Idle(flow[o].crashed))
  /\ UNCHANGED <<tip, lock, tx>>

-----------------------------------------------------------------------------
(* The three ways a flow ends *)

\* Mutated form: the UPDATE forgets one of the two columns.
UnlockSpentHalf(s) ==
  [n \in Notes |-> IF n \in s THEN Row(NoOwner, lock[n].expiry) ELSE lock[n]]

\* unlock_spent_notes: whoever holds the lock.
UnlockSpent(s) == [n \in Notes |-> IF n \in s THEN Unlocked ELSE lock[n]]

\* create_proposed_transactions builds at the proposal's target height without
\* looking at the locks again, and store_transaction_to_be_sent records the
\* spends and releases the notes, in one database transaction.
StoreTx(o) ==
  LET s == flow[o].ins
      e == flow[o].target + TxDelta
  IN
  /\ flow[o].phase = "proposed"
  /\ HandleFree(o)
  /\ \E i \in TxIds :
       /\ tx[i].ins = {}
       /\ tx' = [tx EXCEPT ![i] = [ins |-> s, expiry |-> e, mined |-> 0,
                                   exposed |-> flow[o].exposed, died |-> e <= tip]]
  /\ lock' = UnlockSpent(s)
  /\ Becomes(o, Idle(flow[o].crashed))
  /\ UNCHANGED tip

\* unlock_proposal_inputs visits the proposal's inputs one call at a time ...
Abandon(o) ==
  /\ flow[o].phase = "proposed"
  /\ Becomes(o, [flow[o] EXCEPT !.phase = "releasing"])
  /\ UNCHANGED <<tip, lock, tx>>

\* Mutated form: the unlock ignores who holds the lock.
UnlockAnyones(o, n) == [lock EXCEPT ![n] = Unlocked]

\* ... and each unlock_output touches only a lock its owner still holds.
UnlockOutput(o, n) ==
  IF lock[n].owner = o THEN [lock EXCEPT ![n] = Unlocked] ELSE lock

UnlockNext(o) ==
  /\ flow[o].phase = "releasing"
  /\ HandleFree(o)
  /\ \E n \in flow[o].ins :
       /\ lock' = UnlockOutput(o, n)
       /\ Becomes(o, IF flow[o].ins = {n} THEN Idle(flow[o].crashed)
                     ELSE [flow[o] EXCEPT !.ins = flow[o].ins \ {n}])
  /\ UNCHANGED <<tip, tx>>

\* The flow dies where it stands; its owner token survives and may be retried.
Crash(o) ==
  /\ flow[o].phase # "idle"
  /\ Becomes(o, Idle(TRUE))
  /\ UNCHANGED <<tip, lock, tx>>

-----------------------------------------------------------------------------
(* Releases from outside the flow *)

\* clear_locked_outputs: every lock of the account, whoever holds it.
ClearLockedOutputs ==
  /\ \A o \in Owners : Shared => flow[o].phase # "selected"
  /\ \E n \in Notes : lock[n] # Unlocked
  /\ lock' = [n \in Notes |-> Unlocked]
  /\ flow' = [o \in Owners |-> Expose(flow[o])]
  /\ UNCHANGED <<tip, tx>>

\* release_lock_owners: a cancelled migration gives its reservations back.
ReleaseOwner(o) ==
  /\ \A p \in Owners : Shared => flow[p].phase # "selected"
  /\ \E n \in Notes : lock[n].owner = o
  /\ lock' = [n \in Notes |-> IF lock[n].owner = o THEN Unlocked ELSE lock[n]]
  /\ Becomes(o, Expose(flow[o]))
  /\ UNCHANGED <<tip, tx>>

-----------------------------------------------------------------------------
(* The chain *)

\* What a proposal or a stored transaction has outlived at tip h.
ExposedAt(f, h) == IF f.expiry <= h THEN Expose(f) ELSE f
Aged(t, h) == IF t.ins # {} /\ t.mined = 0 /\ t.expiry <= h
              THEN [t EXCEPT !.died = TRUE] ELSE t

Conflict(i, j) == i # j /\ tx[i].ins \cap tx[j].ins # {}

\* A block that mines the transactions of m: consensus admits no expired
\* transaction and no second spend of a note.
MineBlock ==
  LET h == tip + 1
      minable == {i \in TxIds : tx[i].ins # {} /\ tx[i].mined = 0 /\ tx[i].expiry >= h}
  IN
  /\ tip < MaxHeight
  /\ \A o \in Owners : Shared => flow[o].phase # "selected"
  /\ \E m \in SUBSET minable :
       /\ \A i \in m, j \in TxIds : Conflict(i, j) => j \notin m /\ tx[j].mined = 0
       /\ tx' = [i \in TxIds |->
                   Aged(IF i \in m THEN [tx[i] EXCEPT !.mined = h] ELSE tx[i], h)]
  /\ tip' = h
  /\ flow' = [o \in Owners |-> ExposedAt(flow[o], h)]
  /\ UNCHANGED lock

\* A rewind un-mines what was mined above h and leaves the lock columns alone.
Rewind ==
  /\ \A o \in Owners : Shared => flow[o].phase # "selected"
  /\ \E h \in 1..MaxHeight :
       /\ h < tip
       /\ tip' = h
       /\ tx' = [i \in TxIds |->
                   Aged([tx[i] EXCEPT !.mined = IF @ > h THEN 0 ELSE @], h)]
  /\ UNCHANGED <<lock, flow>>

-----------------------------------------------------------------------------
Next ==
  \/ \E o \in Owners :
       \/ Select(o) \/ LockInputs(o) \/ LockRefused(o) \/ StoreTx(o)
       \/ Abandon(o) \/ UnlockNext(o) \/ Crash(o) \/ ReleaseOwner(o)
  \/ ClearLockedOutputs
  \/ MineBlock
  \/ Rewind

Spec == Init /\ [][Next]_vars

-----------------------------------------------------------------------------
(* Properties *)

TypeOK ==
  /\ tip \in Nat
  /\ lock \in [Notes -> Rows]
  /\ flow \in [Owners -> Flows]
  /\ tx \in [TxIds -> Txs]

\* Every transaction that spends n was stored under a lock that had neither
\* lapsed nor been cleared from outside since its proposal took it.
Disciplined(n) == \A i \in TxIds : n \in tx[i].ins => ~tx[i].exposed

\* A flow inside its lock window still holds the lock of every input, under its
\* own token and at its own expiry, whatever the other flows, the reorgs and the
\* releases did in between: "there is no stealing" (data_api/locking.rs).  Only
\* a transaction stored after its own lock lapsed can take the lock away.
LockHeld ==
  \A o \in Owners : \A n \in flow[o].ins :
    flow[o].phase = "proposed" /\ ~flow[o].exposed /\ Disciplined(n)
      => lock[n] = Row(o, flow[o].expiry)

\* Every lock is accounted for: the flow that took it still has the note among
\* its inputs, or it crashed.  A refused batch, a stored transaction and an
\* abandoned proposal leave nothing behind (lock_outputs is all-or-nothing,
\* store_transaction_to_be_sent releases what it spends).
NoOrphanLock ==
  \A n \in Notes : \A o \in Owners :
    lock[n].owner = o =>
      \/ flow[o].phase \in {"proposed", "releasing"} /\ n \in flow[o].ins
      \/ flow[o].crashed

\* A note has at most one live spender: of two stored transactions spending it,
\* one has been seen dead (expired unmined at some tip).  "Locking is how
\* overlapping proposals for the same account are kept from selecting the same
\* inputs" (propose_transfer), the spend records taking over from the lock.
NoDoubleSpend ==
  \A i \in TxIds : \A j \in TxIds \ {i} : \A n \in tx[i].ins \cap tx[j].ins :
    Disciplined(n) => tx[i].died \/ tx[j].died
=============================================================================
