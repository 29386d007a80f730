------------------------ MODULE OutputLockingProofs ------------------------
(***************************************************************************)
(* Theorems about OutputLocking, for every set of notes, owners and        *)
(* transaction identities, every window, expiry delta and height bound.    *)
(***************************************************************************)
EXTENDS OutputLocking, TLAPS

-----------------------------------------------------------------------------
(* The building blocks of a step *)

LEMMA IdleType == \A c \in BOOLEAN : Idle(c) \in Flows
BY DEF Idle, Flows

LEMMA ExposeType == \A f \in Flows : Expose(f) \in Flows
BY DEF Expose, Flows

LEMMA AgedType == ASSUME NEW t \in Txs, NEW h \in Nat PROVE Aged(t, h) \in Txs
BY DEF Aged, Txs

\* One flow changes and the others do not.
LEMMA BecomesOne ==
  ASSUME flow \in [Owners -> Flows], NEW o \in Owners, NEW f \in Flows, Becomes(o, f)
  PROVE  /\ flow' \in [Owners -> Flows]
         /\ flow'[o] = f
         /\ \A p \in Owners : p # o => flow'[p] = flow[p]
BY DEF Becomes

\* What a flow becomes when it selects, and when it locks, is a flow.
LEMMA SelectedType ==
  ASSUME NEW f \in Flows, NEW ph \in {"selected", "proposed"}, NEW s \in SUBSET Notes,
         NEW h \in Nat, NEW x \in BOOLEAN
  PROVE  /\ [f EXCEPT !.phase = ph, !.ins = s, !.target = h, !.exposed = x] \in Flows
         /\ [f EXCEPT !.phase = ph, !.expiry = h, !.exposed = x] \in Flows
BY DEF Flows

LEMMA InitType == Init => TypeOK
BY DEF Init, TypeOK, Rows, Row, Unlocked, Flows, Txs, Idle, Unused

LEMMA NextType == TypeOK /\ [Next]_vars => TypeOK'
<1> SUFFICES ASSUME TypeOK, [Next]_vars
             PROVE  TypeOK'
  OBVIOUS
<1> USE DEF TypeOK
<1>a. ASSUME NEW o \in Owners
      PROVE  flow[o] \in Flows /\ Idle(flow[o].crashed) \in Flows /\ Idle(TRUE) \in Flows
  BY <1>a, IdleType DEF Flows
<1>1. ASSUME NEW o \in Owners, Select(o) PROVE TypeOK'
  <2>1. PICK s \in SUBSET Notes :
           Becomes(o, [flow[o] EXCEPT
                         !.phase = IF o \in Lockers THEN "selected" ELSE "proposed",
                         !.ins = s, !.target = Target, !.exposed = o \notin Lockers])
    BY <1>1 DEF Select
  <2>2. [flow[o] EXCEPT
           !.phase = IF o \in Lockers THEN "selected" ELSE "proposed",
           !.ins = s, !.target = Target, !.exposed = o \notin Lockers] \in Flows
    <3>1. (IF o \in Lockers THEN "selected" ELSE "proposed") \in {"selected", "proposed"}
      OBVIOUS
    <3>2. Target \in Nat /\ (o \notin Lockers) \in BOOLEAN
      BY DEF Target
    <3> QED BY <1>a, <3>1, <3>2, SelectedType, Zenon
  <2> QED BY <1>1, <2>1, <2>2, BecomesOne DEF Select
<1>2. ASSUME NEW o \in Owners, LockInputs(o) PROVE TypeOK'
  <2> DEFINE e == flow[o].target + Window[o]
  <2>1. e \in Nat
    BY <1>a, LockAssumption DEF Flows
  <2>2. lock' \in [Notes -> Rows]
    BY <1>2, <2>1 DEF LockInputs, Rows, Row
  <2>3. [flow[o] EXCEPT !.phase = "proposed", !.expiry = e, !.exposed = e <= tip] \in Flows
    <3>1. "proposed" \in {"selected", "proposed"} /\ (e <= tip) \in BOOLEAN
      OBVIOUS
    <3> HIDE DEF e
    <3> QED BY <1>a, <2>1, <3>1, SelectedType, Zenon
  <2>4. flow' \in [Owners -> Flows]
    BY <1>2, <2>3, BecomesOne DEF LockInputs
  <2> QED BY <1>2, <2>2, <2>4 DEF LockInputs
<1>3. ASSUME NEW o \in Owners, LockRefused(o) PROVE TypeOK'
  BY <1>3, <1>a, BecomesOne DEF LockRefused
<1>4. ASSUME NEW o \in Owners, StoreTx(o) PROVE TypeOK'
  <2>1. flow[o].target + TxDelta \in Nat
    BY <1>a, LockAssumption DEF Flows
  <2>2. lock' \in [Notes -> Rows]
    BY <1>4 DEF StoreTx, UnlockSpent, Rows
  <2>3. flow' \in [Owners -> Flows]
    BY <1>4, <1>a, BecomesOne DEF StoreTx
  <2>4. [ins |-> flow[o].ins, expiry |-> flow[o].target + TxDelta, mined |-> 0,
         exposed |-> flow[o].exposed, died |-> flow[o].target + TxDelta <= tip] \in Txs
    BY <1>a, <2>1 DEF Flows, Txs
  <2>5. tx' \in [TxIds -> Txs]
    BY <1>4, <2>4 DEF StoreTx
  <2> QED BY <1>4, <2>2, <2>3, <2>5 DEF StoreTx
<1>5. ASSUME NEW o \in Owners, Abandon(o) PROVE TypeOK'
  <2>1. [flow[o] EXCEPT !.phase = "releasing"] \in Flows
    BY <1>a DEF Flows
  <2> QED BY <1>5, <2>1, BecomesOne DEF Abandon
<1>6. ASSUME NEW o \in Owners, UnlockNext(o) PROVE TypeOK'
  <2>1. PICK n \in flow[o].ins :
           /\ lock' = UnlockOutput(o, n)
           /\ Becomes(o, IF flow[o].ins = {n} THEN Idle(flow[o].crashed)
                         ELSE [flow[o] EXCEPT !.ins = flow[o].ins \ {n}])
    BY <1>6 DEF UnlockNext
  <2>2. lock' \in [Notes -> Rows]
    BY <2>1 DEF UnlockOutput, Rows
  <2>3. [flow[o] EXCEPT !.ins = flow[o].ins \ {n}] \in Flows
    BY <1>a DEF Flows
  <2>4. flow' \in [Owners -> Flows]
    BY <1>a, <2>1, <2>3, BecomesOne
  <2> QED BY <1>6, <2>2, <2>4 DEF UnlockNext
<1>7. ASSUME NEW o \in Owners, Crash(o) PROVE TypeOK'
  BY <1>7, <1>a, BecomesOne DEF Crash
<1>8. ASSUME NEW o \in Owners, ReleaseOwner(o) PROVE TypeOK'
  <2>1. lock' \in [Notes -> Rows]
    BY <1>8 DEF ReleaseOwner, Rows
  <2>2. flow' \in [Owners -> Flows]
    BY <1>8, <1>a, ExposeType, BecomesOne DEF ReleaseOwner
  <2> QED BY <1>8, <2>1, <2>2 DEF ReleaseOwner
<1>9. CASE ClearLockedOutputs
  <2>1. lock' \in [Notes -> Rows]
    BY <1>9 DEF ClearLockedOutputs, Rows
  <2>2. flow' \in [Owners -> Flows]
    BY <1>9, <1>a, ExposeType DEF ClearLockedOutputs
  <2> QED BY <1>9, <2>1, <2>2 DEF ClearLockedOutputs
<1>10. CASE MineBlock
  <2>1. tip + 1 \in Nat
    OBVIOUS
  <2>2. flow' \in [Owners -> Flows]
    BY <1>10, <1>a, ExposeType DEF MineBlock, ExposedAt
  <2>3. ASSUME NEW i \in TxIds
        PROVE  tx[i] \in Txs /\ [tx[i] EXCEPT !.mined = tip + 1] \in Txs
    BY <2>1 DEF Txs
  <2>4. tx' \in [TxIds -> Txs]
    BY <1>10, <2>1, <2>3, AgedType DEF MineBlock
  <2> QED BY <1>10, <2>1, <2>2, <2>4 DEF MineBlock
<1>11. CASE Rewind
  <2>1. PICK h \in 1..MaxHeight :
           /\ tip' = h
           /\ tx' = [i \in TxIds |-> Aged([tx[i] EXCEPT !.mined = IF @ > h THEN 0 ELSE @], h)]
    BY <1>11 DEF Rewind
  <2>2. h \in Nat
    BY LockAssumption
  <2>3. ASSUME NEW i \in TxIds
        PROVE  [tx[i] EXCEPT !.mined = IF @ > h THEN 0 ELSE @] \in Txs
    BY DEF Txs
  <2>4. tx' \in [TxIds -> Txs]
    BY <2>1, <2>2, <2>3, AgedType
  <2> QED BY <1>11, <2>1, <2>2, <2>4 DEF Rewind
<1>12. CASE UNCHANGED vars
  BY <1>12 DEF vars
<1> QED
  BY <1>1, <1>2, <1>3, <1>4, <1>5, <1>6, <1>7, <1>8, <1>9, <1>10, <1>11, <1>12 DEF Next

\* Every reachable state is well typed; in particular the owner and the expiry
\* column of a lock are set together and cleared together.
THEOREM TypeCorrect == Spec => []TypeOK
<1>1. Init => TypeOK
  BY InitType
<1>2. TypeOK /\ [Next]_vars => TypeOK'
  BY NextType
<1> QED
  BY <1>1, <1>2, PTL DEF Spec

-----------------------------------------------------------------------------
(* Locks are held through their windows *)

\* An unexposed proposal is inside its lock window.
InWindow ==
  \A o \in Owners :
    flow[o].phase = "proposed" /\ ~flow[o].exposed => flow[o].expiry > tip

\* Only together are these inductive: an acquisition by somebody else is refused
\* because the row it meets is LockHeld's and InWindow says it has not expired.
HeldInv == TypeOK /\ InWindow /\ LockHeld

LEMMA InitHeld == Init => HeldInv
<1> SUFFICES ASSUME Init PROVE HeldInv
  OBVIOUS
<1>1. TypeOK
  BY InitType
<1> QED BY <1>1 DEF Init, HeldInv, InWindow, LockHeld, Idle

\* A step that leaves inputs and exposure of every transaction alone leaves the
\* notes' histories alone.
LEMMA SameHistory ==
  ASSUME \A i \in TxIds : tx'[i].ins = tx[i].ins /\ tx'[i].exposed = tx[i].exposed,
         NEW n \in Notes, Disciplined(n)'
  PROVE  Disciplined(n)
BY DEF Disciplined

\* A new transaction can only spoil a history, never mend one.
LEMMA StoreHistory ==
  ASSUME NEW o \in Owners, TypeOK, StoreTx(o), NEW n \in Notes, Disciplined(n)'
  PROVE  Disciplined(n) /\ (n \in flow[o].ins => ~flow[o].exposed)
<1>1. PICK i \in TxIds :
         /\ tx[i].ins = {}
         /\ tx' = [tx EXCEPT ![i] = [ins |-> flow[o].ins, expiry |-> flow[o].target + TxDelta,
                                     mined |-> 0, exposed |-> flow[o].exposed,
                                     died |-> flow[o].target + TxDelta <= tip]]
  BY DEF StoreTx
<1>2. /\ tx'[i].ins = flow[o].ins
      /\ tx'[i].exposed = flow[o].exposed
      /\ \A j \in TxIds \ {i} : tx'[j] = tx[j]
  BY <1>1 DEF TypeOK
<1>3. n \in flow[o].ins => ~flow[o].exposed
  BY <1>2 DEF Disciplined
<1>4. Disciplined(n)
  BY <1>1, <1>2 DEF Disciplined
<1> QED BY <1>3, <1>4

\* Two proposals inside their windows share no input with a disciplined history.
LEMMA Exclusion ==
  ASSUME TypeOK, LockHeld, NEW o \in Owners, NEW p \in Owners,
         flow[o].phase = "proposed", ~flow[o].exposed,
         flow[p].phase = "proposed", ~flow[p].exposed,
         NEW n \in flow[o].ins \cap flow[p].ins, Disciplined(n)
  PROVE  o = p
<1>1. n \in Notes
  BY DEF TypeOK, Flows
<1>2. lock[n] = Row(o, flow[o].expiry) /\ lock[n] = Row(p, flow[p].expiry)
  BY DEF LockHeld
<1> QED BY <1>2 DEF Row

LEMMA NextHeld == HeldInv /\ [Next]_vars => HeldInv'
<1> SUFFICES ASSUME HeldInv, [Next]_vars
             PROVE  InWindow' /\ LockHeld'
  BY NextType DEF HeldInv
<1>t. TypeOK /\ TypeOK' /\ InWindow /\ LockHeld
  BY NextType DEF HeldInv
<1>f. ASSUME NEW o \in Owners
      PROVE  /\ flow[o] \in Flows /\ flow[o].ins \subseteq Notes
             /\ flow'[o] \in Flows /\ flow'[o].ins \subseteq Notes
  BY <1>t DEF TypeOK, Flows
<1>k. ASSUME NEW o \in Owners, NEW f, Becomes(o, f)
      PROVE  flow'[o] = f /\ \A p \in Owners : p # o => flow'[p] = flow[p]
  BY <1>k, <1>t DEF TypeOK, Becomes
\* One flow leaves its proposal (or never was in one) and the locks it does not
\* own stay: nothing is owed to it and the others keep what they had.
<1>q. ASSUME NEW o \in Owners, UNCHANGED <<tip, tx>>,
             \A p \in Owners : p # o => flow'[p] = flow[p],
             flow'[o].phase # "proposed" \/ flow'[o].exposed,
             \A n \in Notes : lock[n].owner \in Owners \ {o} => lock'[n] = lock[n]
      PROVE  InWindow' /\ LockHeld'
  <2>1. InWindow'
    BY <1>q, <1>t DEF InWindow
  <2>2. ASSUME NEW p \in Owners, NEW n \in flow'[p].ins,
               flow'[p].phase = "proposed", ~flow'[p].exposed, Disciplined(n)'
        PROVE  lock'[n] = Row(p, flow'[p].expiry)
    <3>1. p # o /\ flow'[p] = flow[p] /\ n \in Notes
      BY <1>q, <1>f, <2>2
    <3>2. Disciplined(n)
      BY <1>q, <2>2 DEF Disciplined
    <3>3. lock[n] = Row(p, flow[p].expiry)
      BY <1>t, <2>2, <3>1, <3>2 DEF LockHeld
    <3> QED BY <1>q, <3>1, <3>3 DEF Row
  <2> QED BY <2>1, <2>2 DEF LockHeld
<1>1. ASSUME NEW o \in Owners, Select(o) PROVE InWindow' /\ LockHeld'
  <2>1. PICK s \in SUBSET Notes :
           Becomes(o, [flow[o] EXCEPT
                         !.phase = IF o \in Lockers THEN "selected" ELSE "proposed",
                         !.ins = s, !.target = Target, !.exposed = o \notin Lockers])
    BY <1>1 DEF Select
  <2>2. flow'[o].phase # "proposed" \/ flow'[o].exposed
    <3>1. flow'[o] = [flow[o] EXCEPT
                        !.phase = IF o \in Lockers THEN "selected" ELSE "proposed",
                        !.ins = s, !.target = Target, !.exposed = o \notin Lockers]
      BY <1>k, <2>1
    <3>2. CASE o \in Lockers
      BY <1>f, <3>1, <3>2 DEF Flows
    <3>3. CASE o \notin Lockers
      BY <1>f, <3>1, <3>3 DEF Flows
    <3> QED BY <3>2, <3>3
  <2> QED BY <1>1, <1>k, <1>q, <2>1, <2>2 DEF Select
<1>2. ASSUME NEW o \in Owners, LockInputs(o) PROVE InWindow' /\ LockHeld'
  <2> DEFINE e == flow[o].target + Window[o]
  <2>1. /\ flow'[o].phase = "proposed" /\ flow'[o].expiry = e
        /\ flow'[o].ins = flow[o].ins
        /\ ~flow'[o].exposed => ~(e <= tip)
        /\ \A p \in Owners : p # o => flow'[p] = flow[p]
    <3>1. flow'[o] = [flow[o] EXCEPT !.phase = "proposed", !.expiry = e, !.exposed = e <= tip]
      BY <1>2, <1>k DEF LockInputs
    <3>2. \A p \in Owners : p # o => flow'[p] = flow[p]
      BY <1>2, <1>k DEF LockInputs
    <3> HIDE DEF e
    <3>3. CASE e <= tip
      BY <1>f, <3>1, <3>2, <3>3 DEF Flows
    <3>4. CASE ~(e <= tip)
      BY <1>f, <3>1, <3>2, <3>4 DEF Flows
    <3> QED BY <3>3, <3>4
  <2>2. e \in Nat /\ tip \in Nat /\ UNCHANGED <<tip, tx>>
    BY <1>2, <1>f, <1>t, LockAssumption DEF Flows, LockInputs, TypeOK
  <2>3. InWindow'
    <3>1. ASSUME NEW p \in Owners, flow'[p].phase = "proposed", ~flow'[p].exposed
          PROVE  flow'[p].expiry > tip'
      <4>1. CASE p = o
        <5> HIDE DEF e
        <5> QED BY <2>1, <2>2, <3>1, <4>1
      <4>2. CASE p # o
        BY <1>t, <2>1, <2>2, <3>1, <4>2 DEF InWindow
      <4> QED BY <4>1, <4>2
    <3> QED BY <3>1 DEF InWindow
  <2>4. ASSUME NEW p \in Owners, NEW n \in flow'[p].ins,
               flow'[p].phase = "proposed", ~flow'[p].exposed, Disciplined(n)'
        PROVE  lock'[n] = Row(p, flow'[p].expiry)
    <3>1. n \in Notes
      BY <1>f, <2>4
    <3>2. Disciplined(n)
      BY <2>2, <2>4 DEF Disciplined
    <3>3. CASE p = o
      BY <1>2, <2>1, <2>4, <3>1, <3>3 DEF LockInputs
    <3>4. CASE p # o
      <4>1. flow'[p] = flow[p]
        BY <2>1, <3>4
      <4>2. lock[n] = Row(p, flow[p].expiry) /\ flow[p].expiry > tip
        BY <1>t, <2>4, <3>2, <4>1 DEF LockHeld, InWindow
      <4>3. flow[p].expiry \in Nat /\ p # NoOwner
        BY <1>f, LockAssumption DEF Flows
      <4>4. ~Lockable(o, n)
        BY <2>2, <3>4, <4>2, <4>3 DEF Lockable, Row
      <4>5. n \notin flow[o].ins
        BY <1>2, <4>4 DEF LockInputs
      <4>6. lock'[n] = lock[n]
        BY <1>2, <3>1, <4>5 DEF LockInputs
      <4> QED BY <4>1, <4>2, <4>6
    <3> QED BY <3>3, <3>4
  <2> QED BY <2>3, <2>4 DEF LockHeld
<1>3. ASSUME NEW o \in Owners, LockRefused(o) PROVE InWindow' /\ LockHeld'
  BY <1>3, <1>k, <1>q DEF LockRefused, Idle
<1>4. ASSUME NEW o \in Owners, StoreTx(o) PROVE InWindow' /\ LockHeld'
  <2>1. /\ \A p \in Owners : p # o => flow'[p] = flow[p]
        /\ flow'[o].phase = "idle" /\ flow'[o].ins = {}
        /\ tip' = tip
    BY <1>4, <1>k DEF StoreTx, Idle
  <2>2. InWindow'
    BY <1>t, <2>1 DEF InWindow
  <2>3. ASSUME NEW p \in Owners, NEW n \in flow'[p].ins,
               flow'[p].phase = "proposed", ~flow'[p].exposed, Disciplined(n)'
        PROVE  lock'[n] = Row(p, flow'[p].expiry)
    <3>1. p # o /\ flow'[p] = flow[p] /\ n \in Notes
      BY <1>f, <2>1, <2>3
    <3>2. Disciplined(n) /\ (n \in flow[o].ins => ~flow[o].exposed)
      BY <1>4, <1>t, <2>3, <3>1, StoreHistory
    <3>3. lock[n] = Row(p, flow[p].expiry)
      BY <1>t, <2>3, <3>1, <3>2 DEF LockHeld
    <3>4. n \notin flow[o].ins
      BY <1>4, <1>t, <2>3, <3>1, <3>2, Exclusion DEF StoreTx
    <3> QED BY <1>4, <3>1, <3>3, <3>4 DEF StoreTx, UnlockSpent
  <2> QED BY <2>2, <2>3 DEF LockHeld
<1>5. ASSUME NEW o \in Owners, Abandon(o) PROVE InWindow' /\ LockHeld'
  <2>1. flow'[o].phase = "releasing"
    BY <1>5, <1>f, <1>k DEF Abandon, Flows
  <2> QED BY <1>5, <1>k, <1>q, <2>1 DEF Abandon
<1>6. ASSUME NEW o \in Owners, UnlockNext(o) PROVE InWindow' /\ LockHeld'
  <2>1. PICK n \in flow[o].ins :
           /\ lock' = UnlockOutput(o, n)
           /\ Becomes(o, IF flow[o].ins = {n} THEN Idle(flow[o].crashed)
                         ELSE [flow[o] EXCEPT !.ins = flow[o].ins \ {n}])
    BY <1>6 DEF UnlockNext
  <2>2. flow'[o].phase # "proposed"
    <3>1. flow[o].phase = "releasing"
      BY <1>6 DEF UnlockNext
    <3>2. CASE flow[o].ins = {n}
      BY <1>k, <2>1, <3>2 DEF Idle
    <3>3. CASE flow[o].ins # {n}
      <4>1. flow'[o] = [flow[o] EXCEPT !.ins = flow[o].ins \ {n}]
        BY <1>k, <2>1, <3>3
      <4> QED BY <1>f, <3>1, <4>1 DEF Flows
    <3> QED BY <3>2, <3>3
  <2>3. \A m \in Notes : lock[m].owner \in Owners \ {o} => lock'[m] = lock[m]
    BY <1>t, <2>1 DEF UnlockOutput, TypeOK
  <2> QED BY <1>6, <1>k, <1>q, <2>1, <2>2, <2>3 DEF UnlockNext
<1>7. ASSUME NEW o \in Owners, Crash(o) PROVE InWindow' /\ LockHeld'
  BY <1>7, <1>k, <1>q DEF Crash, Idle
<1>8. ASSUME NEW o \in Owners, ReleaseOwner(o) PROVE InWindow' /\ LockHeld'
  <2>1. flow'[o] = Expose(flow[o]) /\ \A p \in Owners : p # o => flow'[p] = flow[p]
    BY <1>8, <1>k DEF ReleaseOwner
  <2>2. flow'[o].phase # "proposed" \/ flow'[o].exposed
    BY <1>f, <2>1 DEF Expose, Flows
  <2>3. \A n \in Notes : lock[n].owner \in Owners \ {o} => lock'[n] = lock[n]
    BY <1>8 DEF ReleaseOwner
  <2> QED BY <1>8, <1>q, <2>1, <2>2, <2>3 DEF ReleaseOwner
<1>9. CASE ClearLockedOutputs
  <2>1. ASSUME NEW o \in Owners
        PROVE  flow'[o].phase # "proposed" \/ flow'[o].exposed
    BY <1>9, <1>f DEF ClearLockedOutputs, Expose, Flows
  <2> QED BY <2>1 DEF InWindow, LockHeld
<1>10. CASE MineBlock
  <2>1. tip' = tip + 1 /\ lock' = lock /\ tip \in Nat
    BY <1>10, <1>t DEF MineBlock, TypeOK
  <2>2. ASSUME NEW o \in Owners, flow'[o].phase = "proposed", ~flow'[o].exposed
        PROVE  flow'[o] = flow[o] /\ flow[o].expiry > tip + 1
    <3>1. flow'[o] = ExposedAt(flow[o], tip + 1)
      BY <1>10 DEF MineBlock
    <3> QED BY <1>f, <2>1, <2>2, <3>1 DEF ExposedAt, Expose, Flows
  <2>3. \A i \in TxIds : tx'[i].ins = tx[i].ins /\ tx'[i].exposed = tx[i].exposed
    BY <1>10, <1>t DEF MineBlock, Aged, TypeOK, Txs
  <2>4. InWindow'
    BY <2>1, <2>2 DEF InWindow
  <2>5. ASSUME NEW p \in Owners, NEW n \in flow'[p].ins,
               flow'[p].phase = "proposed", ~flow'[p].exposed, Disciplined(n)'
        PROVE  lock'[n] = Row(p, flow'[p].expiry)
    BY <1>f, <1>t, <2>1, <2>2, <2>3, <2>5, SameHistory DEF LockHeld
  <2> QED BY <2>4, <2>5 DEF LockHeld
<1>11. CASE Rewind
  <2>1. tip' < tip /\ tip' \in Nat /\ UNCHANGED <<lock, flow>>
    <3>1. PICK h \in 1..MaxHeight : h < tip /\ tip' = h
      BY <1>11 DEF Rewind
    <3>2. UNCHANGED <<lock, flow>>
      BY <1>11 DEF Rewind
    <3> QED BY <3>1, <3>2, LockAssumption
  <2>2. \A i \in TxIds : tx'[i].ins = tx[i].ins /\ tx'[i].exposed = tx[i].exposed
    <3>1. PICK h \in 1..MaxHeight :
             tx' = [i \in TxIds |-> Aged([tx[i] EXCEPT !.mined = IF @ > h THEN 0 ELSE @], h)]
      BY <1>11 DEF Rewind
    <3>2. ASSUME NEW i \in TxIds
          PROVE  tx'[i].ins = tx[i].ins /\ tx'[i].exposed = tx[i].exposed
      BY <1>t, <3>1 DEF Aged, TypeOK, Txs
    <3> QED BY <3>2
  <2>3. InWindow'
    BY <1>f, <1>t, <2>1 DEF InWindow, TypeOK, Flows
  <2>4. LockHeld'
    BY <1>f, <1>t, <2>1, <2>2, SameHistory DEF LockHeld
  <2> QED BY <2>3, <2>4
<1>12. CASE UNCHANGED vars
  BY <1>12, <1>t DEF vars, InWindow, LockHeld, Disciplined
<1> QED
  BY <1>1, <1>2, <1>3, <1>4, <1>5, <1>6, <1>7, <1>8, <1>9, <1>10, <1>11, <1>12 DEF Next

\* A flow inside its lock window still holds the lock of each of its inputs
\* under its own token and expiry, however selections, locks, releases, blocks
\* and rewinds of other actors interleave, over one handle or many: nobody
\* steals a live lock (data_api/locking.rs, output_lockable_condition).
THEOREM LocksHeld == Spec => []LockHeld
<1>1. Init => HeldInv
  BY InitHeld
<1>2. HeldInv /\ [Next]_vars => HeldInv'
  BY NextHeld
<1>3. HeldInv => LockHeld
  BY DEF HeldInv
<1> QED
  BY <1>1, <1>2, <1>3, PTL DEF Spec

-----------------------------------------------------------------------------
(* One live spender per note, over one exclusively borrowed handle *)

MinedBelow == \A i \in TxIds : tx[i].mined <= tip

\* The history records every expiry the chain tip has passed.
ExpiredDied ==
  \A i \in TxIds :
    tx[i].ins # {} /\ tx[i].mined = 0 /\ tx[i].expiry <= tip => tx[i].died

\* Nothing happens between a selection and its lock.
FreshSelection ==
  \A o \in Owners : flow[o].phase = "selected" => \A n \in flow[o].ins : ~Spent(n)

\* A proposal inside its window has outlived every earlier spender of its notes.
Succession ==
  \A i \in TxIds : \A o \in Owners : \A n \in tx[i].ins \cap flow[o].ins :
    flow[o].phase = "proposed" /\ ~flow[o].exposed /\ Disciplined(n) => tx[i].died

SpendInv ==
  HeldInv /\ MinedBelow /\ ExpiredDied /\ FreshSelection /\ Succession /\ NoDoubleSpend

LEMMA InitSpend == Init => SpendInv
<1> SUFFICES ASSUME Init PROVE SpendInv
  OBVIOUS
<1>1. HeldInv
  BY InitHeld
<1>2. MinedBelow /\ ExpiredDied /\ FreshSelection /\ Succession /\ NoDoubleSpend
  BY DEF Init, Idle, Unused, MinedBelow, ExpiredDied, FreshSelection, Succession,
         NoDoubleSpend
<1> QED BY <1>1, <1>2 DEF SpendInv

\* What is not spent has only dead spenders.
LEMMA UnspentDied ==
  ASSUME TypeOK, MinedBelow, ExpiredDied, NEW n \in Notes, ~Spent(n),
         NEW i \in TxIds, n \in tx[i].ins
  PROVE  tx[i].died
<1>1. tx[i] \in Txs /\ tip \in Nat
  BY DEF TypeOK
<1>2. tx[i].mined \in Nat /\ tx[i].expiry \in Nat /\ tx[i].mined <= tip
  BY <1>1 DEF Txs, MinedBelow
<1>3. ~(tx[i].mined # 0 /\ tx[i].mined < tip + 1) /\ ~(tx[i].expiry >= tip + 1)
  BY DEF Spent, UnexpiredAt, Target
<1>4. tx[i].mined = 0 /\ tx[i].expiry <= tip
  BY <1>1, <1>2, <1>3
<1> QED BY <1>4 DEF ExpiredDied

\* What a step has to respect when it stores nothing: inputs and exposure of the
\* transactions are untouched and death is final.
LEMMA SpendFrame ==
  ASSUME SpendInv, HeldInv', MinedBelow', ExpiredDied', FreshSelection',
         \A i \in TxIds : /\ tx'[i].ins = tx[i].ins
                          /\ tx'[i].exposed = tx[i].exposed
                          /\ tx[i].died => tx'[i].died,
         \A i \in TxIds : \A o \in Owners : \A n \in tx[i].ins \cap flow'[o].ins :
            flow'[o].phase = "proposed" /\ ~flow'[o].exposed /\ Disciplined(n)
              => tx[i].died \/ (/\ n \in flow[o].ins
                                /\ flow[o].phase = "proposed"
                                /\ ~flow[o].exposed)
  PROVE  SpendInv'
<1>1. ASSUME NEW n \in Notes, Disciplined(n)' PROVE Disciplined(n)
  BY <1>1 DEF Disciplined
<1>2. ASSUME NEW i \in TxIds, NEW n \in tx[i].ins PROVE n \in Notes
  BY <1>2 DEF SpendInv, HeldInv, TypeOK, Txs
<1>3. Succession'
  <2>1. ASSUME NEW i \in TxIds, NEW o \in Owners, NEW n \in tx'[i].ins \cap flow'[o].ins,
               flow'[o].phase = "proposed", ~flow'[o].exposed, Disciplined(n)'
        PROVE  tx'[i].died
    <3>1. n \in tx[i].ins /\ Disciplined(n)
      BY <1>1, <1>2, <2>1
    <3>2. CASE tx[i].died
      BY <3>2
    <3>3. CASE n \in flow[o].ins /\ flow[o].phase = "proposed" /\ ~flow[o].exposed
      <4>1. tx[i].died
        BY <3>1, <3>3 DEF SpendInv, Succession
      <4> QED BY <4>1
    <3> QED BY <2>1, <3>1, <3>2, <3>3
  <2> QED BY <2>1 DEF Succession
<1>4. NoDoubleSpend'
  <2>1. ASSUME NEW i \in TxIds, NEW j \in TxIds \ {i}, NEW n \in tx'[i].ins \cap tx'[j].ins,
               Disciplined(n)'
        PROVE  tx'[i].died \/ tx'[j].died
    <3>1. n \in tx[i].ins \cap tx[j].ins /\ Disciplined(n)
      BY <1>1, <1>2, <2>1
    <3>2. tx[i].died \/ tx[j].died
      BY <3>1 DEF SpendInv, NoDoubleSpend
    <3> QED BY <3>2
  <2> QED BY <2>1 DEF NoDoubleSpend
<1> QED BY <1>3, <1>4 DEF SpendInv

LEMMA NextSpend == Shared /\ SpendInv /\ [Next]_vars => SpendInv'
<1> SUFFICES ASSUME Shared, SpendInv, [Next]_vars
             PROVE  SpendInv'
  OBVIOUS
<1>h. HeldInv /\ HeldInv'
  BY NextHeld DEF SpendInv
<1>t. TypeOK /\ TypeOK' /\ LockHeld
  BY <1>h DEF HeldInv
<1>i. MinedBelow /\ ExpiredDied /\ FreshSelection /\ Succession /\ NoDoubleSpend
  BY DEF SpendInv
<1>f. ASSUME NEW o \in Owners
      PROVE  flow[o] \in Flows /\ flow[o].ins \subseteq Notes
  BY <1>t DEF TypeOK, Flows
<1>k. ASSUME NEW o \in Owners, NEW f, Becomes(o, f)
      PROVE  flow'[o] = f /\ \A p \in Owners : p # o => flow'[p] = flow[p]
  BY <1>k, <1>t DEF TypeOK, Becomes
\* A step of one flow that touches neither the chain nor the transactions and
\* neither enters a proposal nor makes a selection.
<1>q. ASSUME NEW o \in Owners, UNCHANGED <<tip, tx>>,
             \A p \in Owners : p # o => flow'[p] = flow[p],
             flow'[o].phase # "selected",
             flow'[o].phase = "proposed" => flow'[o].exposed
      PROVE  SpendInv'
  <2>1. MinedBelow' /\ ExpiredDied'
    BY <1>i, <1>q DEF MinedBelow, ExpiredDied
  <2>2. FreshSelection'
    BY <1>i, <1>q DEF FreshSelection, Spent, Target, UnexpiredAt
  <2>3. \A i \in TxIds : tx'[i] = tx[i]
    BY <1>q
  <2>4. \A p \in Owners : flow'[p].phase = "proposed" /\ ~flow'[p].exposed => flow'[p] = flow[p]
    BY <1>q
  <2> QED BY <1>h, <2>1, <2>2, <2>3, <2>4, SpendFrame
<1>1. ASSUME NEW o \in Owners, Select(o) PROVE SpendInv'
  <2>1. PICK s \in SUBSET {n \in Notes : Eligible(o, n) /\ ~Spent(n)} :
           Becomes(o, [flow[o] EXCEPT
                         !.phase = IF o \in Lockers THEN "selected" ELSE "proposed",
                         !.ins = s, !.target = Target, !.exposed = o \notin Lockers])
    BY <1>1 DEF Select
  <2>2. /\ flow'[o].ins = s
        /\ flow'[o].phase = "proposed" => flow'[o].exposed
        /\ \A p \in Owners : p # o => flow'[p] = flow[p]
    <3>1. flow'[o] = [flow[o] EXCEPT
                        !.phase = IF o \in Lockers THEN "selected" ELSE "proposed",
                        !.ins = s, !.target = Target, !.exposed = o \notin Lockers]
      BY <1>k, <2>1
    <3>2. \A p \in Owners : p # o => flow'[p] = flow[p]
      BY <1>k, <2>1
    <3>3. CASE o \in Lockers
      BY <1>f, <3>1, <3>2, <3>3 DEF Flows
    <3>4. CASE o \notin Lockers
      BY <1>f, <3>1, <3>2, <3>4 DEF Flows
    <3> QED BY <3>3, <3>4
  <2>3. UNCHANGED <<tip, tx>>
    BY <1>1 DEF Select
  <2>4. \A n \in Notes : Spent(n)' = Spent(n)
    BY <2>3 DEF Spent, Target, UnexpiredAt
  <2>5. FreshSelection'
    <3>1. ASSUME NEW p \in Owners, flow'[p].phase = "selected", NEW n \in flow'[p].ins
          PROVE  ~Spent(n) /\ n \in Notes
      <4>1. CASE p = o
        BY <2>2, <3>1, <4>1
      <4>2. CASE p # o
        BY <1>f, <1>i, <2>2, <3>1, <4>2 DEF FreshSelection
      <4> QED BY <4>1, <4>2
    <3> QED BY <2>4, <3>1 DEF FreshSelection
  <2>6. MinedBelow' /\ ExpiredDied'
    BY <1>i, <2>3 DEF MinedBelow, ExpiredDied
  <2>7. \A p \in Owners : flow'[p].phase = "proposed" /\ ~flow'[p].exposed => flow'[p] = flow[p]
    BY <2>2
  <2> QED BY <1>h, <2>3, <2>5, <2>6, <2>7, SpendFrame
<1>2. ASSUME NEW o \in Owners, LockInputs(o) PROVE SpendInv'
  <2> DEFINE e == flow[o].target + Window[o]
  <2>1. /\ flow'[o].phase = "proposed"
        /\ flow'[o].ins = flow[o].ins
        /\ \A p \in Owners : p # o => flow'[p] = flow[p]
    <3>1. flow'[o] = [flow[o] EXCEPT !.phase = "proposed", !.expiry = e, !.exposed = e <= tip]
      BY <1>2, <1>k DEF LockInputs
    <3>2. \A p \in Owners : p # o => flow'[p] = flow[p]
      BY <1>2, <1>k DEF LockInputs
    <3> HIDE DEF e
    <3> QED BY <1>f, <3>1, <3>2 DEF Flows
  <2>2. UNCHANGED <<tip, tx>> /\ flow[o].phase = "selected"
    BY <1>2 DEF LockInputs
  <2>3. \A n \in Notes : Spent(n)' = Spent(n)
    BY <2>2 DEF Spent, Target, UnexpiredAt
  <2>4. FreshSelection'
    BY <1>f, <1>i, <2>1, <2>3 DEF FreshSelection
  <2>5. MinedBelow' /\ ExpiredDied'
    BY <1>i, <2>2 DEF MinedBelow, ExpiredDied
  <2>6. \A n \in flow[o].ins : ~Spent(n) /\ n \in Notes
    BY <1>f, <1>i, <2>2 DEF FreshSelection
  <2>7. ASSUME NEW i \in TxIds, NEW p \in Owners, NEW n \in tx[i].ins \cap flow'[p].ins,
               flow'[p].phase = "proposed", ~flow'[p].exposed
        PROVE  tx[i].died \/ (/\ n \in flow[p].ins
                              /\ flow[p].phase = "proposed"
                              /\ ~flow[p].exposed)
    <3>1. CASE p = o
      BY <1>i, <1>t, <2>1, <2>6, <2>7, <3>1, UnspentDied
    <3>2. CASE p # o
      BY <2>1, <2>7, <3>2
    <3> QED BY <3>1, <3>2
  <2> QED BY <1>h, <2>2, <2>4, <2>5, <2>7, SpendFrame
<1>3. ASSUME NEW o \in Owners, LockRefused(o) PROVE SpendInv'
  BY <1>3, <1>k, <1>q DEF LockRefused, Idle
<1>4. ASSUME NEW o \in Owners, StoreTx(o) PROVE SpendInv'
  <2>1. PICK i \in TxIds :
           /\ tx[i].ins = {}
           /\ tx' = [tx EXCEPT ![i] = [ins |-> flow[o].ins, expiry |-> flow[o].target + TxDelta,
                                       mined |-> 0, exposed |-> flow[o].exposed,
                                       died |-> flow[o].target + TxDelta <= tip]]
    BY <1>4 DEF StoreTx
  <2>2. /\ tx'[i].ins = flow[o].ins /\ tx'[i].mined = 0
        /\ tx'[i].expiry = flow[o].target + TxDelta
        /\ flow[o].target + TxDelta <= tip => tx'[i].died
        /\ \A j \in TxIds \ {i} : tx'[j] = tx[j]
    BY <1>t, <2>1 DEF TypeOK
  <2>3. /\ \A p \in Owners : p # o => flow'[p] = flow[p]
        /\ flow'[o].phase = "idle" /\ flow'[o].ins = {}
        /\ tip' = tip /\ flow[o].phase = "proposed"
    BY <1>4, <1>k DEF StoreTx, Idle
  <2>4. \A p \in Owners : flow'[p].phase # "selected"
    BY <1>4, <2>3 DEF StoreTx, HandleFree
  <2>5. FreshSelection'
    BY <2>4 DEF FreshSelection
  <2>6. MinedBelow'
    BY <1>i, <1>t, <2>2, <2>3 DEF MinedBelow, TypeOK
  <2>7. ExpiredDied'
    BY <1>i, <2>2, <2>3 DEF ExpiredDied
  <2>8. ASSUME NEW n \in Notes, Disciplined(n)'
        PROVE  Disciplined(n) /\ (n \in flow[o].ins => ~flow[o].exposed)
    BY <1>4, <1>t, <2>8, StoreHistory
  <2>9. Succession'
    <3>1. ASSUME NEW j \in TxIds, NEW p \in Owners, NEW n \in tx'[j].ins \cap flow'[p].ins,
                 flow'[p].phase = "proposed", ~flow'[p].exposed, Disciplined(n)'
          PROVE  tx'[j].died
      <4>1. p # o /\ flow'[p] = flow[p] /\ n \in Notes
        BY <1>f, <2>3, <3>1
      <4>2. Disciplined(n) /\ (n \in flow[o].ins => ~flow[o].exposed)
        BY <2>8, <3>1, <4>1
      <4>3. CASE j = i
        BY <1>t, <2>2, <2>3, <3>1, <4>1, <4>2, <4>3, Exclusion
      <4>4. CASE j # i
        BY <1>i, <2>2, <3>1, <4>1, <4>2, <4>4 DEF Succession
      <4> QED BY <4>3, <4>4
    <3> QED BY <3>1 DEF Succession
  <2>10. NoDoubleSpend'
    <3>1. ASSUME NEW j \in TxIds \ {i}, NEW n \in tx'[i].ins \cap tx'[j].ins, Disciplined(n)'
          PROVE  tx'[j].died
      <4>1. n \in flow[o].ins /\ n \in tx[j].ins /\ tx'[j] = tx[j] /\ n \in Notes
        BY <1>f, <2>2, <3>1
      <4>2. Disciplined(n) /\ ~flow[o].exposed
        BY <2>8, <3>1, <4>1
      <4> QED BY <1>i, <2>3, <4>1, <4>2 DEF Succession
    <3>2. ASSUME NEW j \in TxIds \ {i}, NEW k \in TxIds \ {i, j},
                 NEW n \in tx'[j].ins \cap tx'[k].ins, Disciplined(n)'
          PROVE  tx'[j].died \/ tx'[k].died
      <4>1. tx'[j] = tx[j] /\ tx'[k] = tx[k]
        BY <2>2, <3>2
      <4>2. n \in Notes
        BY <1>t, <3>2, <4>1 DEF TypeOK, Txs
      <4>3. Disciplined(n)
        BY <2>8, <3>2, <4>2
      <4> QED BY <1>i, <3>2, <4>1, <4>3 DEF NoDoubleSpend
    <3> QED BY <3>1, <3>2 DEF NoDoubleSpend
  <2> QED BY <1>h, <2>5, <2>6, <2>7, <2>9, <2>10 DEF SpendInv
<1>5. ASSUME NEW o \in Owners, Abandon(o) PROVE SpendInv'
  <2>1. flow'[o].phase = "releasing"
    BY <1>5, <1>f, <1>k DEF Abandon, Flows
  <2> QED BY <1>5, <1>k, <1>q, <2>1 DEF Abandon
<1>6. ASSUME NEW o \in Owners, UnlockNext(o) PROVE SpendInv'
  <2>1. PICK n \in flow[o].ins :
           Becomes(o, IF flow[o].ins = {n} THEN Idle(flow[o].crashed)
                         ELSE [flow[o] EXCEPT !.ins = flow[o].ins \ {n}])
    BY <1>6 DEF UnlockNext
  <2>2. flow'[o].phase \in {"idle", "releasing"}
    <3>1. flow[o].phase = "releasing"
      BY <1>6 DEF UnlockNext
    <3>2. CASE flow[o].ins = {n}
      BY <1>k, <2>1, <3>2 DEF Idle
    <3>3. CASE flow[o].ins # {n}
      <4>1. flow'[o] = [flow[o] EXCEPT !.ins = flow[o].ins \ {n}]
        BY <1>k, <2>1, <3>3
      <4> QED BY <1>f, <3>1, <4>1 DEF Flows
    <3> QED BY <3>2, <3>3
  <2> QED BY <1>6, <1>k, <1>q, <2>1, <2>2 DEF UnlockNext
<1>7. ASSUME NEW o \in Owners, Crash(o) PROVE SpendInv'
  BY <1>7, <1>k, <1>q DEF Crash, Idle
<1>8. ASSUME NEW o \in Owners, ReleaseOwner(o) PROVE SpendInv'
  <2>1. flow'[o] = Expose(flow[o]) /\ \A p \in Owners : p # o => flow'[p] = flow[p]
    BY <1>8, <1>k DEF ReleaseOwner
  <2>2. flow[o].phase # "selected"
    BY <1>8 DEF ReleaseOwner
  <2>3. flow'[o].phase # "selected" /\ (flow'[o].phase = "proposed" => flow'[o].exposed)
    BY <1>f, <2>1, <2>2 DEF Expose, Flows
  <2> QED BY <1>8, <1>q, <2>1, <2>3 DEF ReleaseOwner
<1>9. CASE ClearLockedOutputs
  <2>1. ASSUME NEW o \in Owners
        PROVE  flow'[o].phase # "selected" /\ (flow'[o].phase = "proposed" => flow'[o].exposed)
    BY <1>9, <1>f DEF ClearLockedOutputs, Expose, Flows
  <2>2. UNCHANGED <<tip, tx>>
    BY <1>9 DEF ClearLockedOutputs
  <2>3. MinedBelow' /\ ExpiredDied' /\ FreshSelection'
    BY <1>i, <2>1, <2>2 DEF MinedBelow, ExpiredDied, FreshSelection
  <2> QED BY <1>h, <2>1, <2>2, <2>3, SpendFrame
<1>10. CASE MineBlock
  <2>1. PICK m \in SUBSET {i \in TxIds : tx[i].ins # {} /\ tx[i].mined = 0 /\ tx[i].expiry >= tip + 1} :
           tx' = [i \in TxIds |->
                    Aged(IF i \in m THEN [tx[i] EXCEPT !.mined = tip + 1] ELSE tx[i], tip + 1)]
    BY <1>10 DEF MineBlock
  <2>2. tip' = tip + 1 /\ tip \in Nat
    BY <1>10, <1>t DEF MineBlock, TypeOK
  <2>3. ASSUME NEW i \in TxIds
        PROVE  /\ tx'[i].ins = tx[i].ins
               /\ tx'[i].exposed = tx[i].exposed
               /\ tx[i].died => tx'[i].died
               /\ tx'[i].mined <= tip'
               /\ tx'[i].ins # {} /\ tx'[i].mined = 0 /\ tx'[i].expiry <= tip' => tx'[i].died
    <3>1. tx[i] \in Txs /\ tx[i].mined <= tip
      BY <1>i, <1>t DEF TypeOK, MinedBelow
    <3>2. CASE i \in m
      BY <2>1, <2>2, <3>1, <3>2 DEF Aged, Txs
    <3>3. CASE i \notin m
      BY <2>1, <2>2, <3>1, <3>3 DEF Aged, Txs
    <3> QED BY <3>2, <3>3
  <2>4. ASSUME NEW o \in Owners
        PROVE  /\ flow'[o].phase # "selected"
               /\ flow'[o].phase = "proposed" /\ ~flow'[o].exposed => flow'[o] = flow[o]
    <3>1. flow'[o] = ExposedAt(flow[o], tip + 1) /\ flow[o].phase # "selected"
      BY <1>10 DEF MineBlock
    <3> QED BY <1>f, <3>1 DEF ExposedAt, Expose, Flows
  <2>5. MinedBelow' /\ ExpiredDied'
    BY <2>3 DEF MinedBelow, ExpiredDied
  <2>6. FreshSelection'
    BY <2>4 DEF FreshSelection
  <2> QED BY <1>h, <2>3, <2>4, <2>5, <2>6, SpendFrame
<1>11. CASE Rewind
  <2>1. PICK h \in 1..MaxHeight :
           /\ tip' = h
           /\ tx' = [i \in TxIds |-> Aged([tx[i] EXCEPT !.mined = IF @ > h THEN 0 ELSE @], h)]
    BY <1>11 DEF Rewind
  <2>2. h \in Nat
    BY LockAssumption
  <2>3. ASSUME NEW i \in TxIds
        PROVE  /\ tx'[i].ins = tx[i].ins
               /\ tx'[i].exposed = tx[i].exposed
               /\ tx[i].died => tx'[i].died
               /\ tx'[i].mined <= tip'
               /\ tx'[i].ins # {} /\ tx'[i].mined = 0 /\ tx'[i].expiry <= tip' => tx'[i].died
    <3>1. tx[i] \in Txs
      BY <1>t DEF TypeOK
    <3> DEFINE t == [tx[i] EXCEPT !.mined = IF @ > h THEN 0 ELSE @]
    <3>2. /\ t \in Txs /\ t.mined <= h
          /\ t.ins = tx[i].ins /\ t.exposed = tx[i].exposed /\ t.died = tx[i].died
      BY <2>2, <3>1 DEF Txs
    <3>3. tx'[i] = Aged(t, h)
      BY <2>1
    <3> HIDE DEF t
    <3> QED BY <2>1, <2>2, <3>2, <3>3 DEF Aged, Txs
  <2>4. \A o \in Owners : flow'[o] = flow[o] /\ flow[o].phase # "selected"
    BY <1>11 DEF Rewind
  <2>5. MinedBelow' /\ ExpiredDied' /\ FreshSelection'
    BY <2>3, <2>4 DEF MinedBelow, ExpiredDied, FreshSelection
  <2> QED BY <1>h, <2>3, <2>4, <2>5, SpendFrame
<1>12. CASE UNCHANGED vars
  <2>1. UNCHANGED <<tip, lock, flow, tx>>
    BY <1>12 DEF vars
  <2>2. MinedBelow' /\ ExpiredDied' /\ FreshSelection'
    BY <1>i, <2>1 DEF MinedBelow, ExpiredDied, FreshSelection, Spent, Target, UnexpiredAt
  <2> QED BY <1>h, <2>1, <2>2, SpendFrame
<1> QED
  BY <1>1, <1>2, <1>3, <1>4, <1>5, <1>6, <1>7, <1>8, <1>9, <1>10, <1>11, <1>12 DEF Next

\* While every call goes through one exclusively borrowed handle, a note that is
\* only ever spent by flows inside their lock windows never has two stored
\* spenders of which neither has expired: the lock protects it until the store,
\* the spend record from then on (propose_transfer, spent_notes_clause).
THEOREM NoDoubleSpending ==
  ASSUME Shared
  PROVE  Spec => []NoDoubleSpend
<1>1. Init => SpendInv
  BY InitSpend
<1>2. SpendInv /\ [Next]_vars => SpendInv'
  BY NextSpend
<1>3. SpendInv => NoDoubleSpend
  BY DEF SpendInv
<1> QED
  BY <1>1, <1>2, <1>3, PTL DEF Spec

-----------------------------------------------------------------------------
(* Every lock is accounted for *)

OrphanInv == TypeOK /\ NoOrphanLock

LEMMA InitOrphan == Init => OrphanInv
<1> SUFFICES ASSUME Init PROVE TypeOK /\ NoOrphanLock
  BY DEF OrphanInv
<1>1. TypeOK
  BY InitType
<1> QED BY <1>1, LockAssumption DEF Init, NoOrphanLock, Unlocked, Row

LEMMA NextOrphan == OrphanInv /\ [Next]_vars => OrphanInv'
<1> SUFFICES ASSUME OrphanInv, [Next]_vars
             PROVE  NoOrphanLock'
  BY NextType DEF OrphanInv
<1>t. TypeOK /\ NoOrphanLock
  BY DEF OrphanInv
<1>f. ASSUME NEW o \in Owners
      PROVE  flow[o] \in Flows /\ o # NoOwner
  BY <1>t, LockAssumption DEF TypeOK
<1>k. ASSUME NEW o \in Owners, NEW f, Becomes(o, f)
      PROVE  flow'[o] = f /\ \A p \in Owners : p # o => flow'[p] = flow[p]
  BY <1>k, <1>t DEF TypeOK, Becomes
\* A step of one flow after which no lock is new and each lock the flow leaves
\* behind is one it had already lost, or loses now, to a crash.
<1>q. ASSUME NEW o \in Owners,
             \A p \in Owners : p # o => flow'[p] = flow[p],
             \A n \in Notes : lock'[n] = lock[n] \/ lock'[n].owner \in {o, NoOwner},
             \A n \in Notes : lock'[n].owner = o =>
               \/ flow'[o].phase \in {"proposed", "releasing"} /\ n \in flow'[o].ins
               \/ flow'[o].crashed
      PROVE  NoOrphanLock'
  BY <1>f, <1>q, <1>t DEF NoOrphanLock
<1>1. ASSUME NEW o \in Owners, Select(o) PROVE NoOrphanLock'
  <2>1. PICK s :
           Becomes(o, [flow[o] EXCEPT
                         !.phase = IF o \in Lockers THEN "selected" ELSE "proposed",
                         !.ins = s, !.target = Target, !.exposed = o \notin Lockers])
    BY <1>1 DEF Select
  <2>2. flow[o].phase = "idle" /\ lock' = lock
    BY <1>1 DEF Select
  <2>3. flow'[o].crashed = flow[o].crashed
    <3>1. flow'[o] = [flow[o] EXCEPT
                        !.phase = IF o \in Lockers THEN "selected" ELSE "proposed",
                        !.ins = s, !.target = Target, !.exposed = o \notin Lockers]
      BY <1>k, <2>1
    <3> QED BY <1>f, <3>1 DEF Flows
  <2>4. \A n \in Notes : lock[n].owner = o => flow[o].crashed
    BY <1>t, <2>2 DEF NoOrphanLock
  <2> QED BY <1>k, <1>q, <2>1, <2>2, <2>3, <2>4
<1>2. ASSUME NEW o \in Owners, LockInputs(o) PROVE NoOrphanLock'
  <2> DEFINE e == flow[o].target + Window[o]
  <2>1. /\ flow'[o].phase = "proposed" /\ flow'[o].ins = flow[o].ins
        /\ flow'[o].crashed = flow[o].crashed
    <3>1. flow'[o] = [flow[o] EXCEPT !.phase = "proposed", !.expiry = e, !.exposed = e <= tip]
      BY <1>2, <1>k DEF LockInputs
    <3> HIDE DEF e
    <3> QED BY <1>f, <3>1 DEF Flows
  <2>2. \A n \in Notes : IF n \in flow[o].ins THEN lock'[n].owner = o ELSE lock'[n] = lock[n]
    BY <1>2 DEF LockInputs, Row
  <2>3. \A n \in Notes : lock[n].owner = o => flow[o].crashed
    BY <1>2, <1>t DEF NoOrphanLock, LockInputs
  <2>4. \A p \in Owners : p # o => flow'[p] = flow[p]
    BY <1>2, <1>k DEF LockInputs
  <2> QED BY <1>q, <2>1, <2>2, <2>3, <2>4
<1>3. ASSUME NEW o \in Owners, LockRefused(o) PROVE NoOrphanLock'
  <2>1. \A n \in Notes : lock[n].owner = o => flow[o].crashed
    BY <1>3, <1>t DEF NoOrphanLock, LockRefused
  <2> QED BY <1>3, <1>k, <1>q, <2>1 DEF LockRefused, Idle
<1>4. ASSUME NEW o \in Owners, StoreTx(o) PROVE NoOrphanLock'
  <2>1. \A n \in Notes : lock'[n] = IF n \in flow[o].ins THEN Unlocked ELSE lock[n]
    BY <1>4 DEF StoreTx, UnlockSpent
  <2>2. \A n \in Notes : lock[n].owner = o /\ n \notin flow[o].ins => flow[o].crashed
    BY <1>t DEF NoOrphanLock
  <2>3. flow'[o].crashed = flow[o].crashed /\ \A p \in Owners : p # o => flow'[p] = flow[p]
    BY <1>4, <1>k DEF StoreTx, Idle
  <2> QED BY <1>f, <1>q, <2>1, <2>2, <2>3 DEF Unlocked, Row
<1>5. ASSUME NEW o \in Owners, Abandon(o) PROVE NoOrphanLock'
  <2>1. flow'[o] = [flow[o] EXCEPT !.phase = "releasing"] /\ lock' = lock
    BY <1>5, <1>k DEF Abandon
  <2>2. flow'[o].phase = "releasing" /\ flow'[o].ins = flow[o].ins
        /\ flow'[o].crashed = flow[o].crashed
    BY <1>f, <2>1 DEF Flows
  <2>3. \A n \in Notes : lock[n].owner = o => n \in flow[o].ins \/ flow[o].crashed
    BY <1>t DEF NoOrphanLock
  <2>4. \A p \in Owners : p # o => flow'[p] = flow[p]
    BY <1>5, <1>k DEF Abandon
  <2> QED BY <1>q, <2>1, <2>2, <2>3, <2>4
<1>6. ASSUME NEW o \in Owners, UnlockNext(o) PROVE NoOrphanLock'
  <2>1. PICK n \in flow[o].ins :
           /\ lock' = UnlockOutput(o, n)
           /\ Becomes(o, IF flow[o].ins = {n} THEN Idle(flow[o].crashed)
                         ELSE [flow[o] EXCEPT !.ins = flow[o].ins \ {n}])
    BY <1>6 DEF UnlockNext
  <2>2. /\ \A m \in Notes : lock'[m] = lock[m] \/ lock'[m] = Unlocked
        /\ lock'[n].owner # o
    BY <1>f, <1>t, <2>1 DEF UnlockOutput, TypeOK, Flows, Unlocked, Row
  <2>3. flow'[o].crashed = flow[o].crashed /\ flow[o].phase = "releasing"
    BY <1>6, <1>f, <1>k, <2>1 DEF Idle, Flows, UnlockNext
  <2>4. ASSUME NEW m \in Notes, m # n, lock'[m].owner = o
        PROVE  \/ flow'[o].phase = "releasing" /\ m \in flow'[o].ins
               \/ flow'[o].crashed
    <3>1. lock[m].owner = o
      BY <1>f, <2>2, <2>4 DEF Unlocked, Row
    <3>2. CASE flow[o].crashed
      BY <2>3, <3>2
    <3>3. CASE m \in flow[o].ins
      <4>1. flow'[o] = [flow[o] EXCEPT !.ins = flow[o].ins \ {n}]
        BY <1>k, <2>1, <2>4, <3>3
      <4> QED BY <1>f, <2>3, <2>4, <3>3, <4>1 DEF Flows
    <3> QED BY <1>t, <3>1, <3>2, <3>3 DEF NoOrphanLock
  <2>5. \A p \in Owners : p # o => flow'[p] = flow[p]
    BY <1>k, <2>1
  <2>6. \A m \in Notes : lock'[m] = lock[m] \/ lock'[m].owner \in {o, NoOwner}
    BY <2>2 DEF Unlocked, Row
  <2> QED BY <1>q, <2>2, <2>4, <2>5, <2>6
<1>7. ASSUME NEW o \in Owners, Crash(o) PROVE NoOrphanLock'
  BY <1>7, <1>k, <1>q DEF Crash, Idle
<1>8. ASSUME NEW o \in Owners, ReleaseOwner(o) PROVE NoOrphanLock'
  <2>1. \A n \in Notes : lock'[n] = IF lock[n].owner = o THEN Unlocked ELSE lock[n]
    BY <1>8 DEF ReleaseOwner
  <2>2. \A p \in Owners : p # o => flow'[p] = flow[p]
    BY <1>8, <1>k DEF ReleaseOwner
  <2> QED BY <1>f, <1>q, <2>1, <2>2 DEF Unlocked, Row
<1>9. CASE ClearLockedOutputs
  BY <1>9, <1>f DEF ClearLockedOutputs, NoOrphanLock, Unlocked, Row
<1>10. CASE MineBlock
  <2>1. ASSUME NEW o \in Owners
        PROVE  flow'[o].phase = flow[o].phase /\ flow'[o].ins = flow[o].ins
               /\ flow'[o].crashed = flow[o].crashed
    <3>1. flow'[o] = ExposedAt(flow[o], tip + 1)
      BY <1>10 DEF MineBlock
    <3> QED BY <1>f, <3>1 DEF ExposedAt, Expose, Flows
  <2>2. lock' = lock
    BY <1>10 DEF MineBlock
  <2> QED BY <1>t, <2>1, <2>2 DEF NoOrphanLock
<1>11. CASE Rewind
  BY <1>11, <1>t DEF Rewind, NoOrphanLock
<1>12. CASE UNCHANGED vars
  BY <1>12, <1>t DEF vars, NoOrphanLock
<1> QED
  BY <1>1, <1>2, <1>3, <1>4, <1>5, <1>6, <1>7, <1>8, <1>9, <1>10, <1>11, <1>12 DEF Next

\* No flow that ended without a crash leaves a lock behind: a refused batch
\* locks nothing, storing releases every input, abandoning releases them one by
\* one (lock_outputs, unlock_spent_notes, unlock_proposal_inputs).
THEOREM LocksAccounted == Spec => []NoOrphanLock
<1>1. Init => OrphanInv
  BY InitOrphan
<1>2. OrphanInv /\ [Next]_vars => OrphanInv'
  BY NextOrphan
<1>3. OrphanInv => NoOrphanLock
  BY DEF OrphanInv
<1> QED
  BY <1>1, <1>2, <1>3, PTL DEF Spec
=============================================================================
