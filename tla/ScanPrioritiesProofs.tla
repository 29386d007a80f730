------------------------ MODULE ScanPrioritiesProofs ------------------------
(***************************************************************************)
(* Theorems about ScanPriorities, for any chain, accounts, pools, subtrees *)
(* and number of reorgs, truncations, rewinds and rescans.  ScanQueue      *)
(* implements these priorities with its rows; its properties are those     *)
(* proved here, of the priorities its rows give.                           *)
(***************************************************************************)
EXTENDS ScanPriorities, DataInduction

-----------------------------------------------------------------------------
(* Numbers *)

LEMMA Constants ==
  /\ MaxHeight \in Nat \ {0} /\ PruningDepth \in Nat \ {0} /\ VerifyLookahead \in Nat \ {0}
  /\ Heights = 1..MaxHeight
BY RangeAssumption DEF Heights, SaplingActivation

LEMMA MinOfIs ==
  ASSUME NEW S \in SUBSET Nat
  PROVE  /\ MinOf(S) \in Nat /\ \A x \in S : MinOf(S) <= x
         /\ S # {} => MinOf(S) \in S
<1>1. CASE S = {}
  BY <1>1 DEF MinOf
<1>2. CASE S # {}
  <2>1. \E x \in S : \A y \in S : x <= y
    BY <1>2, LeastNumber
  <2>2. MinOf(S) \in S /\ \A y \in S : MinOf(S) <= y
    BY <1>2, <2>1 DEF MinOf
  <2> QED BY <2>2
<1> QED BY <1>1, <1>2

LEMMA MaxOfIs ==
  ASSUME NEW n \in Nat, NEW S \in SUBSET (0..n)
  PROVE  /\ MaxOf(S) \in 0..n /\ \A x \in S : x <= MaxOf(S)
         /\ S # {} => MaxOf(S) \in S
<1>1. CASE S = {}
  BY <1>1 DEF MaxOf
<1>2. CASE S # {}
  <2> DEFINE T == {n - x : x \in S}
  <2>0. \A x \in S : n - x \in Nat
    OBVIOUS
  <2>1. T \subseteq Nat /\ T # {}
    BY <1>2, <2>0
  <2>2. PICK k \in T : \A l \in T : k <= l
    BY <2>1, LeastNumber
  <2>3. PICK m \in S : k = n - m
    BY <2>2
  <2>4. \A x \in S : x <= m
    <3> TAKE x \in S
    <3>1. k <= n - x
      BY <2>2
    <3> QED BY <2>3, <3>1
  <2>5. MaxOf(S) \in S /\ \A x \in S : x <= MaxOf(S)
    BY <1>2, <2>3, <2>4 DEF MaxOf
  <2> QED BY <2>5
<1> QED BY <1>1, <1>2

-----------------------------------------------------------------------------
(* Queries *)

Values == {Unqueued} \cup Priorities
Queues == [Heights -> Values]

LEMMA TipIs ==
  ASSUME NEW q \in Queues
  PROVE  /\ KnownTip(q) \in 0..MaxHeight
         /\ \A h \in Heights : q[h] # Unqueued => h <= KnownTip(q)
         /\ KnownTip(q) # 0 => KnownTip(q) \in Heights /\ q[KnownTip(q)] # Unqueued
<1> DEFINE S == {h \in Heights : q[h] # Unqueued}
<1>1. S \in SUBSET (0..MaxHeight) /\ MaxHeight \in Nat
  BY Constants
<1>2. /\ MaxOf(S) \in 0..MaxHeight /\ \A x \in S : x <= MaxOf(S)
      /\ S # {} => MaxOf(S) \in S
  BY <1>1, MaxOfIs
<1>3. S = {} => MaxOf(S) = 0
  BY DEF MaxOf
<1>4. KnownTip(q) = MaxOf(S)
  BY DEF KnownTip
<1> QED BY <1>2, <1>3, <1>4

\* Some account was born by x, where b gives the birthdays.
Born(b, x) == \E a \in Accounts : b[a] # 0 /\ b[a] <= x

LEMMA BirthdayIs ==
  ASSUME born \in [Accounts -> 0..MaxHeight + 1]
  PROVE  /\ WalletBirthday \in 0..MaxHeight + 1
         /\ Held = {} => WalletBirthday = 0
         /\ \A a \in Held : WalletBirthday <= born[a]
         /\ Held # {} => WalletBirthday # 0 /\ \A x \in Int : WalletBirthday <= x <=> Born(born, x)
<1> DEFINE S == {born[a] : a \in Held}
<1>1. S \in SUBSET (0..MaxHeight + 1) /\ S \in SUBSET Nat /\ 0 \notin S /\ MaxHeight \in Nat
  BY Constants DEF Held
<1>2. MinOf(S) \in Nat /\ (\A x \in S : MinOf(S) <= x) /\ (S # {} => MinOf(S) \in S)
  BY <1>1, MinOfIs
<1>3. WalletBirthday = MinOf(S) /\ (S = {} => MinOf(S) = 0)
  BY DEF WalletBirthday, MinOf
<1>4. Held = {} <=> S = {}
  OBVIOUS
<1>5. WalletBirthday \in 0..MaxHeight + 1
  BY <1>1, <1>2, <1>3
<1>6. \A a \in Held : WalletBirthday <= born[a]
  BY <1>2, <1>3
<1>7. ASSUME Held # {} PROVE WalletBirthday # 0 /\ \A x \in Int : WalletBirthday <= x <=> Born(born, x)
  <2>1. PICK a \in Held : WalletBirthday = born[a]
    BY <1>2, <1>3, <1>4, <1>7
  <2>2. \A x \in Int : WalletBirthday <= x => Born(born, x)
    BY <2>1 DEF Born, Held
  <2>3. ASSUME NEW x \in Int, Born(born, x) PROVE WalletBirthday <= x
    <3>1. PICK c \in Accounts : born[c] # 0 /\ born[c] <= x
      BY <2>3 DEF Born
    <3>2. c \in Held /\ born[c] \in Nat
      BY <3>1, Constants DEF Held
    <3>3. WalletBirthday <= born[c] /\ WalletBirthday \in Nat
      BY <1>5, <1>6, <3>2, Constants
    <3> QED BY <3>1, <3>2, <3>3
  <2> QED BY <2>1, <2>2, <2>3 DEF Held
<1> QED BY <1>3, <1>4, <1>5, <1>6, <1>7

LEMMA ScannedIs ==
  ASSUME blocks \subseteq Heights
  PROVE  /\ MaxScanned \in 0..MaxHeight /\ \A b \in blocks : b <= MaxScanned
         /\ MaxScanned # 0 => MaxScanned \in blocks
<1>1. blocks \in SUBSET (0..MaxHeight) /\ MaxHeight \in Nat
  BY Constants
<1>2. /\ MaxOf(blocks) \in 0..MaxHeight /\ \A x \in blocks : x <= MaxOf(blocks)
      /\ blocks # {} => MaxOf(blocks) \in blocks
  BY <1>1, MaxOfIs
<1>3. blocks = {} => MaxOf(blocks) = 0
  BY DEF MaxOf
<1> QED BY <1>2, <1>3 DEF MaxScanned

-----------------------------------------------------------------------------
(* Merging an edit *)

Entry(r) == /\ r.start \in Nat /\ r.end \in 0..(MaxHeight + 1) /\ r.pri \in Values
            /\ r.pri = Unqueued => r.end = 0
IsEdit(e) == /\ e.start \in Int /\ e.end \in Int
             /\ \A i \in 1..3 : Entry(e.entries[i])
In(h, r) == h \in r.start..(r.end - 1)

\* How one entry changes the priority of a height from v to w.
Changes(h, r, force, v, w) ==
  \/ w = v
  \/ v = Unqueued /\ w = Historic
  \/ In(h, r) /\ w = r.pri /\ (v = Unqueued \/ Prevails(r.pri, v, force))

LEMMA InsertedChanges ==
  ASSUME NEW h, NEW v, NEW r, NEW spanned, NEW force
  PROVE  Changes(h, r, force, v, Inserted(h, v, r, spanned, force))
BY DEF Changes, Inserted, In

LEMMA MergedSteps ==
  ASSUME NEW q \in Queues, NEW e, NEW h \in Heights
  PROVE  \E v0, v1, v2 :
           /\ v0 = IF q[h] = Unqueued /\ h \in Spanned(q, e, 0) THEN Historic ELSE q[h]
           /\ v1 = Inserted(h, v0, e.entries[1], Spanned(q, e, 1), e.force)
           /\ v2 = Inserted(h, v1, e.entries[2], Spanned(q, e, 2), e.force)
           /\ Merged(q, e)[h] = Inserted(h, v2, e.entries[3], Spanned(q, e, 3), e.force)
<1>1. /\ [i \in 0..3 |-> Spanned(q, e, i)][0] = Spanned(q, e, 0)
      /\ [i \in 0..3 |-> Spanned(q, e, i)][1] = Spanned(q, e, 1)
      /\ [i \in 0..3 |-> Spanned(q, e, i)][2] = Spanned(q, e, 2)
      /\ [i \in 0..3 |-> Spanned(q, e, i)][3] = Spanned(q, e, 3)
  OBVIOUS
<1> DEFINE v0 == IF q[h] = Unqueued /\ h \in Spanned(q, e, 0) THEN Historic ELSE q[h]
           v1 == Inserted(h, v0, e.entries[1], Spanned(q, e, 1), e.force)
           v2 == Inserted(h, v1, e.entries[2], Spanned(q, e, 2), e.force)
<1>2. Merged(q, e)[h] = Inserted(h, v2, e.entries[3], Spanned(q, e, 3), e.force)
  BY <1>1 DEF Merged
<1> QED BY <1>2

LEMMA MergedChanges ==
  ASSUME NEW q \in Queues, NEW e, NEW h \in Heights
  PROVE  \E v0, v1, v2 :
           /\ v0 = q[h] \/ (q[h] = Unqueued /\ v0 = Historic)
           /\ Changes(h, e.entries[1], e.force, v0, v1)
           /\ Changes(h, e.entries[2], e.force, v1, v2)
           /\ Changes(h, e.entries[3], e.force, v2, Merged(q, e)[h])
<1>1. PICK v0, v1, v2 :
           /\ v0 = IF q[h] = Unqueued /\ h \in Spanned(q, e, 0) THEN Historic ELSE q[h]
           /\ v1 = Inserted(h, v0, e.entries[1], Spanned(q, e, 1), e.force)
           /\ v2 = Inserted(h, v1, e.entries[2], Spanned(q, e, 2), e.force)
           /\ Merged(q, e)[h] = Inserted(h, v2, e.entries[3], Spanned(q, e, 3), e.force)
  BY MergedSteps
<1>2. /\ Changes(h, e.entries[1], e.force, v0, v1)
      /\ Changes(h, e.entries[2], e.force, v1, v2)
      /\ Changes(h, e.entries[3], e.force, v2, Merged(q, e)[h])
  BY <1>1, InsertedChanges
<1>3. v0 = q[h] \/ (q[h] = Unqueued /\ v0 = Historic)
  BY <1>1
<1> QED BY <1>2, <1>3

LEMMA ChangesKeep ==
  ASSUME NEW h \in Heights, NEW r, Entry(r), NEW force, NEW v \in Values, NEW w,
         Changes(h, r, force, v, w)
  PROVE  /\ w \in Values
         /\ v # Unqueued => w # Unqueued
         /\ v >= Scanned => w >= Scanned
         /\ v >= Historic /\ r.pri # Scanned => w >= Historic
         /\ w = Scanned => v = Scanned \/ (In(h, r) /\ r.pri = Scanned)
<1>1. In(h, r) => r.pri \in Priorities
  BY Constants DEF In, Entry, Values
<1>2. \A x \in Values : x \in -1..6
  BY DEF Values, Unqueued, Priorities, Ignored, Verify
<1>3. w \in Values
  BY <1>1 DEF Changes, Values, Priorities, Ignored, Historic, Verify, Scanned, Unqueued
<1>4. CASE w = v
  BY <1>3, <1>4
<1>5. CASE v = Unqueued /\ w = Historic
  BY <1>3, <1>5 DEF Unqueued, Historic, Scanned
<1>6. CASE In(h, r) /\ w = r.pri /\ v = Unqueued
  BY <1>1, <1>3, <1>6 DEF Unqueued, Historic, Scanned, Priorities, Ignored, Verify
<1>7. CASE In(h, r) /\ w = r.pri /\ Prevails(r.pri, v, force)
  <2>1. w \in 0..6 /\ v \in -1..6
    BY <1>1, <1>2, <1>7 DEF Priorities, Ignored, Verify
  <2>2. w \in {6, 1} \/ w > v
    BY <1>7 DEF Prevails, Verify, Scanned
  <2> QED BY <1>3, <1>7, <2>1, <2>2 DEF Unqueued, Historic, Scanned
<1> QED BY <1>4, <1>5, <1>6, <1>7 DEF Changes

LEMMA MergedKeeps ==
  ASSUME NEW q \in Queues, NEW e, IsEdit(e)
  PROVE  /\ Merged(q, e) \in Queues
         /\ \A h \in Heights :
              /\ q[h] # Unqueued => Merged(q, e)[h] # Unqueued
              /\ q[h] >= Scanned => Merged(q, e)[h] >= Scanned
              /\ q[h] >= Historic /\ (\A i \in 1..3 : e.entries[i].pri # Scanned) =>
                   Merged(q, e)[h] >= Historic
              /\ Merged(q, e)[h] = Scanned =>
                   \/ q[h] = Scanned
                   \/ \E i \in 1..3 : In(h, e.entries[i]) /\ e.entries[i].pri = Scanned
<1> DEFINE m == Merged(q, e)
<1>1. m = [h \in Heights |-> m[h]]
  BY DEF Merged
<1>2. ASSUME NEW h \in Heights
      PROVE  /\ m[h] \in Values
             /\ q[h] # Unqueued => m[h] # Unqueued
             /\ q[h] >= Scanned => m[h] >= Scanned
             /\ q[h] >= Historic /\ (\A i \in 1..3 : e.entries[i].pri # Scanned) => m[h] >= Historic
             /\ m[h] = Scanned =>
                  \/ q[h] = Scanned
                  \/ \E i \in 1..3 : In(h, e.entries[i]) /\ e.entries[i].pri = Scanned
  <2>1. PICK v0, v1, v2 :
           /\ v0 = q[h] \/ (q[h] = Unqueued /\ v0 = Historic)
           /\ Changes(h, e.entries[1], e.force, v0, v1)
           /\ Changes(h, e.entries[2], e.force, v1, v2)
           /\ Changes(h, e.entries[3], e.force, v2, m[h])
    BY MergedChanges
  <2>2. Entry(e.entries[1]) /\ Entry(e.entries[2]) /\ Entry(e.entries[3])
    BY DEF IsEdit
  <2>3. q[h] \in Values
    BY DEF Queues
  <2>4. v0 \in Values /\ (q[h] # Unqueued => v0 = q[h]) /\ (v0 = Scanned => q[h] = Scanned)
        /\ (q[h] >= Scanned => v0 = q[h]) /\ (q[h] >= Historic => v0 = q[h])
    BY <2>1, <2>3 DEF Values, Priorities, Ignored, Historic, Verify, Scanned, Unqueued
  <2> HIDE DEF m
  <2>5. /\ v1 \in Values /\ (v0 # Unqueued => v1 # Unqueued) /\ (v0 >= Scanned => v1 >= Scanned)
        /\ v0 >= Historic /\ e.entries[1].pri # Scanned => v1 >= Historic
        /\ v1 = Scanned => v0 = Scanned \/ (In(h, e.entries[1]) /\ e.entries[1].pri = Scanned)
    BY <2>1, <2>2, <2>4, ChangesKeep
  <2>6. /\ v2 \in Values /\ (v1 # Unqueued => v2 # Unqueued) /\ (v1 >= Scanned => v2 >= Scanned)
        /\ v1 >= Historic /\ e.entries[2].pri # Scanned => v2 >= Historic
        /\ v2 = Scanned => v1 = Scanned \/ (In(h, e.entries[2]) /\ e.entries[2].pri = Scanned)
    BY <2>1, <2>2, <2>5, ChangesKeep
  <2>7. /\ m[h] \in Values /\ (v2 # Unqueued => m[h] # Unqueued) /\ (v2 >= Scanned => m[h] >= Scanned)
        /\ v2 >= Historic /\ e.entries[3].pri # Scanned => m[h] >= Historic
        /\ m[h] = Scanned => v2 = Scanned \/ (In(h, e.entries[3]) /\ e.entries[3].pri = Scanned)
    BY <2>1, <2>2, <2>6, ChangesKeep
  <2>8. 1 \in 1..3 /\ 2 \in 1..3 /\ 3 \in 1..3
    OBVIOUS
  <2>9. m[h] = Scanned => \/ q[h] = Scanned
                          \/ \E i \in 1..3 : In(h, e.entries[i]) /\ e.entries[i].pri = Scanned
    BY <2>4, <2>5, <2>6, <2>7, <2>8, Zenon
  <2> QED BY <2>4, <2>5, <2>6, <2>7, <2>8, <2>9
<1> HIDE DEF m
<1>3. m \in Queues
  BY <1>1, <1>2 DEF Queues
<1> QED BY <1>2, <1>3 DEF m

-----------------------------------------------------------------------------
(* The edits the operations make *)

NoScan(e) == \A i \in 1..3 : e.entries[i].pri # Scanned

LEMMA NoneIsEntry == Entry(None) /\ None.pri # Scanned /\ None.pri = Unqueued
BY Constants DEF Entry, None, ScanRange, Values, Unqueued, Scanned

LEMMA RangeIsEntry ==
  ASSUME NEW s \in Nat, NEW t \in 0..(MaxHeight + 1), NEW p \in Priorities
  PROVE  /\ Entry(ScanRange(s, t, p)) /\ ScanRange(s, t, p).pri = p
         /\ ScanRange(s, t, p).start = s /\ ScanRange(s, t, p).end = t
<1>1. p # Unqueued /\ p \in Values
  BY DEF Priorities, Ignored, Verify, Unqueued, Values
<1> QED BY <1>1 DEF Entry, ScanRange

LEMMA Levels ==
  /\ {Ignored, Scanned, Historic, FoundNote, ChainTip, Verify} \subseteq Priorities
  /\ Scanned \notin {Unqueued, Ignored, Historic, FoundNote, ChainTip, Verify}
  /\ \A v \in Values : v \in -1..6
  /\ \A v \in Values : v # Unqueued /\ v # Ignored => v >= Scanned
  /\ \A v \in Values : v >= Scanned => v = Scanned \/ v >= Historic
  /\ \A v \in Values : v >= Historic => v >= Scanned /\ v # Scanned
  /\ \A v \in Values : v >= Scanned => v # Unqueued
BY DEF Values, Priorities, Ignored, Scanned, Historic, FoundNote, ChainTip, Verify, Unqueued

LEMMA EntriesMakeEdit ==
  ASSUME NEW e, e.start \in Int, e.end \in Int,
         Entry(e.entries[1]), Entry(e.entries[2]), Entry(e.entries[3])
  PROVE  IsEdit(e)
<1>1. \A i \in 1..3 : i = 1 \/ i = 2 \/ i = 3
  OBVIOUS
<1>2. \A i \in 1..3 : Entry(e.entries[i])
  BY <1>1
<1> QED BY <1>2 DEF IsEdit

LEMMA SingleEdit ==
  ASSUME NEW r, Entry(r), r.pri # Scanned, NEW e, e.start \in Int, e.end \in Int,
         e.entries = <<r, None, None>>
  PROVE  /\ IsEdit(e) /\ NoScan(e)
         /\ e.entries[1] = r /\ e.entries[2] = None /\ e.entries[3] = None
<1>1. e.entries[1] = r /\ e.entries[2] = None /\ e.entries[3] = None
  OBVIOUS
<1>2. Entry(None) /\ None.pri # Scanned
  BY NoneIsEntry
<1>3. IsEdit(e)
  BY <1>1, <1>2, EntriesMakeEdit
<1>4. NoScan(e)
  <2> SUFFICES ASSUME NEW i \in 1..3 PROVE e.entries[i].pri # Scanned
    BY DEF NoScan
  <2>1. i = 1 \/ i = 2 \/ i = 3
    OBVIOUS
  <2> QED BY <1>1, <1>2, <2>1
<1> QED BY <1>1, <1>3, <1>4

LEMMA RescanIs ==
  ASSUME NEW s \in Nat, NEW t \in 0..(MaxHeight + 1), NEW e, e = Rescan(s, t, Historic)
  PROVE  /\ IsEdit(e) /\ NoScan(e) /\ e.start = s /\ e.end = t /\ e.force
         /\ e.entries[1] = ScanRange(s, t, Historic)
         /\ e.entries[2] = None /\ e.entries[3] = None
<1>1. PICK r : r = ScanRange(s, t, Historic)
  OBVIOUS
<1>2. e.start = s /\ e.end = t /\ e.entries = <<r, None, None>> /\ e.force
  BY <1>1 DEF Rescan, Edit
<1>3. Entry(r) /\ r.pri # Scanned
  BY <1>1, Levels, RangeIsEntry
<1>4. e.start \in Int /\ e.end \in Int
  BY <1>2
<1>5. /\ IsEdit(e) /\ NoScan(e)
      /\ e.entries[1] = r /\ e.entries[2] = None /\ e.entries[3] = None
  BY <1>2, <1>3, <1>4, SingleEdit
<1> QED BY <1>1, <1>2, <1>5

LEMMA IgnoreIs ==
  ASSUME NEW b \in 0..(MaxHeight + 1), NEW e, e = IgnoreBelow(b)
  PROVE  /\ IsEdit(e) /\ NoScan(e) /\ e.start = SaplingActivation /\ e.end = b
         /\ e.entries[1] = ScanRange(SaplingActivation, b, Ignored)
         /\ e.entries[2] = None /\ e.entries[3] = None
<1>1. PICK r : r = ScanRange(SaplingActivation, b, Ignored)
  OBVIOUS
<1>2. e.start = SaplingActivation /\ e.end = b /\ e.entries = <<r, None, None>>
  BY <1>1 DEF IgnoreBelow, Edit
<1>3. SaplingActivation \in Nat
  BY DEF SaplingActivation
<1>4. Entry(r) /\ r.pri # Scanned
  BY <1>1, <1>3, Levels, RangeIsEntry
<1>5. e.start \in Int /\ e.end \in Int
  BY <1>2, <1>3
<1>6. /\ IsEdit(e) /\ NoScan(e)
      /\ e.entries[1] = r /\ e.entries[2] = None /\ e.entries[3] = None
  BY <1>2, <1>4, <1>5, SingleEdit
<1> QED BY <1>1, <1>2, <1>6

\* A forced rescan queues every height of its range with a priority that gets it scanned.
LEMMA RescanForces ==
  ASSUME NEW q \in Queues, NEW s \in Nat, NEW t \in 0..(MaxHeight + 1), NEW h \in Heights, s <= h, h < t
  PROVE  Merged(q, Rescan(s, t, Historic))[h] >= Historic
<1>0. PICK e : e = Rescan(s, t, Historic)
  OBVIOUS
<1>1. /\ IsEdit(e) /\ e.force /\ e.entries[1] = ScanRange(s, t, Historic)
      /\ e.entries[2] = None /\ e.entries[3] = None
  BY <1>0, RescanIs
<1>2. PICK v0, v1, v2 :
         /\ v0 = IF q[h] = Unqueued /\ h \in Spanned(q, e, 0) THEN Historic ELSE q[h]
         /\ v1 = Inserted(h, v0, e.entries[1], Spanned(q, e, 1), e.force)
         /\ v2 = Inserted(h, v1, e.entries[2], Spanned(q, e, 2), e.force)
         /\ Merged(q, e)[h] = Inserted(h, v2, e.entries[3], Spanned(q, e, 3), e.force)
  BY MergedSteps
<1>3. v0 \in -1..6
  BY <1>2, Levels DEF Queues, Values, Priorities
<1>4. ScanRange(s, t, Historic).start = s /\ ScanRange(s, t, Historic).end = t
      /\ ScanRange(s, t, Historic).pri = Historic
  BY DEF ScanRange
<1>5. h \in s..(t - 1)
  BY Constants
<1>6. v1 = IF v0 = Unqueued \/ Prevails(Historic, v0, e.force) THEN Historic ELSE v0
  BY <1>1, <1>2, <1>4, <1>5 DEF Inserted
<1>7. v1 >= Historic /\ v1 # Unqueued /\ v1 \in -1..6
  BY <1>1, <1>3, <1>6 DEF Prevails, Historic, Unqueued, Scanned, Verify
<1>8. h \notin None.start..(None.end - 1)
  BY Constants DEF None, ScanRange
<1>9. v2 = v1
  BY <1>1, <1>2, <1>7, <1>8 DEF Inserted
<1>10. Merged(q, e)[h] = v1
  BY <1>1, <1>2, <1>7, <1>8, <1>9 DEF Inserted
<1> QED BY <1>0, <1>7, <1>10

LEMMA SubtreeEndIs ==
  ASSUME WalletTypeOK, NEW p \in Pools, NEW i \in 1..roots[p]
  PROVE  SubtreeEnds[p][i] \in Heights
<1>1. SubtreeEnds[p] \in Seq(Heights)
  BY WalletAssumption
<1>2. roots[p] \in Nat /\ roots[p] <= Len(SubtreeEnds[p]) /\ Len(SubtreeEnds[p]) \in Nat
  BY <1>1 DEF WalletTypeOK
<1>3. i \in 1..Len(SubtreeEnds[p])
  BY <1>2
<1> QED BY <1>1, <1>3

LEMMA GreatestIs ==
  ASSUME NEW x \in Int, NEW y \in Int
  PROVE  /\ Greatest(x, y) \in {x, y} /\ Greatest(x, y) >= x /\ Greatest(x, y) >= y
         /\ Least(x, y) \in {x, y} /\ Least(x, y) <= x /\ Least(x, y) <= y
BY DEF Greatest, Least

LEMMA ExtendedStartIs ==
  ASSUME WalletTypeOK, NEW found \in [Pools -> SUBSET (1..(MaxHeight + 1))], NEW s \in Nat
  PROVE  ExtendedStart(found, s) \in Nat /\ ExtendedStart(found, s) <= s
<1> DEFINE start(p) == LET i == MinOf(found[p])
                       IN  IF i = 1 THEN {Greatest(WalletBirthday, SaplingActivation)}
                           ELSE IF i - 1 <= roots[p]
                                THEN {Greatest(WalletBirthday, SubtreeEnds[p][i - 1])} ELSE {}
           S == {s} \cup UNION {start(p) : p \in {p \in Pools : found[p] # {}}}
<1>1. \A p \in {p \in Pools : found[p] # {}} : start(p) \subseteq Nat
  <2> SUFFICES ASSUME NEW p \in Pools, found[p] # {} PROVE start(p) \subseteq Nat
    OBVIOUS
  <2>1. WalletBirthday \in Nat /\ SaplingActivation \in Nat
    BY BirthdayIs, Constants DEF WalletTypeOK, SaplingActivation
  <2>2. PICK i : i = MinOf(found[p])
    OBVIOUS
  <2>3. found[p] \in SUBSET Nat /\ found[p] \subseteq 1..(MaxHeight + 1)
    OBVIOUS
  <2>4. i \in 1..(MaxHeight + 1)
    BY <2>2, <2>3, MinOfIs
  <2>5. Greatest(WalletBirthday, SaplingActivation) \in Nat
    BY <2>1 DEF Greatest
  <2>6. ASSUME i # 1, i - 1 <= roots[p] PROVE Greatest(WalletBirthday, SubtreeEnds[p][i - 1]) \in Nat
    <3>1. i - 1 \in 1..roots[p]
      BY <2>4, <2>6, Constants DEF WalletTypeOK
    <3>2. SubtreeEnds[p][i - 1] \in Nat
      BY <3>1, SubtreeEndIs, Constants
    <3> QED BY <2>1, <3>2 DEF Greatest
  <2> QED BY <2>2, <2>5, <2>6
<1> HIDE DEF start
<1>2. S \in SUBSET Nat
  BY <1>1
<1>3. s \in S
  OBVIOUS
<1> HIDE DEF S
<1>4. MinOf(S) \in Nat /\ MinOf(S) <= s
  BY <1>2, <1>3, MinOfIs
<1>5. MinOf(S) = ExtendedStart(found, s)
  BY DEF S, start, ExtendedStart
<1> QED BY <1>4, <1>5

LEMMA ExtendedEndIs ==
  ASSUME WalletTypeOK, NEW found \in [Pools -> SUBSET (1..(MaxHeight + 1))],
         NEW t \in 0..(MaxHeight + 1)
  PROVE  ExtendedEnd(found, t) \in 0..(MaxHeight + 1) /\ t <= ExtendedEnd(found, t)
<1> DEFINE n == MaxHeight + 1
           end(p) == LET i == MaxOf(found[p])
                     IN  IF i <= roots[p] THEN {SubtreeEnds[p][i] + 1} ELSE {}
           S == {t} \cup UNION {end(p) : p \in {p \in Pools : found[p] # {}}}
<1>0. n \in Nat
  BY Constants
<1>1. \A p \in {p \in Pools : found[p] # {}} : end(p) \subseteq 0..n
  <2> SUFFICES ASSUME NEW p \in Pools, found[p] # {} PROVE end(p) \subseteq 0..n
    OBVIOUS
  <2>2. PICK i : i = MaxOf(found[p])
    OBVIOUS
  <2>3. found[p] \in SUBSET (0..n) /\ found[p] \subseteq 1..n
    BY <1>0
  <2>4. i \in 1..n
    <3> HIDE DEF n
    <3> QED BY <1>0, <2>2, <2>3, MaxOfIs
  <2>6. ASSUME i <= roots[p] PROVE SubtreeEnds[p][i] + 1 \in 0..n
    <3>1. i \in 1..roots[p]
      BY <2>4, <2>6, Constants DEF WalletTypeOK
    <3>2. SubtreeEnds[p][i] \in 1..MaxHeight
      BY <3>1, SubtreeEndIs, Constants
    <3> QED BY <3>2, Constants
  <2> QED BY <2>2, <2>6
<1> HIDE DEF end
<1>2. S \in SUBSET (0..n)
  BY <1>1
<1>3. t \in S
  OBVIOUS
<1> HIDE DEF S, n
<1>4. MaxOf(S) \in 0..n /\ t <= MaxOf(S)
  BY <1>0, <1>2, <1>3, MaxOfIs
<1>5. MaxOf(S) = ExtendedEnd(found, t)
  BY DEF S, end, ExtendedEnd
<1> QED BY <1>4, <1>5 DEF n

LEMMA ScanIs ==
  ASSUME WalletTypeOK, NEW s \in Heights, NEW t \in 2..(MaxHeight + 1), s < t,
         NEW lo \in Nat, lo <= s, NEW hi \in 0..(MaxHeight + 1), t <= hi,
         NEW e, e = ScanComplete(s, t, lo, hi)
  PROVE  /\ IsEdit(e) /\ e.start = lo /\ e.end = hi
         /\ e.entries[1] = ScanRange(s, t, Scanned)
         /\ \A i \in {2, 3} : e.entries[i].pri \in {Unqueued, FoundNote}
<1>0. s \in Nat /\ t \in Nat /\ hi \in Nat /\ s \in 0..(MaxHeight + 1) /\ t \in 0..(MaxHeight + 1)
  BY Constants
<1>1. PICK a, b, c : /\ a = ScanRange(s, t, Scanned)
                     /\ b = When(lo < s, ScanRange(lo, s, FoundNote))
                     /\ c = When(t < hi, ScanRange(t, hi, FoundNote))
  OBVIOUS
<1>2. e.start = lo /\ e.end = hi /\ e.entries = <<a, b, c>>
  BY <1>1 DEF ScanComplete, Edit
<1>3. e.entries[1] = a /\ e.entries[2] = b /\ e.entries[3] = c
  BY <1>2
<1>4. Entry(a)
  BY <1>0, <1>1, Levels, RangeIsEntry
<1>5. Entry(b) /\ b.pri \in {Unqueued, FoundNote}
  <2>1. CASE lo < s
    <3>1. b = ScanRange(lo, s, FoundNote)
      BY <1>1, <2>1 DEF When
    <3>2. FoundNote \in Priorities /\ FoundNote # Scanned
      BY Levels
    <3>3. Entry(b) /\ b.pri = FoundNote
      BY <1>0, <3>1, <3>2, RangeIsEntry
    <3> QED BY <3>3
  <2>2. CASE ~(lo < s)
    <3>1. b = None
      BY <1>1, <2>2 DEF When
    <3> QED BY <3>1, NoneIsEntry
  <2> QED BY <2>1, <2>2
<1>6. Entry(c) /\ c.pri \in {Unqueued, FoundNote}
  <2>1. CASE t < hi
    <3>1. c = ScanRange(t, hi, FoundNote)
      BY <1>1, <2>1 DEF When
    <3>2. FoundNote \in Priorities /\ FoundNote # Scanned
      BY Levels
    <3>3. Entry(c) /\ c.pri = FoundNote
      BY <1>0, <3>1, <3>2, RangeIsEntry
    <3> QED BY <3>3
  <2>2. CASE ~(t < hi)
    <3>1. c = None
      BY <1>1, <2>2 DEF When
    <3> QED BY <3>1, NoneIsEntry
  <2> QED BY <2>1, <2>2
<1>7. e.start \in Int /\ e.end \in Int
  BY <1>0, <1>2
<1>8. IsEdit(e)
  BY <1>3, <1>4, <1>5, <1>6, <1>7, EntriesMakeEdit
<1> QED BY <1>1, <1>2, <1>3, <1>5, <1>6, <1>8

LEMMA ShardIs ==
  ASSUME WalletTypeOK, NEW shard, shard = TipShardEntry(top, WalletBirthday, ShardTips),
         shard.start <= shard.end
  PROVE  /\ Entry(shard) /\ shard.pri \in {Unqueued, ChainTip}
         /\ shard # None => /\ shard.pri = ChainTip
                            /\ shard.end = top + 1
<1>1. ShardTips \subseteq Heights
  <2>1. \A p \in Pools : roots[p] \in Nat
    BY DEF WalletTypeOK
  <2>2. \A p \in Pools : roots[p] > 0 => roots[p] \in 1..roots[p]
    BY <2>1
  <2>3. \A p \in Pools : roots[p] > 0 => SubtreeEnds[p][roots[p]] \in Heights
    BY <2>2, SubtreeEndIs
  <2> QED BY <2>3 DEF ShardTips
<1>2. top \in 1..MaxHeight /\ top + 1 \in 0..(MaxHeight + 1)
  BY Constants DEF WalletTypeOK
<1>3. WalletBirthday \in Nat
  BY BirthdayIs, Constants DEF WalletTypeOK
<1> DEFINE least == CHOOSE x \in ShardTips : \A y \in ShardTips : x <= y
<1>4. shard = IF ShardTips # {} /\ least <= top
                THEN ScanRange(Greatest(WalletBirthday, least), top + 1, ChainTip) ELSE None
  BY DEF TipShardEntry, When
<1>5. ShardTips # {} => least \in Heights
  <2>1. ASSUME ShardTips # {} PROVE \E x \in ShardTips : \A y \in ShardTips : x <= y
    <3>1. ShardTips \subseteq Nat
      BY <1>1, Constants
    <3> QED BY <2>1, <3>1, LeastNumber
  <2> QED BY <1>1, <2>1
<1> HIDE DEF least
<1>6. CASE ShardTips # {} /\ least <= top
  <2>1. shard = ScanRange(Greatest(WalletBirthday, least), top + 1, ChainTip)
    BY <1>4, <1>6
  <2>2. least \in Nat
    BY <1>5, <1>6, Constants
  <2>3. Greatest(WalletBirthday, least) \in Nat
    BY <1>3, <2>2 DEF Greatest
  <2> QED BY <1>2, <2>1, <2>3, Levels, RangeIsEntry
<1>7. CASE ~(ShardTips # {} /\ least <= top)
  BY <1>4, <1>7, NoneIsEntry
<1> QED BY <1>6, <1>7

\* What update_chain_tip inserts: ranges to scan up to the tip, from the wallet's
\* birthday or the greatest stored block.
LEMMA TipEditIs ==
  ASSUME WalletTypeOK, top >= MaxScanned, WellFormed(TipEdit), NEW e, e = TipEdit
  PROVE  /\ IsEdit(e) /\ NoScan(e) /\ e.entries[3] = None
         /\ \A i \in 1..3 : e.entries[i].end <= top + 1
         /\ Held # {} =>
              /\ \A i \in 1..3 : e.entries[i].pri = Unqueued \/ e.entries[i].pri >= Historic
              /\ e.entries[2] # None
              /\ e.entries[2].start = IF MaxScanned = 0 THEN WalletBirthday ELSE MaxScanned + 1
              /\ \E i \in 1..3 : e.entries[i] # None /\ e.entries[i].end = top + 1
<1>1. PICK shard, entry :
        /\ shard = TipShardEntry(top, WalletBirthday, ShardTips)
        /\ entry = TipEntry(top, WalletBirthday, MaxScanned, shard)
  OBVIOUS
<1>2. e = Edit(IF shard = None THEN entry.start ELSE Least(shard.start, entry.start),
               IF shard = None THEN entry.end ELSE Greatest(shard.end, entry.end),
               <<shard, entry, None>>, FALSE)
  BY <1>1 DEF TipEdit, ChainTipUpdate
<1>3. e.entries[1] = shard /\ e.entries[2] = entry /\ e.entries[3] = None
  BY <1>2 DEF Edit
<1>4. shard.start <= shard.end /\ entry.start <= entry.end
  <2>1. e.entries[1].start <= e.entries[1].end /\ e.entries[2].start <= e.entries[2].end
    BY DEF WellFormed
  <2> QED BY <1>3, <2>1
<1>5. /\ Entry(shard) /\ shard.pri \in {Unqueued, ChainTip}
      /\ shard # None => shard.pri = ChainTip /\ shard.end = top + 1
  BY <1>1, <1>4, ShardIs
<1>6. top \in 1..MaxHeight /\ top + 1 \in 0..(MaxHeight + 1) /\ top \in Nat
  BY Constants DEF WalletTypeOK
<1>7. WalletBirthday \in 0..(MaxHeight + 1) /\ (Held # {} => WalletBirthday # 0)
  BY BirthdayIs DEF WalletTypeOK
<1>8. MaxScanned \in 0..MaxHeight
  BY ScannedIs DEF WalletTypeOK
<1> DEFINE next == MaxScanned + 1
           stable == Greatest(top - PruningDepth, 0)
           last == Least(stable + 1, next + VerifyLookahead)
<1>9. /\ next \in Nat /\ WalletBirthday \in Nat
      /\ stable \in Nat /\ stable <= top
      /\ last \in 0..(MaxHeight + 1) /\ last <= top + 1
  BY <1>6, <1>7, <1>8, Constants DEF Greatest, Least
<1>10. entry = CASE MaxScanned = 0 /\ WalletBirthday = 0 -> ScanRange(SaplingActivation, top + 1, Ignored)
               [] MaxScanned = 0 /\ WalletBirthday # 0 -> ScanRange(WalletBirthday, top + 1, Historic)
               [] MaxScanned # 0 /\ shard = None -> ScanRange(next, top + 1, Historic)
               [] MaxScanned > stable /\ shard # None -> ScanRange(next, top + 1, ChainTip)
               [] OTHER -> ScanRange(next, last, Verify)
  BY <1>1 DEF TipEntry
<1> HIDE DEF next, stable, last
<1> DEFINE Good(r, first) ==
             /\ Entry(r) /\ r.pri \notin {Scanned, Unqueued} /\ r.end <= top + 1
             /\ Held # {} => /\ r.pri >= Historic
                             /\ r.start = first
<1>11. \A p \in {Historic, ChainTip, Verify} : p \in Priorities /\ p >= Historic /\ p # Scanned /\ p # Unqueued
  BY DEF Historic, ChainTip, Verify, Priorities, Ignored, Scanned, Unqueued
<1>12. Ignored \in Priorities /\ Ignored # Scanned /\ Ignored # Unqueued
  BY DEF Priorities, Ignored, Verify, Scanned, Unqueued
<1>13. /\ Good(entry, IF MaxScanned = 0 THEN WalletBirthday ELSE next)
       /\ Held # {} => entry.end = top + 1 \/ shard # None
  <2>1. CASE MaxScanned = 0 /\ WalletBirthday = 0
    <3>1. entry = ScanRange(SaplingActivation, top + 1, Ignored)
      BY <1>9, <1>10, <2>1
    <3>2. SaplingActivation \in Nat
      BY DEF SaplingActivation
    <3>3. Entry(entry) /\ entry.pri = Ignored /\ entry.end = top + 1
      BY <1>6, <1>12, <3>1, <3>2, RangeIsEntry
    <3> QED BY <1>6, <1>7, <1>12, <2>1, <3>3
  <2>2. CASE MaxScanned = 0 /\ WalletBirthday # 0
    <3>1. entry = ScanRange(WalletBirthday, top + 1, Historic)
      BY <1>9, <1>10, <2>2
    <3>2. Historic \in Priorities
      BY <1>11
    <3>3. Entry(entry) /\ entry.pri = Historic /\ entry.end = top + 1 /\ entry.start = WalletBirthday
      BY <1>6, <1>9, <3>1, <3>2, RangeIsEntry
    <3> QED BY <1>6, <1>11, <2>2, <3>3
  <2>3. CASE MaxScanned # 0 /\ (shard = None \/ MaxScanned > stable)
    <3>1. PICK p \in {Historic, ChainTip} : entry = ScanRange(next, top + 1, p)
      BY <1>10, <2>3
    <3>2. p \in Priorities /\ p >= Historic /\ p # Scanned /\ p # Unqueued
      BY <1>11
    <3>3. Entry(entry) /\ entry.pri = p /\ entry.end = top + 1 /\ entry.start = next
      BY <1>6, <1>9, <3>1, <3>2, RangeIsEntry
    <3> QED BY <1>6, <2>3, <3>2, <3>3
  <2>4. CASE MaxScanned # 0 /\ shard # None /\ ~(MaxScanned > stable)
    <3>1. entry = ScanRange(next, last, Verify)
      BY <1>10, <2>4
    <3>2. Verify \in Priorities
      BY <1>11
    <3>3. Entry(entry) /\ entry.pri = Verify /\ entry.end = last /\ entry.start = next
      BY <1>9, <3>1, <3>2, RangeIsEntry
    <3> QED BY <1>9, <1>11, <2>4, <3>3
  <2> QED BY <2>1, <2>2, <2>3, <2>4
<1>14. shard.end <= top + 1
  <2>1. None.end = 0
    BY DEF None, ScanRange
  <2> QED BY <1>5, <1>6, <2>1
<1>15. e.start \in Int /\ e.end \in Int
  <2>1. shard.start \in Int /\ shard.end \in Int /\ entry.start \in Int /\ entry.end \in Int
    BY <1>5, <1>13, Constants DEF Entry
  <2>2. /\ e.start = IF shard = None THEN entry.start ELSE Least(shard.start, entry.start)
        /\ e.end = IF shard = None THEN entry.end ELSE Greatest(shard.end, entry.end)
    BY <1>2 DEF Edit
  <2> QED BY <2>1, <2>2, GreatestIs
<1>16. IsEdit(e)
  BY <1>3, <1>5, <1>13, <1>15, NoneIsEntry, EntriesMakeEdit
<1>17. /\ entry.pri # Scanned /\ entry.pri # Unqueued /\ entry.end <= top + 1 /\ entry # None
       /\ Held # {} => entry.pri >= Historic /\ entry.start = IF MaxScanned = 0 THEN WalletBirthday ELSE next
  BY <1>13, NoneIsEntry
<1>18. \A i \in 1..3 : i = 1 \/ i = 2 \/ i = 3
  OBVIOUS
<1>19. ChainTip >= Historic /\ ChainTip # Scanned /\ Unqueued # Scanned
  BY DEF ChainTip, Historic, Scanned, Unqueued
<1>20. None.pri = Unqueued /\ None.end <= top + 1
  BY <1>6 DEF None, ScanRange
<1>21. NoScan(e)
  BY <1>3, <1>5, <1>17, <1>18, <1>19, <1>20 DEF NoScan
<1>22. \A i \in 1..3 : e.entries[i].end <= top + 1
  BY <1>3, <1>14, <1>17, <1>18, <1>20
<1>23. Held # {} => \A i \in 1..3 : e.entries[i].pri = Unqueued \/ e.entries[i].pri >= Historic
  BY <1>3, <1>5, <1>17, <1>18, <1>19, <1>20
<1>24. Held # {} => \E i \in 1..3 : e.entries[i] # None /\ e.entries[i].end = top + 1
  <2>1. ASSUME Held # {} PROVE \/ entry # None /\ entry.end = top + 1
                               \/ shard # None /\ shard.end = top + 1
    BY <1>5, <1>13, <1>17, <2>1
  <2>2. 1 \in 1..3 /\ 2 \in 1..3
    OBVIOUS
  <2> QED BY <1>3, <2>1, <2>2
<1> QED BY <1>3, <1>16, <1>17, <1>21, <1>22, <1>23, <1>24 DEF next

-----------------------------------------------------------------------------
(* What a merge leaves queued, and what it does not *)

\* An edit queues what lies between the start of one entry and the end of another.
LEMMA SpanQueues ==
  ASSUME NEW q \in Queues, NEW e, IsEdit(e), NEW x \in Heights,
         NEW i \in 1..3, e.entries[i] # None, e.entries[i].start <= x,
         NEW j \in 1..3, e.entries[j] # None, x < e.entries[j].end
  PROVE  Merged(q, e)[x] # Unqueued
<1> DEFINE n == MaxHeight + 1
           ranges == {e.entries[k] : k \in 1..3} \ {None}
           S == Met(q, e) \cup {r.start : r \in ranges}
           T == {h + 1 : h \in Met(q, e)} \cup {r.end : r \in ranges}
<1>0. n \in Nat /\ \A h \in Heights : h \in Nat /\ h + 1 \in 0..n
  BY Constants
<1>1. \A r \in ranges : r.start \in Nat /\ r.end \in 0..n
  BY DEF IsEdit, Entry
<1>2. Met(q, e) \subseteq Heights
  BY DEF Met
<1>3. S \in SUBSET Nat /\ T \in SUBSET (0..n)
  BY <1>0, <1>1, <1>2
<1>4. e.entries[i].start \in S /\ e.entries[j].end \in T
  OBVIOUS
<1>5. Spanned(q, e, 3) = MinOf(S)..(MaxOf(T) - 1)
  BY DEF Spanned
<1> HIDE DEF S, T, n, ranges
<1>6. MinOf(S) \in Nat /\ MinOf(S) <= e.entries[i].start
  BY <1>3, <1>4, MinOfIs
<1>7. MaxOf(T) \in 0..n /\ e.entries[j].end <= MaxOf(T)
  BY <1>0, <1>3, <1>4, MaxOfIs
<1>8. e.entries[i].start \in Nat /\ e.entries[j].end \in Nat /\ x \in Nat
  <2>1. Entry(e.entries[i]) /\ Entry(e.entries[j])
    BY DEF IsEdit
  <2>2. MaxHeight + 1 \in Nat
    BY Constants
  <2> QED BY <2>1, <2>2, Constants DEF Entry
<1>9. MinOf(S) <= x
  BY <1>6, <1>8
<1>10. x <= MaxOf(T) - 1
  BY <1>0, <1>7, <1>8
<1>11. x \in Spanned(q, e, 3)
  BY <1>0, <1>5, <1>6, <1>7, <1>8, <1>9, <1>10
<1>12. PICK v2 : Merged(q, e)[x] = Inserted(x, v2, e.entries[3], Spanned(q, e, 3), e.force)
  BY MergedSteps
<1>13. Entry(e.entries[3])
  BY DEF IsEdit
<1>14. x \in e.entries[3].start..(e.entries[3].end - 1) => e.entries[3].pri # Unqueued
  BY <1>8, <1>13, Constants DEF Entry
<1>15. Historic # Unqueued
  BY DEF Historic, Unqueued
<1> QED BY <1>11, <1>12, <1>14, <1>15 DEF Inserted

\* ... and nothing above its entries and what was queued.
LEMMA SpannedBelow ==
  ASSUME NEW q \in Queues, NEW e, IsEdit(e), NEW n \in 0..MaxHeight,
         KnownTip(q) <= n, \A i \in 1..3 : e.entries[i].end <= n + 1,
         NEW k \in 0..3
  PROVE  \A x \in Spanned(q, e, k) : x <= n
<1> DEFINE ranges == {e.entries[j] : j \in 1..k} \ {None}
           T == {h + 1 : h \in Met(q, e)} \cup {r.end : r \in ranges}
<1>0. n \in Nat /\ n + 1 \in Nat
  BY Constants
<1>1. \A h \in Met(q, e) : h \in Heights /\ h <= KnownTip(q)
  BY TipIs DEF Met
<1>2. KnownTip(q) \in Nat
  BY TipIs, Constants
<1>3. \A h \in Met(q, e) : h + 1 \in 0..(n + 1)
  BY <1>0, <1>1, <1>2, Constants
<1>4. \A j \in 1..k : j \in 1..3
  OBVIOUS
<1>5. \A r \in ranges : r.end \in 0..(n + 1)
  <2> SUFFICES ASSUME NEW j \in 1..k PROVE e.entries[j].end \in 0..(n + 1)
    OBVIOUS
  <2>1. Entry(e.entries[j]) /\ e.entries[j].end <= n + 1
    BY <1>4 DEF IsEdit
  <2> QED BY <1>0, <2>1, Constants DEF Entry
<1>6. T \in SUBSET (0..(n + 1))
  BY <1>3, <1>5
<1>7. Spanned(q, e, k) = MinOf(Met(q, e) \cup {r.start : r \in ranges})..(MaxOf(T) - 1)
  BY DEF Spanned
<1> HIDE DEF T, ranges
<1>8. MaxOf(T) \in 0..(n + 1)
  BY <1>0, <1>6, MaxOfIs
<1>9. \A x \in Spanned(q, e, k) : x <= MaxOf(T) - 1
  BY <1>7
<1>10. \A x \in Spanned(q, e, k) : x \in Int
  BY <1>7
<1> QED BY <1>0, <1>8, <1>9, <1>10

LEMMA InsertedOutside ==
  ASSUME NEW h, NEW r, NEW spanned, NEW force, h \notin r.start..(r.end - 1), h \notin spanned
  PROVE  Inserted(h, Unqueued, r, spanned, force) = Unqueued
BY DEF Inserted

LEMMA MergedBelow ==
  ASSUME NEW q \in Queues, NEW e, IsEdit(e), NEW n \in 0..MaxHeight,
         KnownTip(q) <= n, \A i \in 1..3 : e.entries[i].end <= n + 1
  PROVE  KnownTip(Merged(q, e)) <= n
<1>1. \A k \in 0..3 : \A y \in Spanned(q, e, k) : y <= n
  BY SpannedBelow
<1>2. Merged(q, e) \in Queues
  BY MergedKeeps
<1>3. ASSUME NEW x \in Heights, x > n PROVE Merged(q, e)[x] = Unqueued
  <2>1. PICK v0, v1, v2 :
           /\ v0 = IF q[x] = Unqueued /\ x \in Spanned(q, e, 0) THEN Historic ELSE q[x]
           /\ v1 = Inserted(x, v0, e.entries[1], Spanned(q, e, 1), e.force)
           /\ v2 = Inserted(x, v1, e.entries[2], Spanned(q, e, 2), e.force)
           /\ Merged(q, e)[x] = Inserted(x, v2, e.entries[3], Spanned(q, e, 3), e.force)
    BY MergedSteps
  <2>2. x \in Nat /\ n \in Nat
    BY Constants
  <2>3. \A k \in 0..3 : x \notin Spanned(q, e, k)
    BY <1>1, <1>3, <2>2
  <2>4. ASSUME NEW i \in 1..3 PROVE x \notin e.entries[i].start..(e.entries[i].end - 1)
    <3>1. e.entries[i].end \in Int /\ e.entries[i].end <= n + 1
      BY Constants DEF IsEdit, Entry
    <3> QED BY <1>3, <2>2, <3>1
  <2>5. q[x] = Unqueued
    <3>1. q[x] # Unqueued => x <= KnownTip(q)
      BY TipIs
    <3>2. KnownTip(q) \in Int
      BY TipIs, Constants
    <3> QED BY <1>3, <2>2, <3>1, <3>2
  <2>6. x \notin Spanned(q, e, 0) /\ x \notin Spanned(q, e, 1) /\ x \notin Spanned(q, e, 2)
         /\ x \notin Spanned(q, e, 3)
    BY <2>3
  <2>7. v0 = Unqueued
    BY <2>1, <2>5, <2>6
  <2>8. v1 = Unqueued
    <3>1. x \notin e.entries[1].start..(e.entries[1].end - 1)
      BY <2>4
    <3> QED BY <2>1, <2>6, <2>7, <3>1, InsertedOutside
  <2>9. v2 = Unqueued
    <3>1. x \notin e.entries[2].start..(e.entries[2].end - 1)
      BY <2>4
    <3> QED BY <2>1, <2>6, <2>8, <3>1, InsertedOutside
  <2>10. x \notin e.entries[3].start..(e.entries[3].end - 1)
    BY <2>4
  <2> QED BY <2>1, <2>6, <2>9, <2>10, InsertedOutside
<1>4. /\ KnownTip(Merged(q, e)) \in 0..MaxHeight
      /\ KnownTip(Merged(q, e)) # 0 =>
           KnownTip(Merged(q, e)) \in Heights /\ Merged(q, e)[KnownTip(Merged(q, e))] # Unqueued
  BY <1>2, TipIs
<1> QED BY <1>3, <1>4, Constants

\* A height that is scanned, to be scanned, or not queued stays so where the edit
\* inserts nothing that is not to be scanned.
LEMMA MergedClear ==
  ASSUME NEW q \in Queues, NEW e, IsEdit(e), NEW x \in Heights,
         q[x] = Unqueued \/ q[x] >= Scanned,
         \A i \in 1..3 : In(x, e.entries[i]) => e.entries[i].pri >= Scanned
  PROVE  Merged(q, e)[x] = Unqueued \/ Merged(q, e)[x] >= Scanned
<1> DEFINE Clear(v) == v \in Values /\ (v = Unqueued \/ v >= Scanned)
<1>1. ASSUME NEW r, Entry(r), In(x, r) => r.pri >= Scanned, NEW v, NEW w, NEW force,
             Changes(x, r, force, v, w), Clear(v)
      PROVE  Clear(w)
  <2>1. w \in Values /\ (v >= Scanned => w >= Scanned)
    BY <1>1, ChangesKeep
  <2>2. v = Unqueued => w = Unqueued \/ w = Historic \/ w >= Scanned
    BY <1>1 DEF Changes
  <2>3. Historic >= Scanned
    BY DEF Historic, Scanned
  <2> QED BY <1>1, <2>1, <2>2, <2>3
<1>2. Entry(e.entries[1]) /\ Entry(e.entries[2]) /\ Entry(e.entries[3])
  BY DEF IsEdit
<1>3. PICK v0, v1, v2 :
           /\ v0 = q[x] \/ (q[x] = Unqueued /\ v0 = Historic)
           /\ Changes(x, e.entries[1], e.force, v0, v1)
           /\ Changes(x, e.entries[2], e.force, v1, v2)
           /\ Changes(x, e.entries[3], e.force, v2, Merged(q, e)[x])
  BY MergedChanges
<1>4. Clear(v0)
  BY <1>3, Levels DEF Queues, Values, Priorities, Ignored, Verify, Historic, Scanned
<1>5. \A i \in {1, 2, 3} : In(x, e.entries[i]) => e.entries[i].pri >= Scanned
  OBVIOUS
<1> HIDE DEF Clear
<1>6. Clear(v1)
  BY <1>1, <1>2, <1>3, <1>4, <1>5
<1>7. Clear(v2)
  BY <1>1, <1>2, <1>3, <1>5, <1>6
<1>8. Clear(Merged(q, e)[x])
  BY <1>1, <1>2, <1>3, <1>5, <1>7
<1> QED BY <1>8 DEF Clear

-----------------------------------------------------------------------------
(* Truncations and rewinds *)

LEMMA TrimmedIs ==
  ASSUME NEW q \in Queues, NEW t \in 0..MaxHeight
  PROVE  /\ Trimmed(q, t) \in Queues
         /\ \A x \in Heights : Trimmed(q, t)[x] = IF x <= t THEN q[x] ELSE Unqueued
         /\ KnownTip(Trimmed(q, t)) <= t /\ KnownTip(Trimmed(q, t)) <= KnownTip(q)
<1> DEFINE r == Trimmed(q, t)
<1>1. \A x \in Heights : r[x] = IF x <= t THEN q[x] ELSE Unqueued
  BY DEF Trimmed
<1>2. r \in Queues
  BY DEF Trimmed, Queues, Values
<1> HIDE DEF r
<1>3. /\ KnownTip(r) \in 0..MaxHeight
      /\ KnownTip(r) # 0 => KnownTip(r) \in Heights /\ r[KnownTip(r)] # Unqueued
  BY <1>2, TipIs
<1>4. KnownTip(r) # 0 => KnownTip(r) <= t /\ q[KnownTip(r)] # Unqueued
  BY <1>1, <1>3
<1>5. KnownTip(q) \in 0..MaxHeight /\ \A h \in Heights : q[h] # Unqueued => h <= KnownTip(q)
  BY TipIs
<1>6. KnownTip(r) <= t /\ KnownTip(r) <= KnownTip(q)
  BY <1>3, <1>4, <1>5
<1> QED BY <1>1, <1>2, <1>6 DEF r

LEMMA RewoundIs ==
  ASSUME NEW q \in Queues, NEW target \in 0..MaxHeight, NEW t \in 0..MaxHeight,
         NEW r, r = Rewound(q, target, t)
  PROVE  /\ r \in Queues /\ KnownTip(r) <= KnownTip(q)
         /\ target >= KnownTip(q) => r = Trimmed(q, t) /\ KnownTip(r) <= t
         /\ \A x \in Heights :
              /\ x <= t /\ q[x] # Unqueued => r[x] # Unqueued
              /\ x <= t /\ q[x] >= Scanned => r[x] >= Scanned
              /\ r[x] = Scanned => q[x] = Scanned /\ x <= t /\ x <= target
              /\ x > target /\ x <= KnownTip(q) => r[x] >= Historic
<1>0. MaxHeight \in Nat /\ target \in Nat /\ t \in Nat /\ \A x \in Heights : x \in Nat
  BY Constants
<1>1. PICK c : c = Trimmed(q, t)
  OBVIOUS
<1>2. /\ c \in Queues /\ \A x \in Heights : c[x] = IF x <= t THEN q[x] ELSE Unqueued
      /\ KnownTip(c) <= t /\ KnownTip(c) <= KnownTip(q)
  BY <1>1, TrimmedIs
<1>3. KnownTip(q) \in 0..MaxHeight /\ \A h \in Heights : q[h] # Unqueued => h <= KnownTip(q)
  BY TipIs
<1>4. KnownTip(c) \in 0..MaxHeight
  BY <1>2, TipIs
<1>5. Scanned # Unqueued
  BY DEF Scanned, Unqueued
<1>6. CASE target >= KnownTip(q)
  <2>1. r = c
    BY <1>0, <1>1, <1>3, <1>6 DEF Rewound
  <2>2. ASSUME NEW x \in Heights
        PROVE  /\ x <= t /\ q[x] # Unqueued => r[x] # Unqueued
               /\ x <= t /\ q[x] >= Scanned => r[x] >= Scanned
               /\ r[x] = Scanned => q[x] = Scanned /\ x <= t /\ x <= target
               /\ ~(x > target /\ x <= KnownTip(q))
    <3>1. r[x] = IF x <= t THEN q[x] ELSE Unqueued
      BY <1>2, <2>1
    <3>2. r[x] = Scanned => q[x] = Scanned /\ x <= t
      BY <1>5, <3>1
    <3>3. q[x] = Scanned => x <= target
      BY <1>0, <1>3, <1>5, <1>6
    <3> QED BY <1>0, <1>3, <1>6, <3>1, <3>2, <3>3
  <2> QED BY <1>1, <1>2, <2>1, <2>2
<1>7. CASE target < KnownTip(q)
  <2>1. PICK e : e = Rescan(target + 1, KnownTip(q) + 1, Historic)
    OBVIOUS
  <2>2. target + 1 \in Nat /\ KnownTip(q) + 1 \in 0..(MaxHeight + 1)
    BY <1>0, <1>3
  <2>3. /\ IsEdit(e) /\ NoScan(e)
        /\ e.entries[1] = ScanRange(target + 1, KnownTip(q) + 1, Historic)
        /\ e.entries[2] = None /\ e.entries[3] = None
    BY <2>1, <2>2, RescanIs
  <2>4. r = Merged(c, e)
    BY <1>1, <1>7, <2>1 DEF Rewound, RewindEdit
  <2>5. \A x \in Heights : x > target /\ x <= KnownTip(q) => r[x] >= Historic
    <3> SUFFICES ASSUME NEW x \in Heights, x > target, x <= KnownTip(q) PROVE r[x] >= Historic
      OBVIOUS
    <3>1. target + 1 <= x /\ x < KnownTip(q) + 1
      BY <1>0, <1>3
    <3> QED BY <1>2, <2>1, <2>2, <2>4, <3>1, RescanForces
  <2>6. /\ r \in Queues
        /\ \A x \in Heights : /\ c[x] # Unqueued => r[x] # Unqueued
                              /\ c[x] >= Scanned => r[x] >= Scanned
                              /\ r[x] = Scanned => c[x] = Scanned
    BY <1>2, <2>3, <2>4, MergedKeeps DEF NoScan
  <2>7. KnownTip(r) <= KnownTip(q)
    <3>1. \A i \in 1..3 : e.entries[i].end <= KnownTip(q) + 1
      <4>1. \A i \in 1..3 : i = 1 \/ i = 2 \/ i = 3
        OBVIOUS
      <4>2. ScanRange(target + 1, KnownTip(q) + 1, Historic).end = KnownTip(q) + 1 /\ None.end = 0
        BY DEF ScanRange, None
      <4>3. KnownTip(q) + 1 \in Nat
        BY <2>2, <1>0
      <4> QED BY <2>3, <4>1, <4>2, <4>3
    <3> QED BY <1>2, <1>3, <2>3, <2>4, <3>1, MergedBelow
  <2>8. ASSUME NEW x \in Heights
        PROVE  /\ x <= t /\ q[x] # Unqueued => r[x] # Unqueued
               /\ x <= t /\ q[x] >= Scanned => r[x] >= Scanned
               /\ r[x] = Scanned => q[x] = Scanned /\ x <= t /\ x <= target
    <3>1. c[x] = IF x <= t THEN q[x] ELSE Unqueued
      BY <1>2
    <3>2. /\ c[x] # Unqueued => r[x] # Unqueued
          /\ c[x] >= Scanned => r[x] >= Scanned
          /\ r[x] = Scanned => c[x] = Scanned
      BY <2>6
    <3>3. r[x] = Scanned => q[x] = Scanned /\ x <= t
      BY <1>5, <3>1, <3>2
    <3>4. q[x] = Scanned => x <= KnownTip(q)
      BY <1>3, <1>5
    <3>5. r[x] = Scanned => ~(r[x] >= Historic)
      BY DEF Historic, Scanned
    <3>6. r[x] = Scanned => x <= target
      BY <1>0, <1>3, <2>5, <3>3, <3>4, <3>5
    <3> QED BY <3>1, <3>2, <3>3, <3>6
  <2>9. ~(target >= KnownTip(q))
    BY <1>0, <1>3, <1>7
  <2> QED BY <2>5, <2>6, <2>7, <2>8, <2>9
<1> QED BY <1>0, <1>3, <1>6, <1>7

\* A rewind truncates to a block it holds or to the pruning floor, or not at all.
LEMMA TargetsAre ==
  ASSUME WalletTypeOK, NEW target \in 0..MaxHeight, NEW t \in RewindTruncations(target)
  PROVE  /\ t \in 0..MaxHeight
         /\ target >= MaxScanned => t = MaxHeight
         /\ Checkpointed => t >= target
<1> DEFINE floor == Greatest(MaxScanned - (PruningDepth - 1), 0)
           above == {b \in blocks : b >= Greatest(target, floor)}
<1>0. MaxHeight \in Nat /\ target \in Nat /\ \A x \in Heights : x \in 1..MaxHeight
  BY Constants
<1>1. MaxScanned \in 0..MaxHeight /\ (MaxScanned # 0 => MaxScanned \in blocks) /\ blocks \subseteq Heights
  BY ScannedIs DEF WalletTypeOK
<1>2. floor \in 0..MaxHeight /\ floor <= MaxScanned
  BY <1>0, <1>1, Constants DEF Greatest
<1>3. t \in (CASE target >= MaxScanned -> {MaxHeight}
               [] target < MaxScanned /\ Checkpointed -> {MinOf(above)}
               [] OTHER -> above \cup {floor})
  BY DEF RewindTruncations
<1>4. above \in SUBSET (1..MaxHeight) /\ above \in SUBSET Nat
  BY <1>0, <1>1
<1>5. \A b \in above : b >= target
  BY <1>0, <1>2, <1>4, GreatestIs
<1>6. target < MaxScanned => MaxScanned \in above
  <2> SUFFICES ASSUME target < MaxScanned PROVE MaxScanned \in above
    OBVIOUS
  <2>1. Greatest(target, floor) <= MaxScanned
    BY <1>0, <1>1, <1>2 DEF Greatest
  <2>2. MaxScanned # 0
    BY <1>0, <1>1
  <2> QED BY <1>1, <2>1, <2>2
<1> HIDE DEF above, floor
<1>7. CASE target >= MaxScanned
  <2>1. ~(target < MaxScanned)
    BY <1>0, <1>1, <1>7
  <2>2. t = MaxHeight
    BY <1>3, <1>7, <2>1
  <2> QED BY <1>0, <2>2
<1>8. CASE target < MaxScanned /\ Checkpointed
  <2>1. ~(target >= MaxScanned)
    BY <1>0, <1>1, <1>8
  <2>2. t = MinOf(above)
    BY <1>3, <1>8, <2>1
  <2>3. t \in above
    BY <1>4, <1>6, <1>8, <2>2, MinOfIs
  <2> QED BY <1>0, <1>4, <1>5, <2>1, <2>3
<1>9. CASE target < MaxScanned /\ ~Checkpointed
  <2>1. ~(target >= MaxScanned)
    BY <1>0, <1>1, <1>9
  <2>2. t \in above \cup {floor}
    BY <1>3, <1>9, <2>1
  <2> QED BY <1>0, <1>2, <1>4, <1>9, <2>1, <2>2
<1> QED BY <1>0, <1>1, <1>7, <1>8, <1>9

LEMMA ReorgTargetsAre ==
  ASSUME WalletTypeOK, NEW q, NEW t \in ReorgTargets(q) \cup ChosenTargets
  PROVE  t \in 0..MaxHeight
<1>1. CASE t \in ReorgTargets(q)
  <2>1. PICK r, by : t = MaxOf({b \in blocks : b <= r.start - by})
    BY <1>1 DEF ReorgTargets
  <2>0. blocks \subseteq 0..MaxHeight
    BY Constants DEF WalletTypeOK
  <2>2. {b \in blocks : b <= r.start - by} \in SUBSET (0..MaxHeight) /\ MaxHeight \in Nat
    BY <2>0, Constants
  <2> QED BY <2>1, <2>2, MaxOfIs
<1>2. CASE t \in ChosenTargets
  BY <1>2 DEF ChosenTargets
<1> QED BY <1>1, <1>2

-----------------------------------------------------------------------------
(* Types *)

LEMMA PrunedIs ==
  ASSUME NEW q \in Queues, NEW h, NEW retain
  PROVE  Pruned(q, h, retain) \in Queues
BY Levels DEF Pruned, Queues, Values, Unqueued

LEMMA EventType ==
  ASSUME WalletTypeOK, NEW k \in EventKinds, Event(k)
  PROVE  events' \in [EventKinds -> Nat]
BY DEF WalletTypeOK, Event

LEMMA TruncatedTypes ==
  ASSUME WalletTypeOK, NEW q \in Queues, NEW t \in 0..MaxHeight, TruncateWallet(q, t)
  PROVE  /\ blocks' \subseteq Heights /\ stale' \subseteq blocks'
         /\ roots' \in [Pools -> Nat] /\ \A p \in Pools : roots'[p] <= Len(SubtreeEnds[p])
         /\ told' \in 0..MaxHeight /\ told' <= told /\ told' <= t /\ told' <= KnownTip(q)
         /\ seen' \in [Heights -> SUBSET Accounts]
<1>1. blocks' \subseteq Heights /\ stale' \subseteq blocks'
  BY DEF WalletTypeOK, TruncateWallet
<1>2. roots' \in [Pools -> Nat]
  BY Constants DEF TruncateWallet
<1>3. ASSUME NEW p \in Pools PROVE roots'[p] <= Len(SubtreeEnds[p])
  <2>1. roots'[p] <= roots[p] /\ roots[p] <= Len(SubtreeEnds[p])
    BY DEF WalletTypeOK, TruncateWallet
  <2>2. roots'[p] \in Nat /\ roots[p] \in Nat
    BY <1>2 DEF WalletTypeOK
  <2>3. Len(SubtreeEnds[p]) \in Nat
    BY WalletAssumption
  <2> QED BY <2>1, <2>2, <2>3
<1>4. told' \in 0..MaxHeight /\ told' <= told /\ told' <= t /\ told' <= KnownTip(q)
  <2>1. KnownTip(q) \in 0..MaxHeight /\ told \in 0..MaxHeight /\ MaxHeight \in Nat
    BY TipIs, Constants DEF WalletTypeOK
  <2>2. told' = Least(told, Least(t, KnownTip(q)))
    BY DEF TruncateWallet
  <2> QED BY <2>1, <2>2 DEF Least
<1>5. seen' \in [Heights -> SUBSET Accounts]
  BY DEF WalletTypeOK, TruncateWallet
<1> QED BY <1>1, <1>2, <1>3, <1>4, <1>5

LEMMA ScanEditIs ==
  ASSUME WalletTypeOK, NEW q, NEW r \in Suggested(q), NEW found \in Findings(r),
         NEW e, e = ScanEdit(r, found)
  PROVE  /\ IsEdit(e) /\ e.entries[1] = ScanRange(r.start, r.end, Scanned)
         /\ \A i \in {2, 3} : e.entries[i].pri \in {Unqueued, FoundNote}
<1>1. r.start \in Heights /\ r.end \in 2..(MaxHeight + 1) /\ r.start < r.end
  BY DEF Suggested
<1>2. found \in [Pools -> SUBSET (1..(MaxHeight + 1))]
  BY DEF Findings
<1>3. r.start \in Nat /\ r.end \in 0..(MaxHeight + 1)
  BY <1>1, Constants
<1>4. PICK lo, hi : lo = ExtendedStart(found, r.start) /\ hi = ExtendedEnd(found, r.end)
  OBVIOUS
<1>5. lo \in Nat /\ lo <= r.start
  BY <1>2, <1>3, <1>4, ExtendedStartIs
<1>6. hi \in 0..(MaxHeight + 1) /\ r.end <= hi
  BY <1>2, <1>3, <1>4, ExtendedEndIs
<1>7. e = ScanComplete(r.start, r.end, lo, hi)
  BY <1>4 DEF ScanEdit
<1> QED BY <1>1, <1>5, <1>6, <1>7, ScanIs

LEMMA TypesHold == Spec => []TypeOK
<1>1. Init => TypeOK
  BY Constants DEF Init, WalletInit, TypeOK, WalletTypeOK, Heights
<1>2. TypeOK /\ [Next]_vars => TypeOK'
  <2> SUFFICES ASSUME TypeOK, [Next]_vars PROVE TypeOK'
    OBVIOUS
  <2> USE DEF TypeOK
  <2>1. pri \in Queues
    BY DEF Queues, Values
  <2>2. MaxHeight \in Nat \ {0} /\ Heights = 1..MaxHeight
    BY Constants
  <2>3. pri' \in Queues => pri' \in [Heights -> {Unqueued} \cup Priorities]
    BY DEF Queues, Values
  <2>4. CASE Mine /\ UNCHANGED pri
    BY <2>2, <2>4 DEF Mine, WalletTypeOK
  <2>5. CASE Reorg /\ UNCHANGED pri
    <3>1. "reorg" \in EventKinds
      BY DEF EventKinds
    <3>2. PICK h \in Heights : top' \in h..top /\ stale' = stale \cup {b \in blocks : b > h}
      BY <2>5 DEF Reorg
    <3>3. top' \in Heights
      BY <2>2, <3>2 DEF WalletTypeOK
    <3> QED BY <2>5, <3>1, <3>2, <3>3, EventType DEF Reorg, WalletTypeOK
  <2>6. CASE PutSubtreeRoots /\ UNCHANGED pri
    <3>1. PICK p \in Pools : roots[p] < Len(SubtreeEnds[p]) /\ roots' = [roots EXCEPT ![p] = @ + 1]
      BY <2>6 DEF PutSubtreeRoots
    <3>2. Len(SubtreeEnds[p]) \in Nat /\ roots \in [Pools -> Nat]
      BY WalletAssumption DEF WalletTypeOK
    <3>3. roots' \in [Pools -> Nat] /\ \A o \in Pools : roots'[o] <= Len(SubtreeEnds[o])
      BY <3>1, <3>2 DEF WalletTypeOK
    <3> QED BY <2>6, <3>3 DEF PutSubtreeRoots, WalletTypeOK
  <2>7. CASE UpdateChainTip
    <3>1. IsEdit(TipEdit)
      BY <2>7, TipEditIs DEF UpdateChainTip, LearnTip
    <3>2. pri' \in Queues
      BY <2>1, <2>7, <3>1, MergedKeeps DEF UpdateChainTip
    <3> QED BY <2>2, <2>3, <2>7, <3>2 DEF UpdateChainTip, LearnTip, WalletTypeOK
  <2>8. CASE ScanBlocks
    <3>1. PICK r \in Suggested(pri) :
            StoreBlocks(r) /\ \E found \in Findings(r) : pri' = Merged(pri, ScanEdit(r, found))
      BY <2>8 DEF ScanBlocks
    <3>2. PICK found \in Findings(r) : pri' = Merged(pri, ScanEdit(r, found))
      BY <3>1
    <3>3. IsEdit(ScanEdit(r, found))
      BY ScanEditIs
    <3>4. pri' \in Queues
      BY <2>1, <3>2, <3>3, MergedKeeps
    <3>5. r.start..(r.end - 1) \subseteq Heights
      BY <2>2 DEF Suggested
    <3>6. Held \subseteq Accounts
      BY DEF Held
    <3> QED BY <2>3, <3>1, <3>4, <3>5, <3>6 DEF StoreBlocks, WalletTypeOK
  <2>9. "request" \in EventKinds /\ "account" \in EventKinds /\ "deletion" \in EventKinds
    BY DEF EventKinds
  <2>10. CASE Truncate
    <3>1. PICK t \in ReorgTargets(pri) \cup ChosenTargets :
            TruncateWallet(pri, t) /\ Truncation(pri, t) /\ pri' = Trimmed(pri, t)
      BY <2>10 DEF Truncate
    <3>2. t \in 0..MaxHeight
      BY ReorgTargetsAre
    <3>3. pri' \in Queues
      BY <2>1, <3>1, <3>2, TrimmedIs
    <3>4. events' \in [EventKinds -> Nat] /\ UNCHANGED <<born, top>>
      BY <2>9, <3>1, EventType DEF Truncation, WalletTypeOK
    <3>5. /\ blocks' \subseteq Heights /\ stale' \subseteq blocks'
          /\ roots' \in [Pools -> Nat] /\ \A p \in Pools : roots'[p] <= Len(SubtreeEnds[p])
          /\ told' \in 0..MaxHeight /\ seen' \in [Heights -> SUBSET Accounts]
      BY <2>1, <3>1, <3>2, TruncatedTypes
    <3> QED BY <2>3, <3>3, <3>4, <3>5 DEF WalletTypeOK
  <2>11. CASE RewindToChainState
    <3>1. PICK target \in 0..top, reset \in SUBSET Held :
            /\ RewindAccounts(target, reset)
            /\ \E t \in RewindTruncations(target) :
                 TruncateWallet(pri, t) /\ pri' = Rewound(pri, target, t)
      BY <2>11 DEF RewindToChainState, RewindTo
    <3>2. PICK t \in RewindTruncations(target) :
                 TruncateWallet(pri, t) /\ pri' = Rewound(pri, target, t)
      BY <3>1
    <3>3. target \in 0..MaxHeight
      BY <2>2 DEF WalletTypeOK
    <3>4. t \in 0..MaxHeight
      BY <3>3, TargetsAre
    <3>5. pri' \in Queues
      BY <2>1, <3>2, <3>3, <3>4, RewoundIs
    <3>6. events' \in [EventKinds -> Nat] /\ UNCHANGED top
      BY <2>9, <3>1, EventType DEF RewindAccounts
    <3>7. /\ blocks' \subseteq Heights /\ stale' \subseteq blocks'
          /\ roots' \in [Pools -> Nat] /\ \A p \in Pools : roots'[p] <= Len(SubtreeEnds[p])
          /\ told' \in 0..MaxHeight /\ seen' \in [Heights -> SUBSET Accounts]
      BY <2>1, <3>2, <3>4, TruncatedTypes
    <3>8. born' \in [Accounts -> 0..MaxHeight + 1]
      <4>1. \A a \in Accounts : Least(born[a], target + 1) \in 0..MaxHeight + 1
        BY <2>2, <3>3 DEF WalletTypeOK, Least
      <4>2. born' = Lowered(target, reset)
        BY <3>1 DEF RewindAccounts
      <4> QED BY <4>1, <4>2 DEF Lowered, WalletTypeOK
    <3> QED BY <2>3, <3>5, <3>6, <3>7, <3>8 DEF WalletTypeOK
  <2>12. CASE AddAccount
    <3>1. PICK a \in Accounts, birthday \in 1..(MaxHeight + 1) :
            /\ Joins(pri, a, birthday)
            /\ \E t \in RewindTruncations(birthday - 1) :
                 /\ TruncateWallet(pri, t)
                 /\ LET rewound == Rewound(pri, birthday - 1, t)
                    IN  pri' = IF birthday > SaplingActivation
                                 THEN Merged(rewound, IgnoreBelow(birthday)) ELSE rewound
      BY <2>12 DEF AddAccount, AddAccountAt
    <3>2. PICK t \in RewindTruncations(birthday - 1) : \E rewound :
                 /\ TruncateWallet(pri, t) /\ rewound = Rewound(pri, birthday - 1, t)
                 /\ pri' = IF birthday > SaplingActivation
                                 THEN Merged(rewound, IgnoreBelow(birthday)) ELSE rewound
      BY <3>1
    <3>2a. PICK rewound :
                 /\ TruncateWallet(pri, t) /\ rewound = Rewound(pri, birthday - 1, t)
                 /\ pri' = IF birthday > SaplingActivation
                                 THEN Merged(rewound, IgnoreBelow(birthday)) ELSE rewound
      BY <3>2
    <3>3. birthday - 1 \in 0..MaxHeight /\ birthday \in 0..(MaxHeight + 1)
      BY <2>2
    <3>4. t \in 0..MaxHeight
      BY <3>3, TargetsAre
    <3>5. rewound \in Queues
      BY <2>1, <3>2a, <3>3, <3>4, RewoundIs
    <3>6. IsEdit(IgnoreBelow(birthday))
      BY <3>3, IgnoreIs
    <3>7. pri' \in Queues
      BY <3>2a, <3>5, <3>6, MergedKeeps
    <3>8. events' \in [EventKinds -> Nat] /\ UNCHANGED top
      BY <2>9, <3>1, EventType DEF Joins
    <3>9. /\ blocks' \subseteq Heights /\ stale' \subseteq blocks'
          /\ roots' \in [Pools -> Nat] /\ \A p \in Pools : roots'[p] <= Len(SubtreeEnds[p])
          /\ told' \in 0..MaxHeight /\ seen' \in [Heights -> SUBSET Accounts]
      BY <2>1, <3>2a, <3>4, TruncatedTypes
    <3>10. born' \in [Accounts -> 0..MaxHeight + 1]
      BY <3>1, <3>3 DEF Joins, WalletTypeOK
    <3> QED BY <2>3, <3>7, <3>8, <3>9, <3>10 DEF WalletTypeOK
  <2>13. CASE LeaveAccount
    <3>1. events' \in [EventKinds -> Nat]
      BY <2>9, <2>13, EventType DEF LeaveAccount, DeleteAccount
    <3>2. PICK a \in Held : born' = [born EXCEPT ![a] = 0]
                            /\ seen' = [h \in Heights |-> seen[h] \ {a}]
      BY <2>13 DEF LeaveAccount, DeleteAccount
    <3>3. 0 \in 0..MaxHeight + 1
      BY <2>2
    <3>4. born' \in [Accounts -> 0..MaxHeight + 1]
      BY <3>2, <3>3 DEF WalletTypeOK
    <3>5. seen' \in [Heights -> SUBSET Accounts]
      BY <3>2 DEF WalletTypeOK
    <3> QED BY <2>13, <3>1, <3>4, <3>5 DEF LeaveAccount, DeleteAccount, WalletTypeOK
  <2>14. CASE QueueRescan
    <3>1. PICK s, e \in 1..(MaxHeight + 1) :
            RescanOf(pri, s, e) /\ pri' = Merged(pri, Rescan(s, e, Historic))
      BY <2>14 DEF QueueRescan
    <3>2. s \in Nat /\ e \in 0..(MaxHeight + 1)
      BY <2>2
    <3>3. IsEdit(Rescan(s, e, Historic))
      BY <3>2, RescanIs
    <3>4. pri' \in Queues
      BY <2>1, <3>1, <3>3, MergedKeeps
    <3>5. events' \in [EventKinds -> Nat]
      BY <2>9, <3>1, EventType DEF RescanOf
    <3> QED BY <2>3, <3>1, <3>4, <3>5 DEF RescanOf, WalletTypeOK
  <2>15. CASE Prune
    BY <2>1, <2>3, <2>15, PrunedIs DEF Prune, PruneBelow, wallet, WalletTypeOK
  <2>16. CASE UNCHANGED vars
    BY <2>16 DEF vars, wallet, WalletTypeOK
  <2> QED BY <2>4, <2>5, <2>6, <2>7, <2>8, <2>10, <2>11, <2>12, <2>13, <2>14, <2>15, <2>16
          DEF Next, Chain
<1> QED BY <1>1, <1>2, PTL DEF Spec

\* The type invariant: one priority, or none, for every height.
THEOREM TypeCorrect == Spec => []TypeOK
BY TypesHold

LEMMA Types ==
  ASSUME TypeOK
  PROVE  /\ WalletTypeOK /\ pri \in Queues /\ MaxHeight \in Nat \ {0} /\ Heights = 1..MaxHeight
         /\ top \in 1..MaxHeight /\ told \in 0..MaxHeight /\ KnownTip(pri) \in 0..MaxHeight
         /\ blocks \subseteq Heights /\ stale \subseteq blocks
         /\ born \in [Accounts -> 0..MaxHeight + 1]
<1>1. WalletTypeOK /\ pri \in Queues
  BY DEF TypeOK, Queues, Values
<1> QED BY <1>1, Constants, TipIs DEF WalletTypeOK

-----------------------------------------------------------------------------
(* What the steps do *)

LEMMA TruncateStep ==
  ASSUME TypeOK, Truncate
  PROVE  \E t \in 0..MaxHeight :
           TruncateWallet(pri, t) /\ pri' = Trimmed(pri, t) /\ UNCHANGED <<born, top>>
BY Types, ReorgTargetsAre DEF Truncate, Truncation

LEMMA RewindStep ==
  ASSUME TypeOK, RewindToChainState
  PROVE  \E target \in 0..MaxHeight, t \in 0..MaxHeight, reset \in SUBSET Held :
           /\ t \in RewindTruncations(target) /\ TruncateWallet(pri, t)
           /\ pri' = Rewound(pri, target, t)
           /\ born' = Lowered(target, reset) /\ UNCHANGED top
           /\ RewindTo(target)
<1>0. PICK target \in 0..top : RewindTo(target)
  BY DEF RewindToChainState
<1>1. PICK reset \in SUBSET Held :
            /\ RewindAccounts(target, reset)
            /\ \E t \in RewindTruncations(target) :
                 TruncateWallet(pri, t) /\ pri' = Rewound(pri, target, t)
  BY <1>0 DEF RewindTo
<1>2. PICK t \in RewindTruncations(target) :
                 TruncateWallet(pri, t) /\ pri' = Rewound(pri, target, t)
  BY <1>1
<1>3. target \in 0..MaxHeight
  BY Types
<1>4. t \in 0..MaxHeight
  BY <1>3, Types, TargetsAre
<1> QED BY <1>0, <1>1, <1>2, <1>3, <1>4 DEF RewindAccounts

LEMMA AddStep ==
  ASSUME TypeOK, AddAccount
  PROVE  \E a \in Accounts, birthday \in 1..(MaxHeight + 1), t \in 0..MaxHeight : \E rewound :
           /\ Joins(pri, a, birthday) /\ birthday - 1 \in 0..MaxHeight
           /\ t \in RewindTruncations(birthday - 1) /\ TruncateWallet(pri, t)
           /\ rewound \in Queues /\ rewound = Rewound(pri, birthday - 1, t)
           /\ pri' = IF birthday > SaplingActivation
                       THEN Merged(rewound, IgnoreBelow(birthday)) ELSE rewound
           /\ AddAccountAt(birthday)
<1>0. PICK birthday \in 1..(MaxHeight + 1) : AddAccountAt(birthday)
  BY DEF AddAccount
<1>1. PICK a \in Accounts :
            /\ Joins(pri, a, birthday)
            /\ \E t \in RewindTruncations(birthday - 1) :
                 /\ TruncateWallet(pri, t)
                 /\ LET rewound == Rewound(pri, birthday - 1, t)
                    IN  pri' = IF birthday > SaplingActivation
                                 THEN Merged(rewound, IgnoreBelow(birthday)) ELSE rewound
  BY <1>0 DEF AddAccountAt
<1>2. PICK t \in RewindTruncations(birthday - 1) : \E rewound :
                 /\ TruncateWallet(pri, t) /\ rewound = Rewound(pri, birthday - 1, t)
                 /\ pri' = IF birthday > SaplingActivation
                                 THEN Merged(rewound, IgnoreBelow(birthday)) ELSE rewound
  BY <1>1
<1>2a. PICK rewound :
                 /\ TruncateWallet(pri, t) /\ rewound = Rewound(pri, birthday - 1, t)
                 /\ pri' = IF birthday > SaplingActivation
                                 THEN Merged(rewound, IgnoreBelow(birthday)) ELSE rewound
  BY <1>2
<1>3. birthday - 1 \in 0..MaxHeight
  BY Constants
<1>4. t \in 0..MaxHeight
  BY <1>3, Types, TargetsAre
<1>5. rewound \in Queues
  BY <1>2a, <1>3, <1>4, Types, RewoundIs
<1> QED BY <1>0, <1>1, <1>2a, <1>3, <1>4, <1>5

\* What adding an account leaves of the queue: IgnoreBelow disturbs nothing that is
\* scanned or to be scanned.
LEMMA AddedIs ==
  ASSUME NEW rewound \in Queues, NEW birthday \in 1..(MaxHeight + 1),
         NEW q, q = IF birthday > SaplingActivation
                      THEN Merged(rewound, IgnoreBelow(birthday)) ELSE rewound
  PROVE  /\ q \in Queues
         /\ \A x \in Heights :
              /\ rewound[x] # Unqueued => q[x] # Unqueued
              /\ rewound[x] >= Scanned => q[x] >= Scanned
              /\ rewound[x] >= Historic => q[x] >= Historic
              /\ q[x] = Scanned => rewound[x] = Scanned
         /\ \A n \in 0..MaxHeight : birthday - 1 <= n /\ KnownTip(rewound) <= n => KnownTip(q) <= n
<1>1. CASE birthday > SaplingActivation
  <2>1. PICK e : e = IgnoreBelow(birthday)
    OBVIOUS
  <2>2. birthday \in 0..(MaxHeight + 1)
    BY Constants
  <2>3. /\ IsEdit(e) /\ NoScan(e)
        /\ e.entries[1] = ScanRange(SaplingActivation, birthday, Ignored)
        /\ e.entries[2] = None /\ e.entries[3] = None
    BY <2>1, <2>2, IgnoreIs
  <2>4. q = Merged(rewound, e)
    BY <1>1, <2>1
  <2>5. \A i \in 1..3 : e.entries[i].pri # Scanned
    BY <2>3 DEF NoScan
  <2>6. /\ q \in Queues
        /\ \A x \in Heights :
              /\ rewound[x] # Unqueued => q[x] # Unqueued
              /\ rewound[x] >= Scanned => q[x] >= Scanned
              /\ rewound[x] >= Historic => q[x] >= Historic
              /\ q[x] = Scanned => rewound[x] = Scanned
    BY <2>3, <2>4, <2>5, MergedKeeps
  <2>7. ASSUME NEW n \in 0..MaxHeight, birthday - 1 <= n, KnownTip(rewound) <= n
        PROVE  KnownTip(q) <= n
    <3>1. \A i \in 1..3 : i = 1 \/ i = 2 \/ i = 3
      OBVIOUS
    <3>2. ScanRange(SaplingActivation, birthday, Ignored).end = birthday /\ None.end = 0
      BY DEF ScanRange, None
    <3>3. birthday <= n + 1 /\ 0 <= n + 1
      BY <2>7, Constants
    <3>4. \A i \in 1..3 : e.entries[i].end <= n + 1
      BY <2>3, <3>1, <3>2, <3>3
    <3> QED BY <2>3, <2>4, <2>7, <3>4, MergedBelow
  <2> QED BY <2>6, <2>7
<1>2. CASE ~(birthday > SaplingActivation)
  BY <1>2
<1> QED BY <1>1, <1>2

LEMMA ScanStep ==
  ASSUME TypeOK, ScanBlocks
  PROVE  \E r \in Suggested(pri) : \E found \in Findings(r) :
           /\ StoreBlocks(r) /\ Connects(r) /\ IsEdit(ScanEdit(r, found))
           /\ pri' = Merged(pri, ScanEdit(r, found))
           /\ r.start \in Heights /\ r.end \in 2..(MaxHeight + 1) /\ r.start < r.end
           /\ r.start..(r.end - 1) \subseteq Heights
           /\ \A x \in r.start..(r.end - 1) : pri[x] >= Historic
<1>1. PICK r \in Suggested(pri) :
            StoreBlocks(r) /\ Connects(r) /\ \E found \in Findings(r) : pri' = Merged(pri, ScanEdit(r, found))
  BY DEF ScanBlocks
<1>2. PICK found \in Findings(r) : pri' = Merged(pri, ScanEdit(r, found))
  BY <1>1
<1>3. IsEdit(ScanEdit(r, found))
  BY Types, ScanEditIs
<1>4. r.start \in Heights /\ r.end \in 2..(MaxHeight + 1) /\ r.start < r.end
  BY DEF Suggested
<1>5. r.start..(r.end - 1) \subseteq Heights
  BY <1>4, Constants
<1>6. \A x \in r.start..(r.end - 1) : pri[x] >= Historic
  BY DEF Suggested
<1> QED BY <1>1, <1>2, <1>3, <1>4, <1>5, <1>6

LEMMA RescanStep ==
  ASSUME TypeOK, QueueRescan
  PROVE  \E s \in Nat, t \in 0..(MaxHeight + 1) :
           /\ RescanOf(pri, s, t) /\ pri' = Merged(pri, Rescan(s, t, Historic))
           /\ IsEdit(Rescan(s, t, Historic)) /\ NoScan(Rescan(s, t, Historic))
           /\ \A i \in 1..3 : Rescan(s, t, Historic).entries[i].end <= KnownTip(pri) + 1
<1>1. PICK s \in Nat, t \in 0..(MaxHeight + 1) :
            RescanOf(pri, s, t) /\ pri' = Merged(pri, Rescan(s, t, Historic))
  BY Constants DEF QueueRescan
<1>3. PICK d : d = Rescan(s, t, Historic)
  OBVIOUS
<1>4. /\ IsEdit(d) /\ NoScan(d) /\ d.entries[1] = ScanRange(s, t, Historic)
      /\ d.entries[2] = None /\ d.entries[3] = None
  BY <1>3, RescanIs
<1>5. t <= KnownTip(pri) + 1 /\ 0 <= KnownTip(pri) + 1
  BY <1>1, Types DEF RescanOf
<1>6. ScanRange(s, t, Historic).end = t /\ None.end = 0
  BY DEF ScanRange, None
<1>7. \A i \in 1..3 : i = 1 \/ i = 2 \/ i = 3
  OBVIOUS
<1>8. \A i \in 1..3 : d.entries[i].end <= KnownTip(pri) + 1
  BY <1>4, <1>5, <1>6, <1>7
<1> QED BY <1>1, <1>3, <1>4, <1>8

-----------------------------------------------------------------------------
(* Scanned for every account *)

\* A block counted as scanned is stored and was scanned with the keys of every
\* account born by then: a rewind and an account that joins below what was scanned
\* queue everything from the birthday again, whatever the truncation spares.
LEMMA ScannedStays ==
  ASSUME TypeOK, AllAccountsScanned, [Next]_vars
  PROVE  AllAccountsScanned'
<1>1. \A h \in Heights : pri[h] = Scanned =>
        h \in blocks /\ \A a \in Accounts : born[a] # 0 /\ born[a] <= h => a \in seen[h]
  BY DEF AllAccountsScanned, ScannedForEveryAccount, Held
<1> DEFINE Kept(h) == h \in blocks' /\ \A a \in Accounts : born'[a] # 0 /\ born'[a] <= h => a \in seen'[h]
<1> SUFFICES ASSUME NEW h \in Heights, pri'[h] = Scanned PROVE Kept(h)
  BY DEF AllAccountsScanned, ScannedForEveryAccount, Held
<1>2. h \in Nat /\ \A a \in Accounts : born[a] \in Nat
  BY Types
\* Where the height was scanned before and the wallet keeps what it says of it.
<1>3. ASSUME pri[h] = Scanned, blocks \subseteq blocks', UNCHANGED <<born, seen>>
      PROVE  Kept(h)
  BY <1>1, <1>3
\* ... and where the wallet is truncated above it.
<1>4. ASSUME NEW t, pri[h] = Scanned, h <= t, TruncateWallet(pri, t),
             \A a \in Accounts : born'[a] # 0 /\ born'[a] <= h => born[a] # 0 /\ born[a] <= h
      PROVE  Kept(h)
  <2>1. h \in blocks' /\ seen'[h] = seen[h]
    BY <1>1, <1>4 DEF TruncateWallet
  <2> QED BY <1>1, <1>4, <2>1
<1> HIDE DEF Kept
<1>5. CASE (Mine \/ Reorg \/ PutSubtreeRoots) /\ UNCHANGED pri
  BY <1>3, <1>5 DEF Mine, Reorg, PutSubtreeRoots
<1>6. CASE UpdateChainTip
  <2>1. IsEdit(TipEdit) /\ NoScan(TipEdit) /\ pri' = Merged(pri, TipEdit)
    BY <1>6, Types, TipEditIs DEF UpdateChainTip, LearnTip
  <2>2. pri[h] = Scanned
    BY <2>1, Types, MergedKeeps DEF NoScan
  <2> QED BY <1>3, <1>6, <2>2 DEF UpdateChainTip, LearnTip
<1>7. CASE ScanBlocks
  <2>1. PICK r \in Suggested(pri) : \E found \in Findings(r) :
           /\ StoreBlocks(r) /\ Connects(r) /\ IsEdit(ScanEdit(r, found))
           /\ pri' = Merged(pri, ScanEdit(r, found))
           /\ r.start \in Heights /\ r.end \in 2..(MaxHeight + 1) /\ r.start < r.end
           /\ r.start..(r.end - 1) \subseteq Heights
           /\ \A x \in r.start..(r.end - 1) : pri[x] >= Historic
    BY <1>7, ScanStep
  <2>2. PICK found \in Findings(r) : IsEdit(ScanEdit(r, found)) /\ pri' = Merged(pri, ScanEdit(r, found))
    BY <2>1
  <2>3. CASE h \in r.start..(r.end - 1)
    BY <1>1, <2>1, <2>3 DEF Kept, StoreBlocks, Held
  <2>4. CASE h \notin r.start..(r.end - 1)
    <3>1. PICK e : e = ScanEdit(r, found)
      OBVIOUS
    <3>2. /\ e.entries[1] = ScanRange(r.start, r.end, Scanned)
          /\ \A i \in {2, 3} : e.entries[i].pri \in {Unqueued, FoundNote}
      BY <3>1, Types, ScanEditIs
    <3>3. ~In(h, e.entries[1])
      BY <2>4, <3>2 DEF In, ScanRange
    <3>4. FoundNote # Scanned /\ Unqueued # Scanned
      BY DEF FoundNote, Unqueued, Scanned
    <3>5. \A i \in 1..3 : i = 1 \/ i \in {2, 3}
      OBVIOUS
    <3>6. ~\E i \in 1..3 : In(h, e.entries[i]) /\ e.entries[i].pri = Scanned
      BY <3>2, <3>3, <3>4, <3>5
    <3>7. pri[h] = Scanned
      BY <2>2, <3>1, <3>6, Types, MergedKeeps
    <3>8. h \in blocks' /\ seen'[h] = seen[h] /\ born' = born
      BY <1>1, <2>1, <2>4, <3>7 DEF StoreBlocks
    <3> QED BY <1>1, <3>7, <3>8 DEF Kept
  <2> QED BY <2>3, <2>4
<1>8. CASE Truncate
  <2>1. PICK t \in 0..MaxHeight :
          TruncateWallet(pri, t) /\ pri' = Trimmed(pri, t) /\ UNCHANGED <<born, top>>
    BY <1>8, TruncateStep
  <2>2. pri'[h] = IF h <= t THEN pri[h] ELSE Unqueued
    BY <2>1, Types, TrimmedIs
  <2>3. h <= t /\ pri[h] = Scanned
    BY <2>2 DEF Scanned, Unqueued
  <2> QED BY <1>4, <2>1, <2>3
<1>9. CASE RewindToChainState
  <2>1. PICK target \in 0..MaxHeight, t \in 0..MaxHeight, reset \in SUBSET Held :
           /\ t \in RewindTruncations(target) /\ TruncateWallet(pri, t)
           /\ pri' = Rewound(pri, target, t)
           /\ born' = Lowered(target, reset) /\ UNCHANGED top
    BY <1>9, RewindStep
  <2>2. pri[h] = Scanned /\ h <= t /\ h <= target
    BY <2>1, Types, RewoundIs
  <2>3. \A a \in Accounts : born'[a] # 0 /\ born'[a] <= h => born[a] # 0 /\ born[a] <= h
    <3> SUFFICES ASSUME NEW a \in Accounts, born'[a] # 0, born'[a] <= h
                 PROVE  born[a] # 0 /\ born[a] <= h
      OBVIOUS
    <3>1. born'[a] = IF a \in reset THEN Least(born[a], target + 1) ELSE born[a]
      BY <2>1 DEF Lowered
    <3>2. a \in reset => born[a] # 0
      BY DEF Held
    <3>3. target \in Nat
      BY Constants
    <3> QED BY <1>2, <2>2, <3>1, <3>2, <3>3 DEF Least
  <2> QED BY <1>4, <2>1, <2>2, <2>3
<1>10. CASE AddAccount
  <2>1. PICK a \in Accounts, birthday \in 1..(MaxHeight + 1), t \in 0..MaxHeight : \E rewound :
           /\ Joins(pri, a, birthday) /\ birthday - 1 \in 0..MaxHeight
           /\ t \in RewindTruncations(birthday - 1) /\ TruncateWallet(pri, t)
           /\ rewound \in Queues /\ rewound = Rewound(pri, birthday - 1, t)
           /\ pri' = IF birthday > SaplingActivation
                       THEN Merged(rewound, IgnoreBelow(birthday)) ELSE rewound
    BY <1>10, AddStep
  <2>2. PICK rewound \in Queues :
           /\ rewound = Rewound(pri, birthday - 1, t)
           /\ pri' = IF birthday > SaplingActivation
                       THEN Merged(rewound, IgnoreBelow(birthday)) ELSE rewound
    BY <2>1
  <2>3. rewound[h] = Scanned
    BY <2>2, AddedIs
  <2>3a. PICK target \in 0..MaxHeight : target = birthday - 1 /\ rewound = Rewound(pri, target, t)
    BY <2>1, <2>2
  <2>4. pri[h] = Scanned /\ h <= t /\ h <= birthday - 1
    <3>1. pri \in Queues
      BY Types
    <3>2. pri[h] = Scanned /\ h <= t /\ h <= target
      BY <2>3, <2>3a, <3>1, RewoundIs
    <3> QED BY <2>3a, <3>2
  <2>5. \A b \in Accounts : born'[b] # 0 /\ born'[b] <= h => born[b] # 0 /\ born[b] <= h
    <3> SUFFICES ASSUME NEW b \in Accounts, born'[b] # 0, born'[b] <= h
                 PROVE  born[b] # 0 /\ born[b] <= h
      OBVIOUS
    <3>1. born'[b] = IF b = a THEN birthday ELSE born[b]
      BY <2>1, Types DEF Joins
    <3>2. birthday \in Nat
      BY Constants
    <3> QED BY <1>2, <2>4, <3>1, <3>2
  <2> QED BY <1>4, <2>1, <2>4, <2>5
<1>11. CASE LeaveAccount
  <2>1. PICK a \in Held : born' = [born EXCEPT ![a] = 0] /\ seen' = [x \in Heights |-> seen[x] \ {a}]
    BY <1>11 DEF LeaveAccount, DeleteAccount
  <2>2. pri[h] = Scanned /\ blocks' = blocks
    BY <1>11 DEF LeaveAccount, DeleteAccount
  <2>3. \A b \in Accounts : born'[b] = (IF b = a THEN 0 ELSE born[b])
    BY <2>1, Types
  <2>4. seen'[h] = seen[h] \ {a}
    BY <2>1
  <2> QED BY <1>1, <2>2, <2>3, <2>4 DEF Kept
<1>12. CASE QueueRescan
  <2>1. PICK s \in Nat, t \in 0..(MaxHeight + 1) :
           /\ RescanOf(pri, s, t) /\ pri' = Merged(pri, Rescan(s, t, Historic))
           /\ IsEdit(Rescan(s, t, Historic)) /\ NoScan(Rescan(s, t, Historic))
    BY <1>12, RescanStep
  <2>2. pri[h] = Scanned
    BY <2>1, Types, MergedKeeps DEF NoScan
  <2> QED BY <1>3, <2>1, <2>2 DEF RescanOf
<1>13. CASE Prune
  <2>1. pri[h] = Scanned /\ UNCHANGED wallet
    BY <1>13 DEF Prune, PruneBelow, Pruned, Scanned, Ignored, Unqueued
  <2> QED BY <1>3, <2>1 DEF wallet
<1>14. CASE UNCHANGED vars
  BY <1>3, <1>14 DEF vars, wallet
<1> QED BY <1>5, <1>6, <1>7, <1>8, <1>9, <1>10, <1>11, <1>12, <1>13, <1>14 DEF Next, Chain

\* Whatever the order of scans, truncations, rewinds and accounts that come and go, a
\* block counted as scanned is stored and every account born by then was looked for in it.
THEOREM ScannedMeansSeen == Spec => []AllAccountsScanned
<1>1. Init => AllAccountsScanned
  BY DEF Init, AllAccountsScanned, ScannedForEveryAccount, Scanned, Unqueued
<1>2. TypeOK /\ AllAccountsScanned /\ [Next]_vars => AllAccountsScanned'
  BY ScannedStays
<1> QED BY <1>1, <1>2, TypesHold, PTL DEF Spec

-----------------------------------------------------------------------------
(* One chain *)

\* The stored blocks above a block of a lost chain, without a gap, are of it too.
LostUpward == \A b \in stale : b + 1 \in blocks => b + 1 \in stale

LEMMA LostStays ==
  ASSUME TypeOK, LostUpward, [Next]_vars
  PROVE  LostUpward'
<1> SUFFICES ASSUME NEW b \in stale', b + 1 \in blocks' PROVE b + 1 \in stale'
  BY DEF LostUpward
<1>0. b \in stale /\ b + 1 \in blocks => b + 1 \in stale
  BY DEF LostUpward
<1>1. ASSUME NEW t, TruncateWallet(pri, t) PROVE b + 1 \in stale'
  BY <1>0, <1>1 DEF TruncateWallet
<1>2. CASE Reorg
  <2>1. PICK x \in Heights : stale' = stale \cup {y \in blocks : y > x}
    BY <1>2 DEF Reorg
  <2>2. blocks' = blocks /\ b \in Nat /\ x \in Nat
    BY <1>2, <2>1, Types DEF Reorg
  <2> QED BY <1>0, <2>1, <2>2
<1>3. CASE ScanBlocks
  <2>1. PICK r \in Suggested(pri) :
           /\ StoreBlocks(r) /\ Connects(r)
           /\ r.start \in Heights /\ r.end \in 2..(MaxHeight + 1) /\ r.start < r.end
    BY <1>3, ScanStep
  <2>2. r.start \in Nat /\ r.end \in Nat /\ b \in Nat
    BY <2>1, Types DEF StoreBlocks
  <2>3. b \in stale /\ b \notin r.start..(r.end - 1) /\ b # r.start - 1
    BY <2>1 DEF StoreBlocks, Connects
  <2>4. b + 1 \notin r.start..(r.end - 1)
    BY <2>2, <2>3
  <2> QED BY <1>0, <2>1, <2>3, <2>4 DEF StoreBlocks
<1>4. CASE UNCHANGED <<blocks, stale>>
  BY <1>0, <1>4
<1>5. CASE Truncate
  BY <1>1, <1>5 DEF Truncate
<1>6. CASE RewindToChainState
  BY <1>1, <1>6 DEF RewindToChainState, RewindTo
<1>7. CASE AddAccount
  BY <1>1, <1>7 DEF AddAccount, AddAccountAt
<1>8. (Mine \/ PutSubtreeRoots \/ UpdateChainTip \/ LeaveAccount \/ QueueRescan \/ Prune \/ UNCHANGED vars)
        => UNCHANGED <<blocks, stale>>
  BY DEF Mine, PutSubtreeRoots, UpdateChainTip, LearnTip, LeaveAccount, DeleteAccount,
         QueueRescan, RescanOf, Prune, PruneBelow, vars, wallet
<1> QED BY <1>2, <1>3, <1>4, <1>5, <1>6, <1>7, <1>8 DEF Next, Chain

LEMMA OneChainFollows ==
  ASSUME TypeOK, AllAccountsScanned, LostUpward
  PROVE  SyncedToOneChain
<1> SUFFICES ASSUME Held # {}, top \notin stale, \A h \in WalletBirthday..top : pri[h] = Scanned,
                    NEW s \in stale, s \in WalletBirthday..top
             PROVE  FALSE
  BY DEF SyncedToOneChain, OneChain
<1>1. WalletBirthday \in Nat \ {0} /\ top \in 1..MaxHeight /\ s \in Nat /\ MaxHeight \in Nat
  BY Types, BirthdayIs
<1>2. \A h \in s..top : h \in blocks
  <2> SUFFICES ASSUME NEW h \in s..top PROVE h \in blocks
    OBVIOUS
  <2>1. h \in WalletBirthday..top /\ h \in Heights
    BY <1>1, Types
  <2> QED BY <2>1 DEF AllAccountsScanned, ScannedForEveryAccount
<1> DEFINE T == {h \in s..top : h \notin stale}
<1>3. T \subseteq Nat /\ top \in T
  BY <1>1
<1>4. PICK m \in T : \A n \in T : m <= n
  BY <1>3, LeastNumber
<1>5. m # s /\ m \in s..top
  BY <1>4
<1>6. m - 1 \in s..top /\ m - 1 \notin T
  BY <1>1, <1>4, <1>5
<1>7. m - 1 \in stale /\ (m - 1) + 1 = m
  BY <1>1, <1>5, <1>6
<1>8. m \in stale
  BY <1>2, <1>5, <1>7 DEF LostUpward
<1> QED BY <1>4, <1>8

\* A wallet that counts everything up to the tip of the best chain as scanned holds no
\* block of a chain that was reorganised away, whatever was scanned out of order.
THEOREM SyncedIsOneChain == Spec => []SyncedToOneChain
<1>1. Init => LostUpward
  BY DEF Init, WalletInit, LostUpward
<1>2. TypeOK /\ LostUpward /\ [Next]_vars => LostUpward'
  BY LostStays
<1>3. TypeOK /\ AllAccountsScanned /\ LostUpward => SyncedToOneChain
  BY OneChainFollows
<1> QED BY <1>1, <1>2, <1>3, TypesHold, ScannedMeansSeen, PTL DEF Spec

-----------------------------------------------------------------------------
(* What is dropped is queued again *)

LEMMA DropStep ==
  ASSUME TypeOK, [Next]_vars, NEW h \in blocks \ blocks'
  PROVE  \/ pri'[h] >= Historic \/ h > KnownTip(pri')
         \/ \E target \in Heights : h <= target /\ (RewindTo(target) \/ AddAccountAt(target + 1))
<1>0. h \in Heights /\ h \in Nat /\ KnownTip(pri) \in Nat /\ MaxHeight \in Nat /\ pri \in Queues
      /\ h <= MaxHeight
  BY Types
<1>1. ASSUME NEW t, TruncateWallet(pri, t) PROVE ~(h <= t)
  BY <1>1 DEF TruncateWallet
<1>2. CASE Truncate
  <2>1. PICK t \in 0..MaxHeight : TruncateWallet(pri, t) /\ pri' = Trimmed(pri, t)
    BY <1>2, TruncateStep
  <2>2. KnownTip(pri') <= t /\ KnownTip(pri') \in 0..MaxHeight
    BY <1>0, <2>1, TrimmedIs, TipIs
  <2>3. ~(h <= t)
    BY <1>1, <2>1
  <2> QED BY <1>0, <2>2, <2>3
\* What a rewind drops above its target, whatever height it truncates to.
<1>3. ASSUME NEW target \in 0..MaxHeight, NEW t \in 0..MaxHeight,
             t \in RewindTruncations(target), TruncateWallet(pri, t),
             NEW r, r = Rewound(pri, target, t), h > target
      PROVE  /\ r \in Queues /\ h > t
             /\ r[h] >= Historic \/ (h > KnownTip(r) /\ (h > KnownTip(pri) \/ target >= KnownTip(pri)))
  <2>2. h > t /\ h > target
    BY <1>0, <1>1, <1>3
  <2>3. /\ r \in Queues /\ KnownTip(r) <= KnownTip(pri)
        /\ target >= KnownTip(pri) => KnownTip(r) <= t
        /\ \A x \in Heights : x > target /\ x <= KnownTip(pri) => r[x] >= Historic
    <3>1. pri \in Queues
      BY <1>0
    <3> QED BY <1>3, <3>1, RewoundIs
  <2>4. KnownTip(r) \in 0..MaxHeight
    BY <2>3, TipIs
  <2>5. CASE target >= KnownTip(pri)
    BY <1>0, <2>2, <2>3, <2>4, <2>5
  <2>6. CASE ~(target >= KnownTip(pri))
    BY <1>0, <2>2, <2>3, <2>4, <2>6
  <2> QED BY <2>2, <2>3, <2>5, <2>6
<1>4. CASE RewindToChainState
  <2>1. PICK target \in 0..MaxHeight, t \in 0..MaxHeight, reset \in SUBSET Held :
           /\ t \in RewindTruncations(target) /\ TruncateWallet(pri, t)
           /\ pri' = Rewound(pri, target, t) /\ RewindTo(target)
    BY <1>4, RewindStep
  <2>2. CASE h <= target
    BY <1>0, <2>1, <2>2, Types
  <2>3. CASE h > target
    BY <1>3, <2>1, <2>3
  <2> QED BY <1>0, <2>2, <2>3
<1>5. CASE AddAccount
  <2>1. PICK a \in Accounts, birthday \in 1..(MaxHeight + 1), t \in 0..MaxHeight : \E rewound :
           /\ Joins(pri, a, birthday) /\ birthday - 1 \in 0..MaxHeight
           /\ t \in RewindTruncations(birthday - 1) /\ TruncateWallet(pri, t)
           /\ rewound \in Queues /\ rewound = Rewound(pri, birthday - 1, t)
           /\ pri' = IF birthday > SaplingActivation
                       THEN Merged(rewound, IgnoreBelow(birthday)) ELSE rewound
           /\ AddAccountAt(birthday)
    BY <1>5, AddStep
  <2>2. PICK rewound \in Queues :
           /\ rewound = Rewound(pri, birthday - 1, t)
           /\ pri' = IF birthday > SaplingActivation
                       THEN Merged(rewound, IgnoreBelow(birthday)) ELSE rewound
    BY <2>1
  <2>3. PICK target \in 0..MaxHeight : /\ target = birthday - 1 /\ rewound = Rewound(pri, target, t)
                                       /\ t \in RewindTruncations(target)
    BY <2>1, <2>2
  <2>a. CASE h <= target
    <3>1. AddAccountAt(target + 1) /\ target \in Heights
      BY <1>0, <2>1, <2>3, <2>a, Types
    <3> QED BY <2>a, <3>1
  <2>b. CASE h > target
    <3>1. /\ h > t
          /\ rewound[h] >= Historic \/ (h > KnownTip(rewound)
                                          /\ (h > KnownTip(pri) \/ target >= KnownTip(pri)))
      BY <1>3, <2>1, <2>3, <2>b
    <3>2. /\ pri' \in Queues
          /\ rewound[h] >= Historic => pri'[h] >= Historic
          /\ \A n \in 0..MaxHeight : birthday - 1 <= n /\ KnownTip(rewound) <= n => KnownTip(pri') <= n
      BY <1>0, <2>2, AddedIs
    <3>3. CASE h > KnownTip(rewound)
      <4>1. h - 1 \in 0..MaxHeight /\ birthday - 1 <= h - 1
        BY <1>0, <2>3, <2>b
      <4>2. KnownTip(rewound) \in 0..MaxHeight /\ KnownTip(pri') \in 0..MaxHeight
        BY <3>2, TipIs
      <4>3. KnownTip(rewound) <= h - 1
        BY <1>0, <3>3, <4>2
      <4>4. KnownTip(pri') <= h - 1
        BY <3>2, <4>1, <4>3
      <4> QED BY <1>0, <4>2, <4>4
    <3> QED BY <3>1, <3>2, <3>3
  <2> QED BY <1>0, <2>a, <2>b
<1>6. CASE ScanBlocks
  BY <1>6 DEF ScanBlocks, StoreBlocks
<1>7. (Mine \/ Reorg \/ PutSubtreeRoots \/ UpdateChainTip \/ LeaveAccount \/ QueueRescan \/ Prune
        \/ UNCHANGED vars) => FALSE
  BY DEF Mine, Reorg, PutSubtreeRoots, UpdateChainTip, LearnTip, LeaveAccount, DeleteAccount,
         QueueRescan, RescanOf, Prune, PruneBelow, vars, wallet
<1> QED BY <1>2, <1>4, <1>5, <1>6, <1>7 DEF Next, Chain

\* Every block that a truncation drops, and every block that a rewind or an account that
\* joins drops above the target, is queued again to be scanned or is above what the queue
\* then shows as the tip, whichever blocks have a checkpoint.
THEOREM DroppedQueuedAgain == Spec => DroppedIsRequeued
<1> DEFINE A == \A h \in blocks \ blocks' :
                  \/ pri'[h] >= Historic \/ h > KnownTip(pri')
                  \/ \E target \in Heights :
                       h <= target /\ (RewindTo(target) \/ AddAccountAt(target + 1))
<1>1. TypeOK /\ [Next]_vars => A
  BY DropStep
<1>2. DroppedIsRequeued <=> [][A]_vars
  BY DEF DroppedIsRequeued
<1> HIDE DEF A
<1>3. Spec => [][A]_vars
  BY <1>1, TypesHold, PTL DEF Spec
<1> QED BY <1>2, <1>3

-----------------------------------------------------------------------------
(* Nothing is forgotten *)

\* What callers of prune_scan_queue_below retain is all that is to be scanned.
RetainsToScan == Retains \subseteq {Ignored, Scanned, Historic}

\* The inductive invariant.  A stored block is queued, and from the birthday of an
\* account to the tip that the wallet was told or that the queue shows, every height
\* is scanned or to be scanned.
BlocksIn(q, bl) == \A x \in bl : q[x] # Unqueued
FullIn(q, b, t) ==
  \A x \in Heights : Born(b, x) /\ (x <= t \/ x <= KnownTip(q)) => q[x] >= Scanned
Full == BlocksIn(pri, blocks) /\ FullIn(pri, born, told)

LEMMA FullInit == Init => Full
BY DEF Full, BlocksIn, FullIn, Born, Init, WalletInit

LEMMA FullGives ==
  ASSUME TypeOK, Full
  PROVE  NoGapForgotten
<1> SUFFICES ASSUME NEW h \in Heights, Held # {}, WalletBirthday <= h, h <= told
             PROVE  pri[h] >= Scanned
  BY DEF NoGapForgotten, NothingForgotten
<1>1. born \in [Accounts -> 0..MaxHeight + 1] /\ h \in Int
  BY Constants, Types
<1>2. Born(born, h)
  BY <1>1, BirthdayIs
<1> QED BY <1>2 DEF Full, FullIn

\* The greatest stored block is not above the tip of the queue.
LEMMA ScannedBelowTip ==
  ASSUME TypeOK, Full
  PROVE  MaxScanned <= KnownTip(pri) /\ MaxScanned \in 0..MaxHeight
<1>1. blocks \subseteq Heights
  BY Types
<1>2. MaxScanned \in 0..MaxHeight /\ (MaxScanned # 0 => MaxScanned \in blocks)
  BY <1>1, ScannedIs
<1>3. MaxScanned # 0 => MaxScanned <= KnownTip(pri)
  BY <1>1, <1>2, Types, TipIs DEF Full, BlocksIn
<1>4. KnownTip(pri) \in 0..MaxHeight
  BY Types
<1> QED BY <1>2, <1>3, <1>4

\* A merge that reaches no further than the queue did disturbs nothing.
LEMMA FullMerge ==
  ASSUME TypeOK, Full, NEW e, IsEdit(e), NEW t \in 0..MaxHeight, t <= told,
         KnownTip(Merged(pri, e)) <= KnownTip(pri)
  PROVE  BlocksIn(Merged(pri, e), blocks) /\ FullIn(Merged(pri, e), born, t)
<1>1. PICK q : q = Merged(pri, e)
  OBVIOUS
<1>2. /\ q \in Queues
      /\ \A x \in Heights : (pri[x] # Unqueued => q[x] # Unqueued) /\ (pri[x] >= Scanned => q[x] >= Scanned)
  BY <1>1, Types, MergedKeeps
<1>3. BlocksIn(q, blocks)
  BY <1>2, Types DEF Full, BlocksIn
<1>4. FullIn(q, born, t)
  <2> SUFFICES ASSUME NEW x \in Heights, Born(born, x), x <= t \/ x <= KnownTip(q)
               PROVE  q[x] >= Scanned
    BY DEF FullIn
  <2>1. KnownTip(q) \in Nat /\ KnownTip(pri) \in Nat /\ told \in Nat /\ t \in Nat /\ x \in Nat
    BY <1>2, Types, TipIs
  <2>2. KnownTip(q) <= KnownTip(pri)
    BY <1>1
  <2>3. x <= told \/ x <= KnownTip(pri)
    BY <2>1, <2>2
  <2>4. pri[x] >= Scanned
    BY <2>3 DEF Full, FullIn
  <2> QED BY <1>2, <2>4
<1> QED BY <1>1, <1>3, <1>4

LEMMA FullTip ==
  ASSUME TypeOK, Full, UpdateChainTip
  PROVE  Full'
<1>0. blocks' = blocks /\ born' = born /\ told' = top /\ top >= MaxScanned /\ WellFormed(TipEdit)
  BY DEF UpdateChainTip, LearnTip
<1>1. PICK e : e = TipEdit
  OBVIOUS
<1>2. /\ IsEdit(e) /\ \A i \in 1..3 : e.entries[i].end <= top + 1
      /\ Held # {} =>
           /\ \A i \in 1..3 : e.entries[i].pri = Unqueued \/ e.entries[i].pri >= Historic
           /\ e.entries[2] # None
           /\ e.entries[2].start = IF MaxScanned = 0 THEN WalletBirthday ELSE MaxScanned + 1
           /\ \E i \in 1..3 : e.entries[i] # None /\ e.entries[i].end = top + 1
  BY <1>0, <1>1, Types, TipEditIs
<1>3. PICK q : q = Merged(pri, e) /\ q = pri'
  BY <1>1 DEF UpdateChainTip
<1>4. /\ q \in Queues
      /\ \A x \in Heights : (pri[x] # Unqueued => q[x] # Unqueued) /\ (pri[x] >= Scanned => q[x] >= Scanned)
  BY <1>2, <1>3, Types, MergedKeeps
<1>5. BlocksIn(q, blocks)
  BY <1>4, Types DEF Full, BlocksIn
<1>6. FullIn(q, born, top)
  <2> SUFFICES ASSUME NEW x \in Heights, Born(born, x), x <= top \/ x <= KnownTip(q)
               PROVE  q[x] >= Scanned
    BY DEF FullIn
  <2>1. KnownTip(q) \in Nat /\ KnownTip(pri) \in Nat /\ x \in Nat /\ top \in 1..MaxHeight
        /\ MaxHeight \in Nat /\ x \in 1..MaxHeight
    BY <1>4, Types, TipIs
  <2>2. CASE x <= KnownTip(pri)
    <3>1. pri[x] >= Scanned
      BY <2>2 DEF Full, FullIn
    <3> QED BY <1>4, <3>1
  <2>3. CASE x > KnownTip(pri)
    <3>1. x <= top
      <4>1. SUFFICES ASSUME ~(x <= top) PROVE FALSE
        OBVIOUS
      <4>2. PICK n \in 0..MaxHeight : n = x - 1
        BY <2>1
      <4>3. KnownTip(pri) <= n
        BY <2>1, <2>3, <4>2
      <4>4. \A i \in 1..3 : e.entries[i].end <= n + 1
        <5> SUFFICES ASSUME NEW i \in 1..3 PROVE e.entries[i].end <= n + 1
          OBVIOUS
        <5>1. e.entries[i].end \in 0..(MaxHeight + 1) /\ e.entries[i].end <= top + 1
          BY <1>2 DEF IsEdit, Entry
        <5> QED BY <2>1, <4>1, <4>2, <5>1
      <4>5. KnownTip(q) <= n
        BY <1>2, <1>3, <4>3, <4>4, Types, MergedBelow
      <4> QED BY <2>1, <4>1, <4>2, <4>5
    <3>2. Held # {}
      BY DEF Born, Held
    <3>3. WalletBirthday <= x /\ WalletBirthday \in Nat
      BY <2>1, <3>2, Types, BirthdayIs
    <3>4. MaxScanned <= KnownTip(pri) /\ MaxScanned \in Nat
      BY ScannedBelowTip, Constants
    <3>5. e.entries[2] # None /\ e.entries[2].start <= x
      BY <1>2, <2>1, <2>3, <3>2, <3>3, <3>4
    <3>6. PICK i \in 1..3 : e.entries[i] # None /\ e.entries[i].end = top + 1
      BY <1>2, <3>2
    <3>7. x < e.entries[i].end /\ 2 \in 1..3
      BY <2>1, <3>1, <3>6
    <3>8. q[x] # Unqueued
      BY <1>2, <1>3, <3>5, <3>6, <3>7, Types, SpanQueues
    <3>9. pri[x] = Unqueued
      BY <2>1, <2>3, Types, TipIs
    <3>10. ASSUME NEW j \in 1..3, In(x, e.entries[j]) PROVE e.entries[j].pri >= Scanned
      <4>1. Entry(e.entries[j])
        BY <1>2 DEF IsEdit
      <4>2. e.entries[j].pri # Unqueued
        BY <2>1, <3>10, <4>1 DEF In, Entry
      <4>3. e.entries[j].pri >= Historic /\ e.entries[j].pri \in Values
        BY <1>2, <3>2, <4>1, <4>2 DEF Entry
      <4> QED BY <4>3, Levels
    <3>11. q[x] = Unqueued \/ q[x] >= Scanned
      BY <1>2, <1>3, <3>9, <3>10, Types, MergedClear
    <3> QED BY <3>8, <3>11
  <2> QED BY <2>1, <2>2, <2>3
<1> QED BY <1>0, <1>3, <1>5, <1>6 DEF Full

LEMMA FullScan ==
  ASSUME TypeOK, Full, ScanBlocks
  PROVE  Full'
<1>1. PICK r \in Suggested(pri) : \E found \in Findings(r) :
           /\ StoreBlocks(r) /\ IsEdit(ScanEdit(r, found)) /\ pri' = Merged(pri, ScanEdit(r, found))
           /\ r.start \in Heights /\ r.end \in 2..(MaxHeight + 1) /\ r.start < r.end
           /\ r.start..(r.end - 1) \subseteq Heights
           /\ \A x \in r.start..(r.end - 1) : pri[x] >= Historic
  BY ScanStep
<1>2. PICK found \in Findings(r) : IsEdit(ScanEdit(r, found)) /\ pri' = Merged(pri, ScanEdit(r, found))
  BY <1>1
<1>3. PICK e, q : e = ScanEdit(r, found) /\ IsEdit(e) /\ q = Merged(pri, e) /\ q = pri'
  BY <1>2
<1>4. /\ e.entries[1] = ScanRange(r.start, r.end, Scanned)
      /\ \A i \in {2, 3} : e.entries[i].pri \in {Unqueued, FoundNote}
  BY <1>3, Types, ScanEditIs
<1>5. /\ q \in Queues
      /\ \A x \in Heights : (pri[x] # Unqueued => q[x] # Unqueued) /\ (pri[x] >= Scanned => q[x] >= Scanned)
  BY <1>3, Types, MergedKeeps
<1>6. blocks' = blocks \cup (r.start..(r.end - 1)) /\ born' = born /\ told' = told
  BY <1>1 DEF StoreBlocks
<1>7. \A v \in Values : v >= Historic => v # Unqueued
  BY Levels
<1>8. BlocksIn(q, blocks')
  <2> SUFFICES ASSUME NEW x \in blocks' PROVE q[x] # Unqueued
    BY DEF BlocksIn
  <2>1. CASE x \in blocks
    BY <1>5, <2>1, Types DEF Full, BlocksIn
  <2>2. CASE x \in r.start..(r.end - 1)
    <3>1. x \in Heights /\ pri[x] >= Historic
      BY <1>1, <2>2
    <3>2. pri[x] \in Values
      BY <3>1, Types DEF Queues
    <3> QED BY <1>5, <1>7, <3>1, <3>2
  <2> QED BY <1>6, <2>1, <2>2
<1>9. FullIn(q, born, told)
  <2> SUFFICES ASSUME NEW x \in Heights, Born(born, x), x <= told \/ x <= KnownTip(q)
               PROVE  q[x] >= Scanned
    BY DEF FullIn
  <2>1. KnownTip(q) \in Nat /\ KnownTip(pri) \in Nat /\ x \in Nat /\ told \in Nat
        /\ MaxHeight \in Nat /\ x \in 1..MaxHeight
    BY <1>5, Types, TipIs
  <2>2. CASE x <= told \/ x <= KnownTip(pri)
    <3>1. pri[x] >= Scanned
      BY <2>2 DEF Full, FullIn
    <3> QED BY <1>5, <3>1
  <2>3. CASE ~(x <= told) /\ x > KnownTip(pri)
    <3>1. x <= KnownTip(q)
      BY <2>3
    <3>2. \E j \in 1..3 : x < e.entries[j].end
      <4>1. SUFFICES ASSUME \A j \in 1..3 : ~(x < e.entries[j].end) PROVE FALSE
        OBVIOUS
      <4>2. PICK n \in 0..MaxHeight : n = x - 1
        BY <2>1
      <4>3. KnownTip(pri) <= n
        BY <2>1, <2>3, <4>2
      <4>4. \A i \in 1..3 : e.entries[i].end <= n + 1
        <5> SUFFICES ASSUME NEW i \in 1..3 PROVE e.entries[i].end <= n + 1
          OBVIOUS
        <5>1. e.entries[i].end \in 0..(MaxHeight + 1)
          BY <1>3 DEF IsEdit, Entry
        <5> QED BY <2>1, <4>1, <4>2, <5>1
      <4>5. KnownTip(q) <= n
        BY <1>3, <4>3, <4>4, Types, MergedBelow
      <4> QED BY <2>1, <3>1, <4>2, <4>5
    <3>3. PICK j \in 1..3 : x < e.entries[j].end
      BY <3>2
    <3>4. e.entries[j] # None
      BY <2>1, <3>3 DEF None, ScanRange
    <3>5. r.start <= KnownTip(pri)
      <4>1. r.start \in r.start..(r.end - 1) /\ r.start \in Heights
        BY <1>1, Constants
      <4>2. pri[r.start] >= Historic /\ pri[r.start] \in Values
        BY <1>1, <4>1, Types DEF Queues
      <4> QED BY <1>7, <4>1, <4>2, Types, TipIs
    <3>6. e.entries[1] # None /\ e.entries[1].start <= x /\ 1 \in 1..3
      <4>1. ScanRange(r.start, r.end, Scanned).pri = Scanned /\ ScanRange(r.start, r.end, Scanned).start = r.start
        BY DEF ScanRange
      <4>2. Scanned # Unqueued
        BY DEF Scanned, Unqueued
      <4>3. r.start \in Nat
        BY <1>1, Constants
      <4>4. e.entries[1] # None
        BY <1>4, <4>1, <4>2, NoneIsEntry
      <4> QED BY <1>4, <2>1, <2>3, <3>5, <4>1, <4>3, <4>4
    <3>7. q[x] # Unqueued
      BY <1>3, <3>3, <3>4, <3>6, Types, SpanQueues
    <3>8. pri[x] = Unqueued
      BY <2>1, <2>3, Types, TipIs
    <3>9. ASSUME NEW i \in 1..3, In(x, e.entries[i]) PROVE e.entries[i].pri >= Scanned
      <4>1. Entry(e.entries[i])
        BY <1>3 DEF IsEdit
      <4>2. e.entries[i].pri # Unqueued
        BY <2>1, <3>9, <4>1 DEF In, Entry
      <4>3. i = 1 \/ i \in {2, 3}
        OBVIOUS
      <4>4. e.entries[i].pri \in {Scanned, FoundNote}
        BY <1>4, <4>2, <4>3 DEF ScanRange
      <4> QED BY <4>4 DEF Scanned, FoundNote
    <3>10. q[x] = Unqueued \/ q[x] >= Scanned
      BY <1>3, <3>8, <3>9, Types, MergedClear
    <3> QED BY <3>7, <3>10
  <2> QED BY <2>1, <2>2, <2>3
<1> QED BY <1>3, <1>6, <1>8, <1>9 DEF Full

LEMMA FullTruncate ==
  ASSUME TypeOK, Full, Truncate
  PROVE  Full'
<1>1. PICK t \in 0..MaxHeight :
        TruncateWallet(pri, t) /\ pri' = Trimmed(pri, t) /\ UNCHANGED <<born, top>>
  BY TruncateStep
<1>2. PICK q : q = pri' /\ q = Trimmed(pri, t)
  BY <1>1
<1>3. /\ q \in Queues /\ \A x \in Heights : q[x] = IF x <= t THEN pri[x] ELSE Unqueued
      /\ KnownTip(q) <= t /\ KnownTip(q) <= KnownTip(pri)
  <2>1. pri \in Queues
    BY Types
  <2> QED BY <1>2, <2>1, TrimmedIs
<1>4. told' \in 0..MaxHeight /\ told' <= told /\ told' <= t
  BY <1>1, Types, TruncatedTypes
<1>5. BlocksIn(q, blocks')
  BY <1>1, <1>3, Types DEF Full, BlocksIn, TruncateWallet
<1>6. FullIn(q, born', told')
  <2> SUFFICES ASSUME NEW x \in Heights, Born(born', x), x <= told' \/ x <= KnownTip(q)
               PROVE  q[x] >= Scanned
    BY DEF FullIn
  <2>1. /\ KnownTip(q) \in Nat /\ KnownTip(pri) \in Nat /\ x \in Nat /\ told \in Nat
        /\ told' \in Nat /\ t \in Nat
    BY <1>3, <1>4, Types, TipIs
  <2>2. x <= t /\ (x <= told \/ x <= KnownTip(pri))
    BY <1>3, <1>4, <2>1
  <2>3. pri[x] >= Scanned
    BY <1>1, <2>2 DEF Full, FullIn
  <2> QED BY <1>3, <2>2, <2>3
<1> QED BY <1>2, <1>5, <1>6 DEF Full

\* What a rewind leaves: nothing that is kept of the blocks is lost, and what lies above
\* the target is to be scanned again.
LEMMA FullRewound ==
  ASSUME Checkpointed, TypeOK, Full, NEW target \in 0..MaxHeight, NEW t \in 0..MaxHeight,
         t \in RewindTruncations(target), TruncateWallet(pri, t), NEW r, r = Rewound(pri, target, t)
  PROVE  /\ r \in Queues /\ KnownTip(r) <= KnownTip(pri) /\ KnownTip(r) \in Nat
         /\ told' \in Nat /\ told' <= KnownTip(pri)
         /\ BlocksIn(r, blocks')
         /\ \A x \in Heights : x <= target /\ x <= KnownTip(pri) /\ pri[x] >= Scanned => r[x] >= Scanned
         /\ \A x \in Heights : x > target /\ x <= KnownTip(pri) => r[x] >= Scanned
<1>1. /\ r \in Queues /\ KnownTip(r) <= KnownTip(pri)
      /\ \A x \in Heights :
              /\ x <= t /\ pri[x] # Unqueued => r[x] # Unqueued
              /\ x <= t /\ pri[x] >= Scanned => r[x] >= Scanned
              /\ x > target /\ x <= KnownTip(pri) => r[x] >= Historic
  <2>1. pri \in Queues
    BY Types
  <2> QED BY <2>1, RewoundIs
<1>2. t >= target /\ t \in Nat /\ target \in Nat /\ \A x \in Heights : x \in Nat
  BY Constants, Types, TargetsAre
<1>3. told' \in 0..MaxHeight /\ told' <= KnownTip(pri) /\ KnownTip(r) \in 0..MaxHeight
  BY <1>1, Types, TruncatedTypes, TipIs
<1>4. BlocksIn(r, blocks')
  BY <1>1, Types DEF Full, BlocksIn, TruncateWallet
<1>5. \A x \in Heights : x <= target => x <= t
  BY <1>2
<1>6. \A x \in Heights : r[x] \in Values
  BY <1>1 DEF Queues
<1> QED BY <1>1, <1>3, <1>4, <1>5, <1>6, Levels, Constants

LEMMA FullRewind ==
  ASSUME Checkpointed, TypeOK, Full, RewindToChainState
  PROVE  Full'
<1>1. PICK target \in 0..MaxHeight, t \in 0..MaxHeight, reset \in SUBSET Held :
           /\ t \in RewindTruncations(target) /\ TruncateWallet(pri, t)
           /\ pri' = Rewound(pri, target, t)
           /\ born' = Lowered(target, reset) /\ UNCHANGED top
  BY RewindStep
<1>2. PICK r : r = pri' /\ r = Rewound(pri, target, t)
  BY <1>1
<1>3. /\ KnownTip(r) <= KnownTip(pri) /\ KnownTip(r) \in Nat
      /\ told' \in Nat /\ told' <= KnownTip(pri)
      /\ BlocksIn(r, blocks')
      /\ \A x \in Heights : x <= target /\ x <= KnownTip(pri) /\ pri[x] >= Scanned => r[x] >= Scanned
      /\ \A x \in Heights : x > target /\ x <= KnownTip(pri) => r[x] >= Scanned
  BY <1>1, <1>2, FullRewound
<1>4. FullIn(r, born', told')
  <2> SUFFICES ASSUME NEW x \in Heights, Born(born', x), x <= told' \/ x <= KnownTip(r)
               PROVE  r[x] >= Scanned
    BY DEF FullIn
  <2>1. /\ KnownTip(pri) \in Nat /\ x \in Nat /\ target \in Nat
        /\ \A a \in Accounts : born[a] \in Nat
    BY Types
  <2>2. x <= KnownTip(pri)
    BY <1>3, <2>1
  <2>3. CASE x > target
    BY <1>3, <2>2, <2>3
  <2>4. CASE x <= target
    <3>1. PICK a \in Accounts : born'[a] # 0 /\ born'[a] <= x
      BY DEF Born
    <3>2. born'[a] = IF a \in reset THEN Least(born[a], target + 1) ELSE born[a]
      BY <1>1 DEF Lowered
    <3>3. a \in reset => born[a] # 0
      BY DEF Held
    <3>4. born[a] # 0 /\ born[a] <= x
      BY <2>1, <2>4, <3>1, <3>2, <3>3 DEF Least
    <3>5. pri[x] >= Scanned
      BY <2>2, <3>4 DEF Born, Full, FullIn
    <3> QED BY <1>3, <2>2, <2>4, <3>5
  <2> QED BY <2>1, <2>3, <2>4
<1> QED BY <1>2, <1>3, <1>4 DEF Full

LEMMA FullAdd ==
  ASSUME Checkpointed, ~AheadAllowed, TypeOK, Full, AddAccount
  PROVE  Full'
<1>1. PICK a \in Accounts, birthday \in 1..(MaxHeight + 1), t \in 0..MaxHeight : \E rewound :
           /\ Joins(pri, a, birthday) /\ birthday - 1 \in 0..MaxHeight
           /\ t \in RewindTruncations(birthday - 1) /\ TruncateWallet(pri, t)
           /\ rewound \in Queues /\ rewound = Rewound(pri, birthday - 1, t)
           /\ pri' = IF birthday > SaplingActivation
                       THEN Merged(rewound, IgnoreBelow(birthday)) ELSE rewound
  BY AddStep
<1>2. PICK r \in Queues :
           /\ r = Rewound(pri, birthday - 1, t)
           /\ pri' = IF birthday > SaplingActivation
                       THEN Merged(r, IgnoreBelow(birthday)) ELSE r
  BY <1>1
<1>3. PICK target \in 0..MaxHeight : /\ target = birthday - 1 /\ r = Rewound(pri, target, t)
                                     /\ t \in RewindTruncations(target)
  BY <1>1, <1>2
<1>4. PICK q : q = pri' /\ q = IF birthday > SaplingActivation
                                 THEN Merged(r, IgnoreBelow(birthday)) ELSE r
  BY <1>2
<1>5. /\ KnownTip(r) <= KnownTip(pri) /\ KnownTip(r) \in Nat
      /\ told' \in Nat /\ told' <= KnownTip(pri)
      /\ BlocksIn(r, blocks')
      /\ \A x \in Heights : x <= target /\ x <= KnownTip(pri) /\ pri[x] >= Scanned => r[x] >= Scanned
      /\ \A x \in Heights : x > target /\ x <= KnownTip(pri) => r[x] >= Scanned
  BY <1>1, <1>3, FullRewound
<1>6. /\ q \in Queues
      /\ \A x \in Heights : (r[x] # Unqueued => q[x] # Unqueued) /\ (r[x] >= Scanned => q[x] >= Scanned)
      /\ \A n \in 0..MaxHeight : target <= n /\ KnownTip(r) <= n => KnownTip(q) <= n
  BY <1>2, <1>3, <1>4, AddedIs
<1>7. BlocksIn(q, blocks')
  BY <1>1, <1>5, <1>6, Types DEF BlocksIn, TruncateWallet
<1>8. /\ \A b \in Accounts : born'[b] = IF b = a THEN birthday ELSE born[b]
      /\ birthday <= KnownTip(pri) + 1 \/ Held = {}
  BY <1>1, Types DEF Joins
<1>9. FullIn(q, born', told')
  <2> SUFFICES ASSUME NEW x \in Heights, Born(born', x), x <= told' \/ x <= KnownTip(q)
               PROVE  q[x] >= Scanned
    BY DEF FullIn
  <2>1. /\ KnownTip(pri) \in 0..MaxHeight /\ KnownTip(pri) \in Nat /\ x \in Nat /\ target \in Nat
        /\ birthday = target + 1 /\ KnownTip(q) \in Nat
    BY <1>3, <1>6, Types, TipIs
  <2>2. PICK b \in Accounts : born'[b] # 0 /\ born'[b] <= x
    BY DEF Born
  \* Below the birthday of the account that joins, another one was born.
  <2>3. x <= target => Born(born, x) /\ Held # {}
    BY <1>8, <2>1, <2>2 DEF Born, Held
  <2>4. x <= KnownTip(pri)
    <3>1. CASE target <= KnownTip(pri)
      <4>1. KnownTip(q) <= KnownTip(pri)
        BY <1>5, <1>6, <2>1, <3>1
      <4> QED BY <1>5, <2>1, <4>1
    <3>2. CASE target > KnownTip(pri)
      <4>1. KnownTip(q) <= target
        BY <1>5, <1>6, <2>1, <3>2
      <4>2. x <= target
        BY <1>5, <2>1, <3>2, <4>1
      <4>3. birthday <= KnownTip(pri) + 1
        BY <1>8, <2>3, <4>2
      <4> QED BY <2>1, <3>2, <4>3
    <3> QED BY <2>1, <3>1, <3>2
  <2>5. CASE x > target
    BY <1>5, <1>6, <2>4, <2>5
  <2>6. CASE x <= target
    <3>1. pri[x] >= Scanned
      BY <2>3, <2>4, <2>6 DEF Full, FullIn
    <3> QED BY <1>5, <1>6, <2>4, <2>6, <3>1
  <2> QED BY <2>1, <2>5, <2>6
<1> QED BY <1>4, <1>7, <1>9 DEF Full

LEMMA FullStep ==
  ASSUME Checkpointed, ~AheadAllowed, RetainsToScan, TypeOK, Full, [Next]_vars
  PROVE  Full'
<1>1. CASE UNCHANGED <<pri, blocks, born, told>>
  BY <1>1 DEF Full
<1>2. CASE Chain
  BY <1>1, <1>2 DEF Chain, Mine, Reorg, PutSubtreeRoots
<1>3. CASE LeaveAccount
  <2>1. PICK a \in Held : born' = [born EXCEPT ![a] = 0]
    BY <1>3 DEF LeaveAccount, DeleteAccount
  <2>2. \A b \in Accounts : born'[b] = IF b = a THEN 0 ELSE born[b]
    BY <2>1, Types
  <2>3. \A x \in Heights : Born(born', x) => Born(born, x)
    BY <2>2 DEF Born
  <2>4. pri' = pri /\ blocks' = blocks /\ told' = told
    BY <1>3 DEF LeaveAccount, DeleteAccount
  <2>5. FullIn(pri, born', told)
    BY <2>3 DEF Full, FullIn
  <2> QED BY <2>4, <2>5 DEF Full
<1>4. CASE QueueRescan
  <2>1. PICK s \in Nat, t \in 0..(MaxHeight + 1) :
           /\ RescanOf(pri, s, t) /\ pri' = Merged(pri, Rescan(s, t, Historic))
           /\ IsEdit(Rescan(s, t, Historic))
           /\ \A i \in 1..3 : Rescan(s, t, Historic).entries[i].end <= KnownTip(pri) + 1
    BY <1>4, RescanStep
  <2>2. PICK e : e = Rescan(s, t, Historic)
    OBVIOUS
  <2>3. /\ IsEdit(e) /\ pri' = Merged(pri, e)
        /\ \A i \in 1..3 : e.entries[i].end <= KnownTip(pri) + 1
    BY <2>1, <2>2
  <2>4. PICK n \in 0..MaxHeight : n = KnownTip(pri)
    BY Types
  <2>5. KnownTip(Merged(pri, e)) <= KnownTip(pri)
    <3>1. KnownTip(pri) <= n /\ \A i \in 1..3 : e.entries[i].end <= n + 1
      BY <2>3, <2>4
    <3>2. KnownTip(Merged(pri, e)) <= n
      BY <2>3, <3>1, Types, MergedBelow
    <3> QED BY <2>4, <3>2
  <2>6. told \in 0..MaxHeight /\ told <= told
    BY Types
  <2>7. BlocksIn(Merged(pri, e), blocks) /\ FullIn(Merged(pri, e), born, told)
    BY <2>3, <2>5, <2>6, FullMerge
  <2>8. UNCHANGED <<blocks, born, told>>
    BY <2>1 DEF RescanOf
  <2> QED BY <2>3, <2>7, <2>8 DEF Full
<1>5. CASE Prune
  <2>1. PICK h \in Heights \ {SaplingActivation}, retain \in Retains :
          pri' = Pruned(pri, h, retain) /\ pri' # pri
    BY <1>5 DEF Prune
  <2>2. ASSUME NEW x \in Heights PROVE pri[x] = Unqueued \/ Retained(pri[x], retain) \/ retain = Unqueued
    <3>1. pri[x] \in Values /\ retain \in {Ignored, Scanned, Historic}
      BY Types DEF Queues, RetainsToScan
    <3> QED BY <3>1 DEF Retained, Values, Priorities, Ignored, Scanned, Historic, Verify, Unqueued
  <2>3. retain # Unqueued
    BY DEF RetainsToScan, Ignored, Scanned, Historic, Unqueued
  <2>4. \A x \in Heights : Pruned(pri, h, retain)[x] = pri[x]
    BY <2>2, <2>3 DEF Pruned
  <2>5. pri = [x \in Heights |-> pri[x]]
    BY Types DEF Queues
  <2>6. Pruned(pri, h, retain) = pri
    BY <2>2, <2>3, <2>5 DEF Pruned
  <2> QED BY <2>1, <2>6
<1>6. CASE UNCHANGED vars
  BY <1>1, <1>6 DEF vars, wallet
<1> QED BY <1>2, <1>3, <1>4, <1>5, <1>6, FullTip, FullScan, FullTruncate, FullRewind, FullAdd DEF Next

\* From the birthday of the wallet to the tip it was told every height is scanned or to
\* be scanned: where every block has a checkpoint, accounts are not born above the tip
\* the wallet knows, and pruning retains what is to be scanned.  Without any one of the
\* three a height is forgotten.
THEOREM NothingIsForgotten ==
  ASSUME Checkpointed, ~AheadAllowed, RetainsToScan
  PROVE  Spec => []NoGapForgotten
<1>1. TypeOK /\ Full /\ [Next]_vars => Full'
  BY FullStep
<1>2. TypeOK /\ Full => NoGapForgotten
  BY FullGives
<1> QED BY <1>1, <1>2, FullInit, TypesHold, PTL DEF Spec
=============================================================================
