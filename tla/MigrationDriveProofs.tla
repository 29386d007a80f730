------------------------ MODULE MigrationDriveProofs ------------------------
(***************************************************************************)
(* Theorems about MigrationDrive, for every migration, schedule, wallet    *)
(* and number of blocks, crashes and reorgs.                               *)
(*                                                                         *)
(* TypeCorrect holds of every composition.  The rest assumes Serial: the   *)
(* consumer's session is not interleaved with scans, truncations and       *)
(* cancellations, but that a block may be scanned while a node is asked.   *)
(*                                                                         *)
(* IInv says how the consumer's copy and the stored row relate at each     *)
(* control point (Control), what a sweep has established (Swept), what a   *)
(* planned step still promises when it is served (Surfaced) and that both  *)
(* copies speak the truth of the chain (Told).  ClosedSoFar is what the    *)
(* durable closure adds, AllBacked what every mark rests on, and Replanning*)
(* that a Replan is served on the copy it was planned for.                 *)
(***************************************************************************)
EXTENDS MigrationDrive, DataInduction

-----------------------------------------------------------------------------
(* Numbers *)

LEMMA MinIs ==
  ASSUME NEW S, S \subseteq Nat, S # {}
  PROVE  Min(S) \in S /\ \A n \in S : Min(S) <= n
<1>1. PICK m \in S : \A n \in S : m <= n
  BY LeastNumber
<1> QED BY <1>1 DEF Min

LEMMA MaxIs ==
  ASSUME NEW S, S \subseteq Nat, S # {}, NEW b \in Nat, \A n \in S : n <= b
  PROVE  Max(S) \in S /\ \A n \in S : n <= Max(S)
<1> DEFINE T == {b - n : n \in S}
<1>1. T \subseteq Nat /\ T # {}
  <2>1. \A n \in S : b - n \in Nat
    OBVIOUS
  <2> QED BY <2>1
<1>2. PICK k \in T : \A l \in T : k <= l
  BY <1>1, LeastNumber
<1>3. PICK m \in S : k = b - m
  BY <1>2
<1>4. \A n \in S : n <= m
  <2> TAKE n \in S
  <2>1. k <= b - n
    BY <1>2
  <2> QED BY <2>1, <1>3
<1>5. \E x \in S : \A y \in S : x >= y
  BY <1>3, <1>4
<1>6. Max(S) \in S /\ \A y \in S : Max(S) >= y
  BY <1>5 DEF Max
<1> QED BY <1>6

LEMMA MaxOfTwo ==
  ASSUME NEW a \in Nat, NEW b \in Nat
  PROVE  Max({a, b}) \in Nat /\ a <= Max({a, b})
<1>1. {a, b} \subseteq Nat /\ {a, b} # {} /\ a + b \in Nat /\ \A n \in {a, b} : n <= a + b
  OBVIOUS
<1>2. Max({a, b}) \in {a, b} /\ \A n \in {a, b} : n <= Max({a, b})
  BY <1>1, MaxIs
<1> QED BY <1>2

\* Heights given to finitely many transactions have a bound.
LEMMA FiniteBound ==
  ASSUME NEW S, IsFiniteSet(S), NEW f \in [S -> Nat]
  PROVE  \E b \in Nat : \A x \in S : f[x] <= b
<1> DEFINE P == {T \in SUBSET S : \E b \in Nat : \A x \in T : f[x] <= b}
<1>1. {} \in P
  OBVIOUS
<1>2. ASSUME NEW T \in P, NEW x \in S \ T PROVE T \union {x} \in P
  <2>1. PICK b \in Nat : \A y \in T : f[y] <= b
    OBVIOUS
  <2>2. f[x] \in Nat /\ b + f[x] \in Nat /\ \A y \in T \union {x} : f[y] \in Nat
    OBVIOUS
  <2>3. \A y \in T \union {x} : f[y] <= b + f[x]
    BY <2>1, <2>2
  <2> QED BY <2>2, <2>3
<1>3. S \in P
  <2> HIDE DEF P
  <2> QED BY <1>1, <1>2, FiniteInduction
<1> QED BY <1>3

-----------------------------------------------------------------------------
(* What the mutators of a migration do, row by row *)

\* The status that recompute_status leaves, given the states of the rows.
Recomputed(status, st) ==
  IF status \in PolicyTerminal \cup {"Complete"} THEN status
  ELSE IF Ids # {} /\ \A t \in Ids : st[t] = "Mined" THEN "Complete"
  ELSE IF \E t \in Ids : st[t] \in {"Broadcast", "Mined"} THEN "InProgress"
  ELSE status

SameMarks(m, n, t) == n.mark[t] = m.mark[t] /\ n.kind[t] = m.kind[t]
SameRow(m, n, t) == n.st[t] = m.st[t] /\ n.mined[t] = m.mined[t] /\ SameMarks(m, n, t)
SamePlan(m, n) == n.sched = m.sched /\ n.expiry = m.expiry /\ n.bound = m.bound

Restated(m, n) ==
  /\ n \in Migrations /\ SamePlan(m, n) /\ n.report = m.report
  /\ \A t \in Ids : SameRow(m, n, t)
  /\ n.status = Recomputed(m.status, m.st)

LEMMA RecomputeStatusIs ==
  ASSUME NEW m \in Migrations
  PROVE  Restated(m, RecomputeStatus(m))
<1>1. Recomputed(m.status, m.st) \in Statuses
  BY DEF Recomputed, Migrations, Statuses
<1>2. RecomputeStatus(m) = [m EXCEPT !.status = Recomputed(m.status, m.st)]
  BY DEF RecomputeStatus, Recomputed, Migrations, IsTerminal, IsMined
<1> HIDE DEF Recomputed
<1> QED BY <1>1, <1>2 DEF Restated, SamePlan, SameRow, SameMarks, Migrations

Promoted(m, at, n) ==
  /\ n \in Migrations /\ SamePlan(m, n)
  /\ \A t \in Ids : IF at[t] # 0
                    THEN n.st[t] = "Mined" /\ n.mined[t] = at[t] /\ n.mark[t] = 0 /\ n.kind[t] = "None"
                    ELSE SameRow(m, n, t)
  /\ n = m \/ n.status = Recomputed(m.status, n.st)

LEMMA MarkMinedIs ==
  ASSUME NEW m \in Migrations, NEW at \in [Ids -> Nat]
  PROVE  Promoted(m, at, MarkMined(m, at))
<1> DEFINE S == {t \in Ids : at[t] # 0}
           a == [m EXCEPT !.st = [t \in Ids |-> IF t \in S THEN "Mined" ELSE m.st[t]]]
           b == [a EXCEPT !.mined = [t \in Ids |-> IF t \in S THEN at[t] ELSE m.mined[t]]]
           c == [b EXCEPT !.mark = [t \in Ids |-> IF t \in S THEN 0 ELSE m.mark[t]]]
           d == [c EXCEPT !.kind = [t \in Ids |-> IF t \in S THEN "None" ELSE m.kind[t]]]
           e == [d EXCEPT !.report = [t \in Ids |-> IF t \in S THEN 0 ELSE m.report[t]]]
<1>1. CASE S = {}
  BY <1>1 DEF MarkMined, Promoted, SamePlan, SameRow, SameMarks
<1>2. CASE S # {}
  <2>1. e \in Migrations /\ SamePlan(m, e) /\ e.status = m.status
    BY DEF Migrations, SamePlan, TxStates, Kinds
  <2>2. \A t \in Ids : IF at[t] # 0
           THEN e.st[t] = "Mined" /\ e.mined[t] = at[t] /\ e.mark[t] = 0 /\ e.kind[t] = "None"
           ELSE SameRow(m, e, t)
    BY DEF Migrations, SameRow, SameMarks
  <2>3. MarkMined(m, at) = RecomputeStatus(e)
    BY <1>2 DEF MarkMined, Migrations
  <2> HIDE DEF e
  <2>4. Restated(e, RecomputeStatus(e))
    BY <2>1, RecomputeStatusIs
  <2>5. e.st \in [Ids -> TxStates] /\ RecomputeStatus(e).st \in [Ids -> TxStates]
    BY <2>1, <2>4 DEF Migrations, Restated
  <2>6. e.st = RecomputeStatus(e).st
    BY <2>4, <2>5 DEF Restated, SameRow
  <2> QED BY <2>1, <2>2, <2>3, <2>4, <2>6 DEF Promoted, Restated, SamePlan, SameRow, SameMarks
<1> QED BY <1>1, <1>2

SameRows(m, n) == \A t \in Ids : SameRow(m, n, t)

MarkedDirect(m, S, kindOf, asOf, n) ==
  /\ n \in Migrations /\ SamePlan(m, n) /\ n.status = m.status /\ n.report = m.report
  /\ \A t \in Ids : n.st[t] = m.st[t] /\ n.mined[t] = m.mined[t]
  /\ \A t \in Ids : IF t \in S /\ ~IsMarked(m, t) /\ ~IsMined(m, t)
                    THEN n.mark[t] = asOf /\ n.kind[t] = kindOf[t]
                    ELSE SameMarks(m, n, t)

LEMMA MarkDirectIs ==
  ASSUME NEW m \in Migrations, NEW S, NEW kindOf, NEW asOf \in Nat,
         \A t \in S \cap Ids : kindOf[t] \in Kinds
  PROVE  MarkedDirect(m, S, kindOf, asOf, MarkDirect(m, S, kindOf, asOf))
<1> DEFINE new == {t \in S : ~IsMarked(m, t) /\ ~IsMined(m, t)}
           a == [m EXCEPT !.mark = [t \in Ids |-> IF t \in new THEN asOf ELSE m.mark[t]]]
           b == [a EXCEPT !.kind = [t \in Ids |-> IF t \in new THEN kindOf[t] ELSE m.kind[t]]]
<1>1. MarkDirect(m, S, kindOf, asOf) = b
  BY DEF MarkDirect, Migrations
<1>2. b \in Migrations
  BY DEF Migrations
<1>3. SamePlan(m, b) /\ b.status = m.status /\ b.report = m.report
  BY DEF Migrations, SamePlan
<1>4. \A t \in Ids : b.st[t] = m.st[t] /\ b.mined[t] = m.mined[t]
  BY DEF Migrations
<1>5. \A t \in Ids : IF t \in S /\ ~IsMarked(m, t) /\ ~IsMined(m, t)
                     THEN b.mark[t] = asOf /\ b.kind[t] = kindOf[t]
                     ELSE SameMarks(m, b, t)
  BY DEF Migrations, SameMarks
<1> HIDE DEF b
<1> QED BY <1>1, <1>2, <1>3, <1>4, <1>5 DEF MarkedDirect

\* A change that leaves rows, plan and status alone.
Untouched(m, n) ==
  /\ n \in Migrations /\ SamePlan(m, n) /\ n.status = m.status /\ SameRows(m, n)

LEMMA ClearBroadcastFailuresIs ==
  ASSUME NEW m \in Migrations, NEW S
  PROVE  Untouched(m, ClearBroadcastFailures(m, S))
BY DEF ClearBroadcastFailures, Untouched, Migrations, SamePlan, SameRows, SameRow, SameMarks

LEMMA ReportBroadcastFailureIs ==
  ASSUME NEW m \in Migrations, NEW t \in Ids, NEW tip \in Nat
  PROVE  Untouched(m, ReportBroadcastFailure(m, t, tip))
BY DEF ReportBroadcastFailure, Untouched, Migrations, SamePlan, SameRows, SameRow, SameMarks

\* One row moves to state s, of a transaction that is not mined.
Moved(m, t, s, n) ==
  /\ n \in Migrations /\ n.sched = m.sched /\ n.expiry = m.expiry
  /\ \A u \in Ids \ {t} : SameRow(m, n, u) /\ n.bound[u] = m.bound[u]
  /\ n.st[t] = s /\ n.mined[t] = 0 /\ SameMarks(m, n, t)

LEMMA MarkBroadcastIs ==
  ASSUME NEW m \in Migrations, NEW t \in Ids
  PROVE  LET n == MarkBroadcast(m, t)
         IN  Moved(m, t, "Broadcast", n) /\ SamePlan(m, n) /\ n.status = Recomputed(m.status, n.st)
<1> DEFINE a == [m EXCEPT !.st[t] = "Broadcast"]
           b == [a EXCEPT !.mined[t] = 0]
           n == RecomputeStatus(b)
<1>1. MarkBroadcast(m, t) = n
  BY DEF MarkBroadcast, Migrations
<1>2. b \in Migrations /\ SamePlan(m, b) /\ b.status = m.status
  BY DEF Migrations, SamePlan, TxStates
<1>3. b.st[t] = "Broadcast" /\ b.mined[t] = 0 /\ SameMarks(m, b, t)
  BY DEF Migrations, SameMarks
<1>4. \A u \in Ids \ {t} : SameRow(m, b, u)
  BY DEF Migrations, SameRow, SameMarks
<1> HIDE DEF b
<1>5. Restated(b, n)
  BY <1>2, RecomputeStatusIs
<1> HIDE DEF n
<1>6. b.st = n.st
  BY <1>2, <1>5 DEF Migrations, Restated, SameRow
<1>7. SamePlan(m, n) /\ n \in Migrations /\ n.status = Recomputed(m.status, n.st)
  BY <1>2, <1>5, <1>6 DEF Restated, SamePlan
<1> QED BY <1>1, <1>3, <1>4, <1>5, <1>7 DEF Moved, Restated, SamePlan, SameRow, SameMarks

LEMMA SetTransactionProvedIs ==
  ASSUME NEW m \in Migrations, NEW t \in Ids, NEW b \in Nat
  PROVE  LET n == SetTransactionProved([m EXCEPT !.bound[t] = b], t)
         IN  Moved(m, t, "Proved", n) /\ n.bound[t] = b /\ n.status = m.status
<1> DEFINE a == [m EXCEPT !.bound[t] = b]
           c == [a EXCEPT !.st[t] = "Proved"]
           n == [c EXCEPT !.mined[t] = 0]
<1>1. SetTransactionProved([m EXCEPT !.bound[t] = b], t) = n
  BY DEF SetTransactionProved, Migrations
<1>2. n \in Migrations
  BY DEF Migrations, TxStates
<1>3. n.bound[t] = b /\ n.status = m.status /\ n.sched = m.sched /\ n.expiry = m.expiry
  BY DEF Migrations
<1>4. n.st[t] = "Proved" /\ n.mined[t] = 0 /\ SameMarks(m, n, t)
  BY DEF Migrations, SameMarks
<1>5. \A u \in Ids \ {t} : SameRow(m, n, u) /\ n.bound[u] = m.bound[u]
  BY DEF Migrations, SameRow, SameMarks
<1> HIDE DEF n
<1> QED BY <1>1, <1>2, <1>3, <1>4, <1>5 DEF Moved

LEMMA ApplySignatureIs ==
  ASSUME NEW m \in Migrations, NEW t \in Ids
  PROVE  LET n == ApplySignature(m, t)
         IN  /\ n \in Migrations /\ SamePlan(m, n) /\ n.status = m.status
             /\ \A u \in Ids \ {t} : SameRow(m, n, u)
             /\ n.st[t] = "Signed" /\ n.mined[t] = m.mined[t] /\ SameMarks(m, n, t)
BY DEF ApplySignature, Migrations, TxStates, SamePlan, SameRow, SameMarks

\* The artifact of a transfer is replaced.
Rebuilt(m, t, s, n) ==
  /\ n \in Migrations /\ n.status = m.status /\ n.st[t] = s
  /\ \A u \in Ids \ {t} : /\ SameRow(m, n, u) /\ n.expiry[u] = m.expiry[u]
                          /\ n.bound[u] = m.bound[u]
  /\ n.mined[t] = m.mined[t] /\ SameMarks(m, n, t)

LEMMA RebuiltIs ==
  ASSUME NEW m \in Migrations, NEW t \in Ids, NEW sched \in Nat, NEW expiry \in Nat,
         NEW b \in Nat, NEW s \in TxStates
  PROVE  Rebuilt(m, t, s,
                 [m EXCEPT !.sched[t] = sched, !.expiry[t] = expiry, !.bound[t] = b, !.st[t] = s])
<1> DEFINE a == [m EXCEPT !.sched[t] = sched]
           c == [a EXCEPT !.expiry[t] = expiry]
           d == [c EXCEPT !.bound[t] = b]
           n == [d EXCEPT !.st[t] = s]
<1>1. [m EXCEPT !.sched[t] = sched, !.expiry[t] = expiry, !.bound[t] = b, !.st[t] = s] = n
  BY DEF Migrations
<1>2. n \in Migrations
  BY DEF Migrations
<1>3. n.status = m.status /\ n.st[t] = s /\ n.mined[t] = m.mined[t] /\ SameMarks(m, n, t)
  BY DEF Migrations, SameMarks
<1>4. \A u \in Ids \ {t} : SameRow(m, n, u) /\ n.expiry[u] = m.expiry[u] /\ n.bound[u] = m.bound[u]
  BY DEF Migrations, SameRow, SameMarks
<1> HIDE DEF n
<1> QED BY <1>1, <1>2, <1>3, <1>4 DEF Rebuilt

-----------------------------------------------------------------------------
(* The durable closure *)

LEMMA StampsAre ==
  ASSUME NEW m \in Migrations, NEW t \in Ids, NEW target \in Nat
  PROVE  /\ InheritStamps(m, t, target) \subseteq Nat
         /\ \A s \in InheritStamps(m, t, target) : \E d \in Deps[t] :
              /\ d \in Ids /\ ~IsMined(m, d)
              /\ \/ IsMarked(m, d) /\ s = m.mark[d]
                 \/ IsExpired(m, d, target) /\ s = m.expiry[d]
<1>1. Deps[t] \subseteq Ids
  BY DepsAssumption DEF Ids
<1>2. \A d \in Ids : m.mark[d] \in Nat /\ m.expiry[d] \in Nat
  BY DEF Migrations
<1>3. ASSUME NEW s \in InheritStamps(m, t, target)
      PROVE  /\ s \in Nat
             /\ \E d \in Deps[t] :
                  /\ d \in Ids /\ ~IsMined(m, d)
                  /\ \/ IsMarked(m, d) /\ s = m.mark[d]
                     \/ IsExpired(m, d, target) /\ s = m.expiry[d]
  <2>1. PICK d \in Deps[t] : s \in DepStamps(m, d, target)
    BY <1>3 DEF InheritStamps
  <2>2. /\ ~IsMined(m, d)
        /\ \/ IsMarked(m, d) /\ s = m.mark[d]
           \/ IsExpired(m, d, target) /\ s = m.expiry[d]
    BY <2>1 DEF DepStamps
  <2> QED BY <1>1, <1>2, <2>1, <2>2
<1> QED BY <1>3

\* One pass of the closure: a new mark stems from a dead producer.
Passed(m, target, n) ==
  /\ n \in Migrations /\ SamePlan(m, n) /\ n.status = m.status
  /\ \A t \in Ids : n.st[t] = m.st[t] /\ n.mined[t] = m.mined[t]
  /\ \A t \in Ids :
       \/ SameMarks(m, n, t)
       \/ /\ ~IsMined(m, t) /\ ~IsMarked(m, t) /\ n.kind[t] = "Inherited"
          /\ \E d \in Deps[t] :
               /\ d \in Ids /\ ~IsMined(m, d)
               /\ \/ IsMarked(m, d) /\ n.mark[t] = m.mark[d]
                  \/ IsExpired(m, d, target) /\ n.mark[t] = m.expiry[d]

LEMMA InheritPassIs ==
  ASSUME NEW m \in Migrations, NEW target \in Nat
  PROVE  Passed(m, target, InheritPass(m, target))
<1> DEFINE new == Inheritors(m, target)
           stamp(t) == Min(InheritStamps(m, t, target))
           a == [m EXCEPT !.mark = [t \in Ids |-> IF t \in new THEN stamp(t) ELSE m.mark[t]]]
           n == [a EXCEPT !.kind = [t \in Ids |-> IF t \in new THEN "Inherited" ELSE m.kind[t]]]
<1>1. InheritPass(m, target) = n
  BY DEF InheritPass, Migrations
<1>2. ASSUME NEW t \in new
      PROVE  /\ t \in Ids /\ ~IsMined(m, t) /\ ~IsMarked(m, t)
             /\ stamp(t) \in Nat /\ stamp(t) \in InheritStamps(m, t, target)
  <2>1. t \in Ids /\ ~IsMined(m, t) /\ ~IsMarked(m, t) /\ InheritStamps(m, t, target) # {}
    BY DEF Inheritors
  <2>2. InheritStamps(m, t, target) \subseteq Nat
    BY <2>1, StampsAre
  <2> QED BY <2>1, <2>2, MinIs
<1> HIDE DEF new, stamp
<1>3. n \in Migrations
  BY <1>2 DEF Migrations, Kinds
<1>4. SamePlan(m, n) /\ n.status = m.status
  BY DEF Migrations, SamePlan
<1>5. \A t \in Ids : n.st[t] = m.st[t] /\ n.mined[t] = m.mined[t]
  BY DEF Migrations
<1>6. \A t \in Ids : IF t \in new THEN n.mark[t] = stamp(t) /\ n.kind[t] = "Inherited"
                                  ELSE SameMarks(m, n, t)
  BY DEF Migrations, SameMarks
<1> HIDE DEF n
<1>7. ASSUME NEW t \in Ids, t \in new
      PROVE  \E d \in Deps[t] :
               /\ d \in Ids /\ ~IsMined(m, d)
               /\ \/ IsMarked(m, d) /\ n.mark[t] = m.mark[d]
                  \/ IsExpired(m, d, target) /\ n.mark[t] = m.expiry[d]
  <2>1. stamp(t) \in InheritStamps(m, t, target)
    BY <1>7, <1>2
  <2>2. PICK d \in Deps[t] :
              /\ d \in Ids /\ ~IsMined(m, d)
              /\ \/ IsMarked(m, d) /\ stamp(t) = m.mark[d]
                 \/ IsExpired(m, d, target) /\ stamp(t) = m.expiry[d]
    BY <2>1, StampsAre
  <2> QED BY <2>2, <1>6, <1>7
<1> QED BY <1>1, <1>2, <1>3, <1>4, <1>5, <1>6, <1>7 DEF Passed

-----------------------------------------------------------------------------
(* Truncation, cancelling, shifting *)

Truncated(m, h, n) ==
  /\ n \in Migrations /\ SamePlan(m, n)
  /\ \A t \in Ids : IF m.st[t] = "Mined" /\ m.mined[t] > h
                    THEN n.st[t] = "Broadcast" /\ n.mined[t] = 0
                    ELSE n.st[t] = m.st[t] /\ n.mined[t] = m.mined[t]
  /\ \A t \in Ids : IF m.mark[t] > h THEN n.mark[t] = 0 /\ n.kind[t] = "None"
                                     ELSE SameMarks(m, n, t)
  /\ IF m.status = "Complete" /\ \E t \in Ids : n.st[t] # "Mined"
     THEN n.status = "InProgress" ELSE n.status = m.status

LEMMA TruncateToHeightIs ==
  ASSUME NEW m \in Migrations, NEW h \in Nat
  PROVE  Truncated(m, h, TruncateToHeight(m, h))
<1> DEFINE demoted == {t \in Ids : IsMined(m, t) /\ m.mined[t] > h}
           open == m.status = "Complete" /\ \E t \in Ids : ~IsMined(m, t) \/ t \in demoted
           a == [m EXCEPT !.mark = [t \in Ids |-> IF m.mark[t] > h THEN 0 ELSE m.mark[t]]]
           b == [a EXCEPT !.kind = [t \in Ids |-> IF m.mark[t] > h THEN "None" ELSE m.kind[t]]]
           c == [b EXCEPT !.report = [t \in Ids |-> IF m.report[t] > h THEN 0 ELSE m.report[t]]]
           d == [c EXCEPT !.st = [t \in Ids |-> IF t \in demoted THEN "Broadcast" ELSE m.st[t]]]
           e == [d EXCEPT !.mined = [t \in Ids |-> IF t \in demoted THEN 0 ELSE m.mined[t]]]
           n == [e EXCEPT !.status = IF open THEN "InProgress" ELSE m.status]
<1>1. TruncateToHeight(m, h) = n
  BY DEF TruncateToHeight, Migrations
<1>2. n \in Migrations /\ SamePlan(m, n)
  BY DEF Migrations, SamePlan, Kinds, TxStates, Statuses
<1>3. \A t \in Ids : IF m.st[t] = "Mined" /\ m.mined[t] > h
                     THEN n.st[t] = "Broadcast" /\ n.mined[t] = 0
                     ELSE n.st[t] = m.st[t] /\ n.mined[t] = m.mined[t]
  BY DEF Migrations, IsMined
<1>4. \A t \in Ids : IF m.mark[t] > h THEN n.mark[t] = 0 /\ n.kind[t] = "None"
                                      ELSE SameMarks(m, n, t)
  BY DEF Migrations, SameMarks
<1>5. n.status = IF open THEN "InProgress" ELSE m.status
  BY DEF Migrations
<1> HIDE DEF n
<1>6. open <=> m.status = "Complete" /\ \E t \in Ids : n.st[t] # "Mined"
  BY <1>3 DEF IsMined
<1> HIDE DEF open
<1> QED BY <1>1, <1>2, <1>3, <1>4, <1>5, <1>6 DEF Truncated

\* Only the status changes, to a terminal one.
Ended(m, n) ==
  /\ n \in Migrations /\ SamePlan(m, n) /\ SameRows(m, n)
  /\ \/ n.status \in PolicyTerminal
     \/ m.status = "Complete" /\ n.status = "Complete"

LEMMA EndingIs ==
  ASSUME NEW m \in Migrations
  PROVE  Ended(m, MarkSuperseded(m)) /\ Ended(m, MarkCancelled(m))
<1>1. Ended(m, MarkSuperseded(m))
  BY DEF MarkSuperseded, Ended, Migrations, SamePlan, SameRows, SameRow, SameMarks, IsTerminal,
         PolicyTerminal, Statuses
<1>2. Ended(m, MarkCancelled(m))
  BY DEF MarkCancelled, Ended, Migrations, SamePlan, SameRows, SameRow, SameMarks, IsTerminal,
         PolicyTerminal, Statuses
<1> QED BY <1>1, <1>2

LEMMA DrawableAreHeights ==
  ASSUME NEW funding, NEW tip
  PROVE  DrawableBoundaries(funding, tip) \subseteq Nat
BY DEF DrawableBoundaries

\* Unsent rows move together; only the transfers not yet proved draw new boundaries.
Shifted(m, n) ==
  /\ n \in Migrations /\ n.status = m.status /\ n.expiry = m.expiry /\ SameRows(m, n)
  /\ \A t \in Ids : n.bound[t] # m.bound[t] => m.st[t] \in {"AwaitingSignature", "Signed"}

LEMMA ShiftScheduleIs ==
  ASSUME NEW m \in Migrations, NEW delta \in Nat, NEW n \in ShiftSchedule(m, delta)
  PROVE  Shifted(m, n)
<1> DEFINE pending == {t \in Ids : IsPending(m, t)}
           redrawn == {t \in pending \cap Transfers : m.st[t] # "Proved"}
           sched == [t \in Ids |-> IF t \in pending THEN m.sched[t] + delta ELSE m.sched[t]]
           may(t) == IF t \in redrawn THEN RedrawnBoundaries(m.bound[t], sched[t]) ELSE {m.bound[t]}
<1>1. PICK b : /\ n = [m EXCEPT !.sched = sched, !.bound = b]
               /\ \E X : b \in [Ids -> X]
               /\ \A t \in Ids : b[t] \in may(t)
  BY DEF ShiftSchedule
<1>2. \A t \in Ids : may(t) \subseteq Nat
  BY DrawableAreHeights DEF RedrawnBoundaries, Migrations
<1>3. sched \in [Ids -> Nat]
  BY DEF Migrations
<1>4. \A t \in Ids : b[t] # m.bound[t] => m.st[t] \in {"AwaitingSignature", "Signed"}
  BY <1>1 DEF IsPending
<1> HIDE DEF sched, may
<1>5. b \in [Ids -> Nat]
  BY <1>1, <1>2
<1> DEFINE a == [m EXCEPT !.sched = sched]
           c == [a EXCEPT !.bound = b]
<1>6. n = c
  BY <1>1 DEF Migrations
<1>7. c \in Migrations /\ c.status = m.status /\ c.expiry = m.expiry /\ SameRows(m, c) /\ c.bound = b
  BY <1>3, <1>5 DEF Migrations, SameRows, SameRow, SameMarks
<1> QED BY <1>4, <1>6, <1>7 DEF Shifted

-----------------------------------------------------------------------------
(* The planning kernel *)

LEMMA EarliestIsMember ==
  ASSUME NEW m \in Migrations, NEW S, S \subseteq Ids, S # {}
  PROVE  EarliestScheduled(m, S) \in S
<1> DEFINE H == {m.sched[t] : t \in S}
<1>1. Ids \subseteq Nat
  BY IdsAssumption DEF Ids
<1>2. \A t \in Ids : m.sched[t] \in Nat
  BY DEF Migrations
<1>3. PICK h \in H : \A k \in H : h <= k
  <2>1. H \subseteq Nat /\ H # {}
    BY <1>2
  <2> QED BY <2>1, LeastNumber
<1> DEFINE E == {t \in S : m.sched[t] = h}
<1>4. PICK t \in E : \A u \in E : t <= u
  <2>1. E \subseteq Nat /\ E # {}
    BY <1>1
  <2> HIDE DEF E
  <2> QED BY <2>1, LeastNumber
<1>5. \A u \in S : m.sched[t] < m.sched[u] \/ (m.sched[t] = m.sched[u] /\ t <= u)
  <2> TAKE u \in S
  <2>1. m.sched[t] = h /\ h <= m.sched[u] /\ h \in Nat /\ m.sched[u] \in Nat
    BY <1>2, <1>3
  <2>2. CASE m.sched[u] = h
    BY <1>4, <2>1, <2>2
  <2> QED BY <2>1, <2>2
<1> HIDE DEF E
<1>6. t \in S
  BY DEF E
<1> QED BY <1>5, <1>6 DEF EarliestScheduled

\* A marked transaction is in the dead set, whatever the target.
LEMMA MarkedAreDead ==
  ASSUME NEW m, NEW target, NEW t \in Ids, ~IsMined(m, t), IsMarked(m, t)
  PROVE  t \in DeadSet(m, target)
<1>1. t \in DeadSeeds(m, target)
  BY DEF DeadSeeds
<1> QED BY <1>1 DEF DeadSet

\* What the kernel promises of the transactions a step names.
Planned(m, tg, s) ==
  /\ s.kind \in Steps /\ s.txs \subseteq Ids /\ s = Step(s.kind, s.txs)
  /\ s.txs # {} => s.kind \in {"Broadcast", "Prove", "Rebuild"}
  /\ s.kind = "Broadcast" => \A t \in s.txs :
       /\ m.st[t] = "Proved" /\ DepsMined(m, t) /\ m.sched[t] <= tg.eff
       /\ ~IsMarked(m, t) /\ ~IsExpired(m, t, tg.eff)
  /\ s.kind = "Prove" => \A t \in s.txs :
       /\ m.st[t] = "Signed" /\ DepsMined(m, t) /\ ~IsMarked(m, t)
       /\ t \in Transfers => m.bound[t] + AnchorDepth < tg.scan
  /\ s.kind = "Rebuild" => s.txs \subseteq Transfers /\ \A t \in s.txs : IsExpired(m, t, tg.scan)

LEMMA NextStepIs ==
  ASSUME NEW m \in Migrations, NEW tg \in Targets, NEW off
  PROVE  Planned(m, tg, NextStep(m, tg, off))
<1> DEFINE dead == DeadSet(m, tg.scan)
           broadcastable == Broadcastable(m, tg, dead, off)
           provable == Provable(m, tg, dead, off)
           rebuildable == Rebuildable(m, tg, dead, off)
           s == NextStep(m, tg, off)
<1>1. \/ \E k \in {"Complete", "Replan", "Waiting"} : s = Step(k, {})
      \/ broadcastable # {} /\ s = Step("Broadcast", {EarliestScheduled(m, broadcastable)})
      \/ s = Step("Prove", provable)
      \/ rebuildable # {} /\ s = Step("Rebuild", {EarliestScheduled(m, rebuildable)})
  BY DEF NextStep
<1> HIDE DEF s
<1>2. broadcastable \subseteq Ids /\ provable \subseteq Ids /\ rebuildable \subseteq Transfers
  BY DEF Broadcastable, Provable, Rebuildable
<1>3. \A t \in broadcastable :
        /\ m.st[t] = "Proved" /\ DepsMined(m, t) /\ m.sched[t] <= tg.eff
        /\ ~IsMarked(m, t) /\ ~IsExpired(m, t, tg.eff)
  <2> TAKE t \in broadcastable
  <2>1. /\ t \in Ids /\ t \notin dead /\ m.st[t] = "Proved" /\ DepsMined(m, t)
        /\ m.sched[t] <= tg.eff /\ ~IsExpired(m, t, tg.eff)
    BY DEF Broadcastable
  <2>2. ~IsMined(m, t)
    BY <2>1 DEF IsMined
  <2> QED BY <2>1, <2>2, MarkedAreDead
<1>4. \A t \in provable : /\ m.st[t] = "Signed" /\ DepsMined(m, t) /\ ~IsMarked(m, t)
                          /\ t \in Transfers => m.bound[t] + AnchorDepth < tg.scan
  <2> TAKE t \in provable
  <2>1. /\ t \in Ids /\ t \notin dead /\ m.st[t] = "Signed" /\ DepsMined(m, t)
        /\ t \in Transfers => m.bound[t] + AnchorDepth < tg.scan
    BY DEF Provable, ProveReady
  <2>2. ~IsMined(m, t)
    BY <2>1 DEF IsMined
  <2> QED BY <2>1, <2>2, MarkedAreDead
<1>r. \A t \in rebuildable : IsExpired(m, t, tg.scan)
  BY DEF Rebuildable
<1> HIDE DEF broadcastable, provable, rebuildable
<1>5. broadcastable # {} => EarliestScheduled(m, broadcastable) \in broadcastable
  BY <1>2, EarliestIsMember
<1>6. rebuildable # {} => EarliestScheduled(m, rebuildable) \in rebuildable
  BY <1>2, EarliestIsMember DEF Ids
<1>7. CASE \E k \in {"Complete", "Replan", "Waiting"} : s = Step(k, {})
  BY <1>7 DEF Planned, Step, Steps, s
<1>8. CASE broadcastable # {} /\ s = Step("Broadcast", {EarliestScheduled(m, broadcastable)})
  BY <1>8, <1>2, <1>3, <1>5 DEF Planned, Step, Steps, s
<1>9. CASE s = Step("Prove", provable)
  BY <1>9, <1>2, <1>4 DEF Planned, Step, Steps, s
<1>10. CASE rebuildable # {} /\ s = Step("Rebuild", {EarliestScheduled(m, rebuildable)})
  BY <1>10, <1>2, <1>6, <1>r DEF Planned, Step, Steps, Ids, s
<1> QED BY <1>1, <1>7, <1>8, <1>9, <1>10

Late(m, s) ==
  LET o == MostOverdue(m, s)
  IN  /\ o.from \in Nat /\ o.sched \in Nat /\ o.sched <= o.from
      /\ s.kind = "Broadcast" => \A t \in s.txs : o.from <= m.sched[t]

LEMMA MostOverdueIs ==
  ASSUME NEW m \in Migrations, NEW s, s.txs \subseteq Ids, s.txs # {}
  PROVE  Late(m, s)
<1> DEFINE from(t) == OverdueFrom(m, s, t)
           F == {from(t) : t \in s.txs}
<1>1. \A t \in s.txs : m.sched[t] \in Nat /\ m.bound[t] \in Nat /\ AnchorDepth \in Nat
  BY ParameterAssumption DEF Migrations
<1>2. ASSUME NEW t \in s.txs
      PROVE  from(t) \in Nat /\ m.sched[t] <= from(t) /\ (s.kind = "Broadcast" => from(t) = m.sched[t])
  <2>1. m.bound[t] + AnchorDepth + 1 \in Nat
    BY <1>1
  <2>2. CASE s.kind = "Prove" /\ t \in Transfers
    <3>1. from(t) = Max({m.sched[t], m.bound[t] + AnchorDepth + 1})
      BY <2>2 DEF OverdueFrom
    <3> HIDE DEF from
    <3> QED BY <3>1, <2>1, <2>2, <1>1, MaxOfTwo
  <2>3. CASE ~ (s.kind = "Prove" /\ t \in Transfers)
    BY <2>3, <1>1 DEF OverdueFrom
  <2> QED BY <2>2, <2>3
<1> DEFINE f == Min(F)
           A == {u \in s.txs : OverdueFrom(m, s, u) = f}
           H == {m.sched[t] : t \in A}
<1>3. f \in F /\ \A n \in F : f <= n
  <2>1. F \subseteq Nat /\ F # {}
    BY <1>2
  <2> HIDE DEF F
  <2> QED BY <2>1, MinIs
<1>4. f \in Nat /\ (s.kind = "Broadcast" => \A t \in s.txs : f <= m.sched[t])
  <2> HIDE DEF f
  <2>1. \A t \in s.txs : from(t) \in F
    OBVIOUS
  <2> QED BY <1>2, <1>3, <2>1
<1>5. Min(H) \in H
  <2> HIDE DEF f
  <2>1. H \subseteq Nat
    BY <1>1
  <2>2. A # {}
    BY <1>3
  <2> HIDE DEF A
  <2>3. H # {}
    BY <2>2
  <2> HIDE DEF H
  <2> QED BY <2>1, <2>3, MinIs
<1>6. Min(H) \in Nat /\ Min(H) <= f
  <2> DEFINE h == Min(H)
  <2> HIDE DEF f, h
  <2>1. PICK t \in s.txs : OverdueFrom(m, s, t) = f /\ h = m.sched[t]
    BY <1>5 DEF h
  <2>2. h \in Nat /\ h <= f
    BY <2>1, <1>1, <1>2
  <2> QED BY <2>2 DEF h
<1>7. MostOverdue(m, s) = [from |-> f, sched |-> Min(H)]
  BY DEF MostOverdue
<1> HIDE DEF f, H
<1> QED BY <1>4, <1>6, <1>7 DEF Late

-----------------------------------------------------------------------------
(* Type correctness *)

LEMMA DeterminationsAreKinds ==
  ASSUME NEW m, NEW t, RecordsADetermination(m, t)
  PROVE  Answer(m, t) \in Kinds
BY DEF RecordsADetermination, Kinds

LEMMA DirectMarks ==
  ASSUME NEW m \in Migrations, NEW n \in Migrations, NEW S \in SUBSET Ids, NEW h \in Nat,
         \A t \in S : RecordsADetermination(n, t)
  PROVE  MarkedDirect(m, S, Causes(n), h, MarkDirect(m, S, Causes(n), h))
<1>1. \A t \in S \cap Ids : Causes(n)[t] \in Kinds
  BY DeterminationsAreKinds DEF Causes
<1> QED BY <1>1, MarkDirectIs

LEMMA BroadenedAre ==
  ASSUME NEW m \in Migrations, NEW S \in SUBSET Ids, \A t \in S : RecordsADetermination(m, t)
  PROVE  /\ Broadened(m, S) \in SUBSET Ids
         /\ \A t \in Broadened(m, S) : RecordsADetermination(m, t)
BY DEF Broadened

LEMMA StepsAre ==
  ASSUME NEW k \in Steps, NEW S \in SUBSET Ids
  PROVE  Step(k, S) \in [kind : Steps, txs : SUBSET Ids]
BY DEF Step

\* The part of the state that a session of the consumer holds.
SessionOK ==
  /\ pc \in PCs /\ ret \in {"idle", "report", "plan", "persist"} /\ closeAt \in Nat
  /\ tgt \in Targets /\ aside \subseteq Ids /\ asked \in [Ids -> Nat] /\ dirty \in BOOLEAN
  /\ step \in [kind : Steps, txs : SUBSET Ids]

ChainOK ==
  /\ scanned \in 1..MaxHeight /\ chMined \in [Ids -> 0..MaxHeight]
  /\ chSpent \in [Ids -> 0..MaxHeight]
  /\ ahead \in [heights : SUBSET (1..MaxHeight), spent : [Ids -> 0..MaxHeight]]
  /\ taken \subseteq Ids /\ linked \subseteq Ids /\ rival \in [Ids -> Nat]
  /\ displaced \subseteq Transfers
  /\ reorgs \in 0..MaxReorgs /\ crashes \in 0..MaxCrashes

LEMMA TypeParts == TypeOK <=> store \in Migrations /\ mem \in Migrations /\ SessionOK /\ ChainOK
BY DEF TypeOK, SessionOK, ChainOK

LEMMA Released ==
  ASSUME Release
  PROVE  SessionOK'
BY DEF Release, SessionOK, PCs, Targets, Zero, NoStep, Step, Steps

LEMMA InitTyped == Init => TypeOK
<1> SUFFICES ASSUME Init PROVE TypeOK
  OBVIOUS
<1>1. PICK st \in [Ids -> InitStates] :
        store = [status |-> "Committed", st |-> st, mined |-> Zero, mark |-> Zero,
                 kind |-> [t \in Ids |-> "None"], report |-> Zero,
                 sched |-> InitSched, expiry |-> InitExpiry, bound |-> InitBound]
  BY DEF Init
<1>2. st \in [Ids -> TxStates]
  BY DriveAssumption DEF TxStates
<1>3. store \in Migrations
  BY <1>1, <1>2, DriveAssumption DEF Migrations, Zero, Statuses, Kinds
<1>4. SessionOK
  BY DEF Init, SessionOK, PCs, Targets, Zero, NoStep, Step, Steps
<1>5. ChainOK
  BY DriveAssumption DEF Init, ChainOK, Zero
<1>6. mem = store
  BY DEF Init
<1> QED BY <1>3, <1>4, <1>5, <1>6, TypeParts

\* The calls of advance_migration.
LEMMA AdvanceTyped ==
  ASSUME TypeOK, BeginAdvance \/ Advance
  PROVE  TypeOK'
<1> USE DEF chain, session
<1>0. store \in Migrations /\ mem \in Migrations /\ SessionOK /\ ChainOK
  BY TypeParts
<1>h. scanned \in Nat /\ \A t \in Ids : chMined[t] \in Nat
  BY <1>0, DriveAssumption DEF ChainOK
<1>s. SUFFICES store' \in Migrations /\ mem' \in Migrations /\ SessionOK' /\ ChainOK'
  BY DEF TypeOK, SessionOK, ChainOK
<1>1. CASE BeginAdvance
  BY <1>0, <1>1, <1>h, DriveAssumption DEF BeginAdvance, SessionOK, ChainOK, PCs, Targets
<1>2. CASE SweepMined
  BY <1>0, <1>2, <1>h DEF SweepMined, SessionOK, ChainOK, PCs
<1>3. CASE SweepOracle
  <2> DEFINE findings == {t \in Ids : /\ mem.st[t] = "Broadcast" /\ asked[t] = 0
                                      /\ ~IsMarked(mem, t) /\ RecordsADetermination(mem, t)}
             promoted == MarkMined(mem, asked)
  <2>1. promoted \in Migrations
    BY <1>0, MarkMinedIs DEF SessionOK, Promoted
  <2>2. findings \in SUBSET Ids /\ \A t \in findings : RecordsADetermination(mem, t)
    OBVIOUS
  <2>3. mem' = MarkDirect(promoted, findings, Causes(mem), scanned)
    BY <1>3 DEF SweepOracle
  <2> HIDE DEF findings, promoted
  <2>4. mem' \in Migrations
    BY <2>1, <2>2, <2>3, <1>0, <1>h, DirectMarks DEF MarkedDirect
  <2>5. /\ dirty' \in BOOLEAN /\ asked' = Zero /\ UNCHANGED <<store, tgt, aside, step, chain, reorgs, crashes>>
        /\ \/ pc' = "report" /\ UNCHANGED <<ret, closeAt>>
           \/ pc' = "closing" /\ ret' = "report" /\ closeAt' = tgt.scan
    BY <1>3 DEF SweepOracle
  <2> QED BY <2>4, <2>5, <1>0 DEF SessionOK, ChainOK, PCs, Targets, Zero
<1>4. CASE ClosePass
  <2>1. InheritPass(mem, closeAt) \in Migrations
    BY <1>0, InheritPassIs DEF SessionOK, Passed
  <2> QED BY <2>1, <1>0, <1>4 DEF ClosePass, SessionOK, ChainOK, PCs
<1>5. CASE Adjudicate
  <2>1. PICK found \in SUBSET Ids, ripe \in SUBSET Ids :
          /\ \A t \in found : RecordsADetermination(mem, t)
          /\ mem' = ClearBroadcastFailures(MarkDirect(mem, found, Causes(mem), scanned), ripe)
    <3> DEFINE reported == {t \in Ids : ~IsTerminal(mem) /\ mem.report[t] # 0}
               ripe == {t \in reported : mem.report[t] <= scanned}
               verdicts == {t \in ripe : RecordsADetermination(mem, t)}
               found == IF verdicts = {} THEN {} ELSE Broadened(mem, verdicts)
    <3>1. mem' = ClearBroadcastFailures(MarkDirect(mem, found, Causes(mem), scanned), ripe)
      BY <1>5 DEF Adjudicate
    <3>2. verdicts \in SUBSET Ids /\ ripe \in SUBSET Ids /\ \A t \in verdicts : RecordsADetermination(mem, t)
      OBVIOUS
    <3> HIDE DEF verdicts, ripe
    <3>3. found \in SUBSET Ids /\ \A t \in found : RecordsADetermination(mem, t)
      BY <3>2, <1>0, BroadenedAre
    <3> QED BY <3>1, <3>2, <3>3
  <2>2. MarkDirect(mem, found, Causes(mem), scanned) \in Migrations
    BY <2>1, <1>0, <1>h, DirectMarks DEF MarkedDirect
  <2>3. mem' \in Migrations
    BY <2>1, <2>2, ClearBroadcastFailuresIs DEF Untouched
  <2>4. /\ dirty' \in BOOLEAN /\ UNCHANGED <<store, tgt, aside, asked, chain, reorgs, crashes>>
        /\ step' = Step("Reevaluate", {}) \/ step' = NoStep
        /\ \/ pc' \in {"persist", "plan"} /\ UNCHANGED <<ret, closeAt>>
           \/ pc' = "closing" /\ ret' \in {"persist", "plan"} /\ closeAt' = tgt.scan
    <3>1. dirty \in BOOLEAN
      BY <1>0 DEF SessionOK
    <3> QED BY <1>5, <3>1 DEF Adjudicate
  <2> QED BY <2>3, <2>4, <1>0 DEF SessionOK, ChainOK, PCs, Targets, NoStep, Step, Steps
<1> DEFINE s == NextStep(mem, tgt, aside)
<1>n. Planned(mem, tgt, s)
  BY <1>0, NextStepIs DEF SessionOK
<1>6. CASE PlanSettle
  <2>1. step' \in [kind : Steps, txs : SUBSET Ids]
    BY <1>6, <1>n, StepsAre DEF PlanSettle, Planned
  <2> QED BY <2>1, <1>0, <1>6 DEF PlanSettle, SessionOK, ChainOK, PCs
<1>7. CASE PlanShift
  <2>1. s.txs # {} /\ NeedsShift(mem, s, tgt.eff) /\ mem' \in ShiftSchedule(mem, tgt.eff - MostOverdue(mem, s).sched)
    BY <1>7 DEF PlanShift
  <2> HIDE DEF s
  <2>2. Late(mem, s)
    BY <2>1, <1>0, <1>n, MostOverdueIs DEF Planned
  <2>3. tgt.eff \in Nat /\ Tolerance \in Nat
    BY <1>0, DriveAssumption DEF SessionOK, Targets
  <2>4. tgt.eff - MostOverdue(mem, s).sched \in Nat
    BY <2>1, <2>2, <2>3 DEF NeedsShift, Late
  <2>5. mem' \in Migrations
    BY <2>1, <2>4, <1>0, ShiftScheduleIs DEF Shifted
  <2> QED BY <2>5, <1>0, <1>7 DEF PlanShift, SessionOK, ChainOK
<1>8. CASE PlanVerify
  <2> DEFINE found == {t \in s.txs : RecordsADetermination(mem, t)}
             deferred == {t \in s.txs : Answer(mem, t) = "NotYetSatisfiable"}
             kept == s.txs \ (deferred \cup found)
  <2>1. /\ aside' = aside \cup deferred
        /\ UNCHANGED <<store, tgt, asked, chain, reorgs, crashes>>
        /\ \/ /\ mem' = MarkDirect(mem, Broadened(mem, found), Causes(mem), scanned)
              /\ dirty' = TRUE /\ pc' = "closing" /\ ret' = "plan" /\ closeAt' = tgt.scan
              /\ UNCHANGED step
           \/ /\ step' = [s EXCEPT !.txs = kept] /\ pc' = "persist"
              /\ UNCHANGED <<mem, dirty, ret, closeAt>>
           \/ UNCHANGED <<mem, dirty, pc, ret, closeAt, step>>
    BY <1>8 DEF PlanVerify
  <2>2. s.txs \subseteq Ids /\ s.kind \in Steps /\ s = Step(s.kind, s.txs)
    BY <1>n DEF Planned
  <2> HIDE DEF s
  <2>3. found \in SUBSET Ids /\ deferred \subseteq Ids /\ kept \in SUBSET Ids
        /\ \A t \in found : RecordsADetermination(mem, t)
    BY <2>2
  <2> HIDE DEF found, deferred, kept
  <2>4. MarkDirect(mem, Broadened(mem, found), Causes(mem), scanned) \in Migrations
    BY <2>3, <1>0, <1>h, BroadenedAre, DirectMarks DEF MarkedDirect
  <2>5. [s EXCEPT !.txs = kept] = Step(s.kind, kept)
    BY <2>2 DEF Step
  <2>6. [s EXCEPT !.txs = kept] \in [kind : Steps, txs : SUBSET Ids]
    BY <2>2, <2>3, <2>5, StepsAre
  <2>7. mem' \in Migrations
    BY <2>1, <2>4, <1>0
  <2>8. SessionOK'
    BY <2>1, <2>3, <2>6, <1>0 DEF SessionOK, PCs, Targets
  <2> QED BY <2>1, <2>7, <2>8, <1>0 DEF ChainOK
<1>9. CASE Persist
  <2>1. store' \in Migrations
    BY <1>0, <1>9 DEF Persist
  <2>2. CASE step.kind \in {"Prove", "Broadcast", "Rebuild", "Replan"}
    BY <2>1, <2>2, <1>0, <1>9 DEF Persist, SessionOK, ChainOK, PCs
  <2>3. CASE step.kind \notin {"Prove", "Broadcast", "Rebuild", "Replan"}
    <3>1. Release /\ mem' = store' /\ UNCHANGED <<chain, reorgs, crashes>>
      BY <2>3, <1>9 DEF Persist
    <3>2. SessionOK'
      BY <3>1, Released
    <3> QED BY <3>1, <3>2, <2>1, <1>0 DEF ChainOK
  <2> QED BY <2>2, <2>3
<1> QED BY <1>1, <1>2, <1>3, <1>4, <1>5, <1>6, <1>7, <1>8, <1>9 DEF Advance

\* The consumer's side of a step.
LEMMA StoredTyped ==
  ASSUME SessionOK, NEW m \in Migrations, NEW rest \in SUBSET Ids, Store(m, rest)
  PROVE  store' \in Migrations /\ mem' \in Migrations /\ SessionOK'
<1>1. store' = m /\ mem' = m
  BY DEF Store
<1>2. CASE rest = {}
  <2>1. Release
    BY <1>2 DEF Store
  <2> QED BY <1>1, <2>1, Released
<1>3. CASE rest # {}
  <2>1. step' = [step EXCEPT !.txs = rest] /\ UNCHANGED <<pc, ret, closeAt, tgt, aside, asked, dirty>>
    BY <1>3 DEF Store
  <2> QED BY <1>1, <2>1 DEF SessionOK
<1> QED BY <1>2, <1>3

LEMMA FundingIs ==
  ASSUME NEW m \in Migrations, NEW t \in Ids
  PROVE  Funding(m, t) \subseteq Nat
BY DepsAssumption DEF Funding, Migrations, Ids

LEMMA ProveBoundariesAre ==
  ASSUME NEW m \in Migrations, NEW t \in Ids
  PROVE  ProveBoundaries(m, t) \subseteq Nat
BY DrawableAreHeights DEF ProveBoundaries, Migrations

LEMMA RebuildBaseIs ==
  ASSUME NEW m \in Migrations, NEW target \in Nat
  PROVE  RebuildBase(m, target) \in Nat
<1> DEFINE V == {v \in Transfers : ~IsMined(m, v) /\ ~IsMarked(m, v)}
           H == {target} \cup {m.sched[u] : u \in V}
           f == [u \in Transfers |-> m.sched[u]]
<1>1. f \in [Transfers -> Nat]
  BY DEF Migrations, Ids
<1>2. PICK b \in Nat : \A u \in Transfers : f[u] <= b
  <2> HIDE DEF f
  <2> QED BY <1>1, IdsAssumption, FiniteBound
<1>3. H \subseteq Nat /\ H # {} /\ b + target \in Nat
  BY <1>1
<1>4. \A n \in H : n <= b + target
  <2> TAKE n \in H
  <2>1. CASE n = target
    BY <2>1
  <2>2. CASE n \in {m.sched[u] : u \in V}
    <3>1. PICK u \in Transfers : n = f[u]
      BY <2>2
    <3>2. f[u] \in Nat /\ f[u] <= b
      BY <1>1, <1>2
    <3> QED BY <3>1, <3>2
  <2> QED BY <2>1, <2>2
<1>5. Max(H) \in H
  <2> HIDE DEF H
  <2> QED BY <1>3, <1>4, MaxIs
<1>6. RebuildBase(m, target) = Max(H)
  BY DEF RebuildBase
<1> HIDE DEF H
<1> QED BY <1>3, <1>5, <1>6

\* The known tip is a height, and no block is fully scanned above it.
LEMMA TipIs ==
  ASSUME ChainOK
  PROVE  Tip \in Nat /\ scanned <= Tip
<1> DEFINE S == {scanned} \cup ahead.heights
<1>1. scanned \in Nat /\ MaxHeight \in Nat /\ scanned <= MaxHeight /\ ahead.heights \subseteq 1..MaxHeight
  BY DriveAssumption DEF ChainOK
<1>2. S \subseteq Nat /\ S # {} /\ \A n \in S : n <= MaxHeight
  BY <1>1
<1>3. Max(S) \in S /\ \A n \in S : n <= Max(S)
  <2> HIDE DEF S
  <2> QED BY <1>1, <1>2, MaxIs
<1> QED BY <1>2, <1>3 DEF Tip

LEMMA FrontierIs ==
  ASSUME NEW h \in 1..MaxHeight
  PROVE  Frontier(h) \in h..MaxHeight
<1> DEFINE S == {g \in h..MaxHeight : (h + 1)..g \subseteq ahead.heights}
<1>1. h \in Nat /\ MaxHeight \in Nat /\ h <= MaxHeight /\ (h + 1)..h = {}
  BY DriveAssumption
<1>2. S \subseteq h..MaxHeight /\ h \in S
  BY <1>1
<1>3. S \subseteq Nat /\ S # {} /\ \A n \in S : n <= MaxHeight
  BY <1>1, <1>2
<1>4. Max(S) \in S
  <2> HIDE DEF S
  <2> QED BY <1>1, <1>3, MaxIs
<1> QED BY <1>2, <1>4 DEF Frontier

LEMMA ServeTyped ==
  ASSUME TypeOK, Serve
  PROVE  TypeOK'
<1> USE DEF chain, session
<1>0. store \in Migrations /\ mem \in Migrations /\ SessionOK /\ ChainOK
  BY TypeParts
<1>h. scanned \in Nat /\ step.txs \in SUBSET Ids /\ scanned + 1 \in Nat
  BY <1>0, DriveAssumption DEF ChainOK, SessionOK
<1>s. SUFFICES store' \in Migrations /\ mem' \in Migrations /\ SessionOK' /\ ChainOK'
  BY DEF TypeOK, SessionOK, ChainOK
<1>1. ASSUME NEW t \in Ids, Prove(t)
      PROVE  store' \in Migrations /\ mem' \in Migrations /\ SessionOK' /\ ChainOK'
  <2>1. PICK b \in ProveBoundaries(mem, t) :
          Store(SetTransactionProved([mem EXCEPT !.bound[t] = b], t), step.txs \ {t})
    BY <1>1 DEF Prove
  <2>2. b \in Nat
    BY <1>0, ProveBoundariesAre
  <2>3. SetTransactionProved([mem EXCEPT !.bound[t] = b], t) \in Migrations
    BY <2>2, <1>0, SetTransactionProvedIs DEF Moved
  <2>4. step.txs \ {t} \in SUBSET Ids
    BY <1>h
  <2>5. store' \in Migrations /\ mem' \in Migrations /\ SessionOK'
    BY <2>1, <2>3, <2>4, <1>0, StoredTyped
  <2> QED BY <2>5, <1>0, <1>1 DEF Prove, ChainOK
<1>2. ASSUME NEW t \in Ids, ProveNotYet(t)
      PROVE  store' \in Migrations /\ mem' \in Migrations /\ SessionOK' /\ ChainOK'
  <2>1. UNCHANGED <<store, chain, reorgs, crashes>>
    BY <1>2 DEF ProveNotYet
  <2>2. CASE step.txs = {t}
    <3>1. Release /\ mem' = store
      BY <1>2, <2>2 DEF ProveNotYet
    <3> QED BY <3>1, <2>1, <1>0, Released DEF ChainOK
  <2>3. CASE step.txs # {t}
    <3>1. step' = [step EXCEPT !.txs = step.txs \ {t}]
          /\ UNCHANGED <<mem, pc, ret, closeAt, tgt, aside, asked, dirty>>
      BY <1>2, <2>3, <1>0 DEF ProveNotYet, SessionOK
    <3> QED BY <3>1, <2>1, <1>0 DEF ChainOK, SessionOK
  <2> QED BY <2>2, <2>3
<1>3. ASSUME NEW t \in Ids, ProveInputNotAvailable(t)
      PROVE  store' \in Migrations /\ mem' \in Migrations /\ SessionOK' /\ ChainOK'
  <2>1. PICK b \in ProveBoundaries(mem, t) :
          mem' = MarkDirect([mem EXCEPT !.bound[t] = b], {t}, [u \in Ids |-> "InputAbsent"], scanned)
    BY <1>3 DEF ProveInputNotAvailable
  <2>2. b \in Nat
    BY <1>0, ProveBoundariesAre
  <2> DEFINE m == [mem EXCEPT !.bound[t] = b]
             k == [u \in Ids |-> "InputAbsent"]
  <2>3. m \in Migrations /\ \A u \in {t} \cap Ids : k[u] \in Kinds
    BY <2>2, <1>0 DEF Migrations, Kinds
  <2>4. mem' = MarkDirect(m, {t}, k, scanned)
    BY <2>1
  <2> HIDE DEF m, k
  <2>5. mem' \in Migrations
    BY <2>3, <2>4, <1>h, MarkDirectIs DEF MarkedDirect
  <2> QED BY <2>5, <1>0, <1>h, <1>3
          DEF ProveInputNotAvailable, SessionOK, ChainOK, PCs, NoStep, Step, Steps
<1>4. ASSUME NEW t \in Ids, TakeForBroadcast(t)
      PROVE  store' \in Migrations /\ mem' \in Migrations /\ SessionOK' /\ ChainOK'
  BY <1>4, <1>0 DEF TakeForBroadcast, SessionOK, ChainOK, PCs
<1>5. ASSUME NEW t \in Ids, Rebuild(t)
      PROVE  store' \in Migrations /\ mem' \in Migrations /\ SessionOK' /\ ChainOK'
  <2> DEFINE target == Tip + 1
  <2>t. target \in Nat
    BY <1>0, TipIs
  <2>1. PICK delay \in RebuildDelays, st \in InitStates :
          LET sched == RebuildBase(mem, target) + delay
          IN  \E b \in DrawableBoundaries(Max({1} \cup Funding(mem, t)), sched) :
                Store([mem EXCEPT !.sched[t] = sched, !.expiry[t] = sched + ExpiryWindow,
                                  !.bound[t] = b, !.st[t] = st], {})
    BY <1>5 DEF Rebuild
  <2> HIDE DEF target
  <2> DEFINE sched == RebuildBase(mem, target) + delay
  <2>2. PICK b \in DrawableBoundaries(Max({1} \cup Funding(mem, t)), sched) :
          Store([mem EXCEPT !.sched[t] = sched, !.expiry[t] = sched + ExpiryWindow,
                            !.bound[t] = b, !.st[t] = st], {})
    BY <2>1
  <2> DEFINE expiry == sched + ExpiryWindow
  <2>3. sched \in Nat /\ expiry \in Nat /\ b \in Nat /\ st \in TxStates
    BY <1>0, <2>t, DriveAssumption, RebuildBaseIs, DrawableAreHeights DEF TxStates
  <2> DEFINE n == [mem EXCEPT !.sched[t] = sched, !.expiry[t] = expiry, !.bound[t] = b, !.st[t] = st]
  <2>4. Store(n, {})
    BY <2>2
  <2> HIDE DEF sched, expiry
  <2>a. Rebuilt(mem, t, st, n)
    BY <2>3, <1>0, RebuiltIs
  <2> HIDE DEF n
  <2>5. n \in Migrations
    BY <2>a DEF Rebuilt
  <2>6. store' \in Migrations /\ mem' \in Migrations /\ SessionOK'
    BY <2>4, <2>5, <1>0, StoredTyped
  <2>7. rival' \in [Ids -> Nat]
    <3>1. rival \in [Ids -> Nat] /\ mem.expiry[t] \in Nat
      BY <1>0 DEF ChainOK, Migrations
    <3> DEFINE later == Max({rival[t], mem.expiry[t]})
    <3>2. later \in Nat
      BY <3>1, MaxOfTwo
    <3>3. rival' \in {rival, [rival EXCEPT ![t] = later]}
      BY <1>5 DEF Rebuild
    <3> HIDE DEF later
    <3> QED BY <3>1, <3>2, <3>3
  <2> QED BY <2>6, <2>7, <1>0, <1>5 DEF Rebuild, ChainOK
<1>6. ASSUME NEW t \in Ids, RebuildRefused(t)
      PROVE  store' \in Migrations /\ mem' \in Migrations /\ SessionOK' /\ ChainOK'
  <2>1. Release /\ mem' = store /\ UNCHANGED <<store, chain, reorgs, crashes>>
    BY <1>6 DEF RebuildRefused
  <2> QED BY <2>1, <1>0, Released DEF ChainOK
<1>7. CASE SubmitAccepted
  <2>1. PICK t \in step.txs : Store(MarkBroadcast(mem, t), {})
    BY <1>7 DEF SubmitAccepted
  <2>2. MarkBroadcast(mem, t) \in Migrations
    BY <1>0, <1>h, MarkBroadcastIs DEF Moved
  <2>3. store' \in Migrations /\ mem' \in Migrations /\ SessionOK'
    BY <2>1, <2>2, <1>0, StoredTyped
  <2> QED BY <2>3, <1>0, <1>7 DEF SubmitAccepted, ChainOK
<1>8. CASE SubmitRejected
  <2>1. PICK t \in step.txs, lead \in 0..MaxLead :
          Store(ReportBroadcastFailure(mem, t, scanned + lead), {})
    BY <1>8 DEF SubmitRejected
  <2>2. scanned + lead \in Nat /\ t \in Ids
    BY <1>h, DriveAssumption
  <2>3. ReportBroadcastFailure(mem, t, scanned + lead) \in Migrations
    BY <2>2, <1>0, ReportBroadcastFailureIs DEF Untouched
  <2>4. store' \in Migrations /\ mem' \in Migrations /\ SessionOK'
    BY <2>1, <2>3, <1>0, StoredTyped
  <2> QED BY <2>4, <1>0, <1>8 DEF SubmitRejected, ChainOK
<1>9. CASE Supersede
  <2>1. Store(MarkSuperseded(mem), {}) /\ UNCHANGED <<chain, reorgs, crashes>>
    BY <1>9 DEF Supersede
  <2>2. MarkSuperseded(mem) \in Migrations
    BY <1>0, EndingIs DEF Ended
  <2> QED BY <2>1, <2>2, <1>0, StoredTyped DEF ChainOK
<1> QED BY <1>1, <1>2, <1>3, <1>4, <1>5, <1>6, <1>7, <1>8, <1>9 DEF Serve

\* The blocks up to `top' mine what was handed out and not mined, and show foreign spends.
Scanned(at, foreign, top) ==
  /\ scanned' = top
  /\ chMined' = [t \in Ids |-> IF at[t] # 0 THEN at[t] ELSE chMined[t]]
  /\ chSpent' = [t \in Ids |-> IF t \in foreign THEN scanned + 1
                                ELSE IF ahead.spent[t] \in (scanned + 1)..top THEN ahead.spent[t]
                                ELSE chSpent[t]]
  /\ ahead' = [heights |-> {g \in ahead.heights : g > top},
                spent |-> [t \in Ids |-> IF ahead.spent[t] > top THEN ahead.spent[t] ELSE 0]]
  /\ \A t \in Ids : at[t] # 0 =>
        /\ chMined[t] = 0 /\ chSpent[t] = 0 /\ ahead.spent[t] = 0 /\ t \in taken
        /\ store.expiry[t] = 0 \/ store.expiry[t] >= at[t]
        /\ \A d \in Deps[t] : chMined[d] # 0
  /\ \A t \in foreign : at[t] = 0 /\ chMined[t] = 0 /\ chSpent[t] = 0 /\ ahead.spent[t] = 0

LEMMA ScanIs ==
  ASSUME TypeOK, Scan
  PROVE  /\ pc \in ScanPoints
         /\ UNCHANGED <<store, mem, pc, session, taken, rival, displaced, reorgs, crashes>>
         /\ linked' \subseteq Ids
         /\ \E top \in (scanned + 1)..MaxHeight :
            \E at \in [Ids -> {0} \cup (scanned + 1)..top], foreign \in SUBSET Ids :
               Scanned(at, foreign, top)
<1> DEFINE h == scanned + 1
           top == Frontier(h)
<1>1. PICK at \in Inclusions(h, top), foreign \in SUBSET {t \in Ids : Spendable(t, h)} :
        /\ \A t \in foreign : at[t] = 0
        /\ scanned' = top
        /\ chMined' = [t \in Ids |-> IF at[t] # 0 THEN at[t] ELSE chMined[t]]
        /\ chSpent' = [t \in Ids |-> IF t \in foreign THEN h
                                      ELSE IF ahead.spent[t] \in h..top THEN ahead.spent[t]
                                      ELSE chSpent[t]]
        /\ ahead' = [heights |-> {g \in ahead.heights : g > top},
                      spent |-> [t \in Ids |-> IF ahead.spent[t] > top THEN ahead.spent[t] ELSE 0]]
        /\ linked' = linked \cup {t \in Ids : at[t] # 0}
  BY DEF Scan
<1>2. /\ pc \in ScanPoints /\ scanned < MaxHeight
      /\ UNCHANGED <<store, mem, pc, session, taken, rival, displaced, reorgs, crashes>>
  BY DEF Scan
<1>3. top \in (scanned + 1)..MaxHeight
  <2>1. h \in 1..MaxHeight
    BY <1>2, DriveAssumption DEF TypeOK
  <2> QED BY <2>1, FrontierIs
<1> HIDE DEF top
<1>4. at \in [Ids -> {0} \cup (scanned + 1)..top] /\ \A t \in Ids : at[t] # 0 => Minable(t, at[t])
  BY DEF Inclusions
<1>5. \A t \in Ids : at[t] # 0 =>
        /\ chMined[t] = 0 /\ chSpent[t] = 0 /\ ahead.spent[t] = 0 /\ t \in taken
        /\ store.expiry[t] = 0 \/ store.expiry[t] >= at[t]
        /\ \A d \in Deps[t] : chMined[d] # 0
  BY <1>4 DEF Minable, SeenSpent
<1>6. \A t \in foreign : at[t] = 0 /\ chMined[t] = 0 /\ chSpent[t] = 0 /\ ahead.spent[t] = 0
  BY <1>1 DEF Spendable, SeenSpent
<1>7. linked' \subseteq Ids /\ foreign \in SUBSET Ids
  BY <1>1 DEF TypeOK
<1>8. Scanned(at, foreign, top)
  BY <1>1, <1>5, <1>6 DEF Scanned
<1> QED BY <1>2, <1>3, <1>4, <1>7, <1>8

\* A block above a gap moves neither what is fully scanned nor the migration.
LEMMA ScanAheadIs ==
  ASSUME TypeOK, ScanAhead
  PROVE  /\ UNCHANGED <<store, mem, pc, session, scanned, chMined, chSpent, taken, linked, rival,
                        displaced, reorgs, crashes>>
         /\ ahead' \in [heights : SUBSET (1..MaxHeight), spent : [Ids -> 0..MaxHeight]]
         /\ \A t \in Ids : ahead'.spent[t] = ahead.spent[t] \/ (chMined[t] = 0 /\ chSpent[t] = 0)
<1>0. PICK h \in (scanned + 2)..MaxHeight :
        \E foreign \in SUBSET {t \in Ids : Spendable(t, h)} :
          ahead' = [heights |-> ahead.heights \cup {h},
                    spent |-> [t \in Ids |-> IF t \in foreign THEN h ELSE ahead.spent[t]]]
  BY DEF ScanAhead
<1>1. PICK foreign \in SUBSET {t \in Ids : Spendable(t, h)} :
        ahead' = [heights |-> ahead.heights \cup {h},
                  spent |-> [t \in Ids |-> IF t \in foreign THEN h ELSE ahead.spent[t]]]
  BY <1>0
<1>2. h \in 1..MaxHeight /\ h \in 0..MaxHeight
  BY DriveAssumption DEF TypeOK
<1>3. \A t \in foreign : chMined[t] = 0 /\ chSpent[t] = 0
  BY DEF Spendable, SeenSpent
<1>4. ahead.heights \subseteq 1..MaxHeight /\ ahead.spent \in [Ids -> 0..MaxHeight]
  BY DEF TypeOK
<1> DEFINE heights == ahead.heights \cup {h}
           spent == [t \in Ids |-> IF t \in foreign THEN h ELSE ahead.spent[t]]
<1>5. heights \in SUBSET (1..MaxHeight) /\ spent \in [Ids -> 0..MaxHeight]
  BY <1>2, <1>4
<1>6. ahead' = [heights |-> heights, spent |-> spent]
  BY <1>1
<1>7. \A t \in Ids : spent[t] = ahead.spent[t] \/ (chMined[t] = 0 /\ chSpent[t] = 0)
  BY <1>3
<1> HIDE DEF heights, spent
<1>8. ahead' \in [heights : SUBSET (1..MaxHeight), spent : [Ids -> 0..MaxHeight]] /\ ahead'.spent = spent
  BY <1>5, <1>6
<1> QED BY <1>7, <1>8 DEF ScanAhead

\* A rollback to height h, after which the anchors in `gone' of those in `judged' are lost.
RolledBack(h, judged, gone) ==
  /\ gone \subseteq judged
  /\ scanned' = IF h < scanned THEN h ELSE scanned
  /\ chMined' = [t \in Ids |-> IF chMined[t] > h THEN 0 ELSE chMined[t]]
  /\ chSpent' = [t \in Ids |-> IF chSpent[t] > h THEN 0 ELSE chSpent[t]]
  /\ ahead' = [heights |-> {g \in ahead.heights : g <= h},
                spent |-> [t \in Ids |-> IF ahead.spent[t] > h THEN 0 ELSE ahead.spent[t]]]
  /\ displaced' = (displaced \ judged) \cup gone
  /\ \A t \in judged : store.bound[t] > h
  /\ store' = IF store.status \in PolicyTerminal THEN store ELSE TruncateToHeight(store, h)

LEMMA MinOfTwo ==
  ASSUME NEW a \in Nat, NEW b \in Nat
  PROVE  Min({a, b}) = IF b < a THEN b ELSE a
<1>1. {a, b} \subseteq Nat /\ {a, b} # {}
  OBVIOUS
<1>2. Min({a, b}) \in {a, b} /\ Min({a, b}) <= a /\ Min({a, b}) <= b
  BY <1>1, MinIs
<1> QED BY <1>2

LEMMA TruncateIs ==
  ASSUME TypeOK, Truncate
  PROVE  /\ pc \in TruncatePoints /\ reorgs' = reorgs + 1 /\ reorgs < MaxReorgs
         /\ mem' = IF pc = "idle" THEN store' ELSE mem
         /\ UNCHANGED <<pc, session, taken, linked, crashes>>
         /\ rival' \in [Ids -> Nat]
         /\ \E h \in 1..MaxHeight, judged, gone \in SUBSET Transfers : RolledBack(h, judged, gone)
<1>1. PICK h \in 1..scanned \cup ahead.heights :
        LET judged == {t \in Transfers : /\ store.st[t] \in {"Proved", "Broadcast", "Mined"}
                                         /\ store.bound[t] > h}
        IN  \E gone \in SUBSET judged :
            /\ scanned' = Min({scanned, h})
            /\ chMined' = [t \in Ids |-> IF chMined[t] > h THEN 0 ELSE chMined[t]]
            /\ chSpent' = [t \in Ids |-> IF chSpent[t] > h THEN 0 ELSE chSpent[t]]
            /\ ahead' = [heights |-> {g \in ahead.heights : g <= h},
                          spent |-> [t \in Ids |-> IF ahead.spent[t] > h THEN 0 ELSE ahead.spent[t]]]
            /\ rival' = [t \in Ids |-> IF chSpent[t] > h \/ ahead.spent[t] > h
                                        THEN Max({rival[t], PaymentExpiry}) ELSE rival[t]]
            /\ displaced' = (displaced \ judged) \cup gone
            /\ store' = IF store.status \in PolicyTerminal THEN store
                        ELSE TruncateToHeight(store, h)
  BY DEF Truncate
<1> DEFINE judged == {t \in Transfers : /\ store.st[t] \in {"Proved", "Broadcast", "Mined"}
                                        /\ store.bound[t] > h}
<1>2. PICK gone \in SUBSET judged :
            /\ scanned' = Min({scanned, h})
            /\ chMined' = [t \in Ids |-> IF chMined[t] > h THEN 0 ELSE chMined[t]]
            /\ chSpent' = [t \in Ids |-> IF chSpent[t] > h THEN 0 ELSE chSpent[t]]
            /\ ahead' = [heights |-> {g \in ahead.heights : g <= h},
                          spent |-> [t \in Ids |-> IF ahead.spent[t] > h THEN 0 ELSE ahead.spent[t]]]
            /\ rival' = [t \in Ids |-> IF chSpent[t] > h \/ ahead.spent[t] > h
                                        THEN Max({rival[t], PaymentExpiry}) ELSE rival[t]]
            /\ displaced' = (displaced \ judged) \cup gone
            /\ store' = IF store.status \in PolicyTerminal THEN store
                        ELSE TruncateToHeight(store, h)
  BY <1>1
<1>3. judged \in SUBSET Transfers /\ \A t \in judged : store.bound[t] > h
  OBVIOUS
<1> HIDE DEF judged
<1>4. scanned \in Nat /\ scanned <= MaxHeight /\ ahead.heights \subseteq 1..MaxHeight /\ MaxHeight \in Nat
  BY DriveAssumption DEF TypeOK
<1>5. h \in Nat /\ h \in 1..MaxHeight
  BY <1>4
<1>6. scanned' = IF h < scanned THEN h ELSE scanned
  BY <1>2, <1>4, <1>5, MinOfTwo
<1>7. RolledBack(h, judged, gone)
  BY <1>2, <1>3, <1>6 DEF RolledBack
<1>8. rival' \in [Ids -> Nat]
  <2>1. rival \in [Ids -> Nat] /\ PaymentExpiry \in Nat
    BY DriveAssumption DEF TypeOK
  <2> DEFINE later == [t \in Ids |-> Max({rival[t], PaymentExpiry})]
  <2>2. \A t \in Ids : later[t] \in Nat
    BY <2>1, MaxOfTwo
  <2>3. rival' = [t \in Ids |-> IF chSpent[t] > h \/ ahead.spent[t] > h THEN later[t] ELSE rival[t]]
    BY <1>2
  <2> HIDE DEF later
  <2> QED BY <2>1, <2>2, <2>3
<1>9. /\ pc \in TruncatePoints /\ reorgs' = reorgs + 1 /\ reorgs < MaxReorgs
      /\ mem' = IF pc = "idle" THEN store' ELSE mem
      /\ UNCHANGED <<pc, session, taken, linked, crashes>>
  BY DEF Truncate
<1> QED BY <1>3, <1>5, <1>7, <1>8, <1>9

\* The rest: signing, paying, dying, and the chain.
LEMMA OthersTyped ==
  ASSUME TypeOK,
         (\E t \in Ids : Sign(t) \/ Pay(t)) \/ Crash \/ Scan \/ ScanAhead \/ Truncate \/ Cancel
  PROVE  TypeOK'
<1> USE DEF chain, session
<1>0. store \in Migrations /\ mem \in Migrations /\ SessionOK /\ ChainOK
  BY TypeParts
<1>h. scanned \in Nat
  BY <1>0, DriveAssumption DEF ChainOK
<1>s. SUFFICES store' \in Migrations /\ mem' \in Migrations /\ SessionOK' /\ ChainOK'
  BY DEF TypeOK, SessionOK, ChainOK
<1>1. ASSUME NEW t \in Ids, Sign(t)
      PROVE  store' \in Migrations /\ mem' \in Migrations /\ SessionOK' /\ ChainOK'
  <2>1. Store(ApplySignature(store, t), {}) /\ UNCHANGED <<chain, reorgs, crashes>>
    BY <1>1 DEF Sign
  <2>2. ApplySignature(store, t) \in Migrations
    BY <1>0, ApplySignatureIs
  <2> QED BY <2>1, <2>2, <1>0, StoredTyped DEF ChainOK
<1>2. ASSUME NEW t \in Ids, Pay(t)
      PROVE  store' \in Migrations /\ mem' \in Migrations /\ SessionOK' /\ ChainOK'
  <2>1. rival' \in [Ids -> Nat]
    BY <1>2, <1>0, DriveAssumption DEF Pay, ChainOK
  <2> QED BY <1>2, <1>0, <2>1 DEF Pay, SessionOK, ChainOK
<1>3. CASE Crash
  <2>1. Release /\ mem' = store /\ crashes' = crashes + 1 /\ crashes < MaxCrashes
        /\ UNCHANGED <<store, chain, reorgs>>
    BY <1>3 DEF Crash
  <2>2. SessionOK'
    BY <2>1, Released
  <2> QED BY <2>1, <2>2, <1>0, DriveAssumption DEF ChainOK
<1>4. CASE Scan
  <2>1. /\ UNCHANGED <<store, mem, pc, session, taken, rival, displaced, reorgs, crashes>>
        /\ linked' \subseteq Ids
    BY <1>4, ScanIs
  <2>2. PICK top \in (scanned + 1)..MaxHeight :
             \E at \in [Ids -> {0} \cup (scanned + 1)..top], foreign \in SUBSET Ids :
               Scanned(at, foreign, top)
    BY <1>4, ScanIs
  <2>3. PICK at \in [Ids -> {0} \cup (scanned + 1)..top], foreign \in SUBSET Ids :
               Scanned(at, foreign, top)
    BY <2>2
  <2>4. /\ top \in 1..MaxHeight /\ scanned + 1 \in 0..MaxHeight
        /\ \A t \in Ids : at[t] \in 0..MaxHeight
    BY <1>0, <1>h, DriveAssumption
  <2>5. scanned' \in 1..MaxHeight
    BY <2>3, <2>4 DEF Scanned
  <2>6. chMined' \in [Ids -> 0..MaxHeight] /\ chSpent' \in [Ids -> 0..MaxHeight]
    BY <2>3, <2>4, <1>0 DEF Scanned, ChainOK
  <2>7. ahead' \in [heights : SUBSET (1..MaxHeight), spent : [Ids -> 0..MaxHeight]]
    <3>1. ahead.heights \subseteq 1..MaxHeight /\ ahead.spent \in [Ids -> 0..MaxHeight] /\ 0 \in 0..MaxHeight
      BY <1>0, DriveAssumption DEF ChainOK
    <3> DEFINE heights == {g \in ahead.heights : g > top}
               spent == [t \in Ids |-> IF ahead.spent[t] > top THEN ahead.spent[t] ELSE 0]
    <3>2. heights \in SUBSET (1..MaxHeight) /\ spent \in [Ids -> 0..MaxHeight]
      BY <3>1
    <3>3. ahead' = [heights |-> heights, spent |-> spent]
      BY <2>3 DEF Scanned
    <3> HIDE DEF heights, spent
    <3> QED BY <3>2, <3>3
  <2>8. ChainOK'
    BY <2>1, <2>5, <2>6, <2>7, <1>0 DEF ChainOK
  <2> QED BY <2>1, <2>8, <1>0 DEF SessionOK
<1>a. CASE ScanAhead
  <2>1. /\ UNCHANGED <<store, mem, pc, session, scanned, chMined, chSpent, taken, linked, rival,
                       displaced, reorgs, crashes>>
        /\ ahead' \in [heights : SUBSET (1..MaxHeight), spent : [Ids -> 0..MaxHeight]]
    BY <1>a, ScanAheadIs
  <2> QED BY <2>1, <1>0 DEF SessionOK, ChainOK
<1>5. CASE Truncate
  <2>1. PICK h \in 1..MaxHeight, judged, gone \in SUBSET Transfers : RolledBack(h, judged, gone)
    BY <1>5, TruncateIs
  <2>2. /\ reorgs < MaxReorgs /\ reorgs' = reorgs + 1 /\ mem' \in {store', mem}
        /\ UNCHANGED <<pc, session, taken, linked, crashes>> /\ rival' \in [Ids -> Nat]
    BY <1>5, TruncateIs
  <2>3. h \in Nat /\ scanned' \in 1..MaxHeight
    BY <2>1, <1>0, DriveAssumption DEF ChainOK, RolledBack
  <2>4. store' \in Migrations
    BY <2>1, <2>3, <1>0, TruncateToHeightIs DEF RolledBack, Truncated
  <2>5. chMined' \in [Ids -> 0..MaxHeight] /\ chSpent' \in [Ids -> 0..MaxHeight]
    BY <2>1, <1>0, DriveAssumption DEF RolledBack, ChainOK
  <2>6. ahead' \in [heights : SUBSET (1..MaxHeight), spent : [Ids -> 0..MaxHeight]]
    <3>1. ahead.heights \subseteq 1..MaxHeight /\ ahead.spent \in [Ids -> 0..MaxHeight] /\ 0 \in 0..MaxHeight
      BY <1>0, DriveAssumption DEF ChainOK
    <3> DEFINE heights == {g \in ahead.heights : g <= h}
               spent == [t \in Ids |-> IF ahead.spent[t] > h THEN 0 ELSE ahead.spent[t]]
    <3>2. heights \in SUBSET (1..MaxHeight) /\ spent \in [Ids -> 0..MaxHeight]
      BY <3>1
    <3>3. ahead' = [heights |-> heights, spent |-> spent]
      BY <2>1 DEF RolledBack
    <3> HIDE DEF heights, spent
    <3> QED BY <3>2, <3>3
  <2>7. displaced' \subseteq Transfers
    BY <2>1, <1>0 DEF RolledBack, ChainOK
  <2>8. ChainOK'
    BY <2>2, <2>3, <2>5, <2>6, <2>7, <1>0, DriveAssumption DEF ChainOK
  <2> QED BY <2>2, <2>4, <2>8, <1>0 DEF SessionOK
<1>6. CASE Cancel
  <2>1. store' = MarkCancelled(store) /\ mem' \in {store', mem}
        /\ UNCHANGED <<pc, session, chain, reorgs, crashes>>
    BY <1>6 DEF Cancel
  <2>2. store' \in Migrations
    BY <2>1, <1>0, EndingIs DEF Ended
  <2> QED BY <2>1, <2>2, <1>0 DEF SessionOK, ChainOK
<1> QED BY <1>1, <1>2, <1>3, <1>4, <1>a, <1>5, <1>6

LEMMA TypeStep == TypeOK /\ [Next]_vars => TypeOK'
<1> SUFFICES ASSUME TypeOK, [Next]_vars PROVE TypeOK'
  OBVIOUS
<1>1. CASE BeginAdvance \/ Advance
  BY <1>1, AdvanceTyped
<1>2. CASE Serve
  BY <1>2, ServeTyped
<1>3. CASE (\E t \in Ids : Sign(t) \/ Pay(t)) \/ Crash \/ Scan \/ ScanAhead \/ Truncate \/ Cancel
  BY <1>3, OthersTyped
<1>4. CASE UNCHANGED vars
  BY <1>4 DEF vars, session, chain, TypeOK
<1> QED BY <1>1, <1>2, <1>3, <1>4 DEF Next

\* The state keeps its type: no schedule, boundary, stamp or expiry that any step writes
\* is ever below zero, and a step names transactions of the migration only.
THEOREM TypeCorrect == Spec => []TypeOK
<1> QED BY InitTyped, TypeStep, PTL DEF Spec

-----------------------------------------------------------------------------
(* What a copy of the migration says of the chain: `on' is where the       *)
(* transactions are mined, `out' those that were handed out.               *)

Live(m) == m.status \notin PolicyTerminal

AllMined(m) == \A t \in Ids : m.st[t] = "Mined"

RowTrue(m, t, on, out) ==
  /\ m.st[t] = "Mined" => on[t] # 0 /\ m.mined[t] = on[t] /\ m.mark[t] = 0
  /\ m.st[t] # "Mined" => m.mined[t] = 0
  /\ m.st[t] \in {"AwaitingSignature", "Signed"} => t \notin out /\ on[t] = 0

Truth(m, on, out) ==
  Live(m) => /\ \A t \in Ids : RowTrue(m, t, on, out)
             /\ Ids # {} => (m.status = "Complete" <=> AllMined(m))

LEMMA TruthMarks ==
  ASSUME NEW m \in Migrations, NEW n \in Migrations, NEW on, NEW out, Truth(m, on, out),
         n.status = m.status,
         \A t \in Ids : n.st[t] = m.st[t] /\ n.mined[t] = m.mined[t]
                        /\ (n.mark[t] = m.mark[t] \/ m.st[t] # "Mined")
  PROVE  Truth(n, on, out)
BY DEF Truth, Live, RowTrue, AllMined

LEMMA TruthPromoted ==
  ASSUME NEW m \in Migrations, NEW n, NEW on, NEW out, NEW at, Truth(m, on, out), Promoted(m, at, n),
         \A t \in Ids : at[t] # 0 => at[t] = on[t]
  PROVE  Truth(n, on, out) /\ (Live(m) => Live(n))
<1>1. CASE n = m
  BY <1>1
<1>2. CASE n.status = Recomputed(m.status, n.st) /\ Live(m)
  <2>1. \A t \in Ids : RowTrue(n, t, on, out)
    BY <1>2 DEF Truth, RowTrue, Promoted, SameRow, SameMarks
  <2>2. AllMined(m) => AllMined(n)
    BY DEF AllMined, Promoted, SameRow
  <2>3. ASSUME Ids # {} PROVE n.status = "Complete" <=> AllMined(n)
    <3>1. CASE m.status = "Complete"
      BY <1>2, <2>2, <2>3, <3>1 DEF Truth, Recomputed, AllMined
    <3>2. CASE m.status # "Complete"
      BY <1>2, <2>3, <3>2 DEF Recomputed, AllMined, Live
    <3> QED BY <3>1, <3>2
  <2>4. Live(n)
    BY <1>2 DEF Live, Recomputed, PolicyTerminal
  <2> QED BY <2>1, <2>3, <2>4 DEF Truth
<1>3. CASE n.status = Recomputed(m.status, n.st) /\ ~Live(m)
  <2>1. ~Live(n)
    BY <1>3 DEF Live, Recomputed
  <2> QED BY <2>1, <1>3 DEF Truth
<1> QED BY <1>1, <1>2, <1>3 DEF Promoted

LEMMA TruthMoved ==
  ASSUME NEW m \in Migrations, NEW n, NEW on, NEW out, NEW t \in Ids, NEW s \in {"Broadcast", "Proved"},
         Truth(m, on, out), Moved(m, t, s, n), Live(m), m.st[t] # "Mined",
         n.status = m.status \/ n.status = Recomputed(m.status, n.st)
  PROVE  Truth(n, on, out)
<1>1. \A u \in Ids : RowTrue(n, u, on, out)
  BY DEF Truth, RowTrue, Moved, SameRow, SameMarks
<1>2. ~AllMined(m) /\ ~AllMined(n)
  BY DEF AllMined, Moved
<1>3. n.status # "Complete"
  BY <1>2 DEF Truth, Recomputed, AllMined
<1> QED BY <1>1, <1>2, <1>3 DEF Truth

LEMMA TruthSigned ==
  ASSUME NEW m \in Migrations, NEW on, NEW out, NEW t \in Ids,
         Truth(m, on, out), m.st[t] = "AwaitingSignature"
  PROVE  Truth(ApplySignature(m, t), on, out)
<1> DEFINE n == ApplySignature(m, t)
<1>1. /\ n.status = m.status /\ \A u \in Ids \ {t} : SameRow(m, n, u)
      /\ n.st[t] = "Signed" /\ n.mined[t] = m.mined[t] /\ SameMarks(m, n, t)
  BY ApplySignatureIs
<1> HIDE DEF n
<1>2. Live(m) => \A u \in Ids : RowTrue(n, u, on, out)
  BY <1>1 DEF Truth, RowTrue, SameRow, SameMarks
<1>3. ~AllMined(m) /\ ~AllMined(n)
  BY <1>1 DEF AllMined
<1>4. Truth(n, on, out)
  BY <1>1, <1>2, <1>3 DEF Truth, Live
<1> QED BY <1>4 DEF n

LEMMA TruthRebuilt ==
  ASSUME NEW m \in Migrations, NEW n, NEW on, NEW out, NEW t \in Ids,
         NEW s \in {"AwaitingSignature", "Signed"},
         Truth(m, on, out), Rebuilt(m, t, s, n), m.st[t] # "Mined", on[t] = 0
  PROVE  Truth(n, on, out \ {t})
<1>1. n.status = m.status
  BY DEF Rebuilt
<1>2. Live(m) => \A u \in Ids : RowTrue(n, u, on, out \ {t})
  BY DEF Truth, RowTrue, Rebuilt, SameRow, SameMarks
<1>3. ~AllMined(m) /\ ~AllMined(n)
  BY DEF AllMined, Rebuilt
<1> QED BY <1>1, <1>2, <1>3 DEF Truth, Live

LEMMA TruthTruncated ==
  ASSUME NEW m \in Migrations, NEW n, NEW on \in [Ids -> Nat], NEW out, NEW h \in Nat,
         Truth(m, on, out), Truncated(m, h, n), Live(m)
  PROVE  Truth(n, [t \in Ids |-> IF on[t] > h THEN 0 ELSE on[t]], out)
<1> DEFINE new == [t \in Ids |-> IF on[t] > h THEN 0 ELSE on[t]]
<1>1. ASSUME NEW t \in Ids PROVE RowTrue(n, t, new, out)
  <2>1. RowTrue(m, t, on, out)
    BY DEF Truth
  <2>2. m.mined[t] \in Nat /\ on[t] \in Nat /\ m.mark[t] \in Nat
    BY DEF Migrations
  <2>3. IF m.st[t] = "Mined" /\ m.mined[t] > h
        THEN n.st[t] = "Broadcast" /\ n.mined[t] = 0
        ELSE n.st[t] = m.st[t] /\ n.mined[t] = m.mined[t]
    BY DEF Truncated
  <2>4. n.mark[t] \in {0, m.mark[t]}
    BY DEF Truncated, SameMarks
  <2> QED BY <2>1, <2>2, <2>3, <2>4 DEF RowTrue
<1>2. AllMined(n) => AllMined(m)
  BY DEF AllMined, Truncated
<1>3. Ids # {} => (n.status = "Complete" <=> AllMined(n))
  BY <1>2 DEF Truth, Truncated, AllMined
<1> HIDE DEF new
<1>4. Truth(n, new, out)
  BY <1>1, <1>3 DEF Truth
<1> QED BY <1>4 DEF new

LEMMA TruthScanned ==
  ASSUME NEW m \in Migrations, NEW on, NEW on2, NEW out, Truth(m, on, out),
         \A t \in Ids : on2[t] = on[t] \/ (on[t] = 0 /\ t \in out)
  PROVE  Truth(m, on2, out)
BY DEF Truth, RowTrue, AllMined

LEMMA TruthTaken ==
  ASSUME NEW m \in Migrations, NEW on, NEW out, NEW t, Truth(m, on, out),
         m.st[t] \notin {"AwaitingSignature", "Signed"}
  PROVE  Truth(m, on, out \cup {t})
BY DEF Truth, RowTrue, AllMined

LEMMA TruthEnded ==
  ASSUME NEW m \in Migrations, NEW n, NEW on, NEW out, Truth(m, on, out), Ended(m, n)
  PROVE  Truth(n, on, out)
<1>1. CASE n.status \in PolicyTerminal
  BY <1>1 DEF Truth, Live
<1>2. CASE m.status = "Complete" /\ n.status = "Complete"
  BY <1>2 DEF Truth, Live, RowTrue, AllMined, Ended, SameRows, SameRow, SameMarks
<1> QED BY <1>1, <1>2 DEF Ended

-----------------------------------------------------------------------------
(* The inductive invariant                                                 *)

\* The wallet runs one session at a time: nothing scans, truncates or cancels while
\* the consumer holds its copy, but that blocks arrive while a node is asked.
Serial ==
  /\ ScanPoints \subseteq {"idle", "submit"}
  /\ TruncatePoints \subseteq {"idle"} /\ CancelPoints \subseteq {"idle"}

InSession == pc \notin {"idle", "submit"}

\* Of the two copies, the consumer's is ahead by what is still to be persisted.
Control ==
  /\ pc \in {"idle", "sweep", "swept", "serve", "submit"} => ~dirty
  /\ ~dirty => mem = store
  /\ pc = "closing" => dirty /\ closeAt = scanned + 1 /\ ret # "idle"
  /\ pc = "closing" /\ ret = "persist" => step.txs = {}
  /\ pc # "idle" => Live(store) /\ Live(mem)
  /\ InSession => tgt.scan = scanned + 1 /\ tgt.scan <= tgt.eff
  /\ \A t \in Ids : mem.st[t] = store.st[t] \/ mem.st[t] = "Mined"

\* After the sweep, what is recorded as under way is not on the scanned chain.
Swept ==
  /\ pc = "swept" =>
       \A t \in Ids : asked[t] = IF mem.st[t] \in {"Broadcast", "Proved"} THEN chMined[t] ELSE 0
  /\ pc \in {"report", "closing", "plan", "persist", "serve"} =>
       \A t \in Ids : mem.st[t] \in {"Broadcast", "Proved"} => chMined[t] = 0

\* What was planned of the transactions of a step still holds when it is served.
Offered(t) ==
  /\ DepsMined(mem, t) /\ ~IsMarked(mem, t) /\ ~IsExpired(mem, t, tgt.eff) /\ ~SeenSpent(t)
  /\ mem.sched[t] <= tgt.eff /\ tgt.eff <= mem.sched[t] + Tolerance

Surfaced ==
  /\ pc \in {"persist", "serve", "submit"} /\ step.kind = "Broadcast" =>
       \A t \in step.txs : mem.st[t] = "Proved"
  /\ pc \in {"persist", "serve"} /\ step.kind = "Broadcast" => \A t \in step.txs : Offered(t)
  /\ pc \in {"persist", "serve"} /\ step.kind = "Prove" =>
       \A t \in step.txs : /\ mem.st[t] = "Signed" /\ DepsMined(mem, t) /\ ~IsMarked(mem, t)
                           /\ t \in Transfers => mem.bound[t] <= scanned
  /\ pc \in {"persist", "serve"} /\ step.kind = "Rebuild" =>
       step.txs \subseteq Transfers /\ \A t \in step.txs : IsExpired(mem, t, tgt.scan)
  /\ pc = "submit" => step.kind = "Broadcast"

\* What the scan shows lies in scanned blocks, and no input is spent twice.
Seen ==
  \A t \in Ids : /\ chMined[t] <= scanned /\ chSpent[t] <= scanned
                 /\ ahead.spent[t] # 0 => chMined[t] = 0 /\ chSpent[t] = 0

Told == Truth(store, chMined, taken) /\ Truth(mem, chMined, taken)

IInv == TypeOK /\ Control /\ Swept /\ Surfaced /\ Seen /\ Told

LEMMA SafeInit == Init => IInv
<1> SUFFICES ASSUME Init PROVE IInv
  OBVIOUS
<1>1. TypeOK
  BY InitTyped
<1>2. PICK st \in [Ids -> InitStates] :
        store = [status |-> "Committed", st |-> st, mined |-> Zero, mark |-> Zero,
                 kind |-> [t \in Ids |-> "None"], report |-> Zero,
                 sched |-> InitSched, expiry |-> InitExpiry, bound |-> InitBound]
  BY DEF Init
<1>3. \A t \in Ids : st[t] \in {"AwaitingSignature", "Signed"}
  BY DriveAssumption
<1>4. Truth(store, chMined, taken)
  <2>1. \A t \in Ids : RowTrue(store, t, chMined, taken)
    BY <1>2, <1>3 DEF RowTrue, Init, Zero
  <2>2. Ids # {} => ~AllMined(store)
    BY <1>2, <1>3 DEF AllMined
  <2>3. store.status = "Committed"
    BY <1>2
  <2> QED BY <2>1, <2>2, <2>3 DEF Truth
<1>5. mem = store /\ pc = "idle" /\ dirty = FALSE
  BY DEF Init
<1>6. Seen
  BY DEF Seen, Init, Zero
<1> QED BY <1>1, <1>4, <1>5, <1>6 DEF IInv, Control, InSession, Swept, Surfaced, Told

\* Nothing to record leaves the copy as it was.
LEMMA NothingRecorded ==
  ASSUME NEW m \in Migrations, NEW kindOf, NEW h
  PROVE  /\ MarkMined(m, Zero) = m
         /\ MarkDirect(m, {}, kindOf, h) = m
         /\ ClearBroadcastFailures(m, {}) = m
<1>1. MarkMined(m, Zero) = m
  BY DEF MarkMined, Zero
<1>2. MarkDirect(m, {}, kindOf, h) = m
  <2> DEFINE a == [m EXCEPT !.mark = [t \in Ids |-> m.mark[t]]]
             b == [a EXCEPT !.kind = [t \in Ids |-> m.kind[t]]]
  <2>1. MarkDirect(m, {}, kindOf, h) = b
    BY DEF MarkDirect, Migrations
  <2>2. [t \in Ids |-> m.mark[t]] = m.mark /\ [t \in Ids |-> m.kind[t]] = m.kind
    BY DEF Migrations
  <2>3. b = m
    BY <2>2 DEF Migrations
  <2> QED BY <2>1, <2>3
<1>3. ClearBroadcastFailures(m, {}) = m
  <2>1. [t \in Ids |-> m.report[t]] = m.report
    BY DEF Migrations
  <2> QED BY <2>1 DEF ClearBroadcastFailures, Migrations
<1> QED BY <1>1, <1>2, <1>3

\* A copy that only gained marks and lost reports.
LEMMA RecordedTruth ==
  ASSUME NEW m \in Migrations, NEW S, NEW k, NEW h \in Nat, NEW n, NEW on, NEW out,
         MarkedDirect(m, S, k, h, n), Truth(m, on, out)
  PROVE  Truth(n, on, out)
<1>1. n \in Migrations /\ n.status = m.status
  BY DEF MarkedDirect
<1>2. \A t \in Ids : n.st[t] = m.st[t] /\ n.mined[t] = m.mined[t]
                     /\ (n.mark[t] = m.mark[t] \/ m.st[t] # "Mined")
  BY DEF MarkedDirect, SameMarks, IsMined
<1> QED BY <1>1, <1>2, TruthMarks

LEMMA UntouchedTruth ==
  ASSUME NEW m \in Migrations, NEW n, NEW on, NEW out, Untouched(m, n), Truth(m, on, out)
  PROVE  Truth(n, on, out)
BY TruthMarks DEF Untouched, SameRows, SameRow, SameMarks

-----------------------------------------------------------------------------
(* advance_migration keeps it *)

LEMMA BeginSafe ==
  ASSUME IInv, TypeOK', BeginAdvance
  PROVE  IInv'
<1> USE DEF chain, session
<1>1. mem = store /\ ~dirty /\ Live(store)
  BY DEF BeginAdvance, IInv, Control, Live, IsTerminal
<1>2. scanned \in Nat
  BY DriveAssumption DEF IInv, TypeOK
<1>3. Control'
  BY <1>1, <1>2, DriveAssumption DEF BeginAdvance, IInv, Control, InSession
<1>4. Swept' /\ Surfaced'
  BY DEF BeginAdvance, Swept, Surfaced
<1>5. Seen' /\ Told'
  BY DEF BeginAdvance, IInv, Seen, Told
<1> QED BY <1>3, <1>4, <1>5 DEF IInv

LEMMA SweepMinedSafe ==
  ASSUME IInv, TypeOK', SweepMined
  PROVE  IInv'
<1> USE DEF chain, session
<1>1. Control'
  BY DEF SweepMined, IInv, Control, InSession
<1>2. Swept' /\ Surfaced'
  BY DEF SweepMined, Swept, Surfaced
<1>3. Seen' /\ Told'
  BY DEF SweepMined, IInv, Seen, Told
<1> QED BY <1>1, <1>2, <1>3 DEF IInv

LEMMA SweepOracleSafe ==
  ASSUME IInv, TypeOK', SweepOracle
  PROVE  IInv'
<1> USE DEF chain, session
<1> DEFINE findings == {t \in Ids : /\ mem.st[t] = "Broadcast" /\ asked[t] = 0
                                    /\ ~IsMarked(mem, t) /\ RecordsADetermination(mem, t)}
           n == MarkMined(mem, asked)
<1>1. /\ mem' = MarkDirect(n, findings, Causes(mem), scanned)
      /\ dirty' = (findings # {} \/ asked # Zero) /\ pc = "swept"
      /\ UNCHANGED <<store, tgt, aside, step, chain, reorgs, crashes>>
      /\ \/ findings = {} /\ pc' = "report" /\ UNCHANGED <<ret, closeAt>>
         \/ findings # {} /\ pc' = "closing" /\ ret' = "report" /\ closeAt' = tgt.scan
  BY DEF SweepOracle
<1>2. findings \in SUBSET Ids /\ \A t \in findings : RecordsADetermination(mem, t)
  OBVIOUS
<1> HIDE DEF findings
<1>3. mem \in Migrations /\ asked \in [Ids -> Nat] /\ scanned \in Nat
  BY DriveAssumption DEF IInv, TypeOK
<1>4. Promoted(mem, asked, n)
  BY <1>3, MarkMinedIs
<1>5. asked = Zero => n = mem
  BY <1>3, NothingRecorded
<1> HIDE DEF n
<1>6. n \in Migrations
  BY <1>4 DEF Promoted
<1>7. MarkedDirect(n, findings, Causes(mem), scanned, mem')
  BY <1>1, <1>2, <1>3, <1>6, DirectMarks
<1>8. findings = {} => mem' = n
  BY <1>1, <1>6, NothingRecorded
<1>9. \A t \in Ids : asked[t] = IF mem.st[t] \in {"Broadcast", "Proved"} THEN chMined[t] ELSE 0
  BY <1>1 DEF IInv, Swept
<1>10. Truth(n, chMined, taken) /\ Live(n)
  <2>1. Live(mem) /\ Truth(mem, chMined, taken)
    BY <1>1 DEF IInv, Control, Told
  <2> QED BY <2>1, <1>3, <1>4, <1>9, TruthPromoted
<1>11. Truth(mem', chMined, taken) /\ Live(mem')
  <2>1. Truth(mem', chMined, taken)
    BY <1>3, <1>6, <1>7, <1>10, RecordedTruth
  <2>2. mem'.status = n.status
    BY <1>7 DEF MarkedDirect
  <2> QED BY <2>1, <2>2, <1>10 DEF Live
<1>12. Control'
  <2>1. mem = store /\ Live(store) /\ tgt.scan = scanned + 1 /\ tgt.scan <= tgt.eff
    BY <1>1 DEF IInv, Control, InSession
  <2>2. \A t \in Ids : mem'.st[t] = store.st[t] \/ mem'.st[t] = "Mined"
    BY <2>1, <1>4, <1>7 DEF Promoted, MarkedDirect, SameRow
  <2>3. ~dirty' => mem' = store'
    BY <2>1, <1>1, <1>5, <1>8
  <2> QED BY <2>1, <2>2, <2>3, <1>1, <1>11 DEF Control, InSession
<1>13. Swept'
  <2>1. \A t \in Ids : mem'.st[t] \in {"Broadcast", "Proved"} => chMined[t] = 0
    BY <1>4, <1>7, <1>9 DEF Promoted, MarkedDirect, SameRow
  <2> QED BY <2>1, <1>1 DEF Swept
<1>14. Surfaced'
  BY <1>1 DEF Surfaced
<1>15. Seen' /\ Told'
  BY <1>1, <1>11 DEF IInv, Seen, Told
<1> QED BY <1>12, <1>13, <1>14, <1>15 DEF IInv

LEMMA ClosePassSafe ==
  ASSUME IInv, TypeOK', ClosePass
  PROVE  IInv'
<1> USE DEF chain, session
<1>1. /\ pc = "closing" /\ UNCHANGED <<store, tgt, aside, asked, dirty, step, chain, reorgs, crashes>>
      /\ \/ mem' = InheritPass(mem, closeAt) /\ UNCHANGED <<pc, ret, closeAt>>
         \/ pc' = ret /\ ret' = "idle" /\ closeAt' = 0 /\ UNCHANGED mem
  BY DEF ClosePass
<1>2. mem \in Migrations /\ closeAt \in Nat /\ ret \in {"idle", "report", "plan", "persist"}
  BY DEF IInv, TypeOK
<1>3. /\ mem'.status = mem.status
      /\ \A t \in Ids : mem'.st[t] = mem.st[t] /\ mem'.mined[t] = mem.mined[t]
                        /\ (mem'.mark[t] = mem.mark[t] \/ mem.st[t] # "Mined")
  <2>1. CASE mem' = InheritPass(mem, closeAt)
    BY <2>1, <1>2, InheritPassIs DEF Passed, SameMarks, IsMined
  <2> QED BY <2>1, <1>1
<1>4. Truth(mem', chMined, taken) /\ Live(mem')
  <2>1. Live(mem) /\ Truth(mem, chMined, taken) /\ mem' \in Migrations
    BY <1>1 DEF IInv, Control, Told, TypeOK
  <2> QED BY <2>1, <1>2, <1>3, TruthMarks DEF Live
<1>5. Control'
  <2>1. /\ dirty /\ closeAt = scanned + 1 /\ ret # "idle" /\ (ret = "persist" => step.txs = {})
        /\ Live(store) /\ tgt.scan = scanned + 1 /\ tgt.scan <= tgt.eff
        /\ \A t \in Ids : mem.st[t] = store.st[t] \/ mem.st[t] = "Mined"
    BY <1>1 DEF IInv, Control, InSession
  <2> QED BY <2>1, <1>1, <1>2, <1>3, <1>4 DEF Control, InSession
<1>6. Swept'
  BY <1>1, <1>2, <1>3 DEF IInv, Swept, Control
<1>7. Surfaced'
  <2>1. ret = "persist" => step.txs = {}
    BY <1>1 DEF IInv, Control
  <2> QED BY <2>1, <1>1, <1>2 DEF Surfaced
<1>8. Seen' /\ Told'
  BY <1>1, <1>4 DEF IInv, Seen, Told
<1> QED BY <1>5, <1>6, <1>7, <1>8 DEF IInv

LEMMA AdjudicateSafe ==
  ASSUME IInv, TypeOK', Adjudicate
  PROVE  IInv'
<1> USE DEF chain, session
<1> DEFINE reported == {t \in Ids : ~IsTerminal(mem) /\ mem.report[t] # 0}
           ripe == {t \in reported : mem.report[t] <= scanned}
           verdicts == {t \in ripe : RecordsADetermination(mem, t)}
           found == IF verdicts = {} THEN {} ELSE Broadened(mem, verdicts)
           n == MarkDirect(mem, found, Causes(mem), scanned)
<1>1. /\ pc = "report" /\ UNCHANGED <<store, tgt, aside, asked, chain, reorgs, crashes>>
      /\ mem' = ClearBroadcastFailures(n, ripe)
      /\ dirty' = (dirty \/ ripe # {})
      /\ step' = Step("Reevaluate", {}) \/ step' = NoStep
      /\ \/ found = {} /\ pc' \in {"persist", "plan"} /\ UNCHANGED <<ret, closeAt>>
         \/ found # {} /\ pc' = "closing" /\ ret' \in {"persist", "plan"} /\ closeAt' = tgt.scan
  BY DEF Adjudicate
<1>2. mem \in Migrations /\ scanned \in Nat /\ dirty \in BOOLEAN
  BY DriveAssumption DEF IInv, TypeOK
<1>3. ripe = {} => found = {}
  OBVIOUS
<1>4. found \in SUBSET Ids /\ \A t \in found : RecordsADetermination(mem, t)
  <2>1. verdicts \in SUBSET Ids /\ \A t \in verdicts : RecordsADetermination(mem, t)
    OBVIOUS
  <2> HIDE DEF verdicts
  <2> QED BY <2>1, <1>2, BroadenedAre
<1> HIDE DEF found, ripe
<1>5. MarkedDirect(mem, found, Causes(mem), scanned, n)
  BY <1>2, <1>4, DirectMarks
<1>6. ripe = {} => mem' = mem
  BY <1>1, <1>2, <1>3, NothingRecorded
<1> HIDE DEF n
<1>7. n \in Migrations /\ Untouched(n, mem')
  <2>1. n \in Migrations
    BY <1>5 DEF MarkedDirect
  <2> QED BY <2>1, <1>1, ClearBroadcastFailuresIs
<1>8. /\ mem'.status = mem.status
      /\ \A t \in Ids : mem'.st[t] = mem.st[t]
  BY <1>5, <1>7 DEF MarkedDirect, Untouched, SameRows, SameRow
<1>9. Truth(mem', chMined, taken)
  <2>1. Truth(mem, chMined, taken)
    BY DEF IInv, Told
  <2>2. Truth(n, chMined, taken)
    BY <2>1, <1>2, <1>5, RecordedTruth
  <2> QED BY <2>2, <1>7, UntouchedTruth
<1>10. Control'
  <2>1. /\ ~dirty => mem = store
        /\ Live(store) /\ Live(mem) /\ tgt.scan = scanned + 1 /\ tgt.scan <= tgt.eff
        /\ \A t \in Ids : mem.st[t] = store.st[t] \/ mem.st[t] = "Mined"
    BY <1>1 DEF IInv, Control, InSession
  <2>2. step'.txs = {}
    BY <1>1 DEF Step, NoStep
  <2>3. ~dirty' => mem' = store'
    BY <2>1, <1>1, <1>2, <1>6
  <2>4. pc' = "closing" => dirty'
    BY <1>1, <1>2, <1>3
  <2>5. Live(mem')
    BY <2>1, <1>8 DEF Live
  <2> QED BY <2>1, <2>2, <2>3, <2>4, <2>5, <1>1, <1>8 DEF Control, InSession
<1>11. Swept'
  BY <1>1, <1>8 DEF IInv, Swept
<1>12. Surfaced'
  BY <1>1 DEF Surfaced, Step, NoStep
<1>13. Seen' /\ Told'
  BY <1>1, <1>9 DEF IInv, Seen, Told
<1> QED BY <1>10, <1>11, <1>12, <1>13 DEF IInv

LEMMA PlanSettleSafe ==
  ASSUME IInv, TypeOK', PlanSettle
  PROVE  IInv'
<1> USE DEF chain, session
<1>1. /\ pc = "plan" /\ pc' = "persist" /\ step'.txs = {}
      /\ UNCHANGED <<store, mem, ret, closeAt, tgt, aside, asked, dirty, chain, reorgs, crashes>>
  BY DEF PlanSettle
<1>2. Control' /\ Swept' /\ Surfaced'
  BY <1>1 DEF IInv, Control, InSession, Swept, Surfaced
<1>3. Seen' /\ Told'
  BY <1>1 DEF IInv, Seen, Told
<1> QED BY <1>2, <1>3 DEF IInv

LEMMA ShiftedCopy ==
  ASSUME IInv, PlanShift
  PROVE  Shifted(mem, mem')
<1> DEFINE s == NextStep(mem, tgt, aside)
<1>1. mem \in Migrations /\ tgt \in Targets /\ Tolerance \in Nat
  BY DriveAssumption DEF IInv, TypeOK
<1>2. Planned(mem, tgt, s)
  BY <1>1, NextStepIs
<1>3. s.txs # {} /\ NeedsShift(mem, s, tgt.eff) /\ mem' \in ShiftSchedule(mem, tgt.eff - MostOverdue(mem, s).sched)
  BY DEF PlanShift
<1> HIDE DEF s
<1>4. Late(mem, s)
  BY <1>1, <1>2, <1>3, MostOverdueIs DEF Planned
<1>5. tgt.eff - MostOverdue(mem, s).sched \in Nat
  BY <1>1, <1>3, <1>4 DEF NeedsShift, Late, Targets
<1> QED BY <1>1, <1>3, <1>5, ShiftScheduleIs

LEMMA PlanShiftSafe ==
  ASSUME IInv, TypeOK', PlanShift
  PROVE  IInv'
<1> USE DEF chain, session
<1>1. /\ pc = "plan" /\ dirty' = TRUE
      /\ UNCHANGED <<store, pc, ret, closeAt, tgt, aside, asked, step, chain, reorgs, crashes>>
  BY DEF PlanShift
<1>2. mem \in Migrations /\ Shifted(mem, mem')
  BY ShiftedCopy DEF IInv, TypeOK
<1>3. /\ mem' \in Migrations /\ mem'.status = mem.status
      /\ \A t \in Ids : mem'.st[t] = mem.st[t] /\ mem'.mined[t] = mem.mined[t] /\ mem'.mark[t] = mem.mark[t]
  BY <1>2 DEF Shifted, SameRows, SameRow, SameMarks
<1>4. Truth(mem', chMined, taken)
  <2>1. Truth(mem, chMined, taken)
    BY DEF IInv, Told
  <2> QED BY <2>1, <1>2, <1>3, TruthMarks
<1>5. Control'
  BY <1>1, <1>3 DEF IInv, Control, InSession, Live
<1>6. Swept' /\ Surfaced'
  BY <1>1, <1>3 DEF IInv, Swept, Surfaced
<1>7. Seen' /\ Told'
  BY <1>1, <1>4 DEF IInv, Seen, Told
<1> QED BY <1>5, <1>6, <1>7 DEF IInv

\* What is left of a planned step after its verification can be offered.
LEMMA VerifiedOffer ==
  ASSUME IInv, pc = "plan", NEW s, Planned(mem, tgt, s), s.kind = "Broadcast",
         ~NeedsShift(mem, s, tgt.eff), NEW t \in s.txs, ~RecordsADetermination(mem, t)
  PROVE  Offered(t)
<1>1. mem \in Migrations /\ tgt \in Targets /\ Tolerance \in Nat
  BY DriveAssumption DEF IInv, TypeOK
<1>2. t \in Ids
  BY DEF Planned
<1>3. Late(mem, s)
  BY <1>1, MostOverdueIs DEF Planned
<1>4. mem.sched[t] \in Nat
  BY <1>1, <1>2 DEF Migrations
<1>5. tgt.eff <= mem.sched[t] + Tolerance
  BY <1>1, <1>3, <1>4 DEF Late, NeedsShift, Targets
<1>6. ~SeenSpent(t)
  BY DEF RecordsADetermination, Answer
<1> QED BY <1>5, <1>6 DEF Offered, Planned

LEMMA PlanVerifySafe ==
  ASSUME IInv, TypeOK', PlanVerify
  PROVE  IInv'
<1> USE DEF chain, session
<1> DEFINE s == NextStep(mem, tgt, aside)
           found == {t \in s.txs : RecordsADetermination(mem, t)}
           deferred == {t \in s.txs : Answer(mem, t) = "NotYetSatisfiable"}
           kept == s.txs \ (deferred \cup found)
           more == Broadened(mem, found)
<1>1. /\ pc = "plan" /\ ~NeedsShift(mem, s, tgt.eff) /\ UNCHANGED <<store, tgt, asked, chain, reorgs, crashes>>
      /\ \/ /\ mem' = MarkDirect(mem, more, Causes(mem), scanned)
            /\ dirty' = TRUE /\ pc' = "closing" /\ ret' = "plan" /\ closeAt' = tgt.scan
            /\ UNCHANGED step
         \/ /\ step' = [s EXCEPT !.txs = kept] /\ pc' = "persist"
            /\ UNCHANGED <<mem, dirty, ret, closeAt>>
         \/ UNCHANGED <<mem, dirty, pc, ret, closeAt, step>>
  BY DEF PlanVerify
<1>2. mem \in Migrations /\ scanned \in Nat /\ tgt \in Targets /\ AnchorDepth \in Nat
  BY DriveAssumption, ParameterAssumption DEF IInv, TypeOK
<1>3. Planned(mem, tgt, s)
  BY <1>2, NextStepIs
<1> HIDE DEF s
<1>4. found \in SUBSET Ids /\ \A t \in found : RecordsADetermination(mem, t)
  BY <1>3 DEF Planned
<1>5. kept \subseteq s.txs /\ \A t \in kept : ~RecordsADetermination(mem, t)
  OBVIOUS
<1> HIDE DEF found, kept
<1>6. MarkedDirect(mem, more, Causes(mem), scanned, MarkDirect(mem, more, Causes(mem), scanned))
  BY <1>2, <1>4, BroadenedAre, DirectMarks
<1>7. /\ ~dirty => mem = store
      /\ Live(store) /\ Live(mem) /\ tgt.scan = scanned + 1 /\ tgt.scan <= tgt.eff
      /\ \A t \in Ids : mem.st[t] = store.st[t] \/ mem.st[t] = "Mined"
      /\ \A t \in Ids : mem.st[t] \in {"Broadcast", "Proved"} => chMined[t] = 0
  BY <1>1 DEF IInv, Control, InSession, Swept
<1>8. CASE /\ mem' = MarkDirect(mem, more, Causes(mem), scanned)
           /\ dirty' = TRUE /\ pc' = "closing" /\ ret' = "plan" /\ closeAt' = tgt.scan
           /\ UNCHANGED step
  <2>1. MarkedDirect(mem, more, Causes(mem), scanned, mem')
    BY <1>6, <1>8
  <2>2. mem'.status = mem.status /\ \A t \in Ids : mem'.st[t] = mem.st[t]
    BY <2>1 DEF MarkedDirect
  <2>3. Truth(mem', chMined, taken)
    <3>1. Truth(mem, chMined, taken)
      BY DEF IInv, Told
    <3> QED BY <3>1, <2>1, <1>2, RecordedTruth
  <2>4. Control'
    BY <1>1, <1>7, <1>8, <2>2 DEF Control, InSession, Live
  <2>5. Swept' /\ Surfaced'
    BY <1>1, <1>7, <1>8, <2>2 DEF Swept, Surfaced
  <2>6. Seen' /\ Told'
    BY <1>1, <2>3 DEF IInv, Seen, Told
  <2> QED BY <2>4, <2>5, <2>6 DEF IInv
<1>9. CASE /\ step' = [s EXCEPT !.txs = kept] /\ pc' = "persist"
           /\ UNCHANGED <<mem, dirty, ret, closeAt>>
  <2>1. step'.kind = s.kind /\ step'.txs = kept
    BY <1>3, <1>9 DEF Planned, Step
  <2>2. Control' /\ Swept'
    BY <1>1, <1>7, <1>9 DEF IInv, Control, InSession, Swept
  <2>3. s.kind = "Broadcast" => \A t \in kept : mem.st[t] = "Proved" /\ Offered(t)
    BY <1>1, <1>3, <1>5, VerifiedOffer DEF Planned
  <2>4. \A t \in kept : Offered(t) => Offered(t)'
    BY <1>1, <1>9 DEF Offered, SeenSpent
  <2>5. s.kind = "Prove" => \A t \in kept :
          /\ mem.st[t] = "Signed" /\ DepsMined(mem, t) /\ ~IsMarked(mem, t)
          /\ t \in Transfers => mem.bound[t] <= scanned
    <3>1. \A t \in Ids : mem.bound[t] \in Nat
      BY <1>2 DEF Migrations
    <3> QED BY <3>1, <1>2, <1>3, <1>5, <1>7 DEF Planned
  <2>6. s.kind = "Rebuild" => kept \subseteq Transfers /\ \A t \in kept : IsExpired(mem, t, tgt.scan)
    BY <1>3, <1>5 DEF Planned
  <2>7. Surfaced'
    BY <2>1, <2>3, <2>4, <2>5, <2>6, <1>1, <1>9 DEF Surfaced
  <2>8. Seen' /\ Told'
    BY <1>1, <1>9 DEF IInv, Seen, Told
  <2> QED BY <2>2, <2>7, <2>8 DEF IInv
<1>10. CASE UNCHANGED <<mem, dirty, pc, ret, closeAt, step>>
  <2>1. Control' /\ Swept' /\ Surfaced'
    BY <1>1, <1>7, <1>10 DEF IInv, Control, InSession, Swept, Surfaced
  <2>2. Seen' /\ Told'
    BY <1>1, <1>10 DEF IInv, Seen, Told
  <2> QED BY <2>1, <2>2 DEF IInv
<1> QED BY <1>1, <1>8, <1>9, <1>10

\* A consumer that lets go of its copy.
LEMMA IdleSafe ==
  ASSUME TypeOK', Release, mem' = store', Truth(store', chMined', taken'), Seen'
  PROVE  IInv'
<1>1. pc' = "idle" /\ dirty' = FALSE
  BY DEF Release
<1>2. Control' /\ Swept' /\ Surfaced'
  BY <1>1 DEF Control, InSession, Swept, Surfaced
<1> QED BY <1>1, <1>2 DEF IInv, Told

LEMMA PersistSafe ==
  ASSUME IInv, TypeOK', Persist
  PROVE  IInv'
<1> USE DEF chain, session
<1>1. pc = "persist" /\ store' = mem /\ UNCHANGED <<chain, reorgs, crashes>>
  BY DEF Persist, IInv, Control
<1>2. Truth(mem, chMined, taken)
  BY DEF IInv, Told
<1>3. CASE step.kind \in {"Prove", "Broadcast", "Rebuild", "Replan"}
  <2>1. pc' = "serve" /\ dirty' = FALSE /\ UNCHANGED <<mem, ret, closeAt, tgt, aside, asked, step>>
    BY <1>3 DEF Persist
  <2>2. Control'
    BY <1>1, <2>1 DEF IInv, Control, InSession, Live
  <2>3. Swept'
    BY <1>1, <2>1 DEF IInv, Swept
  <2>4. Surfaced'
    BY <1>1, <2>1 DEF IInv, Surfaced, Offered, SeenSpent
  <2>5. Seen' /\ Told'
    BY <1>1, <1>2, <2>1 DEF IInv, Seen, Told
  <2> QED BY <2>2, <2>3, <2>4, <2>5 DEF IInv
<1>4. CASE step.kind \notin {"Prove", "Broadcast", "Rebuild", "Replan"}
  <2>1. Release /\ mem' = store'
    BY <1>4 DEF Persist
  <2>2. Seen' /\ Truth(store', chMined', taken')
    BY <1>1, <1>2 DEF IInv, Seen
  <2> QED BY <2>1, <2>2, IdleSafe
<1> QED BY <1>3, <1>4

-----------------------------------------------------------------------------
(* Serving a step keeps it *)

\* What holds while a step is served.
LEMMA ServingIs ==
  ASSUME IInv, pc = "serve"
  PROVE  /\ mem = store /\ Live(mem) /\ ~dirty
         /\ tgt.scan = scanned + 1 /\ tgt.scan <= tgt.eff
         /\ Truth(mem, chMined, taken)
         /\ \A t \in Ids : mem.st[t] # "Mined" => chMined[t] = 0
         /\ \A t \in Ids : mem.st[t] = "Mined" => chMined[t] = mem.mined[t] /\ chMined[t] \in 1..scanned
         /\ \A t \in Ids : mem.st[t] # "Mined" => mem.mined[t] = 0
<1>1. mem = store /\ Live(mem) /\ ~dirty /\ tgt.scan = scanned + 1 /\ tgt.scan <= tgt.eff
  BY DEF IInv, Control, InSession
<1>2. Truth(mem, chMined, taken) /\ \A t \in Ids : RowTrue(mem, t, chMined, taken)
  BY <1>1 DEF IInv, Told, Truth
<1>3. ASSUME NEW t \in Ids, mem.st[t] # "Mined" PROVE chMined[t] = 0
  <2>1. mem.st[t] \in TxStates
    BY DEF IInv, TypeOK, Migrations
  <2>2. CASE mem.st[t] \in {"Broadcast", "Proved"}
    BY <2>2 DEF IInv, Swept
  <2>3. CASE mem.st[t] \in {"AwaitingSignature", "Signed"}
    BY <2>3, <1>2 DEF RowTrue
  <2> QED BY <2>1, <2>2, <2>3, <1>3 DEF TxStates
<1>4. \A t \in Ids : chMined[t] \in Nat /\ chMined[t] <= scanned
  <2>1. chMined \in [Ids -> Nat]
    BY DriveAssumption DEF IInv, TypeOK
  <2>2. Seen
    BY DEF IInv
  <2> QED BY <2>1, <2>2 DEF Seen
<1>5. \A t \in Ids : mem.st[t] = "Mined" => chMined[t] = mem.mined[t] /\ chMined[t] \in 1..scanned
  BY <1>2, <1>4, DriveAssumption DEF RowTrue, IInv, TypeOK
<1>6. \A t \in Ids : mem.st[t] # "Mined" => mem.mined[t] = 0
  BY <1>2 DEF RowTrue
<1> QED BY <1>1, <1>2, <1>3, <1>5, <1>6

\* The row stored for a transaction that was just proved.
LEMMA ProveSafe ==
  ASSUME IInv, TypeOK', NEW t \in Ids, Prove(t)
  PROVE  IInv'
<1> USE DEF chain, session
<1>1. /\ pc = "serve" /\ step.kind = "Prove" /\ t \in step.txs /\ mem.st[t] = "Signed"
      /\ UNCHANGED <<chain, reorgs, crashes>>
  BY DEF Prove, Serving
<1>2. mem \in Migrations /\ step.txs \subseteq Ids
  BY DEF IInv, TypeOK
<1>3. PICK b \in ProveBoundaries(mem, t) :
        Store(SetTransactionProved([mem EXCEPT !.bound[t] = b], t), step.txs \ {t})
  BY DEF Prove
<1> DEFINE n == SetTransactionProved([mem EXCEPT !.bound[t] = b], t)
<1>4. Moved(mem, t, "Proved", n) /\ n.status = mem.status
  BY <1>2, <1>3, ProveBoundariesAre, SetTransactionProvedIs
<1>5. Store(n, step.txs \ {t}) /\ store' = n /\ mem' = n
  BY <1>3 DEF Store
<1> HIDE DEF n
<1>6. Truth(mem, chMined, taken) /\ Live(mem)
      /\ \A u \in Ids : mem.st[u] # "Mined" => chMined[u] = 0
  BY <1>1, ServingIs
<1>7. Truth(n, chMined, taken)
  BY <1>1, <1>2, <1>4, <1>6, TruthMoved
<1>8. Seen'
  BY <1>1 DEF IInv, Seen
<1>9. CASE step.txs \ {t} = {}
  <2>1. Release
    BY <1>5, <1>9 DEF Store
  <2> QED BY <2>1, <1>1, <1>5, <1>7, <1>8, IdleSafe
<1>10. CASE step.txs \ {t} # {}
  <2>1. /\ step' = [step EXCEPT !.txs = step.txs \ {t}]
        /\ UNCHANGED <<pc, ret, closeAt, tgt, aside, asked, dirty>>
    BY <1>5, <1>10 DEF Store
  <2>2. step'.kind = "Prove" /\ step'.txs = step.txs \ {t}
    BY <2>1, <1>1 DEF IInv, TypeOK
  <2>3. Control'
    BY <2>1, <1>1, <1>4, <1>5 DEF IInv, Control, InSession, Live
  <2>4. Swept'
    <3>1. \A u \in Ids : n.st[u] \in {"Broadcast", "Proved"} => chMined[u] = 0
      BY <1>1, <1>4, <1>6 DEF Moved, SameRow
    <3> QED BY <3>1, <2>1, <1>1, <1>5 DEF Swept
  <2>5. ASSUME NEW u \in step.txs \ {t}
        PROVE  /\ n.st[u] = "Signed" /\ DepsMined(n, u) /\ ~IsMarked(n, u)
               /\ u \in Transfers => n.bound[u] <= scanned
    <3>1. /\ mem.st[u] = "Signed" /\ DepsMined(mem, u) /\ ~IsMarked(mem, u)
          /\ u \in Transfers => mem.bound[u] <= scanned
      BY <1>1 DEF IInv, Surfaced
    <3>2. u \in Ids \ {t} /\ Deps[u] \subseteq Ids
      BY <1>2, DepsAssumption DEF Ids
    <3>3. t \notin Deps[u]
      BY <3>1, <1>1 DEF DepsMined, IsMined
    <3> QED BY <3>1, <3>2, <3>3, <1>4 DEF Moved, SameRow, SameMarks, DepsMined, IsMined, IsMarked
  <2>6. Surfaced'
    BY <2>1, <2>2, <2>5, <1>1, <1>5 DEF Surfaced
  <2>7. Told'
    BY <1>1, <1>5, <1>7 DEF Told
  <2> QED BY <2>3, <2>4, <2>6, <2>7, <1>8 DEF IInv
<1> QED BY <1>9, <1>10

LEMMA ProveNotYetSafe ==
  ASSUME IInv, TypeOK', NEW t \in Ids, ProveNotYet(t)
  PROVE  IInv'
<1> USE DEF chain, session
<1>1. pc = "serve" /\ step.kind = "Prove" /\ UNCHANGED <<store, chain, reorgs, crashes>>
  BY DEF ProveNotYet, Serving
<1>2. Seen' /\ Truth(store', chMined', taken')
  BY <1>1 DEF IInv, Seen, Told
<1>3. CASE step.txs = {t}
  <2>1. Release /\ mem' = store'
    BY <1>1, <1>3 DEF ProveNotYet
  <2> QED BY <2>1, <1>2, IdleSafe
<1>4. CASE step.txs # {t}
  <2>1. /\ step' = [step EXCEPT !.txs = step.txs \ {t}]
        /\ UNCHANGED <<mem, pc, ret, closeAt, tgt, aside, asked, dirty>>
    BY <1>4 DEF ProveNotYet, IInv, TypeOK
  <2>2. step'.kind = "Prove" /\ step'.txs \subseteq step.txs
    BY <2>1, <1>1 DEF IInv, TypeOK
  <2>3. Control' /\ Swept'
    BY <2>1, <1>1 DEF IInv, Control, InSession, Swept
  <2>4. Surfaced'
    BY <2>1, <2>2, <1>1 DEF IInv, Surfaced
  <2>5. Told'
    BY <2>1, <1>1 DEF IInv, Told
  <2> QED BY <2>3, <2>4, <2>5, <1>2 DEF IInv
<1> QED BY <1>3, <1>4

\* What the refused proof records of its transaction.
LEMMA RefusedIs ==
  ASSUME TypeOK, NEW t \in Ids, ProveInputNotAvailable(t)
  PROVE  \E n \in Migrations :
           /\ n.status = mem.status /\ n.expiry = mem.expiry /\ SameRows(mem, n)
           /\ \A u \in Ids \ {t} : n.bound[u] = mem.bound[u]
           /\ MarkedDirect(n, {t}, [u \in Ids |-> "InputAbsent"], scanned, mem')
<1>1. PICK b \in ProveBoundaries(mem, t) :
        mem' = MarkDirect([mem EXCEPT !.bound[t] = b], {t}, [u \in Ids |-> "InputAbsent"], scanned)
  BY DEF ProveInputNotAvailable
<1>2. mem \in Migrations /\ scanned \in Nat
  BY DriveAssumption DEF TypeOK
<1>3. b \in Nat
  BY <1>2, ProveBoundariesAre
<1> DEFINE n == [mem EXCEPT !.bound[t] = b]
           k == [u \in Ids |-> "InputAbsent"]
<1>4. /\ n \in Migrations
      /\ n.status = mem.status /\ n.expiry = mem.expiry /\ SameRows(mem, n)
      /\ \A u \in Ids \ {t} : n.bound[u] = mem.bound[u]
  BY <1>2, <1>3 DEF Migrations, SameRows, SameRow, SameMarks
<1>5. \A u \in {t} \cap Ids : k[u] \in Kinds
  BY DEF Kinds
<1>6. mem' = MarkDirect(n, {t}, k, scanned)
  BY <1>1
<1> HIDE DEF n, k
<1>7. MarkedDirect(n, {t}, k, scanned, mem')
  BY <1>2, <1>4, <1>5, <1>6, MarkDirectIs
<1> QED BY <1>4, <1>7 DEF k

LEMMA ProveRefusedSafe ==
  ASSUME IInv, TypeOK', NEW t \in Ids, ProveInputNotAvailable(t)
  PROVE  IInv'
<1> USE DEF chain, session
<1>1. /\ pc = "serve" /\ pc' = "closing" /\ ret' = "persist" /\ closeAt' = scanned + 1
      /\ step' = NoStep /\ dirty' = TRUE
      /\ UNCHANGED <<store, tgt, aside, asked, chain, reorgs, crashes>>
  BY DEF ProveInputNotAvailable, Serving
<1>2. PICK n \in Migrations :
        /\ n.status = mem.status /\ SameRows(mem, n)
        /\ MarkedDirect(n, {t}, [u \in Ids |-> "InputAbsent"], scanned, mem')
  BY RefusedIs DEF IInv
<1>3. mem \in Migrations /\ scanned \in Nat
  BY DriveAssumption DEF IInv, TypeOK
<1>4. Truth(mem', chMined, taken)
  <2>1. Truth(mem, chMined, taken)
    BY DEF IInv, Told
  <2>2. Truth(n, chMined, taken)
    BY <2>1, <1>2, <1>3, TruthMarks DEF SameRows, SameRow, SameMarks
  <2> QED BY <2>2, <1>2, <1>3, RecordedTruth
<1>5. mem'.status = mem.status /\ \A u \in Ids : mem'.st[u] = mem.st[u]
  BY <1>2 DEF MarkedDirect, SameRows, SameRow
<1>6. Control'
  BY <1>1, <1>5 DEF IInv, Control, InSession, Live, NoStep, Step
<1>7. Swept' /\ Surfaced'
  BY <1>1, <1>5 DEF IInv, Swept, Surfaced
<1>8. Seen' /\ Told'
  BY <1>1, <1>4 DEF IInv, Seen, Told
<1> QED BY <1>6, <1>7, <1>8 DEF IInv

LEMMA TakeSafe ==
  ASSUME IInv, TypeOK', NEW t \in Ids, TakeForBroadcast(t)
  PROVE  IInv'
<1> USE DEF chain, session
<1>1. /\ pc = "serve" /\ step.kind = "Broadcast" /\ mem.st[t] = "Proved"
      /\ taken' = taken \cup {t} /\ store' = mem /\ pc' = "submit"
      /\ UNCHANGED <<mem, session, scanned, chMined, chSpent, ahead, linked, rival, displaced, reorgs, crashes>>
  BY DEF TakeForBroadcast, Serving
<1>2. mem \in Migrations /\ Truth(mem, chMined, taken)
  BY DEF IInv, TypeOK, Told
<1>3. Truth(mem, chMined, taken \cup {t})
  BY <1>1, <1>2, TruthTaken
<1>4. Control' /\ Swept'
  BY <1>1 DEF IInv, Control, InSession, Swept, Live
<1>5. Surfaced'
  BY <1>1 DEF IInv, Surfaced
<1>6. Seen' /\ Told'
  BY <1>1, <1>3 DEF IInv, Seen, Told
<1> QED BY <1>4, <1>5, <1>6 DEF IInv

LEMMA SubmittedIs ==
  ASSUME IInv, pc = "submit"
  PROVE  /\ mem \in Migrations /\ Live(mem) /\ Truth(mem, chMined, taken)
         /\ step.txs \subseteq Ids /\ \A t \in step.txs : mem.st[t] = "Proved"
BY DEF IInv, TypeOK, Control, Told, Surfaced

LEMMA SubmitSafe ==
  ASSUME IInv, TypeOK', SubmitAccepted \/ SubmitRejected
  PROVE  IInv'
<1> USE DEF chain, session
<1>1. pc = "submit" /\ UNCHANGED <<chain, reorgs, crashes>>
  BY DEF SubmitAccepted, SubmitRejected
<1>2. /\ mem \in Migrations /\ Live(mem) /\ Truth(mem, chMined, taken)
      /\ step.txs \subseteq Ids /\ \A t \in step.txs : mem.st[t] = "Proved"
  BY <1>1, SubmittedIs
<1>3. Seen'
  BY <1>1 DEF IInv, Seen
<1>4. SUFFICES ASSUME NEW n, Store(n, {}), Truth(n, chMined, taken) PROVE IInv'
  <2>1. CASE SubmitAccepted
    <3>1. PICK t \in step.txs : Store(MarkBroadcast(mem, t), {})
      BY <2>1 DEF SubmitAccepted
    <3> DEFINE n == MarkBroadcast(mem, t)
    <3>2. Moved(mem, t, "Broadcast", n) /\ n.status = Recomputed(mem.status, n.st)
      BY <1>2, MarkBroadcastIs
    <3> HIDE DEF n
    <3>3. Truth(n, chMined, taken)
      BY <3>2, <1>2, TruthMoved
    <3> QED BY <3>1, <3>3, <1>4 DEF n
  <2>2. CASE SubmitRejected
    <3>1. PICK t \in step.txs, lead \in 0..MaxLead :
            Store(ReportBroadcastFailure(mem, t, scanned + lead), {})
      BY <2>2 DEF SubmitRejected
    <3>2. scanned + lead \in Nat
      BY DriveAssumption DEF IInv, TypeOK
    <3> DEFINE n == ReportBroadcastFailure(mem, t, scanned + lead)
    <3>3. Untouched(mem, n)
      BY <3>2, <1>2, ReportBroadcastFailureIs
    <3> HIDE DEF n
    <3>4. Truth(n, chMined, taken)
      BY <3>3, <1>2, UntouchedTruth
    <3> QED BY <3>1, <3>4, <1>4 DEF n
  <2> QED BY <2>1, <2>2
<1>5. Release /\ mem' = store' /\ store' = n
  BY <1>4 DEF Store
<1> QED BY <1>1, <1>3, <1>4, <1>5, IdleSafe

LEMMA RebuildIs ==
  ASSUME TypeOK, NEW t \in Ids, Rebuild(t)
  PROVE  \E n : \E s \in {"AwaitingSignature", "Signed"} :
           Store(n, {}) /\ Rebuilt(mem, t, s, n)
<1> DEFINE target == Tip + 1
<1>t. target \in Nat
  BY TipIs, TypeParts
<1>1. PICK delay \in RebuildDelays, st \in InitStates :
        LET sched == RebuildBase(mem, target) + delay
        IN  \E b \in DrawableBoundaries(Max({1} \cup Funding(mem, t)), sched) :
              Store([mem EXCEPT !.sched[t] = sched, !.expiry[t] = sched + ExpiryWindow,
                                !.bound[t] = b, !.st[t] = st], {})
  BY DEF Rebuild
<1> HIDE DEF target
<1> DEFINE sched == RebuildBase(mem, target) + delay
           expiry == sched + ExpiryWindow
<1>2. PICK b \in DrawableBoundaries(Max({1} \cup Funding(mem, t)), sched) :
        Store([mem EXCEPT !.sched[t] = sched, !.expiry[t] = expiry, !.bound[t] = b, !.st[t] = st], {})
  BY <1>1
<1>3. mem \in Migrations
  BY DEF TypeOK
<1>4. sched \in Nat /\ expiry \in Nat /\ b \in Nat /\ st \in TxStates /\ st \in {"AwaitingSignature", "Signed"}
  BY <1>3, <1>t, DriveAssumption, RebuildBaseIs, DrawableAreHeights DEF TxStates
<1> DEFINE n == [mem EXCEPT !.sched[t] = sched, !.expiry[t] = expiry, !.bound[t] = b, !.st[t] = st]
<1>5. Store(n, {})
  BY <1>2
<1> HIDE DEF sched, expiry
<1>6. Rebuilt(mem, t, st, n)
  BY <1>3, <1>4, RebuiltIs
<1> HIDE DEF n
<1> QED BY <1>4, <1>5, <1>6

LEMMA RebuildSafe ==
  ASSUME IInv, TypeOK', NEW t \in Ids, Rebuild(t)
  PROVE  IInv'
<1> USE DEF chain
<1>1. /\ pc = "serve" /\ ~IsMined(mem, t) /\ taken' = taken \ {t}
      /\ UNCHANGED <<scanned, chMined, chSpent, ahead>>
  BY DEF Rebuild, Serving, IsExpired
<1>2. PICK n : \E s \in {"AwaitingSignature", "Signed"} :
        Store(n, {}) /\ Rebuilt(mem, t, s, n)
  BY RebuildIs DEF IInv
<1>3. PICK s \in {"AwaitingSignature", "Signed"} : Store(n, {}) /\ Rebuilt(mem, t, s, n)
  BY <1>2
<1>4. Truth(mem, chMined, taken) /\ chMined[t] = 0 /\ mem.st[t] # "Mined"
  BY <1>1, ServingIs DEF IsMined
<1>5. mem \in Migrations
  BY DEF IInv, TypeOK
<1>6. Truth(n, chMined, taken \ {t})
  BY <1>3, <1>4, <1>5, TruthRebuilt
<1>7. Release /\ mem' = store' /\ store' = n
  BY <1>3 DEF Store
<1>8. Seen'
  BY <1>1 DEF IInv, Seen
<1> QED BY <1>1, <1>6, <1>7, <1>8, IdleSafe

\* Giving up the step or the migration, and dying.
LEMMA GivingUpSafe ==
  ASSUME IInv, TypeOK', (\E t \in Ids : RebuildRefused(t)) \/ Supersede \/ Crash
  PROVE  IInv'
<1> USE DEF chain
<1>1. Seen' /\ chMined' = chMined /\ taken' = taken
  BY DEF IInv, Seen, RebuildRefused, Supersede, Crash
<1>2. CASE (\E t \in Ids : RebuildRefused(t)) \/ Crash
  <2>1. Release /\ mem' = store /\ store' = store
    BY <1>2 DEF RebuildRefused, Crash
  <2>2. Truth(store, chMined, taken)
    BY DEF IInv, Told
  <2> QED BY <2>1, <2>2, <1>1, IdleSafe
<1>3. CASE Supersede
  <2> DEFINE n == MarkSuperseded(mem)
  <2>1. Store(n, {})
    BY <1>3 DEF Supersede
  <2>2. mem \in Migrations /\ Truth(mem, chMined, taken)
    BY DEF IInv, TypeOK, Told
  <2>3. Ended(mem, n)
    BY <2>2, EndingIs
  <2> HIDE DEF n
  <2>4. Truth(n, chMined, taken)
    BY <2>2, <2>3, TruthEnded
  <2>5. Release /\ mem' = store' /\ store' = n
    BY <2>1 DEF Store
  <2> QED BY <2>4, <2>5, <1>1, IdleSafe
<1> QED BY <1>2, <1>3

-----------------------------------------------------------------------------
(* The wallet around it keeps it *)

LEMMA SignSafe ==
  ASSUME IInv, TypeOK', NEW t \in Ids, Sign(t)
  PROVE  IInv'
<1> USE DEF chain
<1>1. /\ store.st[t] = "AwaitingSignature" /\ Store(ApplySignature(store, t), {})
      /\ UNCHANGED <<chain, reorgs, crashes>>
  BY DEF Sign
<1>2. Release /\ mem' = store' /\ store' = ApplySignature(store, t)
  BY <1>1 DEF Store
<1>3. Truth(store', chMined, taken)
  BY <1>1, <1>2, TruthSigned DEF IInv, TypeOK, Told
<1>4. Seen'
  BY <1>1 DEF IInv, Seen
<1> QED BY <1>1, <1>2, <1>3, <1>4, IdleSafe

LEMMA PaySafe ==
  ASSUME IInv, TypeOK', NEW t \in Ids, Pay(t)
  PROVE  IInv'
<1> USE DEF session
<1>1. pc = "idle" /\ UNCHANGED <<store, mem, pc, session, scanned, chMined, chSpent, ahead, taken>>
  BY DEF Pay
<1>2. Control' /\ Swept' /\ Surfaced'
  BY <1>1 DEF IInv, Control, InSession, Swept, Surfaced
<1>3. Seen' /\ Told'
  BY <1>1 DEF IInv, Seen, Told
<1> QED BY <1>2, <1>3 DEF IInv

LEMMA ScanSafe ==
  ASSUME Serial, IInv, TypeOK', Scan
  PROVE  IInv'
<1> USE DEF session
<1>1. /\ pc \in {"idle", "submit"}
      /\ UNCHANGED <<store, mem, pc, session, taken, rival, displaced, reorgs, crashes>>
  BY ScanIs DEF Serial, IInv
<1>2. PICK top \in (scanned + 1)..MaxHeight :
        \E at \in [Ids -> {0} \cup (scanned + 1)..top], foreign \in SUBSET Ids :
          Scanned(at, foreign, top)
  BY ScanIs DEF IInv
<1>a. PICK at \in [Ids -> {0} \cup (scanned + 1)..top], foreign \in SUBSET Ids :
        Scanned(at, foreign, top)
  BY <1>2
<1>3. scanned \in Nat /\ top \in Nat /\ top > scanned
  BY DriveAssumption DEF IInv, TypeOK
<1>4. \A t \in Ids : chMined[t] \in Nat /\ chSpent[t] \in Nat /\ ahead.spent[t] \in Nat /\ at[t] \in {0} \cup (scanned + 1)..top
  BY DriveAssumption DEF IInv, TypeOK
<1>5. Seen'
  <2> SUFFICES ASSUME NEW t \in Ids
               PROVE  /\ chMined'[t] <= scanned' /\ chSpent'[t] <= scanned'
                      /\ ahead'.spent[t] # 0 => chMined'[t] = 0 /\ chSpent'[t] = 0
    BY DEF Seen
  <2>0. Seen
    BY DEF IInv
  <2>1. /\ chMined[t] <= scanned /\ chSpent[t] <= scanned
        /\ ahead.spent[t] # 0 => chMined[t] = 0 /\ chSpent[t] = 0
    BY <2>0 DEF Seen
  <2>2. /\ scanned' = top /\ chMined'[t] = IF at[t] # 0 THEN at[t] ELSE chMined[t]
        /\ chSpent'[t] = IF t \in foreign THEN scanned + 1
                         ELSE IF ahead.spent[t] \in (scanned + 1)..top THEN ahead.spent[t] ELSE chSpent[t]
        /\ ahead'.spent[t] = IF ahead.spent[t] > top THEN ahead.spent[t] ELSE 0
    BY <1>a DEF Scanned
  <2>3. /\ at[t] # 0 => ahead.spent[t] = 0
        /\ t \in foreign => ahead.spent[t] = 0
    BY <1>a DEF Scanned
  <2> QED BY <1>3, <1>4, <2>1, <2>2, <2>3
<1>6. \A t \in Ids : chMined'[t] = chMined[t] \/ (chMined[t] = 0 /\ t \in taken)
  BY <1>a DEF Scanned
<1>7. Truth(store, chMined', taken) /\ Truth(mem, chMined', taken)
  <2>1. store \in Migrations /\ mem \in Migrations /\ Told
    BY DEF IInv, TypeOK
  <2> DEFINE on2 == chMined'
  <2>2. \A t \in Ids : on2[t] = chMined[t] \/ (chMined[t] = 0 /\ t \in taken)
    BY <1>6
  <2> HIDE DEF on2
  <2>3. Truth(store, on2, taken) /\ Truth(mem, on2, taken)
    BY <2>1, <2>2, TruthScanned DEF Told
  <2> QED BY <2>3 DEF on2
<1>8. Control' /\ Swept' /\ Surfaced'
  BY <1>1 DEF IInv, Control, InSession, Swept, Surfaced
<1>9. Told'
  BY <1>1, <1>7 DEF Told
<1> QED BY <1>5, <1>8, <1>9 DEF IInv

LEMMA ScanAheadSafe ==
  ASSUME IInv, TypeOK', ScanAhead
  PROVE  IInv'
<1> USE DEF session
<1>1. /\ UNCHANGED <<store, mem, pc, session, scanned, chMined, chSpent, taken, linked, rival,
                     displaced, reorgs, crashes>>
      /\ \A t \in Ids : ahead'.spent[t] = ahead.spent[t] \/ (chMined[t] = 0 /\ chSpent[t] = 0)
  BY ScanAheadIs DEF IInv
<1>2. Control' /\ Swept' /\ Surfaced'
  BY <1>1 DEF IInv, Control, InSession, Swept, Surfaced, Offered, SeenSpent
<1>3. Seen' /\ Told'
  BY <1>1 DEF IInv, Seen, Told
<1> QED BY <1>2, <1>3 DEF IInv

LEMMA TruncateSafe ==
  ASSUME Serial, IInv, TypeOK', Truncate
  PROVE  IInv'
<1> USE DEF session
<1>1. /\ pc = "idle" /\ mem' = store' /\ UNCHANGED <<pc, session, taken, linked, crashes>>
  BY TruncateIs DEF Serial, IInv
<1>2. PICK h \in 1..MaxHeight, judged, gone \in SUBSET Transfers : RolledBack(h, judged, gone)
  BY TruncateIs DEF IInv
<1>h. h \in Nat /\ scanned \in Nat
  BY DriveAssumption DEF IInv, TypeOK
<1>3. store \in Migrations /\ chMined \in [Ids -> Nat] /\ Truth(store, chMined, taken)
  BY DriveAssumption DEF IInv, TypeOK, Told
<1>4. \A t \in Ids : chMined[t] \in Nat /\ chSpent[t] \in Nat /\ ahead.spent[t] \in Nat
  BY DriveAssumption DEF IInv, TypeOK
<1> DEFINE on2 == [t \in Ids |-> IF chMined[t] > h THEN 0 ELSE chMined[t]]
<1>5. Seen'
  <2> SUFFICES ASSUME NEW t \in Ids
               PROVE  /\ chMined'[t] <= scanned' /\ chSpent'[t] <= scanned'
                      /\ ahead'.spent[t] # 0 => chMined'[t] = 0 /\ chSpent'[t] = 0
    BY DEF Seen
  <2>0. Seen
    BY DEF IInv
  <2>1. /\ chMined[t] <= scanned /\ chSpent[t] <= scanned
        /\ ahead.spent[t] # 0 => chMined[t] = 0 /\ chSpent[t] = 0
    BY <2>0 DEF Seen
  <2>2. /\ scanned' = (IF h < scanned THEN h ELSE scanned)
        /\ chMined'[t] = (IF chMined[t] > h THEN 0 ELSE chMined[t])
        /\ chSpent'[t] = (IF chSpent[t] > h THEN 0 ELSE chSpent[t])
        /\ ahead'.spent[t] = (IF ahead.spent[t] > h THEN 0 ELSE ahead.spent[t])
    BY <1>2 DEF RolledBack
  <2> QED BY <1>h, <1>4, <2>1, <2>2
<1>6. Truth(store', on2, taken)
  <2>1. CASE Live(store)
    <3>1. store' = TruncateToHeight(store, h)
      BY <2>1, <1>2 DEF RolledBack, Live
    <3>2. Truncated(store, h, store')
      BY <3>1, <1>h, <1>3, TruncateToHeightIs
    <3> QED BY <3>2, <2>1, <1>h, <1>3, TruthTruncated
  <2>2. CASE ~Live(store)
    BY <2>2, <1>2 DEF RolledBack, Live, Truth
  <2> QED BY <2>1, <2>2
<1>7. Truth(store', chMined', taken')
  BY <1>1, <1>2, <1>6 DEF RolledBack
<1>8. Control' /\ Swept' /\ Surfaced'
  BY <1>1 DEF IInv, Control, InSession, Swept, Surfaced
<1> QED BY <1>1, <1>5, <1>7, <1>8 DEF IInv, Told

LEMMA CancelSafe ==
  ASSUME Serial, IInv, TypeOK', Cancel
  PROVE  IInv'
<1> USE DEF session, chain
<1>1. /\ pc = "idle" /\ store' = MarkCancelled(store) /\ mem' = store'
      /\ UNCHANGED <<pc, session, chain, reorgs, crashes>>
  BY DEF Cancel, Serial
<1>2. store \in Migrations /\ Truth(store, chMined, taken)
  BY DEF IInv, TypeOK, Told
<1>3. Truth(store', chMined, taken)
  BY <1>1, <1>2, EndingIs, TruthEnded
<1>4. Control' /\ Swept' /\ Surfaced'
  BY <1>1 DEF IInv, Control, InSession, Swept, Surfaced
<1>5. Seen' /\ Told'
  BY <1>1, <1>3 DEF IInv, Seen, Told
<1> QED BY <1>4, <1>5 DEF IInv

LEMMA SafeStep ==
  ASSUME Serial
  PROVE  IInv /\ [Next]_vars => IInv'
<1> SUFFICES ASSUME IInv, [Next]_vars PROVE IInv'
  OBVIOUS
<1>0. TypeOK'
  BY TypeStep DEF IInv
<1>1. CASE BeginAdvance
  BY <1>0, <1>1, BeginSafe
<1>2. CASE Advance
  <2>1. \/ SweepMined \/ SweepOracle \/ ClosePass \/ Adjudicate
        \/ PlanSettle \/ PlanShift \/ PlanVerify \/ Persist
    BY <1>2 DEF Advance
  <2> QED BY <2>1, <1>0, SweepMinedSafe, SweepOracleSafe, ClosePassSafe, AdjudicateSafe,
             PlanSettleSafe, PlanShiftSafe, PlanVerifySafe, PersistSafe
<1>3. CASE Serve
  <2>1. \/ \E t \in Ids : \/ Prove(t) \/ ProveNotYet(t) \/ ProveInputNotAvailable(t)
                         \/ TakeForBroadcast(t) \/ Rebuild(t)
        \/ (\E t \in Ids : RebuildRefused(t)) \/ Supersede \/ SubmitAccepted \/ SubmitRejected
    BY <1>3 DEF Serve
  <2>2. CASE \E t \in Ids : \/ Prove(t) \/ ProveNotYet(t) \/ ProveInputNotAvailable(t)
                           \/ TakeForBroadcast(t) \/ Rebuild(t)
    BY <2>2, <1>0, ProveSafe, ProveNotYetSafe, ProveRefusedSafe, TakeSafe, RebuildSafe
  <2>3. CASE (\E t \in Ids : RebuildRefused(t)) \/ Supersede
    BY <2>3, <1>0, GivingUpSafe
  <2>4. CASE SubmitAccepted \/ SubmitRejected
    BY <2>4, <1>0, SubmitSafe
  <2> QED BY <2>1, <2>2, <2>3, <2>4
<1>4. CASE (\E t \in Ids : Sign(t) \/ Pay(t)) \/ Crash
  BY <1>4, <1>0, SignSafe, PaySafe, GivingUpSafe
<1>5. CASE Scan \/ ScanAhead \/ Truncate \/ Cancel
  BY <1>5, <1>0, ScanSafe, ScanAheadSafe, TruncateSafe, CancelSafe
<1>6. CASE UNCHANGED vars
  <2> USE DEF vars, session, chain
  <2>1. Control' /\ Swept' /\ Surfaced'
    BY <1>6 DEF IInv, Control, InSession, Swept, Surfaced, Offered, SeenSpent
  <2>2. Seen' /\ Told'
    BY <1>6 DEF IInv, Seen, Told
  <2> QED BY <1>0, <2>1, <2>2 DEF IInv
<1> QED BY <1>1, <1>2, <1>3, <1>4, <1>5, <1>6 DEF Next

LEMMA Invariant ==
  ASSUME Serial
  PROVE  Spec => []IInv
<1>1. IInv /\ [Next]_vars => IInv'
  BY SafeStep
<1> QED BY <1>1, SafeInit, PTL DEF Spec

-----------------------------------------------------------------------------
(* What follows from it in every state                                     *)

\* In a serial wallet, whatever step advance_migration surfaces was planned knowing every
\* inclusion of the scanned chain: nothing proved or broadcast is on chain unnoticed, not
\* even a submission whose record a crash lost.
THEOREM SurfacedInFullKnowledge ==
  ASSUME Serial
  PROVE  Spec => []InclusionKnown
<1>1. IInv => InclusionKnown
  BY DEF IInv, Swept, InclusionKnown
<1> QED BY <1>1, Invariant, PTL

\* In a serial wallet, a transaction is handed out for broadcast no earlier than its
\* schedule and no later than the tolerance past it, whatever shifts the planning loop made.
THEOREM BroadcastsKeepTheSchedule ==
  ASSUME Serial
  PROVE  Spec => []NotServedLate
<1>1. IInv => NotServedLate
  BY DEF IInv, Surfaced, Offered, NotServedLate
<1> QED BY <1>1, Invariant, PTL

\* In a serial wallet, the stored migration claims no inclusion the scanned chain lacks and
\* is Complete exactly when all of it is mined, through crashes, reorgs and lost records.
\* (recompute_status calls a migration of no transactions not complete.)
THEOREM InclusionsAreTrue ==
  ASSUME Serial, Ids # {}
  PROVE  Spec => []MinedTruth
<1>1. IInv => MinedTruth
  <2> SUFFICES ASSUME IInv, Revisable PROVE MinedTruth
    BY DEF MinedTruth
  <2>1. /\ \A t \in Ids : RowTrue(store, t, chMined, taken)
        /\ store.status = "Complete" <=> AllMined(store)
    BY DEF IInv, Told, Truth, Live, Revisable
  <2> QED BY <2>1 DEF MinedTruth, RowTrue, AllMined, IsMined
<1> QED BY <1>1, Invariant, PTL

-----------------------------------------------------------------------------
(* What follows from it of every step                                      *)

LEMMA TakenChanges ==
  ASSUME [Next]_vars
  PROVE  \/ taken' = taken
         \/ \E t \in Ids : TakeForBroadcast(t) /\ taken' = taken \cup {t}
         \/ \E t \in Ids : Rebuild(t) /\ taken' = taken \ {t}
<1> USE DEF chain
<1>1. CASE BeginAdvance \/ Advance
  BY <1>1 DEF BeginAdvance, Advance, SweepMined, SweepOracle, ClosePass, Adjudicate, PlanSettle,
              PlanShift, PlanVerify, Persist
<1>2. CASE Serve
  BY <1>2 DEF Serve, Prove, ProveNotYet, ProveInputNotAvailable, TakeForBroadcast, Rebuild,
              RebuildRefused, SubmitAccepted, SubmitRejected, Supersede
<1>3. CASE (\E t \in Ids : Sign(t) \/ Pay(t)) \/ Crash \/ Scan \/ ScanAhead \/ Truncate \/ Cancel
  BY <1>3 DEF Sign, Pay, Crash, Scan, ScanAhead, Truncate, Cancel
<1>4. CASE UNCHANGED vars
  BY <1>4 DEF vars
<1> QED BY <1>1, <1>2, <1>3, <1>4 DEF Next

LEMMA OfferedIsLive ==
  ASSUME IInv, NEW t \in Ids, TakeForBroadcast(t)
  PROVE  /\ ~SeenSpent(t) /\ ~IsMarked(store, t) /\ ~IsExpired(store, t, scanned + 1)
         /\ \A d \in Deps[t] : chMined[d] # 0
<1>1. pc = "serve" /\ step.kind = "Broadcast" /\ t \in step.txs
  BY DEF TakeForBroadcast, Serving
<1>2. Offered(t)
  BY <1>1 DEF IInv, Surfaced
<1>3. /\ mem = store /\ tgt.scan = scanned + 1 /\ tgt.scan <= tgt.eff
      /\ \A u \in Ids : mem.st[u] = "Mined" => chMined[u] \in 1..scanned
  BY <1>1, ServingIs
<1>4. store.expiry[t] \in Nat /\ tgt.eff \in Nat /\ scanned \in Nat /\ tgt.scan \in Nat
  BY DriveAssumption DEF IInv, TypeOK, Migrations, Targets
<1>5. ~IsExpired(store, t, scanned + 1)
  BY <1>2, <1>3, <1>4 DEF Offered, IsExpired
<1>6. \A d \in Deps[t] : chMined[d] # 0
  <2>1. \A d \in Deps[t] : d \in Ids /\ mem.st[d] = "Mined"
    BY <1>2, DepsAssumption DEF Offered, DepsMined, IsMined, Ids
  <2> QED BY <2>1, <1>3
<1> QED BY <1>2, <1>3, <1>5, <1>6 DEF Offered

\* In a serial wallet, take_transaction_for_broadcast binds the wallet only to transactions
\* that can still mine: producers mined, inputs unspent, not expired, no mark.
THEOREM HandOutsAreLive ==
  ASSUME Serial
  PROVE  Spec => HandedOutLive
<1> DEFINE A == \A t \in taken' \ taken :
                  /\ ~SeenSpent(t) /\ ~IsMarked(store, t) /\ ~IsExpired(store, t, scanned + 1)
                  /\ \A d \in Deps[t] : chMined[d] # 0
<1>1. IInv /\ [Next]_vars => [A]_vars
  <2> SUFFICES ASSUME IInv, [Next]_vars PROVE A
    OBVIOUS
  <2> QED BY TakenChanges, OfferedIsLive
<1> HIDE DEF A
<1>2. Spec => [][A]_vars
  BY <1>1, Invariant, PTL DEF Spec
<1> QED BY <1>2 DEF HandedOutLive, A

LEMMA RebuiltIsDead ==
  ASSUME IInv, NEW t \in Ids, Rebuild(t)
  PROVE  chMined[t] = 0 /\ store.expiry[t] \in 1..scanned
<1>0. pc = "serve" /\ step.kind = "Rebuild" /\ t \in step.txs
  BY DEF Rebuild, Serving
<1>2. mem = store /\ tgt.scan = scanned + 1 /\ \A u \in Ids : mem.st[u] # "Mined" => chMined[u] = 0
  BY <1>0, ServingIs
<1>1. IsExpired(mem, t, scanned + 1)
  BY <1>0, <1>2 DEF IInv, Surfaced
<1>3. store.expiry[t] \in Nat /\ scanned \in Nat
  BY DriveAssumption DEF IInv, TypeOK, Migrations
<1> QED BY <1>1, <1>2, <1>3 DEF IsExpired, IsMined

\* In a serial wallet, rebuild_expired_transfer replaces an artifact only once it is past its
\* expiry and unmined on the scanned chain, even when a crash lost the record of its broadcast.
THEOREM RebuildsReplaceTheDead ==
  ASSUME Serial
  PROVE  Spec => RebuildReplacesDead
<1> DEFINE A == \A t \in taken \ taken' : chMined[t] = 0 /\ store.expiry[t] \in 1..scanned
<1>1. IInv /\ [Next]_vars => [A]_vars
  <2> SUFFICES ASSUME IInv, [Next]_vars PROVE A
    OBVIOUS
  <2> QED BY TakenChanges, RebuiltIsDead
<1> HIDE DEF A
<1>2. Spec => [][A]_vars
  BY <1>1, Invariant, PTL DEF Spec
<1> QED BY <1>2 DEF RebuildReplacesDead, A

LEMMA TerminalIsKept ==
  ASSUME IInv, [Next]_vars, ~Live(store)
  PROVE  store' = store
<1> USE DEF chain
<1>1. pc = "idle"
  BY DEF IInv, Control
<1>2. ~BeginAdvance /\ ~Cancel /\ \A t \in Ids : ~Sign(t)
  BY DEF BeginAdvance, Cancel, Sign, IsTerminal, Live
<1>3. ~Advance
  BY <1>1 DEF Advance, SweepMined, SweepOracle, ClosePass, Adjudicate, PlanSettle,
              PlanShift, PlanVerify, Persist
<1>4. ~Serve
  BY <1>1 DEF Serve, Serving, Prove, ProveNotYet, ProveInputNotAvailable, TakeForBroadcast, Rebuild,
              RebuildRefused, SubmitAccepted, SubmitRejected, Supersede
<1>5. CASE (\E t \in Ids : Pay(t)) \/ Crash \/ Scan \/ ScanAhead
  BY <1>5 DEF Pay, Crash, Scan, ScanAhead
<1>6. CASE Truncate
  BY <1>6 DEF Truncate, Live
<1>7. CASE UNCHANGED vars
  BY <1>7 DEF vars
<1> QED BY <1>2, <1>3, <1>4, <1>5, <1>6, <1>7 DEF Next

\* In a serial wallet, a cancelled, superseded or failed migration is never written again:
\* no session in flight, signature or rollback revives it.
THEOREM PolicyIsFinal ==
  ASSUME Serial
  PROVE  Spec => PolicyFinal
<1> DEFINE A == store.status \in PolicyTerminal => store' = store
<1>1. IInv /\ [Next]_vars => [A]_vars
  BY TerminalIsKept DEF Live
<1> HIDE DEF A
<1>2. Spec => [][A]_vars
  BY <1>1, Invariant, PTL DEF Spec
<1> QED BY <1>2 DEF PolicyFinal, A

-----------------------------------------------------------------------------
(* Proving *)

LEMMA BoundaryBelowIs ==
  ASSUME NEW h \in Nat
  PROVE  BoundaryBelow(h) \in Nat /\ BoundaryBelow(h) <= h
<1>1. AnchorInterval \in Nat \ {0}
  BY ParameterAssumption
<1> QED BY <1>1 DEF BoundaryBelow

\* The boundary a proof is made against is scanned, and its tree holds the funding notes.
LEMMA ProvedAgainst ==
  ASSUME IInv, NEW t \in Transfers, Prove(t)
  PROVE  /\ store'.bound[t] <= scanned
         /\ \A d \in Deps[t] : chMined[d] \in 1..store'.bound[t]
<1>1. pc = "serve" /\ step.kind = "Prove" /\ t \in step.txs /\ t \in Ids
  BY DEF Prove, Serving, Ids
<1>2. mem \in Migrations /\ scanned \in Nat /\ AnchorInterval \in Nat
  BY DriveAssumption, ParameterAssumption DEF IInv, TypeOK
<1>3. PICK b \in ProveBoundaries(mem, t) :
        Store(SetTransactionProved([mem EXCEPT !.bound[t] = b], t), step.txs \ {t})
  BY DEF Prove
<1>4. b \in Nat
  BY <1>1, <1>2, ProveBoundariesAre
<1>5. store'.bound[t] = b
  BY <1>1, <1>2, <1>3, <1>4, SetTransactionProvedIs DEF Store
<1>6. DepsMined(mem, t) /\ mem.bound[t] <= scanned
  BY <1>1 DEF IInv, Surfaced
<1>7. \A d \in Deps[t] : /\ d \in Ids /\ IsMined(mem, d)
                         /\ chMined[d] = mem.mined[d] /\ chMined[d] \in 1..scanned
  <2>1. \A d \in Deps[t] : d \in Ids /\ IsMined(mem, d)
    BY <1>1, <1>6, DepsAssumption DEF DepsMined, Ids
  <2> QED BY <2>1, <1>1, ServingIs DEF IsMined
<1> DEFINE F == Funding(mem, t)
<1>8. F \subseteq 1..scanned /\ \A d \in Deps[t] : chMined[d] \in F
  BY <1>7 DEF Funding
<1>9. CASE \E h \in F : h > mem.bound[t]
  <2>1. b \in DrawableBoundaries(Max(F), scanned)
    BY <1>3, <1>9 DEF ProveBoundaries
  <2>2. Max(F) \in F /\ \A n \in F : n <= Max(F)
    <3> HIDE DEF F
    <3>1. F \subseteq Nat /\ F # {} /\ \A n \in F : n <= scanned
      BY <1>8, <1>9, <1>2
    <3> QED BY <3>1, <1>2, MaxIs
  <2> HIDE DEF F
  <2>3. b >= Max(F) /\ b <= BoundaryBelow(scanned) - AnchorInterval
    BY <2>1, <1>4 DEF DrawableBoundaries
  <2>4. b <= scanned
    <3>1. BoundaryBelow(scanned) \in Nat /\ BoundaryBelow(scanned) <= scanned
      BY <1>2, BoundaryBelowIs
    <3> QED BY <3>1, <2>3, <1>2, <1>4
  <2>5. \A d \in Deps[t] : chMined[d] \in 1..b
    <3> DEFINE top == Max(F)
    <3>1. top \in F /\ (\A n \in F : n <= top) /\ b >= top
      BY <2>2, <2>3
    <3> HIDE DEF top
    <3>2. top \in 1..scanned /\ top \in Nat
      BY <3>1, <1>8, <1>2
    <3> QED BY <3>1, <3>2, <1>2, <1>4, <1>7, <1>8
  <2> QED BY <2>4, <2>5, <1>5
<1>10. CASE ~ \E h \in F : h > mem.bound[t]
  <2>1. b = mem.bound[t]
    BY <1>3, <1>10 DEF ProveBoundaries
  <2>2. \A d \in Deps[t] : chMined[d] \in 1..b
    <3>1. \A d \in Deps[t] : chMined[d] \in 1..scanned /\ ~(chMined[d] > b)
      BY <1>7, <1>8, <1>10, <2>1
    <3> QED BY <3>1, <1>2, <1>4
  <2> QED BY <2>1, <2>2, <1>5, <1>6
<1> QED BY <1>9, <1>10

LEMMA OnlyProveProves ==
  ASSUME IInv, [Next]_vars, NEW t \in Ids, store.st[t] = "Signed", store'.st[t] = "Proved"
  PROVE  Prove(t)
<1> USE DEF chain
<1>0. store \in Migrations /\ mem \in Migrations
  BY DEF IInv, TypeOK
<1>1. store' # store
  OBVIOUS
<1>2. CASE BeginAdvance \/ Advance
  <2>1. Persist /\ store' = mem
    BY <1>1, <1>2 DEF BeginAdvance, Advance, SweepMined, SweepOracle, ClosePass, Adjudicate,
              PlanSettle, PlanShift, PlanVerify, Persist
  <2> QED BY <2>1 DEF IInv, Control
<1>3. CASE Serve
  <2>0. mem = store
    <3>1. pc \in {"serve", "submit"}
      BY <1>3 DEF Serve, Serving, Prove, ProveNotYet, ProveInputNotAvailable, TakeForBroadcast,
              Rebuild, RebuildRefused, SubmitAccepted, SubmitRejected, Supersede
    <3> QED BY <3>1 DEF IInv, Control
  <2>1. ASSUME NEW u \in Ids, Prove(u) PROVE u = t
    <3>1. PICK b \in ProveBoundaries(mem, u) :
            Store(SetTransactionProved([mem EXCEPT !.bound[u] = b], u), step.txs \ {u})
      BY <2>1 DEF Prove
    <3>2. Moved(mem, u, "Proved", store')
      BY <3>1, <1>0, ProveBoundariesAre, SetTransactionProvedIs DEF Store
    <3> QED BY <3>2, <2>0 DEF Moved, SameRow
  <2>2. ASSUME NEW u \in Ids, Rebuild(u) PROVE FALSE
    <3>1. PICK n : \E s \in {"AwaitingSignature", "Signed"} : Store(n, {}) /\ Rebuilt(mem, u, s, n)
      BY <2>2, RebuildIs DEF IInv
    <3> QED BY <3>1, <2>0 DEF Store, Rebuilt, SameRow
  <2>3. ~SubmitAccepted /\ ~SubmitRejected
    <3>1. ASSUME SubmitAccepted PROVE FALSE
      <4>1. PICK u \in step.txs : Store(MarkBroadcast(mem, u), {})
        BY <3>1 DEF SubmitAccepted
      <4>2. u \in Ids
        BY DEF IInv, TypeOK
      <4>3. Moved(mem, u, "Broadcast", store')
        BY <4>1, <4>2, <1>0, MarkBroadcastIs DEF Store
      <4> QED BY <4>3, <2>0 DEF Moved, SameRow
    <3>2. ASSUME SubmitRejected PROVE FALSE
      <4>1. PICK u \in step.txs, lead \in 0..MaxLead :
              Store(ReportBroadcastFailure(mem, u, scanned + lead), {})
        BY <3>2 DEF SubmitRejected
      <4>2. u \in Ids /\ scanned + lead \in Nat
        BY DriveAssumption DEF IInv, TypeOK
      <4>3. Untouched(mem, store')
        BY <4>1, <4>2, <1>0, ReportBroadcastFailureIs DEF Store
      <4> QED BY <4>3, <2>0 DEF Untouched, SameRows, SameRow
    <3> QED BY <3>1, <3>2
  <2>4. ~Supersede
    <3>1. ASSUME Supersede PROVE FALSE
      <4>1. store' = MarkSuperseded(mem)
        BY <3>1 DEF Supersede, Store
      <4>2. Ended(mem, store')
        BY <4>1, <1>0, EndingIs
      <4> QED BY <4>2, <2>0 DEF Ended, SameRows, SameRow
    <3> QED BY <3>1
  <2>5. \A u \in Ids : ~ProveNotYet(u) /\ ~ProveInputNotAvailable(u) /\ ~TakeForBroadcast(u)
                     /\ ~RebuildRefused(u)
    BY <2>0, <1>1 DEF ProveNotYet, ProveInputNotAvailable, TakeForBroadcast, RebuildRefused
  <2> QED BY <1>3, <2>1, <2>2, <2>3, <2>4, <2>5 DEF Serve
<1>4. ~Crash /\ ~Scan /\ ~ScanAhead /\ \A u \in Ids : ~Pay(u)
  BY <1>1 DEF Pay, Crash, Scan, ScanAhead
<1>5. ASSUME NEW u \in Ids, Sign(u) PROVE FALSE
  <2>1. store' = ApplySignature(store, u)
    BY <1>5 DEF Sign, Store
  <2> QED BY <2>1, <1>0, ApplySignatureIs DEF SameRow
<1>6. ~Truncate
  <2>1. ASSUME Truncate PROVE FALSE
    <3>1. PICK h \in Nat : store' = TruncateToHeight(store, h)
      BY <2>1, <1>1, TruncateIs DEF RolledBack, IInv
    <3>2. Truncated(store, h, store')
      BY <3>1, <1>0, TruncateToHeightIs
    <3> QED BY <3>2 DEF Truncated
  <2> QED BY <2>1
<1>7. ~Cancel
  <2>1. ASSUME Cancel PROVE FALSE
    <3>1. Ended(store, store')
      BY <2>1, <1>0, EndingIs DEF Cancel
    <3> QED BY <3>1 DEF Ended, SameRows, SameRow
  <2> QED BY <2>1
<1>8. ~UNCHANGED vars
  BY <1>1 DEF vars
<1> QED BY <1>2, <1>3, <1>4, <1>5, <1>6, <1>7, <1>8 DEF Next

\* In a serial wallet, prove_transfer proves only against a scanned boundary whose tree
\* already holds every funding note of the transfer, re-drawing the boundary when the note
\* was mined above the one drawn at commit.
THEOREM ProofsAreAnchored ==
  ASSUME Serial
  PROVE  Spec => ProvedAnchored
<1> DEFINE A == \A t \in Transfers :
                  (store.st[t] = "Signed" /\ store'.st[t] = "Proved") =>
                     /\ store'.bound[t] <= scanned
                     /\ \A d \in Deps[t] : chMined[d] \in 1..store'.bound[t]
<1>1. IInv /\ [Next]_vars => [A]_vars
  <2> SUFFICES ASSUME IInv, [Next]_vars, NEW t \in Transfers,
                      store.st[t] = "Signed", store'.st[t] = "Proved"
               PROVE  /\ store'.bound[t] <= scanned
                      /\ \A d \in Deps[t] : chMined[d] \in 1..store'.bound[t]
    OBVIOUS
  <2>1. t \in Ids
    BY DEF Ids
  <2> QED BY <2>1, OnlyProveProves, ProvedAgainst
<1> HIDE DEF A
<1>2. Spec => [][A]_vars
  BY <1>1, Invariant, PTL DEF Spec
<1> QED BY <1>2 DEF ProvedAnchored, A

-----------------------------------------------------------------------------
(* Steps that record no death and discover none                            *)

\* Marks, inclusions and the expiries of producers are as they were, a marked transaction
\* signed or broadcast stays so, and a broadcast one keeps its anchor.
Kept(m, n) ==
  /\ n \in Migrations /\ (Live(n) => Live(m))
  /\ \A t \in Ids : /\ SameMarks(m, n, t) /\ (IsMined(n, t) <=> IsMined(m, t))
                    /\ t \in Preparations => n.expiry[t] = m.expiry[t]
                    /\ IsMarked(m, t) /\ m.st[t] \in {"Signed", "Broadcast"} => n.st[t] = m.st[t]
                    /\ IsMarked(m, t) /\ m.st[t] = "Broadcast" => n.bound[t] = m.bound[t]

LEMMA KeptItself == ASSUME NEW m \in Migrations PROVE Kept(m, m)
BY DEF Kept, SameMarks

LEMMA UntouchedKept ==
  ASSUME NEW m \in Migrations, NEW n, Untouched(m, n)
  PROVE  Kept(m, n)
BY DEF Untouched, Kept, SamePlan, SameRows, SameRow, IsMined, Live

LEMMA MovedKept ==
  ASSUME NEW m \in Migrations, NEW n, NEW t \in Ids, NEW s \in {"Broadcast", "Proved"},
         Moved(m, t, s, n), m.st[t] \in {"Signed", "Proved"}, Live(m),
         m.st[t] = "Signed" => ~IsMarked(m, t)
  PROVE  Kept(m, n)
BY DEF Moved, Kept, SameRow, IsMined

LEMMA EndedKept ==
  ASSUME NEW m \in Migrations, NEW n, Ended(m, n)
  PROVE  Kept(m, n)
BY DEF Ended, Kept, SamePlan, SameRows, SameRow, IsMined, Live, PolicyTerminal

LEMMA ShiftedKept ==
  ASSUME NEW m \in Migrations, NEW n, Shifted(m, n)
  PROVE  Kept(m, n)
BY DEF Shifted, Kept, SameRows, SameRow, IsMined, Live

LEMMA RebuiltKept ==
  ASSUME NEW m \in Migrations, NEW n, NEW t \in Transfers,
         NEW s \in {"AwaitingSignature", "Signed"},
         Rebuilt(m, t, s, n), ~IsMarked(m, t), ~IsMined(m, t)
  PROVE  Kept(m, n)
<1>1. t \notin Preparations /\ t \in Ids
  BY IdsAssumption DEF Ids
<1> QED BY <1>1 DEF Rebuilt, Kept, SameRow, IsMined, Live

LEMMA SignedKept ==
  ASSUME NEW m \in Migrations, NEW t \in Ids, m.st[t] = "AwaitingSignature"
  PROVE  Kept(m, ApplySignature(m, t))
<1> DEFINE n == ApplySignature(m, t)
<1>1. /\ n \in Migrations /\ SamePlan(m, n) /\ n.status = m.status
      /\ \A u \in Ids \ {t} : SameRow(m, n, u)
      /\ n.st[t] = "Signed" /\ n.mined[t] = m.mined[t] /\ SameMarks(m, n, t)
  BY ApplySignatureIs
<1> HIDE DEF n
<1>2. Kept(m, n)
  BY <1>1 DEF Kept, SamePlan, SameRow, IsMined, Live
<1> QED BY <1>2 DEF n

\* Neither chain nor marks move; an anchor is only forgotten with an unmarked artifact.
Quiet ==
  /\ scanned' = scanned /\ chMined' = chMined /\ chSpent' = chSpent /\ reorgs' = reorgs
  /\ displaced' \subseteq displaced
  /\ \A t \in displaced \ displaced' : ~IsMarked(store, t) /\ ~IsMarked(mem, t)
  /\ Kept(store, store') \/ (Kept(mem, store') /\ pc # "closing")
  /\ \/ Kept(store, mem') /\ pc' # "closing"
     \/ Kept(mem, mem') /\ (pc = "closing" <=> pc' = "closing")

LEMMA ServedQuietly ==
  ASSUME IInv, pc \in {"serve", "submit"}, NEW n, NEW rest, Store(n, rest), Kept(mem, n),
         scanned' = scanned, chMined' = chMined, chSpent' = chSpent, reorgs' = reorgs,
         displaced' = displaced
  PROVE  Quiet
<1>1. store' = n /\ mem' = n /\ pc' # "closing"
  BY DEF Store, Release
<1> QED BY <1>1 DEF Quiet

LEMMA AdvanceQuietly ==
  ASSUME IInv, TypeOK',
         BeginAdvance \/ SweepMined \/ PlanSettle \/ PlanShift \/ Persist
  PROVE  Quiet
<1> USE DEF chain
<1>0. Kept(store, store) /\ Kept(mem, mem)
  BY KeptItself DEF IInv, TypeOK
<1>1. CASE BeginAdvance
  BY <1>0, <1>1 DEF BeginAdvance, Quiet
<1>2. CASE SweepMined
  BY <1>0, <1>2 DEF SweepMined, Quiet
<1>3. CASE PlanSettle
  BY <1>0, <1>3 DEF PlanSettle, Quiet
<1>4. CASE PlanShift
  <2>1. Kept(mem, mem')
    BY <1>4, ShiftedCopy, ShiftedKept DEF IInv, TypeOK
  <2>2. pc = "plan" /\ UNCHANGED <<store, pc, chain, reorgs>>
    BY <1>4 DEF PlanShift
  <2> QED BY <1>0, <2>1, <2>2 DEF Quiet
<1>5. CASE Persist
  <2>1. pc = "persist" /\ store' = mem /\ UNCHANGED <<chain, reorgs>>
    BY <1>5 DEF Persist, IInv, Control
  <2>2. mem' = mem /\ pc' # "closing"
    BY <1>5, <2>1 DEF Persist, Release
  <2> QED BY <1>0, <2>1, <2>2 DEF Quiet
<1> QED BY <1>1, <1>2, <1>3, <1>4, <1>5

LEMMA ServeQuietly ==
  ASSUME IInv, TypeOK', Serve, \A t \in Ids : ~ProveInputNotAvailable(t)
  PROVE  Quiet
<1> USE DEF chain
<1>0. mem \in Migrations /\ Kept(store, store) /\ Kept(mem, mem) /\ step.txs \subseteq Ids
  BY KeptItself DEF IInv, TypeOK
<1>1. ASSUME NEW t \in Ids, Prove(t) PROVE Quiet
  <2>1. /\ pc = "serve" /\ step.kind = "Prove" /\ t \in step.txs
        /\ mem.st[t] = "Signed" /\ UNCHANGED <<chain, reorgs>>
    BY <1>1 DEF Prove, Serving
  <2>a. ~IsMarked(mem, t)
    BY <2>1 DEF IInv, Surfaced
  <2>2. PICK b \in ProveBoundaries(mem, t) :
          Store(SetTransactionProved([mem EXCEPT !.bound[t] = b], t), step.txs \ {t})
    BY <1>1 DEF Prove
  <2> DEFINE n == SetTransactionProved([mem EXCEPT !.bound[t] = b], t)
  <2>3. Moved(mem, t, "Proved", n)
    BY <1>0, <2>2, ProveBoundariesAre, SetTransactionProvedIs
  <2>4. Store(n, step.txs \ {t})
    BY <2>2
  <2> HIDE DEF n
  <2>5. Live(mem)
    BY <2>1, ServingIs
  <2>6. Kept(mem, n)
    BY <1>0, <2>1, <2>3, <2>5, <2>a, MovedKept
  <2> QED BY <2>1, <2>4, <2>6, ServedQuietly
<1>2. ASSUME NEW t \in Ids, ProveNotYet(t) PROVE Quiet
  <2>1. pc = "serve" /\ UNCHANGED <<store, chain, reorgs>>
    BY <1>2 DEF ProveNotYet, Serving
  <2>2. \/ mem' = store /\ pc' = "idle"
        \/ mem' = mem /\ pc' = "serve"
    BY <1>2, <2>1 DEF ProveNotYet, Release
  <2> QED BY <1>0, <2>1, <2>2 DEF Quiet
<1>3. ASSUME NEW t \in Ids, TakeForBroadcast(t) PROVE Quiet
  BY <1>0, <1>3 DEF TakeForBroadcast, Serving, Quiet
<1>4. ASSUME NEW t \in Ids, Rebuild(t) PROVE Quiet
  <2>1. /\ pc = "serve" /\ step.kind = "Rebuild" /\ t \in step.txs
        /\ ~IsMarked(mem, t) /\ ~IsMined(mem, t) /\ displaced' = displaced \ {t}
        /\ UNCHANGED <<scanned, chMined, chSpent, linked, reorgs, crashes>>
    BY <1>4 DEF Rebuild, Serving, IsExpired
  <2>2. mem = store /\ t \in Transfers
    BY <2>1, ServingIs DEF IInv, Surfaced
  <2>3. PICK n : \E s \in {"AwaitingSignature", "Signed"} : Store(n, {}) /\ Rebuilt(mem, t, s, n)
    BY <1>4, RebuildIs DEF IInv
  <2>4. Kept(mem, n)
    BY <1>0, <2>1, <2>2, <2>3, RebuiltKept
  <2>5. store' = n /\ mem' = n /\ pc' # "closing"
    BY <2>3 DEF Store, Release
  <2> QED BY <2>1, <2>2, <2>4, <2>5 DEF Quiet
<1>5. ASSUME NEW t \in Ids, RebuildRefused(t) PROVE Quiet
  BY <1>0, <1>5 DEF RebuildRefused, Release, Quiet
<1>6. CASE SubmitAccepted \/ SubmitRejected
  <2>1. pc = "submit" /\ UNCHANGED <<chain, reorgs>>
    BY <1>6 DEF SubmitAccepted, SubmitRejected
  <2>2. Live(mem) /\ \A t \in step.txs : mem.st[t] = "Proved"
    BY <2>1, SubmittedIs
  <2>3. CASE SubmitAccepted
    <3>1. PICK t \in step.txs : Store(MarkBroadcast(mem, t), {})
      BY <2>3 DEF SubmitAccepted
    <3> DEFINE n == MarkBroadcast(mem, t)
    <3>2. Moved(mem, t, "Broadcast", n)
      BY <1>0, MarkBroadcastIs
    <3>3. Store(n, {})
      BY <3>1
    <3> HIDE DEF n
    <3>4. Kept(mem, n)
      BY <1>0, <2>2, <3>2, MovedKept
    <3> QED BY <2>1, <3>3, <3>4, ServedQuietly
  <2>4. CASE SubmitRejected
    <3>1. PICK t \in step.txs, lead \in 0..MaxLead :
            Store(ReportBroadcastFailure(mem, t, scanned + lead), {})
      BY <2>4 DEF SubmitRejected
    <3> DEFINE n == ReportBroadcastFailure(mem, t, scanned + lead)
    <3>2. scanned + lead \in Nat
      BY DriveAssumption DEF IInv, TypeOK
    <3>3. Untouched(mem, n)
      BY <1>0, <3>2, ReportBroadcastFailureIs
    <3>4. Store(n, {})
      BY <3>1
    <3> HIDE DEF n
    <3>5. Kept(mem, n)
      BY <1>0, <3>3, UntouchedKept
    <3> QED BY <2>1, <3>4, <3>5, ServedQuietly
  <2> QED BY <1>6, <2>3, <2>4
<1>7. CASE Supersede
  <2> DEFINE n == MarkSuperseded(mem)
  <2>1. pc = "serve" /\ Store(n, {}) /\ UNCHANGED <<chain, reorgs>>
    BY <1>7 DEF Supersede
  <2>2. Ended(mem, n)
    BY <1>0, EndingIs
  <2> HIDE DEF n
  <2>3. Kept(mem, n)
    BY <1>0, <2>2, EndedKept
  <2> QED BY <2>1, <2>3, ServedQuietly
<1> QED BY <1>1, <1>2, <1>3, <1>4, <1>5, <1>6, <1>7 DEF Serve

LEMMA OthersQuietly ==
  ASSUME Serial, IInv, TypeOK',
         (\E t \in Ids : Sign(t) \/ Pay(t)) \/ Crash \/ ScanAhead \/ Cancel \/ UNCHANGED vars
  PROVE  Quiet
<1> USE DEF chain
<1>0. store \in Migrations /\ Kept(store, store) /\ Kept(mem, mem)
  BY KeptItself DEF IInv, TypeOK
<1>1. ASSUME NEW t \in Ids, Sign(t) PROVE Quiet
  <2>1. /\ pc = "idle" /\ store.st[t] = "AwaitingSignature" /\ UNCHANGED <<chain, reorgs>>
        /\ store' = ApplySignature(store, t) /\ mem' = store' /\ pc' = "idle"
    BY <1>1 DEF Sign, Store, Release
  <2>2. Kept(store, store')
    BY <1>0, <2>1, SignedKept
  <2> QED BY <2>1, <2>2 DEF Quiet
<1>2. ASSUME NEW t \in Ids, Pay(t) PROVE Quiet
  BY <1>0, <1>2 DEF Pay, Quiet
<1>3. CASE Crash
  BY <1>0, <1>3 DEF Crash, Release, Quiet
<1>4. CASE Cancel
  <2>1. /\ pc = "idle" /\ pc' = pc /\ UNCHANGED <<chain, reorgs>>
        /\ store' = MarkCancelled(store) /\ mem' = store'
    BY <1>4 DEF Cancel, Serial
  <2>2. Kept(store, store')
    BY <1>0, <2>1, EndingIs, EndedKept
  <2> QED BY <2>1, <2>2 DEF Quiet
<1>5. CASE UNCHANGED vars
  BY <1>0, <1>5 DEF vars, Quiet
<1>6. CASE ScanAhead
  BY <1>0, <1>6 DEF ScanAhead, Quiet
<1> QED BY <1>1, <1>2, <1>3, <1>4, <1>5, <1>6

\* Every other step records a death, or moves the chain.
LEMMA QuietOrNot ==
  ASSUME Serial, IInv, TypeOK', [Next]_vars
  PROVE  \/ Quiet \/ SweepOracle \/ ClosePass \/ Adjudicate \/ PlanVerify
         \/ (\E t \in Ids : ProveInputNotAvailable(t)) \/ Scan \/ Truncate
<1>1. CASE BeginAdvance \/ Advance
  BY <1>1, AdvanceQuietly DEF Advance
<1>2. CASE Serve
  BY <1>2, ServeQuietly
<1>3. CASE (\E t \in Ids : Sign(t) \/ Pay(t)) \/ Crash \/ ScanAhead \/ Cancel \/ UNCHANGED vars
  BY <1>3, OthersQuietly
<1> QED BY <1>1, <1>2, <1>3 DEF Next

-----------------------------------------------------------------------------
(* Steps that record a death                                               *)

LEMMA KeptTwice ==
  ASSUME NEW l, NEW m, NEW n, Kept(l, m), Kept(m, n)
  PROVE  Kept(l, n)
BY DEF Kept, SameMarks, IsMarked

\* While a migration is judged, what its copy does not call mined is not on the chain.
LEMMA JudgedIs ==
  ASSUME IInv, pc \in {"swept", "report", "closing", "plan", "persist", "serve"}
  PROVE  /\ Live(store) /\ Live(mem)
         /\ \A t \in Ids : mem.st[t] \in {"AwaitingSignature", "Signed"} => chMined[t] = 0
         /\ \A t \in Ids : IsMined(mem, t) => chMined[t] # 0 /\ mem.mark[t] = 0
         /\ pc # "swept" => \A t \in Ids : ~IsMined(mem, t) => chMined[t] = 0
<1>1. Live(store) /\ Live(mem)
  BY DEF IInv, Control
<1>2. \A t \in Ids : RowTrue(mem, t, chMined, taken)
  BY <1>1 DEF IInv, Told, Truth
<1>3. \A t \in Ids : mem.st[t] \in TxStates
  BY DEF IInv, TypeOK, Migrations
<1>4. pc # "swept" => \A t \in Ids : mem.st[t] \in {"Broadcast", "Proved"} => chMined[t] = 0
  BY DEF IInv, Swept
<1> QED BY <1>1, <1>2, <1>3, <1>4 DEF RowTrue, IsMined, TxStates

\* The deaths that are about to be recorded against m, and what speaks for them: the
\* chain, or a prover to whom every producer was mined.
Justified(m, S, k) ==
  \A t \in S :
     \/ IsMined(m, t)
     \/ k[t] = "InputsSpent" /\ chSpent[t] \in 1..scanned
     \/ /\ k[t] = "InputAbsent" /\ m.st[t] = "Signed"
        /\ \A d \in Deps[t] : chMined[d] \in 1..scanned
     \/ /\ k[t] = "AnchorInvalidated" /\ t \in displaced
        /\ m.st[t] = "Broadcast" /\ m.bound[t] <= scanned

\* The consumer records them in its copy, and closes them over the dependents.
Discovered(m) ==
  /\ store' = store /\ UNCHANGED <<chain, reorgs>>
  /\ \E S, k, n : /\ S \subseteq Ids /\ MarkedDirect(m, S, k, scanned, n) /\ Justified(m, S, k)
                 /\ Kept(n, mem') /\ (S # {} => pc' = "closing")

LEMMA CausesAreJustified ==
  ASSUME IInv, NEW S \in SUBSET Ids,
         \A t \in S : RecordsADetermination(mem, t) /\ (chMined[t] = 0 \/ IsMined(mem, t))
  PROVE  Justified(mem, S, Causes(mem))
<1> SUFFICES ASSUME NEW t \in S, ~IsMined(mem, t)
             PROVE  \/ Answer(mem, t) = "InputsSpent" /\ chSpent[t] \in 1..scanned
                    \/ /\ Answer(mem, t) = "AnchorInvalidated" /\ t \in displaced
                       /\ mem.st[t] = "Broadcast" /\ mem.bound[t] <= scanned
  BY DEF Justified, Causes
<1>1. chSpent[t] \in Nat /\ chSpent[t] <= scanned /\ scanned \in Nat
  BY DriveAssumption DEF IInv, TypeOK, Seen
<1>2. CASE SeenSpent(t)
  <2>1. Answer(mem, t) = "InputsSpent"
    BY <1>2 DEF Answer
  <2>2. chSpent[t] # 0
    BY <1>2 DEF SeenSpent
  <2> QED BY <2>1, <2>2, <1>1
<1>3. CASE ~SeenSpent(t)
  <2>1. Answer(mem, t) = "AnchorInvalidated" /\ AnchorDisplaced(mem, t)
    BY <1>3 DEF RecordsADetermination, Answer
  <2> QED BY <2>1 DEF AnchorDisplaced
<1> QED BY <1>2, <1>3

LEMMA SweepDiscovers ==
  ASSUME IInv, SweepOracle
  PROVE  \E p \in Migrations : /\ Promoted(mem, asked, p) /\ Discovered(p)
                              /\ \A t \in Ids : asked[t] # 0 => chMined[t] # 0
<1> USE DEF chain
<1> DEFINE findings == {t \in Ids : /\ mem.st[t] = "Broadcast" /\ asked[t] = 0
                                    /\ ~IsMarked(mem, t) /\ RecordsADetermination(mem, t)}
           p == MarkMined(mem, asked)
           n == MarkDirect(p, findings, Causes(mem), scanned)
<1>1. /\ pc = "swept" /\ mem' = n /\ UNCHANGED <<store, chain, reorgs>>
      /\ findings # {} => pc' = "closing"
  BY DEF SweepOracle
<1>2. mem \in Migrations /\ asked \in [Ids -> Nat] /\ scanned \in Nat
  BY DriveAssumption DEF IInv, TypeOK
<1>3. \A t \in Ids : asked[t] = IF mem.st[t] \in {"Broadcast", "Proved"} THEN chMined[t] ELSE 0
  BY <1>1 DEF IInv, Swept
<1>4. Promoted(mem, asked, p)
  BY <1>2, MarkMinedIs
<1>5. /\ findings \in SUBSET Ids
      /\ \A t \in findings : /\ RecordsADetermination(mem, t) /\ asked[t] = 0
                             /\ mem.st[t] = "Broadcast"
  OBVIOUS
<1> HIDE DEF findings, p
<1>6. p \in Migrations
  BY <1>4 DEF Promoted
<1>7. MarkedDirect(p, findings, Causes(mem), scanned, n)
  BY <1>2, <1>5, <1>6, DirectMarks
<1> HIDE DEF n
<1>8. Justified(mem, findings, Causes(mem))
  <2>1. \A t \in findings : chMined[t] = 0
    BY <1>3, <1>5
  <2> QED BY <2>1, <1>5, CausesAreJustified
<1>9. \A t \in findings : p.st[t] = mem.st[t] /\ p.bound[t] = mem.bound[t]
  BY <1>4, <1>5 DEF Promoted, SameRow, SamePlan
<1>10. Justified(p, findings, Causes(mem))
  BY <1>8, <1>9 DEF Justified, IsMined
<1>11. Kept(n, mem')
  BY <1>1, <1>7, KeptItself DEF MarkedDirect
<1>12. Discovered(p)
  BY <1>1, <1>5, <1>7, <1>10, <1>11 DEF Discovered
<1> QED BY <1>3, <1>4, <1>6, <1>12

LEMMA AdjudicateDiscovers ==
  ASSUME IInv, Adjudicate
  PROVE  Discovered(mem)
<1> USE DEF chain
<1> DEFINE reported == {t \in Ids : ~IsTerminal(mem) /\ mem.report[t] # 0}
           ripe == {t \in reported : mem.report[t] <= scanned}
           verdicts == {t \in ripe : RecordsADetermination(mem, t)}
           found == IF verdicts = {} THEN {} ELSE Broadened(mem, verdicts)
           n == MarkDirect(mem, found, Causes(mem), scanned)
<1>1. /\ pc = "report" /\ UNCHANGED <<store, chain, reorgs>>
      /\ mem' = ClearBroadcastFailures(n, ripe) /\ (found # {} => pc' = "closing")
  BY DEF Adjudicate
<1>2. mem \in Migrations /\ scanned \in Nat
  BY DriveAssumption DEF IInv, TypeOK
<1>3. found \in SUBSET Ids /\ \A t \in found : RecordsADetermination(mem, t)
  <2>1. verdicts \in SUBSET Ids /\ \A t \in verdicts : RecordsADetermination(mem, t)
    OBVIOUS
  <2> HIDE DEF verdicts
  <2> QED BY <2>1, <1>2, BroadenedAre
<1> HIDE DEF found, ripe
<1>4. MarkedDirect(mem, found, Causes(mem), scanned, n)
  BY <1>2, <1>3, DirectMarks
<1> HIDE DEF n
<1>5. Kept(n, mem')
  <2>1. n \in Migrations
    BY <1>4 DEF MarkedDirect
  <2> QED BY <2>1, <1>1, ClearBroadcastFailuresIs, UntouchedKept
<1>6. Justified(mem, found, Causes(mem))
  <2>1. \A t \in Ids : chMined[t] = 0 \/ IsMined(mem, t)
    BY <1>1, JudgedIs
  <2> QED BY <2>1, <1>3, CausesAreJustified
<1> QED BY <1>1, <1>3, <1>4, <1>5, <1>6 DEF Discovered

LEMMA VerifyDiscovers ==
  ASSUME IInv, TypeOK', PlanVerify
  PROVE  Discovered(mem)
<1> USE DEF chain
<1> DEFINE s == NextStep(mem, tgt, aside)
           found == {t \in s.txs : RecordsADetermination(mem, t)}
           more == Broadened(mem, found)
           n == MarkDirect(mem, more, Causes(mem), scanned)
<1>1. /\ pc = "plan" /\ UNCHANGED <<store, chain, reorgs>>
      /\ \/ mem' = n /\ pc' = "closing"
         \/ mem' = mem
  BY DEF PlanVerify
<1>2. mem \in Migrations /\ scanned \in Nat /\ tgt \in Targets
  BY DriveAssumption DEF IInv, TypeOK
<1>3. Planned(mem, tgt, s)
  BY <1>2, NextStepIs
<1> HIDE DEF s
<1>4. found \in SUBSET Ids /\ \A t \in found : RecordsADetermination(mem, t)
  BY <1>3 DEF Planned
<1> HIDE DEF found
<1>5. more \in SUBSET Ids /\ \A t \in more : RecordsADetermination(mem, t)
  BY <1>2, <1>4, BroadenedAre
<1> HIDE DEF more
<1>6. CASE mem' = n /\ pc' = "closing"
  <2>1. MarkedDirect(mem, more, Causes(mem), scanned, n)
    BY <1>2, <1>5, DirectMarks
  <2> HIDE DEF n
  <2>2. Kept(n, mem')
    BY <2>1, <1>6, KeptItself DEF MarkedDirect
  <2>3. Justified(mem, more, Causes(mem))
    <3>1. \A t \in Ids : chMined[t] = 0 \/ IsMined(mem, t)
      BY <1>1, JudgedIs
    <3> QED BY <3>1, <1>5, CausesAreJustified
  <2> QED BY <2>1, <2>2, <2>3, <1>1, <1>5, <1>6 DEF Discovered
<1>7. CASE mem' = mem
  <2> DEFINE l == MarkDirect(mem, {}, Causes(mem), scanned)
  <2>1. MarkedDirect(mem, {}, Causes(mem), scanned, l)
    BY <1>2, DirectMarks
  <2>2. l = mem
    BY <1>2, NothingRecorded
  <2> HIDE DEF l
  <2>3. Kept(l, mem')
    BY <2>2, <1>2, <1>7, KeptItself
  <2>4. Justified(mem, {}, Causes(mem))
    BY DEF Justified
  <2> QED BY <2>1, <2>3, <2>4, <1>1 DEF Discovered
<1> QED BY <1>1, <1>6, <1>7

-----------------------------------------------------------------------------
(* The durable closure stays closed                                        *)

\* Short of a reorg the row is closed, and the copy but while it is being closed.
ClosedSoFar ==
  reorgs = 0 => /\ Live(store) => Closed(store)
                /\ Live(mem) /\ pc # "closing" => Closed(mem)

LEMMA KeptClosed ==
  ASSUME NEW m, NEW n, Kept(m, n), Closed(m)
  PROVE  Closed(n)
<1>1. \A t \in Ids : Deps[t] \subseteq Ids
  BY DepsAssumption DEF Ids
<1> QED BY <1>1 DEF Kept, Closed, SameMarks, IsMarked

LEMMA PromotedClosed ==
  ASSUME NEW m, NEW n, NEW at, Promoted(m, at, n), Closed(m)
  PROVE  Closed(n)
<1>1. \A t \in Ids : Deps[t] \subseteq Ids
  BY DepsAssumption DEF Ids
<1> QED BY <1>1 DEF Promoted, Closed, SameRow, SameMarks, IsMarked, IsMined

\* A discovery that is not closed over its dependents found nothing.
LEMMA NothingDiscovered ==
  ASSUME NEW m \in Migrations, Discovered(m), pc' # "closing"
  PROVE  Kept(m, mem')
<1>1. PICK S, k, n : /\ MarkedDirect(m, S, k, scanned, n) /\ Kept(n, mem') /\ S = {}
  BY DEF Discovered
<1>2. Kept(m, n)
  BY <1>1 DEF MarkedDirect, Kept, SamePlan, IsMined, Live
<1> QED BY <1>1, <1>2, KeptTwice

\* The loop stops only when every dead producer has handed its death on.
LEMMA FixpointIsClosed ==
  ASSUME NEW m, NEW target, Inheritors(m, target) = {},
         \A t \in Ids : IsMined(m, t) => m.mark[t] = 0
  PROVE  Closed(m)
<1> SUFFICES ASSUME NEW t \in Ids, ~IsMined(m, t), NEW d \in Deps[t], IsMarked(m, d)
             PROVE  IsMarked(m, t)
  BY DEF Closed
<1>1. d \in Ids /\ ~IsMined(m, d)
  BY DepsAssumption DEF Ids, IsMarked
<1>2. m.mark[d] \in DepStamps(m, d, target)
  BY <1>1 DEF DepStamps
<1>3. InheritStamps(m, t, target) # {}
  BY <1>2 DEF InheritStamps
<1> QED BY <1>3 DEF Inheritors

LEMMA ClosedInit == Init => ClosedSoFar
<1> SUFFICES ASSUME Init PROVE ClosedSoFar
  OBVIOUS
<1>1. mem = store /\ store.mark = Zero
  BY DEF Init
<1>2. \A t \in Ids : Deps[t] \subseteq Ids
  BY DepsAssumption DEF Ids
<1> QED BY <1>1, <1>2 DEF ClosedSoFar, Closed, IsMarked, Zero

LEMMA ClosedStep ==
  ASSUME Serial
  PROVE  IInv /\ IInv' /\ ClosedSoFar /\ [Next]_vars => ClosedSoFar'
<1> SUFFICES ASSUME IInv, IInv', ClosedSoFar, [Next]_vars, reorgs' = 0
             PROVE  /\ Live(store') => Closed(store')
                    /\ Live(mem') /\ pc' # "closing" => Closed(mem')
  BY DEF ClosedSoFar, Closed, Live, IsMined, IsMarked
<1>0. TypeOK' /\ mem \in Migrations
  BY DEF IInv, TypeOK
<1>1. CASE Quiet
  <2>1. reorgs = 0
    BY <1>1 DEF Quiet
  <2>2. ASSUME Live(store') PROVE Closed(store')
    <3>1. CASE Kept(store, store')
      BY <2>1, <2>2, <3>1, KeptClosed DEF ClosedSoFar, Kept
    <3>2. CASE Kept(mem, store') /\ pc # "closing"
      BY <2>1, <2>2, <3>2, KeptClosed DEF ClosedSoFar, Kept
    <3> QED BY <3>1, <3>2, <1>1 DEF Quiet
  <2>3. ASSUME Live(mem'), pc' # "closing" PROVE Closed(mem')
    <3>1. CASE Kept(store, mem')
      BY <2>1, <2>3, <3>1, KeptClosed DEF ClosedSoFar, Kept
    <3>2. CASE Kept(mem, mem') /\ pc # "closing"
      BY <2>1, <2>3, <3>2, KeptClosed DEF ClosedSoFar, Kept
    <3> QED BY <3>1, <3>2, <2>3, <1>1 DEF Quiet
  <2> QED BY <2>2, <2>3
<1>2. ASSUME NEW m \in Migrations, Discovered(m), reorgs = 0 => Closed(m)
      PROVE  /\ Live(store') => Closed(store')
             /\ Live(mem') /\ pc' # "closing" => Closed(mem')
  <2>1. store' = store /\ reorgs = 0
    BY <1>2 DEF Discovered
  <2>2. pc' # "closing" => Closed(mem')
    BY <1>2, <2>1, NothingDiscovered, KeptClosed
  <2> QED BY <2>1, <2>2 DEF ClosedSoFar
<1>3. CASE SweepOracle
  <2>1. PICK p \in Migrations : Promoted(mem, asked, p) /\ Discovered(p)
    BY <1>3, SweepDiscovers
  <2>2. pc = "swept" /\ Live(mem)
    BY <1>3, JudgedIs DEF SweepOracle
  <2>3. reorgs = 0 => Closed(p)
    BY <2>1, <2>2, PromotedClosed DEF ClosedSoFar
  <2> QED BY <2>1, <2>3, <1>2
<1>4. CASE Adjudicate \/ PlanVerify
  <2>1. Discovered(mem) /\ pc \in {"report", "plan"}
    BY <1>0, <1>4, AdjudicateDiscovers, VerifyDiscovers DEF Adjudicate, PlanVerify
  <2>2. reorgs = 0 => Closed(mem)
    BY <2>1, JudgedIs DEF ClosedSoFar
  <2> QED BY <2>1, <2>2, <1>0, <1>2
<1>5. CASE ClosePass
  <2>1. /\ pc = "closing" /\ store' = store /\ reorgs = 0
        /\ pc' # "closing" => mem' = mem /\ Inheritors(mem, closeAt) = {}
    BY <1>5 DEF ClosePass
  <2>2. pc' # "closing" => Closed(mem')
    BY <2>1, JudgedIs, FixpointIsClosed
  <2> QED BY <2>1, <2>2 DEF ClosedSoFar
<1>6. ASSUME NEW t \in Ids, ProveInputNotAvailable(t)
      PROVE  /\ Live(store') => Closed(store')
             /\ Live(mem') /\ pc' # "closing" => Closed(mem')
  BY <1>6 DEF ProveInputNotAvailable, ClosedSoFar
<1>7. CASE Scan
  <2>1. UNCHANGED <<store, mem, pc, reorgs>>
    BY <1>7 DEF Scan
  <2> QED BY <2>1 DEF ClosedSoFar
<1>8. CASE Truncate
  <2>1. reorgs' = reorgs + 1 /\ reorgs \in Nat
    BY <1>8, DriveAssumption DEF Truncate, IInv, TypeOK
  <2> QED BY <2>1
<1> QED BY <1>0, <1>1, <1>3, <1>4, <1>5, <1>6, <1>7, <1>8, QuietOrNot

\* In a serial wallet and short of a reorg, record_satisfiability's durable closure stays
\* closed: no promotion, rebuild, refused proof, crash or later discovery leaves an unmarked
\* dependent beside a marked producer.  (After a reorg it may be open: see
\* ClosureSurvivesReorg.)
THEOREM DurableClosureIsClosed ==
  ASSUME Serial
  PROVE  Spec => []MarksClosed
<1>1. IInv /\ IInv' /\ ClosedSoFar /\ [Next]_vars => ClosedSoFar'
  BY ClosedStep
<1>2. ClosedSoFar => MarksClosed
  BY DEF ClosedSoFar, MarksClosed, Revisable, Live
<1> QED BY <1>1, <1>2, ClosedInit, Invariant, PTL DEF Spec

-----------------------------------------------------------------------------
(* What a mark rests on: `tip' is the scanned height, `on' where the       *)
(* transactions are mined, `spent' where their inputs are seen spent,      *)
(* `lost' the transfers whose anchor is gone.                              *)

RowBacked(m, t, tip, on, spent, lost) ==
  /\ m.mark[t] <= tip /\ (m.mark[t] = 0 <=> m.kind[t] = "None")
  /\ m.kind[t] = "InputsSpent" => spent[t] \in 1..m.mark[t]
  /\ m.kind[t] = "InputAbsent" =>
       m.st[t] = "Signed" /\ \A d \in Deps[t] : on[d] \in 1..m.mark[t]
  /\ m.kind[t] = "AnchorInvalidated" =>
       t \in lost /\ m.bound[t] <= m.mark[t] /\ m.st[t] = "Broadcast"

Backed(m, tip, on, spent, lost) == Live(m) => \A t \in Ids : RowBacked(m, t, tip, on, spent, lost)

\* A producer of t is unmined on the chain and dead at or below t's own stamp.
HasDeadProducer(m, t, on, spent) ==
  \E d \in Deps[t] : /\ on[d] = 0
                     /\ \/ m.expiry[d] \in 1..m.mark[t]
                        \/ spent[d] \in 1..m.mark[t]
                        \/ m.kind[d] \in {"InputAbsent", "Inherited"} /\ m.mark[d] <= m.mark[t]

Inherits(m, on, spent) ==
  Live(m) => \A t \in Ids : m.kind[t] = "Inherited" => HasDeadProducer(m, t, on, spent)

LEMMA BackedKept ==
  ASSUME NEW m, NEW n, NEW tip, NEW on, NEW spent, NEW lost, NEW lost2, Kept(m, n),
         Backed(m, tip, on, spent, lost),
         \A t \in Ids : t \in lost /\ IsMarked(m, t) => t \in lost2
  PROVE  Backed(n, tip, on, spent, lost2)
<1> SUFFICES ASSUME Live(n), NEW t \in Ids PROVE RowBacked(n, t, tip, on, spent, lost2)
  BY DEF Backed
<1>1. RowBacked(m, t, tip, on, spent, lost) /\ SameMarks(m, n, t)
  BY DEF Kept, Backed
<1>2. /\ IsMarked(m, t) /\ m.st[t] \in {"Signed", "Broadcast"} => n.st[t] = m.st[t]
      /\ IsMarked(m, t) /\ m.st[t] = "Broadcast" => n.bound[t] = m.bound[t]
  BY DEF Kept
<1> QED BY <1>1, <1>2 DEF RowBacked, SameMarks, IsMarked

LEMMA InheritsKept ==
  ASSUME NEW m, NEW n, NEW on, NEW spent, Kept(m, n), Inherits(m, on, spent)
  PROVE  Inherits(n, on, spent)
<1> SUFFICES ASSUME Live(n), NEW t \in Ids, n.kind[t] = "Inherited"
             PROVE  HasDeadProducer(n, t, on, spent)
  BY DEF Inherits
<1>1. HasDeadProducer(m, t, on, spent) /\ SameMarks(m, n, t)
  BY DEF Kept, Inherits, SameMarks
<1>2. \A d \in Deps[t] : n.expiry[d] = m.expiry[d] /\ SameMarks(m, n, d)
  BY DepsAssumption DEF Kept, Ids
<1> QED BY <1>1, <1>2 DEF HasDeadProducer, SameMarks

LEMMA BackedPromoted ==
  ASSUME NEW m \in Migrations, NEW n, NEW at, NEW tip \in Nat, NEW on, NEW spent, NEW lost,
         Promoted(m, at, n), Backed(m, tip, on, spent, lost)
  PROVE  Backed(n, tip, on, spent, lost)
<1>1. Live(n) => Live(m)
  BY DEF Promoted, Live, Recomputed
<1> SUFFICES ASSUME Live(n), NEW t \in Ids PROVE RowBacked(n, t, tip, on, spent, lost)
  BY DEF Backed
<1>2. RowBacked(m, t, tip, on, spent, lost)
  BY <1>1 DEF Backed
<1>3. CASE at[t] # 0
  BY <1>3 DEF Promoted, RowBacked
<1>4. CASE at[t] = 0
  BY <1>2, <1>4 DEF Promoted, RowBacked, SameRow, SameMarks, SamePlan
<1> QED BY <1>3, <1>4

LEMMA InheritsPromoted ==
  ASSUME NEW m \in Migrations, NEW n, NEW at, NEW on, NEW spent,
         Promoted(m, at, n), Inherits(m, on, spent), \A t \in Ids : at[t] # 0 => on[t] # 0
  PROVE  Inherits(n, on, spent)
<1>1. Live(n) => Live(m)
  BY DEF Promoted, Live, Recomputed
<1> SUFFICES ASSUME Live(n), NEW t \in Ids, n.kind[t] = "Inherited"
             PROVE  HasDeadProducer(n, t, on, spent)
  BY DEF Inherits
<1>2. at[t] = 0 /\ SameMarks(m, n, t)
  BY DEF Promoted, SameRow
<1>3. HasDeadProducer(m, t, on, spent)
  BY <1>1, <1>2 DEF Inherits, SameMarks
<1>4. \A d \in Deps[t] : d \in Ids /\ n.expiry[d] = m.expiry[d]
  BY DepsAssumption DEF Promoted, SamePlan, Ids
<1>5. \A d \in Deps[t] : on[d] = 0 => SameMarks(m, n, d)
  BY <1>4 DEF Promoted, SameRow
<1> QED BY <1>2, <1>3, <1>4, <1>5 DEF HasDeadProducer, SameMarks

\* Direct marks: first observations at the scanned height, of deaths the chain shows.
LEMMA BackedDirect ==
  ASSUME IInv, NEW m, NEW n, NEW S, NEW k, MarkedDirect(m, S, k, scanned, n), Justified(m, S, k),
         Backed(m, scanned, chMined, chSpent, displaced)
  PROVE  Backed(n, scanned, chMined, chSpent, displaced)
<1> SUFFICES ASSUME Live(n), NEW t \in Ids PROVE RowBacked(n, t, scanned, chMined, chSpent, displaced)
  BY DEF Backed
<1>1. RowBacked(m, t, scanned, chMined, chSpent, displaced)
  BY DEF Backed, Live, MarkedDirect
<1>2. scanned \in Nat \ {0}
  BY DriveAssumption DEF IInv, TypeOK
<1>3. n.bound[t] = m.bound[t] /\ n.st[t] = m.st[t]
  BY DEF MarkedDirect, SamePlan
<1>4. CASE t \in S /\ ~IsMarked(m, t) /\ ~IsMined(m, t)
  <2>1. n.mark[t] = scanned /\ n.kind[t] = k[t]
    BY <1>4 DEF MarkedDirect
  <2>2. \/ k[t] = "InputsSpent" /\ chSpent[t] \in 1..scanned
        \/ /\ k[t] = "InputAbsent" /\ m.st[t] = "Signed"
           /\ \A d \in Deps[t] : chMined[d] \in 1..scanned
        \/ /\ k[t] = "AnchorInvalidated" /\ t \in displaced
           /\ m.st[t] = "Broadcast" /\ m.bound[t] <= scanned
    BY <1>4 DEF Justified
  <2> QED BY <2>1, <2>2, <1>2, <1>3 DEF RowBacked
<1>5. CASE ~(t \in S /\ ~IsMarked(m, t) /\ ~IsMined(m, t))
  <2>1. SameMarks(m, n, t)
    BY <1>5 DEF MarkedDirect
  <2> QED BY <2>1, <1>1, <1>3 DEF RowBacked, SameMarks
<1> QED BY <1>4, <1>5

LEMMA InheritsDirect ==
  ASSUME NEW m, NEW n, NEW S, NEW k, NEW tip, NEW spent, NEW lost, NEW on, NEW h,
         MarkedDirect(m, S, k, h, n), Justified(m, S, k),
         Backed(m, tip, on, spent, lost), Inherits(m, on, spent)
  PROVE  Inherits(n, on, spent)
<1> SUFFICES ASSUME Live(n), NEW t \in Ids, n.kind[t] = "Inherited"
             PROVE  HasDeadProducer(n, t, on, spent)
  BY DEF Inherits
<1>0. Live(m) /\ \A u \in Ids : RowBacked(m, u, tip, on, spent, lost)
  BY DEF Backed, MarkedDirect, Live
<1>1. SameMarks(m, n, t)
  <2>1. CASE t \in S /\ ~IsMarked(m, t) /\ ~IsMined(m, t)
    <3>1. k[t] \in {"InputsSpent", "InputAbsent", "AnchorInvalidated"}
      BY <2>1 DEF Justified
    <3> QED BY <3>1, <2>1 DEF MarkedDirect
  <2>2. CASE ~(t \in S /\ ~IsMarked(m, t) /\ ~IsMined(m, t))
    BY <2>2 DEF MarkedDirect
  <2> QED BY <2>1, <2>2
<1>2. HasDeadProducer(m, t, on, spent)
  BY <1>0, <1>1 DEF Inherits, SameMarks
<1>3. \A d \in Deps[t] : d \in Ids /\ n.expiry[d] = m.expiry[d]
  BY DepsAssumption DEF MarkedDirect, SamePlan, Ids
<1>4. \A d \in Deps[t] : m.kind[d] \in {"InputAbsent", "Inherited"} => SameMarks(m, n, d)
  <2> SUFFICES ASSUME NEW d \in Deps[t], m.kind[d] \in {"InputAbsent", "Inherited"}
               PROVE  SameMarks(m, n, d)
    OBVIOUS
  <2>1. IsMarked(m, d)
    BY <1>0, <1>3 DEF RowBacked, IsMarked
  <2> QED BY <2>1, <1>3 DEF MarkedDirect
<1> QED BY <1>1, <1>2, <1>3, <1>4 DEF HasDeadProducer, SameMarks

\* A pass of the closure stamps a dependent with its producer's own stamp or expiry.
LEMMA BackedPassed ==
  ASSUME NEW m \in Migrations, NEW n, NEW tip \in Nat, NEW on, NEW spent, NEW lost,
         Passed(m, tip + 1, n), Backed(m, tip, on, spent, lost)
  PROVE  Backed(n, tip, on, spent, lost)
<1> SUFFICES ASSUME Live(n), NEW t \in Ids PROVE RowBacked(n, t, tip, on, spent, lost)
  BY DEF Backed
<1>1. \A u \in Ids : RowBacked(m, u, tip, on, spent, lost)
  BY DEF Backed, Live, Passed
<1>2. n.bound[t] = m.bound[t] /\ n.st[t] = m.st[t]
  BY DEF Passed, SamePlan
<1>3. CASE SameMarks(m, n, t)
  BY <1>1, <1>2, <1>3 DEF RowBacked, SameMarks
<1>4. ASSUME n.kind[t] = "Inherited",
             NEW d \in Ids, \/ IsMarked(m, d) /\ n.mark[t] = m.mark[d]
                            \/ IsExpired(m, d, tip + 1) /\ n.mark[t] = m.expiry[d]
      PROVE  RowBacked(n, t, tip, on, spent, lost)
  <2>1. m.mark[d] \in Nat /\ m.expiry[d] \in Nat /\ m.mark[d] <= tip
    BY <1>1 DEF Migrations, RowBacked
  <2>2. n.mark[t] # 0 /\ n.mark[t] <= tip
    BY <1>4, <2>1 DEF IsMarked, IsExpired
  <2> QED BY <1>4, <2>2 DEF RowBacked
<1> QED BY <1>3, <1>4 DEF Passed

LEMMA InheritsPassed ==
  ASSUME NEW m \in Migrations, NEW n, NEW tip \in Nat, NEW spent, NEW lost, NEW on, NEW target \in Nat,
         Passed(m, target, n), Backed(m, tip, on, spent, lost), lost \subseteq Transfers,
         Inherits(m, on, spent), \A t \in Ids : ~IsMined(m, t) => on[t] = 0
  PROVE  Inherits(n, on, spent)
<1> SUFFICES ASSUME Live(n), NEW t \in Ids, n.kind[t] = "Inherited"
             PROVE  HasDeadProducer(n, t, on, spent)
  BY DEF Inherits
<1>1. Live(m) /\ \A u \in Ids : RowBacked(m, u, tip, on, spent, lost)
  BY DEF Backed, Live, Passed
<1>2. \A d \in Deps[t] : d \in Preparations /\ d \in Ids /\ d \notin Transfers /\ n.expiry[d] = m.expiry[d]
  BY DepsAssumption, IdsAssumption DEF Passed, SamePlan, Ids
<1>3. \A d \in Ids : IsMarked(m, d) => SameMarks(m, n, d)
  BY DEF Passed
<1>4. \A d \in Ids : m.kind[d] \in {"InputAbsent", "Inherited"} => IsMarked(m, d)
  BY <1>1 DEF RowBacked, IsMarked
<1>5. CASE SameMarks(m, n, t)
  <2>1. HasDeadProducer(m, t, on, spent)
    BY <1>1, <1>5 DEF Inherits, SameMarks
  <2> QED BY <2>1, <1>2, <1>3, <1>4, <1>5 DEF HasDeadProducer, SameMarks
<1>6. ASSUME NEW d \in Deps[t], ~IsMined(m, d), IsMarked(m, d), n.mark[t] = m.mark[d]
      PROVE  HasDeadProducer(n, t, on, spent)
  <2>1. on[d] = 0 /\ SameMarks(m, n, d) /\ RowBacked(m, d, tip, on, spent, lost)
    BY <1>1, <1>2, <1>3, <1>6
  <2>2. m.kind[d] \in {"InputsSpent", "InputAbsent", "Inherited"}
    <3>1. m.kind[d] \in Kinds /\ m.kind[d] # "None"
      BY <1>2, <1>6, <2>1 DEF Migrations, RowBacked, IsMarked
    <3>2. m.kind[d] # "AnchorInvalidated"
      BY <1>2, <2>1 DEF RowBacked
    <3> QED BY <3>1, <3>2 DEF Kinds
  <2>3. m.mark[d] \in Nat
    BY <1>2 DEF Migrations
  <2>4. \/ spent[d] \in 1..n.mark[t]
        \/ n.kind[d] \in {"InputAbsent", "Inherited"} /\ n.mark[d] <= n.mark[t]
    BY <1>6, <2>1, <2>2, <2>3 DEF RowBacked, SameMarks
  <2> QED BY <2>1, <2>4 DEF HasDeadProducer
<1>7. ASSUME NEW d \in Deps[t], ~IsMined(m, d), IsExpired(m, d, target), n.mark[t] = m.expiry[d]
      PROVE  HasDeadProducer(n, t, on, spent)
  <2>1. on[d] = 0 /\ n.expiry[d] = m.expiry[d] /\ m.expiry[d] \in Nat /\ m.expiry[d] # 0
    BY <1>2, <1>7 DEF IsExpired, Migrations
  <2> QED BY <2>1, <1>7 DEF HasDeadProducer
<1> QED BY <1>5, <1>6, <1>7 DEF Passed

\* A rollback to h keeps what is at or below h, and anchors there that are lost stay so.
KeptTo(h, f, f2) == \A t \in Ids : f[t] \in Nat /\ (f[t] <= h => f2[t] = f[t])
StillLost(m, h, lost, lost2) == \A t \in Ids : t \in lost /\ m.bound[t] <= h => t \in lost2

\* A rollback to h withdraws what was stamped above h, and only that.
LEMMA BackedTruncated ==
  ASSUME NEW m \in Migrations, NEW n, NEW h \in Nat, NEW tip \in Nat, NEW on, NEW on2,
         NEW spent, NEW spent2, NEW lost, NEW lost2, NEW tip2,
         tip2 = IF h < tip THEN h ELSE tip,
         Truncated(m, h, n), Live(m), Backed(m, tip, on, spent, lost),
         KeptTo(h, on, on2), KeptTo(h, spent, spent2), StillLost(m, h, lost, lost2)
  PROVE  Backed(n, tip2, on2, spent2, lost2)
<1> SUFFICES ASSUME NEW t \in Ids PROVE RowBacked(n, t, tip2, on2, spent2, lost2)
  BY DEF Backed
<1>1. RowBacked(m, t, tip, on, spent, lost)
  BY DEF Backed
<1>2. m.mark[t] \in Nat /\ m.bound[t] \in Nat
  BY DEF Migrations
<1>t. tip2 \in Nat /\ (m.mark[t] <= h => m.mark[t] <= tip2)
  BY <1>1, <1>2 DEF RowBacked
<1>3. CASE m.mark[t] > h
  BY <1>3, <1>t DEF Truncated, RowBacked
<1>4. CASE m.mark[t] <= h
  <2>1. SameMarks(m, n, t)
    BY <1>2, <1>4 DEF Truncated
  <2>2. n.bound[t] = m.bound[t] /\ (m.st[t] \in {"Signed", "Broadcast"} => n.st[t] = m.st[t])
    BY DEF Truncated, SamePlan
  <2>3. m.kind[t] = "InputsSpent" => spent2[t] \in 1..m.mark[t]
    BY <1>1, <1>2, <1>4 DEF RowBacked, KeptTo
  <2>4. m.kind[t] = "AnchorInvalidated" => t \in lost2
    BY <1>1, <1>2, <1>4 DEF RowBacked, StillLost
  <2>5. m.kind[t] = "InputAbsent" => \A d \in Deps[t] : on2[d] \in 1..m.mark[t]
    <3>1. \A d \in Deps[t] : d \in Ids
      BY DepsAssumption DEF Ids
    <3> QED BY <3>1, <1>1, <1>2, <1>4 DEF RowBacked, KeptTo
  <2> QED BY <2>1, <2>2, <2>3, <2>4, <2>5, <1>1, <1>t, <1>4 DEF RowBacked, SameMarks
<1> QED BY <1>2, <1>3, <1>4

LEMMA InheritsTruncated ==
  ASSUME NEW m \in Migrations, NEW n, NEW h \in Nat, NEW on, NEW on2, NEW spent, NEW spent2,
         Truncated(m, h, n), Live(m), Inherits(m, on, spent),
         \A t \in Ids : spent[t] \in Nat /\ (spent[t] <= h => spent2[t] = spent[t]),
         \A t \in Ids : on[t] = 0 => on2[t] = 0
  PROVE  Inherits(n, on2, spent2)
<1> SUFFICES ASSUME NEW t \in Ids, n.kind[t] = "Inherited"
             PROVE  HasDeadProducer(n, t, on2, spent2)
  BY DEF Inherits
<1>1. \A u \in Ids : m.mark[u] \in Nat
  BY DEF Migrations
<1>2. SameMarks(m, n, t) /\ m.mark[t] <= h
  BY <1>1 DEF Truncated
<1>3. HasDeadProducer(m, t, on, spent)
  BY <1>2 DEF Inherits, SameMarks
<1>4. PICK d \in Deps[t] : /\ on[d] = 0
                          /\ \/ m.expiry[d] \in 1..m.mark[t]
                             \/ spent[d] \in 1..m.mark[t]
                             \/ m.kind[d] \in {"InputAbsent", "Inherited"} /\ m.mark[d] <= m.mark[t]
  BY <1>3 DEF HasDeadProducer
<1>5. d \in Ids /\ n.expiry[d] = m.expiry[d]
  BY DepsAssumption DEF Truncated, SamePlan, Ids
<1>6. m.mark[d] <= m.mark[t] => SameMarks(m, n, d)
  BY <1>1, <1>2, <1>5 DEF Truncated
<1>7. spent[d] \in 1..m.mark[t] => spent2[d] = spent[d]
  BY <1>1, <1>2, <1>5
<1> QED BY <1>2, <1>4, <1>5, <1>6, <1>7 DEF HasDeadProducer, SameMarks

LEMMA BackedScanned ==
  ASSUME NEW m \in Migrations, NEW tip \in Nat, NEW tip2 \in Nat, tip <= tip2,
         NEW on, NEW on2, NEW spent, NEW spent2, NEW lost,
         Backed(m, tip, on, spent, lost), \A t \in Ids : spent[t] # 0 => spent2[t] = spent[t],
         \A t \in Ids : on[t] # 0 => on2[t] = on[t]
  PROVE  Backed(m, tip2, on2, spent2, lost)
<1> SUFFICES ASSUME Live(m), NEW t \in Ids PROVE RowBacked(m, t, tip2, on2, spent2, lost)
  BY DEF Backed
<1>1. RowBacked(m, t, tip, on, spent, lost) /\ m.mark[t] \in Nat
  BY DEF Backed, Migrations
<1>2. spent[t] \in 1..m.mark[t] => spent2[t] = spent[t]
  OBVIOUS
<1>3. \A d \in Deps[t] : on[d] \in 1..m.mark[t] => on2[d] = on[d]
  <2>1. \A d \in Deps[t] : d \in Ids
    BY DepsAssumption DEF Ids
  <2> QED BY <2>1
<1> QED BY <1>1, <1>2, <1>3 DEF RowBacked

\* A dead producer cannot mine: it is past its expiry, spent elsewhere, never handed out,
\* or lacks a producer.
LEMMA InheritsScanned ==
  ASSUME IInv, NEW top \in (scanned + 1)..MaxHeight, NEW at \in [Ids -> {0} \cup (scanned + 1)..top],
         NEW foreign \in SUBSET Ids, Scanned(at, foreign, top),
         Backed(store, scanned, chMined, chSpent, displaced), Inherits(store, chMined, chSpent)
  PROVE  Inherits(store, chMined', chSpent')
<1> SUFFICES ASSUME Live(store), NEW t \in Ids, store.kind[t] = "Inherited"
             PROVE  HasDeadProducer(store, t, chMined', chSpent')
  BY DEF Inherits
<1>1. HasDeadProducer(store, t, chMined, chSpent)
  BY DEF Inherits
<1>2. PICK d \in Deps[t] : /\ chMined[d] = 0
                          /\ \/ store.expiry[d] \in 1..store.mark[t]
                             \/ chSpent[d] \in 1..store.mark[t]
                             \/ /\ store.kind[d] \in {"InputAbsent", "Inherited"}
                                /\ store.mark[d] <= store.mark[t]
  BY <1>1 DEF HasDeadProducer
<1>3. d \in Ids
  BY DepsAssumption DEF Ids
<1>4. store.mark[t] \in Nat /\ store.mark[t] <= scanned /\ scanned \in Nat /\ store.expiry[d] \in Nat
  BY <1>3, DriveAssumption DEF Backed, RowBacked, IInv, TypeOK, Migrations
<1>5. at[d] = 0
  <2> SUFFICES ASSUME at[d] # 0 PROVE FALSE
    OBVIOUS
  <2>0. /\ at[d] >= scanned + 1 /\ at[d] \in Nat /\ chSpent[d] = 0 /\ d \in taken
        /\ store.expiry[d] = 0 \/ store.expiry[d] >= at[d]
        /\ \A c \in Deps[d] : chMined[c] # 0
    BY <1>3, <1>4 DEF Scanned
  <2>1. CASE store.expiry[d] \in 1..store.mark[t]
    BY <2>0, <2>1, <1>4
  <2>2. CASE chSpent[d] \in 1..store.mark[t]
    BY <2>0, <2>2, <1>4
  <2>3. CASE store.kind[d] = "Inherited"
    <3>1. HasDeadProducer(store, d, chMined, chSpent)
      BY <1>3, <2>3 DEF Inherits
    <3>2. \E c \in Deps[d] : chMined[c] = 0
      BY <3>1 DEF HasDeadProducer
    <3> QED BY <2>0, <3>2
  <2>4. CASE store.kind[d] = "InputAbsent"
    <3>1. store.st[d] = "Signed"
      BY <1>3, <2>4 DEF Backed, RowBacked
    <3>2. RowTrue(store, d, chMined, taken)
      BY <1>3 DEF IInv, Told, Truth
    <3> QED BY <2>0, <3>1, <3>2 DEF RowTrue
  <2> QED BY <1>2, <2>1, <2>2, <2>3, <2>4
<1>6. chMined'[d] = 0
  BY <1>2, <1>3, <1>5 DEF Scanned
<1>7. chSpent[d] \in 1..store.mark[t] => chSpent'[d] = chSpent[d]
  <2>1. Seen
    BY DEF IInv
  <2>2. chSpent[d] # 0 => d \notin foreign /\ ahead.spent[d] = 0
    BY <1>3, <2>1 DEF Scanned, Seen
  <2>3. 0 \notin (scanned + 1)..top
    BY <1>4
  <2> QED BY <1>3, <1>4, <2>2, <2>3 DEF Scanned
<1> QED BY <1>2, <1>6, <1>7 DEF HasDeadProducer

-----------------------------------------------------------------------------
(* Every mark is backed                                                    *)

CopyBacked(m) == Backed(m, scanned, chMined, chSpent, displaced) /\ Inherits(m, chMined, chSpent)

AllBacked == CopyBacked(store) /\ CopyBacked(mem)

LEMMA BackedInit == Init => AllBacked
<1> SUFFICES ASSUME Init PROVE AllBacked
  OBVIOUS
<1>1. /\ mem = store /\ scanned = 1
      /\ store.mark = Zero /\ store.kind = [t \in Ids |-> "None"]
  BY DEF Init
<1>2. CopyBacked(store)
  BY <1>1 DEF CopyBacked, Backed, RowBacked, Inherits, Zero
<1> QED BY <1>1, <1>2 DEF AllBacked

LEMMA QuietBacked ==
  ASSUME IInv, AllBacked, Quiet
  PROVE  AllBacked'
<1>1. /\ scanned' = scanned /\ chMined' = chMined /\ chSpent' = chSpent
      /\ \A t \in displaced \ displaced' : ~IsMarked(store, t) /\ ~IsMarked(mem, t)
  BY DEF Quiet, AllBacked
<1> DEFINE lost2 == displaced'
<1>2. ASSUME NEW m \in {store, mem}, NEW n, Kept(m, n)
      PROVE  Backed(n, scanned, chMined, chSpent, lost2) /\ Inherits(n, chMined, chSpent)
  <2>1. CopyBacked(m)
    BY DEF AllBacked
  <2>2. \A t \in Ids : t \in displaced /\ IsMarked(m, t) => t \in lost2
    BY <1>1
  <2> HIDE DEF lost2
  <2>3. Backed(n, scanned, chMined, chSpent, lost2)
    BY <1>2, <2>1, <2>2, BackedKept DEF CopyBacked
  <2>4. Inherits(n, chMined, chSpent)
    BY <1>2, <2>1, InheritsKept DEF CopyBacked
  <2> QED BY <2>3, <2>4
<1>3. \A n \in {store', mem'} : Backed(n, scanned, chMined, chSpent, lost2) /\ Inherits(n, chMined, chSpent)
  <2> HIDE DEF lost2
  <2> QED BY <1>2 DEF Quiet
<1> QED BY <1>1, <1>3 DEF AllBacked, CopyBacked

LEMMA DiscoveredBacked ==
  ASSUME IInv, AllBacked, NEW m, CopyBacked(m), Discovered(m)
  PROVE  AllBacked'
<1> USE DEF chain
<1>1. store' = store /\ UNCHANGED <<scanned, chMined, chSpent, displaced>>
  BY DEF Discovered
<1>2. PICK S, k, n : MarkedDirect(m, S, k, scanned, n) /\ Justified(m, S, k) /\ Kept(n, mem')
  BY DEF Discovered
<1>3. Backed(n, scanned, chMined, chSpent, displaced)
  BY <1>2, BackedDirect DEF CopyBacked
<1>4. Inherits(n, chMined, chSpent)
  BY <1>2, InheritsDirect DEF CopyBacked
<1>5. CopyBacked(mem')
  <2>1. Backed(mem', scanned, chMined, chSpent, displaced)
    BY <1>2, <1>3, BackedKept
  <2>2. Inherits(mem', chMined, chSpent)
    BY <1>2, <1>4, InheritsKept
  <2> QED BY <2>1, <2>2 DEF CopyBacked
<1> QED BY <1>1, <1>5 DEF AllBacked, CopyBacked

LEMMA RefusalDiscovers ==
  ASSUME IInv, AllBacked, NEW t \in Ids, ProveInputNotAvailable(t)
  PROVE  \E n : CopyBacked(n) /\ Discovered(n)
<1> USE DEF chain
<1>1. /\ pc = "serve" /\ mem.st[t] = "Signed" /\ pc' = "closing"
      /\ \A d \in Deps[t] : mem.mined[d] \in 1..scanned
      /\ UNCHANGED <<store, chain, reorgs>>
  BY DEF ProveInputNotAvailable, Serving
<1> DEFINE k == [u \in Ids |-> "InputAbsent"]
<1>2. PICK n \in Migrations :
        /\ n.status = mem.status /\ n.expiry = mem.expiry /\ SameRows(mem, n)
        /\ \A u \in Ids \ {t} : n.bound[u] = mem.bound[u]
        /\ MarkedDirect(n, {t}, k, scanned, mem')
  BY RefusedIs DEF IInv
<1>3. Kept(mem, n)
  BY <1>1, <1>2 DEF Kept, SameRows, SameRow, IsMined, Live
<1>4. CopyBacked(n)
  <2>1. CopyBacked(mem)
    BY DEF AllBacked
  <2>2. Backed(n, scanned, chMined, chSpent, displaced)
    BY <2>1, <1>3, BackedKept DEF CopyBacked
  <2>3. Inherits(n, chMined, chSpent)
    BY <2>1, <1>3, InheritsKept DEF CopyBacked
  <2> QED BY <2>2, <2>3 DEF CopyBacked
<1>5. \A d \in Deps[t] : chMined[d] \in 1..scanned
  <2>1. \A d \in Deps[t] : d \in Ids /\ mem.mined[d] # 0
    BY <1>1, DepsAssumption DEF Ids
  <2> QED BY <2>1, <1>1, ServingIs
<1>6. Justified(n, {t}, k)
  <2>1. n.st[t] = "Signed"
    BY <1>1, <1>2 DEF SameRows, SameRow
  <2> QED BY <2>1, <1>5 DEF Justified
<1>7. Kept(mem', mem')
  BY <1>2, KeptItself DEF MarkedDirect
<1> HIDE DEF k
<1>8. Discovered(n)
  BY <1>1, <1>2, <1>6, <1>7 DEF Discovered
<1> QED BY <1>4, <1>8

LEMMA SweepBacked ==
  ASSUME IInv, AllBacked, SweepOracle
  PROVE  AllBacked'
<1>1. PICK p \in Migrations : /\ Promoted(mem, asked, p) /\ Discovered(p)
                             /\ \A t \in Ids : asked[t] # 0 => chMined[t] # 0
  BY SweepDiscovers
<1>2. mem \in Migrations /\ scanned \in Nat /\ CopyBacked(mem)
  BY DriveAssumption DEF IInv, TypeOK, AllBacked
<1>3. Backed(p, scanned, chMined, chSpent, displaced)
  BY <1>1, <1>2, BackedPromoted DEF CopyBacked
<1>4. Inherits(p, chMined, chSpent)
  BY <1>1, <1>2, InheritsPromoted DEF CopyBacked
<1>5. CopyBacked(p)
  BY <1>3, <1>4 DEF CopyBacked
<1> QED BY <1>1, <1>5, DiscoveredBacked

LEMMA ClosingBacked ==
  ASSUME IInv, AllBacked, ClosePass
  PROVE  AllBacked'
<1> USE DEF chain
<1>1. /\ pc = "closing" /\ UNCHANGED <<store, chain>>
      /\ mem' = mem \/ mem' = InheritPass(mem, closeAt)
  BY DEF ClosePass
<1>2. CASE mem' = mem
  BY <1>1, <1>2 DEF AllBacked, CopyBacked
<1>3. CASE mem' = InheritPass(mem, closeAt)
  <2>1. /\ mem \in Migrations /\ scanned \in Nat /\ closeAt = scanned + 1 /\ CopyBacked(mem)
        /\ displaced \subseteq Transfers /\ closeAt \in Nat
    BY <1>1, DriveAssumption DEF IInv, TypeOK, Control, AllBacked
  <2>2. Passed(mem, closeAt, mem')
    BY <1>3, <2>1, InheritPassIs
  <2>3. Backed(mem', scanned, chMined, chSpent, displaced)
    <3>1. Passed(mem, scanned + 1, mem')
      BY <2>1, <2>2
    <3> QED BY <2>1, <3>1, BackedPassed DEF CopyBacked
  <2>4. \A t \in Ids : ~IsMined(mem, t) => chMined[t] = 0
    BY <1>1, JudgedIs
  <2>5. Inherits(mem', chMined, chSpent)
    BY <2>1, <2>2, <2>4, InheritsPassed DEF CopyBacked
  <2> QED BY <1>1, <2>3, <2>5 DEF AllBacked, CopyBacked
<1> QED BY <1>1, <1>2, <1>3

LEMMA ScanBacked ==
  ASSUME Serial, IInv, AllBacked, Scan
  PROVE  AllBacked'
<1> USE DEF session
<1>1. pc \in {"idle", "submit"} /\ UNCHANGED <<store, mem, displaced>>
  BY ScanIs DEF Serial, IInv
<1>2. PICK top \in (scanned + 1)..MaxHeight :
        \E at \in [Ids -> {0} \cup (scanned + 1)..top], foreign \in SUBSET Ids :
          Scanned(at, foreign, top)
  BY ScanIs DEF IInv
<1>a. PICK at \in [Ids -> {0} \cup (scanned + 1)..top], foreign \in SUBSET Ids :
        Scanned(at, foreign, top)
  BY <1>2
<1>3. /\ mem = store /\ store \in Migrations /\ scanned \in Nat /\ CopyBacked(store)
      /\ top \in Nat /\ scanned <= top
  BY <1>1, DriveAssumption DEF IInv, TypeOK, Control, AllBacked
<1> DEFINE on2 == chMined'
           spent2 == chSpent'
<1>4. \A t \in Ids : chSpent[t] # 0 => spent2[t] = chSpent[t]
  <2> SUFFICES ASSUME NEW t \in Ids, chSpent[t] # 0 PROVE chSpent'[t] = chSpent[t]
    OBVIOUS
  <2>1. Seen
    BY DEF IInv
  <2>2. t \notin foreign /\ ahead.spent[t] = 0
    BY <1>a, <2>1 DEF Scanned, Seen
  <2>3. 0 \notin (scanned + 1)..top
    BY <1>3
  <2> QED BY <1>a, <2>2, <2>3 DEF Scanned
<1>5. \A t \in Ids : chMined[t] # 0 => on2[t] = chMined[t]
  BY <1>a DEF Scanned
<1>6. Backed(store, top, on2, spent2, displaced)
  <2> HIDE DEF on2, spent2
  <2> QED BY <1>3, <1>4, <1>5, BackedScanned DEF CopyBacked
<1>7. Inherits(store, chMined', chSpent')
  BY <1>a, <1>3, InheritsScanned DEF CopyBacked
<1>8. scanned' = top
  BY <1>a DEF Scanned
<1> QED BY <1>1, <1>3, <1>6, <1>7, <1>8 DEF AllBacked, CopyBacked

LEMMA TruncateBacked ==
  ASSUME Serial, IInv, AllBacked, Truncate
  PROVE  AllBacked'
<1> USE DEF session
<1>1. mem' = store'
  BY TruncateIs DEF Serial, IInv
<1>2. PICK h \in 1..MaxHeight, judged, gone \in SUBSET Transfers : RolledBack(h, judged, gone)
  BY TruncateIs DEF IInv
<1>h. h \in Nat /\ scanned \in Nat
  BY DriveAssumption DEF IInv, TypeOK
<1>3. CASE ~Live(store)
  <2>1. store' = store
    BY <1>2, <1>3 DEF RolledBack, Live
  <2> QED BY <1>1, <1>3, <2>1 DEF AllBacked, CopyBacked, Backed, Inherits
<1>4. CASE Live(store)
  <2>1. store \in Migrations /\ CopyBacked(store)
    BY DEF IInv, TypeOK, AllBacked
  <2>2. Truncated(store, h, store')
    BY <1>2, <1>h, <1>4, <2>1, TruncateToHeightIs DEF RolledBack, Live
  <2> DEFINE n == store'
             on2 == chMined'
             spent2 == chSpent'
             lost2 == displaced'
  <2>3. \A t \in Ids : chSpent[t] \in Nat /\ chMined[t] \in Nat
    BY DriveAssumption DEF IInv, TypeOK
  <2>4. \A t \in Ids : chSpent[t] \in Nat /\ (chSpent[t] <= h => spent2[t] = chSpent[t])
    BY <1>2, <1>h, <2>3 DEF RolledBack
  <2>5. \A t \in Ids : chMined[t] = 0 => on2[t] = 0
    BY <1>2 DEF RolledBack
  <2>a. \A t \in Ids : chMined[t] \in Nat /\ (chMined[t] <= h => on2[t] = chMined[t])
    BY <1>2, <1>h, <2>3 DEF RolledBack
  <2>6. \A t \in Ids : t \in displaced /\ store.bound[t] <= h => t \in lost2
    <3>1. \A t \in Ids : store.bound[t] \in Nat
      BY <2>1 DEF Migrations
    <3>2. ASSUME NEW t \in judged PROVE ~(store.bound[t] <= h)
      BY <1>2, <1>h, <3>1 DEF RolledBack, Ids
    <3>3. lost2 = (displaced \ judged) \cup gone
      BY <1>2 DEF RolledBack
    <3> QED BY <3>2, <3>3
  <2>7. Truncated(store, h, n)
    BY <2>2
  <2> HIDE DEF n, on2, spent2, lost2
  <2>b. Backed(store, scanned, chMined, chSpent, displaced)
    BY <2>1 DEF CopyBacked
  <2>d. KeptTo(h, chMined, on2) /\ KeptTo(h, chSpent, spent2) /\ StillLost(store, h, displaced, lost2)
    BY <2>4, <2>a, <2>6 DEF KeptTo, StillLost
  <2>c. PICK tip2 : tip2 = IF h < scanned THEN h ELSE scanned
    OBVIOUS
  <2>8. Backed(n, tip2, on2, spent2, lost2)
    BY <1>4, <1>h, <2>1, <2>b, <2>c, <2>d, <2>7, BackedTruncated
  <2>9. Inherits(n, on2, spent2)
    BY <1>4, <1>h, <2>1, <2>4, <2>5, <2>7, InheritsTruncated DEF CopyBacked
  <2>10. scanned' = tip2
    BY <1>2, <2>c DEF RolledBack
  <2> QED BY <1>1, <2>8, <2>9, <2>10 DEF AllBacked, CopyBacked, n, on2, spent2, lost2
<1> QED BY <1>3, <1>4

LEMMA BackedStep ==
  ASSUME Serial
  PROVE  IInv /\ IInv' /\ AllBacked /\ [Next]_vars => AllBacked'
<1> SUFFICES ASSUME IInv, TypeOK', AllBacked, [Next]_vars PROVE AllBacked'
  BY DEF IInv
<1>1. CASE Quiet
  BY <1>1, QuietBacked
<1>2. CASE SweepOracle
  BY <1>2, SweepBacked
<1>3. CASE Adjudicate \/ PlanVerify
  <2>1. Discovered(mem) /\ CopyBacked(mem)
    BY <1>3, AdjudicateDiscovers, VerifyDiscovers DEF AllBacked
  <2> QED BY <2>1, DiscoveredBacked
<1>4. CASE ClosePass
  BY <1>4, ClosingBacked
<1>5. CASE \E t \in Ids : ProveInputNotAvailable(t)
  BY <1>5, RefusalDiscovers, DiscoveredBacked
<1>6. CASE Scan
  BY <1>6, ScanBacked
<1>7. CASE Truncate
  BY <1>7, TruncateBacked
<1> QED BY <1>1, <1>2, <1>3, <1>4, <1>5, <1>6, <1>7, QuietOrNot

LEMMA Backing ==
  ASSUME Serial
  PROVE  Spec => [](IInv /\ AllBacked)
<1>1. IInv /\ IInv' /\ AllBacked /\ [Next]_vars => AllBacked'
  BY BackedStep
<1> QED BY <1>1, BackedInit, Invariant, PTL DEF Spec

\* In a serial wallet every direct mark rests on chain state the wallet has fully scanned and
\* still holds, the mark made of a prover's failure on its producers' inclusions alone, and
\* truncate_to_height withdraws a mark with that evidence, over any number of reorgs,
\* payments and blocks scanned ahead.
THEOREM MarksHaveEvidence ==
  ASSUME Serial
  PROVE  Spec => []MarkEvidence
<1>1. IInv /\ AllBacked => MarkEvidence
  <2> SUFFICES ASSUME IInv, AllBacked, Revisable PROVE MarkEvidence
    BY DEF MarkEvidence
  <2>1. /\ \A t \in Ids : RowBacked(store, t, scanned, chMined, chSpent, displaced)
        /\ \A t \in Ids : RowTrue(store, t, chMined, taken)
    BY DEF IInv, Told, Truth, AllBacked, CopyBacked, Backed, Revisable, Live
  <2>2. \A t \in Ids : store.kind[t] = "InputAbsent" => store.st[t] = "Signed" /\ t \notin taken
    BY <2>1 DEF RowBacked, RowTrue
  <2> QED BY <2>1, <2>2 DEF RowBacked, MarkEvidence
<1> QED BY <1>1, Backing, PTL

\* In a serial wallet an Inherited mark is never stored against a live transaction: a producer
\* of its inputs is unmined and expired, spent elsewhere, refused by the prover, or inherits
\* death itself, before and after every reorg.
THEOREM InheritedDeathIsReal ==
  ASSUME Serial
  PROVE  Spec => []InheritedJustified
<1>1. IInv /\ AllBacked => InheritedJustified
  <2> SUFFICES ASSUME IInv, AllBacked, Revisable, NEW t \in Ids, store.kind[t] = "Inherited"
               PROVE  \E d \in Deps[t] : /\ chMined[d] = 0
                                         /\ \/ store.expiry[d] \in 1..scanned
                                            \/ chSpent[d] # 0
                                            \/ store.kind[d] \in {"InputAbsent", "Inherited"}
    BY DEF InheritedJustified
  <2>1. HasDeadProducer(store, t, chMined, chSpent) /\ RowBacked(store, t, scanned, chMined, chSpent, displaced)
    BY DEF AllBacked, CopyBacked, Backed, Inherits, Revisable, Live
  <2>2. store.mark[t] \in Nat /\ store.mark[t] <= scanned /\ scanned \in Nat
    BY <2>1, DriveAssumption DEF RowBacked, IInv, TypeOK, Migrations
  <2> QED BY <2>1, <2>2 DEF HasDeadProducer
<1> QED BY <1>1, Backing, PTL

-----------------------------------------------------------------------------
(* The value of a set of transfers: a sum, taken in an order CHOOSE makes  *)

LEMMA IdsFinite == IsFiniteSet(Ids)
  BY IdsAssumption, FS_Union DEF Ids

Pick(s) == CHOOSE x \in s : TRUE

\* g gives every subset of S its sum.
Sums(S, g) ==
  g = [s \in SUBSET S |-> IF s = {} THEN 0 ELSE CrossingValue[Pick(s)] + g[s \ {Pick(s)}]]

LEMMA TotalIs ==
  ASSUME NEW S
  PROVE  Total(S) = (CHOOSE g : Sums(S, g))[S]
BY DEF Total, MapThenSumSet, MapThenFoldSet, Sums, Pick

LEMMA PickIs ==
  ASSUME NEW s, s # {}
  PROVE  Pick(s) \in s /\ s \ {Pick(s)} \in SUBSET s /\ s \ {Pick(s)} # s
BY DEF Pick

\* The sums of a set and of a subset agree.
LEMMA SumsAgree ==
  ASSUME NEW S, IsFiniteSet(S), NEW T \in SUBSET S, NEW g, NEW h, Sums(S, g), Sums(T, h)
  PROVE  h[T] = g[T]
<1> DEFINE P == {r \in SUBSET T : h[r] = g[r]}
<1>1. IsFiniteSet(T)
  BY FS_Subset
<1>2. ASSUME NEW r \in SUBSET T, \A q \in SUBSET r : q # r => q \in P PROVE r \in P
  <2>1. CASE r = {}
    <3>1. h[r] = 0 /\ g[r] = 0
      BY <2>1 DEF Sums
    <3> QED BY <3>1
  <2>2. CASE r # {}
    <3>1. r \ {Pick(r)} \in P
      BY <1>2, <2>2, PickIs
    <3>2. h[r] = CrossingValue[Pick(r)] + h[r \ {Pick(r)}]
      BY <2>2 DEF Sums
    <3>3. g[r] = CrossingValue[Pick(r)] + g[r \ {Pick(r)}]
      BY <2>2 DEF Sums
    <3> QED BY <3>1, <3>2, <3>3
  <2> QED BY <2>1, <2>2
<1>3. \A r \in SUBSET T : r \in P
  <2> HIDE DEF P
  <2> QED BY <1>1, <1>2, SubsetInduction
<1> QED BY <1>3

\* They exist, and Total is one.
LEMMA SumsExist ==
  ASSUME NEW S, IsFiniteSet(S)
  PROVE  \A r \in SUBSET S : \E g : Sums(r, g)
<1> DEFINE P == {r \in SUBSET S : \E g : Sums(r, g)}
<1>1. ASSUME NEW r \in SUBSET S, \A q \in SUBSET r : q # r => q \in P PROVE r \in P
  <2> DEFINE value(q) == IF q = {} THEN 0 ELSE CrossingValue[Pick(q)] + Total(q \ {Pick(q)})
             g == [q \in SUBSET r |-> value(q)]
  <2>1. ASSUME NEW q \in SUBSET r, q # r PROVE Total(q) = value(q)
    <3> DEFINE G == CHOOSE G : Sums(q, G)
    <3>1. Sums(q, G) /\ Total(q) = G[q]
      BY <1>1, <2>1, TotalIs
    <3> HIDE DEF G
    <3>2. CASE q = {}
      BY <3>1, <3>2 DEF Sums
    <3>3. CASE q # {}
      <4> DEFINE p == q \ {Pick(q)}
                 H == CHOOSE H : Sums(p, H)
      <4>1. p \in SUBSET q /\ p \in SUBSET r /\ p # r
        BY <3>3, PickIs
      <4>2. Sums(p, H) /\ Total(p) = H[p]
        BY <1>1, <4>1, TotalIs
      <4>3. IsFiniteSet(q)
        BY FS_Subset
      <4> HIDE DEF H
      <4>4. H[p] = G[p]
        BY <3>1, <4>1, <4>2, <4>3, SumsAgree
      <4>5. G[q] = CrossingValue[Pick(q)] + G[p]
        BY <3>1, <3>3 DEF Sums
      <4> QED BY <3>1, <3>3, <4>2, <4>4, <4>5
    <3> QED BY <3>2, <3>3
  <2>2. ASSUME NEW q \in SUBSET r
        PROVE  g[q] = IF q = {} THEN 0 ELSE CrossingValue[Pick(q)] + g[q \ {Pick(q)}]
    <3>1. CASE q = {}
      BY <3>1
    <3>2. CASE q # {}
      <4>1. q \ {Pick(q)} \in SUBSET r /\ q \ {Pick(q)} # r
        BY <3>2, PickIs
      <4>2. g[q \ {Pick(q)}] = Total(q \ {Pick(q)})
        BY <2>1, <4>1
      <4> QED BY <3>2, <4>2
    <3> QED BY <3>1, <3>2
  <2>3. Sums(r, g)
    BY <2>2 DEF Sums
  <2> HIDE DEF g
  <2> QED BY <2>3
<1>2. \A r \in SUBSET S : r \in P
  <2> HIDE DEF P
  <2> QED BY <1>1, SubsetInduction
<1> QED BY <1>2

LEMMA TotalOfPick ==
  ASSUME NEW S, IsFiniteSet(S), S # {}
  PROVE  Total(S) = CrossingValue[Pick(S)] + Total(S \ {Pick(S)})
<1> DEFINE p == S \ {Pick(S)}
           G == CHOOSE G : Sums(S, G)
           H == CHOOSE H : Sums(p, H)
<1>1. S \in SUBSET S /\ p \in SUBSET S
  OBVIOUS
<1>2. Sums(S, G) /\ Sums(p, H)
  BY <1>1, SumsExist
<1>3. Total(S) = G[S] /\ Total(p) = H[p]
  BY TotalIs
<1> HIDE DEF G, H
<1>4. H[p] = G[p]
  BY <1>1, <1>2, SumsAgree
<1>5. G[S] = CrossingValue[Pick(S)] + G[p]
  BY <1>2 DEF Sums
<1> QED BY <1>3, <1>4, <1>5

LEMMA TotalOfNone == Total({}) = 0
<1> DEFINE G == CHOOSE G : Sums({}, G)
<1>1. IsFiniteSet({}) /\ {} \in SUBSET {}
  BY FS_EmptySet
<1>2. Sums({}, G) /\ Total({}) = G[{}]
  BY <1>1, SumsExist, TotalIs
<1> HIDE DEF G
<1> QED BY <1>2 DEF Sums

LEMMA TotalIsNat ==
  \A S \in SUBSET Ids : Total(S) \in Nat
<1> DEFINE P == {r \in SUBSET Ids : Total(r) \in Nat}
<1>1. ASSUME NEW r \in SUBSET Ids, \A q \in SUBSET r : q # r => q \in P PROVE r \in P
  <2>1. CASE r = {}
    BY <2>1, TotalOfNone
  <2>2. CASE r # {}
    <3>1. Total(r) = CrossingValue[Pick(r)] + Total(r \ {Pick(r)})
      BY <2>2, IdsFinite, FS_Subset, TotalOfPick
    <3>2. CrossingValue[Pick(r)] \in Nat /\ r \ {Pick(r)} \in P
      BY <1>1, <2>2, PickIs, ParameterAssumption
    <3> QED BY <3>1, <3>2
  <2> QED BY <2>1, <2>2
<1>2. \A r \in SUBSET Ids : r \in P
  <2> HIDE DEF P
  <2> QED BY <1>1, IdsFinite, SubsetInduction
<1> QED BY <1>2

\* Whatever element is taken first, the sum is the same.
LEMMA TotalOfAny ==
  \A S \in SUBSET Ids : \A x \in S : Total(S) = CrossingValue[x] + Total(S \ {x})
<1> DEFINE P == {r \in SUBSET Ids : \A x \in r : Total(r) = CrossingValue[x] + Total(r \ {x})}
<1>1. ASSUME NEW r \in SUBSET Ids, \A q \in SUBSET r : q # r => q \in P PROVE r \in P
  <2> SUFFICES ASSUME NEW x \in r PROVE Total(r) = CrossingValue[x] + Total(r \ {x})
    OBVIOUS
  <2> DEFINE c == Pick(r)
             rest == r \ {c, x}
  <2>1. Total(r) = CrossingValue[c] + Total(r \ {c})
    BY IdsFinite, FS_Subset, TotalOfPick
  <2>2. CASE x = c
    BY <2>1, <2>2
  <2>3. CASE x # c
    <3>1. c \in r
      BY PickIs
    <3>2. r \ {c} \in P /\ r \ {x} \in P
      BY <1>1, <3>1
    <3>3. (r \ {c}) \ {x} = rest /\ (r \ {x}) \ {c} = rest /\ x \in r \ {c} /\ c \in r \ {x}
      BY <2>3, <3>1
    <3>4. Total(r \ {c}) = CrossingValue[x] + Total(rest)
      BY <3>2, <3>3
    <3>5. Total(r \ {x}) = CrossingValue[c] + Total(rest)
      BY <3>2, <3>3
    <3>6. CrossingValue[x] \in Nat /\ CrossingValue[c] \in Nat /\ Total(rest) \in Nat
      BY <3>1, ParameterAssumption, TotalIsNat
    <3> HIDE DEF c, rest
    <3> QED BY <2>1, <3>4, <3>5, <3>6
  <2> QED BY <2>2, <2>3
<1>2. \A r \in SUBSET Ids : r \in P
  <2> HIDE DEF P
  <2> QED BY <1>1, IdsFinite, SubsetInduction
<1> QED BY <1>2

\* More transfers move no less.
LEMMA TotalGrows ==
  ASSUME NEW T \in SUBSET Ids
  PROVE  \A S \in SUBSET T : Total(S) <= Total(T)
<1> DEFINE P == {r \in SUBSET Ids : \A S \in SUBSET r : Total(S) <= Total(r)}
<1>1. ASSUME NEW r \in SUBSET Ids, \A q \in SUBSET r : q # r => q \in P PROVE r \in P
  <2> SUFFICES ASSUME NEW S \in SUBSET r PROVE Total(S) <= Total(r)
    OBVIOUS
  <2>1. Total(S) \in Nat /\ Total(r) \in Nat
    BY TotalIsNat
  <2>2. CASE S = r
    BY <2>1, <2>2
  <2>3. CASE S # r
    <3>1. PICK x \in r : x \notin S
      BY <2>3
    <3>2. r \ {x} \in P /\ S \in SUBSET (r \ {x})
      BY <1>1, <3>1
    <3>3. Total(S) <= Total(r \ {x})
      BY <3>2
    <3>4. Total(r) = CrossingValue[x] + Total(r \ {x})
      BY TotalOfAny
    <3>5. CrossingValue[x] \in Nat /\ Total(r \ {x}) \in Nat
      BY ParameterAssumption, TotalIsNat
    <3> QED BY <2>1, <3>3, <3>4, <3>5
  <2> QED BY <2>2, <2>3
<1>2. \A r \in SUBSET Ids : r \in P
  <2> HIDE DEF P
  <2> QED BY <1>1, IdsFinite, SubsetInduction
<1> QED BY <1>2

-----------------------------------------------------------------------------
(* What Replan rests on                                                    *)

\* Preparations are planned in layers and a transaction spends outputs of earlier layers
\* only (preparation.rs), transfers those of any.
Layered == \E layer \in [Ids -> Nat] : \A t \in Ids : \A d \in Deps[t] : layer[d] < layer[t]

\* A surfaced Replan is what the kernel answers of the copy it is served with.
Replanning ==
  /\ pc \in {"persist", "serve"} /\ step.kind = "Replan" => NextStep(mem, tgt, aside).kind = "Replan"
  /\ pc = "closing" /\ ret = "persist" => step.kind # "Replan"

LEMMA ReplanningInit == Init => Replanning
BY DEF Init, Replanning

LEMMA ReplanningStep ==
  ASSUME TypeOK, Replanning, [Next]_vars
  PROVE  Replanning'
<1> USE DEF session, chain
<1>1. CASE BeginAdvance \/ SweepMined \/ SweepOracle \/ PlanShift
  <2>1. pc' \in {"sweep", "swept", "report", "plan"} \/ (pc' = "closing" /\ ret' = "report")
    BY <1>1 DEF BeginAdvance, SweepMined, SweepOracle, PlanShift
  <2> QED BY <2>1 DEF Replanning
<1>2. CASE ClosePass
  BY <1>2 DEF ClosePass, Replanning, TypeOK
<1>3. CASE Adjudicate
  BY <1>3 DEF Adjudicate, Replanning, Step
<1>4. CASE PlanSettle
  BY <1>4 DEF PlanSettle, Replanning
<1>5. CASE PlanVerify
  <2> DEFINE s == NextStep(mem, tgt, aside)
  <2>1. Planned(mem, tgt, s) /\ s.txs # {}
    BY <1>5, NextStepIs DEF TypeOK, PlanVerify
  <2>2. s.kind # "Replan" /\ \A S : [s EXCEPT !.txs = S].kind = s.kind
    BY <2>1 DEF Planned, Step
  <2>3. \/ pc' = "closing" /\ ret' = "plan"
        \/ pc' = "plan"
        \/ pc' = "persist" /\ \E S : step' = [s EXCEPT !.txs = S]
    BY <1>5 DEF PlanVerify
  <2> HIDE DEF s
  <2> QED BY <2>2, <2>3 DEF Replanning
<1>6. CASE Persist
  BY <1>6 DEF Persist, Release, Replanning
<1>7. CASE Serve
  <2>1. CASE \E t \in Ids : Prove(t)
    <3>1. step.kind = "Prove" /\ (pc' = "idle" \/ (pc' = "serve" /\ \E S : step' = [step EXCEPT !.txs = S]))
      BY <2>1 DEF Prove, Serving, Store, Release
    <3>2. pc' = "serve" => step'.kind = "Prove"
      BY <3>1 DEF TypeOK
    <3> QED BY <3>1, <3>2 DEF Replanning
  <2>2. CASE \E t \in Ids : ProveNotYet(t)
    <3>1. step.kind = "Prove" /\ (pc' = "idle" \/ (pc' = "serve" /\ \E S : step' = [step EXCEPT !.txs = S]))
      BY <2>2 DEF ProveNotYet, Serving, Release
    <3>2. pc' = "serve" => step'.kind = "Prove"
      BY <3>1 DEF TypeOK
    <3> QED BY <3>1, <3>2 DEF Replanning
  <2>3. CASE \E t \in Ids : ProveInputNotAvailable(t) \/ TakeForBroadcast(t)
    <3>1. pc' = "submit" \/ (pc' = "closing" /\ step' = NoStep)
      BY <2>3 DEF ProveInputNotAvailable, TakeForBroadcast
    <3>2. NoStep.kind # "Replan"
      BY DEF NoStep, Step
    <3> QED BY <3>1, <3>2 DEF Replanning
  <2>4. CASE \E t \in Ids : Rebuild(t) \/ RebuildRefused(t)
    <3>1. pc' = "idle"
      <4>1. ASSUME NEW t \in Ids, Rebuild(t) PROVE pc' = "idle"
        <5>1. PICK m : Store(m, {})
          BY <4>1 DEF Rebuild
        <5> QED BY <5>1 DEF Store, Release
      <4>2. ASSUME NEW t \in Ids, RebuildRefused(t) PROVE pc' = "idle"
        BY <4>2 DEF RebuildRefused, Release
      <4> QED BY <2>4, <4>1, <4>2
    <3> QED BY <3>1 DEF Replanning
  <2>5. CASE SubmitAccepted \/ SubmitRejected \/ Supersede
    <3>1. \E m : Store(m, {})
      BY <2>5 DEF SubmitAccepted, SubmitRejected, Supersede
    <3>2. pc' = "idle"
      BY <3>1 DEF Store, Release
    <3> QED BY <3>2 DEF Replanning
  <2> QED BY <1>7, <2>1, <2>2, <2>3, <2>4, <2>5 DEF Serve
<1>8. CASE (\E t \in Ids : Sign(t) \/ Pay(t)) \/ Crash
  <2>1. pc' = "idle"
    BY <1>8 DEF Sign, Pay, Crash, Store, Release
  <2> QED BY <2>1 DEF Replanning
<1>9. CASE Scan \/ ScanAhead \/ Truncate \/ Cancel
  <2>1. /\ pc' = pc /\ ret' = ret /\ step' = step /\ tgt' = tgt /\ aside' = aside
        /\ pc # "idle" => mem' = mem
    BY <1>9 DEF Scan, ScanAhead, Truncate, Cancel
  <2> QED BY <2>1 DEF Replanning
<1>10. CASE UNCHANGED vars
  BY <1>10 DEF vars, Replanning
<1> QED BY <1>1, <1>2, <1>3, <1>4, <1>5, <1>6, <1>7, <1>8, <1>9, <1>10 DEF Next, Advance

\* What DeadOnChain is the least of: what is dead of itself, and every unmined dependent.
DeadSeed(t) ==
  /\ chMined[t] = 0
  /\ \/ chSpent[t] # 0 \/ t \in displaced
     \/ mem.expiry[t] \in 1..scanned \/ mem.kind[t] = "InputAbsent"
HoldsDead(S) ==
  /\ \A t \in Ids : DeadSeed(t) => t \in S
  /\ \A u \in Ids : chMined[u] = 0 /\ Deps[u] \cap S # {} => u \in S

LEMMA DeadOnChainIs ==
  DeadOnChain = {t \in Ids : \A S \in SUBSET Ids : HoldsDead(S) => t \in S}
<1> DEFINE unmined == {t \in Ids : chMined[t] = 0}
           seeds == {t \in unmined : \/ chSpent[t] # 0 \/ t \in displaced
                                      \/ mem.expiry[t] \in 1..scanned
                                      \/ mem.kind[t] = "InputAbsent"}
           closed(S) == seeds \subseteq S /\ \A u \in unmined : Deps[u] \cap S # {} => u \in S
<1>1. \A S : closed(S) <=> HoldsDead(S)
  BY DEF HoldsDead, DeadSeed
<1>2. DeadOnChain = {t \in Ids : \A S \in SUBSET Ids : closed(S) => t \in S}
  BY DEF DeadOnChain
<1> HIDE DEF closed
<1> QED BY <1>1, <1>2

\* Every unmined transaction that carries a mark is among them: direct marks are dead of
\* themselves, inherited ones by a producer in an earlier layer.
LEMMA MarkedIsHeld ==
  ASSUME IInv, AllBacked, Layered, pc = "serve", NEW S \in SUBSET Ids, HoldsDead(S),
         NEW u \in Ids, IsMarked(mem, u), ~IsMined(mem, u)
  PROVE  u \in S
<1>1. PICK layer \in [Ids -> Nat] : \A t \in Ids : \A d \in Deps[t] : layer[d] < layer[t]
  BY DEF Layered
<1> SUFFICES ASSUME u \notin S PROVE FALSE
  OBVIOUS
<1> DEFINE B == {t \in Ids : t \notin S /\ IsMarked(mem, t) /\ ~IsMined(mem, t)}
           N == {layer[t] : t \in B}
<1>2. N \subseteq Nat /\ N # {}
  <2>1. u \in B /\ \A t \in B : layer[t] \in Nat
    OBVIOUS
  <2> HIDE DEF B
  <2> QED BY <2>1
<1>3. PICK n \in N : \A k \in N : n <= k
  <2> HIDE DEF N
  <2> QED BY <1>2, LeastNumber
<1>4. PICK t \in B : layer[t] = n
  BY <1>3
<1>5. /\ t \in Ids /\ t \notin S /\ mem.mark[t] # 0 /\ mem.st[t] # "Mined"
  BY DEF IsMarked, IsMined
<1>6. /\ Live(mem) /\ \A d \in Ids : (mem.st[d] = "Mined" <=> chMined[d] # 0)
      /\ mem \in Migrations /\ scanned \in Nat
  BY ServingIs, DriveAssumption DEF IInv, TypeOK
<1>7. RowBacked(mem, t, scanned, chMined, chSpent, displaced) /\ mem.mark[t] \in Nat /\ mem.kind[t] \in Kinds
  BY <1>5, <1>6 DEF AllBacked, CopyBacked, Backed, Migrations
<1>8. chMined[t] = 0 /\ ~DeadSeed(t)
  BY <1>5, <1>6 DEF HoldsDead
<1>9. mem.kind[t] = "Inherited"
  BY <1>5, <1>7, <1>8 DEF RowBacked, DeadSeed, Kinds
<1>10. PICK d \in Deps[t] : /\ chMined[d] = 0
                            /\ \/ mem.expiry[d] \in 1..mem.mark[t]
                               \/ chSpent[d] \in 1..mem.mark[t]
                               \/ /\ mem.kind[d] \in {"InputAbsent", "Inherited"}
                                  /\ mem.mark[d] <= mem.mark[t]
  BY <1>5, <1>6, <1>9 DEF AllBacked, CopyBacked, Inherits, HasDeadProducer
<1>11. d \in Ids
  BY <1>5, DepsAssumption DEF Ids
<1>12. d \in S
  <2>1. CASE mem.expiry[d] \in 1..mem.mark[t]
    <3>1. mem.expiry[d] \in 1..scanned
      BY <1>6, <1>7, <2>1 DEF RowBacked
    <3> QED BY <1>10, <1>11, <3>1 DEF HoldsDead, DeadSeed
  <2>2. CASE chSpent[d] \in 1..mem.mark[t]
    <3>1. chSpent[d] # 0
      BY <2>2
    <3> QED BY <1>10, <1>11, <3>1 DEF HoldsDead, DeadSeed
  <2>3. CASE mem.kind[d] = "Inherited"
    <3>1. RowBacked(mem, d, scanned, chMined, chSpent, displaced)
      BY <1>6, <1>11 DEF AllBacked, CopyBacked, Backed
    <3>2. IsMarked(mem, d) /\ ~IsMined(mem, d)
      BY <1>6, <1>10, <1>11, <2>3, <3>1 DEF RowBacked, IsMarked, IsMined
    <3>3. layer[d] < n /\ layer[d] \in Nat /\ n \in Nat
      BY <1>1, <1>4, <1>5, <1>11
    <3>4. layer[d] \notin N
      BY <1>3, <3>3
    <3> QED BY <1>11, <3>2, <3>4
  <2>4. CASE mem.kind[d] = "InputAbsent"
    BY <1>10, <1>11, <2>4 DEF HoldsDead, DeadSeed
  <2> QED BY <1>10, <2>1, <2>2, <2>3, <2>4
<1> QED BY <1>5, <1>8, <1>10, <1>12 DEF HoldsDead

\* The kernel's dead set is dead on the chain.
LEMMA DeadSetIsDead ==
  ASSUME IInv, AllBacked, Layered, pc = "serve", NEW t \in DeadSet(mem, tgt.scan)
  PROVE  t \in DeadOnChain
<1>1. t \in Ids
  BY DEF DeadSet
<1> SUFFICES ASSUME NEW S \in SUBSET Ids, HoldsDead(S) PROVE t \in S
  BY <1>1, DeadOnChainIs
<1>2. /\ \A d \in Ids : IsMined(mem, d) <=> chMined[d] # 0
      /\ tgt.scan = scanned + 1 /\ scanned \in Nat /\ \A d \in Ids : mem.expiry[d] \in Nat
  BY ServingIs, DriveAssumption DEF IInv, TypeOK, Migrations, IsMined
<1>3. DeadSeeds(mem, tgt.scan) \subseteq S
  <2> SUFFICES ASSUME NEW u \in DeadSeeds(mem, tgt.scan) PROVE u \in S
    OBVIOUS
  <2>1. u \in Ids /\ ~IsMined(mem, u) /\ (IsMarked(mem, u) \/ IsExpired(mem, u, tgt.scan))
    BY DEF DeadSeeds
  <2>2. CASE IsMarked(mem, u)
    BY <2>1, <2>2, MarkedIsHeld
  <2>3. CASE IsExpired(mem, u, tgt.scan)
    <3>1. mem.expiry[u] \in 1..scanned
      BY <1>2, <2>1, <2>3 DEF IsExpired
    <3> QED BY <1>2, <2>1, <3>1 DEF HoldsDead, DeadSeed
  <2> QED BY <2>1, <2>2, <2>3
<1>4. \A u \in Ids : ~IsMined(mem, u) /\ Deps[u] \cap S # {} => u \in S
  BY <1>2 DEF HoldsDead
<1> QED BY <1>3, <1>4 DEF DeadSet

\* Replan is the kernel's answer past the threshold, or when only dead value is left.
LEMMA ReplanReasons ==
  ASSUME NEW m, NEW tg, NEW off, NextStep(m, tg, off).kind = "Replan"
  PROVE  ReplanRequired(m) \/ LateReplan(m, DeadSet(m, tg.scan), off)
BY DEF NextStep, Step

\* In a serial wallet whose transactions are layered as they are planned, Replan is surfaced
\* only when the chain, or a prover that did not find the inputs, has ruled out more than the
\* committed share of the value, or everything not yet mined.
THEOREM ReplansAreHonest ==
  ASSUME Serial, Layered
  PROVE  Spec => []ReplanHonest
<1>1. IInv /\ AllBacked /\ Replanning => ReplanHonest
  <2> SUFFICES ASSUME IInv, AllBacked, Replanning, pc = "serve", step.kind = "Replan"
               PROVE  \/ 100 * Total(DeadOnChain \cap Transfers) > ReplanPercent * Total(Transfers)
                      \/ \A t \in Ids : chMined[t] # 0 \/ t \in DeadOnChain
    BY DEF ReplanHonest
  <2> DEFINE marked == {t \in Transfers : IsMarked(mem, t) /\ ~IsMined(mem, t)}
             dead == DeadOnChain \cap Transfers
  <2>1. ReplanRequired(mem) \/ LateReplan(mem, DeadSet(mem, tgt.scan), aside)
    BY ReplanReasons DEF Replanning
  <2>2. CASE ReplanRequired(mem)
    <3>1. marked \in SUBSET dead
      BY MarkedAreDead, DeadSetIsDead DEF Ids
    <3>2. dead \in SUBSET Ids /\ marked \in SUBSET Ids /\ Transfers \in SUBSET Ids
      BY DEF Ids
    <3>3. 100 * Total(marked) > ReplanPercent * Total(Transfers)
      BY <2>2 DEF ReplanRequired
    <3> HIDE DEF marked, dead
    <3>4. Total(marked) <= Total(dead)
      BY <3>1, <3>2, TotalGrows
    <3>5. Total(marked) \in Nat /\ Total(dead) \in Nat /\ ReplanPercent * Total(Transfers) \in Nat
      <4>1. Total(Transfers) \in Nat /\ ReplanPercent \in Nat
        BY <3>2, TotalIsNat, ParameterAssumption
      <4> QED BY <3>2, <4>1, TotalIsNat
    <3>6. 100 * Total(dead) > ReplanPercent * Total(Transfers)
      BY <3>3, <3>4, <3>5
    <3> QED BY <3>6 DEF dead
  <2>3. CASE LateReplan(mem, DeadSet(mem, tgt.scan), aside)
    <3>1. \A t \in Ids : IsMined(mem, t) => chMined[t] # 0
      BY ServingIs DEF IsMined
    <3> QED BY <2>3, <3>1, DeadSetIsDead DEF LateReplan
  <2> QED BY <2>1, <2>2, <2>3
<1>2. TypeOK /\ Replanning /\ [Next]_vars => Replanning'
  BY ReplanningStep
<1>3. IInv => TypeOK
  BY DEF IInv
<1> QED BY <1>1, <1>2, <1>3, ReplanningInit, Invariant, Backing, PTL DEF Spec
=============================================================================
