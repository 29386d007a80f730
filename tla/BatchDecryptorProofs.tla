------------------------ MODULE BatchDecryptorProofs ------------------------
(***************************************************************************)
(* Theorems about BatchDecryptor, for every set of Handles, requests,      *)
(* accounts and pools, every queue size, threshold and delay: its states   *)
(* are well typed, and the engine with its batches, threads and timer      *)
(* implements the service that answers in order and decrypts on the spot.  *)
(***************************************************************************)
EXTENDS BatchDecryptor, DataInduction

-----------------------------------------------------------------------------
(* The runners *)

Batch   == [keys : SUBSET Account, outs : SUBSET Outputs]
Runners == [acc : [Pool -> SUBSET Outputs], out : SUBSET Batch]

Gathered(rs, o) == \E p \in Pool : o \in rs.acc[p]
Sending(rs, o)  == Gathered(rs, o) \/ \E b \in rs.out : o \in b.outs

\* Between rs and new the outputs outs were added, and every batch spawned on the
\* way carries the keys ks and only what had been gathered or was added.
Grows(rs, new, outs, ks) ==
  /\ new \in Runners
  /\ \A o \in Outputs : Sending(new, o) <=> Sending(rs, o) \/ o \in outs
  /\ \A o \in Outputs : Gathered(new, o) => Gathered(rs, o) \/ o \in outs
  /\ \A b \in new.out \ rs.out :
       b.keys = ks /\ \A o \in b.outs : Gathered(rs, o) \/ o \in outs

LEMMA GrowsOn ==
  ASSUME NEW a \in Runners, NEW b \in Runners, NEW c \in Runners,
         NEW s \in SUBSET Outputs, NEW t \in SUBSET Outputs, NEW ks,
         Grows(a, b, s, ks), Grows(b, c, t, ks)
  PROVE  Grows(a, c, s \union t, ks)
<1>1. ASSUME NEW x \in c.out \ a.out
      PROVE  x.keys = ks /\ \A o \in x.outs : Gathered(a, o) \/ o \in s \union t
  <2>1. CASE x \in b.out
    BY <2>1, <1>1 DEF Grows
  <2>2. CASE x \notin b.out
    <3>1. x.outs \subseteq Outputs
      BY <1>1 DEF Runners, Batch
    <3> QED BY <2>2, <1>1, <3>1 DEF Grows
  <2> QED BY <2>1, <2>2
<1> QED BY <1>1 DEF Grows

\* A flush moves outputs from the runners to batches; none is lost.
LEMMA FlushGrows ==
  ASSUME NEW rs \in Runners, NEW ps \in SUBSET Pool, NEW ks \in SUBSET Account
  PROVE  Grows(rs, FlushPools(rs, ps, ks), {}, ks)
<1> DEFINE new == FlushPools(rs, ps, ks)
           spawned == {[keys |-> ks, outs |-> rs.acc[p]] : p \in {q \in ps : rs.acc[q] # {}}}
<1>1. /\ new.acc = [p \in Pool |-> IF p \in ps THEN {} ELSE rs.acc[p]]
      /\ new.out = rs.out \union spawned
  BY DEF FlushPools
<1>2. \A p \in Pool : rs.acc[p] \in SUBSET Outputs
  BY DEF Runners
<1>3. spawned \subseteq Batch
  BY <1>2 DEF Batch
<1>4. new \in Runners
  <2>1. new.acc \in [Pool -> SUBSET Outputs]
    BY <1>1, <1>2
  <2>2. new.out \subseteq Batch
    BY <1>1, <1>3 DEF Runners
  <2>3. new = [acc |-> new.acc, out |-> new.out]
    BY DEF FlushPools
  <2> QED BY <2>1, <2>2, <2>3 DEF Runners
<1>5. ASSUME NEW o \in Outputs PROVE Gathered(new, o) => Gathered(rs, o)
  BY <1>1 DEF Gathered
<1>6. ASSUME NEW b \in spawned PROVE b.keys = ks /\ \A o \in b.outs : Gathered(rs, o)
  BY <1>6 DEF Gathered
<1>7. ASSUME NEW o \in Outputs PROVE Sending(rs, o) => Sending(new, o)
  <2>1. ASSUME NEW p \in Pool, o \in rs.acc[p] PROVE Sending(new, o)
    <3>1. CASE p \in ps
      <4>1. [keys |-> ks, outs |-> rs.acc[p]] \in spawned
        BY <3>1, <2>1
      <4>2. [keys |-> ks, outs |-> rs.acc[p]] \in new.out
        BY <4>1, <1>1
      <4>3. o \in [keys |-> ks, outs |-> rs.acc[p]].outs
        BY <2>1
      <4> QED BY <4>2, <4>3, Zenon DEF Sending
    <3>2. CASE p \notin ps
      <4>1. o \in new.acc[p]
        BY <3>2, <2>1, <1>1
      <4> QED BY <4>1, <2>1 DEF Sending, Gathered
    <3> QED BY <3>1, <3>2
  <2>2. ASSUME NEW b \in rs.out, o \in b.outs PROVE Sending(new, o)
    <3>1. b \in new.out
      BY <1>1
    <3> QED BY <3>1, <2>2 DEF Sending
  <2> QED BY <2>1, <2>2 DEF Sending, Gathered
<1>8. ASSUME NEW o \in Outputs PROVE Sending(new, o) => Sending(rs, o)
  <2>1. ASSUME NEW b \in new.out, o \in b.outs PROVE Sending(rs, o)
    <3>1. b \in rs.out \/ b \in spawned
      BY <1>1
    <3> HIDE DEF spawned
    <3> QED BY <3>1, <1>6, <2>1 DEF Sending
  <2> QED BY <2>1, <1>5 DEF Sending
<1>9. new.out \ rs.out \subseteq spawned
  BY <1>1
<1> HIDE DEF new, spawned
<1> QED BY <1>4, <1>5, <1>6, <1>7, <1>8, <1>9 DEF Grows, new

\* A full flush leaves nothing in the runners.
LEMMA FlushEmpties ==
  ASSUME NEW rs, NEW ks
  PROVE  FlushPools(rs, Pool, ks).acc = EmptyAcc
BY DEF FlushPools, EmptyAcc

LEMMA TransactionGrows ==
  ASSUME NEW rs \in Runners, NEW outs \in SUBSET Outputs, NEW ks \in SUBSET Account
  PROVE  Grows(rs, ProcessTransaction(rs, outs, ks), outs, ks)
<1> DEFINE added == [acc |-> [p \in Pool |-> rs.acc[p] \union {o \in outs : PoolOf[o] = p}],
                     out |-> rs.out]
           ps == {p \in Pool : Cardinality(added.acc[p]) >= Threshold}
<1>1. /\ added.acc = [p \in Pool |-> rs.acc[p] \union {o \in outs : PoolOf[o] = p}]
      /\ added.out = rs.out
      /\ added = [acc |-> added.acc, out |-> added.out]
  BY DEF Runners
<1>2. added \in Runners
  <2>1. \A p \in Pool : rs.acc[p] \in SUBSET Outputs
    BY DEF Runners
  <2>2. added.acc \in [Pool -> SUBSET Outputs]
    BY <1>1, <2>1
  <2>3. added.out \in SUBSET Batch
    BY <1>1 DEF Runners
  <2> HIDE DEF added
  <2> QED BY <1>1, <2>2, <2>3 DEF Runners
<1>3. Grows(rs, added, outs, ks)
  <2>1. \A o \in Outputs : Gathered(added, o) <=> Gathered(rs, o) \/ o \in outs
    <3>1. \A o \in Outputs : PoolOf[o] \in Pool
      BY Payloads
    <3> HIDE DEF added
    <3> QED BY <1>1, <3>1 DEF Gathered
  <2> HIDE DEF added
  <2> QED BY <2>1, <1>1, <1>2 DEF Grows, Sending
<1>4. Grows(added, FlushPools(added, ps, ks), {}, ks)
  <2>1. ps \in SUBSET Pool
    OBVIOUS
  <2> HIDE DEF added, ps
  <2> QED BY <1>2, <2>1, FlushGrows
<1>5. FlushPools(added, ps, ks) \in Runners
  BY <1>4 DEF Grows
<1>6. ProcessTransaction(rs, outs, ks) = FlushPools(added, ps, ks)
  BY DEF ProcessTransaction
<1>7. outs \union {} = outs
  OBVIOUS
<1> HIDE DEF added, ps
<1>8. Grows(rs, FlushPools(added, ps, ks), outs \union {}, ks)
  BY <1>2, <1>3, <1>4, <1>5, GrowsOn
<1> QED BY <1>6, <1>7, <1>8

Now == [acc |-> runners.acc, out |-> batches]

RunnersType ==
  runners \in [keys : SUBSET Account, acc : [Pool -> SUBSET Outputs]] /\ batches \subseteq Batch

LEMMA NowType == RunnersType => Now \in Runners /\ runners.keys \in SUBSET Account
BY DEF RunnersType, Now, Runners

LEMMA RunnersRecursion ==
  ASSUME NEW a \in Runners, NEW n \in Nat, NEW step \in [1..n -> [Runners -> Runners]]
  PROVE  \E f \in [0..n -> Runners] : f[0] = a /\ \A i \in 1..n : f[i] = step[i][f[i - 1]]
BY RecursionExists

\* The recursion over the transactions of a request is well defined.
LEMMA ProgressIs ==
  ASSUME RunnersType, NEW r \in Request
  PROVE  Progress(r) = [i \in 0..Len(Contents[r]) |->
           IF i = 0 THEN Now
           ELSE ProcessTransaction(Progress(r)[i - 1], Contents[r][i], runners.keys)]
<1> DEFINE n == Len(Contents[r])
           Is(g) == g = [i \in 0..n |->
             IF i = 0 THEN Now
             ELSE ProcessTransaction(g[i - 1], Contents[r][i], runners.keys)]
           step == [i \in 1..n |->
             [x \in Runners |-> ProcessTransaction(x, Contents[r][i], runners.keys)]]
<1>1. n \in Nat /\ \A i \in 1..n : Contents[r][i] \in SUBSET Outputs
  BY Payloads
<1>2. Now \in Runners /\ runners.keys \in SUBSET Account
  BY NowType
<1>3. ASSUME NEW i \in 1..n, NEW x \in Runners
      PROVE  ProcessTransaction(x, Contents[r][i], runners.keys) \in Runners
  BY <1>1, <1>2, TransactionGrows DEF Grows
<1>4. step \in [1..n -> [Runners -> Runners]]
  BY <1>3
<1>5. PICK f \in [0..n -> Runners] :
        f[0] = Now /\ \A i \in 1..n : f[i] = step[i][f[i - 1]]
  <2> HIDE DEF step, n
  <2> QED BY <1>1, <1>2, <1>4, RunnersRecursion
<1>6. ASSUME NEW i \in 0..n
      PROVE  f[i] = IF i = 0 THEN Now
                    ELSE ProcessTransaction(f[i - 1], Contents[r][i], runners.keys)
  <2>1. CASE i = 0
    BY <1>5, <2>1
  <2>2. CASE i # 0
    <3>1. i \in 1..n /\ i - 1 \in 0..n
      BY <1>1, <2>2
    <3>2. f[i - 1] \in Runners
      BY <3>1, <1>5
    <3>3. step[i][f[i - 1]] = ProcessTransaction(f[i - 1], Contents[r][i], runners.keys)
      BY <3>1, <3>2
    <3>4. f[i] = step[i][f[i - 1]]
      BY <3>1, <1>5
    <3> QED BY <2>2, <3>3, <3>4
  <2> QED BY <2>1, <2>2
<1>7. Is(f)
  BY <1>5, <1>6
<1>8. Is(CHOOSE g : Is(g))
  <2> HIDE DEF Is
  <2> QED BY <1>7
<1>9. Progress(r) = CHOOSE g : Is(g)
  BY Zenon DEF Progress, Now
<1> QED BY <1>8, <1>9

LEMMA ProcessGrows ==
  ASSUME RunnersType, NEW r \in Request, Process(r)
  PROVE  /\ RunnersType' /\ runners'.keys = runners.keys
         /\ Grows(Now, Now', OutputsOf(r), runners.keys)
<1> DEFINE n == Len(Contents[r])
           run == Progress(r)
           first(k) == UNION {Contents[r][i] : i \in 1..k}
           N == {k \in Nat : k <= n => Grows(Now, run[k], first(k), runners.keys)}
<1>1. n \in Nat /\ \A i \in 1..n : Contents[r][i] \in SUBSET Outputs
  BY Payloads
<1>2. Now \in Runners /\ runners.keys \in SUBSET Account
  BY NowType
<1>3. /\ run[0] = Now
      /\ \A i \in 1..n : run[i] = ProcessTransaction(run[i - 1], Contents[r][i], runners.keys)
  BY <1>1, ProgressIs
<1>4. 0 \in N
  <2>1. Grows(Now, Now, {}, runners.keys)
    BY <1>2 DEF Grows
  <2>2. first(0) = {}
    OBVIOUS
  <2> QED BY <2>1, <2>2, <1>3
<1>5. ASSUME NEW k \in N \intersect Nat PROVE k + 1 \in N
  <2>1. ASSUME k + 1 <= n PROVE Grows(Now, run[k + 1], first(k + 1), runners.keys)
    <3>1. k + 1 \in 1..n /\ k <= n /\ (k + 1) - 1 = k
      BY <2>1
    <3>2. Grows(Now, run[k], first(k), runners.keys)
      BY <3>1
    <3>3. run[k + 1] = ProcessTransaction(run[k], Contents[r][k + 1], runners.keys)
      BY <3>1, <1>3
    <3>4. run[k] \in Runners
      BY <3>2 DEF Grows
    <3>5. Grows(run[k], run[k + 1], Contents[r][k + 1], runners.keys)
      BY <1>1, <1>2, <3>1, <3>3, <3>4, TransactionGrows
    <3>6. run[k + 1] \in Runners
      BY <3>5 DEF Grows
    <3>7. first(k) \in SUBSET Outputs /\ Contents[r][k + 1] \in SUBSET Outputs
      BY <1>1, <3>1
    <3>8. first(k + 1) = first(k) \union Contents[r][k + 1]
      <4>1. 1..(k + 1) = (1..k) \union {k + 1}
        OBVIOUS
      <4> QED BY <4>1
    <3> HIDE DEF run, first
    <3> QED BY <1>2, <3>2, <3>4, <3>5, <3>6, <3>7, <3>8, GrowsOn
  <2>2. k + 1 \in Nat
    OBVIOUS
  <2> HIDE DEF run, first, n
  <2> QED BY <2>1, <2>2
<1>6. n \in N
  <2> HIDE DEF N
  <2> QED BY <1>1, <1>4, <1>5, NumberInduction
<1>7. Grows(Now, run[n], first(n), runners.keys)
  <2> HIDE DEF n, run, first
  <2> QED BY <1>1, <1>6
<1>8. first(n) = OutputsOf(r)
  BY Payloads DEF OutputsOf
<1>9. run[n] \in Runners
  BY <1>7 DEF Grows
<1>10. runners' = [runners EXCEPT !.acc = run[n].acc] /\ batches' = run[n].out
  BY DEF Process
<1> HIDE DEF run, n, first
<1>11. /\ runners'.acc = run[n].acc /\ runners'.keys = runners.keys
       /\ runners' \in [keys : SUBSET Account, acc : [Pool -> SUBSET Outputs]]
  BY <1>9, <1>10 DEF RunnersType, Runners
<1>12. Now' = run[n]
  BY <1>9, <1>10, <1>11 DEF Now, Runners
<1> QED BY <1>7, <1>8, <1>9, <1>10, <1>11, <1>12 DEF RunnersType, Runners

-----------------------------------------------------------------------------
(* Lines of requests: the queue, and the callers waiting for a permit *)

Line(s) == s \in Seq(Request) /\ \A i, j \in DOMAIN s : s[i] = s[j] => i = j

LEMMA EmptyLine == Line(<<>>) /\ Range(<<>>) = {} /\ Len(<<>>) = 0
BY DEF Line, Range

LEMMA JoinLine ==
  ASSUME NEW s, Line(s), NEW r \in Request, r \notin Range(s)
  PROVE  /\ Line(Append(s, r)) /\ Len(Append(s, r)) = Len(s) + 1
         /\ Range(Append(s, r)) = Range(s) \union {r}
<1> DEFINE t == Append(s, r)
<1>1. s \in Seq(Request) /\ Len(s) \in Nat /\ DOMAIN s = 1..Len(s)
  BY DEF Line
<1>2. t \in Seq(Request) /\ Len(t) = Len(s) + 1 /\ DOMAIN t = 1..(Len(s) + 1)
  BY <1>1
<1>3. \A i \in 1..(Len(s) + 1) : t[i] = IF i <= Len(s) THEN s[i] ELSE r
  BY <1>1
<1>4. \A i \in 1..Len(s) : s[i] # r
  BY <1>1 DEF Range
<1>5. ASSUME NEW i \in DOMAIN t, NEW j \in DOMAIN t, t[i] = t[j] PROVE i = j
  BY <1>1, <1>2, <1>3, <1>4, <1>5 DEF Line
<1>6. Range(t) = Range(s) \union {r}
  <2>1. t[Len(s) + 1] = r
    BY <1>1, <1>3
  <2> HIDE DEF t
  <2> QED BY <1>1, <1>2, <1>3, <2>1 DEF Range
<1> QED BY <1>2, <1>5, <1>6 DEF Line

LEMMA LeaveLine ==
  ASSUME NEW s, Line(s), s # <<>>
  PROVE  /\ Head(s) \in Request /\ Head(s) \in Range(s)
         /\ Line(Tail(s)) /\ Len(Tail(s)) = Len(s) - 1
         /\ Range(Tail(s)) = Range(s) \ {Head(s)}
<1> DEFINE t == Tail(s)
<1>1. s \in Seq(Request) /\ Len(s) \in Nat \ {0} /\ DOMAIN s = 1..Len(s)
  BY DEF Line
<1>2. t \in Seq(Request) /\ Len(t) = Len(s) - 1 /\ DOMAIN t = 1..(Len(s) - 1)
  BY <1>1
<1>3. \A i \in 1..(Len(s) - 1) : t[i] = s[i + 1]
  BY <1>1
<1>4. Head(s) = s[1] /\ s[1] \in Request
  BY <1>1
<1>5. ASSUME NEW i \in DOMAIN t, NEW j \in DOMAIN t, t[i] = t[j] PROVE i = j
  <2>1. i + 1 \in DOMAIN s /\ j + 1 \in DOMAIN s
    BY <1>1, <1>2
  <2> QED BY <1>1, <1>2, <1>3, <1>5, <2>1 DEF Line
<1>6. Range(t) = Range(s) \ {Head(s)}
  <2>1. ASSUME NEW i \in 1..(Len(s) - 1)
        PROVE  i + 1 \in DOMAIN s /\ t[i] = s[i + 1] /\ s[i + 1] # s[1]
    BY <1>1, <1>3 DEF Line
  <2>2. ASSUME NEW j \in DOMAIN s, s[j] # s[1]
        PROVE  j - 1 \in 1..(Len(s) - 1) /\ t[j - 1] = s[j]
    <3>1. j \in 2..Len(s)
      BY <1>1, <2>2
    <3> QED BY <1>1, <1>3, <3>1
  <2> HIDE DEF t
  <2>3. Range(t) \subseteq Range(s) \ {Head(s)}
    BY <1>2, <1>4, <2>1 DEF Range
  <2>4. Range(s) \ {Head(s)} \subseteq Range(t)
    BY <1>2, <1>4, <2>2 DEF Range
  <2> QED BY <2>3, <2>4
<1>7. Head(s) \in Range(s)
  BY <1>1, <1>4 DEF Range
<1> QED BY <1>2, <1>4, <1>5, <1>6, <1>7 DEF Line

-----------------------------------------------------------------------------
(* Types *)

Lines == Line(waiters) /\ Line(queue) /\ IsFiniteSet(Permits)

TypeInv == TypeOK /\ Lines /\ RunnersType

LEMMA InitType == Init => TypeInv
<1> SUFFICES ASSUME Init PROVE TypeInv
  OBVIOUS
<1>1. Lines /\ Permits = {}
  BY EmptyLine, FS_EmptySet DEF Init, Lines, Permits
<1>2. RunnersType
  BY DEF Init, RunnersType, EmptyAcc
<1>3. Range(waiters) = {} /\ Range(queue) = {} /\ Len(queue) + Cardinality(Permits) <= QueueSize
  BY <1>1, EmptyLine, FS_EmptySet, Bounds DEF Init
<1> QED BY <1>1, <1>2, <1>3, Payloads DEF Init, TypeInv, TypeOK, EmptyAcc, Idle

\* A request gets a permit, or uses it.
LEMMA PermitOne ==
  ASSUME TypeInv, NEW r \in Request, status' = [status EXCEPT ![r] = "permit"], status[r] # "permit"
  PROVE  IsFiniteSet(Permits') /\ Cardinality(Permits') = Cardinality(Permits) + 1
<1>1. Permits' = Permits \union {r} /\ r \notin Permits
  BY DEF Permits, TypeInv, TypeOK
<1> QED BY <1>1, FS_AddElement DEF TypeInv, Lines

LEMMA PermitsKept ==
  ASSUME \A r \in Request : status'[r] = "permit" <=> status[r] = "permit"
  PROVE  Permits' = Permits
BY DEF Permits

\* The types of what the engine does to the runners.
LEMMA FlushType ==
  ASSUME RunnersType
  PROVE  /\ Grows(Now, Flushed, {}, runners.keys)
         /\ Flushed.acc = EmptyAcc /\ Flushed.out \subseteq Batch
         /\ EmptyAcc \in [Pool -> SUBSET Outputs]
<1>1. Grows(Now, FlushPools(Now, Pool, runners.keys), {}, runners.keys)
  BY NowType, FlushGrows
<1>2. Flushed = FlushPools(Now, Pool, runners.keys)
  BY DEF Flushed, Now
<1>3. Flushed \in Runners
  BY <1>1, <1>2 DEF Grows
<1> QED BY <1>1, <1>2, <1>3, FlushEmpties DEF Runners, EmptyAcc

\* The channel closes: nobody is left in line, and permits stay where they are.
LEMMA CloseType ==
  ASSUME TypeInv, CloseChannel(Range(queue)), handles' = handles
  PROVE  /\ Lines' /\ Len(queue') + Cardinality(Permits') <= QueueSize
         /\ status' \in [Request -> Idle \union {"waiting", "permit", "queued", "taken"}]
         /\ Range(waiters') = {r \in Request : status'[r] = "waiting"}
         /\ Range(queue') = {r \in Request : status'[r] = "queued"}
<1> USE DEF TypeInv, TypeOK, CloseChannel
<1>1. \A r \in Request : status'[r] = CASE status[r] = "waiting" -> "refused"
                                        [] status[r] = "queued"  -> "error"
                                        [] OTHER                 -> status[r]
  OBVIOUS
<1>2. \A r \in Request : /\ status'[r] # "waiting" /\ status'[r] # "queued"
                         /\ status'[r] = "permit" <=> status[r] = "permit"
                         /\ status'[r] \in Idle \union {"waiting", "permit", "queued", "taken"}
  BY <1>1 DEF Idle
<1>3. Permits' = Permits
  BY <1>2, PermitsKept
<1>4. Lines'
  BY <1>3, EmptyLine DEF Lines
<1>5. Len(queue') + Cardinality(Permits') <= QueueSize
  <2>1. Len(queue) \in Nat /\ Cardinality(Permits) \in Nat
    BY FS_CardinalityType DEF Lines, Line
  <2> QED BY <1>3, <2>1, EmptyLine, Bounds
<1>6. status' = [r \in Request |-> status'[r]]
  OBVIOUS
<1> QED BY <1>2, <1>4, <1>5, <1>6, EmptyLine

Statuses == Idle \union {"waiting", "permit", "queued", "taken"}

ClientType ==
  /\ Lines
  /\ wallet \subseteq Account /\ handles \subseteq Handle
  /\ status \in [Request -> Statuses]
  /\ Range(waiters) = {r \in Request : status[r] = "waiting"}
  /\ Range(queue) = {r \in Request : status[r] = "queued"}
  /\ Len(queue) + Cardinality(Permits) <= QueueSize

WorkType ==
  /\ RunnersType
  /\ engine \in {"unstarted", "running", "failed", "abandoned"}
  /\ keys \subseteq Account
  /\ timer \in 0..StartDelay \union {Nothing}
  /\ applied \in [Request -> SUBSET Account] /\ found \subseteq Outputs

LEMMA TypeSplit == TypeInv <=> ClientType /\ WorkType
BY DEF TypeInv, TypeOK, ClientType, WorkType, Statuses, RunnersType, Batch

LEMMA Sizes == TypeInv => /\ Len(queue) \in Nat /\ Len(waiters) \in Nat
                          /\ Cardinality(Permits) \in Nat
BY FS_CardinalityType DEF TypeInv, Lines, Line

\* A step that moves no request between the line, the permits and the queue.
LEMMA SamePlaces ==
  ASSUME ClientType, UNCHANGED <<queue, waiters>>,
         wallet' \subseteq Account, handles' \subseteq Handle,
         status' \in [Request -> Statuses],
         \A r \in Request : status'[r] = status[r]
                            \/ {status'[r], status[r]} \subseteq Idle \union {"taken"}
  PROVE  ClientType'
<1>1. \A r \in Request, s \in {"waiting", "permit", "queued"} : status'[r] = s <=> status[r] = s
  BY DEF Idle
<1>2. Permits' = Permits
  BY <1>1, PermitsKept
<1> QED BY <1>1, <1>2 DEF ClientType, Lines

LEMMA ClientStep == TypeInv /\ [Next]_vars => ClientType'
<1> SUFFICES ASSUME TypeInv, [Next]_vars PROVE ClientType'
  OBVIOUS
<1>0. ClientType /\ WorkType
  BY TypeSplit
<1> USE DEF ClientType
<1>k. ASSUME UNCHANGED <<wallet, handles, status, waiters, queue>> PROVE ClientType'
  BY <1>0, <1>k, SamePlaces
<1>h. ASSUME queue # <<>>
      PROVE  /\ Head(queue) \in Request /\ status[Head(queue)] = "queued"
             /\ Line(Tail(queue)) /\ Len(Tail(queue)) = Len(queue) - 1
             /\ Range(Tail(queue)) = Range(queue) \ {Head(queue)}
  BY <1>0, <1>h, LeaveLine DEF Lines
<1>t. ASSUME queue # <<>>, queue' = Tail(queue), UNCHANGED <<wallet, handles, waiters>>,
             NEW s \in {"taken", "answered"}, status' = [status EXCEPT ![Head(queue)] = s]
      PROVE  ClientType'
  <2>1. /\ status' \in [Request -> Statuses]
        /\ \A r \in Request : /\ status'[r] = "permit" <=> status[r] = "permit"
                              /\ status'[r] = "waiting" <=> status[r] = "waiting"
                              /\ status'[r] = "queued" <=> status[r] = "queued" /\ r # Head(queue)
    BY <1>0, <1>h, <1>t DEF Statuses, Idle
  <2>2. Permits' = Permits
    BY <2>1, PermitsKept
  <2>3. Lines'
    BY <1>0, <1>h, <1>t, <2>2 DEF Lines
  <2>4. Len(queue') + Cardinality(Permits') <= QueueSize
    BY <1>0, <1>h, <1>t, <2>2, Sizes, Bounds
  <2> QED BY <1>0, <1>h, <1>t, <2>1, <2>3, <2>4
<1>c. ASSUME CloseChannel(Range(queue)), UNCHANGED <<wallet, handles>> PROVE ClientType'
  BY <1>0, <1>c, CloseType DEF Statuses
<1>1. CASE ChangeAccounts
  BY <1>0, <1>1, Payloads, SamePlaces DEF ChangeAccounts, clients
<1>2. CASE Acquire
  <2> DEFINE r == Head(waiters)
  <2>1. /\ r \in Request /\ status[r] = "waiting" /\ Line(waiters')
        /\ Range(waiters') = Range(waiters) \ {r}
    BY <1>0, <1>2, LeaveLine DEF Acquire, Lines
  <2>2. status' = [status EXCEPT ![r] = "permit"] /\ UNCHANGED <<wallet, handles, queue>>
    BY <1>2 DEF Acquire
  <2>3. IsFiniteSet(Permits') /\ Cardinality(Permits') = Cardinality(Permits) + 1
    BY <2>1, <2>2, PermitOne
  <2>4. Lines'
    BY <1>0, <2>1, <2>2, <2>3 DEF Lines
  <2>5. Len(queue') + Cardinality(Permits') <= QueueSize
    BY <1>2, <2>2, <2>3, Sizes, Bounds DEF Acquire, HasRoom
  <2>6. status' \in [Request -> Statuses]
    BY <1>0, <2>2 DEF Statuses
  <2> HIDE DEF r
  <2> QED BY <1>0, <2>1, <2>2, <2>4, <2>5, <2>6
<1>3. ASSUME NEW r \in Request, Send(r) PROVE ClientType'
  <2>1. CASE Closed
    BY <1>0, <1>3, <2>1, SamePlaces DEF Send, Statuses, Idle
  <2>2. CASE ~Closed
    <3>1. /\ status[r] = "idle" /\ status' = [status EXCEPT ![r] = "waiting"]
          /\ waiters' = Append(waiters, r) /\ UNCHANGED <<wallet, handles, queue>>
      BY <1>3, <2>2 DEF Send
    <3>2. r \notin Range(waiters)
      BY <1>0, <3>1
    <3>3. Line(waiters') /\ Range(waiters') = Range(waiters) \union {r}
      BY <1>0, <3>1, <3>2, JoinLine DEF Lines
    <3>4. \A q \in Request : /\ status'[q] = "permit" <=> status[q] = "permit"
                             /\ status'[q] = "queued" <=> status[q] = "queued"
                             /\ status'[q] = "waiting" <=> status[q] = "waiting" \/ q = r
      BY <1>0, <3>1
    <3>5. Permits' = Permits
      BY <3>4, PermitsKept
    <3>6. status' \in [Request -> Statuses]
      BY <1>0, <3>1 DEF Statuses
    <3> QED BY <1>0, <3>1, <3>3, <3>4, <3>5, <3>6 DEF Lines
  <2> QED BY <2>1, <2>2
<1>4. ASSUME NEW r \in Request, TrySend(r) PROVE ClientType'
  <2>1. CASE Closed
    BY <1>0, <1>4, <2>1, SamePlaces DEF TrySend, Statuses, Idle, clients
  <2>2. CASE ~Closed
    <3>1. /\ status[r] = "idle" /\ status' = [status EXCEPT ![r] = "permit"] /\ HasRoom
          /\ UNCHANGED <<wallet, handles, waiters, queue>>
      BY <1>4, <2>2 DEF TrySend, clients
    <3>2. IsFiniteSet(Permits') /\ Cardinality(Permits') = Cardinality(Permits) + 1
      BY <3>1, PermitOne
    <3>3. Len(queue') + Cardinality(Permits') <= QueueSize
      BY <3>1, <3>2, Sizes, Bounds DEF HasRoom
    <3>4. /\ status' \in [Request -> Statuses]
          /\ \A q \in Request : /\ status'[q] = "waiting" <=> status[q] = "waiting"
                                /\ status'[q] = "queued" <=> status[q] = "queued"
      BY <1>0, <3>1 DEF Statuses
    <3> QED BY <1>0, <3>1, <3>2, <3>3, <3>4 DEF Lines
  <2> QED BY <2>1, <2>2
<1>5. ASSUME NEW r \in Request, Push(r) PROVE ClientType'
  <2>1. /\ status[r] = "permit" /\ status' = [status EXCEPT ![r] = "queued"]
        /\ queue' = Append(queue, r) /\ UNCHANGED <<wallet, handles, waiters>>
    BY <1>5 DEF Push, clients
  <2>2. r \notin Range(queue)
    BY <1>0, <2>1
  <2>3. Line(queue') /\ Range(queue') = Range(queue) \union {r} /\ Len(queue') = Len(queue) + 1
    BY <1>0, <2>1, <2>2, JoinLine DEF Lines
  <2>4. Permits' = Permits \ {r} /\ r \in Permits
    BY <1>0, <2>1 DEF Permits
  <2>5. IsFiniteSet(Permits') /\ Cardinality(Permits') = Cardinality(Permits) - 1
    BY <1>0, <2>4, FS_RemoveElement DEF Lines
  <2>6. Len(queue') + Cardinality(Permits') <= QueueSize
    BY <1>0, <2>3, <2>5, Sizes, Bounds
  <2>7. /\ status' \in [Request -> Statuses]
        /\ \A q \in Request : /\ status'[q] = "waiting" <=> status[q] = "waiting"
                              /\ status'[q] = "queued" <=> status[q] = "queued" \/ q = r
    BY <1>0, <2>1 DEF Statuses
  <2> QED BY <1>0, <2>1, <2>3, <2>5, <2>6, <2>7 DEF Lines
<1>6. ASSUME NEW r \in Request, Consume(r) PROVE ClientType'
  BY <1>0, <1>6, SamePlaces DEF Consume, Statuses, Idle, clients
<1>7. ASSUME NEW r \in Request, Deliver(r) PROVE ClientType'
  BY <1>0, <1>7, SamePlaces DEF Deliver, Statuses, Idle, clients
<1>8. ASSUME NEW h \in Handle, DropHandle(h) PROVE ClientType'
  <2>1. CASE ~(Closed /\ handles = {h})
    BY <1>0, <1>8, <2>1, SamePlaces DEF DropHandle
  <2>2. CASE Closed /\ handles = {h}
    <3>1. /\ queue' = <<>> /\ UNCHANGED <<wallet, waiters>> /\ handles' \subseteq handles
          /\ status' = [r \in Request |-> IF status[r] = "queued" THEN "error" ELSE status[r]]
      BY <1>8, <2>2 DEF DropHandle
    <3>2. /\ status' \in [Request -> Statuses]
          /\ \A q \in Request : /\ status'[q] = "waiting" <=> status[q] = "waiting"
                                /\ status'[q] = "permit" <=> status[q] = "permit"
                                /\ status'[q] # "queued"
      BY <1>0, <3>1 DEF Statuses, Idle
    <3>3. Permits' = Permits
      BY <3>2, PermitsKept
    <3>4. Len(queue') + Cardinality(Permits') <= QueueSize
      BY <1>0, <3>1, <3>3, EmptyLine, Sizes, Bounds
    <3>5. Lines'
      BY <1>0, <3>1, <3>3, EmptyLine DEF Lines
    <3> QED BY <1>0, <3>1, <3>2, <3>4, <3>5, EmptyLine
  <2> QED BY <2>1, <2>2
<1>9. CASE Start
  BY <1>k, <1>9 DEF Start, clients
<1>10. CASE StartFails
  BY <1>c, <1>10 DEF StartFails
<1>11. CASE ReceiveData
  BY <1>t, <1>11 DEF ReceiveData, clients
<1>12. CASE ReceiveReload
  BY <1>t, <1>12 DEF ReceiveReload, clients
<1>13. CASE ReloadFails
  BY <1>c, <1>13 DEF ReloadFails
<1>14. CASE Tick
  BY <1>k, <1>14 DEF Tick, clients
<1>15. CASE IdleFlush
  BY <1>k, <1>15 DEF IdleFlush, clients
<1>16. CASE Abandoned
  BY <1>k, <1>16 DEF Abandoned, clients
<1>17. ASSUME NEW b \in batches, Run(b) PROVE ClientType'
  BY <1>k, <1>17 DEF Run, clients
<1>18. CASE UNCHANGED vars
  BY <1>k, <1>18 DEF vars
<1> QED
  BY <1>1, <1>2, <1>3, <1>4, <1>5, <1>6, <1>7, <1>8, <1>9, <1>10, <1>11, <1>12, <1>13,
     <1>14, <1>15, <1>16, <1>17, <1>18 DEF Next

LEMMA WorkStep == TypeInv /\ [Next]_vars => WorkType'
<1> SUFFICES ASSUME TypeInv, [Next]_vars PROVE WorkType'
  OBVIOUS
<1>0. ClientType /\ WorkType /\ wallet \subseteq Account
  BY TypeSplit DEF ClientType
<1>k. ASSUME UNCHANGED <<engine, work>> PROVE WorkType'
  BY <1>0, <1>k DEF WorkType, work, RunnersType
<1>f. ASSUME Flush PROVE RunnersType'
  <2>1. Flushed.acc \in [Pool -> SUBSET Outputs] /\ Flushed.out \subseteq Batch
    BY <1>0, FlushType DEF WorkType
  <2> QED BY <1>0, <1>f, <2>1 DEF Flush, WorkType, RunnersType
<1>1. CASE ChangeAccounts \/ Acquire
  BY <1>k, <1>1 DEF ChangeAccounts, Acquire
<1>2. ASSUME NEW r \in Request, Send(r) \/ TrySend(r) \/ Push(r) \/ Deliver(r) PROVE WorkType'
  BY <1>k, <1>2 DEF Send, TrySend, Push, Deliver
<1>3. ASSUME NEW r \in Request, Consume(r) PROVE WorkType'
  BY <1>0, <1>3 DEF Consume, WorkType, RunnersType
<1>4. ASSUME NEW h \in Handle, DropHandle(h) PROVE WorkType'
  BY <1>k, <1>4 DEF DropHandle
<1>5. CASE Start
  <2>1. RunnersType'
    BY <1>0, <1>5, FlushType DEF Start, WorkType, RunnersType
  <2> QED BY <1>0, <1>5, <2>1 DEF Start, WorkType
<1>6. CASE StartFails
  BY <1>0, <1>6 DEF StartFails, WorkType, work, RunnersType
<1>7. CASE ReceiveData
  <2> DEFINE r == Head(queue)
  <2>1. r \in Request
    BY <1>0, <1>7, LeaveLine DEF ReceiveData, ClientType, Lines
  <2>2. RunnersType'
    BY <1>0, <1>7, <2>1, ProcessGrows DEF ReceiveData, WorkType
  <2>3. timer' \in 0..StartDelay \union {Nothing}
    BY <1>0, <1>7, Bounds DEF ReceiveData, Arm, WorkType
  <2> QED BY <1>0, <1>7, <2>1, <2>2, <2>3 DEF ReceiveData, WorkType
<1>8. CASE ReceiveReload
  <2>1. Head(queue) \in Request
    BY <1>0, <1>8, LeaveLine DEF ReceiveReload, ClientType, Lines
  <2>2. RunnersType'
    BY <1>0, <1>8, FlushType DEF ReceiveReload, WorkType, RunnersType
  <2> QED BY <1>0, <1>8, <2>1, <2>2 DEF ReceiveReload, WorkType
<1>9. CASE ReloadFails
  BY <1>0, <1>9, <1>f DEF ReloadFails, WorkType
<1>10. CASE Tick
  <2>1. timer' \in 0..StartDelay
    BY <1>0, <1>10, Bounds DEF Tick, WorkType
  <2> QED BY <1>0, <1>10, <2>1 DEF Tick, WorkType, RunnersType
<1>11. CASE IdleFlush
  BY <1>0, <1>11, <1>f DEF IdleFlush, WorkType
<1>12. CASE Abandoned
  BY <1>0, <1>12, FlushType DEF Abandoned, WorkType, RunnersType
<1>13. ASSUME NEW b \in batches, Run(b) PROVE WorkType'
  <2>1. b.outs \subseteq Outputs
    BY <1>0 DEF WorkType, RunnersType, Batch
  <2> QED BY <1>0, <1>13, <2>1 DEF Run, WorkType, RunnersType
<1>14. CASE UNCHANGED vars
  BY <1>k, <1>14 DEF vars, work
<1> QED
  BY <1>1, <1>2, <1>3, <1>4, <1>5, <1>6, <1>7, <1>8, <1>9, <1>10, <1>11, <1>12, <1>13,
     <1>14 DEF Next

\* Every reachable state is well typed; in particular the queue and the permits
\* handed out never exceed the channel's capacity, and a request is in the line
\* its status says.
THEOREM TypeCorrect == Spec => []TypeOK
<1>1. Init => TypeInv
  BY InitType
<1>2. TypeInv /\ [Next]_vars => TypeInv'
  <2>1. TypeInv /\ [Next]_vars => ClientType' /\ WorkType'
    BY ClientStep, WorkStep
  <2>2. TypeInv' <=> ClientType' /\ WorkType'
    BY TypeSplit, PTL
  <2> QED BY <2>1, <2>2
<1>3. TypeInv => TypeOK
  BY DEF TypeInv
<1> QED BY <1>1, <1>2, <1>3, PTL DEF Spec

-----------------------------------------------------------------------------
(* What becomes of the outputs of a request *)

Keyed == runners.keys = keys

Stages ==
  /\ engine = "abandoned" => handles = {}
  /\ engine = "unstarted" => \A r \in Request : status[r] # "taken"

\* A request leaves outputs with the engine only between being taken and being
\* answered, and decrypted ones only until its answer is consumed.
NoTrace ==
  \A r \in Request : \A o \in OutputsOf(r) :
    /\ status[r] # "taken" => ~Sending(Now, o)
    /\ status[r] \notin {"taken", "answered"} => o \notin found

\* An output of a taken request is tried with the keys the request was taken
\* under, wherever it is, and while the engine is not abandoned none is lost.
TakenRight ==
  \A r \in Request : status[r] = "taken" =>
    /\ r \notin Reload
    /\ \A o \in OutputsOf(r) :
         /\ o \in found => Recipient[o] \in applied[r]
         /\ Gathered(Now, o) => keys = applied[r]
         /\ \A b \in batches : o \in b.outs => b.keys = applied[r]
         /\ engine # "abandoned" /\ Recipient[o] \in applied[r] =>
              o \in found \/ Sending(Now, o)

\* Only together are these inductive.
IInv == TypeInv /\ Keyed /\ Stages /\ NoTrace /\ TakenRight

LEMMA OutputsType ==
  /\ \A r \in Request : OutputsOf(r) \subseteq Outputs
  /\ \A r \in Request, s \in Request :
       r # s => \A o \in OutputsOf(r) : o \notin OutputsOf(s)
  /\ \A r \in Reload : OutputsOf(r) = {}
<1>1. ASSUME NEW r \in Request PROVE OutputsOf(r) \subseteq Outputs
  <2>1. \A i \in DOMAIN Contents[r] : Contents[r][i] \subseteq Outputs
    BY Payloads
  <2> QED BY <2>1 DEF OutputsOf
<1>2. ASSUME NEW r \in Reload PROVE OutputsOf(r) = {}
  BY Payloads DEF OutputsOf
<1> QED BY <1>1, <1>2, Payloads

LEMMA OutstandingIs ==
  RunnersType => \A o : o \in Outstanding <=> Sending(Now, o)
<1> SUFFICES ASSUME RunnersType, NEW o PROVE o \in Outstanding <=> Sending(Now, o)
  OBVIOUS
<1>1. o \in UNION Range(runners.acc) <=> \E p \in Pool : o \in runners.acc[p]
  BY DEF RunnersType, Range
<1>2. o \in UNION {b.outs : b \in batches} <=> \E b \in batches : o \in b.outs
  OBVIOUS
<1>3. Now.acc = runners.acc /\ Now.out = batches
  BY DEF Now
<1>4. Sending(Now, o) <=> \/ \E p \in Pool : o \in runners.acc[p]
                          \/ \E b \in batches : o \in b.outs
  BY <1>3 DEF Sending, Gathered
<1>5. o \in Outstanding <=> \/ o \in UNION Range(runners.acc)
                           \/ o \in UNION {b.outs : b \in batches}
  BY DEF Outstanding
<1> QED BY <1>1, <1>2, <1>4, <1>5, Zenon

LEMMA InitIInv == Init => IInv
<1> SUFFICES ASSUME Init PROVE IInv
  OBVIOUS
<1>1. TypeInv
  BY InitType
<1>2. \A o : ~Sending(Now, o)
  BY DEF Init, Sending, Gathered, Now, EmptyAcc
<1> QED BY <1>1, <1>2 DEF Init, IInv, Keyed, Stages, NoTrace, TakenRight

Traces == Keyed /\ NoTrace /\ TakenRight

\* A step that does not touch the runners, the batches and what was found, and
\* moves no request into or out of "taken" and "answered".
LEMMA Quiet ==
  ASSUME IInv, UNCHANGED <<keys, runners, batches, applied, found>>,
         \A r \in Request : /\ status'[r] = "taken" <=> status[r] = "taken"
                            /\ status'[r] = "answered" <=> status[r] = "answered",
         engine' # "abandoned" => engine # "abandoned"
  PROVE  Traces'
<1>1. Now' = Now
  BY DEF Now
<1>2. \A o : (Sending(Now, o))' <=> Sending(Now, o)
  BY <1>1 DEF Sending, Gathered
<1>3. \A o : (Gathered(Now, o))' <=> Gathered(Now, o)
  BY <1>1 DEF Gathered
<1> QED BY <1>2, <1>3 DEF IInv, Traces, Keyed, NoTrace, TakenRight

\* A flush sends away what was gathered, and nothing else changes.
LEMMA FlushEffect ==
  ASSUME IInv, batches' = Flushed.out, runners'.acc = EmptyAcc
  PROVE  /\ \A o \in Outputs : (Sending(Now, o))' <=> Sending(Now, o)
         /\ \A o : ~(Gathered(Now, o))'
         /\ \A b \in batches' : b \in batches \/ (b.keys = keys /\ \A o \in b.outs : Gathered(Now, o))
<1>1. RunnersType /\ keys = runners.keys
  BY DEF IInv, TypeInv, Keyed
<1>2. Grows(Now, Flushed, {}, keys) /\ Flushed.acc = EmptyAcc
  BY <1>1, FlushType
<1>3. Now'.acc = EmptyAcc /\ Now'.out = Flushed.out /\ Now.out = batches
  BY DEF Now
<1>4. \A o : (Sending(Now, o))' <=> Sending(Flushed, o)
  BY <1>2, <1>3 DEF Sending, Gathered
<1>5. \A o : ~(Gathered(Now, o))'
  BY <1>3 DEF Gathered, EmptyAcc
<1> QED BY <1>2, <1>3, <1>4, <1>5 DEF Grows

LEMMA FlushTraces ==
  ASSUME IInv, batches' = Flushed.out, runners'.acc = EmptyAcc, runners'.keys = keys',
         UNCHANGED found,
         \A r \in Request : /\ status'[r] = "taken" <=> status[r] = "taken"
                            /\ status[r] \in {"taken", "answered"} => status'[r] \in {"taken", "answered"},
         \A r \in Request : status[r] = "taken" => applied'[r] = applied[r],
         engine' # "abandoned" => engine # "abandoned"
  PROVE  Traces'
<1>1. Keyed'
  BY DEF Keyed
<1>2. NoTrace'
  BY FlushEffect, OutputsType DEF IInv, NoTrace
<1>3. TakenRight'
  <2>1. SUFFICES ASSUME NEW r \in Request, status[r] = "taken", NEW o \in OutputsOf(r)
        PROVE  /\ o \in found' => Recipient[o] \in applied[r]
               /\ \A b \in batches' : o \in b.outs => b.keys = applied[r]
               /\ engine' # "abandoned" /\ Recipient[o] \in applied[r] =>
                    o \in found' \/ (Sending(Now, o))'
    BY FlushEffect DEF IInv, TakenRight
  <2>2. /\ o \in Outputs
        /\ o \in found => Recipient[o] \in applied[r]
        /\ Gathered(Now, o) => keys = applied[r]
        /\ \A b \in batches : o \in b.outs => b.keys = applied[r]
        /\ engine # "abandoned" /\ Recipient[o] \in applied[r] =>
              o \in found \/ Sending(Now, o)
    BY <2>1, OutputsType DEF IInv, TakenRight
  <2> QED BY <2>2, FlushEffect
<1> QED BY <1>1, <1>2, <1>3 DEF Traces

LEMMA TakeTraces ==
  ASSUME IInv, ReceiveData
  PROVE  Traces'
<1> DEFINE h == Head(queue)
<1>1. /\ h \in Request /\ status[h] = "queued" /\ h \notin Reload
      /\ Process(h) /\ applied' = [applied EXCEPT ![h] = keys]
      /\ status' = [status EXCEPT ![h] = "taken"] /\ UNCHANGED <<engine, keys, found>>
  <2>1. ClientType
    BY TypeSplit DEF IInv
  <2>2. h \in Request /\ h \in Range(queue)
    BY <2>1, LeaveLine DEF ClientType, Lines, ReceiveData
  <2> QED BY <2>1, <2>2 DEF ClientType, ReceiveData
<1> HIDE DEF h
<1>2. /\ RunnersType /\ runners.keys = keys
      /\ status \in [Request -> Statuses] /\ applied \in [Request -> SUBSET Account]
  BY DEF IInv, TypeInv, TypeOK, Keyed, Statuses
<1>3. /\ runners'.keys = keys
      /\ Grows(Now, Now', OutputsOf(h), keys)
  BY <1>1, <1>2, ProcessGrows
<1>4. \A o \in Outputs : (Sending(Now, o))' <=> Sending(Now, o) \/ o \in OutputsOf(h)
  BY <1>3 DEF Grows, Sending, Gathered
<1>5. \A o \in Outputs : (Gathered(Now, o))' => Gathered(Now, o) \/ o \in OutputsOf(h)
  BY <1>3 DEF Grows, Gathered
<1>6. \A b \in batches' : b \in batches
                          \/ (b.keys = keys /\ \A o \in b.outs : Gathered(Now, o) \/ o \in OutputsOf(h))
  <2>1. Now.out = batches /\ Now'.out = batches'
    BY DEF Now
  <2> QED BY <1>3, <2>1 DEF Grows
<1>7. \A o \in Outputs : Gathered(Now, o) => Sending(Now, o)
  BY DEF Sending
<1>8. NoTrace'
  <2>1. ASSUME NEW r \in Request, NEW o \in OutputsOf(r), r # h
        PROVE  o \in Outputs /\ o \notin OutputsOf(h) /\ status'[r] = status[r]
    BY <1>1, <1>2, <2>1, OutputsType
  <2> QED BY <1>1, <1>2, <1>4, <2>1 DEF IInv, NoTrace
<1>9. TakenRight'
  <2>1. ASSUME NEW r \in Request, status'[r] = "taken"
        PROVE  (/\ r \notin Reload
                /\ \A o \in OutputsOf(r) :
                     /\ o \in found => Recipient[o] \in applied[r]
                     /\ Gathered(Now, o) => keys = applied[r]
                     /\ \A b \in batches : o \in b.outs => b.keys = applied[r]
                     /\ engine # "abandoned" /\ Recipient[o] \in applied[r] =>
                          o \in found \/ Sending(Now, o))'
    <3>1. CASE r = h
      <4>1. applied'[r] = keys
        BY <1>1, <1>2, <3>1
      <4>2. ASSUME NEW o \in OutputsOf(r)
            PROVE  o \in Outputs /\ ~Sending(Now, o) /\ o \notin found
        BY <1>1, <3>1, OutputsType DEF IInv, NoTrace
      <4>3. ASSUME NEW o \in OutputsOf(r), NEW b \in batches PROVE o \notin b.outs
        <5>1. Now.out = batches
          BY DEF Now
        <5> QED BY <4>2, <5>1 DEF Sending
      <4> QED BY <1>1, <1>4, <1>6, <3>1, <4>1, <4>2, <4>3
    <3>2. CASE r # h
      <4>1. status[r] = "taken" /\ applied'[r] = applied[r]
        BY <1>1, <1>2, <2>1, <3>2
      <4>2. ASSUME NEW o \in OutputsOf(r) PROVE o \in Outputs /\ o \notin OutputsOf(h)
        BY <1>1, <3>2, OutputsType
      <4>3. /\ r \notin Reload
            /\ \A o \in OutputsOf(r) :
                 /\ o \in found => Recipient[o] \in applied[r]
                 /\ Gathered(Now, o) => keys = applied[r]
                 /\ \A b \in batches : o \in b.outs => b.keys = applied[r]
                 /\ engine # "abandoned" /\ Recipient[o] \in applied[r] =>
                      o \in found \/ Sending(Now, o)
        BY <4>1 DEF IInv, TakenRight
      <4> QED BY <1>1, <1>4, <1>5, <1>6, <4>1, <4>2, <4>3
    <3> QED BY <3>1, <3>2
  <2> QED BY <2>1 DEF TakenRight
<1> QED BY <1>1, <1>3, <1>8, <1>9 DEF Traces, Keyed

LEMMA RunTraces ==
  ASSUME IInv, NEW b \in batches, Run(b)
  PROVE  Traces'
<1>1. /\ batches' = batches \ {b}
      /\ found' = found \union {o \in b.outs : Recipient[o] \in b.keys}
      /\ UNCHANGED <<status, engine, keys, runners, applied>>
  BY DEF Run, clients
<1>2. Now.out = batches /\ Now'.out = batches' /\ Now'.acc = Now.acc
  BY <1>1 DEF Now
<1>3. \A o : (Gathered(Now, o))' <=> Gathered(Now, o)
  BY <1>2 DEF Gathered
<1>4. \A o : o \in b.outs => Sending(Now, o)
  BY <1>2 DEF Sending
<1>5. \A o : /\ (Sending(Now, o))' => Sending(Now, o)
             /\ Sending(Now, o) => (Sending(Now, o))' \/ o \in b.outs
  BY <1>1, <1>2, <1>3 DEF Sending
<1>6. NoTrace'
  BY <1>1, <1>4, <1>5 DEF IInv, NoTrace
<1>7. TakenRight'
  BY <1>1, <1>3, <1>5 DEF IInv, TakenRight
<1> QED BY <1>1, <1>6, <1>7 DEF IInv, Traces, Keyed

LEMMA NextTraces == IInv /\ [Next]_vars => Traces'
<1> SUFFICES ASSUME IInv, [Next]_vars PROVE Traces'
  OBVIOUS
<1>0. /\ ClientType /\ WorkType /\ TypeInv /\ runners.keys = keys
      /\ status \in [Request -> Statuses]
  BY TypeSplit DEF IInv, Keyed, ClientType
<1>h. queue # <<>> => Head(queue) \in Request /\ status[Head(queue)] = "queued"
  BY <1>0, LeaveLine DEF ClientType, Lines
<1>c. ASSUME CloseChannel(Range(queue))
      PROVE  \A r \in Request : /\ status'[r] = "taken" <=> status[r] = "taken"
                                /\ status'[r] = "answered" <=> status[r] = "answered"
  <2>1. \A r \in Request : status'[r] = CASE status[r] = "waiting" -> "refused"
                                          [] status[r] = "queued"  -> "error"
                                          [] OTHER                 -> status[r]
    BY <1>0, <1>c DEF ClientType, CloseChannel
  <2> QED BY <2>1
<1>1. CASE ChangeAccounts
  BY <1>1, Quiet DEF ChangeAccounts, work
<1>2. CASE Acquire
  <2>1. Head(waiters) \in Request /\ status[Head(waiters)] = "waiting"
    BY <1>0, <1>2, LeaveLine DEF Acquire, ClientType, Lines
  <2> QED BY <1>0, <1>2, <2>1, Quiet DEF Acquire, work
<1>3. ASSUME NEW r \in Request, Send(r) PROVE Traces'
  BY <1>0, <1>3, Quiet DEF Send, work
<1>4. ASSUME NEW r \in Request, TrySend(r) PROVE Traces'
  BY <1>0, <1>4, Quiet DEF TrySend, work
<1>5. ASSUME NEW r \in Request, Push(r) PROVE Traces'
  BY <1>0, <1>5, Quiet DEF Push, work
<1>6. ASSUME NEW h \in Handle, DropHandle(h) PROVE Traces'
  <2>1. \A r \in Request : /\ status'[r] = "taken" <=> status[r] = "taken"
                           /\ status'[r] = "answered" <=> status[r] = "answered"
    BY <1>0, <1>6 DEF DropHandle
  <2> QED BY <1>6, <2>1, Quiet DEF DropHandle, work
<1>7. CASE StartFails
  BY <1>7, <1>c, Quiet DEF StartFails, work
<1>8. CASE Tick
  BY <1>8, Quiet DEF Tick
<1>9. CASE UNCHANGED vars
  BY <1>9, Quiet DEF vars
<1>10. ASSUME NEW r \in Request, Consume(r) PROVE Traces'
  <2>1. /\ status[r] # "taken" /\ status' = [status EXCEPT ![r] = "idle"]
        /\ applied' = [applied EXCEPT ![r] = {}] /\ found' = found \ OutputsOf(r)
        /\ UNCHANGED <<engine, keys, runners, batches>>
    BY <1>10 DEF Consume, Idle
  <2>2. \A q \in Request : q # r => /\ status'[q] = status[q] /\ applied'[q] = applied[q]
                                    /\ \A o \in OutputsOf(q) : o \in found' <=> o \in found
    BY <1>0, <2>1, OutputsType DEF WorkType
  <2>3. status'[r] = "idle" /\ \A o \in OutputsOf(r) : o \notin found'
    BY <1>0, <2>1
  <2>4. /\ \A o : (Sending(Now, o))' <=> Sending(Now, o)
        /\ \A o : (Gathered(Now, o))' <=> Gathered(Now, o)
    BY <2>1 DEF Sending, Gathered, Now
  <2>5. NoTrace'
    BY <2>1, <2>2, <2>3, <2>4 DEF IInv, NoTrace
  <2>6. TakenRight'
    BY <2>1, <2>2, <2>3, <2>4 DEF IInv, TakenRight
  <2> QED BY <1>0, <2>1, <2>5, <2>6 DEF Traces, Keyed
<1>11. ASSUME NEW r \in Request, Deliver(r) PROVE Traces'
  <2>1. /\ status[r] = "taken" /\ status' = [status EXCEPT ![r] = "answered"]
        /\ OutputsOf(r) \intersect Outstanding = {}
        /\ UNCHANGED <<engine, keys, runners, batches, applied, found>>
    BY <1>11 DEF Deliver, work
  <2>2. \A q \in Request : q # r => status'[q] = status[q]
    BY <1>0, <2>1
  <2>3. status'[r] = "answered" /\ \A o \in OutputsOf(r) : ~Sending(Now, o)
    BY <1>0, <2>1, OutstandingIs DEF WorkType
  <2>4. /\ \A o : (Sending(Now, o))' <=> Sending(Now, o)
        /\ \A o : (Gathered(Now, o))' <=> Gathered(Now, o)
    BY <2>1 DEF Sending, Gathered, Now
  <2>5. NoTrace'
    BY <2>1, <2>2, <2>3, <2>4 DEF IInv, NoTrace
  <2>6. TakenRight'
    BY <2>1, <2>2, <2>3, <2>4 DEF IInv, TakenRight
  <2> QED BY <1>0, <2>1, <2>5, <2>6 DEF Traces, Keyed
<1>12. CASE Start
  <2>1. /\ runners' = [keys |-> wallet, acc |-> EmptyAcc] /\ keys' = wallet
        /\ UNCHANGED <<status, batches, applied, found>>
        /\ \A r \in Request : status[r] # "taken"
    BY <1>12 DEF Start, clients, IInv, Stages
  <2>2. \A o : (Sending(Now, o))' => Sending(Now, o)
    BY <2>1 DEF Sending, Gathered, Now, EmptyAcc
  <2> QED BY <2>1, <2>2 DEF IInv, Traces, Keyed, NoTrace, TakenRight
<1>13. CASE ReceiveData
  BY <1>13, TakeTraces
<1>14. CASE ReceiveReload
  <2>1. /\ batches' = Flushed.out /\ runners'.acc = EmptyAcc /\ runners'.keys = keys'
        /\ UNCHANGED <<engine, found>>
    BY <1>14 DEF ReceiveReload
  <2>2. /\ \A r \in Request : /\ status'[r] = "taken" <=> status[r] = "taken"
                              /\ status[r] \in {"taken", "answered"} => status'[r] \in {"taken", "answered"}
        /\ \A r \in Request : status[r] = "taken" => applied'[r] = applied[r]
    BY <1>0, <1>14, <1>h DEF ReceiveReload, WorkType
  <2> QED BY <2>1, <2>2, FlushTraces
<1>15. CASE ReloadFails
  <2>1. /\ batches' = Flushed.out /\ runners'.acc = EmptyAcc /\ runners'.keys = keys'
        /\ UNCHANGED <<applied, found>> /\ engine = "running"
    BY <1>0, <1>15, FlushType DEF ReloadFails, Flush, WorkType, RunnersType
  <2> QED BY <1>15, <1>c, <2>1, FlushTraces DEF ReloadFails
<1>16. CASE IdleFlush
  <2>1. /\ batches' = Flushed.out /\ runners'.acc = EmptyAcc /\ runners'.keys = keys'
        /\ UNCHANGED <<status, engine, applied, found>>
    BY <1>0, <1>16, FlushType DEF IdleFlush, Flush, WorkType, RunnersType, clients
  <2> QED BY <2>1, FlushTraces
<1>17. CASE Abandoned
  <2>1. /\ runners'.acc = EmptyAcc /\ runners'.keys = runners.keys /\ engine' = "abandoned"
        /\ UNCHANGED <<status, keys, batches, applied, found>>
    BY <1>0, <1>17 DEF Abandoned, WorkType, RunnersType, clients
  <2>2. Now'.acc = EmptyAcc /\ Now'.out = Now.out
    BY <2>1 DEF Now
  <2>3. /\ \A o : (Sending(Now, o))' => Sending(Now, o)
        /\ \A o : ~(Gathered(Now, o))'
    BY <2>2 DEF Sending, Gathered, EmptyAcc
  <2> QED BY <1>0, <2>1, <2>3 DEF IInv, Traces, Keyed, NoTrace, TakenRight
<1>18. ASSUME NEW b \in batches, Run(b) PROVE Traces'
  BY <1>18, RunTraces
<1> QED
  BY <1>1, <1>2, <1>3, <1>4, <1>5, <1>6, <1>7, <1>8, <1>9, <1>10, <1>11, <1>12, <1>13,
     <1>14, <1>15, <1>16, <1>17, <1>18 DEF Next

LEMMA NextStages == IInv /\ [Next]_vars => Stages'
<1> SUFFICES ASSUME IInv, [Next]_vars PROVE Stages'
  OBVIOUS
<1>0. ClientType /\ WorkType /\ Stages /\ status \in [Request -> Statuses]
  BY TypeSplit DEF IInv, ClientType
<1>1. engine' = "abandoned" => handles' = {}
  <2>1. CASE Abandoned
    BY <2>1 DEF Abandoned, clients
  <2>2. CASE engine' = engine /\ handles' \subseteq handles
    BY <2>2, <1>0 DEF Stages
  <2>3. CASE engine' \in {"running", "failed"}
    BY <2>3
  <2>4. \/ Abandoned
        \/ engine' = engine /\ handles' \subseteq handles
        \/ engine' \in {"running", "failed"}
    BY DEF Next, vars, clients, work, ChangeAccounts, Acquire, Send, TrySend, Push, Consume,
           Deliver, DropHandle, Start, StartFails, ReceiveData, ReceiveReload, ReloadFails,
           Tick, IdleFlush, Run
  <2> QED BY <2>1, <2>2, <2>3, <2>4
<1>2. ASSUME engine' = "unstarted", NEW r \in Request PROVE status'[r] # "taken"
  <2>1. engine = "unstarted" /\ (status' = status \/ \E q \in Request, s \in Statuses \ {"taken"} :
                                   status' = [status EXCEPT ![q] = s])
    <3>1. CASE ChangeAccounts \/ Tick \/ IdleFlush \/ (\E b \in batches : Run(b)) \/ UNCHANGED vars
      BY <3>1, <1>2 DEF ChangeAccounts, Tick, IdleFlush, Run, vars, clients
    <3>2. CASE Acquire
      <4>1. Head(waiters) \in Request
        BY <1>0, <3>2, LeaveLine DEF Acquire, ClientType, Lines
      <4> QED BY <4>1, <3>2, <1>2 DEF Acquire, work, Statuses
    <3>3. ASSUME NEW q \in Request, Send(q) \/ TrySend(q) \/ Push(q) \/ Consume(q) \/ Deliver(q)
          PROVE  /\ engine = "unstarted"
                 /\ \E s \in Statuses \ {"taken"} : status' = [status EXCEPT ![q] = s]
      BY <3>3, <1>2 DEF Send, TrySend, Push, Consume, Deliver, work, Statuses, Idle
    <3>4. ASSUME NEW h \in Handle, DropHandle(h) PROVE engine = "unstarted" /\ status' = status
      BY <3>4, <1>2 DEF DropHandle, work, Closed
    <3>5. ~Start /\ ~StartFails /\ ~ReceiveData /\ ~ReceiveReload /\ ~ReloadFails /\ ~Abandoned
      BY <1>2 DEF Start, StartFails, ReceiveData, ReceiveReload, ReloadFails, Abandoned, clients
    <3> QED BY <3>1, <3>2, <3>3, <3>4, <3>5 DEF Next
  <2> QED BY <1>0, <2>1 DEF Stages
<1> QED BY <1>1, <1>2 DEF Stages

LEMMA NextIInv == IInv /\ [Next]_vars => IInv'
<1> SUFFICES ASSUME IInv, [Next]_vars PROVE IInv'
  OBVIOUS
<1>1. ClientType' /\ WorkType'
  BY ClientStep, WorkStep DEF IInv
<1>2. TypeInv' <=> ClientType' /\ WorkType'
  BY TypeSplit, PTL
<1> QED BY <1>1, <1>2, NextStages, NextTraces DEF IInv, Traces

-----------------------------------------------------------------------------
(* The refinement *)

\* The keys a request was taken under, and its answer, as the service sees them.
Due    == [r \in Request |-> IF status[r] = "taken" THEN applied[r] ELSE Nothing]
Answer == [r \in Request |-> IF status[r] = "answered" THEN AnswerOf(r) ELSE Nothing]

LEMMA InitRefines == Init => Service!SInit
BY DEF Init, Service!SInit

\* A step that neither takes nor answers nor consumes a request leaves what is
\* due and what was answered alone.
LEMMA SameAnswers ==
  ASSUME IInv, 
         \A r \in Request :
           /\ status'[r] = "taken" <=> status[r] = "taken"
           /\ status'[r] = "answered" <=> status[r] = "answered"
           /\ status[r] \in {"taken", "answered"} => applied'[r] = applied[r]
           /\ status[r] = "answered" => \A o \in OutputsOf(r) : o \in found' <=> o \in found
  PROVE  Due' = Due /\ Answer' = Answer
<1>1. ASSUME NEW r \in Request, status[r] = "answered" PROVE (AnswerOf(r))' = AnswerOf(r)
  <2>1. found' \intersect OutputsOf(r) = found \intersect OutputsOf(r)
    BY <1>1
  <2> QED BY <1>1, <2>1 DEF AnswerOf
<1>2. \A r \in Request : /\ (IF status'[r] = "taken" THEN applied'[r] ELSE Nothing)
                              = (IF status[r] = "taken" THEN applied[r] ELSE Nothing)
                         /\ (IF status'[r] = "answered" THEN (AnswerOf(r))' ELSE Nothing)
                              = (IF status[r] = "answered" THEN AnswerOf(r) ELSE Nothing)
  BY <1>1
<1> QED BY <1>2 DEF Due, Answer

\* In particular one that leaves the statuses, the keys applied and the outputs found.
LEMMA SameService ==
  ASSUME IInv, UNCHANGED <<applied, found>>,
         \A r \in Request : /\ status'[r] = "taken" <=> status[r] = "taken"
                            /\ status'[r] = "answered" <=> status[r] = "answered"
  PROVE  Due' = Due /\ Answer' = Answer
BY SameAnswers

LEMMA NextRefines == IInv /\ [Next]_vars => [Service!SNext]_(Service!svars)
<1> SUFFICES ASSUME IInv, [Next]_vars PROVE [Service!SNext]_(Service!svars)
  OBVIOUS
<1>0. /\ ClientType /\ WorkType /\ NoTrace /\ TakenRight /\ Stages /\ RunnersType
      /\ status \in [Request -> Statuses] /\ applied \in [Request -> SUBSET Account]
  BY TypeSplit DEF IInv, ClientType, WorkType
<1>h. queue # <<>> => Head(queue) \in Request /\ status[Head(queue)] = "queued"
  BY <1>0, LeaveLine DEF ClientType, Lines
<1>s. Service!svars = <<wallet, queue, keys, Due, Answer, engine>>
  BY DEF Service!svars, Due, Answer
<1>u. ASSUME UNCHANGED <<wallet, queue, keys, Due, Answer, engine>>
      PROVE  [Service!SNext]_(Service!svars)
  BY <1>s, <1>u DEF Due, Answer, Service!svars
<1>c. ASSUME CloseChannel(Range(queue)), UNCHANGED <<applied, found>>
      PROVE  queue' = <<>> /\ Due' = Due /\ Answer' = Answer
  <2>1. \A r \in Request : status'[r] = CASE status[r] = "waiting" -> "refused"
                                          [] status[r] = "queued"  -> "error"
                                          [] OTHER                 -> status[r]
    BY <1>0, <1>c DEF ClientType, CloseChannel
  <2>2. \A r \in Request : /\ status'[r] = "taken" <=> status[r] = "taken"
                           /\ status'[r] = "answered" <=> status[r] = "answered"
    BY <2>1
  <2> QED BY <1>c, <2>2, SameService DEF CloseChannel
<1>1. CASE ChangeAccounts
  <2>1. Due' = Due /\ Answer' = Answer
    BY <1>1, SameService DEF ChangeAccounts, work
  <2>2. Service!ChangeAccounts
    BY <1>1, <2>1 DEF ChangeAccounts, work, Service!ChangeAccounts, Due, Answer
  <2> QED BY <2>2 DEF Service!SNext
<1>2. CASE Acquire
  <2>1. Head(waiters) \in Request /\ status[Head(waiters)] = "waiting"
    BY <1>0, <1>2, LeaveLine DEF Acquire, ClientType, Lines
  <2>2. Due' = Due /\ Answer' = Answer
    BY <1>0, <1>2, <2>1, SameService DEF Acquire, work
  <2> QED BY <1>2, <1>u, <2>2 DEF Acquire, work
<1>3. ASSUME NEW r \in Request, Send(r) \/ TrySend(r) PROVE [Service!SNext]_(Service!svars)
  <2>1. Due' = Due /\ Answer' = Answer
    BY <1>0, <1>3, SameService DEF Send, TrySend, work
  <2> QED BY <1>3, <1>u, <2>1 DEF Send, TrySend, work
<1>4. ASSUME NEW r \in Request, Push(r) PROVE [Service!SNext]_(Service!svars)
  <2>1. Due' = Due /\ Answer' = Answer
    BY <1>0, <1>4, SameService DEF Push, work
  <2>2. Service!Accept(r)
    BY <1>4, <2>1 DEF Push, work, Service!Accept, Due, Answer
  <2> QED BY <2>2 DEF Service!SNext
<1>5. ASSUME NEW h \in Handle, DropHandle(h) PROVE [Service!SNext]_(Service!svars)
  <2>1. \A r \in Request : /\ status'[r] = "taken" <=> status[r] = "taken"
                           /\ status'[r] = "answered" <=> status[r] = "answered"
    BY <1>0, <1>5 DEF DropHandle
  <2>2. Due' = Due /\ Answer' = Answer
    BY <1>5, <2>1, SameService DEF DropHandle, work
  <2>3. CASE queue' = queue
    BY <1>5, <1>u, <2>2, <2>3 DEF DropHandle, work
  <2>4. CASE queue' = <<>> /\ Closed /\ handles = {h}
    <3>1. engine = "failed"
      BY <1>0, <2>4 DEF Stages, Closed
    <3>2. Service!DropStranded
      BY <1>5, <2>2, <2>4, <3>1 DEF DropHandle, work, Service!DropStranded, Due, Answer
    <3> QED BY <3>2 DEF Service!SNext
  <2> QED BY <1>5, <2>3, <2>4 DEF DropHandle
<1>6. ASSUME NEW r \in Request, Consume(r) PROVE [Service!SNext]_(Service!svars)
  <2>1. /\ status[r] # "taken" /\ status' = [status EXCEPT ![r] = "idle"]
        /\ applied' = [applied EXCEPT ![r] = {}] /\ found' = found \ OutputsOf(r)
        /\ UNCHANGED <<wallet, queue, engine, keys>>
    BY <1>6 DEF Consume, Idle, clients
  <2>2. \A q \in Request : q # r => /\ status'[q] = status[q] /\ applied'[q] = applied[q]
                                    /\ \A o \in OutputsOf(q) : o \in found' <=> o \in found
    BY <1>0, <2>1, OutputsType DEF WorkType
  <2>3. CASE status[r] # "answered"
    <3>1. \A q \in Request :
            /\ status'[q] = "taken" <=> status[q] = "taken"
            /\ status'[q] = "answered" <=> status[q] = "answered"
            /\ status[q] \in {"taken", "answered"} => applied'[q] = applied[q]
            /\ status[q] = "answered" => \A o \in OutputsOf(q) : o \in found' <=> o \in found
      BY <1>0, <2>1, <2>2, <2>3
    <3>2. Due' = Due /\ Answer' = Answer
      BY <3>1, SameAnswers
    <3> QED BY <1>u, <2>1, <3>2
  <2>4. CASE status[r] = "answered"
    <3>1. Answer[r] # Nothing
      <4>1. AnswerOf(r) = [keys |-> applied[r], found |-> found \intersect OutputsOf(r)]
        BY DEF AnswerOf
      <4>2. applied[r] \in SUBSET Account /\ found \intersect OutputsOf(r) \in SUBSET Outputs
        BY <1>0 DEF WorkType
      <4> QED BY <2>4, <4>1, <4>2, Absence DEF Answer
    <3>2. ASSUME NEW q \in Request, q # r
          PROVE  /\ (IF status'[q] = "taken" THEN applied'[q] ELSE Nothing) = Due[q]
                 /\ (IF status'[q] = "answered" THEN (AnswerOf(q))' ELSE Nothing) = Answer[q]
      <4>1. found' \intersect OutputsOf(q) = found \intersect OutputsOf(q)
        BY <2>2, <3>2
      <4>2. (AnswerOf(q))' = AnswerOf(q)
        BY <2>2, <3>2, <4>1 DEF AnswerOf
      <4> QED BY <2>2, <3>2, <4>2 DEF Due, Answer
    <3>3. status'[r] = "idle"
      BY <1>0, <2>1
    <3>4. Due' = Due
      BY <2>4, <3>2, <3>3 DEF Due
    <3>5. Answer' = [Answer EXCEPT ![r] = Nothing]
      BY <3>2, <3>3 DEF Answer
    <3>6. Service!Consume(r)
      BY <2>1, <3>1, <3>4, <3>5 DEF Service!Consume, Due, Answer
    <3> QED BY <3>6 DEF Service!SNext
  <2> QED BY <2>3, <2>4
<1>7. ASSUME NEW r \in Request, Deliver(r) PROVE [Service!SNext]_(Service!svars)
  <2>1. /\ status[r] = "taken" /\ status' = [status EXCEPT ![r] = "answered"]
        /\ OutputsOf(r) \intersect Outstanding = {}
        /\ UNCHANGED <<wallet, queue, engine, keys, applied, found>>
    BY <1>7 DEF Deliver, clients, work
  <2> DEFINE got == found \intersect OutputsOf(r)
             all == {o \in OutputsOf(r) : Recipient[o] \in applied[r]}
  <2>2. \A o \in OutputsOf(r) : ~Sending(Now, o)
    BY <1>0, <2>1, OutstandingIs
  <2>3. got \subseteq all /\ (engine # "abandoned" => got = all)
    BY <1>0, <2>1, <2>2 DEF TakenRight
  <2>4. Service!Inline(r, applied[r]) = all
    BY DEF Service!Inline, Service!OutputsOf, OutputsOf
  <2>5. Due[r] = applied[r] /\ Due[r] # Nothing
    BY <1>0, <2>1, Absence DEF Due
  <2>6. Due' = [Due EXCEPT ![r] = Nothing]
    BY <1>0, <2>1 DEF Due
  <2>7. Answer' = [Answer EXCEPT ![r] = [keys |-> Due[r], found |-> got]]
    BY <1>0, <2>1, <2>5 DEF Answer, AnswerOf
  <2> HIDE DEF got, all
  <2>8. \E f \in SUBSET Service!Inline(r, Due[r]) :
          /\ engine # "abandoned" => f = Service!Inline(r, Due[r])
          /\ Answer' = [Answer EXCEPT ![r] = [keys |-> Due[r], found |-> f]]
    BY <2>3, <2>4, <2>5, <2>7
  <2>9. Service!Reply(r)
    BY <2>1, <2>5, <2>6, <2>8 DEF Service!Reply, Due, Answer
  <2> QED BY <2>9 DEF Service!SNext
<1>8. CASE Start
  <2>1. Due' = Due /\ Answer' = Answer
    BY <1>8, SameService DEF Start
  <2>2. Service!Start
    BY <1>8, <2>1 DEF Start, clients, Service!Start, Due, Answer
  <2> QED BY <2>2 DEF Service!SNext
<1>9. CASE StartFails
  <2>1. Service!Fail
    BY <1>9, <1>c DEF StartFails, work, Service!Fail, Due, Answer
  <2> QED BY <2>1 DEF Service!SNext
<1>10. CASE ReceiveData
  <2> DEFINE r == Head(queue)
  <2>1. /\ r \in Request /\ status[r] = "queued"
        /\ status' = [status EXCEPT ![r] = "taken"] /\ applied' = [applied EXCEPT ![r] = keys]
        /\ UNCHANGED <<wallet, engine, keys, found>>
    BY <1>10, <1>h DEF ReceiveData, clients
  <2> HIDE DEF r
  <2>2. Due' = [Due EXCEPT ![r] = keys]
    BY <1>0, <2>1 DEF Due
  <2>3. Answer' = Answer
    BY <1>0, <2>1 DEF Answer, AnswerOf
  <2>4. Service!TakeData
    BY <1>10, <2>1, <2>2, <2>3 DEF ReceiveData, Service!TakeData, Due, Answer, r
  <2> QED BY <2>4 DEF Service!SNext
<1>11. CASE ReceiveReload
  <2> DEFINE r == Head(queue)
  <2>1. /\ r \in Request /\ status[r] = "queued" /\ r \in Reload
        /\ status' = [status EXCEPT ![r] = "answered"] /\ applied' = [applied EXCEPT ![r] = wallet]
        /\ keys' = wallet /\ UNCHANGED <<wallet, engine, found>>
    BY <1>11, <1>h DEF ReceiveReload, clients
  <2> HIDE DEF r
  <2>2. Due' = Due
    BY <1>0, <2>1 DEF Due
  <2>3. found \intersect OutputsOf(r) = {}
    BY <2>1, OutputsType
  <2>4. Answer' = [Answer EXCEPT ![r] = [keys |-> wallet, found |-> {}]]
    BY <1>0, <2>1, <2>3 DEF Answer, AnswerOf
  <2>5. Service!TakeReload
    BY <1>11, <2>1, <2>2, <2>4 DEF ReceiveReload, Service!TakeReload, Due, Answer, r
  <2> QED BY <2>5 DEF Service!SNext
<1>12. CASE ReloadFails
  <2>1. Service!Fail
    BY <1>12, <1>c DEF ReloadFails, Service!Fail, Due, Answer
  <2> QED BY <2>1 DEF Service!SNext
<1>13. CASE Tick \/ IdleFlush
  <2>1. Due' = Due /\ Answer' = Answer
    BY <1>13, SameService DEF Tick, IdleFlush
  <2> QED BY <1>13, <1>u, <2>1 DEF Tick, IdleFlush, clients
<1>14. CASE Abandoned
  <2>1. Due' = Due /\ Answer' = Answer
    BY <1>14, SameService DEF Abandoned
  <2>2. Service!Abandon
    BY <1>14, <2>1 DEF Abandoned, clients, Service!Abandon, Due, Answer
  <2> QED BY <2>2 DEF Service!SNext
<1>15. ASSUME NEW b \in batches, Run(b) PROVE [Service!SNext]_(Service!svars)
  <2>1. /\ found' = found \union {o \in b.outs : Recipient[o] \in b.keys}
        /\ UNCHANGED <<wallet, queue, status, engine, keys, applied>>
    BY <1>15 DEF Run, clients
  <2>2. \A o : o \in b.outs => Sending(Now, o)
    BY DEF Now, Sending
  <2>3. ASSUME NEW r \in Request, status[r] = "answered", NEW o \in OutputsOf(r)
        PROVE  o \in found' <=> o \in found
    BY <1>0, <2>1, <2>2, <2>3 DEF NoTrace
  <2>4. Due' = Due /\ Answer' = Answer
    BY <2>1, <2>3, SameAnswers
  <2> QED BY <1>u, <2>1, <2>4
<1>16. CASE UNCHANGED vars
  <2>1. Due' = Due /\ Answer' = Answer
    BY <1>16, SameService DEF vars
  <2> QED BY <1>16, <1>u, <2>1 DEF vars
<1> QED
  BY <1>1, <1>2, <1>3, <1>4, <1>5, <1>6, <1>7, <1>8, <1>9, <1>10, <1>11, <1>12, <1>13,
     <1>14, <1>15, <1>16 DEF Next

\* The engine, with its batches, threads, timer and bounded queue, implements the
\* service that takes requests in order and decrypts on the spot: every answer is
\* the complete decryption of the request under the keys in force when it was
\* taken, unless the engine was abandoned.
THEOREM Refinement == Spec => ImplementsService
<1>1. Init => IInv /\ Service!SInit
  BY InitIInv, InitRefines
<1>2. IInv /\ [Next]_vars => IInv' /\ [Service!SNext]_(Service!svars)
  BY NextIInv, NextRefines
<1> QED BY <1>1, <1>2, PTL DEF Spec, ImplementsService, Service!SSpec
=============================================================================
