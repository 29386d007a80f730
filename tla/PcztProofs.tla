----------------------------- MODULE PcztProofs -----------------------------
(***************************************************************************)
(* Theorems about PcztRoles, for any devices, transactions, keys, anchors  *)
(* and thresholds, and for both formats: bundles stay whole, signatures    *)
(* stay valid, and the order of combining does not matter.                 *)
(***************************************************************************)
EXTENDS PcztRoles, TLAPS

-----------------------------------------------------------------------------
(* The shape of a copy *)

List(s) == s \in Seq(Ran(s))

IsInput(x)  == /\ x = [coin |-> x.coin, time |-> x.time, height |-> x.height,
                       sigs |-> x.sigs, script |-> x.script]
               /\ x.coin \in DOMAIN SighashOf
IsSpend(x)  == x = [note |-> x.note, sig |-> x.sig, proof |-> x.proof, key |-> x.key]
IsOutput(x) == x = [out |-> x.out, proof |-> x.proof]
IsAction(x) == x = [note |-> x.note, sig |-> x.sig, key |-> x.key]

InputList(s)  == List(s) /\ \A i \in DOMAIN s : IsInput(s[i])
SpendList(s)  == List(s) /\ \A i \in DOMAIN s : IsSpend(s[i])
OutputList(s) == List(s) /\ \A i \in DOMAIN s : IsOutput(s[i])
ActionList(s) == List(s) /\ \A i \in DOMAIN s : IsAction(s[i])

IsSapling(x) == /\ x = [spends |-> x.spends, outs |-> x.outs, sum |-> x.sum,
                        anchor |-> x.anchor, bsk |-> x.bsk]
                /\ SpendList(x.spends) /\ OutputList(x.outs)
IsOrchard(x) == /\ x = [actions |-> x.actions, sum |-> x.sum, anchor |-> x.anchor,
                        proof |-> x.proof, bsk |-> x.bsk]
                /\ ActionList(x.actions)

Shape(p) ==
  /\ p = [flags |-> p.flags, inputs |-> p.inputs, outputs |-> p.outputs,
          sapling |-> p.sapling, orchard |-> p.orchard]
  /\ p.flags \subseteq Flags
  /\ InputList(p.inputs) /\ List(p.outputs)
  /\ IsSapling(p.sapling) /\ IsOrchard(p.orchard)

\* Every list keeps what its items are when they are changed one by one.
LEMMA ListIs ==
  ASSUME NEW s, List(s)
  PROVE  Len(s) \in Nat /\ DOMAIN s = 1..Len(s) /\ s = [i \in 1..Len(s) |-> s[i]]
BY DEF List

FunctionOn(s, D) == s = [i \in D |-> s[i]]

LEMMA IsList ==
  ASSUME NEW s, NEW n \in Nat, FunctionOn(s, 1..n)
  PROVE  List(s) /\ Len(s) = n /\ DOMAIN s = 1..n
<1>1. DOMAIN s = 1..n
  BY DEF FunctionOn
<1>2. \A i \in 1..n : s[i] \in Ran(s)
  BY <1>1 DEF Ran
<1>3. s \in [1..n -> Ran(s)]
  BY <1>2 DEF FunctionOn
<1>4. s \in Seq(Ran(s))
  BY <1>3
<1> QED BY <1>1, <1>4 DEF List

LEMMA SeqList ==
  ASSUME NEW S, NEW s \in Seq(S)
  PROVE  List(s)
<1>1. Len(s) \in Nat /\ s = [i \in 1..Len(s) |-> s[i]]
  OBVIOUS
<1>2. FunctionOn(s, 1..Len(s))
  BY <1>1 DEF FunctionOn
<1> QED BY <1>1, <1>2, IsList

LEMMA Appended ==
  ASSUME NEW s, List(s), NEW x
  PROVE  /\ List(Append(s, x)) /\ Len(Append(s, x)) = Len(s) + 1
         /\ Append(s, x)[Len(s) + 1] = x
         /\ \A i \in DOMAIN s : Append(s, x)[i] = s[i]
         /\ DOMAIN Append(s, x) = DOMAIN s \cup {Len(s) + 1}
<1> DEFINE t == Append(s, x)
           S == Ran(s) \cup {x}
<1>1. s \in Seq(S) /\ x \in S
  BY DEF List
<1>2. /\ t \in Seq(S) /\ Len(t) = Len(s) + 1 /\ Len(s) \in Nat /\ DOMAIN s = 1..Len(s)
      /\ t[Len(s) + 1] = x /\ \A i \in 1..Len(s) : t[i] = s[i]
  BY <1>1
<1>3. List(t)
  BY <1>2, SeqList
<1>4. DOMAIN t = 1..Len(t)
  BY <1>3, ListIs
<1> QED BY <1>2, <1>3, <1>4

LEMMA Mapped ==
  ASSUME NEW s, List(s), NEW t, t = [i \in DOMAIN s |-> t[i]]
  PROVE  List(t) /\ Len(t) = Len(s) /\ DOMAIN t = DOMAIN s
<1>1. Len(s) \in Nat /\ DOMAIN s = 1..Len(s)
  BY ListIs
<1>2. FunctionOn(t, 1..Len(s))
  BY <1>1 DEF FunctionOn
<1> QED BY <1>1, <1>2, IsList

\* Appending an item appends its name.
LEMMA AppendedNotes ==
  ASSUME NEW s, List(s), NEW x
  PROVE  Notes(Append(s, x)) = Append(Notes(s), x.note)
<1> DEFINE t == Append(s, x)
           u == Append(Notes(s), x.note)
           new == Len(s) + 1
<1>1. List(Notes(s)) /\ Len(Notes(s)) = Len(s) /\ DOMAIN Notes(s) = DOMAIN s
  BY Mapped DEF Notes
<1>2. /\ DOMAIN t = DOMAIN s \cup {new} /\ t[new] = x /\ \A i \in DOMAIN s : t[i] = s[i]
      /\ List(u) /\ DOMAIN u = DOMAIN s \cup {new} /\ u[new] = x.note
      /\ \A i \in DOMAIN s : u[i] = Notes(s)[i]
  BY <1>1, Appended
<1>3. u = [i \in DOMAIN u |-> u[i]]
  BY <1>2, ListIs
<1> HIDE DEF t, u
<1>4. \A i \in DOMAIN t : t[i].note = u[i]
  BY <1>2 DEF Notes
<1>5. Notes(t) = u
  BY <1>2, <1>3, <1>4 DEF Notes
<1> QED BY <1>5 DEF t, u

\* The names of outputs.
Outs(l) == [i \in DOMAIN l |-> l[i].out]

LEMMA AppendedOuts ==
  ASSUME NEW s, List(s), NEW x
  PROVE  Outs(Append(s, x)) = Append(Outs(s), x.out)
<1> DEFINE t == Append(s, x)
           u == Append(Outs(s), x.out)
           new == Len(s) + 1
<1>1. List(Outs(s)) /\ Len(Outs(s)) = Len(s) /\ DOMAIN Outs(s) = DOMAIN s
  BY Mapped DEF Outs
<1>2. /\ DOMAIN t = DOMAIN s \cup {new} /\ t[new] = x /\ \A i \in DOMAIN s : t[i] = s[i]
      /\ List(u) /\ DOMAIN u = DOMAIN s \cup {new} /\ u[new] = x.out
      /\ \A i \in DOMAIN s : u[i] = Outs(s)[i]
  BY <1>1, Appended
<1>3. u = [i \in DOMAIN u |-> u[i]]
  BY <1>2, ListIs
<1> HIDE DEF t, u
<1>4. \A i \in DOMAIN t : t[i].out = u[i]
  BY <1>2 DEF Outs
<1>5. Outs(t) = u
  BY <1>2, <1>3, <1>4 DEF Outs
<1> QED BY <1>5 DEF t, u

LEMMA Zipped ==
  ASSUME NEW l, List(l), NEW r, List(r), NEW z, FunctionOn(z, DOMAIN l \cup DOMAIN r)
  PROVE  /\ List(z) /\ DOMAIN z = DOMAIN l \cup DOMAIN r
         /\ Len(z) = IF Len(l) < Len(r) THEN Len(r) ELSE Len(l)
         /\ Len(r) <= Len(l) => DOMAIN z = DOMAIN l
         /\ Len(l) <= Len(r) => DOMAIN z = DOMAIN r
<1>1. /\ Len(l) \in Nat /\ DOMAIN l = 1..Len(l) /\ Len(r) \in Nat /\ DOMAIN r = 1..Len(r)
  BY ListIs
<1>2. CASE Len(l) < Len(r)
  <2>1. DOMAIN l \cup DOMAIN r = 1..Len(r)
    BY <1>1, <1>2
  <2>2. FunctionOn(z, 1..Len(r))
    BY <2>1
  <2>3. List(z) /\ Len(z) = Len(r) /\ DOMAIN z = 1..Len(r)
    BY <1>1, <2>2, IsList
  <2>4. DOMAIN z = DOMAIN r /\ ~(Len(r) <= Len(l)) /\ Len(l) <= Len(r)
    BY <1>1, <1>2, <2>3
  <2>5. Len(z) = IF Len(l) < Len(r) THEN Len(r) ELSE Len(l)
    BY <1>2, <2>3
  <2>6. DOMAIN z = DOMAIN l \cup DOMAIN r
    BY <1>1, <2>1, <2>3
  <2> QED BY <2>3, <2>4, <2>5, <2>6
<1>3. CASE ~(Len(l) < Len(r))
  <2>1. DOMAIN l \cup DOMAIN r = 1..Len(l)
    BY <1>1, <1>3
  <2>2. FunctionOn(z, 1..Len(l))
    BY <2>1
  <2>3. List(z) /\ Len(z) = Len(l) /\ DOMAIN z = 1..Len(l)
    BY <1>1, <2>2, IsList
  <2>4. Len(r) <= Len(l) /\ DOMAIN z = DOMAIN l
    BY <1>1, <1>3, <2>3
  <2>5. ASSUME Len(l) <= Len(r) PROVE DOMAIN z = DOMAIN r
    <3>1. Len(l) \in Nat /\ Len(r) \in Nat
      BY <1>1
    <3>2. Len(l) = Len(r)
      BY <1>3, <2>5, <3>1
    <3> QED BY <1>1, <2>4, <3>2
  <2>6. DOMAIN z = DOMAIN l \cup DOMAIN r
    BY <1>1, <2>1, <2>3
  <2>7. Len(z) = IF Len(l) < Len(r) THEN Len(r) ELSE Len(l)
    BY <1>3, <2>3
  <2> QED BY <2>3, <2>4, <2>5, <2>6, <2>7
<1> QED BY <1>2, <1>3

-----------------------------------------------------------------------------
(* What the invariant says of a copy *)

\* The hypothesis of the run on proofs: none is made of what may still grow, and no
\* anchor is redacted under one.
Honest == ~ProveEarly /\ ~RedactProven

\* The hypothesis of the run on signatures: no input of a copy requires a lock time.
Unlocked == \A c \in DOMAIN SighashOf : TimeLock[c] = {} /\ HeightLock[c] = {}

Sums(p) == p.sapling.sum = SaplingSum(p) /\ p.orchard.sum = OrchardSum(p)

Fit(p) == Shape(p) /\ Sums(p)

Proven(p) ==
  /\ \A i \in DOMAIN p.sapling.spends : \A f \in p.sapling.spends[i].proof :
       f.for = p.sapling.anchor /\ p.sapling.anchor # {}
  /\ \A f \in p.orchard.proof :
       /\ f.for = <<p.orchard.anchor, OrchardSum(p)>> /\ p.orchard.anchor # {}
       /\ "shielded" \notin p.flags

Body(p) == [spends |-> Notes(p.sapling.spends), outs |-> SapOuts(p),
            actions |-> Notes(p.orchard.actions)]

\* What every signature commits to, in a copy that parses, beside inputs and outputs.
Committed(b) ==
  [spends |-> b.spends, outs |-> b.outs, actions |-> b.actions,
   sums |-> <<<<b.spends, b.outs>>, b.actions>>, lock |-> {0},
   anchors |-> IF Deferred THEN <<>>
               ELSE <<IF b.spends = <<>> THEN {} ELSE Start, IF b.actions = <<>> THEN {} ELSE Start>>]

OverShielded(p) == [of |-> "shielded", ins |-> Coins(p), vouts |-> p.outputs,
                    rest |-> Committed(Body(p))]
OverInput(p, n) == LET s == TransparentSighash(p, n)
                   IN  [of |-> s.of, ins |-> s.ins, vouts |-> s.vouts, rest |-> Committed(Body(p))]

InputSigs(p, n) == p.inputs[n].sigs \cup UNION p.inputs[n].script

\* A signature is over what the copy would now become, and the flags keep the rest from it.
InputSigned(p, n, s) ==
  /\ s.over = OverInput(p, n)
  /\ "shielded" \notin p.flags
  /\ "inputs" \in p.flags => SighashOf[p.inputs[n].coin].anyone
  /\ "outputs" \in p.flags => SighashOf[p.inputs[n].coin].kind = "none"
ItemSigned(p, s) == s.over = OverShielded(p) /\ p.flags \cap Modifiable = {}

InputsSigned(p) == \A n \in DOMAIN p.inputs : \A s \in InputSigs(p, n) : InputSigned(p, n, s)
ItemsSigned(p) ==
  /\ \A i \in DOMAIN p.sapling.spends : \A s \in p.sapling.spends[i].sig : ItemSigned(p, s)
  /\ \A i \in DOMAIN p.orchard.actions : \A s \in p.orchard.actions[i].sig : ItemSigned(p, s)
NoLocks(p) == \A n \in DOMAIN p.inputs : p.inputs[n].time = {} /\ p.inputs[n].height = {}
Anchored5(p) == ~Deferred => /\ p.sapling.anchor \in {Start, {}}
                              /\ p.orchard.anchor \in {Start, {}}

Signed(p) == NoLocks(p) /\ Anchored5(p) /\ InputsSigned(p) /\ ItemsSigned(p)

Good(p) == Fit(p) /\ (Honest => Proven(p)) /\ (Unlocked => Signed(p))

\* q is p with only what the flags of p allow added to it.
Carries(p, q) ==
  /\ q.flags \cap Modifiable \subseteq p.flags
  /\ Body(q) = Body(p) \/ "shielded" \in p.flags
  /\ \A n \in DOMAIN p.inputs : n \in DOMAIN q.inputs /\ q.inputs[n].coin = p.inputs[n].coin
  /\ Coins(q) = Coins(p) \/ "inputs" \in p.flags
  /\ q.outputs = p.outputs \/ "outputs" \in p.flags

LEMMA CarriedInput ==
  ASSUME NEW p, Shape(p), NEW q, Carries(p, q),
         NEW n \in DOMAIN p.inputs, NEW s, InputSigned(p, n, s)
  PROVE  InputSigned(q, n, s)
<1> DEFINE c == p.inputs[n].coin
           t == SighashOf[c]
<1>1. c \in DOMAIN SighashOf /\ q.inputs[n].coin = c
  BY DEF Shape, InputList, IsInput, Carries
<1>2. t \in [kind : {"all", "none", "single"}, anyone : BOOLEAN]
  BY <1>1, PcztAssumption
<1>3. Body(q) = Body(p)
  BY DEF Carries, InputSigned
<1>4. t.anyone \/ Coins(q) = Coins(p)
  BY DEF Carries, InputSigned
<1>5. t.kind = "none" \/ q.outputs = p.outputs
  BY DEF Carries, InputSigned
<1>6. TransparentSighash(q, n).of = TransparentSighash(p, n).of
  BY <1>1 DEF TransparentSighash
<1>7. TransparentSighash(q, n).ins = TransparentSighash(p, n).ins
  BY <1>1, <1>2, <1>4 DEF TransparentSighash
<1>8. TransparentSighash(q, n).vouts = TransparentSighash(p, n).vouts
  BY <1>1, <1>2, <1>5 DEF TransparentSighash
<1>9. OverInput(q, n) = OverInput(p, n)
  BY <1>3, <1>6, <1>7, <1>8 DEF OverInput
<1>10. q.flags \cap Modifiable \subseteq p.flags /\ {"shielded", "inputs", "outputs"} \subseteq Modifiable
  BY DEF Carries, Modifiable
<1> QED BY <1>1, <1>9, <1>10 DEF InputSigned

LEMMA CarriedItem ==
  ASSUME NEW p, NEW q, Carries(p, q), NEW s, ItemSigned(p, s)
  PROVE  ItemSigned(q, s)
<1>1. \A x \in {"shielded", "inputs", "outputs"} : x \notin p.flags
  BY DEF ItemSigned, Modifiable
<1>2. Body(q) = Body(p) /\ Coins(q) = Coins(p) /\ q.outputs = p.outputs
  BY <1>1 DEF Carries
<1> QED BY <1>2 DEF ItemSigned, OverShielded, Carries

\* A copy that parses is signed over what it has.
LEMMA ShieldedIs ==
  ASSUME NEW p, Fit(p), Signed(p), Parses(p)
  PROVE  Shielded(p) = Committed(Body(p))
<1>1. LockTime(p) = {0}
  <2>1. UNION {p.inputs[i].time : i \in DOMAIN p.inputs} = {}
    BY DEF Signed, NoLocks
  <2>2. UNION {p.inputs[i].height : i \in DOMAIN p.inputs} = {}
    BY DEF Signed, NoLocks
  <2> QED BY <2>1, <2>2 DEF LockTime
<1>2. \A l : List(l) => (Notes(l) = <<>> <=> l = <<>>)
  <2> SUFFICES ASSUME NEW l, List(l) PROVE Notes(l) = <<>> <=> l = <<>>
    OBVIOUS
  <2>1. DOMAIN Notes(l) = DOMAIN l /\ l = [i \in DOMAIN l |-> l[i]]
    BY ListIs DEF Notes
  <2>2. Notes(l) = [i \in DOMAIN l |-> Notes(l)[i]]
    BY DEF Notes
  <2>3. DOMAIN <<>> = {} /\ <<>> = [i \in {} |-> i]
    OBVIOUS
  <2> QED BY <2>1, <2>2, <2>3
<1>3. SignedAnchors(p) = Committed(Body(p)).anchors
  <2>1. CASE Deferred
    BY <2>1 DEF SignedAnchors, Committed
  <2>2. CASE ~Deferred
    <3>1. List(p.sapling.spends) /\ List(p.orchard.actions)
      BY DEF Fit, Shape, IsSapling, IsOrchard, SpendList, ActionList
    <3>2. /\ p.sapling.spends # <<>> => p.sapling.anchor = Start
          /\ p.orchard.actions # <<>> => p.orchard.anchor = Start
      BY <2>2 DEF Signed, Anchored5, Parses, Anchored
    <3> QED BY <1>2, <2>2, <3>1, <3>2 DEF SignedAnchors, Committed, Body
  <2> QED BY <2>1, <2>2
<1> QED BY <1>1, <1>3 DEF Shielded, Committed, Body, Fit, Sums, SaplingSum, OrchardSum

LEMMA SighashIs ==
  ASSUME NEW p, Fit(p), Signed(p), Parses(p)
  PROVE  /\ ShieldedSighash(p) = OverShielded(p)
         /\ \A n \in DOMAIN p.inputs : TransparentSighash(p, n) = OverInput(p, n)
<1>1. Shielded(p) = Committed(Body(p))
  BY ShieldedIs
<1>2. ShieldedSighash(p) = OverShielded(p)
  BY <1>1 DEF ShieldedSighash, OverShielded
<1>3. ASSUME NEW n \in DOMAIN p.inputs PROVE TransparentSighash(p, n) = OverInput(p, n)
  <2>1. PICK a, b, c : TransparentSighash(p, n) = [of |-> a, ins |-> b, vouts |-> c, rest |-> Shielded(p)]
    BY Zenon DEF TransparentSighash
  <2>2. /\ TransparentSighash(p, n).of = a /\ TransparentSighash(p, n).ins = b
        /\ TransparentSighash(p, n).vouts = c
    BY <2>1
  <2> QED BY <1>1, <2>1, <2>2 DEF OverInput
<1> QED BY <1>2, <1>3

LEMMA StaysSigned ==
  ASSUME NEW p, Shape(p), Signed(p), NEW q, Carries(p, q), NoLocks(q), Anchored5(q),
         \A n \in DOMAIN q.inputs : \A s \in InputSigs(q, n) :
           (n \in DOMAIN p.inputs /\ s \in InputSigs(p, n)) \/ InputSigned(q, n, s),
         \A i \in DOMAIN q.sapling.spends : \A s \in q.sapling.spends[i].sig :
           (i \in DOMAIN p.sapling.spends /\ s \in p.sapling.spends[i].sig) \/ ItemSigned(q, s),
         \A i \in DOMAIN q.orchard.actions : \A s \in q.orchard.actions[i].sig :
           (i \in DOMAIN p.orchard.actions /\ s \in p.orchard.actions[i].sig) \/ ItemSigned(q, s)
  PROVE  Signed(q)
<1>1. \A n \in DOMAIN p.inputs : \A s \in InputSigs(p, n) : InputSigned(q, n, s)
  BY CarriedInput DEF Signed, InputsSigned
<1>2. \A s : ItemSigned(p, s) => ItemSigned(q, s)
  BY CarriedItem
<1>3. InputsSigned(q)
  BY <1>1 DEF InputsSigned
<1>4. ItemsSigned(q)
  BY <1>2 DEF ItemsSigned, Signed
<1> QED BY <1>3, <1>4 DEF Signed

-----------------------------------------------------------------------------
(* Constructor *)

LEMMA AddInputGood ==
  ASSUME offer \in Offers, NEW d, NEW p, Good(p), AddInput(d, p)
  PROVE  \E q : Becomes(d, q) /\ Good(q)
<1>1. PICK c \in Ran(offer.coins) \ Ran(Coins(p)) :
        "inputs" \in p.flags /\ Becomes(d, [p EXCEPT !.inputs = Append(@, NewInput(c))])
  BY DEF AddInput
<1> DEFINE q == [p EXCEPT !.inputs = Append(@, NewInput(c))]
           new == Len(p.inputs) + 1
<1>2. c \in DOMAIN SighashOf
  BY <1>1, RolesAssumption DEF Ran
<1>3. /\ q.flags = p.flags /\ q.inputs = Append(p.inputs, NewInput(c)) /\ q.outputs = p.outputs
      /\ q.sapling = p.sapling /\ q.orchard = p.orchard
      /\ q = [flags |-> q.flags, inputs |-> q.inputs, outputs |-> q.outputs,
              sapling |-> q.sapling, orchard |-> q.orchard]
  BY DEF Good, Fit, Shape
<1> HIDE DEF q
<1>4. /\ List(q.inputs) /\ DOMAIN q.inputs = DOMAIN p.inputs \cup {new}
      /\ q.inputs[new] = NewInput(c) /\ \A i \in DOMAIN p.inputs : q.inputs[i] = p.inputs[i]
  BY <1>3, Appended DEF Good, Fit, Shape, InputList
<1>5. IsInput(NewInput(c))
  BY <1>2 DEF IsInput, NewInput
<1>6. Fit(q)
  <2>1. InputList(q.inputs)
    BY <1>4, <1>5 DEF Good, Fit, Shape, InputList
  <2> QED BY <1>3, <2>1 DEF Good, Fit, Shape, Sums, SaplingSum, OrchardSum, SapOuts
<1>7. ASSUME Honest PROVE Proven(q)
  BY <1>3, <1>7 DEF Good, Proven, OrchardSum
<1>8. ASSUME Unlocked PROVE Signed(q)
  <2>1. Signed(p) /\ Shape(p)
    BY <1>8 DEF Good, Fit
  <2>2. Carries(p, q)
    BY <1>1, <1>3, <1>4 DEF Carries, Body, SapOuts
  <2>3. NoLocks(q) /\ Anchored5(q)
    BY <1>2, <1>3, <1>4, <1>8, <2>1 DEF Signed, NoLocks, Anchored5, NewInput, Unlocked
  <2>4. \A n \in DOMAIN q.inputs : \A s \in InputSigs(q, n) :
          n \in DOMAIN p.inputs /\ s \in InputSigs(p, n)
    BY <1>4 DEF InputSigs, NewInput
  <2> QED BY <1>3, <2>1, <2>2, <2>3, <2>4, StaysSigned
<1> QED BY <1>1, <1>6, <1>7, <1>8 DEF Good, q

LEMMA AddOutputGood ==
  ASSUME NEW d, NEW p, Good(p), AddOutput(d, p)
  PROVE  \E q : Becomes(d, q) /\ Good(q)
<1>1. PICK o : "outputs" \in p.flags /\ Becomes(d, [p EXCEPT !.outputs = Append(@, o)])
  BY DEF AddOutput
<1> DEFINE q == [p EXCEPT !.outputs = Append(@, o)]
<1>2. /\ q.flags = p.flags /\ q.inputs = p.inputs /\ q.outputs = Append(p.outputs, o)
      /\ q.sapling = p.sapling /\ q.orchard = p.orchard
      /\ q = [flags |-> q.flags, inputs |-> q.inputs, outputs |-> q.outputs,
              sapling |-> q.sapling, orchard |-> q.orchard]
  BY DEF Good, Fit, Shape
<1> HIDE DEF q
<1>3. List(q.outputs)
  BY <1>2, Appended DEF Good, Fit, Shape
<1>4. Fit(q)
  BY <1>2, <1>3 DEF Good, Fit, Shape, Sums, SaplingSum, OrchardSum, SapOuts
<1>5. ASSUME Honest PROVE Proven(q)
  BY <1>2, <1>5 DEF Good, Proven, OrchardSum
<1>6. ASSUME Unlocked PROVE Signed(q)
  <2>1. Signed(p) /\ Shape(p)
    BY <1>6 DEF Good, Fit
  <2>2. Carries(p, q)
    BY <1>1, <1>2 DEF Carries, Body, SapOuts, Coins
  <2>3. NoLocks(q) /\ Anchored5(q)
    BY <1>2, <2>1 DEF Signed, NoLocks, Anchored5
  <2>4. \A n \in DOMAIN q.inputs : \A s \in InputSigs(q, n) :
          n \in DOMAIN p.inputs /\ s \in InputSigs(p, n)
    BY <1>2 DEF InputSigs
  <2> QED BY <1>2, <2>1, <2>2, <2>3, <2>4, StaysSigned
<1> QED BY <1>1, <1>4, <1>5, <1>6 DEF Good, q

LEMMA AddActionGood ==
  ASSUME NEW d, NEW p, Good(p), AddAction(d, p)
  PROVE  \E q : Becomes(d, q) /\ Good(q)
<1>1. PICK n : /\ "shielded" \in p.flags
               /\ Becomes(d, [p EXCEPT !.orchard.actions = Append(@, NewAction(n, n \in Dummies)),
                                       !.orchard.sum = Append(@, n)])
  BY DEF AddAction
<1> DEFINE new == NewAction(n, n \in Dummies)
           q == [p EXCEPT !.orchard.actions = Append(@, new), !.orchard.sum = Append(@, n)]
           last == Len(p.orchard.actions) + 1
<1>2. /\ q.flags = p.flags /\ q.inputs = p.inputs /\ q.outputs = p.outputs
      /\ q.sapling = p.sapling
      /\ q.orchard = [[p.orchard EXCEPT !.actions = Append(@, new)] EXCEPT !.sum = Append(@, n)]
      /\ q = [flags |-> q.flags, inputs |-> q.inputs, outputs |-> q.outputs,
              sapling |-> q.sapling, orchard |-> q.orchard]
  <2> DEFINE r == [p EXCEPT !.orchard.actions = Append(@, new)]
  <2>1. q = [r EXCEPT !.orchard.sum = Append(@, n)]
    OBVIOUS
  <2>2. /\ r.flags = p.flags /\ r.inputs = p.inputs /\ r.outputs = p.outputs
        /\ r.sapling = p.sapling
        /\ r.orchard = [p.orchard EXCEPT !.actions = Append(@, new)]
        /\ r = [flags |-> r.flags, inputs |-> r.inputs, outputs |-> r.outputs,
                sapling |-> r.sapling, orchard |-> r.orchard]
    BY DEF Good, Fit, Shape
  <2> HIDE DEF q, r
  <2> QED BY <2>1, <2>2
<1> HIDE DEF q
<1>3. /\ q.orchard.actions = Append(p.orchard.actions, new)
      /\ q.orchard.sum = Append(p.orchard.sum, n)
      /\ q.orchard.anchor = p.orchard.anchor /\ q.orchard.proof = p.orchard.proof
      /\ q.orchard.bsk = p.orchard.bsk
      /\ q.orchard = [actions |-> q.orchard.actions, sum |-> q.orchard.sum,
                      anchor |-> q.orchard.anchor, proof |-> q.orchard.proof, bsk |-> q.orchard.bsk]
  BY <1>2 DEF Good, Fit, Shape, IsOrchard
<1>4. IsAction(new) /\ new.note = n /\ new.sig = {}
  BY DEF IsAction, NewAction
<1> HIDE DEF new
<1>5. /\ List(q.orchard.actions) /\ DOMAIN q.orchard.actions = DOMAIN p.orchard.actions \cup {last}
      /\ q.orchard.actions[last] = new
      /\ \A i \in DOMAIN p.orchard.actions : q.orchard.actions[i] = p.orchard.actions[i]
  BY <1>3, Appended DEF Good, Fit, Shape, IsOrchard, ActionList
<1>6. Fit(q)
  <2>1. ActionList(q.orchard.actions)
    BY <1>4, <1>5 DEF Good, Fit, Shape, IsOrchard, ActionList
  <2>2. Shape(q)
    BY <1>2, <1>3, <2>1 DEF Good, Fit, Shape, IsOrchard
  <2>3. q.orchard.sum = OrchardSum(q)
    <3>1. p.orchard.sum = Notes(p.orchard.actions)
      BY DEF Good, Fit, Sums, OrchardSum
    <3> QED BY <1>3, <1>4, <3>1, AppendedNotes DEF OrchardSum, Good, Fit, Shape, IsOrchard, ActionList
  <2> QED BY <1>2, <2>2, <2>3 DEF Good, Fit, Sums, SaplingSum, SapOuts
<1>7. ASSUME Honest PROVE Proven(q)
  BY <1>1, <1>2, <1>3, <1>7 DEF Good, Proven
<1>8. ASSUME Unlocked PROVE Signed(q)
  <2>1. Signed(p) /\ Shape(p)
    BY <1>8 DEF Good, Fit
  <2>2. Carries(p, q)
    BY <1>1, <1>2 DEF Carries, Coins
  <2>3. NoLocks(q) /\ Anchored5(q)
    BY <1>2, <1>3, <2>1 DEF Signed, NoLocks, Anchored5
  <2>4. \A k \in DOMAIN q.inputs : \A s \in InputSigs(q, k) :
          k \in DOMAIN p.inputs /\ s \in InputSigs(p, k)
    BY <1>2 DEF InputSigs
  <2>5. \A i \in DOMAIN q.orchard.actions : \A s \in q.orchard.actions[i].sig :
          i \in DOMAIN p.orchard.actions /\ s \in p.orchard.actions[i].sig
    BY <1>4, <1>5
  <2> QED BY <1>2, <2>1, <2>2, <2>3, <2>4, <2>5, StaysSigned
<1> QED BY <1>1, <1>6, <1>7, <1>8 DEF Good, q, new

LEMMA AddSaplingSpendGood ==
  ASSUME NEW d, NEW p, Good(p), AddSaplingSpend(d, p)
  PROVE  \E q : Becomes(d, q) /\ Good(q)
<1>1. PICK n : /\ "shielded" \in p.flags
               /\ Becomes(d, [p EXCEPT !.sapling.spends = Append(@, NewSpend(n, n \in Dummies)),
                                       !.sapling.sum[1] = Append(@, n)])
  BY DEF AddSaplingSpend
<1> DEFINE new == NewSpend(n, n \in Dummies)
           q == [p EXCEPT !.sapling.spends = Append(@, new), !.sapling.sum[1] = Append(@, n)]
           last == Len(p.sapling.spends) + 1
<1>2. /\ q.flags = p.flags /\ q.inputs = p.inputs /\ q.outputs = p.outputs
      /\ q.orchard = p.orchard
      /\ q.sapling = [[p.sapling EXCEPT !.spends = Append(@, new)] EXCEPT !.sum[1] = Append(@, n)]
      /\ q = [flags |-> q.flags, inputs |-> q.inputs, outputs |-> q.outputs,
              sapling |-> q.sapling, orchard |-> q.orchard]
  <2> DEFINE r == [p EXCEPT !.sapling.spends = Append(@, new)]
  <2>1. q = [r EXCEPT !.sapling.sum[1] = Append(@, n)]
    OBVIOUS
  <2>2. /\ r.flags = p.flags /\ r.inputs = p.inputs /\ r.outputs = p.outputs
        /\ r.orchard = p.orchard
        /\ r.sapling = [p.sapling EXCEPT !.spends = Append(@, new)]
        /\ r = [flags |-> r.flags, inputs |-> r.inputs, outputs |-> r.outputs,
                sapling |-> r.sapling, orchard |-> r.orchard]
    BY DEF Good, Fit, Shape
  <2> HIDE DEF q, r
  <2> QED BY <2>1, <2>2
<1> HIDE DEF q
<1>3. /\ q.sapling.spends = Append(p.sapling.spends, new)
      /\ q.sapling.outs = p.sapling.outs /\ q.sapling.anchor = p.sapling.anchor
      /\ q.sapling.sum = [p.sapling.sum EXCEPT ![1] = Append(@, n)]
      /\ q.sapling = [spends |-> q.sapling.spends, outs |-> q.sapling.outs, sum |-> q.sapling.sum,
                      anchor |-> q.sapling.anchor, bsk |-> q.sapling.bsk]
  BY <1>2 DEF Good, Fit, Shape, IsSapling
<1>4. IsSpend(new) /\ new.note = n /\ new.sig = {} /\ new.proof = {}
  BY DEF IsSpend, NewSpend
<1> HIDE DEF new
<1>5. /\ List(q.sapling.spends) /\ DOMAIN q.sapling.spends = DOMAIN p.sapling.spends \cup {last}
      /\ q.sapling.spends[last] = new
      /\ \A i \in DOMAIN p.sapling.spends : q.sapling.spends[i] = p.sapling.spends[i]
  BY <1>3, Appended DEF Good, Fit, Shape, IsSapling, SpendList
<1>6. Fit(q)
  <2>1. SpendList(q.sapling.spends)
    BY <1>4, <1>5 DEF Good, Fit, Shape, IsSapling, SpendList
  <2>2. Shape(q)
    BY <1>2, <1>3, <2>1 DEF Good, Fit, Shape, IsSapling
  <2>3. q.sapling.sum = SaplingSum(q)
    <3>1. p.sapling.sum = <<Notes(p.sapling.spends), SapOuts(p)>>
      BY DEF Good, Fit, Sums, SaplingSum
    <3>2. q.sapling.sum = <<Append(Notes(p.sapling.spends), n), SapOuts(p)>>
      BY <1>3, <3>1
    <3>3. Notes(q.sapling.spends) = Append(Notes(p.sapling.spends), n)
      <4>1. List(p.sapling.spends)
        BY DEF Good, Fit, Shape, IsSapling, SpendList
      <4> QED BY <1>3, <1>4, <4>1, AppendedNotes
    <3> QED BY <1>3, <3>2, <3>3 DEF SaplingSum, SapOuts
  <2> QED BY <1>2, <2>2, <2>3 DEF Good, Fit, Sums, OrchardSum
<1>7. ASSUME Honest PROVE Proven(q)
  BY <1>2, <1>3, <1>4, <1>5, <1>7 DEF Good, Proven, OrchardSum
<1>8. ASSUME Unlocked PROVE Signed(q)
  <2>1. Signed(p) /\ Shape(p)
    BY <1>8 DEF Good, Fit
  <2>2. Carries(p, q)
    BY <1>1, <1>2 DEF Carries, Coins
  <2>3. NoLocks(q) /\ Anchored5(q)
    BY <1>2, <1>3, <2>1 DEF Signed, NoLocks, Anchored5
  <2>4. \A k \in DOMAIN q.inputs : \A s \in InputSigs(q, k) :
          k \in DOMAIN p.inputs /\ s \in InputSigs(p, k)
    BY <1>2 DEF InputSigs
  <2>5. \A i \in DOMAIN q.sapling.spends : \A s \in q.sapling.spends[i].sig :
          i \in DOMAIN p.sapling.spends /\ s \in p.sapling.spends[i].sig
    BY <1>4, <1>5
  <2> QED BY <1>2, <2>1, <2>2, <2>3, <2>4, <2>5, StaysSigned
<1> QED BY <1>1, <1>6, <1>7, <1>8 DEF Good, q, new

LEMMA AddSaplingOutputGood ==
  ASSUME NEW d, NEW p, Good(p), AddSaplingOutput(d, p)
  PROVE  \E q : Becomes(d, q) /\ Good(q)
<1>1. PICK o : /\ "shielded" \in p.flags
               /\ Becomes(d, [p EXCEPT !.sapling.outs = Append(@, NewSaplingOutput(o)),
                                       !.sapling.sum[2] = Append(@, o)])
  BY DEF AddSaplingOutput
<1> DEFINE new == NewSaplingOutput(o)
           q == [p EXCEPT !.sapling.outs = Append(@, new), !.sapling.sum[2] = Append(@, o)]
           last == Len(p.sapling.outs) + 1
<1>2. /\ q.flags = p.flags /\ q.inputs = p.inputs /\ q.outputs = p.outputs
      /\ q.orchard = p.orchard
      /\ q.sapling = [[p.sapling EXCEPT !.outs = Append(@, new)] EXCEPT !.sum[2] = Append(@, o)]
      /\ q = [flags |-> q.flags, inputs |-> q.inputs, outputs |-> q.outputs,
              sapling |-> q.sapling, orchard |-> q.orchard]
  <2> DEFINE r == [p EXCEPT !.sapling.outs = Append(@, new)]
  <2>1. q = [r EXCEPT !.sapling.sum[2] = Append(@, o)]
    OBVIOUS
  <2>2. /\ r.flags = p.flags /\ r.inputs = p.inputs /\ r.outputs = p.outputs
        /\ r.orchard = p.orchard
        /\ r.sapling = [p.sapling EXCEPT !.outs = Append(@, new)]
        /\ r = [flags |-> r.flags, inputs |-> r.inputs, outputs |-> r.outputs,
                sapling |-> r.sapling, orchard |-> r.orchard]
    BY DEF Good, Fit, Shape
  <2> HIDE DEF q, r
  <2> QED BY <2>1, <2>2
<1> HIDE DEF q
<1>3. /\ q.sapling.outs = Append(p.sapling.outs, new)
      /\ q.sapling.spends = p.sapling.spends /\ q.sapling.anchor = p.sapling.anchor
      /\ q.sapling.sum = [p.sapling.sum EXCEPT ![2] = Append(@, o)]
      /\ q.sapling = [spends |-> q.sapling.spends, outs |-> q.sapling.outs, sum |-> q.sapling.sum,
                      anchor |-> q.sapling.anchor, bsk |-> q.sapling.bsk]
  BY <1>2 DEF Good, Fit, Shape, IsSapling
<1>4. IsOutput(new) /\ new.out = o
  BY DEF IsOutput, NewSaplingOutput
<1> HIDE DEF new
<1>5. /\ List(q.sapling.outs) /\ DOMAIN q.sapling.outs = DOMAIN p.sapling.outs \cup {last}
      /\ q.sapling.outs[last] = new
      /\ \A i \in DOMAIN p.sapling.outs : q.sapling.outs[i] = p.sapling.outs[i]
  BY <1>3, Appended DEF Good, Fit, Shape, IsSapling, OutputList
<1>6. Fit(q)
  <2>1. OutputList(q.sapling.outs)
    BY <1>4, <1>5 DEF Good, Fit, Shape, IsSapling, OutputList
  <2>2. Shape(q)
    BY <1>2, <1>3, <2>1 DEF Good, Fit, Shape, IsSapling
  <2>3. q.sapling.sum = SaplingSum(q)
    <3>1. p.sapling.sum = <<Notes(p.sapling.spends), Outs(p.sapling.outs)>>
      BY DEF Good, Fit, Sums, SaplingSum, SapOuts, Outs
    <3>2. q.sapling.sum = <<Notes(p.sapling.spends), Append(Outs(p.sapling.outs), o)>>
      BY <1>3, <3>1
    <3>3. Outs(q.sapling.outs) = Append(Outs(p.sapling.outs), o)
      <4>1. List(p.sapling.outs)
        BY DEF Good, Fit, Shape, IsSapling, OutputList
      <4> QED BY <1>3, <1>4, <4>1, AppendedOuts
    <3> QED BY <1>3, <3>2, <3>3 DEF SaplingSum, SapOuts, Outs
  <2> QED BY <1>2, <2>2, <2>3 DEF Good, Fit, Sums, OrchardSum
<1>7. ASSUME Honest PROVE Proven(q)
  BY <1>2, <1>3, <1>7 DEF Good, Proven, OrchardSum
<1>8. ASSUME Unlocked PROVE Signed(q)
  <2>1. Signed(p) /\ Shape(p)
    BY <1>8 DEF Good, Fit
  <2>2. Carries(p, q)
    BY <1>1, <1>2 DEF Carries, Coins
  <2>3. NoLocks(q) /\ Anchored5(q)
    BY <1>2, <1>3, <2>1 DEF Signed, NoLocks, Anchored5
  <2>4. \A k \in DOMAIN q.inputs : \A s \in InputSigs(q, k) :
          k \in DOMAIN p.inputs /\ s \in InputSigs(p, k)
    BY <1>2 DEF InputSigs
  <2> QED BY <1>2, <1>3, <2>1, <2>2, <2>3, <2>4, StaysSigned
<1> QED BY <1>1, <1>6, <1>7, <1>8 DEF Good, q, new

-----------------------------------------------------------------------------
(* Roles that add nothing *)

\* The items, the sums and the outputs are those of p, and no flag is set.
Same(p, q) ==
  /\ Shape(q) /\ q.flags \cap Modifiable \subseteq p.flags
  /\ q.outputs = p.outputs /\ Body(q) = Body(p)
  /\ q.sapling.sum = p.sapling.sum /\ q.orchard.sum = p.orchard.sum
  /\ DOMAIN q.inputs = DOMAIN p.inputs
  /\ \A n \in DOMAIN p.inputs : q.inputs[n].coin = p.inputs[n].coin

LEMMA SameFit ==
  ASSUME NEW p, Fit(p), NEW q, Same(p, q)
  PROVE  Fit(q) /\ Carries(p, q) /\ OrchardSum(q) = OrchardSum(p)
<1>1. /\ Notes(q.sapling.spends) = Notes(p.sapling.spends) /\ SapOuts(q) = SapOuts(p)
      /\ Notes(q.orchard.actions) = Notes(p.orchard.actions)
  BY DEF Same, Body
<1>2. Coins(q) = Coins(p)
  BY DEF Same, Coins
<1> QED BY <1>1, <1>2 DEF Same, Fit, Sums, SaplingSum, OrchardSum, Carries

LEMMA SameInputs ==
  ASSUME NEW s, InputList(s), NEW t, t = [i \in DOMAIN s |-> t[i]],
         \A i \in DOMAIN s : IsInput(t[i]) /\ t[i].coin = s[i].coin
  PROVE  InputList(t) /\ DOMAIN t = DOMAIN s
<1>1. List(t) /\ DOMAIN t = DOMAIN s
  BY Mapped DEF InputList
<1> QED BY <1>1 DEF InputList

LEMMA SameSpends ==
  ASSUME NEW s, SpendList(s), NEW t, t = [i \in DOMAIN s |-> t[i]],
         \A i \in DOMAIN s : IsSpend(t[i]) /\ t[i].note = s[i].note
  PROVE  SpendList(t) /\ DOMAIN t = DOMAIN s /\ Notes(t) = Notes(s)
<1>1. List(t) /\ DOMAIN t = DOMAIN s
  BY Mapped DEF SpendList
<1> QED BY <1>1 DEF SpendList, Notes

LEMMA SameActions ==
  ASSUME NEW s, ActionList(s), NEW t, t = [i \in DOMAIN s |-> t[i]],
         \A i \in DOMAIN s : IsAction(t[i]) /\ t[i].note = s[i].note
  PROVE  ActionList(t) /\ DOMAIN t = DOMAIN s /\ Notes(t) = Notes(s)
<1>1. List(t) /\ DOMAIN t = DOMAIN s
  BY Mapped DEF ActionList
<1> QED BY <1>1 DEF ActionList, Notes

LEMMA SameOutputs ==
  ASSUME NEW s, OutputList(s), NEW t, t = [i \in DOMAIN s |-> t[i]],
         \A i \in DOMAIN s : IsOutput(t[i]) /\ t[i].out = s[i].out
  PROVE  OutputList(t) /\ DOMAIN t = DOMAIN s /\ Outs(t) = Outs(s)
<1>1. List(t) /\ DOMAIN t = DOMAIN s
  BY Mapped DEF OutputList
<1> QED BY <1>1 DEF OutputList, Outs

\* Nothing is signed, and no flag or lock time is set.
LEMMA SameSigned ==
  ASSUME NEW p, Fit(p), Signed(p), NEW q, Same(p, q), Anchored5(q),
         \A n \in DOMAIN p.inputs :
           /\ q.inputs[n].time \subseteq p.inputs[n].time
           /\ q.inputs[n].height \subseteq p.inputs[n].height
           /\ InputSigs(q, n) \subseteq InputSigs(p, n),
         DOMAIN q.sapling.spends = DOMAIN p.sapling.spends,
         \A i \in DOMAIN p.sapling.spends : q.sapling.spends[i].sig \subseteq p.sapling.spends[i].sig,
         DOMAIN q.orchard.actions = DOMAIN p.orchard.actions,
         \A i \in DOMAIN p.orchard.actions : q.orchard.actions[i].sig \subseteq p.orchard.actions[i].sig
  PROVE  Signed(q)
<1>1. Shape(p) /\ Carries(p, q)
  BY SameFit DEF Fit
<1>2. NoLocks(q)
  BY DEF Signed, NoLocks, Same
<1>3. \A n \in DOMAIN q.inputs : \A s \in InputSigs(q, n) :
        n \in DOMAIN p.inputs /\ s \in InputSigs(p, n)
  BY DEF Same
<1> QED BY <1>1, <1>2, <1>3, StaysSigned

LEMMA SetAnchorGood ==
  ASSUME NEW d, NEW p, Good(p), SetAnchor(d, p)
  PROVE  \E q : Becomes(d, q) /\ Good(q)
<1>1. CASE \E a \in Anchors : /\ Deferred /\ ~SaplingProven(p)
                              /\ Becomes(d, [p EXCEPT !.sapling.anchor = {a}])
  <2>1. PICK a \in Anchors : /\ Deferred /\ ~SaplingProven(p)
                             /\ Becomes(d, [p EXCEPT !.sapling.anchor = {a}])
    BY <1>1
  <2> DEFINE q == [p EXCEPT !.sapling.anchor = {a}]
  <2>2. /\ q.flags = p.flags /\ q.inputs = p.inputs /\ q.outputs = p.outputs
        /\ q.orchard = p.orchard /\ q.sapling = [p.sapling EXCEPT !.anchor = {a}]
        /\ q = [flags |-> q.flags, inputs |-> q.inputs, outputs |-> q.outputs,
                sapling |-> q.sapling, orchard |-> q.orchard]
    BY DEF Good, Fit, Shape
  <2> HIDE DEF q
  <2>3. /\ q.sapling.spends = p.sapling.spends /\ q.sapling.outs = p.sapling.outs
        /\ q.sapling.sum = p.sapling.sum
        /\ q.sapling = [spends |-> q.sapling.spends, outs |-> q.sapling.outs, sum |-> q.sapling.sum,
                        anchor |-> q.sapling.anchor, bsk |-> q.sapling.bsk]
    BY <2>2 DEF Good, Fit, Shape, IsSapling
  <2>4. Shape(q)
    BY <2>2, <2>3 DEF Good, Fit, Shape, IsSapling
  <2>5. Same(p, q)
    BY <2>2, <2>3, <2>4 DEF Same, Body, SapOuts
  <2>6. Fit(q)
    BY <2>5, SameFit DEF Good
  <2>7. ASSUME Honest PROVE Proven(q)
    BY <2>1, <2>2, <2>3, <2>7 DEF Good, Proven, OrchardSum, SaplingProven
  <2>8. ASSUME Unlocked PROVE Signed(q)
    <3>1. Anchored5(q)
      BY <2>1 DEF Anchored5
    <3>2. \A n \in DOMAIN p.inputs : InputSigs(q, n) = InputSigs(p, n)
      BY <2>2 DEF InputSigs
    <3> QED BY <2>2, <2>3, <2>5, <2>8, <3>1, <3>2, SameSigned DEF Good
  <2> QED BY <2>1, <2>6, <2>7, <2>8 DEF Good, q
<1>2. CASE \E a \in Anchors : /\ Deferred /\ p.orchard.proof = {}
                              /\ Becomes(d, [p EXCEPT !.orchard.anchor = {a}])
  <2>1. PICK a \in Anchors : /\ Deferred /\ p.orchard.proof = {}
                             /\ Becomes(d, [p EXCEPT !.orchard.anchor = {a}])
    BY <1>2
  <2> DEFINE q == [p EXCEPT !.orchard.anchor = {a}]
  <2>2. /\ q.flags = p.flags /\ q.inputs = p.inputs /\ q.outputs = p.outputs
        /\ q.sapling = p.sapling /\ q.orchard = [p.orchard EXCEPT !.anchor = {a}]
        /\ q = [flags |-> q.flags, inputs |-> q.inputs, outputs |-> q.outputs,
                sapling |-> q.sapling, orchard |-> q.orchard]
    BY DEF Good, Fit, Shape
  <2> HIDE DEF q
  <2>3. /\ q.orchard.actions = p.orchard.actions /\ q.orchard.sum = p.orchard.sum
        /\ q.orchard.proof = p.orchard.proof
        /\ q.orchard = [actions |-> q.orchard.actions, sum |-> q.orchard.sum,
                        anchor |-> q.orchard.anchor, proof |-> q.orchard.proof, bsk |-> q.orchard.bsk]
    BY <2>2 DEF Good, Fit, Shape, IsOrchard
  <2>4. Shape(q)
    BY <2>2, <2>3 DEF Good, Fit, Shape, IsOrchard
  <2>5. Same(p, q)
    BY <2>2, <2>3, <2>4 DEF Same, Body, SapOuts
  <2>6. Fit(q)
    BY <2>5, SameFit DEF Good
  <2>7. ASSUME Honest PROVE Proven(q)
    BY <2>1, <2>2, <2>3, <2>7 DEF Good, Proven
  <2>8. ASSUME Unlocked PROVE Signed(q)
    <3>1. Anchored5(q)
      BY <2>1 DEF Anchored5
    <3>2. \A n \in DOMAIN p.inputs : InputSigs(q, n) = InputSigs(p, n)
      BY <2>2 DEF InputSigs
    <3> QED BY <2>2, <2>3, <2>5, <2>8, <3>1, <3>2, SameSigned DEF Good
  <2> QED BY <2>1, <2>6, <2>7, <2>8 DEF Good, q
<1> QED BY <1>1, <1>2 DEF SetAnchor

LEMMA WithoutSigsGood ==
  ASSUME NEW p, Good(p)
  PROVE  Good(WithoutSigs(p))
<1> DEFINE q == WithoutSigs(p)
<1>1. /\ q.flags = p.flags /\ q.inputs = Each(p.inputs, Unsigned) /\ q.outputs = p.outputs
      /\ q.sapling = [p.sapling EXCEPT !.spends = Each(@, Bare)]
      /\ q.orchard = [p.orchard EXCEPT !.actions = Each(@, Bare)]
      /\ q = [flags |-> q.flags, inputs |-> q.inputs, outputs |-> q.outputs,
              sapling |-> q.sapling, orchard |-> q.orchard]
  <2> DEFINE r == [p EXCEPT !.inputs = Each(@, Unsigned)]
             spends == Each(p.sapling.spends, Bare)
             actions == Each(p.orchard.actions, Bare)
  <2>1. /\ r.flags = p.flags /\ r.inputs = Each(p.inputs, Unsigned) /\ r.outputs = p.outputs
        /\ r.sapling = p.sapling /\ r.orchard = p.orchard
        /\ r = [flags |-> r.flags, inputs |-> r.inputs, outputs |-> r.outputs,
                sapling |-> r.sapling, orchard |-> r.orchard]
    BY DEF Good, Fit, Shape
  <2>2. q = [r EXCEPT !.sapling.spends = spends, !.orchard.actions = actions]
    BY DEF WithoutSigs
  <2> HIDE DEF q, r, spends, actions
  <2>3. /\ q.flags = r.flags /\ q.inputs = r.inputs /\ q.outputs = r.outputs
        /\ q.sapling = [r.sapling EXCEPT !.spends = spends]
        /\ q.orchard = [r.orchard EXCEPT !.actions = actions]
        /\ q = [flags |-> q.flags, inputs |-> q.inputs, outputs |-> q.outputs,
                sapling |-> q.sapling, orchard |-> q.orchard]
    BY <2>1, <2>2
  <2> QED BY <2>1, <2>3 DEF spends, actions
<1> HIDE DEF q
<1>2. /\ q.sapling.spends = Each(p.sapling.spends, Bare) /\ q.sapling.outs = p.sapling.outs
      /\ q.sapling.sum = p.sapling.sum /\ q.sapling.anchor = p.sapling.anchor
      /\ q.sapling = [spends |-> q.sapling.spends, outs |-> q.sapling.outs, sum |-> q.sapling.sum,
                      anchor |-> q.sapling.anchor, bsk |-> q.sapling.bsk]
  BY <1>1 DEF Good, Fit, Shape, IsSapling
<1>3. /\ q.orchard.actions = Each(p.orchard.actions, Bare) /\ q.orchard.sum = p.orchard.sum
      /\ q.orchard.proof = p.orchard.proof /\ q.orchard.anchor = p.orchard.anchor
      /\ q.orchard = [actions |-> q.orchard.actions, sum |-> q.orchard.sum,
                      anchor |-> q.orchard.anchor, proof |-> q.orchard.proof, bsk |-> q.orchard.bsk]
  BY <1>1 DEF Good, Fit, Shape, IsOrchard
<1>4. /\ InputList(p.inputs) /\ SpendList(p.sapling.spends) /\ ActionList(p.orchard.actions)
  BY DEF Good, Fit, Shape, IsSapling, IsOrchard
<1>5. /\ InputList(q.inputs) /\ DOMAIN q.inputs = DOMAIN p.inputs
      /\ \A n \in DOMAIN p.inputs : q.inputs[n] = Unsigned(p.inputs[n])
  <2>1. q.inputs = [i \in DOMAIN p.inputs |-> q.inputs[i]]
    BY <1>1 DEF Each
  <2>2. \A n \in DOMAIN p.inputs : q.inputs[n] = Unsigned(p.inputs[n])
    BY <1>1 DEF Each
  <2>3. \A n \in DOMAIN p.inputs : IsInput(q.inputs[n]) /\ q.inputs[n].coin = p.inputs[n].coin
    BY <1>4, <2>2 DEF InputList, IsInput, Unsigned
  <2> QED BY <1>4, <2>1, <2>2, <2>3, SameInputs
<1>6. /\ SpendList(q.sapling.spends) /\ DOMAIN q.sapling.spends = DOMAIN p.sapling.spends
      /\ Notes(q.sapling.spends) = Notes(p.sapling.spends)
      /\ \A n \in DOMAIN p.sapling.spends : q.sapling.spends[n] = Bare(p.sapling.spends[n])
  <2>1. q.sapling.spends = [i \in DOMAIN p.sapling.spends |-> q.sapling.spends[i]]
    BY <1>2 DEF Each
  <2>2. \A n \in DOMAIN p.sapling.spends : q.sapling.spends[n] = Bare(p.sapling.spends[n])
    BY <1>2 DEF Each
  <2>3. \A n \in DOMAIN p.sapling.spends :
          IsSpend(q.sapling.spends[n]) /\ q.sapling.spends[n].note = p.sapling.spends[n].note
    BY <1>4, <2>2 DEF SpendList, IsSpend, Bare
  <2> QED BY <1>4, <2>1, <2>2, <2>3, SameSpends
<1>7. /\ ActionList(q.orchard.actions) /\ DOMAIN q.orchard.actions = DOMAIN p.orchard.actions
      /\ Notes(q.orchard.actions) = Notes(p.orchard.actions)
      /\ \A n \in DOMAIN p.orchard.actions : q.orchard.actions[n] = Bare(p.orchard.actions[n])
  <2>1. q.orchard.actions = [i \in DOMAIN p.orchard.actions |-> q.orchard.actions[i]]
    BY <1>3 DEF Each
  <2>2. \A n \in DOMAIN p.orchard.actions : q.orchard.actions[n] = Bare(p.orchard.actions[n])
    BY <1>3 DEF Each
  <2>3. \A n \in DOMAIN p.orchard.actions :
          IsAction(q.orchard.actions[n]) /\ q.orchard.actions[n].note = p.orchard.actions[n].note
    BY <1>4, <2>2 DEF ActionList, IsAction, Bare
  <2> QED BY <1>4, <2>1, <2>2, <2>3, SameActions
<1>8. Shape(q)
  BY <1>1, <1>2, <1>3, <1>5, <1>6, <1>7 DEF Good, Fit, Shape, IsSapling, IsOrchard
<1>9. Same(p, q)
  <2>1. \A n \in DOMAIN p.inputs : q.inputs[n].coin = p.inputs[n].coin
    BY <1>4, <1>5 DEF InputList, IsInput, Unsigned
  <2> QED BY <1>1, <1>2, <1>3, <1>5, <1>6, <1>7, <1>8, <2>1 DEF Same, Body, SapOuts
<1>10. Fit(q) /\ OrchardSum(q) = OrchardSum(p)
  BY <1>9, SameFit DEF Good
<1>11. ASSUME Honest PROVE Proven(q)
  <2>1. \A n \in DOMAIN p.sapling.spends : q.sapling.spends[n].proof = p.sapling.spends[n].proof
    BY <1>4, <1>6 DEF SpendList, IsSpend, Bare
  <2> QED BY <1>1, <1>2, <1>3, <1>6, <1>10, <1>11, <2>1 DEF Good, Proven
<1>12. ASSUME Unlocked PROVE Signed(q)
  <2>1. Signed(p)
    BY <1>12 DEF Good
  <2>2. Anchored5(q)
    BY <1>2, <1>3, <2>1 DEF Signed, Anchored5
  <2>3. \A n \in DOMAIN p.inputs : /\ q.inputs[n].time = p.inputs[n].time
                                   /\ q.inputs[n].height = p.inputs[n].height
                                   /\ q.inputs[n].sigs = {} /\ q.inputs[n].script = p.inputs[n].script
    BY <1>4, <1>5 DEF InputList, IsInput, Unsigned
  <2>4. \A n \in DOMAIN p.inputs : InputSigs(q, n) \subseteq InputSigs(p, n)
    BY <2>3 DEF InputSigs
  <2>5. \A i \in DOMAIN p.sapling.spends : q.sapling.spends[i].sig = {}
    BY <1>4, <1>6 DEF SpendList, IsSpend, Bare
  <2>6. \A i \in DOMAIN p.orchard.actions : q.orchard.actions[i].sig = {}
    BY <1>4, <1>7 DEF ActionList, IsAction, Bare
  <2> QED BY <1>6, <1>7, <1>9, <2>1, <2>2, <2>3, <2>4, <2>5, <2>6, SameSigned DEF Good
<1> QED BY <1>10, <1>11, <1>12 DEF Good, q

LEMMA WithoutProofsGood ==
  ASSUME NEW p, Good(p)
  PROVE  Good(WithoutProofs(p))
<1> DEFINE q == WithoutProofs(p)
<1>1. /\ q.flags = p.flags /\ q.inputs = p.inputs /\ q.outputs = p.outputs
      /\ q.sapling = [[p.sapling EXCEPT !.spends = Each(@, Unproven)] EXCEPT !.outs = Each(@, Unproven)]
      /\ q.orchard = [p.orchard EXCEPT !.proof = {}]
      /\ q = [flags |-> q.flags, inputs |-> q.inputs, outputs |-> q.outputs,
              sapling |-> q.sapling, orchard |-> q.orchard]
  <2> DEFINE r == [p EXCEPT !.sapling.spends = Each(@, Unproven)]
  <2>1. q = [r EXCEPT !.sapling.outs = Each(@, Unproven), !.orchard.proof = {}]
    BY DEF WithoutProofs
  <2>2. /\ r.flags = p.flags /\ r.inputs = p.inputs /\ r.outputs = p.outputs
        /\ r.orchard = p.orchard
        /\ r.sapling = [p.sapling EXCEPT !.spends = Each(@, Unproven)]
        /\ r = [flags |-> r.flags, inputs |-> r.inputs, outputs |-> r.outputs,
                sapling |-> r.sapling, orchard |-> r.orchard]
    BY DEF Good, Fit, Shape
  <2> HIDE DEF q, r
  <2> QED BY <2>1, <2>2
<1> HIDE DEF q
<1>2. /\ q.sapling.spends = Each(p.sapling.spends, Unproven)
      /\ q.sapling.outs = Each(p.sapling.outs, Unproven)
      /\ q.sapling.sum = p.sapling.sum /\ q.sapling.anchor = p.sapling.anchor
      /\ q.sapling = [spends |-> q.sapling.spends, outs |-> q.sapling.outs, sum |-> q.sapling.sum,
                      anchor |-> q.sapling.anchor, bsk |-> q.sapling.bsk]
  BY <1>1 DEF Good, Fit, Shape, IsSapling
<1>3. /\ q.orchard.actions = p.orchard.actions /\ q.orchard.sum = p.orchard.sum
      /\ q.orchard.proof = {} /\ q.orchard.anchor = p.orchard.anchor
      /\ q.orchard = [actions |-> q.orchard.actions, sum |-> q.orchard.sum,
                      anchor |-> q.orchard.anchor, proof |-> q.orchard.proof, bsk |-> q.orchard.bsk]
  BY <1>1 DEF Good, Fit, Shape, IsOrchard
<1>4. SpendList(p.sapling.spends) /\ OutputList(p.sapling.outs)
  BY DEF Good, Fit, Shape, IsSapling
<1>5. /\ SpendList(q.sapling.spends) /\ DOMAIN q.sapling.spends = DOMAIN p.sapling.spends
      /\ Notes(q.sapling.spends) = Notes(p.sapling.spends)
      /\ \A n \in DOMAIN p.sapling.spends : q.sapling.spends[n] = Unproven(p.sapling.spends[n])
  <2>1. q.sapling.spends = [i \in DOMAIN p.sapling.spends |-> q.sapling.spends[i]]
    BY <1>2 DEF Each
  <2>2. \A n \in DOMAIN p.sapling.spends : q.sapling.spends[n] = Unproven(p.sapling.spends[n])
    BY <1>2 DEF Each
  <2>3. \A n \in DOMAIN p.sapling.spends :
          IsSpend(q.sapling.spends[n]) /\ q.sapling.spends[n].note = p.sapling.spends[n].note
    BY <1>4, <2>2 DEF SpendList, IsSpend, Unproven
  <2> QED BY <1>4, <2>1, <2>2, <2>3, SameSpends
<1>6. OutputList(q.sapling.outs) /\ SapOuts(q) = SapOuts(p)
  <2>1. q.sapling.outs = [i \in DOMAIN p.sapling.outs |-> q.sapling.outs[i]]
    BY <1>2 DEF Each
  <2>2. \A n \in DOMAIN p.sapling.outs : q.sapling.outs[n] = Unproven(p.sapling.outs[n])
    BY <1>2 DEF Each
  <2>3. \A n \in DOMAIN p.sapling.outs :
          IsOutput(q.sapling.outs[n]) /\ q.sapling.outs[n].out = p.sapling.outs[n].out
    BY <1>4, <2>2 DEF OutputList, IsOutput, Unproven
  <2>4. OutputList(q.sapling.outs) /\ Outs(q.sapling.outs) = Outs(p.sapling.outs)
    BY <1>4, <2>1, <2>3, SameOutputs
  <2> QED BY <2>4 DEF Outs, SapOuts
<1>7. Shape(q)
  BY <1>1, <1>2, <1>3, <1>5, <1>6 DEF Good, Fit, Shape, IsSapling, IsOrchard
<1>8. Same(p, q)
  BY <1>1, <1>2, <1>3, <1>5, <1>6, <1>7 DEF Same, Body
<1>9. Fit(q)
  BY <1>8, SameFit DEF Good
<1>10. Proven(q)
  <2>1. \A n \in DOMAIN p.sapling.spends : q.sapling.spends[n].proof = {}
    BY <1>4, <1>5 DEF SpendList, IsSpend, Unproven
  <2> QED BY <1>3, <1>5, <2>1 DEF Proven
<1>11. ASSUME Unlocked PROVE Signed(q)
  <2>1. Signed(p)
    BY <1>11 DEF Good
  <2>2. Anchored5(q)
    BY <1>2, <1>3, <2>1 DEF Signed, Anchored5
  <2>3. \A n \in DOMAIN p.inputs : InputSigs(q, n) \subseteq InputSigs(p, n)
    BY <1>1 DEF InputSigs
  <2>4. \A i \in DOMAIN p.sapling.spends : q.sapling.spends[i].sig = p.sapling.spends[i].sig
    BY <1>4, <1>5 DEF SpendList, IsSpend, Unproven
  <2> QED BY <1>1, <1>3, <1>5, <1>8, <2>1, <2>2, <2>3, <2>4, SameSigned DEF Good
<1> QED BY <1>9, <1>10, <1>11 DEF Good, q

\* The bundles' keys and anchors have no part in the items.
LEMMA HeadsGood ==
  ASSUME NEW p, Good(p), NEW q,
         q = [p EXCEPT !.sapling.bsk = {}, !.orchard.bsk = {}] \/
         /\ q = [p EXCEPT !.sapling.anchor = {}, !.orchard.anchor = {}]
         /\ (~SaplingProven(p) /\ p.orchard.proof = {}) \/ RedactProven
  PROVE  Good(q)
<1>1. /\ q.flags = p.flags /\ q.inputs = p.inputs /\ q.outputs = p.outputs
      /\ q = [flags |-> q.flags, inputs |-> q.inputs, outputs |-> q.outputs,
              sapling |-> q.sapling, orchard |-> q.orchard]
      /\ \/ /\ q.sapling = [p.sapling EXCEPT !.bsk = {}]
            /\ q.orchard = [p.orchard EXCEPT !.bsk = {}]
         \/ /\ q.sapling = [p.sapling EXCEPT !.anchor = {}]
            /\ q.orchard = [p.orchard EXCEPT !.anchor = {}]
            /\ (~SaplingProven(p) /\ p.orchard.proof = {}) \/ RedactProven
  BY DEF Good, Fit, Shape
<1>2. /\ q.sapling.spends = p.sapling.spends /\ q.sapling.outs = p.sapling.outs
      /\ q.sapling.sum = p.sapling.sum /\ q.sapling.anchor \in {p.sapling.anchor, {}}
      /\ q.sapling = [spends |-> q.sapling.spends, outs |-> q.sapling.outs, sum |-> q.sapling.sum,
                      anchor |-> q.sapling.anchor, bsk |-> q.sapling.bsk]
  BY <1>1 DEF Good, Fit, Shape, IsSapling
<1>3. /\ q.orchard.actions = p.orchard.actions /\ q.orchard.sum = p.orchard.sum
      /\ q.orchard.proof = p.orchard.proof /\ q.orchard.anchor \in {p.orchard.anchor, {}}
      /\ q.orchard = [actions |-> q.orchard.actions, sum |-> q.orchard.sum,
                      anchor |-> q.orchard.anchor, proof |-> q.orchard.proof, bsk |-> q.orchard.bsk]
  BY <1>1 DEF Good, Fit, Shape, IsOrchard
<1>4. \/ q.sapling.anchor = p.sapling.anchor /\ q.orchard.anchor = p.orchard.anchor
      \/ (~SaplingProven(p) /\ p.orchard.proof = {}) \/ RedactProven
  BY <1>1 DEF Good, Fit, Shape, IsSapling, IsOrchard
<1>5. Same(p, q)
  BY <1>1, <1>2, <1>3 DEF Good, Fit, Shape, IsSapling, IsOrchard, Same, Body, SapOuts
<1>6. Fit(q) /\ OrchardSum(q) = OrchardSum(p)
  BY <1>5, SameFit DEF Good
<1>7. ASSUME Honest PROVE Proven(q)
  <2>1. CASE q.sapling.anchor = p.sapling.anchor /\ q.orchard.anchor = p.orchard.anchor
    BY <1>1, <1>2, <1>3, <1>6, <1>7, <2>1 DEF Good, Proven
  <2>2. CASE ~SaplingProven(p) /\ p.orchard.proof = {}
    BY <1>2, <1>3, <2>2 DEF Proven, SaplingProven
  <2> QED BY <1>4, <1>7, <2>1, <2>2 DEF Honest
<1>8. ASSUME Unlocked PROVE Signed(q)
  <2>1. Signed(p)
    BY <1>8 DEF Good
  <2>2. Anchored5(q)
    BY <1>2, <1>3, <2>1 DEF Signed, Anchored5
  <2>3. \A n \in DOMAIN p.inputs : InputSigs(q, n) = InputSigs(p, n)
    BY <1>1 DEF InputSigs
  <2> QED BY <1>1, <1>2, <1>3, <1>5, <2>1, <2>2, <2>3, SameSigned DEF Good
<1> QED BY <1>6, <1>7, <1>8 DEF Good

LEMMA RedactGood ==
  ASSUME NEW d, NEW p, Good(p), Redact(d, p)
  PROVE  \E q : Becomes(d, q) /\ Good(q)
<1>1. CASE Becomes(d, WithoutSigs(p))
  BY <1>1, WithoutSigsGood
<1>2. CASE Becomes(d, WithoutProofs(p))
  BY <1>2, WithoutProofsGood
<1>3. CASE Becomes(d, [p EXCEPT !.sapling.bsk = {}, !.orchard.bsk = {}])
  BY <1>3, HeadsGood
<1>4. CASE /\ (~SaplingProven(p) /\ p.orchard.proof = {}) \/ RedactProven
           /\ Becomes(d, [p EXCEPT !.sapling.anchor = {}, !.orchard.anchor = {}])
  BY <1>4, HeadsGood
<1> QED BY <1>1, <1>2, <1>3, <1>4 DEF Redact

-----------------------------------------------------------------------------
(* IO Finalizer and Prover *)

\* What is signed does not change.
LEMMA SameOver ==
  ASSUME NEW p, Shape(p), NEW q, Same(p, q)
  PROVE  /\ OverShielded(q) = OverShielded(p)
         /\ \A n \in DOMAIN p.inputs : OverInput(q, n) = OverInput(p, n)
<1>1. Coins(q) = Coins(p)
  BY DEF Same, Coins
<1>2. OverShielded(q) = OverShielded(p)
  BY <1>1 DEF Same, OverShielded
<1>3. ASSUME NEW n \in DOMAIN p.inputs PROVE OverInput(q, n) = OverInput(p, n)
  <2>1. q.inputs[n].coin = p.inputs[n].coin /\ q.outputs = p.outputs
    BY DEF Same
  <2>2. TransparentSighash(q, n).of = TransparentSighash(p, n).of
    BY <2>1 DEF TransparentSighash
  <2>3. TransparentSighash(q, n).ins = TransparentSighash(p, n).ins
    BY <1>1, <2>1 DEF TransparentSighash
  <2>4. TransparentSighash(q, n).vouts = TransparentSighash(p, n).vouts
    <3> DEFINE t == SighashOf[p.inputs[n].coin]
    <3>1. t \in [kind : {"all", "none", "single"}, anyone : BOOLEAN]
      BY PcztAssumption DEF Shape, InputList, IsInput
    <3> QED BY <2>1, <3>1 DEF TransparentSighash
  <2> QED BY <2>2, <2>3, <2>4 DEF OverInput, Same
<1> QED BY <1>2, <1>3

LEMMA DummiesSigned ==
  ASSUME NEW p, NEW s
  PROVE  /\ SignDummies(s, p) = [i \in DOMAIN s |-> SignDummies(s, p)[i]]
         /\ \A i \in DOMAIN s : SignDummies(s, p)[i] \in
              {s[i], [s[i] EXCEPT !.sig = {[over |-> ShieldedSighash(p), draw |-> drawn]}, !.key = {}]}
BY DEF SignDummies

LEMMA FinalizeIoGood ==
  ASSUME NEW d, NEW p, Good(p), FinalizeIo(d, p)
  PROVE  \E q : Becomes(d, q) /\ Good(q)
<1> DEFINE flags == IF HasShielded(p) THEN p.flags \ Modifiable ELSE p.flags
           spends == SignDummies(p.sapling.spends, p)
           actions == SignDummies(p.orchard.actions, p)
           sbsk == {SaplingSum(p)}
           obsk == IF HasOrchard(p) THEN {OrchardSum(p)} ELSE p.orchard.bsk
           r1 == [p EXCEPT !.flags = flags]
           r2 == [r1 EXCEPT !.sapling.bsk = sbsk]
           r3 == [r2 EXCEPT !.sapling.spends = spends]
           r4 == [r3 EXCEPT !.orchard.bsk = obsk]
           q == [r4 EXCEPT !.orchard.actions = actions]
           sig == [over |-> ShieldedSighash(p), draw |-> drawn]
<1>1. Becomes(d, q) /\ Parses(p)
  BY DEF FinalizeIo
<1> HIDE DEF flags, spends, actions, sbsk, obsk, q
<1>2. /\ r4.flags = flags /\ r4.inputs = p.inputs /\ r4.outputs = p.outputs
      /\ r4.sapling = [[p.sapling EXCEPT !.bsk = sbsk] EXCEPT !.spends = spends]
      /\ r4.orchard = [p.orchard EXCEPT !.bsk = obsk]
      /\ r4 = [flags |-> r4.flags, inputs |-> r4.inputs, outputs |-> r4.outputs,
               sapling |-> r4.sapling, orchard |-> r4.orchard]
  <2>1. /\ r1.flags = flags /\ r1.inputs = p.inputs /\ r1.outputs = p.outputs
        /\ r1.sapling = p.sapling /\ r1.orchard = p.orchard
        /\ r1 = [flags |-> r1.flags, inputs |-> r1.inputs, outputs |-> r1.outputs,
                 sapling |-> r1.sapling, orchard |-> r1.orchard]
    BY DEF Good, Fit, Shape
  <2> HIDE DEF r1
  <2>2. /\ r2.flags = flags /\ r2.inputs = p.inputs /\ r2.outputs = p.outputs
        /\ r2.sapling = [p.sapling EXCEPT !.bsk = sbsk] /\ r2.orchard = p.orchard
        /\ r2 = [flags |-> r2.flags, inputs |-> r2.inputs, outputs |-> r2.outputs,
                 sapling |-> r2.sapling, orchard |-> r2.orchard]
    BY <2>1
  <2> HIDE DEF r2
  <2>3. /\ r3.flags = flags /\ r3.inputs = p.inputs /\ r3.outputs = p.outputs
        /\ r3.sapling = [[p.sapling EXCEPT !.bsk = sbsk] EXCEPT !.spends = spends] /\ r3.orchard = p.orchard
        /\ r3 = [flags |-> r3.flags, inputs |-> r3.inputs, outputs |-> r3.outputs,
                 sapling |-> r3.sapling, orchard |-> r3.orchard]
    BY <2>2
  <2> HIDE DEF r3
  <2> QED BY <2>3
<1>3. /\ q.flags = flags /\ q.inputs = p.inputs /\ q.outputs = p.outputs
      /\ q.sapling = r4.sapling
      /\ q.orchard = [[p.orchard EXCEPT !.bsk = obsk] EXCEPT !.actions = actions]
      /\ q = [flags |-> q.flags, inputs |-> q.inputs, outputs |-> q.outputs,
               sapling |-> q.sapling, orchard |-> q.orchard]
  <2> HIDE DEF r4
  <2> QED BY <1>2 DEF q
<1> HIDE DEF r4
<1>4. /\ q.sapling.spends = spends /\ q.sapling.outs = p.sapling.outs
      /\ q.sapling.sum = p.sapling.sum /\ q.sapling.anchor = p.sapling.anchor
      /\ q.sapling = [spends |-> q.sapling.spends, outs |-> q.sapling.outs, sum |-> q.sapling.sum,
                      anchor |-> q.sapling.anchor, bsk |-> q.sapling.bsk]
  BY <1>2, <1>3 DEF Good, Fit, Shape, IsSapling
<1>5. /\ q.orchard.actions = actions /\ q.orchard.sum = p.orchard.sum
      /\ q.orchard.proof = p.orchard.proof /\ q.orchard.anchor = p.orchard.anchor
      /\ q.orchard = [actions |-> q.orchard.actions, sum |-> q.orchard.sum,
                      anchor |-> q.orchard.anchor, proof |-> q.orchard.proof, bsk |-> q.orchard.bsk]
  BY <1>3 DEF Good, Fit, Shape, IsOrchard
<1>6. /\ SpendList(p.sapling.spends) /\ ActionList(p.orchard.actions)
  BY DEF Good, Fit, Shape, IsSapling, IsOrchard
<1>7. /\ SpendList(q.sapling.spends) /\ DOMAIN q.sapling.spends = DOMAIN p.sapling.spends
      /\ Notes(q.sapling.spends) = Notes(p.sapling.spends)
      /\ \A i \in DOMAIN p.sapling.spends :
           /\ q.sapling.spends[i].proof = p.sapling.spends[i].proof
           /\ q.sapling.spends[i].sig \in {p.sapling.spends[i].sig, {sig}}
  <2>1. /\ spends = [i \in DOMAIN p.sapling.spends |-> spends[i]]
        /\ \A i \in DOMAIN p.sapling.spends :
             spends[i] \in {p.sapling.spends[i], [p.sapling.spends[i] EXCEPT !.sig = {sig}, !.key = {}]}
    BY DummiesSigned DEF spends
  <2>2. \A i \in DOMAIN p.sapling.spends :
          /\ IsSpend(spends[i]) /\ spends[i].note = p.sapling.spends[i].note
          /\ spends[i].proof = p.sapling.spends[i].proof
          /\ spends[i].sig \in {p.sapling.spends[i].sig, {sig}}
    <3> HIDE DEF sig
    <3> QED BY <1>6, <2>1 DEF SpendList, IsSpend
  <2>3. SpendList(spends) /\ DOMAIN spends = DOMAIN p.sapling.spends /\ Notes(spends) = Notes(p.sapling.spends)
    BY <1>6, <2>1, <2>2, SameSpends
  <2> HIDE DEF sig
  <2> QED BY <1>4, <2>2, <2>3
<1>8. /\ ActionList(q.orchard.actions) /\ DOMAIN q.orchard.actions = DOMAIN p.orchard.actions
      /\ Notes(q.orchard.actions) = Notes(p.orchard.actions)
      /\ \A i \in DOMAIN p.orchard.actions :
           q.orchard.actions[i].sig \in {p.orchard.actions[i].sig, {sig}}
  <2>1. /\ actions = [i \in DOMAIN p.orchard.actions |-> actions[i]]
        /\ \A i \in DOMAIN p.orchard.actions :
             actions[i] \in {p.orchard.actions[i], [p.orchard.actions[i] EXCEPT !.sig = {sig}, !.key = {}]}
    BY DummiesSigned DEF actions
  <2>2. \A i \in DOMAIN p.orchard.actions :
          /\ IsAction(actions[i]) /\ actions[i].note = p.orchard.actions[i].note
          /\ actions[i].sig \in {p.orchard.actions[i].sig, {sig}}
    <3> HIDE DEF sig
    <3> QED BY <1>6, <2>1 DEF ActionList, IsAction
  <2>3. ActionList(actions) /\ DOMAIN actions = DOMAIN p.orchard.actions /\ Notes(actions) = Notes(p.orchard.actions)
    BY <1>6, <2>1, <2>2, SameActions
  <2> HIDE DEF sig
  <2> QED BY <1>5, <2>2, <2>3
<1>9. flags \subseteq p.flags
  BY DEF flags
<1>10. Same(p, q)
  <2>1. Shape(q)
    BY <1>3, <1>4, <1>5, <1>7, <1>8, <1>9 DEF Good, Fit, Shape, IsSapling, IsOrchard
  <2> QED BY <1>3, <1>4, <1>5, <1>7, <1>8, <1>9, <2>1 DEF Same, Body, SapOuts
<1>11. Fit(q) /\ Carries(p, q) /\ OrchardSum(q) = OrchardSum(p)
  BY <1>10, SameFit DEF Good
<1>12. ASSUME Honest PROVE Proven(q)
  BY <1>3, <1>4, <1>5, <1>7, <1>9, <1>11, <1>12 DEF Good, Proven
<1>13. ASSUME Unlocked PROVE Signed(q)
  <2>1. Signed(p) /\ Shape(p)
    BY <1>13 DEF Good, Fit
  <2>2. NoLocks(q) /\ Anchored5(q)
    BY <1>3, <1>4, <1>5, <2>1 DEF Signed, NoLocks, Anchored5
  <2>3. \A n \in DOMAIN q.inputs : \A s \in InputSigs(q, n) :
          n \in DOMAIN p.inputs /\ s \in InputSigs(p, n)
    BY <1>3 DEF InputSigs
  <2>4. sig.over = OverShielded(q)
    BY <1>1, <1>10, <2>1, SighashIs, SameOver DEF Good
  <2>5. ASSUME DOMAIN p.sapling.spends # {} \/ DOMAIN p.orchard.actions # {}
        PROVE  ItemSigned(q, sig)
    <3>1. HasShielded(p)
      BY <2>5 DEF HasShielded, HasOrchard
    <3> QED BY <1>3, <2>4, <3>1 DEF ItemSigned, flags
  <2> HIDE DEF sig
  <2>6. \A i \in DOMAIN q.sapling.spends : \A s \in q.sapling.spends[i].sig :
          (i \in DOMAIN p.sapling.spends /\ s \in p.sapling.spends[i].sig) \/ ItemSigned(q, s)
    BY <1>7, <2>5
  <2>7. \A i \in DOMAIN q.orchard.actions : \A s \in q.orchard.actions[i].sig :
          (i \in DOMAIN p.orchard.actions /\ s \in p.orchard.actions[i].sig) \/ ItemSigned(q, s)
    BY <1>8, <2>5
  <2> QED BY <1>11, <2>1, <2>2, <2>3, <2>6, <2>7, StaysSigned
<1> QED BY <1>1, <1>11, <1>12, <1>13 DEF Good

LEMMA ProveSaplingGood ==
  ASSUME NEW d, NEW p, Good(p), ProveSapling(d, p)
  PROVE  \E q : Becomes(d, q) /\ Good(q)
<1> DEFINE proof == {[for |-> p.sapling.anchor, draw |-> drawn]}
           other == {[for |-> {}, draw |-> drawn]}
           Spend(x)  == [x EXCEPT !.proof = proof]
           Output(x) == [x EXCEPT !.proof = other]
           spends == [i \in DOMAIN p.sapling.spends |-> Spend(p.sapling.spends[i])]
           outs == [i \in DOMAIN p.sapling.outs |-> Output(p.sapling.outs[i])]
           r == [p EXCEPT !.sapling.spends = spends]
           q == [r EXCEPT !.sapling.outs = outs]
<1>1. Becomes(d, q) /\ p.sapling.anchor # {}
  BY DEF ProveSapling, Each
<1>11. \A f \in proof : f.for = p.sapling.anchor
  OBVIOUS
<1> HIDE DEF proof, other, spends, outs, q
<1>2. /\ q.flags = p.flags /\ q.inputs = p.inputs /\ q.outputs = p.outputs
      /\ q.sapling = [[p.sapling EXCEPT !.spends = spends] EXCEPT !.outs = outs]
      /\ q.orchard = p.orchard
      /\ q = [flags |-> q.flags, inputs |-> q.inputs, outputs |-> q.outputs,
              sapling |-> q.sapling, orchard |-> q.orchard]
  <2>1. /\ r.flags = p.flags /\ r.inputs = p.inputs /\ r.outputs = p.outputs
        /\ r.orchard = p.orchard /\ r.sapling = [p.sapling EXCEPT !.spends = spends]
        /\ r = [flags |-> r.flags, inputs |-> r.inputs, outputs |-> r.outputs,
                sapling |-> r.sapling, orchard |-> r.orchard]
    BY DEF Good, Fit, Shape
  <2> HIDE DEF r
  <2> QED BY <2>1 DEF q
<1>3. /\ q.sapling.spends = spends /\ q.sapling.outs = outs
      /\ q.sapling.sum = p.sapling.sum /\ q.sapling.anchor = p.sapling.anchor
      /\ q.sapling = [spends |-> q.sapling.spends, outs |-> q.sapling.outs, sum |-> q.sapling.sum,
                      anchor |-> q.sapling.anchor, bsk |-> q.sapling.bsk]
  BY <1>2 DEF Good, Fit, Shape, IsSapling
<1>4. SpendList(p.sapling.spends) /\ OutputList(p.sapling.outs)
  BY DEF Good, Fit, Shape, IsSapling
<1>5. /\ SpendList(q.sapling.spends) /\ DOMAIN q.sapling.spends = DOMAIN p.sapling.spends
      /\ Notes(q.sapling.spends) = Notes(p.sapling.spends)
      /\ \A i \in DOMAIN p.sapling.spends :
           /\ q.sapling.spends[i].sig = p.sapling.spends[i].sig
           /\ \A f \in q.sapling.spends[i].proof : f.for = p.sapling.anchor
  <2>1. spends = [i \in DOMAIN p.sapling.spends |-> spends[i]]
    BY DEF spends
  <2>2. \A i \in DOMAIN p.sapling.spends :
          /\ IsSpend(spends[i]) /\ spends[i].note = p.sapling.spends[i].note
          /\ spends[i].sig = p.sapling.spends[i].sig
          /\ spends[i].proof = proof
    <3>1. \A i \in DOMAIN p.sapling.spends : spends[i] = Spend(p.sapling.spends[i])
      BY DEF spends
    <3> QED BY <1>4, <3>1 DEF SpendList, IsSpend
  <2>3. SpendList(spends) /\ DOMAIN spends = DOMAIN p.sapling.spends /\ Notes(spends) = Notes(p.sapling.spends)
    BY <1>4, <2>1, <2>2, SameSpends
  <2> QED BY <1>3, <1>11, <2>2, <2>3
<1>6. OutputList(q.sapling.outs) /\ SapOuts(q) = SapOuts(p)
  <2>1. outs = [i \in DOMAIN p.sapling.outs |-> outs[i]]
    BY DEF outs
  <2>2. \A i \in DOMAIN p.sapling.outs : IsOutput(outs[i]) /\ outs[i].out = p.sapling.outs[i].out
    <3>1. \A i \in DOMAIN p.sapling.outs : outs[i] = Output(p.sapling.outs[i])
      BY DEF outs
    <3> QED BY <1>4, <3>1 DEF OutputList, IsOutput
  <2>3. OutputList(outs) /\ Outs(outs) = Outs(p.sapling.outs)
    BY <1>4, <2>1, <2>2, SameOutputs
  <2> QED BY <1>3, <2>3 DEF Outs, SapOuts
<1>7. Same(p, q)
  <2>1. Shape(q)
    BY <1>2, <1>3, <1>5, <1>6 DEF Good, Fit, Shape, IsSapling
  <2> QED BY <1>2, <1>3, <1>5, <1>6, <2>1 DEF Same, Body
<1>8. Fit(q) /\ OrchardSum(q) = OrchardSum(p)
  BY <1>7, SameFit DEF Good
<1>9. ASSUME Honest PROVE Proven(q)
  BY <1>1, <1>2, <1>3, <1>5, <1>8, <1>9 DEF Good, Proven
<1>10. ASSUME Unlocked PROVE Signed(q)
  <2>1. Signed(p)
    BY <1>10 DEF Good
  <2>2. Anchored5(q)
    BY <1>2, <1>3, <2>1 DEF Signed, Anchored5
  <2>3. \A n \in DOMAIN p.inputs : InputSigs(q, n) = InputSigs(p, n)
    BY <1>2 DEF InputSigs
  <2> QED BY <1>2, <1>5, <1>7, <2>1, <2>2, <2>3, SameSigned DEF Good
<1> QED BY <1>1, <1>8, <1>9, <1>10 DEF Good

LEMMA ProveOrchardGood ==
  ASSUME NEW d, NEW p, Good(p), ProveOrchard(d, p)
  PROVE  \E q : Becomes(d, q) /\ Good(q)
<1> DEFINE q == [p EXCEPT !.orchard.proof = {OrchardProof(p)}]
<1>1. Becomes(d, q) /\ p.orchard.anchor # {} /\ (ProveEarly \/ "shielded" \notin p.flags)
  BY DEF ProveOrchard
<1>2. /\ q.flags = p.flags /\ q.inputs = p.inputs /\ q.outputs = p.outputs
      /\ q.sapling = p.sapling /\ q.orchard = [p.orchard EXCEPT !.proof = {OrchardProof(p)}]
      /\ q = [flags |-> q.flags, inputs |-> q.inputs, outputs |-> q.outputs,
              sapling |-> q.sapling, orchard |-> q.orchard]
  BY DEF Good, Fit, Shape
<1> HIDE DEF q
<1>3. /\ q.orchard.actions = p.orchard.actions /\ q.orchard.sum = p.orchard.sum
      /\ q.orchard.proof = {OrchardProof(p)} /\ q.orchard.anchor = p.orchard.anchor
      /\ q.orchard = [actions |-> q.orchard.actions, sum |-> q.orchard.sum,
                      anchor |-> q.orchard.anchor, proof |-> q.orchard.proof, bsk |-> q.orchard.bsk]
  BY <1>2 DEF Good, Fit, Shape, IsOrchard
<1>4. Same(p, q)
  BY <1>2, <1>3 DEF Good, Fit, Shape, IsOrchard, Same, Body, SapOuts
<1>5. Fit(q) /\ OrchardSum(q) = OrchardSum(p)
  BY <1>4, SameFit DEF Good
<1>6. ASSUME Honest PROVE Proven(q)
  BY <1>1, <1>2, <1>3, <1>5, <1>6 DEF Good, Proven, Honest, OrchardProof
<1>7. ASSUME Unlocked PROVE Signed(q)
  <2>1. Signed(p)
    BY <1>7 DEF Good
  <2>2. Anchored5(q)
    BY <1>2, <1>3, <2>1 DEF Signed, Anchored5
  <2>3. \A n \in DOMAIN p.inputs : InputSigs(q, n) = InputSigs(p, n)
    BY <1>2 DEF InputSigs
  <2> QED BY <1>2, <1>3, <1>4, <2>1, <2>2, <2>3, SameSigned DEF Good
<1> QED BY <1>1, <1>5, <1>6, <1>7 DEF Good

-----------------------------------------------------------------------------
(* Signer and Spend Finalizer *)

LEMMA SignTransparentGood ==
  ASSUME NEW d, NEW p, Good(p), SignTransparent(d, p)
  PROVE  \E q : Becomes(d, q) /\ Good(q)
<1>0. PICK n \in DOMAIN p.inputs :
        /\ Parses(p)
        /\ \E k \in Ran(Signers[p.inputs[n].coin]) :
             Becomes(d, [p EXCEPT
               !.inputs[n].sigs = {s \in @ : s.key # k} \cup {[key |-> k, over |-> TransparentSighash(p, n)]},
               !.flags = SignedFlags(@, SighashOf[p.inputs[n].coin])])
  BY DEF SignTransparent
<1>1. PICK k \in Ran(Signers[p.inputs[n].coin]) :
        Becomes(d, [p EXCEPT
          !.inputs[n].sigs = {s \in @ : s.key # k} \cup {[key |-> k, over |-> TransparentSighash(p, n)]},
          !.flags = SignedFlags(@, SighashOf[p.inputs[n].coin])])
  BY <1>0
<1> DEFINE t == SighashOf[p.inputs[n].coin]
           sig == [key |-> k, over |-> TransparentSighash(p, n)]
           sigs == {s \in p.inputs[n].sigs : s.key # k} \cup {sig}
           flags == SignedFlags(p.flags, t)
           r == [p EXCEPT !.inputs[n].sigs = sigs]
           q == [r EXCEPT !.flags = flags]
<1>2. InputList(p.inputs)
  BY DEF Good, Fit, Shape
<1>3. t \in [kind : {"all", "none", "single"}, anyone : BOOLEAN]
  BY <1>2, PcztAssumption DEF InputList, IsInput
<1>4. /\ flags \subseteq Flags /\ flags \cap Modifiable \subseteq p.flags
      /\ "shielded" \notin flags
      /\ "inputs" \in flags => t.anyone
      /\ "outputs" \in flags => t.kind = "none"
  <2>1. p.flags \subseteq Flags
    BY DEF Good, Fit, Shape
  <2> HIDE DEF t
  <2> QED BY <1>3, <2>1 DEF SignedFlags, Flags, Modifiable
<1>5. sig.over = TransparentSighash(p, n)
  OBVIOUS
<1>6. sigs \subseteq p.inputs[n].sigs \cup {sig}
  OBVIOUS
<1>7. /\ r.flags = p.flags /\ r.outputs = p.outputs /\ r.sapling = p.sapling /\ r.orchard = p.orchard
      /\ r.inputs = [p.inputs EXCEPT ![n] = [@ EXCEPT !.sigs = sigs]]
      /\ r = [flags |-> r.flags, inputs |-> r.inputs, outputs |-> r.outputs,
              sapling |-> r.sapling, orchard |-> r.orchard]
  <2> HIDE DEF sigs
  <2> QED BY DEF Good, Fit, Shape
<1>8. Becomes(d, q)
  <2>1. [p EXCEPT !.inputs[n].sigs = {s \in @ : s.key # k} \cup {sig}, !.flags = SignedFlags(@, t)] = q
    <3>1. [p EXCEPT !.inputs[n].sigs = {s \in @ : s.key # k} \cup {sig}] = r
      OBVIOUS
    <3> HIDE DEF r, sig, t, sigs
    <3>2. r.flags = p.flags
      BY <1>7
    <3>3. q = [r EXCEPT !.flags = SignedFlags(@, t)]
      BY <3>2
    <3> QED BY <3>1, <3>3
  <2> QED BY <1>1, <2>1
<1> HIDE DEF t, sig, sigs, flags, r
<1>9. /\ q.flags = flags /\ q.outputs = p.outputs /\ q.sapling = p.sapling /\ q.orchard = p.orchard
      /\ q.inputs = [p.inputs EXCEPT ![n] = [@ EXCEPT !.sigs = sigs]]
      /\ q = [flags |-> q.flags, inputs |-> q.inputs, outputs |-> q.outputs,
              sapling |-> q.sapling, orchard |-> q.orchard]
  BY <1>7
<1> HIDE DEF q
<1>10. p.inputs = [i \in DOMAIN p.inputs |-> p.inputs[i]]
  BY <1>2, ListIs DEF InputList
<1>11. /\ q.inputs = [i \in DOMAIN p.inputs |-> q.inputs[i]]
       /\ q.inputs[n] = [p.inputs[n] EXCEPT !.sigs = sigs]
       /\ \A i \in DOMAIN p.inputs : i # n => q.inputs[i] = p.inputs[i]
  BY <1>9, <1>10
<1>12. /\ \A i \in DOMAIN p.inputs : /\ IsInput(q.inputs[i]) /\ q.inputs[i].coin = p.inputs[i].coin
                                     /\ q.inputs[i].time = p.inputs[i].time
                                     /\ q.inputs[i].height = p.inputs[i].height
                                     /\ q.inputs[i].script = p.inputs[i].script
       /\ q.inputs[n].sigs = sigs
  <2>1. \A i \in DOMAIN p.inputs : IsInput(p.inputs[i])
    BY <1>2 DEF InputList
  <2>2. /\ IsInput(q.inputs[n]) /\ q.inputs[n].coin = p.inputs[n].coin
        /\ q.inputs[n].time = p.inputs[n].time /\ q.inputs[n].height = p.inputs[n].height
        /\ q.inputs[n].script = p.inputs[n].script /\ q.inputs[n].sigs = sigs
    BY <1>11, <2>1 DEF IsInput
  <2> QED BY <1>11, <2>1, <2>2
<1>13. InputList(q.inputs) /\ DOMAIN q.inputs = DOMAIN p.inputs
  BY <1>2, <1>11, <1>12, SameInputs
<1>14. Same(p, q)
  BY <1>4, <1>9, <1>12, <1>13 DEF Good, Fit, Shape, Same, Body, SapOuts
<1>15. Fit(q) /\ Carries(p, q) /\ OrchardSum(q) = OrchardSum(p)
  BY <1>14, SameFit DEF Good
<1>16. ASSUME Honest PROVE Proven(q)
  <2>1. "shielded" \in q.flags => "shielded" \in p.flags
    BY <1>4, <1>9
  <2> QED BY <1>9, <1>15, <1>16, <2>1 DEF Good, Proven
<1>17. ASSUME Unlocked PROVE Signed(q)
  <2>1. Signed(p) /\ Shape(p)
    BY <1>17 DEF Good, Fit
  <2>2. NoLocks(q) /\ Anchored5(q)
    BY <1>9, <1>12, <1>13, <2>1 DEF Signed, NoLocks, Anchored5
  <2>3. InputSigned(q, n, sig)
    <3>1. sig.over = OverInput(q, n)
      BY <1>0, <1>5, <1>14, <2>1, SighashIs, SameOver DEF Good
    <3> QED BY <1>4, <1>9, <1>12, <3>1 DEF InputSigned, t
  <2>4. \A i \in DOMAIN q.inputs : \A s \in InputSigs(q, i) :
          (i \in DOMAIN p.inputs /\ s \in InputSigs(p, i)) \/ InputSigned(q, i, s)
    BY <1>6, <1>11, <1>12, <1>13, <2>3 DEF InputSigs
  <2> QED BY <1>9, <1>15, <2>1, <2>2, <2>4, StaysSigned
<1> QED BY <1>8, <1>15, <1>16, <1>17 DEF Good

LEMMA SignShieldedGood ==
  ASSUME NEW d, NEW p, Good(p), SignShielded(d, p)
  PROVE  \E q : Becomes(d, q) /\ Good(q)
<1> DEFINE sig == [over |-> ShieldedSighash(p), draw |-> drawn]
           S(i) == [p EXCEPT !.sapling.spends[i].sig = {sig}, !.flags = @ \ Modifiable]
           A(i) == [p EXCEPT !.orchard.actions[i].sig = {sig}, !.flags = @ \ Modifiable]
<1>1. sig.over = ShieldedSighash(p) /\ Parses(p)
  BY DEF SignShielded
<1>2. \/ \E i \in DOMAIN p.sapling.spends : Becomes(d, S(i))
      \/ \E i \in DOMAIN p.orchard.actions : Becomes(d, A(i))
  BY DEF SignShielded
<1>3. /\ SpendList(p.sapling.spends) /\ ActionList(p.orchard.actions)
  BY DEF Good, Fit, Shape, IsSapling, IsOrchard
<1> HIDE DEF sig
<1>4. ASSUME NEW i \in DOMAIN p.sapling.spends PROVE Good(S(i))
  <2> DEFINE r == [p EXCEPT !.sapling.spends[i].sig = {sig}]
             q == [r EXCEPT !.flags = @ \ Modifiable]
  <2>1. /\ r.flags = p.flags /\ r.inputs = p.inputs /\ r.outputs = p.outputs /\ r.orchard = p.orchard
        /\ r.sapling = [p.sapling EXCEPT !.spends[i].sig = {sig}]
        /\ r = [flags |-> r.flags, inputs |-> r.inputs, outputs |-> r.outputs,
                sapling |-> r.sapling, orchard |-> r.orchard]
    BY DEF Good, Fit, Shape
  <2>2. S(i) = q
    OBVIOUS
  <2> HIDE DEF r, S
  <2>3. /\ q.flags = p.flags \ Modifiable /\ q.inputs = p.inputs /\ q.outputs = p.outputs
        /\ q.orchard = p.orchard /\ q.sapling = r.sapling
        /\ q = [flags |-> q.flags, inputs |-> q.inputs, outputs |-> q.outputs,
                sapling |-> q.sapling, orchard |-> q.orchard]
    BY <2>1
  <2> HIDE DEF q
  <2>4. /\ q.sapling.spends = [p.sapling.spends EXCEPT ![i].sig = {sig}]
        /\ q.sapling.outs = p.sapling.outs
        /\ q.sapling.sum = p.sapling.sum /\ q.sapling.anchor = p.sapling.anchor
        /\ q.sapling = [spends |-> q.sapling.spends, outs |-> q.sapling.outs, sum |-> q.sapling.sum,
                        anchor |-> q.sapling.anchor, bsk |-> q.sapling.bsk]
    BY <2>1, <2>3 DEF Good, Fit, Shape, IsSapling
  <2>5. p.sapling.spends = [j \in DOMAIN p.sapling.spends |-> p.sapling.spends[j]]
    BY <1>3, ListIs DEF SpendList
  <2>6. /\ q.sapling.spends = [j \in DOMAIN p.sapling.spends |-> q.sapling.spends[j]]
        /\ q.sapling.spends[i] = [p.sapling.spends[i] EXCEPT !.sig = {sig}]
        /\ \A j \in DOMAIN p.sapling.spends : j # i => q.sapling.spends[j] = p.sapling.spends[j]
    BY <2>4, <2>5
  <2>7. /\ \A j \in DOMAIN p.sapling.spends :
             /\ IsSpend(q.sapling.spends[j]) /\ q.sapling.spends[j].note = p.sapling.spends[j].note
             /\ q.sapling.spends[j].proof = p.sapling.spends[j].proof
        /\ q.sapling.spends[i].sig = {sig}
    <3>1. \A j \in DOMAIN p.sapling.spends : IsSpend(p.sapling.spends[j])
      BY <1>3 DEF SpendList
    <3>2. /\ IsSpend(q.sapling.spends[i]) /\ q.sapling.spends[i].note = p.sapling.spends[i].note
          /\ q.sapling.spends[i].proof = p.sapling.spends[i].proof
          /\ q.sapling.spends[i].sig = {sig}
      BY <2>6, <3>1 DEF IsSpend
    <3> QED BY <2>6, <3>1, <3>2
  <2>8. /\ SpendList(q.sapling.spends) /\ DOMAIN q.sapling.spends = DOMAIN p.sapling.spends
        /\ Notes(q.sapling.spends) = Notes(p.sapling.spends)
    BY <1>3, <2>6, <2>7, SameSpends
  <2>9. Same(p, q)
    <3>1. Shape(q)
      BY <2>3, <2>4, <2>8 DEF Good, Fit, Shape, IsSapling
    <3> QED BY <2>3, <2>4, <2>8, <3>1 DEF Same, Body, SapOuts
  <2>10. Fit(q) /\ Carries(p, q) /\ OrchardSum(q) = OrchardSum(p)
    BY <2>9, SameFit DEF Good
  <2>11. ASSUME Honest PROVE Proven(q)
    BY <2>3, <2>4, <2>7, <2>8, <2>10, <2>11 DEF Good, Proven
  <2>12. ASSUME Unlocked PROVE Signed(q)
    <3>1. Signed(p) /\ Shape(p)
      BY <2>12 DEF Good, Fit
    <3>2. NoLocks(q) /\ Anchored5(q)
      BY <2>3, <2>4, <3>1 DEF Signed, NoLocks, Anchored5
    <3>3. \A n \in DOMAIN q.inputs : \A s \in InputSigs(q, n) :
            n \in DOMAIN p.inputs /\ s \in InputSigs(p, n)
      BY <2>3 DEF InputSigs
    <3>4. ItemSigned(q, sig)
      BY <1>1, <2>3, <2>9, <3>1, SighashIs, SameOver DEF Good, ItemSigned
    <3>5. \A j \in DOMAIN q.sapling.spends : \A s \in q.sapling.spends[j].sig :
            (j \in DOMAIN p.sapling.spends /\ s \in p.sapling.spends[j].sig) \/ ItemSigned(q, s)
      BY <2>6, <2>7, <2>8, <3>4
    <3> QED BY <2>3, <2>10, <3>1, <3>2, <3>3, <3>5, StaysSigned
  <2> QED BY <2>2, <2>10, <2>11, <2>12 DEF Good
<1>5. ASSUME NEW i \in DOMAIN p.orchard.actions PROVE Good(A(i))
  <2> DEFINE r == [p EXCEPT !.orchard.actions[i].sig = {sig}]
             q == [r EXCEPT !.flags = @ \ Modifiable]
  <2>1. /\ r.flags = p.flags /\ r.inputs = p.inputs /\ r.outputs = p.outputs /\ r.sapling = p.sapling
        /\ r.orchard = [p.orchard EXCEPT !.actions[i].sig = {sig}]
        /\ r = [flags |-> r.flags, inputs |-> r.inputs, outputs |-> r.outputs,
                sapling |-> r.sapling, orchard |-> r.orchard]
    BY DEF Good, Fit, Shape
  <2>2. A(i) = q
    OBVIOUS
  <2> HIDE DEF r, A
  <2>3. /\ q.flags = p.flags \ Modifiable /\ q.inputs = p.inputs /\ q.outputs = p.outputs
        /\ q.sapling = p.sapling /\ q.orchard = r.orchard
        /\ q = [flags |-> q.flags, inputs |-> q.inputs, outputs |-> q.outputs,
                sapling |-> q.sapling, orchard |-> q.orchard]
    BY <2>1
  <2> HIDE DEF q
  <2>4. /\ q.orchard.actions = [p.orchard.actions EXCEPT ![i].sig = {sig}]
        /\ q.orchard.sum = p.orchard.sum /\ q.orchard.anchor = p.orchard.anchor
        /\ q.orchard.proof = p.orchard.proof
        /\ q.orchard = [actions |-> q.orchard.actions, sum |-> q.orchard.sum,
                        anchor |-> q.orchard.anchor, proof |-> q.orchard.proof, bsk |-> q.orchard.bsk]
    BY <2>1, <2>3 DEF Good, Fit, Shape, IsOrchard
  <2>5. p.orchard.actions = [j \in DOMAIN p.orchard.actions |-> p.orchard.actions[j]]
    BY <1>3, ListIs DEF ActionList
  <2>6. /\ q.orchard.actions = [j \in DOMAIN p.orchard.actions |-> q.orchard.actions[j]]
        /\ q.orchard.actions[i] = [p.orchard.actions[i] EXCEPT !.sig = {sig}]
        /\ \A j \in DOMAIN p.orchard.actions : j # i => q.orchard.actions[j] = p.orchard.actions[j]
    BY <2>4, <2>5
  <2>7. /\ \A j \in DOMAIN p.orchard.actions :
             IsAction(q.orchard.actions[j]) /\ q.orchard.actions[j].note = p.orchard.actions[j].note
        /\ q.orchard.actions[i].sig = {sig}
    <3>1. \A j \in DOMAIN p.orchard.actions : IsAction(p.orchard.actions[j])
      BY <1>3 DEF ActionList
    <3>2. /\ IsAction(q.orchard.actions[i]) /\ q.orchard.actions[i].note = p.orchard.actions[i].note
          /\ q.orchard.actions[i].sig = {sig}
      BY <2>6, <3>1 DEF IsAction
    <3> QED BY <2>6, <3>1, <3>2
  <2>8. /\ ActionList(q.orchard.actions) /\ DOMAIN q.orchard.actions = DOMAIN p.orchard.actions
        /\ Notes(q.orchard.actions) = Notes(p.orchard.actions)
    BY <1>3, <2>6, <2>7, SameActions
  <2>9. Same(p, q)
    <3>1. Shape(q)
      BY <2>3, <2>4, <2>8 DEF Good, Fit, Shape, IsOrchard
    <3> QED BY <2>3, <2>4, <2>8, <3>1 DEF Same, Body, SapOuts
  <2>10. Fit(q) /\ Carries(p, q) /\ OrchardSum(q) = OrchardSum(p)
    BY <2>9, SameFit DEF Good
  <2>11. ASSUME Honest PROVE Proven(q)
    BY <2>3, <2>4, <2>10, <2>11 DEF Good, Proven
  <2>12. ASSUME Unlocked PROVE Signed(q)
    <3>1. Signed(p) /\ Shape(p)
      BY <2>12 DEF Good, Fit
    <3>2. NoLocks(q) /\ Anchored5(q)
      BY <2>3, <2>4, <3>1 DEF Signed, NoLocks, Anchored5
    <3>3. \A n \in DOMAIN q.inputs : \A s \in InputSigs(q, n) :
            n \in DOMAIN p.inputs /\ s \in InputSigs(p, n)
      BY <2>3 DEF InputSigs
    <3>4. ItemSigned(q, sig)
      BY <1>1, <2>3, <2>9, <3>1, SighashIs, SameOver DEF Good, ItemSigned
    <3>5. \A j \in DOMAIN q.orchard.actions : \A s \in q.orchard.actions[j].sig :
            (j \in DOMAIN p.orchard.actions /\ s \in p.orchard.actions[j].sig) \/ ItemSigned(q, s)
      BY <2>6, <2>7, <2>8, <3>4
    <3> QED BY <2>3, <2>10, <3>1, <3>2, <3>3, <3>5, StaysSigned
  <2> QED BY <2>2, <2>10, <2>11, <2>12 DEF Good
<1> QED BY <1>2, <1>4, <1>5

LEMMA FinalizeSpendsGood ==
  ASSUME NEW d, NEW p, Good(p), FinalizeSpends(d, p)
  PROVE  \E q : Becomes(d, q) /\ Good(q)
<1> DEFINE inputs == [i \in DOMAIN p.inputs |-> Finalized(p.inputs[i])]
           q == [p EXCEPT !.inputs = inputs]
<1>1. Becomes(d, q)
  BY DEF FinalizeSpends, Each
<1> HIDE DEF inputs
<1>2. /\ q.flags = p.flags /\ q.inputs = inputs /\ q.outputs = p.outputs
      /\ q.sapling = p.sapling /\ q.orchard = p.orchard
      /\ q = [flags |-> q.flags, inputs |-> q.inputs, outputs |-> q.outputs,
              sapling |-> q.sapling, orchard |-> q.orchard]
  BY DEF Good, Fit, Shape
<1> HIDE DEF q
<1>3. InputList(p.inputs)
  BY DEF Good, Fit, Shape
<1>4. /\ inputs = [i \in DOMAIN p.inputs |-> inputs[i]]
      /\ \A i \in DOMAIN p.inputs : inputs[i] = Finalized(p.inputs[i])
  BY DEF inputs
<1>5. \A i \in DOMAIN p.inputs :
        /\ IsInput(inputs[i]) /\ inputs[i].coin = p.inputs[i].coin
        /\ inputs[i].time = {} /\ inputs[i].height = {} /\ inputs[i].sigs = {}
        /\ inputs[i].script = {Chosen(p.inputs[i])}
  BY <1>3, <1>4 DEF InputList, IsInput, Finalized
<1>6. InputList(inputs) /\ DOMAIN inputs = DOMAIN p.inputs
  BY <1>3, <1>4, <1>5, SameInputs
<1>7. Same(p, q)
  BY <1>2, <1>5, <1>6 DEF Good, Fit, Shape, Same, Body, SapOuts
<1>8. Fit(q) /\ OrchardSum(q) = OrchardSum(p)
  BY <1>7, SameFit DEF Good
<1>9. ASSUME Honest PROVE Proven(q)
  BY <1>2, <1>8, <1>9 DEF Good, Proven
<1>10. ASSUME Unlocked PROVE Signed(q)
  <2>1. Signed(p)
    BY <1>10 DEF Good
  <2>2. Anchored5(q)
    BY <1>2, <2>1 DEF Signed, Anchored5
  <2>3. \A n \in DOMAIN p.inputs : InputSigs(q, n) \subseteq InputSigs(p, n)
    <3>1. \A n \in DOMAIN p.inputs : Chosen(p.inputs[n]) \subseteq p.inputs[n].sigs
      BY DEF Chosen
    <3> QED BY <1>2, <1>5, <3>1 DEF InputSigs
  <2> QED BY <1>2, <1>5, <1>7, <2>1, <2>2, <2>3, SameSigned DEF Good
<1> QED BY <1>1, <1>8, <1>9, <1>10 DEF Good

-----------------------------------------------------------------------------
(* Combiner *)

\* What a list has at an index, if it is that long.
SigsAt(l, i)   == IF i \in DOMAIN l THEN l[i].sigs ELSE {}
ScriptAt(l, i) == IF i \in DOMAIN l THEN l[i].script ELSE {}
TimeAt(l, i)   == IF i \in DOMAIN l THEN l[i].time ELSE {}
HeightAt(l, i) == IF i \in DOMAIN l THEN l[i].height ELSE {}
SigAt(l, i)    == IF i \in DOMAIN l THEN l[i].sig ELSE {}
ProofAt(l, i)  == IF i \in DOMAIN l THEN l[i].proof ELSE {}
KeyAt(l, i)    == IF i \in DOMAIN l THEN l[i].key ELSE {}

ZipInputs(l, r) == Zip(l, r, MergeInput)

MergedInputs(l, r, z) ==
  /\ InputList(z) /\ DOMAIN z = DOMAIN l \cup DOMAIN r
  /\ \A i \in DOMAIN z :
       /\ i \in DOMAIN l => z[i].coin = l[i].coin
       /\ i \in DOMAIN r => z[i].coin = r[i].coin
       /\ z[i].time = TimeAt(l, i) \cup TimeAt(r, i)
       /\ z[i].height = HeightAt(l, i) \cup HeightAt(r, i)
       /\ z[i].sigs = SigsAt(l, i) \cup SigsAt(r, i)
       /\ z[i].script = ScriptAt(l, i) \cup ScriptAt(r, i)
  /\ Len(r) <= Len(l) => DOMAIN z = DOMAIN l
  /\ Len(l) <= Len(r) => DOMAIN z = DOMAIN r

LEMMA ZippedInputs ==
  ASSUME NEW l, InputList(l), NEW r, InputList(r), \A i \in Both(l, r) : InputsAgree(l[i], r[i])
  PROVE  MergedInputs(l, r, ZipInputs(l, r))
<1> DEFINE z == ZipInputs(l, r)
<1>1. /\ z = [i \in DOMAIN l \cup DOMAIN r |-> z[i]]
      /\ \A i \in DOMAIN l \cup DOMAIN r :
           /\ i \in Both(l, r) => z[i] = MergeInput(l[i], r[i])
           /\ i \notin DOMAIN r => z[i] = l[i]
           /\ i \notin DOMAIN l => z[i] = r[i]
  BY DEF ZipInputs, Zip, Both
<1> HIDE DEF z
<1>2. /\ List(z) /\ DOMAIN z = DOMAIN l \cup DOMAIN r
      /\ Len(r) <= Len(l) => DOMAIN z = DOMAIN l
      /\ Len(l) <= Len(r) => DOMAIN z = DOMAIN r
  <2>1. List(l) /\ List(r)
    BY DEF InputList
  <2>2. FunctionOn(z, DOMAIN l \cup DOMAIN r)
    BY <1>1 DEF FunctionOn
  <2> QED BY <2>1, <2>2, Zipped
<1>3. /\ \A i \in DOMAIN l : IsInput(l[i])
      /\ \A i \in DOMAIN r : IsInput(r[i])
  BY DEF InputList
<1>4. ASSUME NEW i \in DOMAIN z
      PROVE  /\ IsInput(z[i])
             /\ i \in DOMAIN l => z[i].coin = l[i].coin
             /\ i \in DOMAIN r => z[i].coin = r[i].coin
             /\ z[i].time = TimeAt(l, i) \cup TimeAt(r, i)
             /\ z[i].height = HeightAt(l, i) \cup HeightAt(r, i)
             /\ z[i].sigs = SigsAt(l, i) \cup SigsAt(r, i)
             /\ z[i].script = ScriptAt(l, i) \cup ScriptAt(r, i)
  <2>1. CASE i \in Both(l, r)
    <3> DEFINE x == l[i]
               y == r[i]
    <3>1. z[i] = MergeInput(x, y) /\ InputsAgree(x, y) /\ IsInput(x) /\ IsInput(y)
      BY <1>1, <1>2, <1>3, <2>1 DEF Both
    <3> HIDE DEF x, y
    <3>2. /\ IsInput(z[i]) /\ z[i].coin = x.coin /\ z[i].coin = y.coin
          /\ z[i].time = x.time \cup y.time
          /\ z[i].height = x.height \cup y.height
          /\ z[i].sigs = x.sigs \cup y.sigs
          /\ z[i].script = x.script \cup y.script
      BY <3>1 DEF MergeInput, InputsAgree, IsInput
    <3> QED BY <2>1, <3>2 DEF TimeAt, HeightAt, SigsAt, ScriptAt, Both, x, y
  <2>2. CASE i \notin DOMAIN r
    BY <1>1, <1>2, <1>3, <2>2 DEF TimeAt, HeightAt, SigsAt, ScriptAt
  <2>3. CASE i \notin DOMAIN l
    BY <1>1, <1>2, <1>3, <2>3 DEF TimeAt, HeightAt, SigsAt, ScriptAt
  <2> QED BY <2>1, <2>2, <2>3 DEF Both
<1>5. InputList(z)
  BY <1>2, <1>4 DEF InputList
<1>6. MergedInputs(l, r, z)
  BY <1>2, <1>4, <1>5 DEF MergedInputs
<1> QED BY <1>6 DEF z

ZipSpends(l, r) == Zip(l, r, MergeSpend)

MergedSpends(l, r, z) ==
  /\ SpendList(z) /\ DOMAIN z = DOMAIN l \cup DOMAIN r
  /\ \A i \in DOMAIN z :
       /\ i \in DOMAIN l => z[i].note = l[i].note
       /\ i \in DOMAIN r => z[i].note = r[i].note
       /\ z[i].sig = SigAt(l, i) \cup SigAt(r, i)
       /\ z[i].proof = ProofAt(l, i) \cup ProofAt(r, i)
       /\ z[i].key = KeyAt(l, i) \cup KeyAt(r, i)
  /\ Len(r) <= Len(l) => DOMAIN z = DOMAIN l
  /\ Len(l) <= Len(r) => DOMAIN z = DOMAIN r
  /\ Len(r) <= Len(l) => Notes(z) = Notes(l)
  /\ Len(l) <= Len(r) => Notes(z) = Notes(r)

LEMMA ZippedSpends ==
  ASSUME NEW l, SpendList(l), NEW r, SpendList(r), \A i \in Both(l, r) : SpendsAgree(l[i], r[i])
  PROVE  MergedSpends(l, r, ZipSpends(l, r))
<1> DEFINE z == ZipSpends(l, r)
<1>1. /\ z = [i \in DOMAIN l \cup DOMAIN r |-> z[i]]
      /\ \A i \in DOMAIN l \cup DOMAIN r :
           /\ i \in Both(l, r) => z[i] = MergeSpend(l[i], r[i])
           /\ i \notin DOMAIN r => z[i] = l[i]
           /\ i \notin DOMAIN l => z[i] = r[i]
  BY DEF ZipSpends, Zip, Both
<1> HIDE DEF z
<1>2. /\ List(z) /\ DOMAIN z = DOMAIN l \cup DOMAIN r
      /\ Len(r) <= Len(l) => DOMAIN z = DOMAIN l
      /\ Len(l) <= Len(r) => DOMAIN z = DOMAIN r
  <2>1. List(l) /\ List(r)
    BY DEF SpendList
  <2>2. FunctionOn(z, DOMAIN l \cup DOMAIN r)
    BY <1>1 DEF FunctionOn
  <2> QED BY <2>1, <2>2, Zipped
<1>3. /\ \A i \in DOMAIN l : IsSpend(l[i])
      /\ \A i \in DOMAIN r : IsSpend(r[i])
  BY DEF SpendList
<1>4. ASSUME NEW i \in DOMAIN z
      PROVE  /\ IsSpend(z[i])
             /\ i \in DOMAIN l => z[i].note = l[i].note
             /\ i \in DOMAIN r => z[i].note = r[i].note
             /\ z[i].sig = SigAt(l, i) \cup SigAt(r, i)
             /\ z[i].proof = ProofAt(l, i) \cup ProofAt(r, i)
             /\ z[i].key = KeyAt(l, i) \cup KeyAt(r, i)
  <2>1. CASE i \in Both(l, r)
    <3> DEFINE x == l[i]
               y == r[i]
    <3>1. z[i] = MergeSpend(x, y) /\ SpendsAgree(x, y) /\ IsSpend(x) /\ IsSpend(y)
      BY <1>1, <1>2, <1>3, <2>1 DEF Both
    <3> HIDE DEF x, y
    <3>2. /\ IsSpend(z[i]) /\ z[i].note = x.note /\ z[i].note = y.note
          /\ z[i].sig = x.sig \cup y.sig
          /\ z[i].proof = x.proof \cup y.proof
          /\ z[i].key = x.key \cup y.key
      BY <3>1 DEF MergeSpend, SpendsAgree, IsSpend
    <3> QED BY <2>1, <3>2 DEF SigAt, ProofAt, KeyAt, Both, x, y
  <2>2. CASE i \notin DOMAIN r
    BY <1>1, <1>2, <1>3, <2>2 DEF SigAt, ProofAt, KeyAt
  <2>3. CASE i \notin DOMAIN l
    BY <1>1, <1>2, <1>3, <2>3 DEF SigAt, ProofAt, KeyAt
  <2> QED BY <2>1, <2>2, <2>3 DEF Both
<1>5. SpendList(z)
  BY <1>2, <1>4 DEF SpendList
<1>6. MergedSpends(l, r, z)
  BY <1>2, <1>4, <1>5 DEF MergedSpends, Notes
<1> QED BY <1>6 DEF z

ZipOutputs(l, r) == Zip(l, r, MergeOutput)

MergedOutputs(l, r, z) ==
  /\ OutputList(z) /\ DOMAIN z = DOMAIN l \cup DOMAIN r
  /\ \A i \in DOMAIN z :
       /\ i \in DOMAIN l => z[i].out = l[i].out
       /\ i \in DOMAIN r => z[i].out = r[i].out
       /\ z[i].proof = ProofAt(l, i) \cup ProofAt(r, i)
  /\ Len(r) <= Len(l) => DOMAIN z = DOMAIN l
  /\ Len(l) <= Len(r) => DOMAIN z = DOMAIN r
  /\ Len(r) <= Len(l) => Outs(z) = Outs(l)
  /\ Len(l) <= Len(r) => Outs(z) = Outs(r)

LEMMA ZippedOutputs ==
  ASSUME NEW l, OutputList(l), NEW r, OutputList(r), \A i \in Both(l, r) : OutputsAgree(l[i], r[i])
  PROVE  MergedOutputs(l, r, ZipOutputs(l, r))
<1> DEFINE z == ZipOutputs(l, r)
<1>1. /\ z = [i \in DOMAIN l \cup DOMAIN r |-> z[i]]
      /\ \A i \in DOMAIN l \cup DOMAIN r :
           /\ i \in Both(l, r) => z[i] = MergeOutput(l[i], r[i])
           /\ i \notin DOMAIN r => z[i] = l[i]
           /\ i \notin DOMAIN l => z[i] = r[i]
  BY DEF ZipOutputs, Zip, Both
<1> HIDE DEF z
<1>2. /\ List(z) /\ DOMAIN z = DOMAIN l \cup DOMAIN r
      /\ Len(r) <= Len(l) => DOMAIN z = DOMAIN l
      /\ Len(l) <= Len(r) => DOMAIN z = DOMAIN r
  <2>1. List(l) /\ List(r)
    BY DEF OutputList
  <2>2. FunctionOn(z, DOMAIN l \cup DOMAIN r)
    BY <1>1 DEF FunctionOn
  <2> QED BY <2>1, <2>2, Zipped
<1>3. /\ \A i \in DOMAIN l : IsOutput(l[i])
      /\ \A i \in DOMAIN r : IsOutput(r[i])
  BY DEF OutputList
<1>4. ASSUME NEW i \in DOMAIN z
      PROVE  /\ IsOutput(z[i])
             /\ i \in DOMAIN l => z[i].out = l[i].out
             /\ i \in DOMAIN r => z[i].out = r[i].out
             /\ z[i].proof = ProofAt(l, i) \cup ProofAt(r, i)
  <2>1. CASE i \in Both(l, r)
    <3> DEFINE x == l[i]
               y == r[i]
    <3>1. z[i] = MergeOutput(x, y) /\ OutputsAgree(x, y) /\ IsOutput(x) /\ IsOutput(y)
      BY <1>1, <1>2, <1>3, <2>1 DEF Both
    <3> HIDE DEF x, y
    <3>2. /\ IsOutput(z[i]) /\ z[i].out = x.out /\ z[i].out = y.out
          /\ z[i].proof = x.proof \cup y.proof
      BY <3>1 DEF MergeOutput, OutputsAgree, IsOutput
    <3> QED BY <2>1, <3>2 DEF ProofAt, Both, x, y
  <2>2. CASE i \notin DOMAIN r
    BY <1>1, <1>2, <1>3, <2>2 DEF ProofAt
  <2>3. CASE i \notin DOMAIN l
    BY <1>1, <1>2, <1>3, <2>3 DEF ProofAt
  <2> QED BY <2>1, <2>2, <2>3 DEF Both
<1>5. OutputList(z)
  BY <1>2, <1>4 DEF OutputList
<1>6. MergedOutputs(l, r, z)
  BY <1>2, <1>4, <1>5 DEF MergedOutputs, Outs
<1> QED BY <1>6 DEF z

ZipActions(l, r) == Zip(l, r, MergeAction)

MergedActions(l, r, z) ==
  /\ ActionList(z) /\ DOMAIN z = DOMAIN l \cup DOMAIN r
  /\ \A i \in DOMAIN z :
       /\ i \in DOMAIN l => z[i].note = l[i].note
       /\ i \in DOMAIN r => z[i].note = r[i].note
       /\ z[i].sig = SigAt(l, i) \cup SigAt(r, i)
       /\ z[i].key = KeyAt(l, i) \cup KeyAt(r, i)
  /\ Len(r) <= Len(l) => DOMAIN z = DOMAIN l
  /\ Len(l) <= Len(r) => DOMAIN z = DOMAIN r
  /\ Len(r) <= Len(l) => Notes(z) = Notes(l)
  /\ Len(l) <= Len(r) => Notes(z) = Notes(r)

LEMMA ZippedActions ==
  ASSUME NEW l, ActionList(l), NEW r, ActionList(r), \A i \in Both(l, r) : ActionsAgree(l[i], r[i])
  PROVE  MergedActions(l, r, ZipActions(l, r))
<1> DEFINE z == ZipActions(l, r)
<1>1. /\ z = [i \in DOMAIN l \cup DOMAIN r |-> z[i]]
      /\ \A i \in DOMAIN l \cup DOMAIN r :
           /\ i \in Both(l, r) => z[i] = MergeAction(l[i], r[i])
           /\ i \notin DOMAIN r => z[i] = l[i]
           /\ i \notin DOMAIN l => z[i] = r[i]
  BY DEF ZipActions, Zip, Both
<1> HIDE DEF z
<1>2. /\ List(z) /\ DOMAIN z = DOMAIN l \cup DOMAIN r
      /\ Len(r) <= Len(l) => DOMAIN z = DOMAIN l
      /\ Len(l) <= Len(r) => DOMAIN z = DOMAIN r
  <2>1. List(l) /\ List(r)
    BY DEF ActionList
  <2>2. FunctionOn(z, DOMAIN l \cup DOMAIN r)
    BY <1>1 DEF FunctionOn
  <2> QED BY <2>1, <2>2, Zipped
<1>3. /\ \A i \in DOMAIN l : IsAction(l[i])
      /\ \A i \in DOMAIN r : IsAction(r[i])
  BY DEF ActionList
<1>4. ASSUME NEW i \in DOMAIN z
      PROVE  /\ IsAction(z[i])
             /\ i \in DOMAIN l => z[i].note = l[i].note
             /\ i \in DOMAIN r => z[i].note = r[i].note
             /\ z[i].sig = SigAt(l, i) \cup SigAt(r, i)
             /\ z[i].key = KeyAt(l, i) \cup KeyAt(r, i)
  <2>1. CASE i \in Both(l, r)
    <3> DEFINE x == l[i]
               y == r[i]
    <3>1. z[i] = MergeAction(x, y) /\ ActionsAgree(x, y) /\ IsAction(x) /\ IsAction(y)
      BY <1>1, <1>2, <1>3, <2>1 DEF Both
    <3> HIDE DEF x, y
    <3>2. /\ IsAction(z[i]) /\ z[i].note = x.note /\ z[i].note = y.note
          /\ z[i].sig = x.sig \cup y.sig
          /\ z[i].key = x.key \cup y.key
      BY <3>1 DEF MergeAction, ActionsAgree, IsAction
    <3> QED BY <2>1, <3>2 DEF SigAt, KeyAt, Both, x, y
  <2>2. CASE i \notin DOMAIN r
    BY <1>1, <1>2, <1>3, <2>2 DEF SigAt, KeyAt
  <2>3. CASE i \notin DOMAIN l
    BY <1>1, <1>2, <1>3, <2>3 DEF SigAt, KeyAt
  <2> QED BY <2>1, <2>2, <2>3 DEF Both
<1>5. ActionList(z)
  BY <1>2, <1>4 DEF ActionList
<1>6. MergedActions(l, r, z)
  BY <1>2, <1>4, <1>5 DEF MergedActions, Notes
<1> QED BY <1>6 DEF z

ZipVouts(l, r) == Zip(l, r, First)

MergedVouts(l, r, z) ==
  /\ List(z) /\ DOMAIN z = DOMAIN l \cup DOMAIN r
  /\ \A i \in DOMAIN l : z[i] = l[i]
  /\ \A i \in DOMAIN r : z[i] = r[i]
  /\ Len(r) <= Len(l) => z = l
  /\ Len(l) <= Len(r) => z = r

LEMMA ZippedVouts ==
  ASSUME NEW l, List(l), NEW r, List(r), \A i \in Both(l, r) : l[i] = r[i]
  PROVE  MergedVouts(l, r, ZipVouts(l, r))
<1> DEFINE z == ZipVouts(l, r)
<1>1. /\ z = [i \in DOMAIN l \cup DOMAIN r |-> z[i]]
      /\ \A i \in DOMAIN l : z[i] = l[i]
      /\ \A i \in DOMAIN r : z[i] = r[i]
  BY DEF ZipVouts, Zip, Both, First
<1> HIDE DEF z
<1>2. /\ List(z) /\ DOMAIN z = DOMAIN l \cup DOMAIN r
      /\ Len(r) <= Len(l) => DOMAIN z = DOMAIN l
      /\ Len(l) <= Len(r) => DOMAIN z = DOMAIN r
  <2>1. FunctionOn(z, DOMAIN l \cup DOMAIN r)
    BY <1>1 DEF FunctionOn
  <2> QED BY <2>1, Zipped
<1>3. l = [i \in DOMAIN l |-> l[i]] /\ r = [i \in DOMAIN r |-> r[i]]
  BY ListIs
<1>4. MergedVouts(l, r, z)
  BY <1>1, <1>2, <1>3 DEF MergedVouts
<1> QED BY <1>4 DEF z

Merged(l, r, m) ==
  /\ m = [flags |-> m.flags, inputs |-> m.inputs, outputs |-> m.outputs,
          sapling |-> m.sapling, orchard |-> m.orchard]
  /\ m.flags = MergeFlags(l.flags, r.flags)
  /\ MergedInputs(l.inputs, r.inputs, m.inputs)
  /\ MergedVouts(l.outputs, r.outputs, m.outputs)
  /\ m.sapling = [spends |-> m.sapling.spends, outs |-> m.sapling.outs, sum |-> m.sapling.sum,
                  anchor |-> m.sapling.anchor, bsk |-> m.sapling.bsk]
  /\ MergedSpends(l.sapling.spends, r.sapling.spends, m.sapling.spends)
  /\ MergedOutputs(l.sapling.outs, r.sapling.outs, m.sapling.outs)
  /\ m.sapling.sum = IF \/ Len(l.sapling.spends) < Len(r.sapling.spends)
                        \/ Len(l.sapling.outs) < Len(r.sapling.outs)
                     THEN r.sapling.sum ELSE l.sapling.sum
  /\ m.sapling.anchor = l.sapling.anchor \cup r.sapling.anchor
  /\ m.orchard = [actions |-> m.orchard.actions, sum |-> m.orchard.sum,
                  anchor |-> m.orchard.anchor, proof |-> m.orchard.proof, bsk |-> m.orchard.bsk]
  /\ MergedActions(l.orchard.actions, r.orchard.actions, m.orchard.actions)
  /\ m.orchard.sum = IF Len(l.orchard.actions) < Len(r.orchard.actions)
                     THEN r.orchard.sum ELSE l.orchard.sum
  /\ m.orchard.anchor = l.orchard.anchor \cup r.orchard.anchor
  /\ m.orchard.proof = l.orchard.proof \cup r.orchard.proof

LEMMA MergeIs ==
  ASSUME NEW l, Shape(l), NEW r, Shape(r), Mergeable(l, r)
  PROVE  Merged(l, r, Merge(l, r))
<1> DEFINE m == Merge(l, r)
<1>1. /\ InputList(l.inputs) /\ InputList(r.inputs)
      /\ SpendList(l.sapling.spends) /\ SpendList(r.sapling.spends)
      /\ OutputList(l.sapling.outs) /\ OutputList(r.sapling.outs)
      /\ ActionList(l.orchard.actions) /\ ActionList(r.orchard.actions)
      /\ List(l.outputs) /\ List(r.outputs)
  BY DEF Shape, IsSapling, IsOrchard
<1>2. /\ m = [flags |-> m.flags, inputs |-> m.inputs, outputs |-> m.outputs,
              sapling |-> m.sapling, orchard |-> m.orchard]
      /\ m.flags = MergeFlags(l.flags, r.flags)
      /\ m.sapling = MergeSapling(l.sapling, r.sapling)
      /\ m.orchard = MergeOrchard(l.orchard, r.orchard)
  BY DEF Merge
<1>3. m.inputs = ZipInputs(l.inputs, r.inputs) /\ m.outputs = ZipVouts(l.outputs, r.outputs)
  BY DEF Merge, ZipInputs, ZipVouts
<1> HIDE DEF m
<1>4. m.sapling.spends = ZipSpends(l.sapling.spends, r.sapling.spends)
  BY <1>2 DEF MergeSapling, ZipSpends
<1>5. m.sapling.outs = ZipOutputs(l.sapling.outs, r.sapling.outs)
  BY <1>2 DEF MergeSapling, ZipOutputs
<1>6. m.orchard.actions = ZipActions(l.orchard.actions, r.orchard.actions)
  BY <1>2 DEF MergeOrchard, ZipActions
<1>7. MergedInputs(l.inputs, r.inputs, m.inputs)
  BY <1>1, <1>3, ZippedInputs DEF Mergeable, TransparentMergeable
<1>8. MergedVouts(l.outputs, r.outputs, m.outputs)
  BY <1>1, <1>3, ZippedVouts DEF Mergeable, TransparentMergeable
<1>9. MergedSpends(l.sapling.spends, r.sapling.spends, m.sapling.spends)
  BY <1>1, <1>4, ZippedSpends DEF Mergeable, SaplingMergeable
<1>10. MergedOutputs(l.sapling.outs, r.sapling.outs, m.sapling.outs)
  BY <1>1, <1>5, ZippedOutputs DEF Mergeable, SaplingMergeable
<1>11. MergedActions(l.orchard.actions, r.orchard.actions, m.orchard.actions)
  BY <1>1, <1>6, ZippedActions DEF Mergeable, OrchardMergeable
<1>12. /\ m.sapling = [spends |-> m.sapling.spends, outs |-> m.sapling.outs, sum |-> m.sapling.sum,
                       anchor |-> m.sapling.anchor, bsk |-> m.sapling.bsk]
       /\ m.sapling.sum = IF \/ Len(l.sapling.spends) < Len(r.sapling.spends)
                             \/ Len(l.sapling.outs) < Len(r.sapling.outs)
                          THEN r.sapling.sum ELSE l.sapling.sum
       /\ m.sapling.anchor = l.sapling.anchor \cup r.sapling.anchor
  BY <1>2 DEF MergeSapling
<1>13. /\ m.orchard = [actions |-> m.orchard.actions, sum |-> m.orchard.sum,
                       anchor |-> m.orchard.anchor, proof |-> m.orchard.proof, bsk |-> m.orchard.bsk]
       /\ m.orchard.sum = IF Len(l.orchard.actions) < Len(r.orchard.actions)
                          THEN r.orchard.sum ELSE l.orchard.sum
       /\ m.orchard.anchor = l.orchard.anchor \cup r.orchard.anchor
       /\ m.orchard.proof = l.orchard.proof \cup r.orchard.proof
  BY <1>2 DEF MergeOrchard
<1>14. Merged(l, r, m)
  BY <1>2, <1>7, <1>8, <1>9, <1>10, <1>11, <1>12, <1>13 DEF Merged
<1> QED BY <1>14 DEF m

LEMMA NoLonger ==
  ASSUME NEW s, List(s), NEW t, List(t), NEW lf, NEW rf, NEW x,
         MayGrow(s, t, x \in lf, x \in rf)
  PROVE  (x \notin lf => Len(t) <= Len(s)) /\ (x \notin rf => Len(s) <= Len(t))
<1>1. Len(s) \in Nat /\ Len(t) \in Nat
  BY ListIs
<1>2. (x \notin lf => ~(Len(s) < Len(t))) /\ (x \notin rf => ~(Len(s) > Len(t)))
  BY Zenon DEF MayGrow
<1> QED BY <1>1, <1>2

LEMMA NoneCrossed ==
  ASSUME NEW a \in Nat, NEW b \in Nat, NEW c \in Nat, NEW d \in Nat,
         ~(a < b /\ c > d), ~(a > b /\ c < d)
  PROVE  (b <= a /\ d <= c) \/ (a <= b /\ c <= d)
OBVIOUS

LEMMA SomeLonger ==
  ASSUME NEW a \in Nat, NEW b \in Nat, NEW c \in Nat, NEW d \in Nat
  PROVE  (a < b \/ c < d) <=> ~(b <= a /\ d <= c)
OBVIOUS

\* The sapling lists of one copy are no longer than those of the other.
NoLongerSapling(x, y) == Len(x.spends) <= Len(y.spends) /\ Len(x.outs) <= Len(y.outs)

\* Whether or not a binding signature key is there, one copy has the longer sapling lists,
\* and the other's flags allow it.
LEMMA SaplingLengths ==
  ASSUME NEW x, IsSapling(x), NEW y, IsSapling(y), NEW lf, NEW rf,
         SaplingMergeable(x, y, "shielded" \in lf, "shielded" \in rf)
  PROVE  /\ NoLongerSapling(y, x) \/ NoLongerSapling(x, y)
         /\ "shielded" \notin lf => NoLongerSapling(y, x)
         /\ "shielded" \notin rf => NoLongerSapling(x, y)
<1>1. List(x.spends) /\ List(x.outs) /\ List(y.spends) /\ List(y.outs)
  BY DEF IsSapling, SpendList, OutputList
<1>2. /\ Len(x.spends) \in Nat /\ Len(y.spends) \in Nat
      /\ Len(x.outs) \in Nat /\ Len(y.outs) \in Nat
  BY <1>1, ListIs
<1>3. CASE Len(x.spends) = Len(y.spends) /\ Len(x.outs) = Len(y.outs)
  BY <1>2, <1>3 DEF NoLongerSapling
<1>4. CASE /\ ~(Len(x.spends) < Len(y.spends) /\ Len(x.outs) > Len(y.outs))
           /\ ~(Len(x.spends) > Len(y.spends) /\ Len(x.outs) < Len(y.outs))
           /\ MayGrow(x.spends, y.spends, "shielded" \in lf, "shielded" \in rf)
           /\ MayGrow(x.outs, y.outs, "shielded" \in lf, "shielded" \in rf)
  <2>1. NoLongerSapling(y, x) \/ NoLongerSapling(x, y)
    BY <1>2, <1>4, NoneCrossed DEF NoLongerSapling
  <2>2. ("shielded" \notin lf => NoLongerSapling(y, x)) /\ ("shielded" \notin rf => NoLongerSapling(x, y))
    BY <1>1, <1>4, NoLonger DEF NoLongerSapling
  <2> QED BY <2>1, <2>2
<1> QED BY <1>3, <1>4, Zenon DEF SaplingMergeable

LEMMA OrchardLengths ==
  ASSUME NEW x, IsOrchard(x), NEW y, IsOrchard(y), NEW lf, NEW rf,
         OrchardMergeable(x, y, "shielded" \in lf, "shielded" \in rf)
  PROVE  /\ "shielded" \notin lf => Len(y.actions) <= Len(x.actions)
         /\ "shielded" \notin rf => Len(x.actions) <= Len(y.actions)
<1>1. List(x.actions) /\ List(y.actions)
  BY DEF IsOrchard, ActionList
<1>2. Len(x.actions) \in Nat /\ Len(y.actions) \in Nat
  BY <1>1, ListIs
<1>3. CASE Len(x.actions) = Len(y.actions)
  BY <1>2, <1>3
<1>4. CASE MayGrow(x.actions, y.actions, "shielded" \in lf, "shielded" \in rf)
  BY <1>1, <1>4, NoLonger
<1> QED BY <1>3, <1>4, Zenon DEF OrchardMergeable

\* What one copy has more of than the other, the other's flags allow.
Within(p, q) ==
  /\ "shielded" \notin p.flags => /\ NoLongerSapling(q.sapling, p.sapling)
                                  /\ Len(q.orchard.actions) <= Len(p.orchard.actions)
  /\ "inputs" \notin p.flags => Len(q.inputs) <= Len(p.inputs)
  /\ "outputs" \notin p.flags => Len(q.outputs) <= Len(p.outputs)

LEMMA MergeLengths ==
  ASSUME NEW l, Shape(l), NEW r, Shape(r), Mergeable(l, r)
  PROVE  /\ NoLongerSapling(r.sapling, l.sapling) \/ NoLongerSapling(l.sapling, r.sapling)
         /\ Within(l, r) /\ Within(r, l)
<1>1. /\ IsSapling(l.sapling) /\ IsSapling(r.sapling) /\ IsOrchard(l.orchard) /\ IsOrchard(r.orchard)
      /\ List(l.inputs) /\ List(r.inputs) /\ List(l.outputs) /\ List(r.outputs)
  BY DEF Shape, InputList
<1>2. /\ SaplingMergeable(l.sapling, r.sapling, "shielded" \in l.flags, "shielded" \in r.flags)
      /\ OrchardMergeable(l.orchard, r.orchard, "shielded" \in l.flags, "shielded" \in r.flags)
      /\ MayGrow(l.inputs, r.inputs, "inputs" \in l.flags, "inputs" \in r.flags)
      /\ MayGrow(l.outputs, r.outputs, "outputs" \in l.flags, "outputs" \in r.flags)
  BY DEF Mergeable, TransparentMergeable
<1>3. /\ NoLongerSapling(r.sapling, l.sapling) \/ NoLongerSapling(l.sapling, r.sapling)
      /\ "shielded" \notin l.flags => NoLongerSapling(r.sapling, l.sapling)
      /\ "shielded" \notin r.flags => NoLongerSapling(l.sapling, r.sapling)
  BY <1>1, <1>2, SaplingLengths
<1>4. /\ "shielded" \notin l.flags => Len(r.orchard.actions) <= Len(l.orchard.actions)
      /\ "shielded" \notin r.flags => Len(l.orchard.actions) <= Len(r.orchard.actions)
  BY <1>1, <1>2, OrchardLengths
<1>5. /\ "inputs" \notin l.flags => Len(r.inputs) <= Len(l.inputs)
      /\ "inputs" \notin r.flags => Len(l.inputs) <= Len(r.inputs)
  BY <1>1, <1>2, NoLonger
<1>6. /\ "outputs" \notin l.flags => Len(r.outputs) <= Len(l.outputs)
      /\ "outputs" \notin r.flags => Len(l.outputs) <= Len(r.outputs)
  BY <1>1, <1>2, NoLonger
<1> QED BY <1>3, <1>4, <1>5, <1>6 DEF Within

LEMMA SapOutsAre ==
  ASSUME NEW p
  PROVE  SapOuts(p) = Outs(p.sapling.outs)
BY DEF SapOuts, Outs

LEMMA MergeShape ==
  ASSUME NEW l, Shape(l), NEW r, Shape(r), NEW m, Merged(l, r, m)
  PROVE  Shape(m)
<1>1. m.flags \subseteq Flags
  BY DEF Merged, MergeFlags, Shape
<1>2. InputList(m.inputs) /\ List(m.outputs)
  BY DEF Merged, MergedInputs, MergedVouts
<1>3. IsSapling(m.sapling)
  BY DEF Merged, MergedSpends, MergedOutputs, IsSapling
<1>4. IsOrchard(m.orchard)
  BY DEF Merged, MergedActions, IsOrchard
<1> QED BY <1>1, <1>2, <1>3, <1>4 DEF Merged, Shape

\* "At least one of the two value sums is correct": the one of the longer lists.
LEMMA MergeSums ==
  ASSUME NEW l, Fit(l), NEW r, Fit(r), NEW m, Merged(l, r, m),
         NoLongerSapling(r.sapling, l.sapling) \/ NoLongerSapling(l.sapling, r.sapling)
  PROVE  Sums(m)
<1>1. /\ Len(l.sapling.spends) \in Nat /\ Len(r.sapling.spends) \in Nat
      /\ Len(l.sapling.outs) \in Nat /\ Len(r.sapling.outs) \in Nat
      /\ Len(l.orchard.actions) \in Nat /\ Len(r.orchard.actions) \in Nat
  <2>1. \A s : List(s) => Len(s) \in Nat
    BY ListIs
  <2> QED BY <2>1 DEF Fit, Shape, IsSapling, IsOrchard, SpendList, OutputList, ActionList
<1>2. /\ l.sapling.sum = <<Notes(l.sapling.spends), Outs(l.sapling.outs)>>
      /\ r.sapling.sum = <<Notes(r.sapling.spends), Outs(r.sapling.outs)>>
      /\ l.orchard.sum = Notes(l.orchard.actions) /\ r.orchard.sum = Notes(r.orchard.actions)
  BY SapOutsAre DEF Fit, Sums, SaplingSum, OrchardSum
<1>3. m.orchard.sum = Notes(m.orchard.actions)
  <2>1. /\ Len(r.orchard.actions) <= Len(l.orchard.actions)
             => Notes(m.orchard.actions) = Notes(l.orchard.actions)
        /\ Len(l.orchard.actions) <= Len(r.orchard.actions)
             => Notes(m.orchard.actions) = Notes(r.orchard.actions)
        /\ m.orchard.sum = IF Len(l.orchard.actions) < Len(r.orchard.actions)
                           THEN r.orchard.sum ELSE l.orchard.sum
    BY DEF Merged, MergedActions
  <2>2. CASE Len(l.orchard.actions) < Len(r.orchard.actions)
    <3>1. Len(l.orchard.actions) <= Len(r.orchard.actions)
      BY <1>1, <2>2
    <3> QED BY <1>2, <2>1, <2>2, <3>1
  <2>3. CASE ~(Len(l.orchard.actions) < Len(r.orchard.actions))
    <3>1. Len(r.orchard.actions) <= Len(l.orchard.actions)
      BY <1>1, <2>3
    <3> QED BY <1>2, <2>1, <2>3, <3>1
  <2> QED BY <2>2, <2>3
<1>4. m.sapling.sum = <<Notes(m.sapling.spends), Outs(m.sapling.outs)>>
  <2> DEFINE longer == \/ Len(l.sapling.spends) < Len(r.sapling.spends)
                       \/ Len(l.sapling.outs) < Len(r.sapling.outs)
  <2>1. /\ NoLongerSapling(r.sapling, l.sapling)
             => <<Notes(m.sapling.spends), Outs(m.sapling.outs)>> = l.sapling.sum
        /\ NoLongerSapling(l.sapling, r.sapling)
             => <<Notes(m.sapling.spends), Outs(m.sapling.outs)>> = r.sapling.sum
    BY <1>2 DEF Merged, MergedSpends, MergedOutputs, NoLongerSapling
  <2>2. m.sapling.sum = IF longer THEN r.sapling.sum ELSE l.sapling.sum
    BY DEF Merged
  <2>3. /\ longer => ~NoLongerSapling(r.sapling, l.sapling)
        /\ ~longer => NoLongerSapling(r.sapling, l.sapling)
    BY <1>1, SomeLonger DEF NoLongerSapling
  <2> HIDE DEF longer
  <2> QED BY <2>1, <2>2, <2>3
<1> QED BY <1>3, <1>4, SapOutsAre DEF Sums, SaplingSum, OrchardSum

\* The merge is either copy with what its flags allowed to be added.
LEMMA MergeCarries ==
  ASSUME NEW l, Shape(l), NEW r, Shape(r), NEW m, Merged(l, r, m), Within(l, r), Within(r, l)
  PROVE  Carries(l, m) /\ Carries(r, m)
<1>1. m.flags \cap Modifiable \subseteq l.flags /\ m.flags \cap Modifiable \subseteq r.flags
  BY DEF Merged, MergeFlags
<1>2. /\ "shielded" \notin l.flags => Body(m) = Body(l)
      /\ "shielded" \notin r.flags => Body(m) = Body(r)
  BY SapOutsAre DEF Merged, MergedSpends, MergedOutputs, MergedActions, Within, NoLongerSapling, Body
<1>3. /\ \A n \in DOMAIN l.inputs : n \in DOMAIN m.inputs /\ m.inputs[n].coin = l.inputs[n].coin
      /\ \A n \in DOMAIN r.inputs : n \in DOMAIN m.inputs /\ m.inputs[n].coin = r.inputs[n].coin
      /\ "inputs" \notin l.flags => DOMAIN m.inputs = DOMAIN l.inputs
      /\ "inputs" \notin r.flags => DOMAIN m.inputs = DOMAIN r.inputs
  BY DEF Merged, MergedInputs, Within
<1>4. /\ "inputs" \notin l.flags => Coins(m) = Coins(l)
      /\ "inputs" \notin r.flags => Coins(m) = Coins(r)
  BY <1>3 DEF Coins
<1>5. /\ "outputs" \notin l.flags => m.outputs = l.outputs
      /\ "outputs" \notin r.flags => m.outputs = r.outputs
  BY DEF Merged, MergedVouts, Within
<1>6. Carries(l, m)
  BY <1>1, <1>2, <1>3, <1>4, <1>5 DEF Carries
<1>7. Carries(r, m)
  BY <1>1, <1>2, <1>3, <1>4, <1>5 DEF Carries
<1> QED BY <1>6, <1>7

LEMMA MergeProven ==
  ASSUME NEW l, Shape(l), Proven(l), NEW r, Shape(r), Proven(r), NEW m, Merged(l, r, m),
         Carries(l, m), Carries(r, m),
         AtMostOne(m.sapling.anchor), AtMostOne(m.orchard.anchor)
  PROVE  Proven(m)
<1>1. /\ l.sapling.anchor # {} => m.sapling.anchor = l.sapling.anchor
      /\ r.sapling.anchor # {} => m.sapling.anchor = r.sapling.anchor
  <2>1. m.sapling.anchor = l.sapling.anchor \cup r.sapling.anchor
    BY DEF Merged
  <2> QED BY <2>1 DEF AtMostOne
<1>2. /\ l.orchard.anchor # {} => m.orchard.anchor = l.orchard.anchor
      /\ r.orchard.anchor # {} => m.orchard.anchor = r.orchard.anchor
  <2>1. m.orchard.anchor = l.orchard.anchor \cup r.orchard.anchor
    BY DEF Merged
  <2> QED BY <2>1 DEF AtMostOne
<1>3. ASSUME NEW i \in DOMAIN m.sapling.spends, NEW f \in m.sapling.spends[i].proof
      PROVE  f.for = m.sapling.anchor /\ m.sapling.anchor # {}
  <2>1. \/ i \in DOMAIN l.sapling.spends /\ f \in l.sapling.spends[i].proof
        \/ i \in DOMAIN r.sapling.spends /\ f \in r.sapling.spends[i].proof
    <3>1. m.sapling.spends[i].proof = ProofAt(l.sapling.spends, i) \cup ProofAt(r.sapling.spends, i)
      BY DEF Merged, MergedSpends
    <3> QED BY <3>1 DEF ProofAt
  <2> QED BY <1>1, <2>1 DEF Proven
<1>4. ASSUME NEW f \in m.orchard.proof
      PROVE  /\ f.for = <<m.orchard.anchor, OrchardSum(m)>> /\ m.orchard.anchor # {}
             /\ "shielded" \notin m.flags
  <2>1. f \in l.orchard.proof \/ f \in r.orchard.proof
    BY DEF Merged
  <2>2. /\ "shielded" \notin l.flags => OrchardSum(m) = OrchardSum(l) /\ "shielded" \notin m.flags
        /\ "shielded" \notin r.flags => OrchardSum(m) = OrchardSum(r) /\ "shielded" \notin m.flags
    BY DEF Carries, Body, OrchardSum, Modifiable
  <2> QED BY <1>2, <2>1, <2>2 DEF Proven
<1> QED BY <1>3, <1>4 DEF Proven

LEMMA MergeSigned ==
  ASSUME NEW l, Shape(l), Signed(l), NEW r, Shape(r), Signed(r), NEW m, Merged(l, r, m),
         Carries(l, m), Carries(r, m)
  PROVE  Signed(m)
<1>1. NoLocks(m)
  <2> SUFFICES ASSUME NEW n \in DOMAIN m.inputs
               PROVE  m.inputs[n].time = {} /\ m.inputs[n].height = {}
    BY DEF NoLocks
  <2>1. /\ m.inputs[n].time = TimeAt(l.inputs, n) \cup TimeAt(r.inputs, n)
        /\ m.inputs[n].height = HeightAt(l.inputs, n) \cup HeightAt(r.inputs, n)
    BY DEF Merged, MergedInputs
  <2>2. \A x \in {l, r} : TimeAt(x.inputs, n) = {} /\ HeightAt(x.inputs, n) = {}
    BY DEF Signed, NoLocks, TimeAt, HeightAt
  <2> QED BY <2>1, <2>2
<1>2. Anchored5(m)
  <2>1. /\ m.sapling.anchor = l.sapling.anchor \cup r.sapling.anchor
        /\ m.orchard.anchor = l.orchard.anchor \cup r.orchard.anchor
    BY DEF Merged
  <2> QED BY <2>1 DEF Signed, Anchored5
<1>3. ASSUME NEW n \in DOMAIN m.inputs, NEW s \in InputSigs(m, n) PROVE InputSigned(m, n, s)
  <2>1. \/ n \in DOMAIN l.inputs /\ s \in InputSigs(l, n)
        \/ n \in DOMAIN r.inputs /\ s \in InputSigs(r, n)
    <3>1. /\ m.inputs[n].sigs = SigsAt(l.inputs, n) \cup SigsAt(r.inputs, n)
          /\ m.inputs[n].script = ScriptAt(l.inputs, n) \cup ScriptAt(r.inputs, n)
      BY DEF Merged, MergedInputs
    <3> QED BY <3>1 DEF InputSigs, SigsAt, ScriptAt
  <2> QED BY <2>1, CarriedInput DEF Signed, InputsSigned
<1>4. ASSUME NEW i \in DOMAIN m.sapling.spends, NEW s \in m.sapling.spends[i].sig PROVE ItemSigned(m, s)
  <2>1. \/ i \in DOMAIN l.sapling.spends /\ s \in l.sapling.spends[i].sig
        \/ i \in DOMAIN r.sapling.spends /\ s \in r.sapling.spends[i].sig
    <3>1. m.sapling.spends[i].sig = SigAt(l.sapling.spends, i) \cup SigAt(r.sapling.spends, i)
      BY DEF Merged, MergedSpends
    <3> QED BY <3>1 DEF SigAt
  <2> QED BY <2>1, CarriedItem DEF Signed, ItemsSigned
<1>5. ASSUME NEW i \in DOMAIN m.orchard.actions, NEW s \in m.orchard.actions[i].sig PROVE ItemSigned(m, s)
  <2>1. \/ i \in DOMAIN l.orchard.actions /\ s \in l.orchard.actions[i].sig
        \/ i \in DOMAIN r.orchard.actions /\ s \in r.orchard.actions[i].sig
    <3>1. m.orchard.actions[i].sig = SigAt(l.orchard.actions, i) \cup SigAt(r.orchard.actions, i)
      BY DEF Merged, MergedActions
    <3> QED BY <3>1 DEF SigAt
  <2> QED BY <2>1, CarriedItem DEF Signed, ItemsSigned
<1> QED BY <1>1, <1>2, <1>3, <1>4, <1>5 DEF Signed, InputsSigned, ItemsSigned

LEMMA MergeGood ==
  ASSUME NEW l, Good(l), NEW r, Good(r), Mergeable(l, r)
  PROVE  Good(Merge(l, r))
<1> DEFINE m == Merge(l, r)
<1>1. Shape(l) /\ Shape(r) /\ Fit(l) /\ Fit(r)
  BY DEF Good, Fit
<1>2. Merged(l, r, m)
  BY <1>1, MergeIs
<1>3. AtMostOne(m.sapling.anchor) /\ AtMostOne(m.orchard.anchor)
  BY <1>2 DEF Mergeable, SaplingMergeable, OrchardMergeable, Merged
<1> HIDE DEF m
<1>4. /\ NoLongerSapling(r.sapling, l.sapling) \/ NoLongerSapling(l.sapling, r.sapling)
      /\ Within(l, r) /\ Within(r, l)
  BY <1>1, MergeLengths
<1>5. Fit(m)
  BY <1>1, <1>2, <1>4, MergeShape, MergeSums DEF Fit
<1>6. Carries(l, m) /\ Carries(r, m)
  BY <1>1, <1>2, <1>4, MergeCarries
<1>7. ASSUME Honest PROVE Proven(m)
  BY <1>1, <1>2, <1>3, <1>6, <1>7, MergeProven DEF Good
<1>8. ASSUME Unlocked PROVE Signed(m)
  BY <1>1, <1>2, <1>6, <1>8, MergeSigned DEF Good
<1>9. Good(m)
  BY <1>5, <1>7, <1>8 DEF Good
<1> QED BY <1>9 DEF m

-----------------------------------------------------------------------------
(* Creator *)

LEMMA EmptyGood == Good(Empty)
<1> DEFINE p == Empty
<1>1. /\ p = [flags |-> p.flags, inputs |-> p.inputs, outputs |-> p.outputs,
              sapling |-> p.sapling, orchard |-> p.orchard]
      /\ p.flags = Modifiable /\ p.inputs = <<>> /\ p.outputs = <<>>
      /\ p.sapling = [spends |-> <<>>, outs |-> <<>>, sum |-> <<<<>>, <<>>>>, anchor |-> Start, bsk |-> {}]
      /\ p.orchard = [actions |-> <<>>, sum |-> <<>>, anchor |-> Start, proof |-> {}, bsk |-> {}]
  BY DEF Empty
<1> HIDE DEF p
<1>2. /\ p.sapling = [spends |-> p.sapling.spends, outs |-> p.sapling.outs, sum |-> p.sapling.sum,
                      anchor |-> p.sapling.anchor, bsk |-> p.sapling.bsk]
      /\ p.orchard = [actions |-> p.orchard.actions, sum |-> p.orchard.sum, anchor |-> p.orchard.anchor,
                      proof |-> p.orchard.proof, bsk |-> p.orchard.bsk]
      /\ p.sapling.spends = <<>> /\ p.sapling.outs = <<>> /\ p.sapling.sum = <<<<>>, <<>>>>
      /\ p.sapling.anchor = Start /\ p.orchard.actions = <<>> /\ p.orchard.sum = <<>>
      /\ p.orchard.anchor = Start /\ p.orchard.proof = {}
  BY <1>1
<1>3. <<>> = [i \in {} |-> <<>>[i]] /\ DOMAIN <<>> = {}
  OBVIOUS
<1>4. List(<<>>)
  <2>1. <<>> \in Seq({})
    OBVIOUS
  <2> QED BY <2>1, SeqList
<1>5. Shape(p)
  <2>1. p.flags \subseteq Flags
    BY <1>1 DEF Flags
  <2>2. InputList(p.inputs) /\ List(p.outputs)
    BY <1>1, <1>3, <1>4 DEF InputList
  <2>3. IsSapling(p.sapling)
    BY <1>2, <1>3, <1>4 DEF IsSapling, SpendList, OutputList
  <2>4. IsOrchard(p.orchard)
    BY <1>2, <1>3, <1>4 DEF IsOrchard, ActionList
  <2> QED BY <1>1, <2>1, <2>2, <2>3, <2>4 DEF Shape
<1>6. Sums(p)
  <2>1. Notes(<<>>) = <<>> /\ Outs(<<>>) = <<>>
    BY <1>3 DEF Notes, Outs
  <2>2. SapOuts(p) = <<>>
    BY <1>2, <2>1, SapOutsAre
  <2> QED BY <1>2, <2>1, <2>2 DEF Sums, SaplingSum, OrchardSum
<1>7. Proven(p)
  BY <1>2, <1>3 DEF Proven
<1>8. Signed(p)
  BY <1>1, <1>2, <1>3 DEF Signed, NoLocks, Anchored5, InputsSigned, ItemsSigned
<1> QED BY <1>5, <1>6, <1>7, <1>8 DEF Good, Fit, p

LEMMA PartsGood ==
  ASSUME NEW o \in Offers
  PROVE  Good(Parts(o))
<1> DEFINE p == Parts(o)
<1>1. List(o.coins) /\ List(o.outputs) /\ List(o.spends) /\ List(o.outs) /\ List(o.actions)
  BY RolesAssumption DEF List
<1>2. \A i \in DOMAIN o.coins : o.coins[i] \in DOMAIN SighashOf
  BY RolesAssumption
<1>3. /\ p = [flags |-> p.flags, inputs |-> p.inputs, outputs |-> p.outputs,
              sapling |-> p.sapling, orchard |-> p.orchard]
      /\ p.flags \subseteq Flags
      /\ p.inputs = [i \in DOMAIN o.coins |-> NewInput(o.coins[i])]
      /\ p.outputs = o.outputs
  BY DEF Parts, Flags
<1>4. /\ p.sapling = [spends |-> p.sapling.spends, outs |-> p.sapling.outs, sum |-> p.sapling.sum,
                      anchor |-> p.sapling.anchor, bsk |-> p.sapling.bsk]
      /\ p.sapling.spends = [i \in DOMAIN o.spends |-> NewSpend(o.spends[i], o.spends[i] \in Dummies)]
      /\ p.sapling.outs = [i \in DOMAIN o.outs |-> NewSaplingOutput(o.outs[i])]
      /\ p.sapling.sum = <<o.spends, o.outs>> /\ p.sapling.anchor = Start
  BY DEF Parts
<1>5. /\ p.orchard = [actions |-> p.orchard.actions, sum |-> p.orchard.sum, anchor |-> p.orchard.anchor,
                      proof |-> p.orchard.proof, bsk |-> p.orchard.bsk]
      /\ p.orchard.actions = [i \in DOMAIN o.actions |-> NewAction(o.actions[i], o.actions[i] \in Dummies)]
      /\ p.orchard.sum = o.actions /\ p.orchard.anchor = Start /\ p.orchard.proof = {}
  BY DEF Parts
<1> HIDE DEF p
<1>6. /\ List(p.inputs) /\ DOMAIN p.inputs = DOMAIN o.coins
      /\ \A i \in DOMAIN o.coins : p.inputs[i] = NewInput(o.coins[i])
  <2>1. p.inputs = [i \in DOMAIN o.coins |-> p.inputs[i]]
    BY <1>3
  <2> QED BY <1>1, <1>3, <2>1, Mapped
<1>7. /\ List(p.sapling.spends) /\ DOMAIN p.sapling.spends = DOMAIN o.spends
      /\ \A i \in DOMAIN o.spends : p.sapling.spends[i] = NewSpend(o.spends[i], o.spends[i] \in Dummies)
  <2>1. p.sapling.spends = [i \in DOMAIN o.spends |-> p.sapling.spends[i]]
    BY <1>4
  <2> QED BY <1>1, <1>4, <2>1, Mapped
<1>8. /\ List(p.sapling.outs) /\ DOMAIN p.sapling.outs = DOMAIN o.outs
      /\ \A i \in DOMAIN o.outs : p.sapling.outs[i] = NewSaplingOutput(o.outs[i])
  <2>1. p.sapling.outs = [i \in DOMAIN o.outs |-> p.sapling.outs[i]]
    BY <1>4
  <2> QED BY <1>1, <1>4, <2>1, Mapped
<1>9. /\ List(p.orchard.actions) /\ DOMAIN p.orchard.actions = DOMAIN o.actions
      /\ \A i \in DOMAIN o.actions : p.orchard.actions[i] = NewAction(o.actions[i], o.actions[i] \in Dummies)
  <2>1. p.orchard.actions = [i \in DOMAIN o.actions |-> p.orchard.actions[i]]
    BY <1>5
  <2> QED BY <1>1, <1>5, <2>1, Mapped
<1>10. \A i \in DOMAIN o.coins :
         LET x == p.inputs[i]
             c == o.coins[i]
         IN  /\ IsInput(x) /\ x.time = TimeLock[c] /\ x.height = HeightLock[c]
             /\ x.sigs = {} /\ x.script = {}
  <2> SUFFICES ASSUME NEW i \in DOMAIN o.coins, NEW c, c = o.coins[i], NEW x, x = p.inputs[i]
               PROVE  /\ IsInput(x) /\ x.time = TimeLock[c] /\ x.height = HeightLock[c]
                      /\ x.sigs = {} /\ x.script = {}
    OBVIOUS
  <2>1. x = NewInput(c) /\ c \in DOMAIN SighashOf
    BY <1>2, <1>6
  <2> QED BY <2>1 DEF NewInput, IsInput
<1>11. \A i \in DOMAIN o.spends :
         LET x == p.sapling.spends[i]
         IN  IsSpend(x) /\ x.note = o.spends[i] /\ x.sig = {} /\ x.proof = {}
  <2> SUFFICES ASSUME NEW i \in DOMAIN o.spends, NEW n, n = o.spends[i], NEW x, x = p.sapling.spends[i]
               PROVE  IsSpend(x) /\ x.note = n /\ x.sig = {} /\ x.proof = {}
    OBVIOUS
  <2>1. x = NewSpend(n, n \in Dummies)
    BY <1>7
  <2> QED BY <2>1 DEF NewSpend, IsSpend
<1>12. \A i \in DOMAIN o.outs :
         LET x == p.sapling.outs[i]
         IN  IsOutput(x) /\ x.out = o.outs[i]
  <2> SUFFICES ASSUME NEW i \in DOMAIN o.outs, NEW n, n = o.outs[i], NEW x, x = p.sapling.outs[i]
               PROVE  IsOutput(x) /\ x.out = n
    OBVIOUS
  <2>1. x = NewSaplingOutput(n)
    BY <1>8
  <2> QED BY <2>1 DEF NewSaplingOutput, IsOutput
<1>13. \A i \in DOMAIN o.actions :
         LET x == p.orchard.actions[i]
         IN  IsAction(x) /\ x.note = o.actions[i] /\ x.sig = {}
  <2> SUFFICES ASSUME NEW i \in DOMAIN o.actions, NEW n, n = o.actions[i], NEW x, x = p.orchard.actions[i]
               PROVE  IsAction(x) /\ x.note = n /\ x.sig = {}
    OBVIOUS
  <2>1. x = NewAction(n, n \in Dummies)
    BY <1>9
  <2> QED BY <2>1 DEF NewAction, IsAction
<1>14. Shape(p)
  <2>1. InputList(p.inputs) /\ List(p.outputs)
    BY <1>1, <1>3, <1>6, <1>10 DEF InputList
  <2>2. IsSapling(p.sapling)
    BY <1>4, <1>7, <1>8, <1>11, <1>12 DEF IsSapling, SpendList, OutputList
  <2>3. IsOrchard(p.orchard)
    BY <1>5, <1>9, <1>13 DEF IsOrchard, ActionList
  <2> QED BY <1>3, <2>1, <2>2, <2>3 DEF Shape
<1>15. Sums(p)
  <2>1. /\ o.spends = [i \in DOMAIN o.spends |-> o.spends[i]]
        /\ o.outs = [i \in DOMAIN o.outs |-> o.outs[i]]
        /\ o.actions = [i \in DOMAIN o.actions |-> o.actions[i]]
    BY <1>1, ListIs
  <2>2. Notes(p.sapling.spends) = o.spends
    BY <1>7, <1>11, <2>1 DEF Notes
  <2>3. SapOuts(p) = o.outs
    BY <1>8, <1>12, <2>1 DEF SapOuts
  <2>4. Notes(p.orchard.actions) = o.actions
    BY <1>9, <1>13, <2>1 DEF Notes
  <2> QED BY <1>4, <1>5, <2>2, <2>3, <2>4 DEF Sums, SaplingSum, OrchardSum
<1>16. Proven(p)
  BY <1>5, <1>7, <1>11 DEF Proven
<1>17. ASSUME Unlocked PROVE Signed(p)
  <2>1. NoLocks(p)
    BY <1>2, <1>6, <1>17, <1>10 DEF NoLocks, Unlocked
  <2>2. Anchored5(p)
    BY <1>4, <1>5 DEF Anchored5
  <2>3. InputsSigned(p)
    BY <1>6, <1>10 DEF InputsSigned, InputSigs
  <2>4. ItemsSigned(p)
    BY <1>7, <1>9, <1>11, <1>13 DEF ItemsSigned
  <2> QED BY <2>1, <2>2, <2>3, <2>4 DEF Signed
<1> QED BY <1>14, <1>15, <1>16, <1>17 DEF Good, Fit, p

-----------------------------------------------------------------------------
(* The invariant *)

\* The transaction is one of those on offer and every copy is as it should be. The parts
\* of Good are one invariant: what a merge and a signature do is right for copies whose
\* lists, sums, proofs and earlier signatures are.
IInv == /\ offer \in Offers
        /\ held = [d \in Devices |-> held[d]]
        /\ \A p \in Copies : Good(p)

LEMMA ActGood ==
  ASSUME offer \in Offers, \A p \in Copies : Good(p),
         NEW d \in Devices, NEW p \in held[d], Act(d, p)
  PROVE  \E e \in Devices : \E q : Becomes(e, q) /\ Good(q)
<1>1. Good(p)
  BY DEF Copies
<1>2. ASSUME NEW q, Becomes(d, q) /\ Good(q)
      PROVE  \E e \in Devices : \E x : Becomes(e, x) /\ Good(x)
  BY <1>2
<1>3. CASE AddInput(d, p)
  BY <1>1, <1>2, <1>3, AddInputGood
<1>4. CASE AddOutput(d, p)
  BY <1>1, <1>2, <1>4, AddOutputGood
<1>5. CASE AddSaplingSpend(d, p)
  BY <1>1, <1>2, <1>5, AddSaplingSpendGood
<1>6. CASE AddSaplingOutput(d, p)
  BY <1>1, <1>2, <1>6, AddSaplingOutputGood
<1>7. CASE AddAction(d, p)
  BY <1>1, <1>2, <1>7, AddActionGood
<1>8. CASE SetAnchor(d, p)
  BY <1>1, <1>2, <1>8, SetAnchorGood
<1>9. CASE Redact(d, p)
  BY <1>1, <1>2, <1>9, RedactGood
<1>10. CASE FinalizeIo(d, p)
  BY <1>1, <1>2, <1>10, FinalizeIoGood
<1>11. CASE ProveSapling(d, p)
  BY <1>1, <1>2, <1>11, ProveSaplingGood
<1>12. CASE ProveOrchard(d, p)
  BY <1>1, <1>2, <1>12, ProveOrchardGood
<1>13. CASE SignTransparent(d, p)
  BY <1>1, <1>2, <1>13, SignTransparentGood
<1>14. CASE SignShielded(d, p)
  BY <1>1, <1>2, <1>14, SignShieldedGood
<1>15. CASE FinalizeSpends(d, p)
  BY <1>1, <1>2, <1>15, FinalizeSpendsGood
<1>16. CASE Send(d, p)
  BY <1>1, <1>16 DEF Send
<1>17. CASE Combine(d, p)
  <2>1. PICK e \in Devices \ {d} : \E q \in held[e] :
          \/ Mergeable(p, q) /\ Becomes(d, Merge(p, q))
          \/ Mergeable(q, p) /\ Becomes(d, Merge(q, p))
    BY <1>17 DEF Combine
  <2>2. PICK q \in held[e] :
          \/ Mergeable(p, q) /\ Becomes(d, Merge(p, q))
          \/ Mergeable(q, p) /\ Becomes(d, Merge(q, p))
    BY <2>1
  <2>3. Good(q)
    BY <2>2 DEF Copies
  <2>4. CASE Mergeable(p, q) /\ Becomes(d, Merge(p, q))
    BY <1>1, <1>2, <2>3, <2>4, MergeGood
  <2>5. CASE Mergeable(q, p) /\ Becomes(d, Merge(q, p))
    BY <1>1, <1>2, <2>3, <2>5, MergeGood
  <2> QED BY <2>2, <2>4, <2>5
<1> QED
  BY <1>3, <1>4, <1>5, <1>6, <1>7, <1>8, <1>9, <1>10, <1>11, <1>12, <1>13, <1>14, <1>15, <1>16, <1>17
     DEF Act

LEMMA Invariant == Spec => []IInv
<1>1. Init => IInv
  <2> SUFFICES ASSUME Init PROVE IInv
    OBVIOUS
  <2>1. held = [d \in Devices |-> {}] /\ offer \in Offers
    BY DEF Init
  <2>2. Copies = {}
    BY <2>1 DEF Copies
  <2> QED BY <2>1, <2>2 DEF IInv
<1>2. IInv /\ [Next]_vars => IInv'
  <2> SUFFICES ASSUME IInv, [Next]_vars PROVE IInv'
    OBVIOUS
  <2>1. ASSUME NEW d \in Devices, NEW q, Becomes(d, q), Good(q)
        PROVE  IInv'
    <3>1. held' = [held EXCEPT ![d] = {q}] /\ offer' = offer
      BY <2>1 DEF Becomes
    <3>2. /\ held' = [e \in Devices |-> held'[e]] /\ held'[d] = {q}
          /\ \A e \in Devices \ {d} : held'[e] = held[e]
      BY <3>1 DEF IInv
    <3>3. \A p \in Copies' : p = q \/ p \in Copies
      BY <3>2 DEF Copies
    <3> QED BY <2>1, <3>1, <3>2, <3>3 DEF IInv
  <2>2. CASE UNCHANGED vars
    BY <2>2 DEF IInv, Copies, vars
  <2>3. ASSUME NEW d \in Devices, Create(d) PROVE IInv'
    <3>1. Becomes(d, IF offer.built THEN Parts(offer) ELSE Empty)
      BY <2>3 DEF Create
    <3>2. Good(IF offer.built THEN Parts(offer) ELSE Empty)
      BY EmptyGood, PartsGood DEF IInv
    <3> QED BY <2>1, <3>1, <3>2
  <2>4. ASSUME NEW d \in Devices, NEW p \in held[d], Act(d, p) PROVE IInv'
    <3>1. \E e \in Devices : \E q : Becomes(e, q) /\ Good(q)
      BY <2>4, ActGood DEF IInv
    <3> QED BY <2>1, <3>1
  <2> QED BY <2>2, <2>3, <2>4 DEF Next
<1> QED BY <1>1, <1>2, PTL DEF Spec

\* Where Orchard proofs are made of a bundle that nothing may be added to, and no anchor is
\* redacted under a proof, the anchors, proofs and value sums of every copy are those of its
\* items (Combiner, Updater and Redactor).
THEOREM BundlesStayFit ==
  ASSUME Honest
  PROVE  Spec => []BundlesFit
<1>1. IInv => BundlesFit
  BY DEF IInv, BundlesFit, Good, Fit, Sums, Proven
<1> QED BY <1>1, Invariant, PTL

\* Where no coin requires a lock time, every signature of every copy is over what that copy
\* would now become (the flags of the Signer, Constructor and Combiner).
THEOREM SignaturesStayValid ==
  ASSUME Unlocked
  PROVE  Spec => []SignaturesValid
<1>1. IInv => SignaturesValid
  <2> SUFFICES ASSUME IInv, NEW p \in Copies, Parses(p)
               PROVE  /\ \A n \in DOMAIN p.inputs : \A s \in p.inputs[n].sigs \cup UNION p.inputs[n].script :
                           s.over = TransparentSighash(p, n)
                      /\ \A i \in DOMAIN p.sapling.spends : \A s \in p.sapling.spends[i].sig :
                           s.over = ShieldedSighash(p)
                      /\ \A i \in DOMAIN p.orchard.actions : \A s \in p.orchard.actions[i].sig :
                           s.over = ShieldedSighash(p)
    BY DEF SignaturesValid
  <2>1. Fit(p) /\ Signed(p)
    BY DEF IInv, Good
  <2>2. /\ ShieldedSighash(p) = OverShielded(p)
        /\ \A n \in DOMAIN p.inputs : TransparentSighash(p, n) = OverInput(p, n)
    BY <2>1, SighashIs
  <2> QED BY <2>1, <2>2 DEF Signed, InputsSigned, ItemsSigned, InputSigned, ItemSigned, InputSigs
<1> QED BY <1>1, Invariant, PTL

-----------------------------------------------------------------------------
(* The order of combining *)

\* m is what the copies of S have: their items in their places, and of what authorizes the
\* items all that any copy has. The value sums follow from the items, and the binding keys
\* are left out: a merge keeps those of its first copy.
JoinedInputs(S, m) ==
  /\ \A i : i \in DOMAIN m.inputs <=> \E x \in S : i \in DOMAIN x.inputs
  /\ \A i \in DOMAIN m.inputs :
       /\ \A x \in S : i \in DOMAIN x.inputs => m.inputs[i].coin = x.inputs[i].coin
       /\ \A v : v \in m.inputs[i].time <=> \E x \in S : v \in TimeAt(x.inputs, i)
       /\ \A v : v \in m.inputs[i].height <=> \E x \in S : v \in HeightAt(x.inputs, i)
       /\ \A v : v \in m.inputs[i].sigs <=> \E x \in S : v \in SigsAt(x.inputs, i)
       /\ \A v : v \in m.inputs[i].script <=> \E x \in S : v \in ScriptAt(x.inputs, i)

JoinedSpends(S, m) ==
  /\ \A i : i \in DOMAIN m.sapling.spends <=> \E x \in S : i \in DOMAIN x.sapling.spends
  /\ \A i \in DOMAIN m.sapling.spends :
       /\ \A x \in S : i \in DOMAIN x.sapling.spends => m.sapling.spends[i].note = x.sapling.spends[i].note
       /\ \A v : v \in m.sapling.spends[i].sig <=> \E x \in S : v \in SigAt(x.sapling.spends, i)
       /\ \A v : v \in m.sapling.spends[i].proof <=> \E x \in S : v \in ProofAt(x.sapling.spends, i)
       /\ \A v : v \in m.sapling.spends[i].key <=> \E x \in S : v \in KeyAt(x.sapling.spends, i)

JoinedOutputs(S, m) ==
  /\ \A i : i \in DOMAIN m.sapling.outs <=> \E x \in S : i \in DOMAIN x.sapling.outs
  /\ \A i \in DOMAIN m.sapling.outs :
       /\ \A x \in S : i \in DOMAIN x.sapling.outs => m.sapling.outs[i].out = x.sapling.outs[i].out
       /\ \A v : v \in m.sapling.outs[i].proof <=> \E x \in S : v \in ProofAt(x.sapling.outs, i)

JoinedActions(S, m) ==
  /\ \A i : i \in DOMAIN m.orchard.actions <=> \E x \in S : i \in DOMAIN x.orchard.actions
  /\ \A i \in DOMAIN m.orchard.actions :
       /\ \A x \in S : i \in DOMAIN x.orchard.actions => m.orchard.actions[i].note = x.orchard.actions[i].note
       /\ \A v : v \in m.orchard.actions[i].sig <=> \E x \in S : v \in SigAt(x.orchard.actions, i)
       /\ \A v : v \in m.orchard.actions[i].key <=> \E x \in S : v \in KeyAt(x.orchard.actions, i)

JoinedVouts(S, m) ==
  /\ \A i : i \in DOMAIN m.outputs <=> \E x \in S : i \in DOMAIN x.outputs
  /\ \A i \in DOMAIN m.outputs : \A x \in S : i \in DOMAIN x.outputs => m.outputs[i] = x.outputs[i]

JoinedHeads(S, m) ==
  /\ \A f : f \in m.flags <=> \/ f \in Modifiable /\ \A x \in S : f \in x.flags
                              \/ f \in Flags \ Modifiable /\ \E x \in S : f \in x.flags
  /\ \A a : a \in m.sapling.anchor <=> \E x \in S : a \in x.sapling.anchor
  /\ \A a : a \in m.orchard.anchor <=> \E x \in S : a \in x.orchard.anchor
  /\ \A a : a \in m.orchard.proof <=> \E x \in S : a \in x.orchard.proof

Joined(S, m) ==
  /\ JoinedInputs(S, m) /\ JoinedVouts(S, m) /\ JoinedHeads(S, m)
  /\ JoinedSpends(S, m) /\ JoinedOutputs(S, m) /\ JoinedActions(S, m)

LEMMA JoinedOne ==
  ASSUME NEW p, Shape(p)
  PROVE  Joined({p}, p)
<1>1. JoinedInputs({p}, p)
  BY DEF JoinedInputs, TimeAt, HeightAt, SigsAt, ScriptAt
<1>2. JoinedSpends({p}, p)
  BY DEF JoinedSpends, SigAt, ProofAt, KeyAt
<1>3. JoinedOutputs({p}, p)
  BY DEF JoinedOutputs, ProofAt
<1>4. JoinedActions({p}, p)
  BY DEF JoinedActions, SigAt, KeyAt
<1>5. JoinedVouts({p}, p)
  BY DEF JoinedVouts
<1>6. JoinedHeads({p}, p)
  BY DEF JoinedHeads, Shape, Flags
<1> QED BY <1>1, <1>2, <1>3, <1>4, <1>5, <1>6 DEF Joined

LEMMA JoinInputs ==
  ASSUME NEW S, NEW m, JoinedInputs(S, m), NEW T, NEW n, JoinedInputs(T, n),
         NEW z, MergedInputs(m.inputs, n.inputs, z.inputs)
  PROVE  JoinedInputs(S \cup T, z)
<1>1. /\ DOMAIN z.inputs = DOMAIN m.inputs \cup DOMAIN n.inputs
      /\ \A i \in DOMAIN z.inputs :
           /\ i \in DOMAIN m.inputs => z.inputs[i].coin = m.inputs[i].coin
           /\ i \in DOMAIN n.inputs => z.inputs[i].coin = n.inputs[i].coin
           /\ z.inputs[i].time = TimeAt(m.inputs, i) \cup TimeAt(n.inputs, i)
           /\ z.inputs[i].height = HeightAt(m.inputs, i) \cup HeightAt(n.inputs, i)
           /\ z.inputs[i].sigs = SigsAt(m.inputs, i) \cup SigsAt(n.inputs, i)
           /\ z.inputs[i].script = ScriptAt(m.inputs, i) \cup ScriptAt(n.inputs, i)
  BY DEF MergedInputs
<1>2. /\ \A i : i \in DOMAIN m.inputs <=> \E x \in S : i \in DOMAIN x.inputs
      /\ \A i \in DOMAIN m.inputs : \A x \in S :
           i \in DOMAIN x.inputs => m.inputs[i].coin = x.inputs[i].coin
      /\ \A i \in DOMAIN m.inputs : \A v :
           v \in m.inputs[i].time <=> \E x \in S : v \in TimeAt(x.inputs, i)
      /\ \A i \in DOMAIN m.inputs : \A v :
           v \in m.inputs[i].height <=> \E x \in S : v \in HeightAt(x.inputs, i)
      /\ \A i \in DOMAIN m.inputs : \A v :
           v \in m.inputs[i].sigs <=> \E x \in S : v \in SigsAt(x.inputs, i)
      /\ \A i \in DOMAIN m.inputs : \A v :
           v \in m.inputs[i].script <=> \E x \in S : v \in ScriptAt(x.inputs, i)
  BY DEF JoinedInputs
<1>3. /\ \A i : i \in DOMAIN n.inputs <=> \E x \in T : i \in DOMAIN x.inputs
      /\ \A i \in DOMAIN n.inputs : \A x \in T :
           i \in DOMAIN x.inputs => n.inputs[i].coin = x.inputs[i].coin
      /\ \A i \in DOMAIN n.inputs : \A v :
           v \in n.inputs[i].time <=> \E x \in T : v \in TimeAt(x.inputs, i)
      /\ \A i \in DOMAIN n.inputs : \A v :
           v \in n.inputs[i].height <=> \E x \in T : v \in HeightAt(x.inputs, i)
      /\ \A i \in DOMAIN n.inputs : \A v :
           v \in n.inputs[i].sigs <=> \E x \in T : v \in SigsAt(x.inputs, i)
      /\ \A i \in DOMAIN n.inputs : \A v :
           v \in n.inputs[i].script <=> \E x \in T : v \in ScriptAt(x.inputs, i)
  BY DEF JoinedInputs
<1>4. \A i : i \in DOMAIN z.inputs <=> \E x \in S \cup T : i \in DOMAIN x.inputs
  BY <1>1, <1>2, <1>3
<1>5. ASSUME NEW i \in DOMAIN z.inputs
      PROVE  /\ \A x \in S \cup T : i \in DOMAIN x.inputs => z.inputs[i].coin = x.inputs[i].coin
             /\ \A v : v \in z.inputs[i].time <=> \E x \in S \cup T : v \in TimeAt(x.inputs, i)
             /\ \A v : v \in z.inputs[i].height <=> \E x \in S \cup T : v \in HeightAt(x.inputs, i)
             /\ \A v : v \in z.inputs[i].sigs <=> \E x \in S \cup T : v \in SigsAt(x.inputs, i)
             /\ \A v : v \in z.inputs[i].script <=> \E x \in S \cup T : v \in ScriptAt(x.inputs, i)
  <2>1. ASSUME NEW v
        PROVE  v \in z.inputs[i].time <=> \E x \in S \cup T : v \in TimeAt(x.inputs, i)
    <3>1. z.inputs[i].time = TimeAt(m.inputs, i) \cup TimeAt(n.inputs, i)
      BY <1>1
    <3>2. v \in TimeAt(m.inputs, i) <=> \E x \in S : v \in TimeAt(x.inputs, i)
      BY <1>2 DEF TimeAt
    <3>3. v \in TimeAt(n.inputs, i) <=> \E x \in T : v \in TimeAt(x.inputs, i)
      BY <1>3 DEF TimeAt
    <3> QED BY <3>1, <3>2, <3>3
  <2>2. ASSUME NEW v
        PROVE  v \in z.inputs[i].height <=> \E x \in S \cup T : v \in HeightAt(x.inputs, i)
    <3>1. z.inputs[i].height = HeightAt(m.inputs, i) \cup HeightAt(n.inputs, i)
      BY <1>1
    <3>2. v \in HeightAt(m.inputs, i) <=> \E x \in S : v \in HeightAt(x.inputs, i)
      BY <1>2 DEF HeightAt
    <3>3. v \in HeightAt(n.inputs, i) <=> \E x \in T : v \in HeightAt(x.inputs, i)
      BY <1>3 DEF HeightAt
    <3> QED BY <3>1, <3>2, <3>3
  <2>3. ASSUME NEW v
        PROVE  v \in z.inputs[i].sigs <=> \E x \in S \cup T : v \in SigsAt(x.inputs, i)
    <3>1. z.inputs[i].sigs = SigsAt(m.inputs, i) \cup SigsAt(n.inputs, i)
      BY <1>1
    <3>2. v \in SigsAt(m.inputs, i) <=> \E x \in S : v \in SigsAt(x.inputs, i)
      BY <1>2 DEF SigsAt
    <3>3. v \in SigsAt(n.inputs, i) <=> \E x \in T : v \in SigsAt(x.inputs, i)
      BY <1>3 DEF SigsAt
    <3> QED BY <3>1, <3>2, <3>3
  <2>4. ASSUME NEW v
        PROVE  v \in z.inputs[i].script <=> \E x \in S \cup T : v \in ScriptAt(x.inputs, i)
    <3>1. z.inputs[i].script = ScriptAt(m.inputs, i) \cup ScriptAt(n.inputs, i)
      BY <1>1
    <3>2. v \in ScriptAt(m.inputs, i) <=> \E x \in S : v \in ScriptAt(x.inputs, i)
      BY <1>2 DEF ScriptAt
    <3>3. v \in ScriptAt(n.inputs, i) <=> \E x \in T : v \in ScriptAt(x.inputs, i)
      BY <1>3 DEF ScriptAt
    <3> QED BY <3>1, <3>2, <3>3
  <2>5. ASSUME NEW x \in S \cup T, i \in DOMAIN x.inputs
        PROVE  z.inputs[i].coin = x.inputs[i].coin
    BY <1>1, <1>2, <1>3, <2>5
  <2> QED BY <2>1, <2>2, <2>3, <2>4, <2>5
<1> QED BY <1>4, <1>5 DEF JoinedInputs

LEMMA JoinSpends ==
  ASSUME NEW S, NEW m, JoinedSpends(S, m), NEW T, NEW n, JoinedSpends(T, n),
         NEW z, MergedSpends(m.sapling.spends, n.sapling.spends, z.sapling.spends)
  PROVE  JoinedSpends(S \cup T, z)
<1>1. /\ DOMAIN z.sapling.spends = DOMAIN m.sapling.spends \cup DOMAIN n.sapling.spends
      /\ \A i \in DOMAIN z.sapling.spends :
           /\ i \in DOMAIN m.sapling.spends => z.sapling.spends[i].note = m.sapling.spends[i].note
           /\ i \in DOMAIN n.sapling.spends => z.sapling.spends[i].note = n.sapling.spends[i].note
           /\ z.sapling.spends[i].sig = SigAt(m.sapling.spends, i) \cup SigAt(n.sapling.spends, i)
           /\ z.sapling.spends[i].proof = ProofAt(m.sapling.spends, i) \cup ProofAt(n.sapling.spends, i)
           /\ z.sapling.spends[i].key = KeyAt(m.sapling.spends, i) \cup KeyAt(n.sapling.spends, i)
  BY DEF MergedSpends
<1>2. /\ \A i : i \in DOMAIN m.sapling.spends <=> \E x \in S : i \in DOMAIN x.sapling.spends
      /\ \A i \in DOMAIN m.sapling.spends : \A x \in S :
           i \in DOMAIN x.sapling.spends => m.sapling.spends[i].note = x.sapling.spends[i].note
      /\ \A i \in DOMAIN m.sapling.spends : \A v :
           v \in m.sapling.spends[i].sig <=> \E x \in S : v \in SigAt(x.sapling.spends, i)
      /\ \A i \in DOMAIN m.sapling.spends : \A v :
           v \in m.sapling.spends[i].proof <=> \E x \in S : v \in ProofAt(x.sapling.spends, i)
      /\ \A i \in DOMAIN m.sapling.spends : \A v :
           v \in m.sapling.spends[i].key <=> \E x \in S : v \in KeyAt(x.sapling.spends, i)
  BY DEF JoinedSpends
<1>3. /\ \A i : i \in DOMAIN n.sapling.spends <=> \E x \in T : i \in DOMAIN x.sapling.spends
      /\ \A i \in DOMAIN n.sapling.spends : \A x \in T :
           i \in DOMAIN x.sapling.spends => n.sapling.spends[i].note = x.sapling.spends[i].note
      /\ \A i \in DOMAIN n.sapling.spends : \A v :
           v \in n.sapling.spends[i].sig <=> \E x \in T : v \in SigAt(x.sapling.spends, i)
      /\ \A i \in DOMAIN n.sapling.spends : \A v :
           v \in n.sapling.spends[i].proof <=> \E x \in T : v \in ProofAt(x.sapling.spends, i)
      /\ \A i \in DOMAIN n.sapling.spends : \A v :
           v \in n.sapling.spends[i].key <=> \E x \in T : v \in KeyAt(x.sapling.spends, i)
  BY DEF JoinedSpends
<1>4. \A i : i \in DOMAIN z.sapling.spends <=> \E x \in S \cup T : i \in DOMAIN x.sapling.spends
  BY <1>1, <1>2, <1>3
<1>5. ASSUME NEW i \in DOMAIN z.sapling.spends
      PROVE  /\ \A x \in S \cup T : i \in DOMAIN x.sapling.spends => z.sapling.spends[i].note = x.sapling.spends[i].note
             /\ \A v : v \in z.sapling.spends[i].sig <=> \E x \in S \cup T : v \in SigAt(x.sapling.spends, i)
             /\ \A v : v \in z.sapling.spends[i].proof <=> \E x \in S \cup T : v \in ProofAt(x.sapling.spends, i)
             /\ \A v : v \in z.sapling.spends[i].key <=> \E x \in S \cup T : v \in KeyAt(x.sapling.spends, i)
  <2>1. ASSUME NEW v
        PROVE  v \in z.sapling.spends[i].sig <=> \E x \in S \cup T : v \in SigAt(x.sapling.spends, i)
    <3>1. z.sapling.spends[i].sig = SigAt(m.sapling.spends, i) \cup SigAt(n.sapling.spends, i)
      BY <1>1
    <3>2. v \in SigAt(m.sapling.spends, i) <=> \E x \in S : v \in SigAt(x.sapling.spends, i)
      BY <1>2 DEF SigAt
    <3>3. v \in SigAt(n.sapling.spends, i) <=> \E x \in T : v \in SigAt(x.sapling.spends, i)
      BY <1>3 DEF SigAt
    <3> QED BY <3>1, <3>2, <3>3
  <2>2. ASSUME NEW v
        PROVE  v \in z.sapling.spends[i].proof <=> \E x \in S \cup T : v \in ProofAt(x.sapling.spends, i)
    <3>1. z.sapling.spends[i].proof = ProofAt(m.sapling.spends, i) \cup ProofAt(n.sapling.spends, i)
      BY <1>1
    <3>2. v \in ProofAt(m.sapling.spends, i) <=> \E x \in S : v \in ProofAt(x.sapling.spends, i)
      BY <1>2 DEF ProofAt
    <3>3. v \in ProofAt(n.sapling.spends, i) <=> \E x \in T : v \in ProofAt(x.sapling.spends, i)
      BY <1>3 DEF ProofAt
    <3> QED BY <3>1, <3>2, <3>3
  <2>3. ASSUME NEW v
        PROVE  v \in z.sapling.spends[i].key <=> \E x \in S \cup T : v \in KeyAt(x.sapling.spends, i)
    <3>1. z.sapling.spends[i].key = KeyAt(m.sapling.spends, i) \cup KeyAt(n.sapling.spends, i)
      BY <1>1
    <3>2. v \in KeyAt(m.sapling.spends, i) <=> \E x \in S : v \in KeyAt(x.sapling.spends, i)
      BY <1>2 DEF KeyAt
    <3>3. v \in KeyAt(n.sapling.spends, i) <=> \E x \in T : v \in KeyAt(x.sapling.spends, i)
      BY <1>3 DEF KeyAt
    <3> QED BY <3>1, <3>2, <3>3
  <2>4. ASSUME NEW x \in S \cup T, i \in DOMAIN x.sapling.spends
        PROVE  z.sapling.spends[i].note = x.sapling.spends[i].note
    BY <1>1, <1>2, <1>3, <2>4
  <2> QED BY <2>1, <2>2, <2>3, <2>4
<1> QED BY <1>4, <1>5 DEF JoinedSpends

LEMMA JoinOutputs ==
  ASSUME NEW S, NEW m, JoinedOutputs(S, m), NEW T, NEW n, JoinedOutputs(T, n),
         NEW z, MergedOutputs(m.sapling.outs, n.sapling.outs, z.sapling.outs)
  PROVE  JoinedOutputs(S \cup T, z)
<1>1. /\ DOMAIN z.sapling.outs = DOMAIN m.sapling.outs \cup DOMAIN n.sapling.outs
      /\ \A i \in DOMAIN z.sapling.outs :
           /\ i \in DOMAIN m.sapling.outs => z.sapling.outs[i].out = m.sapling.outs[i].out
           /\ i \in DOMAIN n.sapling.outs => z.sapling.outs[i].out = n.sapling.outs[i].out
           /\ z.sapling.outs[i].proof = ProofAt(m.sapling.outs, i) \cup ProofAt(n.sapling.outs, i)
  BY DEF MergedOutputs
<1>2. /\ \A i : i \in DOMAIN m.sapling.outs <=> \E x \in S : i \in DOMAIN x.sapling.outs
      /\ \A i \in DOMAIN m.sapling.outs : \A x \in S :
           i \in DOMAIN x.sapling.outs => m.sapling.outs[i].out = x.sapling.outs[i].out
      /\ \A i \in DOMAIN m.sapling.outs : \A v :
           v \in m.sapling.outs[i].proof <=> \E x \in S : v \in ProofAt(x.sapling.outs, i)
  BY DEF JoinedOutputs
<1>3. /\ \A i : i \in DOMAIN n.sapling.outs <=> \E x \in T : i \in DOMAIN x.sapling.outs
      /\ \A i \in DOMAIN n.sapling.outs : \A x \in T :
           i \in DOMAIN x.sapling.outs => n.sapling.outs[i].out = x.sapling.outs[i].out
      /\ \A i \in DOMAIN n.sapling.outs : \A v :
           v \in n.sapling.outs[i].proof <=> \E x \in T : v \in ProofAt(x.sapling.outs, i)
  BY DEF JoinedOutputs
<1>4. \A i : i \in DOMAIN z.sapling.outs <=> \E x \in S \cup T : i \in DOMAIN x.sapling.outs
  BY <1>1, <1>2, <1>3
<1>5. ASSUME NEW i \in DOMAIN z.sapling.outs
      PROVE  /\ \A x \in S \cup T : i \in DOMAIN x.sapling.outs => z.sapling.outs[i].out = x.sapling.outs[i].out
             /\ \A v : v \in z.sapling.outs[i].proof <=> \E x \in S \cup T : v \in ProofAt(x.sapling.outs, i)
  <2>1. ASSUME NEW v
        PROVE  v \in z.sapling.outs[i].proof <=> \E x \in S \cup T : v \in ProofAt(x.sapling.outs, i)
    <3>1. z.sapling.outs[i].proof = ProofAt(m.sapling.outs, i) \cup ProofAt(n.sapling.outs, i)
      BY <1>1
    <3>2. v \in ProofAt(m.sapling.outs, i) <=> \E x \in S : v \in ProofAt(x.sapling.outs, i)
      BY <1>2 DEF ProofAt
    <3>3. v \in ProofAt(n.sapling.outs, i) <=> \E x \in T : v \in ProofAt(x.sapling.outs, i)
      BY <1>3 DEF ProofAt
    <3> QED BY <3>1, <3>2, <3>3
  <2>2. ASSUME NEW x \in S \cup T, i \in DOMAIN x.sapling.outs
        PROVE  z.sapling.outs[i].out = x.sapling.outs[i].out
    BY <1>1, <1>2, <1>3, <2>2
  <2> QED BY <2>1, <2>2
<1> QED BY <1>4, <1>5 DEF JoinedOutputs

LEMMA JoinActions ==
  ASSUME NEW S, NEW m, JoinedActions(S, m), NEW T, NEW n, JoinedActions(T, n),
         NEW z, MergedActions(m.orchard.actions, n.orchard.actions, z.orchard.actions)
  PROVE  JoinedActions(S \cup T, z)
<1>1. /\ DOMAIN z.orchard.actions = DOMAIN m.orchard.actions \cup DOMAIN n.orchard.actions
      /\ \A i \in DOMAIN z.orchard.actions :
           /\ i \in DOMAIN m.orchard.actions => z.orchard.actions[i].note = m.orchard.actions[i].note
           /\ i \in DOMAIN n.orchard.actions => z.orchard.actions[i].note = n.orchard.actions[i].note
           /\ z.orchard.actions[i].sig = SigAt(m.orchard.actions, i) \cup SigAt(n.orchard.actions, i)
           /\ z.orchard.actions[i].key = KeyAt(m.orchard.actions, i) \cup KeyAt(n.orchard.actions, i)
  BY DEF MergedActions
<1>2. /\ \A i : i \in DOMAIN m.orchard.actions <=> \E x \in S : i \in DOMAIN x.orchard.actions
      /\ \A i \in DOMAIN m.orchard.actions : \A x \in S :
           i \in DOMAIN x.orchard.actions => m.orchard.actions[i].note = x.orchard.actions[i].note
      /\ \A i \in DOMAIN m.orchard.actions : \A v :
           v \in m.orchard.actions[i].sig <=> \E x \in S : v \in SigAt(x.orchard.actions, i)
      /\ \A i \in DOMAIN m.orchard.actions : \A v :
           v \in m.orchard.actions[i].key <=> \E x \in S : v \in KeyAt(x.orchard.actions, i)
  BY DEF JoinedActions
<1>3. /\ \A i : i \in DOMAIN n.orchard.actions <=> \E x \in T : i \in DOMAIN x.orchard.actions
      /\ \A i \in DOMAIN n.orchard.actions : \A x \in T :
           i \in DOMAIN x.orchard.actions => n.orchard.actions[i].note = x.orchard.actions[i].note
      /\ \A i \in DOMAIN n.orchard.actions : \A v :
           v \in n.orchard.actions[i].sig <=> \E x \in T : v \in SigAt(x.orchard.actions, i)
      /\ \A i \in DOMAIN n.orchard.actions : \A v :
           v \in n.orchard.actions[i].key <=> \E x \in T : v \in KeyAt(x.orchard.actions, i)
  BY DEF JoinedActions
<1>4. \A i : i \in DOMAIN z.orchard.actions <=> \E x \in S \cup T : i \in DOMAIN x.orchard.actions
  BY <1>1, <1>2, <1>3
<1>5. ASSUME NEW i \in DOMAIN z.orchard.actions
      PROVE  /\ \A x \in S \cup T : i \in DOMAIN x.orchard.actions => z.orchard.actions[i].note = x.orchard.actions[i].note
             /\ \A v : v \in z.orchard.actions[i].sig <=> \E x \in S \cup T : v \in SigAt(x.orchard.actions, i)
             /\ \A v : v \in z.orchard.actions[i].key <=> \E x \in S \cup T : v \in KeyAt(x.orchard.actions, i)
  <2>1. ASSUME NEW v
        PROVE  v \in z.orchard.actions[i].sig <=> \E x \in S \cup T : v \in SigAt(x.orchard.actions, i)
    <3>1. z.orchard.actions[i].sig = SigAt(m.orchard.actions, i) \cup SigAt(n.orchard.actions, i)
      BY <1>1
    <3>2. v \in SigAt(m.orchard.actions, i) <=> \E x \in S : v \in SigAt(x.orchard.actions, i)
      BY <1>2 DEF SigAt
    <3>3. v \in SigAt(n.orchard.actions, i) <=> \E x \in T : v \in SigAt(x.orchard.actions, i)
      BY <1>3 DEF SigAt
    <3> QED BY <3>1, <3>2, <3>3
  <2>2. ASSUME NEW v
        PROVE  v \in z.orchard.actions[i].key <=> \E x \in S \cup T : v \in KeyAt(x.orchard.actions, i)
    <3>1. z.orchard.actions[i].key = KeyAt(m.orchard.actions, i) \cup KeyAt(n.orchard.actions, i)
      BY <1>1
    <3>2. v \in KeyAt(m.orchard.actions, i) <=> \E x \in S : v \in KeyAt(x.orchard.actions, i)
      BY <1>2 DEF KeyAt
    <3>3. v \in KeyAt(n.orchard.actions, i) <=> \E x \in T : v \in KeyAt(x.orchard.actions, i)
      BY <1>3 DEF KeyAt
    <3> QED BY <3>1, <3>2, <3>3
  <2>3. ASSUME NEW x \in S \cup T, i \in DOMAIN x.orchard.actions
        PROVE  z.orchard.actions[i].note = x.orchard.actions[i].note
    BY <1>1, <1>2, <1>3, <2>3
  <2> QED BY <2>1, <2>2, <2>3
<1> QED BY <1>4, <1>5 DEF JoinedActions

LEMMA JoinVouts ==
  ASSUME NEW S, NEW m, JoinedVouts(S, m), NEW T, NEW n, JoinedVouts(T, n),
         NEW z, MergedVouts(m.outputs, n.outputs, z.outputs)
  PROVE  JoinedVouts(S \cup T, z)
<1>1. /\ DOMAIN z.outputs = DOMAIN m.outputs \cup DOMAIN n.outputs
      /\ \A i \in DOMAIN m.outputs : z.outputs[i] = m.outputs[i]
      /\ \A i \in DOMAIN n.outputs : z.outputs[i] = n.outputs[i]
  BY DEF MergedVouts
<1> QED BY <1>1 DEF JoinedVouts

LEMMA JoinHeads ==
  ASSUME NEW S, NEW m, JoinedHeads(S, m), NEW T, NEW n, JoinedHeads(T, n), NEW z, Merged(m, n, z)
  PROVE  JoinedHeads(S \cup T, z)
<1>1. /\ z.flags = (m.flags \cap n.flags \cap Modifiable) \cup ((m.flags \cup n.flags) \ Modifiable)
      /\ z.sapling.anchor = m.sapling.anchor \cup n.sapling.anchor
      /\ z.orchard.anchor = m.orchard.anchor \cup n.orchard.anchor
      /\ z.orchard.proof = m.orchard.proof \cup n.orchard.proof
  BY DEF Merged, MergeFlags
<1>2. ASSUME NEW f
      PROVE  f \in z.flags <=> \/ f \in Modifiable /\ \A x \in S \cup T : f \in x.flags
                               \/ f \in Flags \ Modifiable /\ \E x \in S \cup T : f \in x.flags
  BY <1>1 DEF JoinedHeads
<1>3. ASSUME NEW a
      PROVE  /\ a \in z.sapling.anchor <=> \E x \in S \cup T : a \in x.sapling.anchor
             /\ a \in z.orchard.anchor <=> \E x \in S \cup T : a \in x.orchard.anchor
             /\ a \in z.orchard.proof <=> \E x \in S \cup T : a \in x.orchard.proof
  BY <1>1 DEF JoinedHeads
<1> QED BY <1>2, <1>3 DEF JoinedHeads

\* A merge has what the copies that went into either side have.
LEMMA Join ==
  ASSUME NEW S, NEW m, Joined(S, m), NEW T, NEW n, Joined(T, n), NEW z, Merged(m, n, z)
  PROVE  Joined(S \cup T, z)
<1>1. JoinedInputs(S \cup T, z)
  BY JoinInputs DEF Joined, Merged
<1>2. JoinedVouts(S \cup T, z)
  BY JoinVouts DEF Joined, Merged
<1>3. JoinedHeads(S \cup T, z)
  BY JoinHeads DEF Joined
<1>4. JoinedSpends(S \cup T, z)
  BY JoinSpends DEF Joined, Merged
<1>5. JoinedOutputs(S \cup T, z)
  BY JoinOutputs DEF Joined, Merged
<1>6. JoinedActions(S \cup T, z)
  BY JoinActions DEF Joined, Merged
<1> QED BY <1>1, <1>2, <1>3, <1>4, <1>5, <1>6 DEF Joined

LEMMA OnlyInputs ==
  ASSUME NEW S, NEW m, JoinedInputs(S, m), InputList(m.inputs),
         NEW n, JoinedInputs(S, n), InputList(n.inputs)
  PROVE  m.inputs = n.inputs
<1>1. /\ m.inputs = [i \in DOMAIN m.inputs |-> m.inputs[i]]
      /\ n.inputs = [i \in DOMAIN n.inputs |-> n.inputs[i]]
  BY ListIs DEF InputList
<1>2. DOMAIN m.inputs = DOMAIN n.inputs
  <2>1. \A i : i \in DOMAIN m.inputs <=> i \in DOMAIN n.inputs
    BY DEF JoinedInputs
  <2> QED BY <1>1, <2>1
<1>3. ASSUME NEW i \in DOMAIN m.inputs PROVE m.inputs[i] = n.inputs[i]
  <2>1. IsInput(m.inputs[i]) /\ IsInput(n.inputs[i])
    BY <1>2 DEF InputList
  <2>2. m.inputs[i].coin = n.inputs[i].coin
    <3>1. PICK x \in S : i \in DOMAIN x.inputs
      BY DEF JoinedInputs
    <3> QED BY <1>2, <3>1 DEF JoinedInputs
  <2>3. m.inputs[i].time = n.inputs[i].time
    <3>1. \A v : v \in m.inputs[i].time <=> v \in n.inputs[i].time
      BY <1>2 DEF JoinedInputs
    <3> QED BY <3>1
  <2>4. m.inputs[i].height = n.inputs[i].height
    <3>1. \A v : v \in m.inputs[i].height <=> v \in n.inputs[i].height
      BY <1>2 DEF JoinedInputs
    <3> QED BY <3>1
  <2>5. m.inputs[i].sigs = n.inputs[i].sigs
    <3>1. \A v : v \in m.inputs[i].sigs <=> v \in n.inputs[i].sigs
      BY <1>2 DEF JoinedInputs
    <3> QED BY <3>1
  <2>6. m.inputs[i].script = n.inputs[i].script
    <3>1. \A v : v \in m.inputs[i].script <=> v \in n.inputs[i].script
      BY <1>2 DEF JoinedInputs
    <3> QED BY <3>1
  <2>7. \A x, y : IsInput(x) /\ IsInput(y) /\ x.coin = y.coin
               /\ x.time = y.time
               /\ x.height = y.height
               /\ x.sigs = y.sigs
               /\ x.script = y.script
               => x = y
    BY DEF IsInput
  <2> QED BY <2>1, <2>2, <2>3, <2>4, <2>5, <2>6, <2>7
<1> QED BY <1>1, <1>2, <1>3

LEMMA OnlySpends ==
  ASSUME NEW S, NEW m, JoinedSpends(S, m), SpendList(m.sapling.spends),
         NEW n, JoinedSpends(S, n), SpendList(n.sapling.spends)
  PROVE  m.sapling.spends = n.sapling.spends
<1>1. /\ m.sapling.spends = [i \in DOMAIN m.sapling.spends |-> m.sapling.spends[i]]
      /\ n.sapling.spends = [i \in DOMAIN n.sapling.spends |-> n.sapling.spends[i]]
  BY ListIs DEF SpendList
<1>2. DOMAIN m.sapling.spends = DOMAIN n.sapling.spends
  <2>1. \A i : i \in DOMAIN m.sapling.spends <=> i \in DOMAIN n.sapling.spends
    BY DEF JoinedSpends
  <2> QED BY <1>1, <2>1
<1>3. ASSUME NEW i \in DOMAIN m.sapling.spends PROVE m.sapling.spends[i] = n.sapling.spends[i]
  <2>1. IsSpend(m.sapling.spends[i]) /\ IsSpend(n.sapling.spends[i])
    BY <1>2 DEF SpendList
  <2>2. m.sapling.spends[i].note = n.sapling.spends[i].note
    <3>1. PICK x \in S : i \in DOMAIN x.sapling.spends
      BY DEF JoinedSpends
    <3> QED BY <1>2, <3>1 DEF JoinedSpends
  <2>3. m.sapling.spends[i].sig = n.sapling.spends[i].sig
    <3>1. \A v : v \in m.sapling.spends[i].sig <=> v \in n.sapling.spends[i].sig
      BY <1>2 DEF JoinedSpends
    <3> QED BY <3>1
  <2>4. m.sapling.spends[i].proof = n.sapling.spends[i].proof
    <3>1. \A v : v \in m.sapling.spends[i].proof <=> v \in n.sapling.spends[i].proof
      BY <1>2 DEF JoinedSpends
    <3> QED BY <3>1
  <2>5. m.sapling.spends[i].key = n.sapling.spends[i].key
    <3>1. \A v : v \in m.sapling.spends[i].key <=> v \in n.sapling.spends[i].key
      BY <1>2 DEF JoinedSpends
    <3> QED BY <3>1
  <2>6. \A x, y : IsSpend(x) /\ IsSpend(y) /\ x.note = y.note
               /\ x.sig = y.sig
               /\ x.proof = y.proof
               /\ x.key = y.key
               => x = y
    BY DEF IsSpend
  <2> QED BY <2>1, <2>2, <2>3, <2>4, <2>5, <2>6
<1> QED BY <1>1, <1>2, <1>3

LEMMA OnlyOutputs ==
  ASSUME NEW S, NEW m, JoinedOutputs(S, m), OutputList(m.sapling.outs),
         NEW n, JoinedOutputs(S, n), OutputList(n.sapling.outs)
  PROVE  m.sapling.outs = n.sapling.outs
<1>1. /\ m.sapling.outs = [i \in DOMAIN m.sapling.outs |-> m.sapling.outs[i]]
      /\ n.sapling.outs = [i \in DOMAIN n.sapling.outs |-> n.sapling.outs[i]]
  BY ListIs DEF OutputList
<1>2. DOMAIN m.sapling.outs = DOMAIN n.sapling.outs
  <2>1. \A i : i \in DOMAIN m.sapling.outs <=> i \in DOMAIN n.sapling.outs
    BY DEF JoinedOutputs
  <2> QED BY <1>1, <2>1
<1>3. ASSUME NEW i \in DOMAIN m.sapling.outs PROVE m.sapling.outs[i] = n.sapling.outs[i]
  <2>1. IsOutput(m.sapling.outs[i]) /\ IsOutput(n.sapling.outs[i])
    BY <1>2 DEF OutputList
  <2>2. m.sapling.outs[i].out = n.sapling.outs[i].out
    <3>1. PICK x \in S : i \in DOMAIN x.sapling.outs
      BY DEF JoinedOutputs
    <3> QED BY <1>2, <3>1 DEF JoinedOutputs
  <2>3. m.sapling.outs[i].proof = n.sapling.outs[i].proof
    <3>1. \A v : v \in m.sapling.outs[i].proof <=> v \in n.sapling.outs[i].proof
      BY <1>2 DEF JoinedOutputs
    <3> QED BY <3>1
  <2>4. \A x, y : IsOutput(x) /\ IsOutput(y) /\ x.out = y.out
               /\ x.proof = y.proof
               => x = y
    BY DEF IsOutput
  <2> QED BY <2>1, <2>2, <2>3, <2>4
<1> QED BY <1>1, <1>2, <1>3

LEMMA OnlyActions ==
  ASSUME NEW S, NEW m, JoinedActions(S, m), ActionList(m.orchard.actions),
         NEW n, JoinedActions(S, n), ActionList(n.orchard.actions)
  PROVE  m.orchard.actions = n.orchard.actions
<1>1. /\ m.orchard.actions = [i \in DOMAIN m.orchard.actions |-> m.orchard.actions[i]]
      /\ n.orchard.actions = [i \in DOMAIN n.orchard.actions |-> n.orchard.actions[i]]
  BY ListIs DEF ActionList
<1>2. DOMAIN m.orchard.actions = DOMAIN n.orchard.actions
  <2>1. \A i : i \in DOMAIN m.orchard.actions <=> i \in DOMAIN n.orchard.actions
    BY DEF JoinedActions
  <2> QED BY <1>1, <2>1
<1>3. ASSUME NEW i \in DOMAIN m.orchard.actions PROVE m.orchard.actions[i] = n.orchard.actions[i]
  <2>1. IsAction(m.orchard.actions[i]) /\ IsAction(n.orchard.actions[i])
    BY <1>2 DEF ActionList
  <2>2. m.orchard.actions[i].note = n.orchard.actions[i].note
    <3>1. PICK x \in S : i \in DOMAIN x.orchard.actions
      BY DEF JoinedActions
    <3> QED BY <1>2, <3>1 DEF JoinedActions
  <2>3. m.orchard.actions[i].sig = n.orchard.actions[i].sig
    <3>1. \A v : v \in m.orchard.actions[i].sig <=> v \in n.orchard.actions[i].sig
      BY <1>2 DEF JoinedActions
    <3> QED BY <3>1
  <2>4. m.orchard.actions[i].key = n.orchard.actions[i].key
    <3>1. \A v : v \in m.orchard.actions[i].key <=> v \in n.orchard.actions[i].key
      BY <1>2 DEF JoinedActions
    <3> QED BY <3>1
  <2>5. \A x, y : IsAction(x) /\ IsAction(y) /\ x.note = y.note
               /\ x.sig = y.sig
               /\ x.key = y.key
               => x = y
    BY DEF IsAction
  <2> QED BY <2>1, <2>2, <2>3, <2>4, <2>5
<1> QED BY <1>1, <1>2, <1>3

LEMMA OnlyVouts ==
  ASSUME NEW S, NEW m, JoinedVouts(S, m), List(m.outputs), NEW n, JoinedVouts(S, n), List(n.outputs)
  PROVE  m.outputs = n.outputs
<1>1. /\ m.outputs = [i \in DOMAIN m.outputs |-> m.outputs[i]]
      /\ n.outputs = [i \in DOMAIN n.outputs |-> n.outputs[i]]
  BY ListIs
<1>2. DOMAIN m.outputs = DOMAIN n.outputs
  <2>1. \A i : i \in DOMAIN m.outputs <=> i \in DOMAIN n.outputs
    BY DEF JoinedVouts
  <2> QED BY <1>1, <2>1
<1>3. ASSUME NEW i \in DOMAIN m.outputs PROVE m.outputs[i] = n.outputs[i]
  <2>1. PICK x \in S : i \in DOMAIN x.outputs
    BY DEF JoinedVouts
  <2> QED BY <1>2, <2>1 DEF JoinedVouts
<1> QED BY <1>1, <1>2, <1>3

LEMMA KeylessIs ==
  ASSUME NEW p, Shape(p)
  PROVE  Keyless(p) =
           [flags |-> p.flags, inputs |-> p.inputs, outputs |-> p.outputs,
            sapling |-> [spends |-> p.sapling.spends, outs |-> p.sapling.outs, sum |-> p.sapling.sum,
                         anchor |-> p.sapling.anchor, bsk |-> {}],
            orchard |-> [actions |-> p.orchard.actions, sum |-> p.orchard.sum,
                         anchor |-> p.orchard.anchor, proof |-> p.orchard.proof, bsk |-> {}]]
<1> DEFINE x == [p EXCEPT !.sapling.bsk = {}]
           y == [x EXCEPT !.orchard.bsk = {}]
<1>1. Keyless(p) = y
  BY DEF Keyless
<1>2. /\ x.flags = p.flags /\ x.inputs = p.inputs /\ x.outputs = p.outputs
      /\ x.sapling = [spends |-> p.sapling.spends, outs |-> p.sapling.outs, sum |-> p.sapling.sum,
                      anchor |-> p.sapling.anchor, bsk |-> {}]
      /\ x.orchard = p.orchard
      /\ x = [flags |-> x.flags, inputs |-> x.inputs, outputs |-> x.outputs,
              sapling |-> x.sapling, orchard |-> x.orchard]
  BY DEF Shape, IsSapling
<1> HIDE DEF x
<1>3. /\ y.flags = p.flags /\ y.inputs = p.inputs /\ y.outputs = p.outputs
      /\ y.sapling = x.sapling
      /\ y.orchard = [actions |-> p.orchard.actions, sum |-> p.orchard.sum,
                      anchor |-> p.orchard.anchor, proof |-> p.orchard.proof, bsk |-> {}]
      /\ y = [flags |-> y.flags, inputs |-> y.inputs, outputs |-> y.outputs,
              sapling |-> y.sapling, orchard |-> y.orchard]
  BY <1>2 DEF Shape, IsOrchard
<1> HIDE DEF y
<1> QED BY <1>1, <1>2, <1>3

\* There is one such copy, but for the binding keys.
LEMMA JoinedOnce ==
  ASSUME NEW S, NEW m, Joined(S, m), Fit(m), NEW n, Joined(S, n), Fit(n)
  PROVE  Keyless(m) = Keyless(n)
<1>1. Shape(m) /\ Shape(n) /\ Sums(m) /\ Sums(n)
  BY DEF Fit
<1>2. m.inputs = n.inputs
  BY <1>1, OnlyInputs DEF Joined, Shape
<1>3. m.outputs = n.outputs
  BY <1>1, OnlyVouts DEF Joined, Shape
<1>4. m.sapling.spends = n.sapling.spends
  BY <1>1, OnlySpends DEF Joined, Shape, IsSapling
<1>5. m.sapling.outs = n.sapling.outs
  BY <1>1, OnlyOutputs DEF Joined, Shape, IsSapling
<1>6. m.orchard.actions = n.orchard.actions
  BY <1>1, OnlyActions DEF Joined, Shape, IsOrchard
<1>7. m.sapling.sum = n.sapling.sum /\ m.orchard.sum = n.orchard.sum
  BY <1>1, <1>4, <1>5, <1>6 DEF Sums, SaplingSum, OrchardSum, SapOuts
<1>8. /\ \A f : f \in m.flags <=> f \in n.flags
      /\ \A a : a \in m.sapling.anchor <=> a \in n.sapling.anchor
      /\ \A a : a \in m.orchard.anchor <=> a \in n.orchard.anchor
      /\ \A a : a \in m.orchard.proof <=> a \in n.orchard.proof
  BY DEF Joined, JoinedHeads
<1>9. /\ m.flags = n.flags /\ m.sapling.anchor = n.sapling.anchor
      /\ m.orchard.anchor = n.orchard.anchor /\ m.orchard.proof = n.orchard.proof
  BY <1>8
<1>10. Keyless(m) = Keyless(n)
  BY <1>1, <1>2, <1>3, <1>4, <1>5, <1>6, <1>7, <1>9, KeylessIs
<1> QED BY <1>10

LEMMA FoldedIs ==
  ASSUME NEW p, Good(p), NEW q, Good(q), NEW r, Good(r), NEW k \in Folded(p, q, r)
  PROVE  \E m : k = Keyless(m) /\ Fit(m) /\ Joined({p, q, r}, m)
<1> DEFINE x == Merge(p, q)
           m == Merge(x, r)
<1>1. Mergeable(p, q) /\ Mergeable(x, r) /\ k = Keyless(m)
  BY Zenon DEF Folded
<1>2. Good(x) /\ Joined({p} \cup {q}, x)
  <2>1. Good(x)
    BY <1>1, MergeGood
  <2>2. Merged(p, q, x)
    BY <1>1, MergeIs DEF Good, Fit
  <2>3. Joined({p}, p) /\ Joined({q}, q)
    BY JoinedOne DEF Good, Fit
  <2> HIDE DEF x
  <2> QED BY <2>1, <2>2, <2>3, Join
<1> HIDE DEF x
<1>3. Good(m) /\ Joined(({p} \cup {q}) \cup {r}, m)
  <2>1. Good(m)
    BY <1>1, <1>2, MergeGood
  <2>2. Merged(x, r, m)
    BY <1>1, <1>2, MergeIs DEF Good, Fit
  <2>3. Joined({r}, r)
    BY JoinedOne DEF Good, Fit
  <2> HIDE DEF m
  <2> QED BY <1>2, <2>1, <2>2, <2>3, Join
<1> HIDE DEF m
<1>4. ({p} \cup {q}) \cup {r} = {p, q, r}
  OBVIOUS
<1> QED BY <1>1, <1>3, <1>4 DEF Good, Fit

\* In whatever order the Combiner is given copies, it makes the same of them if it does not
\* refuse (combiner/mod.rs), and that with no hypothesis on the constants.
THEOREM OrderOfCombining == Spec => []CombineOrder
<1>1. IInv => CombineOrder
  <2> SUFFICES ASSUME IInv, NEW p \in Copies, NEW q \in Copies, NEW r \in Copies \ {q},
                      NEW k \in Folded(p, q, r) \cup Folded(p, r, q) \cup Folded(q, p, r) \cup Folded(q, r, p),
                      NEW h \in Folded(p, q, r) \cup Folded(p, r, q) \cup Folded(q, p, r) \cup Folded(q, r, p)
               PROVE  k = h
    BY Zenon DEF CombineOrder, AtMostOne
  <2>1. Good(p) /\ Good(q) /\ Good(r)
    BY DEF IInv
  <2>2. ASSUME NEW g \in Folded(p, q, r) \cup Folded(p, r, q) \cup Folded(q, p, r) \cup Folded(q, r, p)
        PROVE  \E m : g = Keyless(m) /\ Fit(m) /\ Joined({p, q, r}, m)
    <3>1. {p, r, q} = {p, q, r} /\ {q, p, r} = {p, q, r} /\ {q, r, p} = {p, q, r}
      OBVIOUS
    <3>2. CASE g \in Folded(p, q, r)
      BY <2>1, <3>2, FoldedIs
    <3>3. CASE g \in Folded(p, r, q)
      BY <2>1, <3>1, <3>3, FoldedIs
    <3>4. CASE g \in Folded(q, p, r)
      BY <2>1, <3>1, <3>4, FoldedIs
    <3>5. CASE g \in Folded(q, r, p)
      BY <2>1, <3>1, <3>5, FoldedIs
    <3> QED BY <3>2, <3>3, <3>4, <3>5
  <2>3. PICK m : k = Keyless(m) /\ Fit(m) /\ Joined({p, q, r}, m)
    BY <2>2
  <2>4. PICK n : h = Keyless(n) /\ Fit(n) /\ Joined({p, q, r}, n)
    BY <2>2
  <2> QED BY <2>3, <2>4, JoinedOnce
<1> QED BY <1>1, Invariant, PTL

=============================================================================
