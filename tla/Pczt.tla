-------------------------------- MODULE Pczt --------------------------------
(* A partially created transaction and what is computed of one: the effects  *)
(* that a signature commits to, the lock time, and the Combiner's merge of   *)
(* two copies.                                                               *)
(*                                                                           *)
(* An optional field is a set of at most one element and a map is a set of   *)
(* records with a key, so that merging either is a union that may fail. The  *)
(* items of a bundle are named by the data that every copy must agree on (a  *)
(* coin, a note, an output); of their optional fields only those that        *)
(* authorize something are kept. There is one Orchard bundle: the Ironwood   *)
(* bundle goes through the same code.                                        *)
EXTENDS Integers, Sequences, FiniteSets

CONSTANTS
  SighashOf,   \* the sighash_type of a coin's input: its kind, and whether ANYONECANPAY
  TimeLock,    \* the required_time_lock_time of a coin's input: a set of at most one
  HeightLock,  \* the required_height_lock_time, likewise
  Deferred     \* whether the format lets anchors be set late, and signs without them (v6)

ASSUME PcztAssumption ==
  /\ SighashOf \in [DOMAIN SighashOf -> [kind : {"all", "none", "single"}, anyone : BOOLEAN]]
  /\ TimeLock \in [DOMAIN SighashOf -> SUBSET Nat]
  /\ HeightLock \in [DOMAIN SighashOf -> SUBSET Nat]
  /\ Deferred \in BOOLEAN

Modifiable == {"inputs", "outputs", "shielded"}
Flags == Modifiable \cup {"single"}

-----------------------------------------------------------------------------
\* Items as a Constructor adds them, without anything that authorizes them.

NewInput(c)  == [coin |-> c, time |-> TimeLock[c], height |-> HeightLock[c],
                 sigs |-> {}, script |-> {}]
NewSpend(n, dummy) == [note |-> n, sig |-> {}, proof |-> {}, key |-> IF dummy THEN {"ask"} ELSE {}]
NewSaplingOutput(o) == [out |-> o, proof |-> {}]
NewAction(n, dummy) == [note |-> n, sig |-> {}, key |-> IF dummy THEN {"sk"} ELSE {}]

Coins(p)   == [i \in DOMAIN p.inputs |-> p.inputs[i].coin]
Notes(s)   == [i \in DOMAIN s |-> s[i].note]
SapOuts(p) == [i \in DOMAIN p.sapling.outs |-> p.sapling.outs[i].out]

\* What a value sum is the sum of.
SaplingSum(p) == <<Notes(p.sapling.spends), SapOuts(p)>>
OrchardSum(p) == Notes(p.orchard.actions)

-----------------------------------------------------------------------------
(* determine_lock_time. An input that requires both kinds of lock time counts *)
(* against both; {} stands for the None that makes extraction fail.           *)

Latest(s) == {CHOOSE t \in s : \A u \in s : u <= t}
LockTime(p) ==
  LET times   == UNION {p.inputs[i].time : i \in DOMAIN p.inputs}
      heights == UNION {p.inputs[i].height : i \in DOMAIN p.inputs}
  IN  CASE times # {} /\ heights # {} -> {}
        [] times # {} /\ heights = {} -> Latest(times)
        [] times = {} /\ heights # {} -> Latest(heights)
        [] OTHER -> {0}

\* The anchors that are signed: before v6 those of what is spent.
SignedAnchors(p) ==
  IF Deferred THEN <<>>
  ELSE <<IF p.sapling.spends = <<>> THEN {} ELSE p.sapling.anchor,
         IF p.orchard.actions = <<>> THEN {} ELSE p.orchard.anchor>>

\* What shielded signatures commit to, and transparent ones beside inputs and outputs.
Shielded(p) ==
  [spends |-> Notes(p.sapling.spends), outs |-> SapOuts(p), actions |-> Notes(p.orchard.actions),
   sums |-> <<p.sapling.sum, p.orchard.sum>>, lock |-> LockTime(p),
   anchors |-> SignedAnchors(p)]

\* shielded_sighash: everything, as one term.
ShieldedSighash(p) == [of |-> "shielded", ins |-> Coins(p), vouts |-> p.outputs,
                       rest |-> Shielded(p)]

\* The digest for input n: transparent_sig_digest.
TransparentSighash(p, n) ==
  LET t == SighashOf[p.inputs[n].coin]
  IN  [of    |-> <<p.inputs[n].coin, t>>,
       ins   |-> IF t.anyone THEN <<>> ELSE Coins(p),
       vouts |-> CASE t.kind = "all" -> p.outputs
                   [] t.kind = "none" -> <<>>
                   [] t.kind = "single" -> IF n <= Len(p.outputs) THEN <<p.outputs[n]>> ELSE <<>>,
       rest  |-> Shielded(p)]

\* Anchors may be missing from empty bundles only.
Anchored(p) ==
  /\ p.sapling.anchor = {} => p.sapling.spends = <<>> /\ p.sapling.outs = <<>>
  /\ p.orchard.anchor = {} => p.orchard.actions = <<>>

\* extract_tx_data, as the Signer and the IO Finalizer use it: before v6 the anchors are needed.
Parses(p) ==
  /\ LockTime(p) # {}
  /\ ~Deferred => Anchored(p)

-----------------------------------------------------------------------------
(* The Combiner's merge of two copies. Mergeable says when it succeeds.      *)

AtMostOne(s)   == \A x, y \in s : x = y
OnePerKey(s)   == \A x, y \in s : x.key = y.key => x = y

MayGrowLeft(l, r, lm, rm) == Len(l) < Len(r) => lm  \* a defect: the other copy's flags ignored

\* A longer list may be taken over only where both copies' flags still allow it to grow.
MayGrow(l, r, lm, rm) == /\ Len(l) < Len(r) => lm
                         /\ Len(l) > Len(r) => rm
Both(l, r)  == DOMAIN l \cap DOMAIN r
Zip(l, r, M(_, _)) ==
  [i \in DOMAIN l \cup DOMAIN r |->
     IF i \in Both(l, r) THEN M(l[i], r[i]) ELSE IF i \in DOMAIN l THEN l[i] ELSE r[i]]
First(l, r) == l

InputsAgree(l, r) ==
  /\ l.coin = r.coin
  /\ AtMostOne(l.time \cup r.time) /\ AtMostOne(l.height \cup r.height)
  /\ AtMostOne(l.script \cup r.script)
  /\ OnePerKey(l.sigs \cup r.sigs)
MergeInput(l, r) ==
  [l EXCEPT !.time = @ \cup r.time, !.height = @ \cup r.height,
            !.sigs = @ \cup r.sigs, !.script = @ \cup r.script]

SpendsAgree(l, r) ==
  l.note = r.note /\ AtMostOne(l.sig \cup r.sig) /\ AtMostOne(l.proof \cup r.proof)
MergeSpend(l, r) == [l EXCEPT !.sig = @ \cup r.sig, !.proof = @ \cup r.proof, !.key = @ \cup r.key]

OutputsAgree(l, r) == l.out = r.out /\ AtMostOne(l.proof \cup r.proof)
MergeOutput(l, r) == [l EXCEPT !.proof = @ \cup r.proof]

ActionsAgree(l, r) == l.note = r.note /\ AtMostOne(l.sig \cup r.sig)
MergeAction(l, r) == [l EXCEPT !.sig = @ \cup r.sig, !.key = @ \cup r.key]

\* Two sapling bundles: with a binding signature key nothing may grow; without, not both ways.
SaplingMergeable(l, r, lm, rm) ==
  /\ IF l.bsk \cup r.bsk # {}
     THEN /\ AtMostOne(l.bsk \cup r.bsk)
          /\ Len(l.spends) = Len(r.spends) /\ Len(l.outs) = Len(r.outs) /\ l.sum = r.sum
     ELSE /\ ~(Len(l.spends) < Len(r.spends) /\ Len(l.outs) > Len(r.outs))
          /\ ~(Len(l.spends) > Len(r.spends) /\ Len(l.outs) < Len(r.outs))
          /\ MayGrow(l.spends, r.spends, lm, rm) /\ MayGrow(l.outs, r.outs, lm, rm)
  /\ AtMostOne(l.anchor \cup r.anchor)
  /\ \A i \in Both(l.spends, r.spends) : SpendsAgree(l.spends[i], r.spends[i])
  /\ \A i \in Both(l.outs, r.outs) : OutputsAgree(l.outs[i], r.outs[i])

MergeSaplingKept(l, r) ==  \* a defect: the value sum is never taken over
  [spends |-> Zip(l.spends, r.spends, MergeSpend), outs |-> Zip(l.outs, r.outs, MergeOutput),
   sum |-> l.sum, anchor |-> l.anchor \cup r.anchor, bsk |-> l.bsk]

\* The key of r is compared with that of l, and then left behind.
MergeSapling(l, r) ==
  [spends |-> Zip(l.spends, r.spends, MergeSpend), outs |-> Zip(l.outs, r.outs, MergeOutput),
   sum |-> IF Len(l.spends) < Len(r.spends) \/ Len(l.outs) < Len(r.outs) THEN r.sum ELSE l.sum,
   anchor |-> l.anchor \cup r.anchor, bsk |-> l.bsk]

OrchardMergeable(l, r, lm, rm) ==
  /\ IF l.bsk \cup r.bsk # {}
     THEN AtMostOne(l.bsk \cup r.bsk) /\ Len(l.actions) = Len(r.actions) /\ l.sum = r.sum
     ELSE MayGrow(l.actions, r.actions, lm, rm)
  /\ AtMostOne(l.anchor \cup r.anchor) /\ AtMostOne(l.proof \cup r.proof)
  /\ \A i \in Both(l.actions, r.actions) : ActionsAgree(l.actions[i], r.actions[i])
MergeOrchard(l, r) ==
  [actions |-> Zip(l.actions, r.actions, MergeAction),
   sum |-> IF Len(l.actions) < Len(r.actions) THEN r.sum ELSE l.sum,
   anchor |-> l.anchor \cup r.anchor, proof |-> l.proof \cup r.proof, bsk |-> l.bsk]

MergeFlagsFirst(l, r) == l  \* a defect: the flags of one copy

MergeFlags(l, r) == (l \cap r \cap Modifiable) \cup ((l \cup r) \ Modifiable)

TransparentMergeable(l, r) ==
  /\ MayGrow(l.inputs, r.inputs, "inputs" \in l.flags, "inputs" \in r.flags)
  /\ MayGrow(l.outputs, r.outputs, "outputs" \in l.flags, "outputs" \in r.flags)
  /\ \A i \in Both(l.inputs, r.inputs) : InputsAgree(l.inputs[i], r.inputs[i])
  /\ \A i \in Both(l.outputs, r.outputs) : l.outputs[i] = r.outputs[i]

Mergeable(l, r) ==
  /\ TransparentMergeable(l, r)
  /\ SaplingMergeable(l.sapling, r.sapling, "shielded" \in l.flags, "shielded" \in r.flags)
  /\ OrchardMergeable(l.orchard, r.orchard, "shielded" \in l.flags, "shielded" \in r.flags)
Merge(l, r) ==
  [flags   |-> MergeFlags(l.flags, r.flags),
   inputs  |-> Zip(l.inputs, r.inputs, MergeInput),
   outputs |-> Zip(l.outputs, r.outputs, First),
   sapling |-> MergeSapling(l.sapling, r.sapling),
   orchard |-> MergeOrchard(l.orchard, r.orchard)]
=============================================================================
