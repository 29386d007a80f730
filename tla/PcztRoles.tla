------------------------------ MODULE PcztRoles ------------------------------
(* One transaction in several copies: devices that play the PCZT roles, pass *)
(* copies on and combine them in any order. Every action is one role's       *)
(* operation on the copy its device holds. Roles refuse by returning an      *)
(* error, which leaves the copy as it was.                                   *)
(*                                                                           *)
(* The Constructor has no implementation in the crate; it is taken from the  *)
(* documentation of the roles. A signature, a proof and a binding key are    *)
(* known by what they are for, and by a draw where they are randomised.      *)
EXTENDS Pczt

CONSTANTS
  Devices,
  Offers,       \* the transactions to choose from: coins, outputs, notes, whether the Builder made
                \* it whole, and how many devices hold a copy
  Dummies,      \* the notes that are dummies
  Signers,      \* Signers[c]: the keys that may sign for coin c, in the order of its script
  Required,     \* Required[c]: how many of them must
  Anchors,      \* the anchors an Updater may choose from
  ProveEarly,   \* whether Orchard proofs are made while actions may still be added
  RedactProven, \* whether an anchor is redacted under a proof
  MaxDraws      \* bound on the randomised signatures and proofs

Ran(s) == {s[i] : i \in DOMAIN s}

ASSUME RolesAssumption ==
  /\ Required \in [DOMAIN SighashOf -> Nat \ {0}]
  /\ \A c \in DOMAIN SighashOf : Required[c] <= Len(Signers[c])
  /\ ProveEarly \in BOOLEAN /\ RedactProven \in BOOLEAN /\ MaxDraws \in Nat
  /\ \A o \in Offers :
       \A s \in {o.coins, o.outputs, o.spends, o.outs, o.actions} : s \in Seq(Ran(s))
  /\ \A o \in Offers : \A i \in DOMAIN o.coins :
       o.coins[i] \in DOMAIN SighashOf /\ (o.built => TimeLock[o.coins[i]] \cup HeightLock[o.coins[i]] = {})

VARIABLES
  held,   \* the copy each device holds: a set of at most one
  offer,  \* the transaction under construction
  drawn   \* how many signatures and proofs were randomised

vars == <<held, offer, drawn>>

Holds(d, p) == held[d] = {p}
Becomes(d, p) == held' = [held EXCEPT ![d] = {p}] /\ UNCHANGED offer
Draw == drawn < MaxDraws /\ drawn' = drawn + 1
Copies == UNION {held[d] : d \in Devices}

-----------------------------------------------------------------------------
(* Creator.                                                                  *)

Start == IF Deferred THEN {} ELSE {CHOOSE a \in Anchors : TRUE}

\* Creator::build.
Empty ==
  [flags |-> Modifiable, inputs |-> <<>>, outputs |-> <<>>,
   sapling |-> [spends |-> <<>>, outs |-> <<>>, sum |-> <<<<>>, <<>>>>, anchor |-> Start, bsk |-> {}],
   orchard |-> [actions |-> <<>>, sum |-> <<>>, anchor |-> Start, proof |-> {}, bsk |-> {}]]

\* Creator::build_from_parts: everything is there, and nothing may be added.
Parts(o) ==
  [flags   |-> IF \E c \in Ran(o.coins) : SighashOf[c].kind = "single" THEN {"single"} ELSE {},
   inputs  |-> [i \in DOMAIN o.coins |-> NewInput(o.coins[i])],
   outputs |-> o.outputs,
   sapling |-> [spends |-> [i \in DOMAIN o.spends |-> NewSpend(o.spends[i], o.spends[i] \in Dummies)],
                outs   |-> [i \in DOMAIN o.outs |-> NewSaplingOutput(o.outs[i])],
                sum    |-> <<o.spends, o.outs>>, anchor |-> Start, bsk |-> {}],
   orchard |-> [actions |-> [i \in DOMAIN o.actions |-> NewAction(o.actions[i], o.actions[i] \in Dummies)],
                sum |-> o.actions, anchor |-> Start, proof |-> {}, bsk |-> {}]]

Create(d) ==
  /\ Copies = {}
  /\ Becomes(d, IF offer.built THEN Parts(offer) ELSE Empty)
  /\ UNCHANGED drawn

-----------------------------------------------------------------------------
(* Constructor: appends what the flags still allow.                          *)

AddInput(d, p) ==
  \E c \in Ran(offer.coins) \ Ran(Coins(p)) :
    /\ "inputs" \in p.flags
    /\ Becomes(d, [p EXCEPT !.inputs = Append(@, NewInput(c))])
    /\ UNCHANGED drawn

AddOutput(d, p) ==
  \E o \in Ran(offer.outputs) \ Ran(p.outputs) :
    /\ "outputs" \in p.flags
    /\ Becomes(d, [p EXCEPT !.outputs = Append(@, o)])
    /\ UNCHANGED drawn

AddSaplingSpend(d, p) ==
  \E n \in Ran(offer.spends) \ Ran(Notes(p.sapling.spends)) :
    /\ "shielded" \in p.flags
    /\ Becomes(d, [p EXCEPT !.sapling.spends = Append(@, NewSpend(n, n \in Dummies)),
                            !.sapling.sum[1] = Append(@, n)])
    /\ UNCHANGED drawn

AddSaplingOutput(d, p) ==
  \E o \in Ran(offer.outs) \ Ran(SapOuts(p)) :
    /\ "shielded" \in p.flags
    /\ Becomes(d, [p EXCEPT !.sapling.outs = Append(@, NewSaplingOutput(o)),
                            !.sapling.sum[2] = Append(@, o)])
    /\ UNCHANGED drawn

AddAction(d, p) ==
  \E n \in Ran(offer.actions) \ Ran(Notes(p.orchard.actions)) :
    /\ "shielded" \in p.flags
    /\ Becomes(d, [p EXCEPT !.orchard.actions = Append(@, NewAction(n, n \in Dummies)),
                            !.orchard.sum = Append(@, n)])
    /\ UNCHANGED drawn

-----------------------------------------------------------------------------
(* Updater and Redactor.                                                     *)

SaplingProven(p) == \E i \in DOMAIN p.sapling.spends : p.sapling.spends[i].proof # {}

SetAnchor(d, p) ==
  \E a \in Anchors :
    /\ Deferred
    /\ \/ /\ offer.spends \o offer.outs # <<>>
          /\ ~SaplingProven(p) /\ AtMostOne(p.sapling.anchor \cup {a})
          /\ Becomes(d, [p EXCEPT !.sapling.anchor = {a}])
       \/ /\ offer.actions # <<>>
          /\ p.orchard.proof = {} /\ AtMostOne(p.orchard.anchor \cup {a})
          /\ Becomes(d, [p EXCEPT !.orchard.anchor = {a}])
    /\ UNCHANGED drawn

Bare(x) == [x EXCEPT !.sig = {}]
Unsigned(in) == [in EXCEPT !.sigs = {}]
Unproven(x) == [x EXCEPT !.proof = {}]
Each(s, F(_)) == [i \in DOMAIN s |-> F(s[i])]

WithoutSigs(p) ==
  [p EXCEPT !.inputs = Each(@, Unsigned), !.sapling.spends = Each(@, Bare),
            !.orchard.actions = Each(@, Bare)]
WithoutProofs(p) ==
  [p EXCEPT !.sapling.spends = Each(@, Unproven), !.sapling.outs = Each(@, Unproven),
            !.orchard.proof = {}]

Redact(d, p) ==
  /\ \/ Becomes(d, WithoutSigs(p))
     \/ Becomes(d, WithoutProofs(p))
     \/ Becomes(d, [p EXCEPT !.sapling.bsk = {}, !.orchard.bsk = {}])
     \/ /\ (~SaplingProven(p) /\ p.orchard.proof = {}) \/ RedactProven
        /\ Becomes(d, [p EXCEPT !.sapling.anchor = {}, !.orchard.anchor = {}])
  /\ UNCHANGED drawn

-----------------------------------------------------------------------------
(* IO Finalizer, Prover.                                                     *)

HasOrchard(p)  == p.orchard.actions # <<>>
HasShielded(p) == p.sapling.spends # <<>> \/ p.sapling.outs # <<>> \/ HasOrchard(p)

\* Dummies sign what the other spends will, with keys the finalizer then erases.
SignDummies(s, p) ==
  [i \in DOMAIN s |-> IF s[i].key = {} THEN s[i]
                      ELSE [s[i] EXCEPT !.sig = {[over |-> ShieldedSighash(p), draw |-> drawn]},
                                        !.key = {}]]

HasDummy(s) == \E i \in DOMAIN s : s[i].key # {}

FinalizeIo(d, p) ==
  /\ p.inputs # <<>> \/ p.sapling.spends # <<>> \/ HasOrchard(p)
  /\ p.outputs # <<>> \/ p.sapling.outs # <<>> \/ HasOrchard(p)
  /\ Parses(p) /\ p.sapling.sum = SaplingSum(p) /\ p.orchard.sum = OrchardSum(p)
  /\ Becomes(d,
       [p EXCEPT !.flags = IF HasShielded(p) THEN @ \ Modifiable ELSE @,
                 !.sapling.bsk = {SaplingSum(p)}, !.sapling.spends = SignDummies(@, p),
                 !.orchard.bsk = IF HasOrchard(p) THEN {OrchardSum(p)} ELSE @,
                 !.orchard.actions = SignDummies(@, p)])
  /\ IF HasDummy(p.sapling.spends) \/ HasDummy(p.orchard.actions) THEN Draw ELSE UNCHANGED drawn

ProveSapling(d, p) ==
  LET Spend(x)  == [x EXCEPT !.proof = {[for |-> p.sapling.anchor, draw |-> drawn]}]
      Output(x) == [x EXCEPT !.proof = {[for |-> {}, draw |-> drawn]}]
  IN  /\ p.sapling.anchor # {} /\ p.sapling.spends \o p.sapling.outs # <<>>
      /\ Becomes(d, [p EXCEPT !.sapling.spends = Each(@, Spend), !.sapling.outs = Each(@, Output)])
      /\ Draw

OrchardProof(p) == [for |-> <<p.orchard.anchor, OrchardSum(p)>>, draw |-> drawn]
ProveOrchard(d, p) ==
  /\ p.orchard.anchor # {} /\ HasOrchard(p)
  /\ ProveEarly \/ "shielded" \notin p.flags
  /\ Becomes(d, [p EXCEPT !.orchard.proof = {OrchardProof(p)}])
  /\ Draw

-----------------------------------------------------------------------------
(* Signer and Spend Finalizer.                                               *)

\* generate_or_append_transparent_signature: what the flags still allow depends on the type.
SignedFlags(flags, t) ==
  ((flags \ {"shielded"})
     \ ((IF t.anyone THEN {} ELSE {"inputs"}) \cup (IF t.kind = "none" THEN {} ELSE {"outputs"})))
  \cup (IF t.kind = "single" THEN {"single"} ELSE {})

SignTransparent(d, p) ==
  \E n \in DOMAIN p.inputs :
    LET c == p.inputs[n].coin
    IN  /\ Parses(p)
        /\ \E k \in Ran(Signers[c]) :
             LET sig == [key |-> k, over |-> TransparentSighash(p, n)]
             IN  Becomes(d, [p EXCEPT
                   !.inputs[n].sigs = {s \in @ : s.key # k} \cup {sig},
                   !.flags = SignedFlags(@, SighashOf[c])])
        /\ UNCHANGED drawn

\* A dummy has no key but the one the IO Finalizer uses.
SignShielded(d, p) ==
  LET sig == [over |-> ShieldedSighash(p), draw |-> drawn]
  IN  /\ Parses(p)
      /\ \/ \E i \in DOMAIN p.sapling.spends :
              /\ p.sapling.spends[i].note \notin Dummies
              /\ Becomes(d, [p EXCEPT !.sapling.spends[i].sig = {sig}, !.flags = @ \ Modifiable])
         \/ \E i \in DOMAIN p.orchard.actions :
              /\ p.orchard.actions[i].note \notin Dummies
              /\ Becomes(d, [p EXCEPT !.orchard.actions[i].sig = {sig}, !.flags = @ \ Modifiable])
      /\ Draw

\* The signatures for the script: the first of its keys that signed, as many as it requires.
Chosen(in) ==
  LET keys  == Signers[in.coin]
      signed == {i \in DOMAIN keys : \E s \in in.sigs : s.key = keys[i]}
      first == {i \in signed : Cardinality({j \in signed : j <= i}) <= Required[in.coin]}
  IN  {s \in in.sigs : \E i \in first : keys[i] = s.key}

Finalized(in) == [in EXCEPT !.script = {Chosen(in)}, !.sigs = {}, !.time = {}, !.height = {}]

FinalizeSpends(d, p) ==
  /\ \A n \in DOMAIN p.inputs : Cardinality(Chosen(p.inputs[n])) = Required[p.inputs[n].coin]
  /\ Becomes(d, [p EXCEPT !.inputs = Each(@, Finalized)])
  /\ UNCHANGED drawn

-----------------------------------------------------------------------------
(* Copies are passed on, and combined.                                       *)

Send(d, p) ==
  \E e \in Devices \ {d} :
    /\ Cardinality({f \in Devices : held[f] # {}} \cup {e}) <= offer.devices
    /\ Becomes(e, p)
    /\ UNCHANGED drawn

Combine(d, p) ==
  \E e \in Devices \ {d} : \E q \in held[e] :
    /\ \/ Mergeable(p, q) /\ Becomes(d, Merge(p, q))
       \/ Mergeable(q, p) /\ Becomes(d, Merge(q, p))
    /\ UNCHANGED drawn

Init == held = [d \in Devices |-> {}] /\ offer \in Offers /\ drawn = 0

Act(d, p) ==
  \/ AddInput(d, p) \/ AddOutput(d, p)
  \/ AddSaplingSpend(d, p) \/ AddSaplingOutput(d, p) \/ AddAction(d, p)
  \/ SetAnchor(d, p) \/ Redact(d, p)
  \/ FinalizeIo(d, p) \/ ProveSapling(d, p) \/ ProveOrchard(d, p)
  \/ SignTransparent(d, p) \/ SignShielded(d, p) \/ FinalizeSpends(d, p)
  \/ Send(d, p) \/ Combine(d, p)
Next == \E d \in Devices : Create(d) \/ \E p \in held[d] : Act(d, p)

Spec == Init /\ [][Next]_vars

-----------------------------------------------------------------------------
(* Properties.                                                               *)

\* The flags that signatures clear (signer/mod.rs) and that Constructors and the Combiner honour
\* suffice: whatever the roles did, in whatever order and on whatever copies, every signature in a
\* copy is over what the copy would now become.
SignaturesValid ==
  \A p \in Copies : Parses(p) =>
    /\ \A n \in DOMAIN p.inputs : \A s \in p.inputs[n].sigs \cup UNION p.inputs[n].script :
         s.over = TransparentSighash(p, n)
    /\ \A i \in DOMAIN p.sapling.spends : \A s \in p.sapling.spends[i].sig : s.over = ShieldedSighash(p)
    /\ \A i \in DOMAIN p.orchard.actions : \A s \in p.orchard.actions[i].sig : s.over = ShieldedSighash(p)

\* What a bundle carries of its items as a whole stays theirs as anchors are set late and redacted
\* and copies are combined: a proof is for the anchor of its copy, the Orchard one for all of the
\* actions, and the value sum a merge takes over is that of the merged items ("at least one of the
\* two value sums is correct and we can use it directly", sapling.rs:320).
BundlesFit ==
  \A p \in Copies :
    /\ \A i \in DOMAIN p.sapling.spends : \A f \in p.sapling.spends[i].proof : f.for = p.sapling.anchor
    /\ \A f \in p.orchard.proof : f.for = <<p.orchard.anchor, OrchardSum(p)>>
    /\ p.sapling.sum = SaplingSum(p) /\ p.orchard.sum = OrchardSum(p)

\* The Combiner folds its copies in the order it is given them (combiner/mod.rs): any two orders of
\* three copies that both succeed give one result, the binding keys aside.
Keyless(p) == [p EXCEPT !.sapling.bsk = {}, !.orchard.bsk = {}]
Folded(p, q, r) == IF Mergeable(p, q) /\ Mergeable(Merge(p, q), r)
                   THEN {Keyless(Merge(Merge(p, q), r))} ELSE {}
CombineOrder ==
  \A p \in Copies : \A q \in Copies : \A r \in Copies \ {q} :
    AtMostOne(Folded(p, q, r) \cup Folded(p, r, q) \cup Folded(q, p, r) \cup Folded(q, r, p))

\* "The minimum Unix timstamp that this input requires to be set as the transaction's lock time"
\* (transparent.rs:60): no copy has a lock time below one that an input was added with.
LockTimeHonoured ==
  \A p \in Copies : \A n \in DOMAIN p.inputs :
    \A t \in TimeLock[p.inputs[n].coin] \cup HeightLock[p.inputs[n].coin] :
      \A u \in LockTime(p) : u >= t
=============================================================================
