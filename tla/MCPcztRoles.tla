---------------------------- MODULE MCPcztRoles -----------------------------
EXTENDS PcztRoles, TLC

CONSTANTS
  d1, d2, d3, c1, c2, c3, o1, o2, n1, n2, s1, a1, a2, k1, k2, k3, r1, r2

\* One signer of two for each way a signature leaves the transaction open.
Type(kind, anyone) == [kind |-> kind, anyone |-> anyone]
Types     == c1 :> Type("all", FALSE) @@ c2 :> Type("single", TRUE) @@ c3 :> Type("none", TRUE)
NoLocks   == [c \in {c1, c2, c3} |-> {}]
Locks     == [NoLocks EXCEPT ![c1] = {2}]
Keys      == c1 :> <<k1, k2>> @@ c2 :> <<k3>> @@ c3 :> <<k3>>
Threshold == c1 :> 2 @@ c2 :> 1 @@ c3 :> 1

\* Transactions that each bring a few of the hazards together; three copies of the smaller ones.
None == [devices |-> 2, built |-> FALSE, coins |-> <<>>, outputs |-> <<>>,
         spends |-> <<>>, outs |-> <<>>, actions |-> <<>>]
Transparent == [None EXCEPT !.coins = <<c1, c2>>, !.outputs = <<o1>>]
Inputs      == [None EXCEPT !.coins = <<c2, c3>>]
Single      == [None EXCEPT !.coins = <<c2>>, !.outputs = <<o1>>, !.devices = 3]
Outputs     == [None EXCEPT !.coins = <<c3>>, !.outputs = <<o1, o2>>]
Multisig    == [None EXCEPT !.built = TRUE, !.coins = <<c1>>, !.outputs = <<o1>>, !.devices = 3]
Mixed       == [None EXCEPT !.coins = <<c3>>, !.spends = <<n1>>]
Sapling     == [None EXCEPT !.built = TRUE, !.spends = <<n1>>, !.outs = <<s1>>, !.devices = 3]
SaplingFake == [None EXCEPT !.spends = <<n1, n2>>, !.outs = <<s1>>]
Orchard     == [None EXCEPT !.actions = <<a1>>, !.devices = 3]
OrchardFake == [None EXCEPT !.actions = <<a1, a2>>]
Transactions == {Transparent, Inputs, Single, Outputs, Multisig, Mixed, Sapling, SaplingFake,
                 Orchard, OrchardFake}
LockedCoin   == {Transparent}
DummyNotes == {n2, a2}

Symmetry == Permutations(Devices) \cup Permutations(Anchors)
=============================================================================
