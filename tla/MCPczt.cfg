SPECIFICATION Spec
CONSTANTS
  d1 = d1
  d2 = d2
  d3 = d3
  c1 = c1
  c2 = c2
  c3 = c3
  o1 = o1
  o2 = o2
  n1 = n1
  n2 = n2
  s1 = s1
  a1 = a1
  a2 = a2
  k1 = k1
  k2 = k2
  k3 = k3
  r1 = r1
  r2 = r2
  SighashOf <- Types
  TimeLock <- NoLocks
  HeightLock <- NoLocks
  Deferred = TRUE
  Devices = {d1, d2, d3}
  Offers <- Transactions
  Dummies <- DummyNotes
  Signers <- Keys
  Required <- Threshold
  Anchors = {r1, r2}
  ProveEarly = FALSE
  RedactProven = FALSE
  MaxDraws = 2
SYMMETRY Symmetry
INVARIANTS
  SignaturesValid
  BundlesFit
  CombineOrder
CHECK_DEADLOCK FALSE
