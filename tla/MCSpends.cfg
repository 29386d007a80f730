CONSTANTS
  pay = pay
  sweep = sweep
  rival = rival
  hop = hop
  n = n
  late = late
  p = p
  Txs <- MCTxs
  Notes = {n, late, p}
  Transparent = {p}
  Late = {late}
  Outputs <- MCOutputs
  Inputs <- MCInputs
  NonExpiring = {}
  Unconfirmed = {sweep}
  AheadOfScan = FALSE
  Retention = 1
  MaxHeight = 4
  MaxEmpty = 1
  MaxEvents = 1
  MaxReorgDepth = 2
  RewindDepth = 3
SPECIFICATION Spec
INVARIANTS
  TypeOK
  NoMissedSpend
  MinedIsStored
  NeverRefused
CHECK_DEADLOCK FALSE
