\* Two flows share one exclusively borrowed handle; a retries a crashed flow under its
\* own token and draws on b's locks.
SPECIFICATION Spec
CONSTANTS
  a = a
  b = b
  n1 = n1
  n2 = n2
  t1 = t1
  t2 = t2
  NoOwner = NoOwner
  Owners <- TwoOwners
  Notes <- TwoNotes
  TxIds <- TwoTxs
  Lockers <- TwoOwners
  Override <- OwnAndB
  Window <- ShortA
  TxDelta = 1
  MaxHeight = 3
  Shared = TRUE
SYMMETRY NoteTxSymmetry
INVARIANTS
  TypeOK
  NoDoubleSpend
  LockHeld
  NoOrphanLock
