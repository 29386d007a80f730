SPECIFICATION Spec
CONSTANTS
  h1 = h1  h2 = h2  block = block  tx = tx  reload = reload
  a1 = a1  a2 = a2  sapling = sapling  orchard = orchard
  o1 = o1  o2 = o2  o3 = o3  o4 = o4
  Nothing = Nothing
  Handle = {h1, h2}
  Request = {block, tx, reload}
  Reload = {reload}
  Account = {a1, a2}
  Wallets <- MCWallets
  Pool = {sapling, orchard}
  Owner <- MCOwner
  PoolOf <- MCPoolOf
  Contents <- MCContents
  Recipient <- MCRecipient
  QueueSize = 2
  Threshold = 2
  StartDelay = 1
INVARIANTS TypeOK
PROPERTIES ImplementsService Resolved TakenIsAnswered
CHECK_DEADLOCK FALSE
