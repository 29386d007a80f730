CONSTANTS
  issuer = issuer
  restored = restored
  external = external
  internal = internal
  Wallets = {issuer, restored}
  Issuers = {issuer}
  Scopes = {external, internal}
  External = external
  Limit <- MCLimit
  MaxIndex <- MCMaxIndex
  Conforming = {1, 3}
  Payments = {p1, p2, p3}
  MaxHeight = 4
  SpentUnseen = FALSE
  Scattered = FALSE
  MaxEvents = 1
SPECIFICATION Spec
SYMMETRY Symmetry
INVARIANTS
  NothingHidden
CHECK_DEADLOCK FALSE
