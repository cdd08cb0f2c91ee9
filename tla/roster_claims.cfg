SPECIFICATION Spec
CONSTANTS
  e1 = e1
  e2 = e2
  m1 = m1
  m2 = m2
  x1 = x1
  x2 = x2
  a = a
  b = b
  c = c
  None = None
  Entries = {e1, e2}
  Added = e2
  Years = {1980, 1981}
  Spellings <- Written
  Members = {m1, m2}
  Called <- Tokens
  Clients = {x1, x2}
  Asks <- Own
  Staff = {m2}
  Sheets <- Files
  Forms <- Posts
  Overtaken = FALSE
INVARIANTS
  ClaimsCoherent
  OneClaimPerYear
PROPERTIES
  ClaimNeverStolen
