SPECIFICATION Spec
CONSTANTS
  m1 = m1
  m2 = m2
  x1 = x1
  x2 = x2
  None = None
  NoEmail = NoEmail
  Members = {m1, m2}
  Staff = {m2}
  Owner = m2
  Clients = {x1, x2}
  Asks <- Own
  Emails = {"shared"}
  MaxEvents = 1
  OneOperator = TRUE
  Overtaken = FALSE
INVARIANTS
  AccessCoherent

  
