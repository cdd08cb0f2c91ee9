SPECIFICATION Spec
CONSTANTS
  a1 = a1
  a2 = a2
  p1 = p1
  p2 = p2
  x1 = x1
  x2 = x2
  e1 = e1
  e2 = e2
  None = None
  Apps = {a1}
  Parrains = {p1}
  Emails = {e1, e2}
  EmailOf <- OneAddress
  Clients = {x1}
  VouchDays = 1
  ReminderDays = 1
  GraceDays = 1
  RetentionDays = 1
  MaxDay = 2
  OpenUntil = 1
  Handlers = {"signup", "vouch", "reject", "edit", "delete_request", "delete_app"}
  Alone <- Deciders
  CronOverlap = TRUE
  CronAborts = TRUE
  Punctual = FALSE
  SendDays = {0, 1, 2}
  FailDays = {}
SYMMETRY Symmetric
INVARIANTS
  RetentionClock
  KeptLongEnough
