SPECIFICATION FairSpec
CONSTANTS
  a1 = a1
  a2 = a2
  p1 = p1
  p2 = p2
  x1 = x1
  x2 = x2
  e1 = e1
  e2 = e2
  None = None
  Apps = {a1}
  Parrains = {p1, p2}
  Emails = {e1, e2}
  EmailOf <- OneAddress
  Clients = {x1}
  VouchDays = 1
  ReminderDays = 1
  GraceDays = 1
  RetentionDays = 2
  MaxDay = 5
  OpenUntil = 2
  Handlers = {"signup", "vouch", "quiz", "approve", "reject"}
  Alone <- Deciders
  CronOverlap = FALSE
  CronAborts = FALSE
  Punctual = TRUE
  SendDays = {0, 1, 2, 3, 4, 5}
  FailDays = {0, 1, 2}
PROPERTIES
  Reviewed
  Forgotten
