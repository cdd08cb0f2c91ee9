SPECIFICATION Spec
CONSTANTS
  a1 = a1
  a2 = a2
  p1 = p1
  p2 = p2
  x1 = x1
  x2 = x2
  e1 = e1
  e2 = e2
  None = None
  Apps = {a1}
  Parrains = {p1, p2}
  Emails = {e1, e2}
  EmailOf <- OneAddress
  Clients = {x1, x2}
  VouchDays = 2
  ReminderDays = 1
  GraceDays = 1
  RetentionDays = 4
  MaxDay = 5
  OpenUntil = 5
  Handlers = {"signup", "vouch", "quiz", "approve", "reject", "requeue"}
  Alone <- Deciders
  CronOverlap = FALSE
  CronAborts = TRUE
  Punctual = FALSE
  SendDays = {0, 1, 2, 3, 4, 5}
  FailDays = {0, 1, 2, 3, 4, 5}
SYMMETRY Symmetric
INVARIANTS
  TypeOK
  AccountMeansApproved
  VotesSettled
  ErasedTexts
  AnsweredIsUnderReview
  NothingOverdueAtRunEnd
PROPERTIES
  DecisionFinal
  VoteFinal
  ImplementsCandidacy
