SPECIFICATION FairSpec
CONSTANTS
  e1 = e1
  r1 = r1
  x1 = x1
  x2 = x2
  None = None
  Entries = {e1}
  Requests = {r1}
  EntryOf <- OneEntry
  Clients = {x1, x2}
  LinkDays = 1
  KeepDays = 1
  StaleDays = 2
  MaxDay = 4
  OpenUntil = 2
  Slow = FALSE
  Overtaken = FALSE
PROPERTIES
  RequestForgotten
