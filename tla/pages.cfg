\* A deleted entry is the end of a bounded behaviour.
SPECIFICATION Spec
CONSTANTS
  m1 = m1
  m2 = m2
  niamey = niamey
  zinder = zinder
  amadou = amadou
  tailleur = tailleur
  naimey = naimey
  w1 = w1
  e1 = e1
  a1 = a1
  a2 = a2
  r1 = r1
  n1 = n1
  n2 = n2
  x1 = x1
  x2 = x2
  None = None
  Members = {m1, m2}
  Cities = {niamey, zinder}
  Said <- Names
  Works <- Trades
  Years <- Attended
  Promotions = {1980}
  Logins <- Accounts
  Tokens <- Typed
  Length <- Chars
  Numeric = {1980}
  Contains <- Parts
  Similar <- Alike
  MemoryIds = {w1}
  Editors = {a1, a2}
  MaxBlobs = 3
  MaxOutages = 1
  Tributes = {e1}
  Curators = {a1, a2}
  MaxLetters = 2
  Proposers = {m1}
  Cards = {n1, n2}
  Fiches = {e1}
  Tabs = {x1, x2}
  Uses <- OneMember
  Reviewers = {r1}
  LastDay = 1
  MaxLosses = 1
INVARIANTS
  HiddenCityUnguessable
  ConsoleFindsAll
  WallTruthful
  TributeHonest
  NominationsAccounted
SYMMETRY TwoAdmins
CHECK_DEADLOCK FALSE
