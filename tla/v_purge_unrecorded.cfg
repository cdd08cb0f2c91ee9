SPECIFICATION Spec
CONSTANTS
  m1 = m1
  m2 = m2
  x1 = x1
  Members = {m1, m2}
  Staff = {m2}
  Clients = {x1}
  MaxPhotos = 2
  MaxFaults = 1
  OneForm = TRUE
  Quiet = TRUE
INVARIANTS
  ReportMeansRecord
