SPECIFICATION Spec
CONSTANTS
  Client = {c1, c2}
  Pool = pool
  Faults = {"crash", "refuse", "breaks"}
  MaxGen = 5
  MaxSource = 2
  MaxOps = 5
  MaxFaults = 2
INVARIANTS HeldIsKept NoRebirth CatalogFollows
PROPERTIES CutOver Resumes
CHECK_DEADLOCK FALSE
