SPECIFICATION Spec
CONSTANTS
  c1 = c1
  c2 = c2
  Stream = {"a"}
  Conn = {c1, c2}
  AdminOps = {"title", "delete", "scope"}
  Wanted = {"a"}
  Scoped = {"a"}
  Faults = {"drop", "panelCrash", "crash", "probeFails"}
  MaxFeed = 2
  MaxOps = 2
  MaxAdmin = 1
  MaxFaults = 1
  MaxAttempts = 1
SYMMETRY MCSymmetry
INVARIANTS BlobsKeyBesideItsFeed RegisteredIsWritten
PROPERTY PublicationSpec
CHECK_DEADLOCK FALSE
