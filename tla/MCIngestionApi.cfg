CONSTANTS
  Sessions = {"s1", "s2"}
  Keys = {k1, k2}
  Payloads = {"ab", "bc"}
  None = None
  CaseIds = {"A", "B", "C"}
  EventIds = {"a1", "b1", "b2", "c1"}
  CaseOrder <- MCCaseOrder
  EventOrder <- MCEventOrder
  Fingerprint <- MCFingerprint
  Replicas = {"r1", "r2"}
  Home <- MCHome
  Rollout <- Rotation
  FirstToken = "old"
  Strays = {"reader"}
  MaxTime = 1
  MaxRequests = 2
SYMMETRY Symmetry
SPECIFICATION ApiSpec
INVARIANTS LedgerMatchesReceipts AckedIsDurable NeverOvercounts AlertsAgree WritesAreAuthorized RotationIsSeamless
CHECK_DEADLOCK FALSE
