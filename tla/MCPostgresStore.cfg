CONSTANTS
  Sessions = {s1, s2}
  Keys = {k1, k2}
  Payloads = {"ab", "ba"}
  None = None
  CaseIds = {"A", "B"}
  EventIds = {"a1", "a2", "b1"}
  CaseOrder <- MCCaseOrder
  EventOrder <- MCEventOrder
  Fingerprint <- MCFingerprint
  LockOf <- MCDistinct
SPECIFICATION FairSpec
INVARIANTS TransactionsAreIsolated DeadlockSpansKeys RefusalsAreFinal
PROPERTIES ImplementsLedger EveryCallEnds
