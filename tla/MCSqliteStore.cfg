CONSTANTS
  Sessions = {s1, s2}
  Keys = {k1}
  Payloads = {"ab", "demo"}
  None = None
  CaseIds = {"A", "B"}
  EventIds = {"a1", "b1", "d1"}
  CaseOrder <- MCCaseOrder
  EventOrder <- MCEventOrder
  Fingerprint <- MCFingerprint
  Pipelines = {cli}
  Dashboards = {dash}
  Generated = {"demo"}
SPECIFICATION FairSpec
INVARIANT BatchesAreWhole
PROPERTIES ImplementsLedger EveryWriterEnds
