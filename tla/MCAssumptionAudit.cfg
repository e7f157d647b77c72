CONSTANTS
  a = a
  b = b
  bad = bad
  Absent = Absent
  Assumptions = {a, b, bad}
  Invalid = {bad}
  Runs = {r1, r2}
  NoRun = NoRun
  MaxEntries = 3
  MaxMishaps = 2
SYMMETRY Symmetry
SPECIFICATION AuditSpec
INVARIANTS OnlyApprovedPasses VerifiedMeansApproved
