CONSTANTS
  Runs = {r1, r2}
  Missing = Missing
  Torn = Torn
SYMMETRY Symmetry
SPECIFICATION BundleSpec
INVARIANT ReportsReadable
PROPERTY CompletedRunIsOneRun
CHECK_DEADLOCK FALSE
