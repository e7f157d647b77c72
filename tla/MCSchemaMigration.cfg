CONSTANTS
  Replicas = {r1, r2, r3}
  Nobody = Nobody
SPECIFICATION MigrationFairSpec
INVARIANTS StartsNeverCollide ServingMeansUsable
PROPERTIES AppliedOnce EveryStartEnds
