SPECIFICATION FairSpec
CONSTANTS
  j1 = j1
  j2 = j2
  j3 = j3
  j4 = j4
  w1 = w1
  w2 = w2
  d1 = d1
  Jobs = {j1, j2, j3, j4}
  Workers = {w1, w2}
  Documents = {d1}
  NoJob = NoJob
  NoDocument = NoDocument
  MaxAttempts = 3
  MaxSources = 2
INVARIANTS
  TypeOK
  SoleClaimant
  ClaimInvisible
  AttemptsWithinLimit
  FailuresExplained
  OneExtractPerIngest
  DocumentsHaveExtractJobs
PROPERTIES
  ImplementsLifecycle
  JobsSettleOnceUndisturbed
