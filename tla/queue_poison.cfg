SPECIFICATION FairSpec
CONSTANTS
  j1 = j1
  j2 = j2
  w1 = w1
  d1 = d1
  Jobs = {j1, j2}
  Workers = {w1}
  Documents = {d1}
  NoJob = NoJob
  NoDocument = NoDocument
  MaxAttempts = 2
  MaxSources = 1
PROPERTY FailingJobsAreNotRetriedForever
