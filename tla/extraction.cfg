SPECIFICATION FairSpec
CONSTANTS
  d1 = d1
  w1 = w1
  w2 = w2
  w3 = w3
  u1 = u1
  u2 = u2
  Named = Named
  Documents = {d1}
  Workers = {w1, w2, w3}
  RunIds = {u1, u2}
  NamedRun = Named
  Misconfigured = {w3}
  MaxAttempts = 2
  NoRun = NoRun
  NoDocument = NoDocument
  Nobody = Nobody
INVARIANTS
  TypeOK
  OneCompletePerRun
  PublishedRunsAreAccountedFor
PROPERTY ExtractionsEnd
