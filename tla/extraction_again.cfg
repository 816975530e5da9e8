SPECIFICATION Spec
CONSTANTS
  d1 = d1
  w1 = w1
  u1 = u1
  u2 = u2
  Named = Named
  Documents = {d1}
  Workers = {w1}
  RunIds = {u1, u2}
  NamedRun = Named
  Misconfigured = {}
  MaxAttempts = 2
  NoRun = NoRun
  NoDocument = NoDocument
  Nobody = Nobody
PROPERTY KnownDocumentsCostNothing
