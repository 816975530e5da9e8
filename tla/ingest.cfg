SPECIFICATION FairSpec
CONSTANTS
  b1 = b1
  b2 = b2
  b3 = b3
  b4 = b4
  t1 = t1
  t2 = t2
  w1 = w1
  w2 = w2
  i1 = i1
  i2 = i2
  i3 = i3
  i4 = i4
  Workers = {w1, w2}
  Ids = {i1, i2, i3, i4}
  Bytes = {b1, b2, b3, b4}
  Texts = {t1, t2}
  Pages <- MCPages
  NoBytes = NoBytes
  NoText = NoText
  NoId = NoId
INVARIANTS
  TypeOK
  OneDocumentPerText
  ResultHasItsText
PROPERTIES
  RefusalsAreRaces
  ImplementsDocumentStore
  IngestsEnd
