SPECIFICATION FairSpec
CONSTANTS
  p1 = p1
  p2 = p2
  r1 = r1
  r2 = r2
  Fields = {1, 2}
  Extractions <- MCSmallExtractions
  Floor = 3
  Budget = 1
  Passes = {p1, p2}
  Reviewers = {r1, r2}
  Nobody = Nobody
  NoField = NoField
INVARIANTS
  TypeOK
  BudgetRespected
PROPERTIES
  DecisionsAreFinal
  PassesTakeTheLowest
  ImplementsReviewBoard
  TransactionsEnd
