SPECIFICATION Spec
CONSTANTS
  p1 = p1
  r1 = r1
  Fields = {1, 2}
  Extractions <- MCOneExtraction
  Floor = 3
  Budget = 1
  Passes = {p1}
  Reviewers = {r1}
  Nobody = Nobody
  NoField = NoField
PROPERTY ReviewedAreNeverEligible
