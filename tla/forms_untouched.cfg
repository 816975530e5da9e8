SPECIFICATION Spec
CONSTANTS
  Times = {0, 2}
  Offsets = {0, 1}
  Unstated = Unstated
  Cues = {"cue", "sign"}
  Window = 4
  MinCandidates = 2
  MaxCandidates = 2
  Lower <- MCLower
  Labels = {"first", "other"}
  NullLabel = "null"
  Unrecorded = Unrecorded
  Texts <- MCWrappedTexts
  Fields <- MCFields
  TypedTexts <- MCTypedTexts
  TypedAreas <- MCTypedAreas
  RowIndices <- MCRowIndices
  MaxLines = 2
  MaxItems = 1
  MaxDocument = 8
  MaxQuote = 3
  MaxStratum = 4
  MaxRows = 2
INVARIANT UntouchedFormsAreRefused
