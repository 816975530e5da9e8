SPECIFICATION Spec
CONSTANTS
  e1 = e1
  e2 = e2
  brief = brief
  long = long
  anthropic = anthropic
  openai = openai
  default = default
  high = high
  MaxDocs = 3
  Rows = {e1, e2}
  Texts = {brief, long}
  Providers = {anthropic, openai}
  Anthropic = anthropic
  Thinkings = {default, high}
  DefaultThinking = default
  Named = Named
  Null = Null
  NoDoc = NoDoc
INVARIANTS
  TypeOK
  OneCompletePerKey
  DocumentsAreTexts
  ReviewsAreComplete
PROPERTY
  RecordsSurvive
