SPECIFICATION FairSpec
CONSTANTS
  alice = alice
  bob = bob
  Fields = {1, 2}
  Tabs = {alice, bob}
  Programs = {bob}
  Diligent = {alice}
  Connections = 2
  Configured = {"user", "pass"}
  Holders = {alice, bob}
  PageSize = 1
  NoField = NoField
  NoSuchField = NoSuchField
INVARIANTS
  TypeOK
  CorrectionsAreComplete
PROPERTIES
  RequestsEnd
  QueuedFieldsAreShown
