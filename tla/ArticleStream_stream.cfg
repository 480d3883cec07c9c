CONSTANTS
  Contents <- AllContents
  LineLength = 2
  Forms <- AllForms
  OtherBytes <- Changed
  Logins <- AllLogins
  Codes <- SomeCodes
  OutputChunk = 2
SPECIFICATION Spec
INVARIANTS DeliveredIsPosted WholeIsAccepted
CHECK_DEADLOCK FALSE
