SPECIFICATION Spec
CONSTANTS
  Byte = 10
  Digit = 4
  Signature = 83
  Identity <- ClientIdentity
  Messages <- SomeMessages
  Cuts <- SomeCuts
  MaxMsgs = 4
  MaxCalls = 6
CHECK_DEADLOCK FALSE
PROPERTY MalformedIsReported
