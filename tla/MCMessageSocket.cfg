SPECIFICATION Spec
CONSTANTS
  Byte = {0, 1, 2, 3}
  WordBytes = 2
  WordLimit = 16
  BytesOf <- LittleEndian
  MESSAGE_LENGTH = 3
  Types = {1, 2}
  Content = {3, 6}
  MaxContent = 2
  MaxMessages = 2
  Capacity = 3
INVARIANT TypeOK
INVARIANT NoStrayWords
PROPERTY ImplementsChannel
PROPERTY WrittenIsReceived
CHECK_DEADLOCK FALSE
