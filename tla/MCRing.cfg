\* A four-byte ring: copies of up to three bytes wrap at every offset.
CONSTANTS
  a = a
  b = b
  Junk = Junk
  Bytes <- TwoBytes
  Chunks <- SomeChunks
  Capacity = 4
  MaxAsk = 3
  MaxBytes = 9
SPECIFICATION Spec
INVARIANTS
  TypeOK
  NoOverwrite
  PublishedIsWritten
  CopiedIsStored
PROPERTY IsByteQueue
CHECK_DEADLOCK FALSE
