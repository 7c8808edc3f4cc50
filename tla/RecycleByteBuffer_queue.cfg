SPECIFICATION BufferSpec
CONSTANTS
  Byte = {b0, b1}
  Capacity = 3
  MaxLen = 4
  NoMark = NoMark
PROPERTY
  IsByteQueue
