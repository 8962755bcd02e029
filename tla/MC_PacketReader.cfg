SPECIFICATION Spec
CONSTANTS
  Chars <- MCChars
  BufferSize = 5
  PacketSize = 3
INVARIANTS
  TypeOK
  AnswersPackets
  PayloadDelivered
