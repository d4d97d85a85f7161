CONSTANTS
  Radix = 5
  FRAME_SYNC = 4
  MAX_PAYLOAD = 2
  TIMEOUT_MS = 1
  ClockRadix = 3
  crc8 <- MCcrc8
  Reads <- MCReads
  Writes <- MCWrites
  OutSizes = {0, 3}
  TickPeriod = 1
SPECIFICATION Spec
INVARIANTS TypeOK HandlersSeeTheFrame OneReplyPerRequest StaleRequestDropped
PROPERTIES AnswersEveryRequest
