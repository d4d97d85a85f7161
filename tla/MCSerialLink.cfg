CONSTANTS
  Radix = 8
  FRAME_SYNC = 5
  MAX_PAYLOAD = 2
  HOST_MAX_PAYLOAD = 2
  TIMEOUT_MS = 1
  ClockRadix = 3
  TickPeriod = 1
  ResponseTimeout = 4
  MaxLatency = 1
  DeviceQueue = 2
  MaxExchanges = 2
  MaxUpsets = 1
  crc8 <- MCcrc8
  Reads <- MCReads
  Writes <- MCWrites
  OutSizes = {0}
  Requests <- MCRequests
  Answers <- MCAnswers
SPECIFICATION LinkSpec
PROPERTIES HandlersRunWhatWasSent ResendFindsResetParser AnswerArrives
