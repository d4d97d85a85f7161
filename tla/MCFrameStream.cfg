CONSTANTS
  Radix = 5
  SYNC_BYTE = 4
  MAX_PAYLOAD_SIZE = 2
  crc8 <- MCcrc8
  ADDRESSING = TRUE
  Commands = {1}
  Payloads <- MCPayloads
  Nodes = {2}
  Noise = {0, 1, 2, 3, 4}
  READ_BUF_SIZE = 4
  RX_CAP = 12
  MaxFrames = 2
  MaxNoise = 1
SPECIFICATION StreamSpec
INVARIANTS TypeOK FramesAreReceived BoundedHunt DeliversExactly PollDrains
CHECK_DEADLOCK FALSE
