SPECIFICATION MuxSpec
CONSTANTS
  Framings = {"tls", "ws_client", "ws_server"}
  MaxFrameLen = 2
  SendQueueCap = 4
  SockCap = 2
  Chunk = 3
  InFrames <- PeerFrames
  OutLens = {2}
  MaxIn = 3
  MaxOut = 1
  Limited = FALSE
  Refills = {1}
  PeerFails = FALSE
  TimersFail = FALSE
INVARIANTS StructuresAgree RateIsKept MessagesArrive NothingIsMissed
PROPERTIES WaitIsRight
CHECK_DEADLOCK FALSE
