CONSTANTS
  d1 = d1
  Device = {d1}
  Dims <- PhoneDims
  Legacy = {d1}
  Code = {0, 1}
  Rate = {}
  HelloRate = 1
  Other = {}
  Mirror = FALSE
  MayStop = TRUE
  Split = FALSE
  Misread <- Nothing
  Garbled <- Nothing
  MaxConn = 2
  MaxTurns = 1
  MaxSends = 1
SPECIFICATION FairSpec
CHECK_DEADLOCK FALSE
INVARIANTS NoRestartLoop
PROPERTIES ByeOrStopExits RotationReachesHost
