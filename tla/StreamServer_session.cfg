CONSTANTS
  d1 = d1
  Device = {d1}
  Dims <- PhoneDims
  Legacy = {}
  Code = {0, 1}
  Rate = {1, 2}
  HelloRate = 1
  Other = {"key", "touch"}
  Mirror = FALSE
  MayStop = FALSE
  Split = TRUE
  Misread <- Misreadings
  Garbled <- GarbledHellos
  MaxConn = 3
  MaxTurns = 0
  MaxSends = 2
SPECIFICATION Spec
CHECK_DEADLOCK FALSE
INVARIANTS TypeOK OnlyOwnMessages LatestParamsWin
PROPERTIES ByeHeardIsFinal
