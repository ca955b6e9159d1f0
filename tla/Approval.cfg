CONSTANTS
  Streamer = {s1}
  Device = {d1, d2}
  Nobody = nobody
  MaxLines = 2
  MaxWakes = 1
  MaxForgets = 1
  MaxExits = 1
SPECIFICATION ApprovalFairSpec
CHECK_DEADLOCK FALSE
INVARIANTS OneLateAnswer
PROPERTIES ApprovedGetsIn
