SPECIFICATION ConsolesSpec
CONSTANTS
  d1 = d1
  d2 = d2
  Devices = {d1, d2}
  MaxConnections = 2
  MaxToggles = 4
  m1 = m1
  m2 = m2
  Manager = {m1, m2}
  None = None
  Caller = {w1, w2}
  Modes <- MCModes
  MaxIssues = 2
  MaxBacklog <- MCBacklog
  Capacity = 2
CHECK_DEADLOCK FALSE
 
INVARIANT LoggerRestored
PROPERTY TelnetEnds
PROPERTY OneProcess
PROPERTY CallsReturn
INVARIANT StatusFollowsPings
