SPECIFICATION Spec
CONSTANTS
  d1 = d1
  d2 = d2
  d3 = d3
  None = None
  Device = {d1, d2, d3}
  Unmanaged = {d3}
  Locked = {}
  Graceful = {d2}
  Consoled = {d1}
  Actor = {a1}
  Rebooter = check
  Command = {"define", "start", "stop", "undefine", "reboot", "hard-reset"}
  Target = {d1, d2, d3, None}
  Forced = {TRUE, FALSE}
  Serial = TRUE
  Careful = TRUE
  SyncFails = TRUE
 
 
PROPERTY NoResurrection
