SPECIFICATION FairSpec
CONSTANTS
  d1 = d1
  d2 = d2
  d3 = d3
  None = None
  Device = {d1, d2, d3}
  Unmanaged = {}
  Locked = {d2}
  Graceful = {d3}
  Consoled = {d1}
  Actor = {a1}
  Rebooter = check
  Command = {"define", "start", "stop", "reboot"}
  Target = {None}
  Forced = {FALSE}
  Serial = TRUE
  Careful = TRUE
  SyncFails = FALSE
 
PROPERTY EventuallyReady
