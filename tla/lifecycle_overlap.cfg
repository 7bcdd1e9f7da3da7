SPECIFICATION FairSpec
CONSTANTS
  d1 = d1
  d2 = d2
  d3 = d3
  None = None
  Device = {d1}
  Unmanaged = {}
  Locked = {}
  Graceful = {d1}
  Consoled = {d1}
  Actor = {a1}
  Rebooter = check
  Command = {"define", "start", "stop", "undefine", "reboot"}
  Target = {d1, None}
  Forced = {FALSE}
  Serial = FALSE
  Careful = FALSE
  SyncFails = FALSE
PROPERTY InvocationsReturn
