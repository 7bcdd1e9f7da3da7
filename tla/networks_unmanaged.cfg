SPECIFICATION Spec
CONSTANTS
  d1 = d1
  d2 = d2
  d3 = d3
  lan = lan
  link = link
  h1 = h1
  h2 = h2
  None = None
  Device = {d1, d2, d3}
  Unmanaged = {d1}
  Network = {lan, link}
  LinkNetwork = {link}
  Members <- MCMembers
  Hypervisor = {h1, h2}
  Host <- MCHost
  Actor = {a1}
  Command = {"define", "start", "stop", "undefine", "reboot", "hard-reset"}
  Serial = TRUE
  Careful = TRUE
  Failing = {}
INVARIANT NetworksServe
