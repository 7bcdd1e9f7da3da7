SPECIFICATION Spec
CONSTANTS
  c1 = c1
  c2 = c2
  v1 = v1
  None = None
  Device = {c1, c2, v1}
  Container = {c1, c2}
  Unmanaged = {c2}
  Link <- MCChain
  Actor = {a1, a2}
  SyncResult = {"ready"}
  Serial = TRUE
  Crashes = FALSE
INVARIANT LinksPlumbed
INVARIANT TapNotLost
