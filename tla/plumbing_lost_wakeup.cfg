SPECIFICATION Spec
CONSTANTS
  c1 = c1
  c2 = c2
  v1 = v1
  None = None
  Device = {c1, c2}
  Container = {c1, c2}
  Unmanaged = {c2}
  Link <- MCVeth
  Actor = {a1, a2}
  SyncResult = {"ready"}
  Serial = FALSE
  Crashes = FALSE
INVARIANT LinksPlumbed
