SPECIFICATION Spec
CONSTANTS
  c1 = c1
  c2 = c2
  v1 = v1
  None = None
  Device = {c1, c2, v1}
  Container = {c1, c2}
  Unmanaged = {c2}
  Link <- MCChain
  Actor = {a1}
  SyncResult = {"ready", "sync-error"}
  Serial = TRUE
  Crashes = TRUE
INVARIANT NoLeakedPair
PROPERTY RebootHeals
