SPECIFICATION Spec
CONSTANTS
  item = item
  default = default
  link = link
  field = field
  Edits = {item, default, link, field}
  ActionEdits = {field}
  Invalid = {default}
  Refused = {link}
  Gestures <- MCGestures
  Scenarios <- MCScenarios
  EditDuring = {}
  Mixing = FALSE
  MaxTh = 3
  MaxVisits = 2
CHECK_DEADLOCK FALSE
INVARIANT TransactionsKnown
 
PROPERTY SessionSpec
 
PROPERTY CommitEnds
