SPECIFICATION Spec
CONSTANTS
  d1 = d1
  d2 = d2
  d3 = d3
  IconOrder <- MCIconOrder
  FirstLinks <- MCFirstLinks
  MaxDrags = 2
  NoDevice = NoDevice
  TopologyPanes = {t1}
  ServicePanes = {igp, mt}
  NodePanes = {n1}
  Managed = {mt}
  Creatable = {igp}
  Lists = {l1}
  DeviceLists <- MCDeviceLists
  MaxDeletes = 1
  MaxCreates = 2
  NoPane = NoPane
  NotFetched = NotFetched
  Leading <- MCLeading
  MaxDepth = 3
  Chars = {"a", "b"}
  Recalled <- MCRecalled
  MaxLine = 2
  MaxAhead = 3
  MaxDeferred = 3
  Columns <- MCColumns
  Sizes <- MCSizes
  IconSizes = {11}
  Places <- MCPlaces
  Hypervisor <- MCHypervisor
  Underlay = {d2}
  FirstCoords <- MCFirstCoords
  Offsets = {"none", "odd"}
  MaxDrops = 2
  NoContainer = NoContainer
  Directions = {0, 10, 170, 190, 350}
  Distances = {0, 15, 40, 200}
  Radii = {20, 30}
CHECK_DEADLOCK FALSE
INVARIANT ViewsTypeOK
INVARIANT NoParallelLinks
INVARIANT LinksAsMeant
INVARIANT PreviewTruthful
PROPERTY DragLeavesNoTrace
INVARIANT OpenPanesExist
INVARIANT HighlightsFollowService
INVARIANT OverlayShields
 
INVARIANT ShownAsOnDevice
INVARIANT PanelsSettle
INVARIANT RedrawnWhereDropped
 
