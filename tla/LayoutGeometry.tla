---------------------------- MODULE LayoutGeometry ----------------------------
(***************************************************************************)
(* Where the canvas of the web UI draws the containers of the open         *)
(* topology and the icons of its devices (features/topology): the layout   *)
(* follows from the size of the canvas, the size of the icons, the zoomed  *)
(* container and the widths in the model; an icon that is dropped is drawn  *)
(* again from the two coordinates that were stored for it.                 *)
(*                                                                         *)
(* The code computes with floating-point numbers, the module with integers:*)
(* percentages are multiples of 1/1000, coordinates of 1/10000.            *)
(***************************************************************************)
EXTENDS Integers, Sequences

CONSTANTS Columns,     \* the containers <<name, width in percent>>, from left to right
          Sizes,       \* sizes <<width, height>> of the canvas, in pixels
          IconSizes,   \* what the slider selects
          Places,      \* pixels <<x, y>> at which icons are dropped
          Hypervisor,  \* device |-> the container of its icon
          Underlay,    \* the devices with iconUnderlay
          FirstCoords, \* device |-> its coordinates <<x, y>> of both kinds
          Offsets,     \* what background-offset may be
          MaxDrops,    \* bound: icons dropped
          NoContainer

Containers == {Columns[i][1] : i \in DOMAIN Columns}
Icons      == DOMAIN Hypervisor
Kinds      == {"coord", "zoomed/coord"}
NoCoord      == -1
Pc         == 1000
Unit       == 10000
Widest     == 13000   \* bound: pixels of a canvas that four decimals tell apart
NoSize     == <<0, 0>>
NotDropped == [view |-> <<>>, at |-> NoSize]

\* Every container is wider than its icons, those of the initial size included.
ASSUME LayoutAssumption ==
  /\ NoContainer \notin Containers
  /\ Columns \in Seq(Containers \X (11..100)) /\ IconSizes \subseteq 6..12
  /\ \A i \in DOMAIN Columns : \A s \in IconSizes : Columns[i][2] > s
  /\ Sizes \subseteq (1..Widest) \X (1..Widest) /\ Places \subseteq Int \X Int
  /\ Underlay \subseteq Icons /\ \A d \in Icons : Hypervisor[d] \in Containers
  /\ FirstCoords \in [Icons -> [Kinds -> [1..2 -> NoCoord..Unit]]]
  /\ Offsets \subseteq {"odd", "even", "none"} /\ "none" \in Offsets
  /\ MaxDrops \in Nat

VARIABLES
  dimensions, iconSize, zoomedContainer, visibleUnderlays,   \* topologySlice
  arrived,          \* useLayoutsQuery has answered
  backgroundOffset, \* the answer of useLayoutOffsetQuery
  contextOffset,    \* ... that the context was computed with
  coords,           \* device |-> its coordinates in the cache
  writes,           \* requests that set a coordinate, not answered
  dropped,          \* history: where its icon was last dropped, in which view
  drops             \* how many icons were dropped

view       == <<dimensions, iconSize, zoomedContainer, arrived>>
layoutVars == <<view, visibleUnderlays, backgroundOffset, contextOffset, coords, writes,
                dropped, drops>>

\* Every variable has its type.
LayoutTypeOK ==
  /\ dimensions \in Sizes \cup {NoSize}
  /\ iconSize \in 0..12
  /\ zoomedContainer \in Containers \cup {NoContainer}
  /\ visibleUnderlays \subseteq Containers
  /\ arrived \in BOOLEAN
  /\ {backgroundOffset, contextOffset} \subseteq Offsets
  /\ coords \in [Icons -> [Kinds -> [1..2 -> NoCoord..Unit]]]
  /\ writes \subseteq Icons \X Kinds \X (1..2) \X (0..Unit)
  /\ DOMAIN dropped = Icons /\ drops \in 0..MaxDrops

------------------------------------------------------------------------------
(* calculateLayout.                                                          *)

Smaller(a, b) == IF a < b THEN a ELSE b
Larger(a, b)  == IF a < b THEN b ELSE a

\* Math.round(a / b)
Rounded(a, b) == (2 * a + b) \div (2 * b)

\* The size of an icon in percent, along axis a (1: of the width, 2: of the
\* height); iconSize is a percentage of the smaller of the two.
iconPc(a) ==
  IF dimensions[a] > dimensions[3 - a]
  THEN (iconSize * Pc * dimensions[3 - a]) \div dimensions[a] ELSE iconSize * Pc

\* The x that the reduction has reached after i containers.
ReducedX == LET x[i \in 0..Len(Columns)] ==
                  IF i = 0 THEN -(iconPc(1) \div 2) ELSE x[i - 1] + Columns[i][2] * Pc
            IN x

\* Where the centres of the icons may be, if no container is zoomed.
ColumnLeft(i) == ReducedX[i - 1] + iconPc(1)

IndexOf(name) == CHOOSE i \in DOMAIN Columns : Columns[i][1] = name

AfterZoomed(i) == \E j \in 1..i : Columns[j][1] = zoomedContainer

\* Left edge and width of the range of the centres, in container i.
RangeLeft(i) ==
  CASE zoomedContainer = NoContainer   -> ColumnLeft(i)
    [] zoomedContainer = Columns[i][1] -> iconPc(1) \div 2
    [] OTHER                           -> IF AfterZoomed(i) THEN 100 * Pc ELSE 0

RangeWidth(i) ==
  CASE zoomedContainer = NoContainer   -> Columns[i][2] * Pc - iconPc(1)
    [] zoomedContainer = Columns[i][1] -> 100 * Pc - iconPc(1)
    [] OTHER                           -> 0

AtEdge(i) == i \in {1, Len(Columns)}

backgroundOffsetPc ==
  CASE contextOffset = "odd" -> iconPc(1) [] contextOffset = "even" -> -iconPc(1)
    [] OTHER -> 0

\* Index i of the module is index i - 1 of the code.
BackgroundWidth(i) ==
  IF zoomedContainer # NoContainer
  THEN IF Columns[i][1] = zoomedContainer THEN 100 * Pc ELSE 0
  ELSE Columns[i][2] * Pc +
         (CASE AtEdge(i)    -> -(backgroundOffsetPc \div 4)
            [] ~AtEdge(i)   -> (IF i % 2 = 0 THEN 1 ELSE -1) * (backgroundOffsetPc \div 2))

\* The range of the centres along axis a, in container i: its start and length.
Start(i, a)  == IF a = 1 THEN RangeLeft(i) ELSE iconPc(2) \div 2
Length(i, a) == IF a = 1 THEN RangeWidth(i) ELSE 100 * Pc - iconPc(2) - iconPc(2) \div 2

\* Percent as pixels: container.px.
ToPx(pc, a) == Rounded(pc * dimensions[a], 100 * Pc)

------------------------------------------------------------------------------
(* Positions of icons.                                                       *)

\* The canvas has been measured and the layout has been read.
Drawn == arrived /\ iconSize > 0 /\ dimensions # NoSize

Zoomed(d) == zoomedContainer = Hypervisor[d]

isHidden(d) ==
  \/ zoomedContainer # NoContainer /\ ~Zoomed(d)
  \/ d \in Underlay /\ Hypervisor[d] \notin visibleUnderlays

\* The coordinate that counts: the zoomed one, if there is one.
Coord(d, a) ==
  IF Zoomed(d) /\ coords[d]["zoomed/coord"][a] # NoCoord
  THEN coords[d]["zoomed/coord"][a] ELSE coords[d]["coord"][a]

\* calculateIconPosition: pcX and pcY, with two decimals, and x and y.
IconPc(d, a) ==
  LET i == IndexOf(Hypervisor[d])
  IN 10 * Rounded(Start(i, a) + (Coord(d, a) * Length(i, a)) \div Unit, 10)

IconPx(d) == <<ToPx(IconPc(d, 1), 1), ToPx(IconPc(d, 2), 2)>>

restrictPos(p, i) ==
  [a \in 1..2 |-> Larger(ToPx(Start(i, a), a),
                         Smaller(ToPx(Start(i, a) + Length(i, a), a), p[a]))]

\* pxToPc with a container: the coordinates of pixel p, with four decimals.
pxToPc(p, i) ==
  [a \in 1..2 |->
     LET pc == Rounded(restrictPos(p, i)[a] * 100 * Pc, dimensions[a])
     IN Larger(0, Smaller(Unit, Rounded((pc - Start(i, a)) * Unit, Length(i, a))))]

------------------------------------------------------------------------------
(* The steps.                                                                *)

\* The memo of the context: the offset is not among its dependencies.
Rerendered == contextOffset' = IF view' = view THEN contextOffset ELSE backgroundOffset'

calculateInitialIconSize(s) ==
  Smaller(10, (64 * 100 + Smaller(s[1], s[2]) - 1) \div Smaller(s[1], s[2]))

\* ReactResizeDetector, and the slider that follows when it has no size yet.
resize(s) ==
  /\ dimensions' = s
  /\ drops < 2   \* bound: the view changes after the first drop, not after a second one
  /\ iconSize' = IF iconSize = 0 THEN calculateInitialIconSize(s) ELSE iconSize
  /\ UNCHANGED <<zoomedContainer, arrived, visibleUnderlays, backgroundOffset, coords, writes,
                 dropped, drops>>
  /\ Rerendered

iconSizeChanged(s) ==
  /\ iconSize > 0
  /\ drops < 2   \* bound: the view changes after the first drop, not after a second one
  /\ iconSize' = s
  /\ UNCHANGED <<dimensions, zoomedContainer, arrived, visibleUnderlays, backgroundOffset,
                 coords, writes, dropped, drops>>
  /\ Rerendered

\* The button zooms in on its container only if none is zoomed; the zoomed one
\* alone is wide enough to be clicked.
containerZoomToggled(c) ==
  /\ Drawn /\ drops < 2   \* bound
  /\ zoomedContainer \in {c, NoContainer}
  /\ zoomedContainer' = IF zoomedContainer = c THEN NoContainer ELSE c
  /\ UNCHANGED <<dimensions, iconSize, arrived, visibleUnderlays, backgroundOffset, coords,
                 writes, dropped, drops>>
  /\ Rerendered

underlayToggled(c) ==
  /\ Drawn
  /\ zoomedContainer \in {c, NoContainer}
  /\ drops = 0   \* bound
  /\ visibleUnderlays' = (visibleUnderlays \ {c}) \cup ({c} \ visibleUnderlays)
  /\ UNCHANGED <<view, backgroundOffset, contextOffset, coords, writes, dropped, drops>>

\* The answers of the two queries; the offset may be changed later, too.
ReceiveLayouts ==
  /\ ~arrived
  /\ arrived' = TRUE
  /\ UNCHANGED <<dimensions, iconSize, zoomedContainer, visibleUnderlays, backgroundOffset,
                 coords, writes, dropped, drops>>
  /\ Rerendered

ReceiveOffset(o) ==
  /\ drops = 0   \* bound
  /\ backgroundOffset' = o
  /\ UNCHANGED <<view, visibleUnderlays, contextOffset, coords, writes, dropped, drops>>

\* Mutant: the zoomed view writes the coordinates of the whole one.
CoordNode_Plain(d) == "coord"

\* The coordinates that a drop sets.
CoordNode(d) == IF Zoomed(d) THEN "zoomed/coord" ELSE "coord"

\* The icon is dropped at pixel p: moveIcon sends two requests.
moveIcon(d, p) ==
  LET i == IndexOf(Hypervisor[d])
  IN /\ Drawn /\ ~isHidden(d)
     /\ drops < MaxDrops /\ (drops > 0 => \E w \in writes : w[1] = d)   \* bound
     /\ writes' = writes \cup {<<d, CoordNode(d), a, pxToPc(p, i)[a]>> : a \in 1..2}
     /\ dropped' = [dropped EXCEPT ![d] =
          IF \E w \in writes : w[1] = d THEN NotDropped   \* the answers may be mixed up
          ELSE [view |-> view, at |-> restrictPos(p, i)]]
     /\ drops' = drops + 1
     /\ UNCHANGED <<view, visibleUnderlays, backgroundOffset, contextOffset, coords>>

\* The answers come in any order; a request may be refused.
ReceiveWrite(w) ==
  /\ w \in writes
  /\ writes' = writes \ {w}
  /\ \/ coords' = [coords EXCEPT ![w[1]][w[2]][w[3]] = w[4]] /\ UNCHANGED dropped
     \/ dropped' = [dropped EXCEPT ![w[1]] = NotDropped] /\ UNCHANGED coords
  /\ UNCHANGED <<view, visibleUnderlays, backgroundOffset, contextOffset, drops>>

\* The page is loaded: redux-persist has kept the size of the icons, the zoomed
\* container and the visible underlays.
LayoutInit ==
  /\ dimensions = NoSize /\ iconSize \in IconSizes \cup {0}
  /\ zoomedContainer \in Containers \cup {NoContainer}
  /\ visibleUnderlays \in {{}, {Hypervisor[d] : d \in Underlay}}
  /\ arrived = FALSE
  /\ backgroundOffset = "none" /\ contextOffset = "none"
  /\ coords = FirstCoords
  /\ writes = {} /\ drops = 0
  /\ dropped = [d \in Icons |-> NotDropped]

LayoutNext ==
  \/ ReceiveLayouts
  \/ \E s \in Sizes : resize(s)
  \/ \E s \in IconSizes : iconSizeChanged(s)
  \/ \E c \in Containers : containerZoomToggled(c) \/ underlayToggled(c)
  \/ \E o \in Offsets : ReceiveOffset(o)
  \/ \E d \in Icons, p \in Places : moveIcon(d, p)
  \/ \E w \in writes : ReceiveWrite(w)

LayoutSpec == LayoutInit /\ [][LayoutNext]_layoutVars

------------------------------------------------------------------------------
(* Properties.                                                               *)

\* When both its coordinates have been stored, an icon is drawn again where it
\* was dropped, to the pixel, whenever the view is the one it was dropped in.
RedrawnWhereDropped ==
  \A d \in Icons :
    dropped[d].view = view /\ (\A w \in writes : w[1] # d) =>
      \A a \in 1..2 : IconPx(d)[a] - dropped[d].at[a] \in -1..1
==============================================================================
