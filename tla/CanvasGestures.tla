---------------------------- MODULE CanvasGestures ----------------------------
(***************************************************************************)
(* The gestures on the canvas of the web UI (features/topology): icons and *)
(* connections are selected, expanded, dragged and dropped, and links are  *)
(* added, moved and deleted by requests that are answered later.           *)
(*                                                                         *)
(* One topology is open, and all its icons are visible.  A drag is one of    *)
(* react-dnd: begin, hover, drop or cancel; what the handlers defer with     *)
(* requestAnimationFrame is a step of its own, which comes before the next   *)
(* gesture but perhaps not before the end of the drag.                       *)
(***************************************************************************)
EXTENDS Naturals, Sequences, FiniteSets

CONSTANTS IconOrder,    \* the devices, in the order their icons are rendered
          FirstLinks,   \* the links <<aEndDevice, zEndDevice>> at the start
          MaxDrags,     \* bound: drags; none begins after a race
          NoDevice

Devices == {IconOrder[i] : i \in DOMAIN IconOrder}
Pairs   == Devices \X Devices
Unset   == <<NoDevice, NoDevice>>   \* both ends undefined

ASSUME CanvasAssumption ==
  /\ IconOrder \in Seq(Devices) /\ NoDevice \notin Devices
  /\ FirstLinks \subseteq {l \in Pairs : l[1] # l[2]}
  /\ \A l, m \in FirstLinks : {l[1], l[2]} = {m[1], m[2]} => l = m
  /\ MaxDrags \in Nat

VARIABLES
  editMode, expandedIcons,   \* topologySlice
  selectedIcon,              \* ... a device or NoDevice
  selectedConnection,        \* ... {}, or the set of one pair, which may be Unset
  draggedItem, hoveredIcon,  \* ... the device that a drag marks, or NoDevice
  drag,      \* react-dnd: what is dragged, from where
  over,      \* ... the icon below the pointer
  frame,     \* the drag whose callback waits for the next frame, or NoDrag
  links,     \* the answered links
  edits,     \* requests that are not answered
  before,    \* history: what was selected when the drag began
  meant,     \* history: the links as the user has drawn them
  raced,     \* history: see Races
  drags      \* how many drags were begun

canvasVars == <<editMode, expandedIcons, selectedIcon, selectedConnection, draggedItem,
                hoveredIcon, drag, over, frame, links, edits, before, meant, raced, drags>>

selection == <<selectedIcon, selectedConnection>>

\* "frame": a drag ended before its frame.  "hop": the pointer went from one
\* icon right to another.  "hasty": a link was drawn while the last change of
\* the links was not answered, or with a link that is gone.  "refused": the server refused a request.
Races == {"frame", "hop", "hasty", "refused"}

Drags == [kind: {"none", "icon", "interface"}, from: Devices \cup {NoDevice},
          link: Pairs \cup {Unset}, end: 0..2]

NoDrag == [kind |-> "none", from |-> NoDevice, link |-> Unset, end |-> 0]

Edits == ({"create", "delete"} \X Pairs) \cup ({"move"} \X (Devices \X {NoDevice}))

\* Every variable has its type.
CanvasTypeOK ==
  /\ editMode \in BOOLEAN /\ expandedIcons \subseteq Devices
  /\ selectedIcon \in Devices \cup {NoDevice}
  /\ selectedConnection \subseteq Pairs \cup {Unset} /\ Cardinality(selectedConnection) <= 1
  /\ draggedItem \in Devices \cup {NoDevice} /\ hoveredIcon \in Devices \cup {NoDevice}
  /\ drag \in Drags /\ frame \in Drags
  /\ over \in Devices \cup {NoDevice}
  /\ links \subseteq Pairs /\ meant \subseteq Pairs
  /\ edits \subseteq Edits
  /\ raced \subseteq Races
  /\ drags \in 0..MaxDrags

------------------------------------------------------------------------------
(* The reducers of the selection.                                            *)

connectionSelected(p) ==
  /\ selectedConnection' = IF selectedConnection = {p} THEN {} ELSE {p}
  /\ selectedIcon' = NoDevice

iconSelected(d) ==
  /\ selectedIcon' = IF selectedIcon = d THEN NoDevice ELSE d
  /\ selectedConnection' = {}

editModeToggled ==
  /\ drag = NoDrag /\ frame = NoDrag
  /\ editMode' = ~editMode
  /\ expandedIcons' = {}
  /\ UNCHANGED <<selection, draggedItem, hoveredIcon, drag, over, frame, links, edits, before,
                 meant, raced, drags>>

clickIcon(d) ==
  /\ drag = NoDrag /\ frame = NoDrag
  /\ \/ /\ editMode
        /\ iconSelected(d)
        /\ UNCHANGED expandedIcons
     \/ /\ ~editMode
        /\ edits = {} /\ raced = {}   \* bound: icons are expanded at rest only
        /\ expandedIcons' = (expandedIcons \ {d}) \cup ({d} \ expandedIcons)
        /\ UNCHANGED selection
  /\ UNCHANGED <<editMode, draggedItem, hoveredIcon, drag, over, frame, links, edits, before,
                 meant, raced, drags>>

connSelected(l) ==
  /\ drag = NoDrag /\ frame = NoDrag
  /\ editMode
  /\ connectionSelected(l)
  /\ UNCHANGED <<editMode, expandedIcons, draggedItem, hoveredIcon, drag, over, frame, links,
                 edits, before, meant, raced, drags>>

\* The click on the button goes on to the connection, which is deselected.
deleteConn(l) ==
  /\ drag = NoDrag /\ frame = NoDrag
  /\ editMode /\ selectedConnection = {l}
  /\ connectionSelected(l)
  /\ edits' = edits \cup {<<"delete", l>>}
  /\ meant' = meant \ {l}
  /\ UNCHANGED <<editMode, expandedIcons, draggedItem, hoveredIcon, drag, over, frame, links,
                 before, raced, drags>>

------------------------------------------------------------------------------
(* Hovering.                                                                 *)

\* useConnectedDevices
Connected(d, ls) == {IF l[1] = d THEN l[2] ELSE l[1] : l \in {m \in ls : d \in {m[1], m[2]}}}

\* Mutant: an interface may be dropped on a device it is connected to.
canDrop_Connected(dr, o, ls) ==
  IF dr.kind = "interface" /\ o # NoDevice /\ o # dr.from THEN {o} ELSE {}

\* The icons whose drop target says canDrop: the one below the pointer, if any.
canDrop(dr, o, ls) ==
  IF dr.kind = "interface" /\ o # NoDevice /\ o # dr.from /\ dr.from \notin Connected(o, ls)
  THEN {o} ELSE {}

\* Mutant: the icon that the pointer has left does not dispatch.
iconHovered_Kept(before_, after) ==
  hoveredIcon' = IF after = {} THEN hoveredIcon ELSE CHOOSE d \in after : TRUE

\* The icons whose canDrop changes dispatch iconHovered, in their order.
iconHovered(before_, after) ==
  LET changed == {i \in DOMAIN IconOrder :
                    (IconOrder[i] \in before_) # (IconOrder[i] \in after)}
      last    == IconOrder[CHOOSE i \in changed : \A j \in changed : j <= i]
  IN hoveredIcon' = IF changed = {} THEN hoveredIcon
                    ELSE IF last \in after THEN last ELSE NoDevice

Hover(o) ==
  /\ drag # NoDrag /\ o # over
  /\ over' = o
  /\ iconHovered(canDrop(drag, over, links), canDrop(drag, o, links))
  /\ raced' = IF NoDevice \in {over, o} THEN raced ELSE raced \cup {"hop"}
  /\ UNCHANGED <<editMode, expandedIcons, selection, draggedItem, drag, frame, links, edits,
                 before, meant, drags>>

------------------------------------------------------------------------------
(* Dragging.                                                                 *)

BeginDrag(dr) ==
  /\ drag = NoDrag /\ frame = NoDrag
  /\ editMode /\ drags < MaxDrags /\ raced = {}
  /\ drag' = dr /\ over' = NoDevice
  /\ frame' = dr
  /\ before' = selection
  /\ drags' = drags + 1
  /\ UNCHANGED <<editMode, expandedIcons, selection, draggedItem, hoveredIcon, links, edits,
                 meant, raced>>

\* Icon: useDrag of type ICON.
DragIcon(d) == BeginDrag([kind |-> "icon", from |-> d, link |-> Unset, end |-> 0])

\* The interface of a selected icon, from which a link is added.
DragNewLink(d) ==
  selectedIcon = d /\ BeginDrag([kind |-> "interface", from |-> d, link |-> Unset, end |-> 0])

\* One of the interfaces of a selected connection: the end that is moved, from
\* the device at the other one.
DragLinkEnd(l, e) ==
  selectedConnection = {l}
  /\ BeginDrag([kind |-> "interface", from |-> l[3 - e], link |-> l, end |-> e])

\* The callback of requestAnimationFrame.
AnimationFrame ==
  /\ frame # NoDrag
  /\ draggedItem' = frame.from
  /\ IF frame.kind = "interface" THEN connectionSelected(Unset) ELSE UNCHANGED selection
  /\ frame' = NoDrag
  /\ UNCHANGED <<editMode, expandedIcons, hoveredIcon, drag, over, links, edits, before, meant,
                 raced, drags>>

\* The link that is dropped on device d.
Dropped(dr, d) == CASE dr.end = 1 -> <<d, dr.from>> [] OTHER -> <<dr.from, d>>

\* Mutant: the link that is moved is not deleted.
Moves_Copy(dr) == {}

\* The link that a drop deletes.
Moves(dr) == {dr.link} \ {Unset}

\* What every drag ends with.
Ends ==
  /\ drag' = NoDrag /\ over' = NoDevice
  /\ draggedItem' = NoDevice
  /\ iconHovered(canDrop(drag, over, links), {})
  /\ before' = <<NoDevice, {}>>
  /\ UNCHANGED <<editMode, expandedIcons, frame, links, drags>>

DropLink ==
  /\ over \in canDrop(drag, over, links)
  /\ LET l == Dropped(drag, over)
     IN /\ edits' = edits \cup {<<"delete", m>> : m \in Moves(drag)} \cup {<<"create", l>>}
        /\ connectionSelected(l)
        /\ meant' = (meant \ {drag.link}) \cup {l}
  /\ raced' = raced \cup (IF frame # NoDrag THEN {"frame"} ELSE {})
                    \cup (IF Moves(drag) \subseteq links /\ \A e \in edits : e[1] = "move"
                          THEN {} ELSE {"hasty"})
  /\ Ends

\* Mutant: the connection is not selected again.
Reselect_Not(dr) == UNCHANGED selection

\* interfaceSource.endDrag, when nothing was dropped.
Reselect(dr) == IF dr.link = Unset THEN iconSelected(dr.from) ELSE connectionSelected(dr.link)

Cancel ==
  /\ drag.kind = "interface"
  /\ Reselect(drag)
  /\ raced' = raced \cup (IF frame # NoDrag THEN {"frame"} ELSE {})
  /\ UNCHANGED <<edits, meant>>
  /\ Ends

\* moveIcon: the two coordinates are set.
DropIcon ==
  /\ drag.kind = "icon"
  /\ edits' = edits \cup {<<"move", <<drag.from, NoDevice>>>>}
  /\ raced' = raced \cup (IF frame # NoDrag THEN {"frame"} ELSE {})
  /\ UNCHANGED <<selection, meant>>
  /\ Ends

------------------------------------------------------------------------------
(* What is drawn during a drag.                                              *)

\* CustomDragLayer: the icons from which lines are drawn.
fromIcons ==
  CASE draggedItem = NoDevice    -> {}
    [] drag.kind = "interface"   -> {draggedItem}
    [] OTHER                     -> Connected(draggedItem, links)

\* DragLayerDrawer: the lines, each to an icon or, as NoDevice, to the pointer.
Preview ==
  CASE drag.kind = "icon"      -> {<<f, NoDevice>> : f \in fromIcons}
    [] drag.kind = "interface" -> {<<f, hoveredIcon>> : f \in fromIcons}
    [] OTHER                   -> {}

------------------------------------------------------------------------------
(* The answers to the requests, in any order, and a reload of the page.      *)

Answered(e) ==
  CASE e[1] = "create" -> links \cup {e[2]}
    [] e[1] = "delete" -> links \ {e[2]}
    [] e[1] = "move"   -> links

\* A request is refused if its link is there already, or is gone, or for
\* another reason.
ReceiveEdit(e) ==
  /\ e \in edits
  /\ edits' = edits \ {e}
  /\ \/ links' = Answered(e) /\ UNCHANGED raced
     \/ links' = links /\ raced' = raced \cup {"refused"}
  /\ iconHovered(canDrop(drag, over, links), canDrop(drag, over, links'))
  /\ UNCHANGED <<editMode, expandedIcons, selection, draggedItem, drag, over, frame, before,
                 meant, drags>>

\* redux-persist keeps the expanded icons, and nothing else of these.
Reload ==
  /\ drag = NoDrag /\ edits = {}
  /\ editMode' = FALSE
  /\ selectedIcon' = NoDevice /\ selectedConnection' = {}
  /\ draggedItem' = NoDevice /\ hoveredIcon' = NoDevice
  /\ frame' = NoDrag
  /\ UNCHANGED <<expandedIcons, drag, over, links, edits, before, meant, raced, drags>>

CanvasInit ==
  /\ editMode = FALSE /\ expandedIcons = {}
  /\ selectedIcon = NoDevice /\ selectedConnection = {}
  /\ draggedItem = NoDevice /\ hoveredIcon = NoDevice
  /\ drag = NoDrag /\ over = NoDevice /\ frame = NoDrag
  /\ links = FirstLinks /\ edits = {}
  /\ before = <<NoDevice, {}>>
  /\ meant = FirstLinks /\ raced = {} /\ drags = 0

CanvasNext ==
  \/ editModeToggled \/ AnimationFrame \/ DropLink \/ Cancel \/ DropIcon \/ Reload
  \/ \E d \in Devices : clickIcon(d) \/ DragIcon(d) \/ DragNewLink(d)
  \/ \E l \in links : connSelected(l) \/ deleteConn(l) \/ \E e \in 1..2 : DragLinkEnd(l, e)
  \/ \E o \in Devices \cup {NoDevice} : Hover(o)
  \/ \E e \in edits : ReceiveEdit(e)

CanvasSpec == CanvasInit /\ [][CanvasNext]_canvasVars

------------------------------------------------------------------------------
(* Properties.                                                               *)

\* No link joins a device to itself, and no two links join the same devices,
\* unless links were drawn faster than the server answered.
NoParallelLinks ==
  raced \cap {"hasty", "refused"} = {} =>
    /\ \A l \in links : l[1] # l[2]
    /\ \A l, m \in links : {l[1], l[2]} = {m[1], m[2]} => l = m

\* When every request has been answered, and none was refused, the links are
\* those the user has drawn: a link that was moved is not left behind.
LinksAsMeant == edits = {} /\ raced \cap {"hasty", "refused"} = {} => links = meant

\* The line that is drawn for a link ends at the icon that will take it, or at
\* the pointer if none will, also when a link was answered meanwhile.
PreviewTruthful ==
  raced = {} /\ drag.kind = "interface" /\ frame = NoDrag =>
    Preview = {<<drag.from, o>> : o \in
                 LET target == canDrop(drag, over, links)
                 IN IF target = {} THEN {NoDevice} ELSE target}

\* A drag that is given up leaves the selection as it was when it began, and
\* no drag leaves a mark of its own behind.
DragLeavesNoTrace ==
  [][drag # NoDrag /\ drag' = NoDrag /\ raced' \cap {"frame", "hop"} = {} =>
       /\ draggedItem' = NoDevice /\ hoveredIcon' = NoDevice
       /\ Cancel => selection' = before]_canvasVars
==============================================================================
