------------------------------ MODULE ServiceMenu ------------------------------
(***************************************************************************)
(* The menu of the web UI (features/menu): the panes of topologies,        *)
(* services and the nodes in them, of which one per level is open, the     *)
(* icons that the open service highlights, the form for a new item, and    *)
(* the overlay (features/nso) that shields the menu while the form is open  *)
(* or the topology is edited.                                              *)
(*                                                                         *)
(* A dispatch and the effects of the render that follows it are one step.  *)
(* Requests are answered later, with or without success: the promise of a  *)
(* mutation is kept in both cases.                                         *)
(***************************************************************************)
EXTENDS Naturals, Sequences, FiniteSets

CONSTANTS TopologyPanes, ServicePanes, NodePanes,   \* what may be in the menu
          Managed,      \* the services that a managed topology holds
          Creatable,    \* the services for which there may be a CreatableService
          Lists,        \* the lists with a form for a new item
          DeviceLists,  \* what /modified/devices may be, sets of icons
          MaxDeletes, MaxCreates,   \* bounds: requests that are not answered
          NoPane, NotFetched

Levels  == {"topology", "service", "node"}
Panes   == TopologyPanes \cup ServicePanes \cup NodePanes
LevelOf(p) == CASE p \in TopologyPanes -> "topology"
                [] p \in ServicePanes  -> "service"
                [] OTHER               -> "node"

ASSUME MenuAssumption ==
  /\ Managed \subseteq ServicePanes /\ Creatable \subseteq ServicePanes \ Managed
  /\ TopologyPanes \cap ServicePanes = {}
  /\ NoPane \notin Panes /\ NotFetched \notin DeviceLists /\ {} \in DeviceLists
  /\ MaxDeletes \in Nat /\ MaxCreates \in Nat

VARIABLES
  panes,        \* the panes in the menu
  deployed,     \* the managed services that the managed topology has deployed
  openPane,     \* menuSlice and the lists of nodes: the keypath open on a level
  deviceList,   \* the fetched devices of a service
  highlighted,  \* topologySlice.highlightedIcons, where undefined is no icon
  deletes,      \* the calls of deleteNode that wait for their answer
  creates,      \* the calls of create of a form that wait for their answer
  newItemOpen,  \* the lists whose form is open
  editing,      \* topologySlice.editMode
  bodyOverlayVisible,   \* nsoSlice
  page,         \* "open", "leaving" (stopThenGoToUrl) or "left"
  menuRaced     \* history: see MenuRaces

menuVars == <<panes, deployed, openPane, deviceList, highlighted, deletes, creates,
              newItemOpen, editing, bodyOverlayVisible, page, menuRaced>>

requests == <<deletes, creates>>
overlays == <<newItemOpen, editing, bodyOverlayVisible>>

\* "deleting": a pane was toggled between its delete and the answer.
\* "rekeyed": an open service got another keypath.  "elsewhere": an open pane
\* was removed by another session.  "reloaded": with a delete unanswered.
\* "cancelled": a form was closed while it was creating.  "twice": it was
\* submitted again while it was creating, so that the second answer closes it
\* when the topology may be edited already.
MenuRaces == {"deleting", "rekeyed", "elsewhere", "reloaded", "cancelled", "twice"}

\* useData: the keypath that opens and closes a pane.
Keypath(p, dep) == <<p, p \in Managed => p \in dep>>

Keypaths == (Panes \X BOOLEAN) \cup {<<NoPane, FALSE>>}
Closed   == <<NoPane, FALSE>>

\* Every variable has its type.
MenuTypeOK ==
  /\ panes \subseteq Panes /\ deployed \subseteq Managed
  /\ openPane \in [Levels -> Keypaths]
  /\ deviceList \in [ServicePanes -> DeviceLists \cup {NotFetched}]
  /\ highlighted \in DeviceLists
  /\ deletes \in Seq([pane: Panes, isOpen: BOOLEAN]) /\ Len(deletes) <= MaxDeletes
  /\ creates \in Seq(Lists) /\ Len(creates) <= MaxCreates
  /\ newItemOpen \subseteq Lists /\ editing \in BOOLEAN /\ bodyOverlayVisible \in BOOLEAN
  /\ page \in {"open", "leaving", "left"} /\ menuRaced \subseteq MenuRaces

\* The overlay is above the menu and the viewers at its sides.
Reachable == page # "left" /\ ~bodyOverlayVisible

IsOpen(p) == openPane[LevelOf(p)] = Keypath(p, deployed)

------------------------------------------------------------------------------
(* Opening and closing.                                                      *)

\* The reducers, and setOpenNode.
Toggled(open, level, k) == [open EXCEPT ![level] = IF @ = k THEN Closed ELSE k]

\* Mutant: serviceToggled leaves the highlighted icons.
Cleared_Not(open) == highlighted

\* The extra reducer of serviceToggled.
Cleared(open) == {}

\* Mutant: devices that are not fetched are highlighted, too.
Highlights_Unfetched(open, shown, lists, otherwise) ==
  LET opened == {s \in ServicePanes \cap shown : open["service"] = Keypath(s, deployed)}
  IN IF opened = {} THEN otherwise ELSE lists[CHOOSE s \in opened : TRUE]

\* What the effect of the service pane dispatches: its highlighted icons when
\* it is open, and nothing when it was closed.
Highlights(open, shown, lists, otherwise) ==
  LET opened == {s \in ServicePanes \cap shown : open["service"] = Keypath(s, deployed)}
  IN IF opened = {} THEN otherwise
     ELSE LET s == CHOOSE s \in opened : TRUE
          IN IF lists[s] = NotFetched THEN {} ELSE lists[s]

ToggleKey(level, k, shown) ==
  /\ openPane' = Toggled(openPane, level, k)
  /\ highlighted' = IF level # "service" THEN highlighted
                    ELSE Highlights(openPane', shown, deviceList, Cleared(openPane'))

\* The header of a pane is clicked.
toggle(p) ==
  /\ Reachable /\ p \in panes
  /\ ToggleKey(LevelOf(p), Keypath(p, deployed), panes)
  /\ UNCHANGED <<panes, deployed, deviceList, requests, overlays, page, menuRaced>>

\* CreatableService: its payload is not an object, so that whatever is open closes.
toggleCreatable(s) ==
  /\ Reachable /\ s \in Creatable \ panes
  /\ openPane' = [openPane EXCEPT !["service"] = Closed]
  /\ highlighted' = {}
  /\ UNCHANGED <<panes, deployed, deviceList, requests, overlays, page, menuRaced>>

\* The devices of a service are fetched, also again.
ReceiveDevices(s, ds) ==
  /\ page # "left" /\ s \in panes /\ deviceList[s] # ds
  /\ deviceList' = [deviceList EXCEPT ![s] = ds]
  /\ highlighted' = IF IsOpen(s) THEN Highlights(openPane, panes, deviceList', {})
                    ELSE highlighted
  /\ UNCHANGED <<panes, deployed, openPane, requests, overlays, page, menuRaced>>

\* A managed topology deploys a service, whose own data has another keypath.
Deploy(s) ==
  /\ page # "left" /\ s \in (Managed \cap panes) \ deployed
  /\ deployed' = deployed \cup {s}
  /\ menuRaced' = IF IsOpen(s) THEN menuRaced \cup {"rekeyed"} ELSE menuRaced
  /\ UNCHANGED <<panes, openPane, deviceList, highlighted, requests, overlays, page>>

------------------------------------------------------------------------------
(* Deleting and creating.                                                    *)

\* A service of a managed topology has no button for it.
deleteNode(p) ==
  /\ Reachable /\ p \in panes \ Managed /\ Len(deletes) < MaxDeletes
  /\ deletes' = Append(deletes, [pane |-> p, isOpen |-> IsOpen(p)])
  /\ UNCHANGED <<panes, deployed, openPane, deviceList, highlighted, creates, overlays, page,
                 menuRaced>>

\* Mutant: the deleted pane is not closed.
Closes_Not(d) == FALSE

\* What deleteNode knows of the pane is from before it waited.
Closes(d) == d.isOpen

ReceiveDelete ==
  /\ page # "left" /\ deletes # <<>>
  /\ LET d == Head(deletes)
         k == Keypath(d.pane, deployed)
     IN /\ panes' \in {panes, panes \ {d.pane}}
        /\ IF Closes(d) THEN ToggleKey(LevelOf(d.pane), k, panes')
           ELSE UNCHANGED <<openPane, highlighted>>
        /\ menuRaced' = IF d.isOpen # IsOpen(d.pane) THEN menuRaced \cup {"deleting"}
                        ELSE menuRaced
  /\ deletes' = Tail(deletes)
  /\ UNCHANGED <<deployed, deviceList, creates, overlays, page>>

\* Another session deletes what a pane shows, or creates it; the drop of a
\* device on a list creates a node.
ChangeElsewhere(p) ==
  /\ page # "left"
  /\ \/ /\ p \in panes
        /\ panes' = panes \ {p}
        /\ menuRaced' = IF IsOpen(p) THEN menuRaced \cup {"elsewhere"} ELSE menuRaced
     \/ p \notin panes /\ panes' = panes \cup {p} /\ UNCHANGED menuRaced
  /\ UNCHANGED <<deployed, openPane, deviceList, highlighted, requests, overlays, page>>

openNewItem(l) ==
  /\ Reachable /\ page = "open"
  /\ newItemOpen' = newItemOpen \cup {l}
  /\ bodyOverlayVisible' = TRUE
  /\ UNCHANGED <<panes, deployed, openPane, deviceList, highlighted, requests, editing, page,
                 menuRaced>>

closeNewItem(l) ==
  /\ page # "left" /\ l \in newItemOpen
  /\ newItemOpen' = newItemOpen \ {l}
  /\ bodyOverlayVisible' = FALSE
  /\ menuRaced' = IF \E i \in DOMAIN creates : creates[i] = l
                  THEN menuRaced \cup {"cancelled"} ELSE menuRaced
  /\ UNCHANGED <<panes, deployed, openPane, deviceList, highlighted, requests, editing, page>>

\* NewItem.create, with a name.
create(l) ==
  /\ page # "left" /\ l \in newItemOpen /\ Len(creates) < MaxCreates
  /\ creates' = Append(creates, l)
  /\ menuRaced' = IF creates = <<>> THEN menuRaced ELSE menuRaced \cup {"twice"}
  /\ UNCHANGED <<panes, deployed, openPane, deviceList, highlighted, deletes, overlays, page>>

\* The item and its defaults are created, or are not: the form closes and the
\* page goes to the item.
ReceiveCreate ==
  /\ page # "left" /\ creates # <<>>
  /\ newItemOpen' = newItemOpen \ {Head(creates)}
  /\ bodyOverlayVisible' = FALSE
  /\ creates' = Tail(creates)
  /\ page' = "leaving"
  /\ UNCHANGED <<panes, deployed, openPane, deviceList, highlighted, deletes, editing,
                 menuRaced>>

------------------------------------------------------------------------------
(* Editing, leaving and reloading.                                           *)

\* Mutant: the overlay stays when editing ends.
OverlayWhile_Editing(on) == bodyOverlayVisible \/ on

\* The extra reducer of editModeToggled.
OverlayWhile(on) == on

\* The button is below the overlay, unless the topology is edited.
toggleEditMode ==
  /\ page # "left" /\ (editing \/ ~bodyOverlayVisible)
  /\ editing' = ~editing
  /\ bodyOverlayVisible' = OverlayWhile(~editing)
  /\ UNCHANGED <<panes, deployed, openPane, deviceList, highlighted, requests, newItemOpen,
                 page, menuRaced>>

\* goToNode, redeploy, createNode, libvirtAction and goToCommitManager.
goToUrl ==
  /\ page = "open" /\ page' = "leaving"
  /\ UNCHANGED <<panes, deployed, openPane, deviceList, highlighted, requests, overlays,
                 menuRaced>>

Leave ==
  /\ page = "leaving" /\ page' = "left"
  /\ UNCHANGED <<panes, deployed, openPane, deviceList, highlighted, requests, overlays,
                 menuRaced>>

\* The page is reloaded, or the user comes back to it: redux-persist has kept
\* openTopology and openService.
ReturnToPage ==
  /\ page' = "open"
  /\ panes' \in {panes \ {deletes[i].pane : i \in D} : D \in SUBSET DOMAIN deletes}
  /\ openPane' = [openPane EXCEPT !["node"] = Closed]
  /\ deviceList' = [s \in ServicePanes |-> NotFetched]
  /\ highlighted' = {}
  /\ deletes' = <<>> /\ creates' = <<>> /\ newItemOpen' = {}
  /\ editing' = FALSE /\ bodyOverlayVisible' = FALSE
  /\ menuRaced' = IF deletes = <<>> THEN menuRaced ELSE menuRaced \cup {"reloaded"}
  /\ UNCHANGED deployed

MenuInit ==
  /\ panes = Panes \ Creatable /\ deployed = {}
  /\ openPane = [l \in Levels |-> Closed]
  /\ deviceList = [s \in ServicePanes |-> NotFetched] /\ highlighted = {}
  /\ deletes = <<>> /\ creates = <<>> /\ newItemOpen = {}
  /\ editing = FALSE /\ bodyOverlayVisible = FALSE
  /\ page = "open" /\ menuRaced = {}

\* Bound: what follows a race is not explored.
MenuNext == menuRaced = {} /\ (
  \/ \E p \in Panes : toggle(p) \/ deleteNode(p) \/ ChangeElsewhere(p)
  \/ \E s \in ServicePanes : toggleCreatable(s) \/ Deploy(s)
                             \/ \E ds \in DeviceLists : ReceiveDevices(s, ds)
  \/ \E l \in Lists : openNewItem(l) \/ closeNewItem(l) \/ create(l)
  \/ ReceiveDelete \/ ReceiveCreate \/ toggleEditMode \/ goToUrl \/ Leave \/ ReturnToPage)

MenuSpec == MenuInit /\ [][MenuNext]_menuVars

------------------------------------------------------------------------------
(* Properties.                                                               *)

\* What is open in the menu is there: a deleted topology, service or node does
\* not stay open, which would leave all the others faded and its icons
\* highlighted, with no pane to close it.
OpenPanesExist ==
  menuRaced \ {"cancelled", "twice"} = {} =>
    \A l \in Levels : openPane[l] = Closed
      \/ \E p \in panes : LevelOf(p) = l /\ openPane[l] = Keypath(p, deployed)

\* The highlighted icons are those of the open service, and none when no
\* service is open.
HighlightsFollowService ==
  menuRaced \ {"cancelled", "twice"} = {} =>
    highlighted = UNION {deviceList[s] : s \in
      {t \in ServicePanes : IsOpen(t) /\ deviceList[t] # NotFetched}}

\* The overlay shields the menu exactly while a form is open or the topology
\* is edited, unless a form was closed, or submitted again, while it was creating
\* its item.
OverlayShields ==
  menuRaced \cap {"cancelled", "twice"} = {} =>
    bodyOverlayVisible = (editing \/ newItemOpen # {})
==============================================================================
