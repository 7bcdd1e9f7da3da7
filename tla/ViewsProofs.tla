------------------------------ MODULE ViewsProofs ------------------------------
(***************************************************************************)
(* Proofs about the views of the web UI: the menu and its overlay, the     *)
(* panels that open and are fetched, the lines between icons, the          *)
(* configuration of a device, the gestures on the canvas and its layout.   *)
(***************************************************************************)
EXTENDS MCViews, FiniteSetTheorems, SequenceTheorems, WellFoundedInduction, TLAPS

------------------------------------------------------------------------------
(* The menu: types.                                                          *)

LEMMA KeypathType ==
  ASSUME NEW p \in Panes, NEW dep
  PROVE  /\ Keypath(p, dep) \in Keypaths /\ Keypath(p, dep) # Closed
         /\ \A q, e : Keypath(q, e) = Keypath(p, dep) => q = p
         /\ LevelOf(p) \in Levels
BY MenuAssumption DEF Keypath, Keypaths, Closed, LevelOf, Levels

\* What the effect of the open service dispatches is a set of icons.
LEMMA HighlightsType ==
  ASSUME NEW open, NEW visible, NEW lists \in [ServicePanes -> DeviceLists \cup {NotFetched}],
         NEW otherwise \in DeviceLists
  PROVE  Highlights(open, visible, lists, otherwise) \in DeviceLists
<1> DEFINE opened == {s \in ServicePanes \cap visible : open["service"] = Keypath(s, deployed)}
<1>1. CASE opened = {}
  BY <1>1 DEF Highlights
<1>2. CASE opened # {}
  <2>1. (CHOOSE s \in opened : TRUE) \in ServicePanes
    BY <1>2
  <2> QED BY <1>2, <2>1, MenuAssumption DEF Highlights
<1> QED BY <1>1, <1>2

LEMMA ToggleType ==
  ASSUME MenuTypeOK, NEW p \in Panes, NEW visible,
         ToggleKey(LevelOf(p), Keypath(p, deployed), visible)
  PROVE  openPane' \in [Levels -> Keypaths] /\ highlighted' \in DeviceLists
<1>1. Keypath(p, deployed) \in Keypaths /\ Closed \in Keypaths
  BY KeypathType DEF Closed, Keypaths
<1>2. openPane' = [openPane EXCEPT ![LevelOf(p)] = IF @ = Keypath(p, deployed) THEN Closed
                                                   ELSE Keypath(p, deployed)]
  BY DEF ToggleKey, Toggled
<1>3. openPane' \in [Levels -> Keypaths]
  BY <1>1, <1>2 DEF MenuTypeOK
<1>4. Cleared(openPane') \in DeviceLists
  BY MenuAssumption DEF Cleared
<1>5. Highlights(openPane', visible, deviceList, Cleared(openPane')) \in DeviceLists
  BY <1>4, HighlightsType DEF MenuTypeOK
<1> QED BY <1>3, <1>5 DEF ToggleKey, MenuTypeOK

LEMMA MenuTypeStep ==
  ASSUME MenuTypeOK, [MenuNext]_menuVars
  PROVE  MenuTypeOK'
<1> USE MenuAssumption
<1>0. Closed \in Keypaths
  BY DEF Closed, Keypaths
<1>1. ASSUME NEW p \in Panes, toggle(p)
      PROVE  MenuTypeOK'
  BY <1>1, ToggleType DEF toggle, requests, overlays, MenuTypeOK
<1>2. ASSUME NEW p \in Panes, deleteNode(p)
      PROVE  MenuTypeOK'
  <2>1. [pane |-> p, isOpen |-> IsOpen(p)] \in [pane: Panes, isOpen: BOOLEAN]
    BY DEF IsOpen
  <2>2. deletes' \in Seq([pane: Panes, isOpen: BOOLEAN]) /\ Len(deletes') <= MaxDeletes
    BY <1>2, <2>1 DEF deleteNode, MenuTypeOK
  <2> QED BY <1>2, <2>2 DEF deleteNode, overlays, MenuTypeOK
<1>3. ASSUME NEW p \in Panes, ChangeElsewhere(p)
      PROVE  MenuTypeOK'
  BY <1>3 DEF ChangeElsewhere, requests, overlays, MenuTypeOK, MenuRaces
<1>4. ASSUME NEW s \in ServicePanes, toggleCreatable(s)
      PROVE  MenuTypeOK'
  BY <1>0, <1>4 DEF toggleCreatable, requests, overlays, MenuTypeOK, Levels
<1>5. ASSUME NEW s \in ServicePanes, Deploy(s)
      PROVE  MenuTypeOK'
  BY <1>5 DEF Deploy, requests, overlays, MenuTypeOK, MenuRaces
<1>6. ASSUME NEW s \in ServicePanes, NEW ds \in DeviceLists, ReceiveDevices(s, ds)
      PROVE  MenuTypeOK'
  <2>1. deviceList' \in [ServicePanes -> DeviceLists \cup {NotFetched}]
    BY <1>6 DEF ReceiveDevices, MenuTypeOK
  <2>2. Highlights(openPane, panes, deviceList', {}) \in DeviceLists
    BY <2>1, HighlightsType
  <2> QED BY <1>6, <2>1, <2>2 DEF ReceiveDevices, requests, overlays, MenuTypeOK
<1>7. ASSUME NEW l \in Lists, openNewItem(l) \/ closeNewItem(l)
      PROVE  MenuTypeOK'
  BY <1>7 DEF openNewItem, closeNewItem, requests, MenuTypeOK, MenuRaces
<1>8. ASSUME NEW l \in Lists, create(l)
      PROVE  MenuTypeOK'
  <2>1. creates' \in Seq(Lists) /\ Len(creates') <= MaxCreates
    BY <1>8 DEF create, MenuTypeOK
  <2> QED BY <1>8, <2>1 DEF create, overlays, MenuTypeOK, MenuRaces
<1>9. CASE ReceiveDelete
  <2>1. deletes \in Seq([pane: Panes, isOpen: BOOLEAN]) /\ deletes # <<>>
    BY <1>9 DEF ReceiveDelete, MenuTypeOK
  <2>2. Head(deletes) \in [pane: Panes, isOpen: BOOLEAN]
        /\ deletes' \in Seq([pane: Panes, isOpen: BOOLEAN]) /\ Len(deletes') <= MaxDeletes
    <3> DEFINE D == [pane: Panes, isOpen: BOOLEAN]
    <3> HIDE DEF D
    <3>1. deletes \in Seq(D) /\ deletes # <<>> /\ deletes' = Tail(deletes)
      BY <1>9, <2>1 DEF ReceiveDelete, D
    <3>2. Head(deletes) \in D /\ Tail(deletes) \in Seq(D) /\ Len(Tail(deletes)) = Len(deletes) - 1
      BY <3>1
    <3>3. Len(deletes) \in Nat /\ Len(deletes) <= MaxDeletes
      BY <3>1 DEF MenuTypeOK
    <3> QED BY <3>1, <3>2, <3>3 DEF D
  <2>3. Head(deletes).pane \in Panes
    BY <2>2
  <2>4. openPane' \in [Levels -> Keypaths] /\ highlighted' \in DeviceLists
    BY <1>9, <2>3, ToggleType DEF ReceiveDelete, MenuTypeOK
  <2>5. panes' \subseteq Panes /\ menuRaced' \subseteq MenuRaces
    BY <1>9 DEF ReceiveDelete, MenuTypeOK, MenuRaces
  <2> QED BY <1>9, <2>2, <2>4, <2>5 DEF ReceiveDelete, overlays, MenuTypeOK
<1>10. CASE ReceiveCreate
  <2>1. creates' \in Seq(Lists) /\ Len(creates') <= MaxCreates
    BY <1>10 DEF ReceiveCreate, MenuTypeOK
  <2> QED BY <1>10, <2>1 DEF ReceiveCreate, MenuTypeOK
<1>11. CASE toggleEditMode
  BY <1>11 DEF toggleEditMode, OverlayWhile, requests, MenuTypeOK
<1>12. CASE goToUrl \/ Leave
  BY <1>12 DEF goToUrl, Leave, requests, overlays, MenuTypeOK
<1>13. CASE ReturnToPage
  <2>1. panes' \subseteq Panes
    BY <1>13 DEF ReturnToPage, MenuTypeOK
  <2>2. /\ deletes' \in Seq([pane: Panes, isOpen: BOOLEAN]) /\ Len(deletes') <= MaxDeletes
        /\ creates' \in Seq(Lists) /\ Len(creates') <= MaxCreates
    BY <1>13 DEF ReturnToPage
  <2>3. deviceList' \in [ServicePanes -> DeviceLists \cup {NotFetched}]
    BY <1>13 DEF ReturnToPage
  <2>4. openPane' \in [Levels -> Keypaths] /\ deployed' \subseteq Managed
    BY <1>0, <1>13 DEF ReturnToPage, MenuTypeOK
  <2> QED BY <1>13, <2>1, <2>2, <2>3, <2>4 DEF ReturnToPage, MenuTypeOK, MenuRaces
<1>14. CASE UNCHANGED menuVars
  BY <1>14 DEF menuVars, MenuTypeOK
<1> QED BY <1>1, <1>2, <1>3, <1>4, <1>5, <1>6, <1>7, <1>8, <1>9, <1>10, <1>11, <1>12, <1>13,
           <1>14 DEF MenuNext

------------------------------------------------------------------------------
(* The menu: what is open, what is highlighted, what is shielded.            *)

\* What is open is there.
PanesInv ==
  \A l \in Levels : openPane[l] = Closed
    \/ \E p \in panes : LevelOf(p) = l /\ openPane[l] = Keypath(p, deployed)

\* The icons of a service that is open.
IconsOf(open, dep, lists) ==
  UNION {lists[s] : s \in {t \in ServicePanes : /\ open["service"] = Keypath(t, dep)
                                               /\ lists[t] # NotFetched}}

\* At most one form is open, and none while the topology is edited; what is being
\* created comes from the form that is open.
FormInv ==
  /\ \A l, m \in newItemOpen : l = m
  /\ newItemOpen # {} => ~editing
  /\ creates = <<>> \/ \E l \in newItemOpen : creates = <<l>>
  /\ bodyOverlayVisible = (editing \/ newItemOpen # {})

\* The inductive invariant: nothing of it is claimed after a race.
MenuInv ==
  /\ MenuTypeOK
  /\ menuRaced \ {"cancelled", "twice"} = {} =>
       PanesInv /\ highlighted = IconsOf(openPane, deployed, deviceList)
  /\ menuRaced \cap {"cancelled", "twice"} = {} =>
       bodyOverlayVisible = (editing \/ newItemOpen # {})
  /\ menuRaced = {} => FormInv

LEMMA ServiceLevel ==
  /\ \A s \in ServicePanes : LevelOf(s) = "service"
  /\ \A p \in Panes : LevelOf(p) = "service" => p \in ServicePanes
BY MenuAssumption DEF LevelOf, Panes

LEMMA IconsNone ==
  ASSUME NEW open, NEW dep, NEW lists,
         \A t \in ServicePanes : open["service"] # Keypath(t, dep)
  PROVE  IconsOf(open, dep, lists) = {}
BY DEF IconsOf

LEMMA IconsOne ==
  ASSUME NEW open, NEW dep, NEW lists, NEW s \in ServicePanes,
         open["service"] = Keypath(s, dep)
  PROVE  IconsOf(open, dep, lists) = IF lists[s] = NotFetched THEN {} ELSE lists[s]
<1>1. \A t \in ServicePanes : open["service"] = Keypath(t, dep) <=> t = s
  BY KeypathType DEF Panes
<1> QED BY <1>1 DEF IconsOf

\* What the effect dispatches are the icons of the open service.
LEMMA HighlightsOpen ==
  ASSUME NEW open, NEW visible, NEW lists, NEW otherwise, NEW s \in ServicePanes \cap visible,
         open["service"] = Keypath(s, deployed)
  PROVE  Highlights(open, visible, lists, otherwise) = IconsOf(open, deployed, lists)
<1>1. \A t \in ServicePanes : open["service"] = Keypath(t, deployed) <=> t = s
  BY KeypathType DEF Panes
<1>2. {t \in ServicePanes \cap visible : open["service"] = Keypath(t, deployed)} = {s}
  BY <1>1
<1>3. (CHOOSE t \in {s} : TRUE) = s
  OBVIOUS
<1>4. Highlights(open, visible, lists, otherwise) = IF lists[s] = NotFetched THEN {} ELSE lists[s]
  BY <1>2, <1>3 DEF Highlights
<1> QED BY <1>4, IconsOne

\* A pane that is there is toggled, or one that was deleted is closed.
LEMMA ToggleKeeps ==
  ASSUME MenuTypeOK, PanesInv, highlighted = IconsOf(openPane, deployed, deviceList),
         NEW p \in Panes,
         ToggleKey(LevelOf(p), Keypath(p, deployed), panes'),
         UNCHANGED <<deployed, deviceList>>,
         panes \ {p} \subseteq panes', p \in panes' \/ IsOpen(p)
  PROVE  PanesInv' /\ highlighted' = IconsOf(openPane, deployed, deviceList)'
<1> DEFINE k == Keypath(p, deployed)
<1>1. LevelOf(p) \in Levels /\ k # Closed
  BY KeypathType
<1>2. /\ openPane'[LevelOf(p)] = IF openPane[LevelOf(p)] = k THEN Closed ELSE k
      /\ \A l \in Levels : l # LevelOf(p) => openPane'[l] = openPane[l]
      /\ highlighted' = IF LevelOf(p) # "service" THEN highlighted
                        ELSE Highlights(openPane', panes', deviceList, {})
  BY <1>1 DEF ToggleKey, Toggled, Cleared, MenuTypeOK
<1>3. PanesInv'
  <2> SUFFICES ASSUME NEW l \in Levels, openPane'[l] # Closed
               PROVE  \E q \in panes' : LevelOf(q) = l /\ openPane'[l] = Keypath(q, deployed)
    BY DEF PanesInv
  <2>1. CASE l = LevelOf(p)
    BY <1>2, <2>1 DEF IsOpen
  <2>2. CASE l # LevelOf(p)
    <3>1. PICK q \in panes : LevelOf(q) = l /\ openPane[l] = Keypath(q, deployed)
      BY <1>2, <2>2 DEF PanesInv
    <3>2. q # p
      BY <2>2, <3>1
    <3> QED BY <1>2, <2>2, <3>1, <3>2
  <2> QED BY <2>1, <2>2
<1>4. CASE LevelOf(p) # "service"
  <2>1. openPane'["service"] = openPane["service"]
    BY <1>2, <1>4 DEF Levels
  <2>2. IconsOf(openPane', deployed, deviceList) = IconsOf(openPane, deployed, deviceList)
    BY <2>1 DEF IconsOf
  <2> QED BY <1>2, <1>3, <1>4, <2>2
<1>5. CASE LevelOf(p) = "service"
  <2>1. p \in ServicePanes
    BY <1>5, ServiceLevel
  <2>2. CASE openPane'["service"] = Closed
    <3>1. \A t \in ServicePanes : openPane'["service"] # Keypath(t, deployed)
      BY <2>2, KeypathType DEF Panes
    <3>2. Highlights(openPane', panes', deviceList, {}) = {}
      BY <3>1 DEF Highlights
    <3> QED BY <1>2, <1>3, <1>5, <3>1, <3>2, IconsNone
  <2>3. CASE openPane'["service"] = k
    <3>1. p \in panes'
      BY <1>1, <1>2, <1>5, <2>3 DEF IsOpen
    <3>2. Highlights(openPane', panes', deviceList, {}) = IconsOf(openPane', deployed, deviceList)
      BY <2>1, <2>3, <3>1, HighlightsOpen
    <3> QED BY <1>2, <1>3, <1>5, <3>2
  <2> QED BY <1>2, <1>5, <2>2, <2>3
<1> QED BY <1>4, <1>5

\* One step: panes that are open stay there and are those that are highlighted.
LEMMA PanesStep ==
  ASSUME MenuInv, MenuNext, menuRaced' \ {"cancelled", "twice"} = {}
  PROVE  PanesInv' /\ highlighted' = IconsOf(openPane, deployed, deviceList)'
<1>0. menuRaced = {} /\ PanesInv /\ highlighted = IconsOf(openPane, deployed, deviceList)
      /\ MenuTypeOK
  BY DEF MenuNext, MenuInv
<1>1. CASE UNCHANGED <<panes, deployed, openPane, deviceList, highlighted>>
  <2>1. PanesInv'
    BY <1>0, <1>1 DEF PanesInv
  <2> QED BY <1>0, <1>1, <2>1
<1>2. ASSUME NEW p \in Panes, toggle(p)
      PROVE  PanesInv' /\ highlighted' = IconsOf(openPane, deployed, deviceList)'
  BY <1>0, <1>2, ToggleKeeps DEF toggle
<1>3. ASSUME NEW p \in Panes, ChangeElsewhere(p)
      PROVE  PanesInv' /\ highlighted' = IconsOf(openPane, deployed, deviceList)'
  <2>1. CASE p \in panes /\ panes' = panes \ {p}
    <3>1. ~IsOpen(p)
      BY <1>3, <2>1 DEF ChangeElsewhere
    <3>2. UNCHANGED <<deployed, openPane, deviceList, highlighted>>
      BY <1>3 DEF ChangeElsewhere
    <3>3. PanesInv'
      BY <1>0, <2>1, <3>1, <3>2 DEF PanesInv, IsOpen
    <3> QED BY <1>0, <3>2, <3>3
  <2>2. CASE panes' = panes \cup {p}
    <3>1. UNCHANGED <<deployed, openPane, deviceList, highlighted>>
      BY <1>3 DEF ChangeElsewhere
    <3>2. PanesInv'
      BY <1>0, <2>2, <3>1 DEF PanesInv
    <3> QED BY <1>0, <3>1, <3>2
  <2> QED BY <1>3, <2>1, <2>2 DEF ChangeElsewhere
<1>4. ASSUME NEW s \in ServicePanes, toggleCreatable(s)
      PROVE  PanesInv' /\ highlighted' = IconsOf(openPane, deployed, deviceList)'
  <2>1. /\ UNCHANGED <<panes, deployed, deviceList>> /\ highlighted' = {}
        /\ openPane'["service"] = Closed
        /\ \A l \in Levels : l # "service" => openPane'[l] = openPane[l]
    BY <1>0, <1>4 DEF toggleCreatable, MenuTypeOK, Levels
  <2>2. PanesInv'
    BY <1>0, <2>1 DEF PanesInv
  <2>3. \A t \in ServicePanes : openPane'["service"] # Keypath(t, deployed)
    BY <2>1, KeypathType DEF Panes
  <2> QED BY <2>1, <2>2, <2>3, IconsNone
<1>5. ASSUME NEW s \in ServicePanes, Deploy(s)
      PROVE  PanesInv' /\ highlighted' = IconsOf(openPane, deployed, deviceList)'
  <2>1. /\ UNCHANGED <<panes, openPane, deviceList, highlighted>>
        /\ deployed' = deployed \cup {s} /\ s \in Managed /\ s \notin deployed
        /\ ~IsOpen(s)
    BY <1>5 DEF Deploy
  <2>2. \A p \in Panes : p # s => Keypath(p, deployed') = Keypath(p, deployed)
    BY <2>1 DEF Keypath
  <2>3. s \in Panes
    BY DEF Panes
  <2>4. PanesInv'
    <3> SUFFICES ASSUME NEW l \in Levels, openPane[l] # Closed
                 PROVE  \E q \in panes : LevelOf(q) = l /\ openPane[l] = Keypath(q, deployed')
      BY <2>1 DEF PanesInv
    <3>1. PICK q \in panes : LevelOf(q) = l /\ openPane[l] = Keypath(q, deployed)
      BY <1>0 DEF PanesInv
    <3>2. q # s /\ q \in Panes
      BY <1>0, <2>1, <3>1 DEF IsOpen, MenuTypeOK
    <3> QED BY <2>2, <3>1, <3>2
  <2>5. openPane["service"] # Keypath(s, deployed) /\ openPane["service"] # Keypath(s, deployed')
    <3>1. openPane["service"] # Keypath(s, deployed)
      BY <2>1, ServiceLevel DEF IsOpen
    <3>2. CASE openPane["service"] = Keypath(s, deployed')
      <4>1. openPane["service"] # Closed
        BY <2>3, <3>2, KeypathType
      <4>2. PICK q \in panes : openPane["service"] = Keypath(q, deployed)
        BY <1>0, <4>1 DEF PanesInv, Levels
      <4>3. q = s
        BY <2>3, <3>2, <4>2, KeypathType
      <4> QED BY <3>1, <4>2, <4>3
    <3> QED BY <3>1, <3>2
  <2>6. \A t \in ServicePanes :
          openPane["service"] = Keypath(t, deployed') <=> openPane["service"] = Keypath(t, deployed)
    BY <2>2, <2>5 DEF Panes
  <2>7. IconsOf(openPane, deployed', deviceList) = IconsOf(openPane, deployed, deviceList)
    BY <2>6 DEF IconsOf
  <2> QED BY <1>0, <2>1, <2>4, <2>7
<1>6. ASSUME NEW s \in ServicePanes, NEW ds \in DeviceLists, ReceiveDevices(s, ds)
      PROVE  PanesInv' /\ highlighted' = IconsOf(openPane, deployed, deviceList)'
  <2>1. /\ UNCHANGED <<panes, deployed, openPane>> /\ s \in panes
        /\ \A t \in ServicePanes : t # s => deviceList'[t] = deviceList[t]
        /\ highlighted' = IF IsOpen(s) THEN Highlights(openPane, panes, deviceList', {})
                          ELSE highlighted
    BY <1>0, <1>6 DEF ReceiveDevices, MenuTypeOK
  <2>2. PanesInv'
    BY <1>0, <2>1 DEF PanesInv
  <2>3. IsOpen(s) <=> openPane["service"] = Keypath(s, deployed)
    BY ServiceLevel DEF IsOpen
  <2>4. CASE IsOpen(s)
    BY <2>1, <2>2, <2>3, <2>4, HighlightsOpen
  <2>5. CASE ~IsOpen(s)
    <3>1. IconsOf(openPane, deployed, deviceList') = IconsOf(openPane, deployed, deviceList)
      BY <2>1, <2>3, <2>5 DEF IconsOf
    <3> QED BY <1>0, <2>1, <2>2, <2>5, <3>1
  <2> QED BY <2>4, <2>5
<1>7. CASE ReceiveDelete
  <2> DEFINE d == Head(deletes)
  <2>1. d.pane \in Panes
    <3> DEFINE D == [pane: Panes, isOpen: BOOLEAN]
    <3>1. deletes \in Seq(D) /\ deletes # <<>>
      BY <1>0, <1>7 DEF ReceiveDelete, MenuTypeOK
    <3>2. Head(deletes) \in D
      <4> HIDE DEF D
      <4> QED BY <3>1
    <3> QED BY <3>2
  <2>2. /\ d.isOpen = IsOpen(d.pane)
        /\ panes' \in {panes, panes \ {d.pane}} /\ UNCHANGED <<deployed, deviceList>>
        /\ IF d.isOpen THEN ToggleKey(LevelOf(d.pane), Keypath(d.pane, deployed), panes')
           ELSE UNCHANGED <<openPane, highlighted>>
    BY <1>7 DEF ReceiveDelete, Closes
  <2>3. CASE d.isOpen
    BY <1>0, <2>1, <2>2, <2>3, ToggleKeeps
  <2>4. CASE ~d.isOpen
    <3>1. PanesInv'
      BY <1>0, <2>2, <2>4 DEF PanesInv, IsOpen
    <3> QED BY <1>0, <2>2, <2>4, <3>1
  <2> QED BY <2>3, <2>4
<1>8. CASE ReturnToPage
  <2>1. deletes = <<>>
    <3>1. menuRaced' = IF deletes = <<>> THEN {} ELSE {"reloaded"}
      BY <1>0, <1>8 DEF ReturnToPage
    <3> QED BY <3>1
  <2>a. panes' = panes
    <3>1. PICK D \in SUBSET DOMAIN deletes : panes' = panes \ {deletes[i].pane : i \in D}
      BY <1>8 DEF ReturnToPage
    <3>2. D = {}
      BY <2>1, <3>1
    <3> QED BY <3>1, <3>2
  <2>2. /\ UNCHANGED deployed /\ highlighted' = {}
        /\ \A s \in ServicePanes : deviceList'[s] = NotFetched
        /\ openPane'["node"] = Closed
        /\ \A l \in Levels : l # "node" => openPane'[l] = openPane[l]
    BY <1>0, <1>8 DEF ReturnToPage, MenuTypeOK, Levels
  <2>3. PanesInv'
    BY <1>0, <2>a, <2>2 DEF PanesInv
  <2>4. IconsOf(openPane', deployed, deviceList') = {}
    BY <2>2 DEF IconsOf
  <2> QED BY <2>2, <2>3, <2>4
<1> QED BY <1>1, <1>2, <1>3, <1>4, <1>5, <1>6, <1>7, <1>8
        DEF MenuNext, deleteNode, openNewItem, closeNewItem, create, ReceiveCreate,
            toggleEditMode, goToUrl, Leave


\* One step: the overlay shields the menu, and there is one form at a time.
LEMMA FormStep ==
  ASSUME MenuInv, MenuNext
  PROVE  /\ menuRaced' \cap {"cancelled", "twice"} = {} =>
              bodyOverlayVisible' = (editing' \/ newItemOpen' # {})
         /\ menuRaced' = {} => FormInv'
<1>0. menuRaced = {} /\ FormInv /\ MenuTypeOK
  BY DEF MenuNext, MenuInv
<1>1. CASE UNCHANGED <<overlays, creates>>
  BY <1>0, <1>1 DEF overlays, FormInv
<1>2. ASSUME NEW l \in Lists, openNewItem(l)
      PROVE  FormInv'
  <2>1. newItemOpen = {} /\ ~editing /\ creates = <<>>
    BY <1>0, <1>2 DEF openNewItem, Reachable, FormInv
  <2> QED BY <1>2, <2>1 DEF openNewItem, requests, FormInv
<1>3. ASSUME NEW l \in Lists, closeNewItem(l)
      PROVE  /\ menuRaced' \cap {"cancelled", "twice"} = {} =>
                  bodyOverlayVisible' = (editing' \/ newItemOpen' # {})
             /\ menuRaced' = {} => FormInv'
  <2>1. /\ newItemOpen = {l} /\ ~editing
        /\ newItemOpen' = {} /\ ~editing' /\ bodyOverlayVisible' = FALSE /\ creates' = creates
    BY <1>0, <1>3 DEF closeNewItem, requests, FormInv
  <2>2. ASSUME creates # <<>>
        PROVE  menuRaced' # {}
    <3>1. creates = <<l>>
      BY <1>0, <2>1, <2>2 DEF FormInv
    <3>2. 1 \in DOMAIN creates /\ creates[1] = l
      BY <3>1
    <3> QED BY <1>3, <3>2 DEF closeNewItem
  <2> QED BY <1>0, <2>1, <2>2 DEF FormInv
<1>4. ASSUME NEW l \in Lists, create(l)
      PROVE  /\ bodyOverlayVisible' = (editing' \/ newItemOpen' # {})
             /\ menuRaced' = {} => FormInv'
  <2>1. UNCHANGED overlays /\ l \in newItemOpen /\ creates' = Append(creates, l)
        /\ menuRaced' = IF creates = <<>> THEN {} ELSE {"twice"}
    BY <1>0, <1>4 DEF create
  <2>2. ASSUME menuRaced' = {}
        PROVE  FormInv'
    <3>0. creates = <<>>
      BY <2>1, <2>2
    <3>1. creates' = <<l>>
      BY <2>1, <3>0
    <3> QED BY <1>0, <2>1, <3>1 DEF FormInv, overlays
  <2> QED BY <1>0, <2>1, <2>2 DEF FormInv, overlays
<1>5. CASE ReceiveCreate
  <2>1. PICK l \in newItemOpen : creates = <<l>>
    BY <1>0, <1>5 DEF ReceiveCreate, FormInv
  <2>2. Head(creates) = l /\ Tail(creates) = <<>> /\ newItemOpen = {l} /\ ~editing
    BY <1>0, <2>1 DEF FormInv
  <2>3. newItemOpen' = {} /\ bodyOverlayVisible' = FALSE /\ creates' = <<>> /\ ~editing'
    BY <1>5, <2>1, <2>2 DEF ReceiveCreate
  <2> QED BY <2>3 DEF FormInv
<1>6. CASE toggleEditMode
  <2>1. newItemOpen = {}
    BY <1>0, <1>6 DEF toggleEditMode, FormInv
  <2> QED BY <1>0, <1>6, <2>1 DEF toggleEditMode, OverlayWhile, requests, FormInv, MenuTypeOK
<1>7. CASE ReturnToPage
  BY <1>7 DEF ReturnToPage, FormInv
<1>8. ASSUME NEW p \in Panes, toggle(p) \/ deleteNode(p) \/ ChangeElsewhere(p)
      PROVE  UNCHANGED <<overlays, creates>>
  BY <1>8 DEF toggle, deleteNode, ChangeElsewhere, requests
<1>9. ASSUME NEW s \in ServicePanes,
             toggleCreatable(s) \/ Deploy(s) \/ \E ds \in DeviceLists : ReceiveDevices(s, ds)
      PROVE  UNCHANGED <<overlays, creates>>
  BY <1>9 DEF toggleCreatable, Deploy, ReceiveDevices, requests
<1>10. CASE ReceiveDelete \/ goToUrl \/ Leave
  <2>1. UNCHANGED <<overlays, creates>>
    BY <1>10 DEF ReceiveDelete, goToUrl, Leave, requests
  <2> QED BY <1>1, <2>1
<1>11. ASSUME FormInv'
       PROVE  bodyOverlayVisible' = (editing' \/ newItemOpen' # {})
  BY <1>11 DEF FormInv
<1> QED BY <1>1, <1>2, <1>3, <1>4, <1>5, <1>6, <1>7, <1>8, <1>9, <1>10, <1>11 DEF MenuNext

LEMMA MenuInvInit == MenuInit => MenuInv
<1> SUFFICES ASSUME MenuInit
             PROVE  MenuInv
  OBVIOUS
<1>1. MenuTypeOK
  <2>1. Closed \in Keypaths /\ Panes \ Creatable \subseteq Panes
    BY DEF Closed, Keypaths
  <2>2. deletes \in Seq([pane: Panes, isOpen: BOOLEAN]) /\ Len(deletes) <= MaxDeletes
        /\ creates \in Seq(Lists) /\ Len(creates) <= MaxCreates
    BY MenuAssumption DEF MenuInit
  <2>3. openPane \in [Levels -> Keypaths]
    BY <2>1 DEF MenuInit
  <2>4. deviceList \in [ServicePanes -> DeviceLists \cup {NotFetched}]
        /\ highlighted \in DeviceLists
    BY MenuAssumption DEF MenuInit
  <2> QED BY <2>1, <2>2, <2>3, <2>4 DEF MenuInit, MenuTypeOK
<1>2. PanesInv
  BY DEF MenuInit, PanesInv
<1>3. highlighted = IconsOf(openPane, deployed, deviceList)
  BY DEF MenuInit, IconsOf
<1>4. FormInv
  BY DEF MenuInit, FormInv
<1>5. bodyOverlayVisible = (editing \/ newItemOpen # {})
  BY DEF MenuInit
<1> QED BY <1>1, <1>2, <1>3, <1>4, <1>5 DEF MenuInv

LEMMA MenuInvStep == MenuInv /\ [MenuNext]_menuVars => MenuInv'
<1> SUFFICES ASSUME MenuInv, [MenuNext]_menuVars
             PROVE  MenuInv'
  OBVIOUS
<1>1. MenuTypeOK'
  BY MenuTypeStep DEF MenuInv
<1>2. CASE MenuNext
  BY <1>1, <1>2, PanesStep, FormStep DEF MenuInv
<1>3. CASE UNCHANGED menuVars
  BY <1>1, <1>3 DEF menuVars, MenuInv, PanesInv, FormInv, IconsOf
<1> QED BY <1>2, <1>3

LEMMA MenuInvariant == MenuSpec => []MenuInv
BY MenuInvInit, MenuInvStep, PTL DEF MenuSpec

\* The variables of the menu keep their types, and what the effect of an open
\* service dispatches is a set of icons.
THEOREM MenuTypes == MenuSpec => []MenuTypeOK
<1>1. MenuInv => MenuTypeOK
  BY DEF MenuInv
<1> QED BY <1>1, MenuInvariant, PTL

\* What is open in the menu is there, through every delete that waits for its
\* answer, every service that is deployed and every reload.
THEOREM MenuPanesExist == MenuSpec => []OpenPanesExist
<1>1. MenuInv => OpenPanesExist
  BY DEF MenuInv, PanesInv, OpenPanesExist
<1> QED BY <1>1, MenuInvariant, PTL

\* The highlighted icons are those of the open service, and none without one.
THEOREM MenuHighlights == MenuSpec => []HighlightsFollowService
<1>1. \A t \in ServicePanes : IsOpen(t) <=> openPane["service"] = Keypath(t, deployed)
  BY ServiceLevel DEF IsOpen
<1>2. IconsOf(openPane, deployed, deviceList) = UNION {deviceList[s] : s \in
        {t \in ServicePanes : IsOpen(t) /\ deviceList[t] # NotFetched}}
  BY <1>1 DEF IconsOf
<1>3. MenuInv => HighlightsFollowService
  BY <1>2 DEF MenuInv, HighlightsFollowService
<1> QED BY <1>3, MenuInvariant, PTL

\* The overlay is there exactly while a form is open or the topology is edited,
\* unless a form was closed, or submitted again, while it was creating its item.
THEOREM MenuShielded == MenuSpec => []OverlayShields
<1>1. MenuInv => OverlayShields
  BY DEF MenuInv, OverlayShields
<1> QED BY <1>1, MenuInvariant, PTL

------------------------------------------------------------------------------
(* The line between two icons.                                               *)

\* What was drawn lies along the icons, up to whole turns, and what the effect
\* kept is what was drawn, unless the line was wound up.
RotationInv ==
  /\ ConnectionTypeOK
  /\ lineLength(distance, iconRadius) # 0 =>
       drawnAngle - lineAngle(direction, distance, iconRadius) \in {-360, 0, 360}
  /\ ~wound => /\ lineAngleRef = drawnAngle /\ lineAngleRef \in -180..540
               /\ turn \in -180..180

LEMMA LengthType ==
  ASSUME NEW d \in Distances, NEW r \in Radii
  PROVE  lineLength(d, r) \in Int
BY LineGeometryAssumption DEF lineLength, pointAlongLine

LEMMA AngleType ==
  ASSUME NEW a \in Directions, NEW d \in Distances, NEW r \in Radii
  PROVE  lineAngle(a, d, r) \in 0..359
<1>1. a \in 0..359 /\ (a + 180) % 360 \in 0..359
  BY LineGeometryAssumption
<1> QED BY <1>1 DEF lineAngle

\* One correction is enough for an angle that is not wound up, and it is a whole
\* turn.
LEMMA ShortestTurns ==
  ASSUME NEW ref \in Int, NEW angle \in Int, 0 <= angle, angle <= 359
  PROVE  /\ Shortest(ref, angle) \in Int
         /\ \/ Shortest(ref, angle) = angle - 360
            \/ Shortest(ref, angle) = angle
            \/ Shortest(ref, angle) = angle + 360
         /\ -180 <= ref /\ ref <= 540 => /\ -180 <= Shortest(ref, angle) - ref
                                        /\ Shortest(ref, angle) - ref <= 180
<1> DEFINE drawn == Shortest(ref, angle)
<1>1. CASE ref - angle > 180
  <2>1. drawn = angle + 360
    BY <1>1 DEF Shortest
  <2> QED BY <1>1, <2>1
<1>2. CASE ref - angle < -180
  <2>1. drawn = angle - 360
    BY <1>2 DEF Shortest
  <2> QED BY <1>2, <2>1
<1>3. CASE ~(ref - angle > 180) /\ ~(ref - angle < -180)
  <2>1. drawn = angle
    BY <1>3 DEF Shortest
  <2> QED BY <1>3, <2>1
<1> QED BY <1>1, <1>2, <1>3

LEMMA DrawStep ==
  ASSUME RotationInv, ~wound, NEW a \in Directions, NEW d \in Distances, NEW r \in Radii,
         Draw(a, d, r)
  PROVE  RotationInv'
<1> DEFINE angle == lineAngle(a, d, r)
<1>1. /\ direction' = a /\ distance' = d /\ iconRadius' = r
      /\ drawnAngle' = IF lineLength(d, r) = 0 THEN lineAngleRef ELSE Shortest(lineAngleRef, angle)
      /\ turn' = drawnAngle' - drawnAngle
      /\ lineAngleRef' \in {lineAngleRef, drawnAngle'}
      /\ wound' = Wound(lineAngleRef', drawnAngle')
  BY DEF Draw, actualLineAngle, Wound
<1>2. lineAngleRef \in Int /\ lineAngleRef = drawnAngle /\ lineAngleRef \in -180..540
  BY DEF RotationInv
<1>3. angle \in 0..359
  BY AngleType
<1> HIDE DEF angle
<1>4. /\ drawnAngle' \in Int /\ turn' \in -180..180
      /\ lineLength(d, r) # 0 => drawnAngle' - angle \in {-360, 0, 360}
  <2>1. CASE lineLength(d, r) = 0
    BY <1>1, <1>2, <2>1
  <2>2. CASE lineLength(d, r) # 0
    <3> DEFINE drawn == Shortest(lineAngleRef, angle)
    <3>0. angle \in Int /\ 0 <= angle /\ angle <= 359 /\ lineAngleRef \in Int
          /\ -180 <= lineAngleRef /\ lineAngleRef <= 540
      BY <1>2, <1>3
    <3>1. /\ drawn \in Int /\ -180 <= drawn - lineAngleRef /\ drawn - lineAngleRef <= 180
          /\ drawn = angle - 360 \/ drawn = angle \/ drawn = angle + 360
      BY <3>0, ShortestTurns
    <3>2. drawnAngle' = drawn
      BY <1>1, <2>2
    <3> HIDE DEF drawn
    <3> QED BY <1>1, <1>2, <3>0, <3>1, <3>2
  <2> QED BY <2>1, <2>2
<1>5. wound' \in BOOLEAN
  BY <1>1 DEF Wound
<1>6. ConnectionTypeOK'
  BY <1>1, <1>2, <1>4, <1>5 DEF ConnectionTypeOK
<1>7. lineLength(distance', iconRadius') # 0 =>
        drawnAngle' - lineAngle(direction', distance', iconRadius') \in {-360, 0, 360}
  BY <1>1, <1>4 DEF angle
<1>8. ~wound' => lineAngleRef' = drawnAngle' /\ lineAngleRef' \in -180..540
  BY <1>1 DEF Wound
<1> QED BY <1>4, <1>6, <1>7, <1>8 DEF RotationInv

LEMMA RotationInvariant == ConnectionSpec => []RotationInv
<1>1. ConnectionInit => RotationInv
  <2> SUFFICES ASSUME ConnectionInit
               PROVE  RotationInv
    OBVIOUS
  <2> DEFINE angle == lineAngle(direction, distance, iconRadius)
  <2>1. angle \in 0..359
    BY AngleType DEF ConnectionInit
  <2>2. /\ lineAngleRef = drawnAngle /\ turn = 0 /\ wound = FALSE
        /\ drawnAngle = IF lineLength(distance, iconRadius) = 0 THEN 0 ELSE Shortest(0, angle)
    BY DEF ConnectionInit
  <2>4. lineLength(distance, iconRadius) # 0 => drawnAngle - angle \in {-360, 0, 360}
    <3> HIDE DEF angle
    <3>0. angle \in Int /\ 0 <= angle /\ angle <= 359 /\ 0 \in Int
      BY <2>1
    <3>1. \/ Shortest(0, angle) = angle - 360
          \/ Shortest(0, angle) = angle
          \/ Shortest(0, angle) = angle + 360
      BY <3>0, ShortestTurns
    <3> QED BY <2>2, <3>0, <3>1
  <2>3. drawnAngle \in -180..180
    <3> HIDE DEF angle
    <3>1. angle \in Int /\ 0 <= angle /\ angle <= 359 /\ 0 \in Int /\ -180 <= 0 /\ 0 <= 540
      BY <2>1
    <3>2. /\ Shortest(0, angle) \in Int
          /\ -180 <= Shortest(0, angle) - 0 /\ Shortest(0, angle) - 0 <= 180
      BY <3>1, ShortestTurns
    <3> QED BY <2>2, <3>2
  <2>a. lineAngleRef \in Int /\ drawnAngle \in Int /\ turn \in Int
    BY <2>2, <2>3
  <2>5. ConnectionTypeOK
    BY <2>2, <2>a DEF ConnectionInit, ConnectionTypeOK
  <2>6. ~wound => lineAngleRef = drawnAngle /\ lineAngleRef \in -180..540 /\ turn \in -180..180
    BY <2>2, <2>3
  <2> QED BY <2>4, <2>5, <2>6 DEF RotationInv
<1>2. RotationInv /\ [ConnectionNext]_connectionVars => RotationInv'
  <2> SUFFICES ASSUME RotationInv, [ConnectionNext]_connectionVars
               PROVE  RotationInv'
    OBVIOUS
  <2>1. direction \in Directions /\ distance \in Distances /\ iconRadius \in Radii
    BY DEF RotationInv, ConnectionTypeOK
  <2>2. CASE ConnectionNext
    BY <2>1, <2>2, DrawStep DEF ConnectionNext, MoveIcons, ResizeIcons
  <2>3. CASE UNCHANGED connectionVars
    BY <2>3 DEF connectionVars, RotationInv, ConnectionTypeOK
  <2> QED BY <2>2, <2>3
<1> QED BY <1>1, <1>2, PTL DEF ConnectionSpec

\* The line is drawn along the two icons, and it got there by the shortest
\* rotation, after any number of moves that did not wind it up, for any
\* directions, distances and sizes of the icons.
THEOREM LinesTurnLeast == ConnectionSpec => []ShortestRotation
<1>1. RotationInv => ShortestRotation
  <2> SUFFICES ASSUME RotationInv
               PROVE  ShortestRotation
    OBVIOUS
  <2>1. drawnAngle - lineAngle(direction, distance, iconRadius) \in {-360, 0, 360} =>
          (drawnAngle - lineAngle(direction, distance, iconRadius)) % 360 = 0
    OBVIOUS
  <2> QED BY <2>1 DEF RotationInv, ShortestRotation
<1> QED BY <1>1, RotationInvariant, PTL

------------------------------------------------------------------------------
(* The panels: lemmas about the deferred callbacks and timers.               *)

\* A set of naturals has a least element.
LEMMA LeastNat ==
  ASSUME NEW T \in SUBSET Nat, T # {}
  PROVE  \E x \in T : \A y \in T : ~(y < x)
<1>1. PICK x \in T : \A y \in T : ~(<<y, x>> \in OpToRel(<, Nat))
  BY NatLessThanWellFounded, WFMin
<1>2. \A y \in T : y < x => <<y, x>> \in OpToRel(<, Nat)
  BY DEF OpToRel
<1> QED BY <1>1, <1>2

\* The timer that is due is one of those that wait, a short one if there is one.
LEMMA DueFirst ==
  ASSUME NEW S, NEW ts \in Seq(S), ts # <<>>, NEW short
  PROVE  /\ Due(ts, short) \in 1..Len(ts)
         /\ (\E i \in 1..Len(ts) : ts[i] = short) => ts[Due(ts, short)] = short
<1>0. DOMAIN ts = 1..Len(ts) /\ Len(ts) \in Nat /\ 1 \in 1..Len(ts)
  OBVIOUS
<1> DEFINE T == {i \in 1..Len(ts) : ts[i] = short}
<1>1. CASE T = {}
  <2>1. Due(ts, short) = 1
    BY <1>0, <1>1 DEF Due
  <2> QED BY <1>0, <1>1, <2>1
<1>2. CASE T # {}
  <2>0. T \in SUBSET Nat
    BY <1>0
  <2>1. PICK i \in T : \A j \in T : ~(j < i)
    <3> HIDE DEF T
    <3> QED BY <1>2, <2>0, LeastNat
  <2>2. i \in DOMAIN ts /\ ts[i] = short /\ \A j \in 1..(i - 1) : ts[j] # short
    BY <1>0, <2>1
  <2> DEFINE P(k) == ts[k] = short /\ \A j \in 1..(k - 1) : ts[j] # short
  <2>3. Due(ts, short) = CHOOSE k \in DOMAIN ts : P(k)
    BY <1>0, <2>2 DEF Due
  <2>4. \E k \in DOMAIN ts : P(k)
    BY <2>2
  <2>5. (CHOOSE k \in DOMAIN ts : P(k)) \in DOMAIN ts /\ P(CHOOSE k \in DOMAIN ts : P(k))
    <3> HIDE DEF P
    <3> QED BY <2>4
  <2> QED BY <1>0, <2>3, <2>5
<1> QED BY <1>1, <1>2

\* Taking one timer away leaves the others.
LEMMA WithoutKeeps ==
  ASSUME NEW S, NEW ts \in Seq(S), NEW i \in 1..Len(ts)
  PROVE  /\ Without(ts, i) \in Seq(S)
         /\ \A j \in 1..Len(ts) : j # i =>
              \E k \in 1..Len(Without(ts, i)) : Without(ts, i)[k] = ts[j]
         /\ \A k \in 1..Len(Without(ts, i)) : \E j \in 1..Len(ts) : Without(ts, i)[k] = ts[j]
<1> DEFINE a == SubSeq(ts, 1, i - 1)
           b == SubSeq(ts, i + 1, Len(ts))
           n == Len(ts)
<1>0. n \in Nat /\ i \in Int /\ 1 <= i /\ i <= n /\ \A j \in 1..n : ts[j] \in S
  OBVIOUS
<1>1. /\ a \in Seq(S) /\ Len(a) = i - 1
      /\ \A j \in 1..(i - 1) : a[j] = ts[j]
  <2>1. 1 \in Int /\ i - 1 \in Int /\ \A j \in 1..(i - 1) : ts[j] \in S
    BY <1>0
  <2>2. /\ a \in Seq(S) /\ Len(a) = IF 1 <= i - 1 THEN i - 1 - 1 + 1 ELSE 0
        /\ \A j \in 1 .. i - 1 - 1 + 1 : a[j] = ts[1 + j - 1]
    BY <2>1, SubSeqProperties
  <2> HIDE DEF a
  <2> QED BY <1>0, <2>2
<1>2. /\ b \in Seq(S) /\ Len(b) = n - i
      /\ \A j \in 1..(n - i) : b[j] = ts[i + j]
  <2>1. i + 1 \in Int /\ n \in Int /\ \A j \in (i + 1)..n : ts[j] \in S
    BY <1>0
  <2>2. /\ b \in Seq(S) /\ Len(b) = IF i + 1 <= n THEN n - (i + 1) + 1 ELSE 0
        /\ \A j \in 1 .. n - (i + 1) + 1 : b[j] = ts[i + 1 + j - 1]
    BY <2>1, SubSeqProperties
  <2> HIDE DEF b
  <2> QED BY <1>0, <2>2
<1> DEFINE w == Without(ts, i)
<1>3. /\ w \in Seq(S) /\ Len(w) = n - 1
      /\ \A k \in 1..(n - 1) : w[k] = IF k <= i - 1 THEN ts[k] ELSE ts[k + 1]
  <2>1. w = a \o b
    BY DEF Without
  <2> HIDE DEF a, b, w
  <2>2. /\ w \in Seq(S) /\ Len(w) = Len(a) + Len(b)
        /\ \A k \in 1..Len(a) + Len(b) : w[k] = IF k <= Len(a) THEN a[k] ELSE b[k - Len(a)]
    BY <1>1, <1>2, <2>1, ConcatProperties
  <2>3. Len(w) = n - 1
    BY <1>0, <1>1, <1>2, <2>2
  <2>4. ASSUME NEW k \in 1..(n - 1)
        PROVE  w[k] = IF k <= i - 1 THEN ts[k] ELSE ts[k + 1]
    <3>1. k \in 1..Len(a) + Len(b)
      BY <1>0, <1>1, <1>2
    <3>2. CASE k <= i - 1
      BY <1>0, <1>1, <2>2, <3>1, <3>2
    <3>3. CASE ~(k <= i - 1)
      <4>1. k - (i - 1) \in 1..(n - i) /\ i + (k - (i - 1)) = k + 1
        BY <1>0, <3>3
      <4>2. b[k - (i - 1)] = ts[k + 1]
        BY <1>2, <4>1
      <4> QED BY <1>1, <2>2, <3>1, <3>3, <4>2
    <3> QED BY <3>2, <3>3
  <2> QED BY <2>2, <2>3, <2>4
<1> HIDE DEF w
<1>4. ASSUME NEW j \in 1..n, j # i
      PROVE  \E k \in 1..Len(w) : w[k] = ts[j]
  <2>1. CASE j < i
    <3>1. j \in 1..(n - 1) /\ j <= i - 1
      BY <1>0, <2>1
    <3> QED BY <1>3, <3>1
  <2>2. CASE j > i
    <3>1. j - 1 \in 1..(n - 1) /\ ~(j - 1 <= i - 1) /\ j - 1 + 1 = j
      BY <1>0, <2>2
    <3> QED BY <1>3, <3>1
  <2> QED BY <1>0, <1>4, <2>1, <2>2
<1>5. ASSUME NEW k \in 1..Len(w)
      PROVE  \E j \in 1..n : w[k] = ts[j]
  <2>1. k \in 1..(n - 1) /\ k \in 1..n /\ k + 1 \in 1..n
    BY <1>0, <1>3
  <2> QED BY <1>3, <2>1
<1> QED BY <1>3, <1>4, <1>5 DEF w

------------------------------------------------------------------------------
(* The panels: what is deferred leads to what is so.                         *)

\* Unless the accordion was toggled before its frame, one callback at most waits,
\* and it goes where the accordion is to be.
AccordionInv ==
  \/ /\ callbacks = <<>> /\ isOpen
     /\ \/ transition /\ listening /\ maxHeight = "full"
        \/ ~transition /\ maxHeight = "none"
  \/ callbacks = <<>> /\ ~isOpen /\ ~listening /\ maxHeight = "zero"
  \/ callbacks = <<"open">> /\ isOpen /\ ~listening /\ maxHeight = "zero"
  \/ callbacks = <<"close">> /\ ~isOpen /\ ~listening
  \/ callbacks = <<"collapse">> /\ ~isOpen /\ ~listening /\ maxHeight = "full"

Has(ts, x) == \E i \in 1..Len(ts) : ts[i] = x

\* While the list is fetched its room is there, or a timer will make it; when it
\* is not, the room is gone, or a timer will take it.
MeasureInv ==
  /\ Fetching(items) => minHeight = "full" \/ Has(measures, "full")
  /\ ~Fetching(items) => Has(measures, "zero") \/ (measures = <<>> /\ minHeight = "zero")

\* The same for the overlay, which a timer that hides it may only reach when the
\* list is not fetched again.
OverlayInv ==
  /\ Fetching(items) => ~Has(hides, FALSE) /\ (opacity = TRUE \/ Has(hides, TRUE))
  /\ ~Fetching(items) => Has(hides, FALSE) \/ (hides = <<>> /\ opacity = FALSE)

AnimationInv ==
  /\ AnimationTypeOK
  /\ ~quick => AccordionInv
  /\ MeasureInv
  /\ ~refetched => OverlayInv

\* A frame turns as many `close` into as many `collapse`.
LEMMA FrameCallbacks ==
  ASSUME AnimationTypeOK, AnimationFrameOfPanel
  PROVE  /\ callbacks' \in Seq({"open", "close", "collapse"})
         /\ callbacks \in {<<"open">>, <<"collapse">>} => callbacks' = <<>>
         /\ callbacks = <<"close">> => callbacks' = <<"collapse">>
<1> DEFINE closing == {j \in DOMAIN callbacks : callbacks[j] = "close"}
<1>1. callbacks' = [i \in 1..Cardinality(closing) |-> "collapse"]
  BY DEF AnimationFrameOfPanel
<1>2. Cardinality(closing) \in Nat
  <2>1. DOMAIN callbacks = 1..Len(callbacks) /\ Len(callbacks) \in Nat
    <3> DEFINE C == {"open", "close", "collapse"}
    <3>1. callbacks \in Seq(C)
      BY DEF AnimationTypeOK
    <3> HIDE DEF C
    <3> QED BY <3>1
  <2>2. IsFiniteSet(1..Len(callbacks))
    BY <2>1, FS_Interval
  <2>3. closing \in SUBSET (1..Len(callbacks))
    BY <2>1
  <2> HIDE DEF closing
  <2>4. IsFiniteSet(closing)
    BY <2>2, <2>3, FS_Subset
  <2> QED BY <2>4, FS_CardinalityType
<1>3. callbacks' \in Seq({"open", "close", "collapse"})
  <2> HIDE DEF closing
  <2> QED BY <1>1, <1>2
<1>4. ASSUME callbacks \in {<<"open">>, <<"collapse">>}
      PROVE  callbacks' = <<>>
  <2>1. closing = {}
    BY <1>4
  <2>2. Cardinality(closing) = 0
    BY <2>1, FS_EmptySet
  <2>3. callbacks' = [i \in 1..0 |-> "collapse"]
    BY <1>1, <2>2
  <2> QED BY <2>3
<1>5. ASSUME callbacks = <<"close">>
      PROVE  callbacks' = <<"collapse">>
  <2>1. closing = {1}
    BY <1>5
  <2>2. Cardinality(closing) = 1
    BY <2>1, FS_Singleton
  <2>3. callbacks' = [i \in 1..1 |-> "collapse"]
    BY <1>1, <2>2
  <2>4. [i \in 1..1 |-> "collapse"] = <<"collapse">>
    BY SeqEqual
  <2> QED BY <2>3, <2>4
<1> QED BY <1>3, <1>4, <1>5

LEMMA AccordionStep ==
  ASSUME AnimationTypeOK, ~quick => AccordionInv,
         toggleAccordion \/ AnimationFrameOfPanel \/ onTransitionEnd
  PROVE  AnimationTypeOK' /\ (~quick' => AccordionInv')
<1> DEFINE C == {"open", "close", "collapse"}
<1>1. CASE toggleAccordion
  <2>1. callbacks' = Append(callbacks, IF isOpen THEN "close" ELSE "open")
        /\ isOpen' = ~isOpen /\ listening' = (IF isOpen THEN FALSE ELSE listening)
        /\ UNCHANGED <<maxHeight, transition>>
    BY <1>1 DEF toggleAccordion, StillListens
  <2>2. callbacks' \in Seq(C)
    <3> DEFINE c == IF isOpen THEN "close" ELSE "open"
    <3>1. callbacks \in Seq(C) /\ c \in C /\ callbacks' = Append(callbacks, c)
      BY <2>1 DEF AnimationTypeOK
    <3> HIDE DEF C, c
    <3> QED BY <3>1
  <2>3. AnimationTypeOK'
    BY <1>1, <2>1, <2>2 DEF toggleAccordion, list, AnimationTypeOK
  <2>4. ASSUME ~quick'
        PROVE  AccordionInv'
    <3>1. callbacks = <<>> /\ ~quick
      BY <1>1, <2>4 DEF toggleAccordion
    <3>2. callbacks' = IF isOpen THEN <<"close">> ELSE <<"open">>
      BY <2>1, <3>1
    <3> QED BY <2>1, <3>1, <3>2 DEF AccordionInv
  <2> QED BY <2>3, <2>4
<1>2. CASE AnimationFrameOfPanel
  <2>0. callbacks \in Seq(C) /\ callbacks # <<>>
    BY <1>2 DEF AnimationFrameOfPanel, AnimationTypeOK
  <2>1. Len(callbacks) \in DOMAIN callbacks
    BY <2>0
  <2>2. maxHeight' = IF callbacks[Len(callbacks)] = "collapse" THEN "zero" ELSE "full"
    BY <1>2, <2>1 DEF AnimationFrameOfPanel, Heights
  <2>3. /\ transition' = IF maxHeight' = maxHeight THEN transition
                         ELSE "none" \notin {maxHeight, maxHeight'}
        /\ listening' = (listening \/ \E i \in DOMAIN callbacks : callbacks[i] = "open")
        /\ UNCHANGED <<isOpen, quick>>
    BY <1>2 DEF AnimationFrameOfPanel
  <2>4. AnimationTypeOK'
    <3>1. callbacks' \in Seq(C)
      BY <1>2, FrameCallbacks
    <3>2. maxHeight' \in {"zero", "full", "none"} /\ transition' \in BOOLEAN
          /\ listening' \in BOOLEAN
      BY <2>2, <2>3 DEF AnimationTypeOK
    <3> QED BY <1>2, <3>1, <3>2 DEF AnimationFrameOfPanel, list, AnimationTypeOK
  <2>5. ASSUME ~quick'
        PROVE  AccordionInv'
    <3>0. AccordionInv
      BY <2>3, <2>5
    <3>1. CASE callbacks = <<"open">>
      <4>1. callbacks' = <<>>
        BY <1>2, <3>1, FrameCallbacks
      <4>2. isOpen /\ maxHeight = "zero"
        BY <3>0, <3>1 DEF AccordionInv
      <4>3. maxHeight' = "full"
        BY <2>2, <3>1
      <4>4. listening' /\ transition' /\ isOpen'
        <5>1. 1 \in DOMAIN callbacks /\ callbacks[1] = "open"
          BY <3>1
        <5> QED BY <2>3, <4>2, <4>3, <5>1
      <4> QED BY <4>1, <4>3, <4>4 DEF AccordionInv
    <3>2. CASE callbacks = <<"close">>
      <4>1. callbacks' = <<"collapse">>
        BY <1>2, <3>2, FrameCallbacks
      <4>2. ~isOpen /\ ~listening
        BY <3>0, <3>2 DEF AccordionInv
      <4>3. maxHeight' = "full"
        BY <2>2, <3>2
      <4>4. ~listening' /\ ~isOpen'
        <5>1. ~\E i \in DOMAIN callbacks : callbacks[i] = "open"
          BY <3>2
        <5> QED BY <2>3, <4>2, <5>1
      <4> QED BY <4>1, <4>3, <4>4 DEF AccordionInv
    <3>3. CASE callbacks = <<"collapse">>
      <4>1. callbacks' = <<>>
        BY <1>2, <3>3, FrameCallbacks
      <4>2. ~isOpen /\ ~listening
        BY <3>0, <3>3 DEF AccordionInv
      <4>3. maxHeight' = "zero"
        BY <2>2, <3>3
      <4>4. ~listening' /\ ~isOpen'
        <5>1. ~\E i \in DOMAIN callbacks : callbacks[i] = "open"
          BY <3>3
        <5> QED BY <2>3, <4>2, <5>1
      <4> QED BY <4>1, <4>3, <4>4 DEF AccordionInv
    <3> QED BY <2>0, <3>0, <3>1, <3>2, <3>3 DEF AccordionInv
  <2> QED BY <2>4, <2>5
<1>3. CASE onTransitionEnd
  <2>1. /\ transition /\ transition' = FALSE /\ listening' = FALSE
        /\ maxHeight' = (IF listening THEN "none" ELSE maxHeight)
        /\ UNCHANGED <<isOpen, callbacks, quick, list>>
    BY <1>3 DEF onTransitionEnd
  <2>2. AnimationTypeOK'
    BY <2>1 DEF list, AnimationTypeOK
  <2>3. ASSUME ~quick'
        PROVE  AccordionInv'
    <3>1. AccordionInv
      BY <2>1, <2>3
    <3>2. CASE listening
      <4>1. callbacks = <<>> /\ isOpen
        BY <3>1, <3>2 DEF AccordionInv
      <4> QED BY <2>1, <3>2, <4>1 DEF AccordionInv
    <3>3. CASE ~listening
      BY <2>1, <3>1, <3>3 DEF AccordionInv
    <3> QED BY <3>2, <3>3
  <2> QED BY <2>2, <2>3
<1> QED BY <1>1, <1>2, <1>3

LEMMA AppendHas ==
  ASSUME NEW S, NEW ts \in Seq(S), NEW x \in S
  PROVE  /\ Append(ts, x) \in Seq(S) /\ Has(Append(ts, x), x)
         /\ \A y : y # x => (Has(Append(ts, x), y) <=> Has(ts, y))
<1>1. /\ Append(ts, x) \in Seq(S) /\ Len(Append(ts, x)) = Len(ts) + 1 /\ Len(ts) \in Nat
      /\ \A i \in 1..Len(ts) : Append(ts, x)[i] = ts[i]
      /\ Append(ts, x)[Len(ts) + 1] = x
  BY AppendProperties
<1> DEFINE w == Append(ts, x)
<1> HIDE DEF w
<1>2. /\ Len(ts) + 1 \in 1..Len(w)
      /\ \A i \in 1..Len(w) : (i \in 1..Len(ts) \/ i = Len(ts) + 1)
      /\ \A i \in 1..Len(ts) : i \in 1..Len(w)
  BY <1>1 DEF w
<1> QED BY <1>1, <1>2 DEF w, Has

\* What the timer that is due does to the rest.
LEMMA DueHas ==
  ASSUME NEW S, NEW ts \in Seq(S), ts # <<>>, NEW short
  PROVE  /\ ts[Due(ts, short)] \in S /\ Without(ts, Due(ts, short)) \in Seq(S)
         /\ Has(ts, ts[Due(ts, short)])
         /\ Has(ts, short) => ts[Due(ts, short)] = short
         /\ \A x : x # ts[Due(ts, short)] =>
              (Has(Without(ts, Due(ts, short)), x) <=> Has(ts, x))
         /\ \A x : Has(Without(ts, Due(ts, short)), x) => Has(ts, x)
         /\ Without(ts, Due(ts, short)) = <<>>
              \/ \E x \in S : Has(Without(ts, Due(ts, short)), x)
<1> DEFINE i == Due(ts, short)
           rest == Without(ts, i)
<1>1. /\ i \in 1..Len(ts)
      /\ (\E k \in 1..Len(ts) : ts[k] = short) => ts[i] = short
  BY DueFirst
<1> HIDE DEF i
<1>2. /\ rest \in Seq(S)
      /\ \A j \in 1..Len(ts) : j # i => \E k \in 1..Len(rest) : rest[k] = ts[j]
      /\ \A k \in 1..Len(rest) : \E j \in 1..Len(ts) : rest[k] = ts[j]
  BY <1>1, WithoutKeeps
<1> HIDE DEF rest
<1>3. ts[i] \in S /\ Has(ts, ts[i])
  BY <1>1 DEF Has
<1>4. rest = <<>> \/ (1 \in 1..Len(rest) /\ rest[1] \in S)
  BY <1>2
<1>5. rest = <<>> \/ \E x \in S : Has(rest, x)
  BY <1>4 DEF Has
<1>6. \A x : Has(rest, x) => Has(ts, x)
  BY <1>2 DEF Has
<1>7. \A x : x # ts[i] => (Has(rest, x) <=> Has(ts, x))
  BY <1>2 DEF Has
<1>8. Has(ts, short) => ts[i] = short
  BY <1>1 DEF Has
<1> QED BY <1>2, <1>3, <1>5, <1>6, <1>7, <1>8 DEF rest, i

LEMMA StatusStep ==
  ASSUME AnimationInv, NEW q \in Queries, StatusChanges(q)
  PROVE  AnimationTypeOK' /\ MeasureInv' /\ (~refetched' => OverlayInv')
<1> DEFINE M == {"zero", "full"}
           was == Fetching(items)
           now == Fetching(items')
           m == IF now THEN "full" ELSE "zero"
<1>0. /\ hides \in Seq(BOOLEAN) /\ measures \in Seq(M) /\ MeasureInv
      /\ ~refetched => OverlayInv
  BY DEF AnimationInv, AnimationTypeOK
<1>1. /\ hides' = (IF was = now THEN hides ELSE Append(hides, now))
      /\ measures' = Append(measures, m)
      /\ refetched' = (refetched \/ (~was /\ now /\ \E i \in DOMAIN hides : ~hides[i]))
      /\ UNCHANGED <<opacity, minHeight, accordion>>
  BY DEF StatusChanges, Measure
<1>2. was \in BOOLEAN /\ now \in BOOLEAN
  BY DEF Fetching
<1>3. items' \in [Queries -> {"", "OK", "Error"}]
  <2>1. PICK f, s, e \in BOOLEAN : items' = [items EXCEPT ![q] = fetchStatus(f, s, e)]
    BY DEF StatusChanges
  <2>2. fetchStatus(f, s, e) \in {"", "OK", "Error"}
    BY DEF fetchStatus
  <2> QED BY <2>1, <2>2 DEF AnimationInv, AnimationTypeOK
<1> HIDE DEF was, now
<1>4. hides' \in Seq(BOOLEAN)
  <2>1. Append(hides, now) \in Seq(BOOLEAN)
    BY <1>0, <1>2, AppendProperties
  <2> QED BY <1>0, <1>1, <2>1
<1>5. measures' \in Seq(M) /\ Has(measures', m)
  <2>1. m \in M
    OBVIOUS
  <2> HIDE DEF M, m
  <2> QED BY <1>0, <1>1, <2>1, AppendHas
<1>6. AnimationTypeOK'
  <2>1. refetched' \in BOOLEAN
    BY <1>1 DEF AnimationInv, AnimationTypeOK
  <2> QED BY <1>1, <1>3, <1>4, <1>5, <2>1 DEF accordion, AnimationInv, AnimationTypeOK
<1>7. MeasureInv'
  BY <1>5 DEF MeasureInv, now
<1>8. ASSUME ~refetched'
      PROVE  OverlayInv'
  <2>1. OverlayInv /\ ~(~was /\ now /\ \E i \in DOMAIN hides : ~hides[i])
    BY <1>0, <1>1, <1>8
  <2>2. CASE was = now
    BY <1>1, <2>1, <2>2 DEF OverlayInv, was, now
  <2>3. CASE was # now
    <3>1. /\ Has(hides', now)
          /\ \A y : y # now => (Has(hides', y) <=> Has(hides, y))
      BY <1>0, <1>1, <1>2, <2>3, AppendHas
    <3>2. CASE now
      <4>1. now = TRUE /\ ~Has(hides, FALSE)
        <5>1. DOMAIN hides = 1..Len(hides)
          BY <1>0
        <5>2. ~\E i \in 1..Len(hides) : ~hides[i]
          BY <1>2, <2>1, <2>3, <3>2, <5>1
        <5>3. \A i \in 1..Len(hides) : hides[i] # FALSE
          BY <5>2
        <5> QED BY <1>2, <3>2, <5>3 DEF Has
      <4> QED BY <3>1, <3>2, <4>1 DEF OverlayInv, now
    <3>3. CASE ~now
      <4>1. now = FALSE
        BY <1>2, <3>3
      <4> QED BY <3>1, <3>3, <4>1 DEF OverlayInv, now
    <3> QED BY <3>2, <3>3
  <2> QED BY <2>2, <2>3
<1> QED BY <1>6, <1>7, <1>8

LEMMA OpacityStep ==
  ASSUME AnimationInv, setOpacity
  PROVE  AnimationTypeOK' /\ (~refetched' => OverlayInv')
<1> DEFINE i == Due(hides, TRUE)
           rest == Without(hides, i)
<1>0. /\ hides \in Seq(BOOLEAN) /\ hides # <<>>
      /\ opacity' = hides[i] /\ hides' = rest
      /\ UNCHANGED <<items, minHeight, measures, refetched, accordion>>
  BY DEF setOpacity, AnimationInv, AnimationTypeOK
<1>1. /\ opacity' \in BOOLEAN /\ hides' \in Seq(BOOLEAN) /\ Has(hides, opacity')
      /\ Has(hides, TRUE) => opacity' = TRUE
      /\ \A x : x # opacity' => (Has(hides', x) <=> Has(hides, x))
      /\ \A x : Has(hides', x) => Has(hides, x)
      /\ hides' = <<>> \/ \E x \in BOOLEAN : Has(hides', x)
  <2> DEFINE B == BOOLEAN
             short == TRUE
             j == Due(hides, short)
             kept == Without(hides, j)
  <2>1. /\ hides[j] \in B /\ kept \in Seq(B) /\ Has(hides, hides[j])
        /\ Has(hides, short) => hides[j] = short
        /\ \A x : x # hides[j] => (Has(kept, x) <=> Has(hides, x))
        /\ \A x : Has(kept, x) => Has(hides, x)
        /\ kept = <<>> \/ \E x \in B : Has(kept, x)
    <3>1. hides \in Seq(B) /\ hides # <<>>
      BY <1>0
    <3> HIDE DEF B, short
    <3> QED BY <3>1, DueHas
  <2>2. j = i /\ kept = rest
    OBVIOUS
  <2> HIDE DEF i, rest, j, kept
  <2> QED BY <1>0, <2>1, <2>2, Zenon
<1>2. AnimationTypeOK'
  BY <1>0, <1>1 DEF accordion, AnimationInv, AnimationTypeOK
<1>3. ASSUME ~refetched'
      PROVE  OverlayInv'
  <2>1. OverlayInv
    BY <1>0, <1>3 DEF AnimationInv
  <2>2. CASE Fetching(items)
    BY <1>0, <1>1, <2>1, <2>2 DEF OverlayInv
  <2>3. CASE ~Fetching(items)
    <3>1. Has(hides, FALSE)
      BY <1>0, <2>1, <2>3 DEF OverlayInv
    <3>2. opacity' = TRUE \/ ~Has(hides, TRUE)
      BY <1>1
    <3>3. CASE opacity' = TRUE
      <4>1. Has(hides', FALSE)
        BY <1>1, <3>1, <3>3
      <4> QED BY <1>0, <2>3, <4>1 DEF OverlayInv
    <3>4. CASE ~Has(hides, TRUE)
      <4>1. opacity' = FALSE /\ ~Has(hides', TRUE)
        BY <1>1, <3>4
      <4>2. hides' = <<>> \/ Has(hides', FALSE)
        BY <1>1, <4>1
      <4> QED BY <1>0, <2>3, <4>1, <4>2 DEF OverlayInv
    <3> QED BY <3>2, <3>3, <3>4
  <2> QED BY <2>2, <2>3
<1> QED BY <1>2, <1>3

LEMMA MinHeightStep ==
  ASSUME AnimationInv, setMinHeight
  PROVE  AnimationTypeOK' /\ MeasureInv'
<1> DEFINE M == {"zero", "full"}
           i == Due(measures, "full")
           rest == Without(measures, i)
           m == IF Fetching(items) THEN "full" ELSE "zero"
<1>0. /\ measures \in Seq(M) /\ measures # <<>>
      /\ minHeight' = measures[i]
      /\ measures' = (IF minHeight' = minHeight THEN rest ELSE Append(rest, m))
      /\ UNCHANGED <<items, opacity, hides, refetched, accordion>>
  BY DEF setMinHeight, Remeasured, Measure, AnimationInv, AnimationTypeOK
<1>1. m \in M /\ "full" # "zero" /\ (\A x \in M : x = "zero" \/ x = "full") /\ minHeight \in M
  BY DEF AnimationInv, AnimationTypeOK
<1> HIDE DEF M, m
<1>2. /\ minHeight' \in M /\ rest \in Seq(M) /\ Has(measures, minHeight')
      /\ Has(measures, "full") => minHeight' = "full"
      /\ \A x : x # minHeight' => (Has(rest, x) <=> Has(measures, x))
      /\ \A x : Has(rest, x) => Has(measures, x)
      /\ rest = <<>> \/ \E x \in M : Has(rest, x)
  BY <1>0, DueHas
<1> HIDE DEF rest, i
<1>3. Append(rest, m) \in Seq(M) /\ Has(Append(rest, m), m)
  BY <1>1, <1>2, AppendHas
<1>4. AnimationTypeOK'
  <2>1. measures' \in Seq(M)
    BY <1>0, <1>2, <1>3
  <2> QED BY <1>0, <1>2, <2>1 DEF M, accordion, AnimationInv, AnimationTypeOK
<1>5. MeasureInv
  BY DEF AnimationInv
<1>6. CASE minHeight' # minHeight
  <2>1. Has(measures', m)
    BY <1>0, <1>3, <1>6
  <2> QED BY <1>0, <1>4, <2>1 DEF MeasureInv, m
<1>7. CASE minHeight' = minHeight
  <2>1. measures' = rest
    BY <1>0, <1>7
  <2>2. CASE Fetching(items)
    <3>1. minHeight' = "full"
      BY <1>2, <1>5, <1>7, <2>2 DEF MeasureInv
    <3> QED BY <1>0, <1>4, <2>2, <3>1 DEF MeasureInv
  <2>3. CASE ~Fetching(items)
    <3>1. Has(measures, "zero")
      BY <1>0, <1>5, <2>3 DEF MeasureInv
    <3>2. CASE minHeight' = "full"
      <4>1. Has(measures', "zero")
        BY <1>1, <1>2, <2>1, <3>1, <3>2
      <4> QED BY <1>0, <1>4, <2>3, <4>1 DEF MeasureInv
    <3>3. CASE minHeight' # "full"
      <4>1. minHeight' = "zero" /\ ~Has(measures, "full")
        BY <1>1, <1>2, <3>3
      <4>2. rest = <<>> \/ Has(rest, "zero")
        BY <1>1, <1>2, <4>1
      <4> QED BY <1>0, <1>4, <2>1, <2>3, <4>1, <4>2 DEF MeasureInv
    <3> QED BY <3>2, <3>3
  <2> QED BY <2>2, <2>3
<1> QED BY <1>4, <1>6, <1>7

LEMMA AnimationInvariant == AnimationSpec => []AnimationInv
<1>1. AnimationInit => AnimationInv
  <2> SUFFICES ASSUME AnimationInit
               PROVE  AnimationInv
    OBVIOUS
  <2>1. AnimationTypeOK
    <3>0. \A S : <<>> \in Seq(S)
      OBVIOUS
    <3>1. /\ callbacks \in Seq({"open", "close", "collapse"})
          /\ measures \in Seq({"zero", "full"}) /\ hides \in Seq(BOOLEAN)
      BY <3>0 DEF AnimationInit
    <3>2. items \in [Queries -> {"", "OK", "Error"}]
      BY DEF AnimationInit
    <3> QED BY <3>1, <3>2 DEF AnimationInit, AnimationTypeOK
  <2>2. AccordionInv
    BY DEF AnimationInit, AccordionInv
  <2>3. Fetching(items)
    BY DEF AnimationInit, Fetching, Queries
  <2>4. MeasureInv
    BY <2>3 DEF AnimationInit, MeasureInv
  <2>5. OverlayInv
    <3>0. opacity = TRUE /\ hides = <<>>
      BY DEF AnimationInit
    <3>1. ~Has(hides, FALSE)
      BY <3>0 DEF Has
    <3> QED BY <2>3, <3>0, <3>1 DEF OverlayInv
  <2> QED BY <2>1, <2>2, <2>4, <2>5 DEF AnimationInv
<1>2. AnimationInv /\ [AnimationNext]_animVars => AnimationInv'
  <2> SUFFICES ASSUME AnimationInv, [AnimationNext]_animVars
               PROVE  AnimationInv'
    OBVIOUS
  <2>0. AnimationTypeOK /\ (~quick => AccordionInv) /\ MeasureInv /\ (~refetched => OverlayInv)
    BY DEF AnimationInv
  <2>1. ASSUME UNCHANGED list
        PROVE  MeasureInv' /\ (~refetched' => OverlayInv')
    BY <2>0, <2>1 DEF list, MeasureInv, OverlayInv
  <2>2. ASSUME UNCHANGED accordion
        PROVE  ~quick' => AccordionInv'
    BY <2>0, <2>2 DEF accordion, AccordionInv
  <2>3. CASE toggleAccordion \/ AnimationFrameOfPanel \/ onTransitionEnd
    <3>1. UNCHANGED list
      BY <2>3 DEF toggleAccordion, AnimationFrameOfPanel, onTransitionEnd
    <3> QED BY <2>0, <2>1, <2>3, <3>1, AccordionStep DEF AnimationInv
  <2>4. CASE \E q \in Queries : StatusChanges(q)
    <3>1. UNCHANGED accordion
      BY <2>4 DEF StatusChanges
    <3> QED BY <2>2, <2>4, <3>1, StatusStep DEF AnimationInv
  <2>5. CASE setOpacity
    <3>1. UNCHANGED accordion /\ UNCHANGED <<items, minHeight, measures>>
      BY <2>5 DEF setOpacity
    <3>2. MeasureInv'
      BY <2>0, <3>1 DEF MeasureInv
    <3> QED BY <2>2, <2>5, <3>1, <3>2, OpacityStep DEF AnimationInv
  <2>6. CASE setMinHeight
    <3>1. UNCHANGED accordion /\ UNCHANGED <<items, opacity, hides, refetched>>
      BY <2>6 DEF setMinHeight
    <3>2. ~refetched' => OverlayInv'
      BY <2>0, <3>1 DEF OverlayInv
    <3> QED BY <2>2, <2>6, <3>1, <3>2, MinHeightStep DEF AnimationInv
  <2>7. CASE UNCHANGED animVars
    <3>1. UNCHANGED list /\ UNCHANGED accordion
      BY <2>7 DEF animVars, list, accordion
    <3>2. AnimationTypeOK'
      BY <2>0, <2>7 DEF animVars, AnimationTypeOK
    <3> QED BY <2>1, <2>2, <3>1, <3>2 DEF AnimationInv
  <2> QED BY <2>3, <2>4, <2>5, <2>6, <2>7 DEF AnimationNext
<1> QED BY <1>1, <1>2, PTL DEF AnimationSpec

\* When nothing is deferred any more, what the accordion and the list show is
\* what is so, whatever the order in which their frames and timers ran, and
\* however many of them waited.
THEOREM PanelsSettled == AnimationSpec => []PanelsSettle
<1>1. AnimationInv => PanelsSettle
  <2> SUFFICES ASSUME AnimationInv
               PROVE  PanelsSettle
    OBVIOUS
  <2>0. AnimationTypeOK /\ (~quick => AccordionInv) /\ MeasureInv /\ (~refetched => OverlayInv)
    BY DEF AnimationInv
  <2>1. callbacks = <<>> /\ ~transition /\ ~quick =>
          maxHeight = IF isOpen THEN "none" ELSE "zero"
    BY <2>0 DEF AccordionInv
  <2>2. ASSUME measures = <<>>
        PROVE  (minHeight = "full") = Fetching(items)
    <3>1. \A x : ~Has(measures, x)
      BY <2>2 DEF Has
    <3>2. minHeight = IF Fetching(items) THEN "full" ELSE "zero"
      BY <2>0, <3>1 DEF MeasureInv
    <3>3. CASE Fetching(items)
      BY <3>2, <3>3 DEF Fetching
    <3>4. CASE ~Fetching(items)
      BY <3>2, <3>4 DEF Fetching
    <3> QED BY <3>3, <3>4
  <2>3. ASSUME hides = <<>>, ~refetched
        PROVE  opacity = Fetching(items)
    <3>1. \A x : ~Has(hides, x)
      BY <2>3 DEF Has
    <3>2. IF Fetching(items) THEN opacity = TRUE ELSE opacity = FALSE
      BY <2>0, <2>3, <3>1 DEF OverlayInv
    <3> QED BY <3>2 DEF Fetching
  <2> QED BY <2>1, <2>2, <2>3 DEF PanelsSettle
<1> QED BY <1>1, AnimationInvariant, PTL

------------------------------------------------------------------------------
(* The configuration: what a line is indented by, and how deep it is.        *)

\* By how much pretty indents what is d deep.
IndentOf(d) ==
  IF format = "cli" THEN Leading[d] - Leading[0] ELSE IF format = "json" THEN d ELSE 2 * d

\* How deep the line ahead is: the document has been read to its end.
DepthOf ==
  Len(document.stack) + (IF line.kind \in {"open", "unread"} THEN -1
                         ELSE IF line.kind = "textEnd" THEN 1 ELSE 0)

\* The deeper a line, the more space leads it.
LEMMA LeadingGrows ==
  ASSUME NEW d \in Nat, NEW e \in Nat, d < e, e <= MaxDepth
  PROVE  Leading[d] \in Nat /\ Leading[e] \in Nat /\ Leading[d] < Leading[e]
<1> DEFINE T == {x \in Nat : d < x /\ x <= MaxDepth /\ ~(Leading[d] < Leading[x])}
<1>1. MaxDepth \in Nat /\ \A x \in Nat : x <= MaxDepth => Leading[x] \in Nat
  BY TextAssumption
<1>2. T = {}
  <2> SUFFICES ASSUME T # {}
               PROVE  FALSE
    OBVIOUS
  <2>1. PICK x \in T : \A y \in T : ~(y < x)
    BY LeastNat
  <2>2. x \in Nat /\ d < x /\ x <= MaxDepth /\ ~(Leading[d] < Leading[x])
    BY <2>1
  <2>3. x - 1 \in Nat /\ Leading[x - 1] < Leading[x]
    <3>1. x \in 1..MaxDepth
      BY <1>1, <2>2
    <3> QED BY <3>1, TextAssumption
  <2>4. CASE x - 1 = d
    BY <2>2, <2>3, <2>4
  <2>5. CASE x - 1 # d
    <3>1. d < x - 1 /\ x - 1 <= MaxDepth /\ x - 1 < x
      BY <1>1, <2>2, <2>5
    <3>2. x - 1 \notin T
      BY <2>1, <2>3, <3>1
    <3>3. Leading[d] < Leading[x - 1]
      BY <2>3, <3>1, <3>2
    <3>4. Leading[d] \in Nat /\ Leading[x - 1] \in Nat /\ Leading[x] \in Nat
      BY <1>1, <2>2, <2>3, <3>1
    <3> QED BY <2>2, <2>3, <3>3, <3>4
  <2> QED BY <2>4, <2>5
<1>3. d <= MaxDepth
  BY <1>1
<1> QED BY <1>1, <1>2, <1>3

\* A line that is deeper is indented by more.
LEMMA UnitGrows ==
  ASSUME NEW d \in Nat, NEW e \in Nat, d <= MaxDepth, e <= MaxDepth
  PROVE  /\ IndentOf(d) \in Nat /\ IndentOf(0) = 0
         /\ IndentOf(d) < IndentOf(e) <=> d < e
         /\ IndentOf(d) = IndentOf(e) <=> d = e
<1>1. MaxDepth \in Nat /\ 0 \in Nat /\ 0 <= MaxDepth
  BY TextAssumption
<1>2. Leading[d] \in Nat /\ Leading[e] \in Nat /\ Leading[0] \in Nat
  BY <1>1, TextAssumption
<1>3. /\ d < e => Leading[d] < Leading[e]
      /\ e < d => Leading[e] < Leading[d]
      /\ 0 < d => Leading[0] < Leading[d]
  BY <1>1, LeadingGrows
<1>4. CASE format = "cli"
  <2>1. /\ IndentOf(d) = Leading[d] - Leading[0] /\ IndentOf(e) = Leading[e] - Leading[0]
        /\ IndentOf(0) = Leading[0] - Leading[0]
    BY <1>4 DEF IndentOf
  <2> QED BY <1>2, <1>3, <2>1
<1>5. CASE format # "cli"
  BY <1>5 DEF IndentOf
<1> QED BY <1>4, <1>5

------------------------------------------------------------------------------
(* The configuration: the document and the line ahead.                       *)

LineKinds == {"unread", "meta", "leaf", "open", "exit", "comma", "text", "textEnd"}

\* What has been read: an annotation is the only thing that is noted, and what
\* pretty remembers is how deep the reader is.
DocumentInv ==
  /\ format \in Formats /\ line.kind \in LineKinds
  /\ document.stack \in Seq(BOOLEAN) /\ Len(document.stack) <= MaxDepth
  /\ DepthOf \in Nat /\ DepthOf <= MaxDepth
  /\ document.note = IF line.kind = "meta" THEN line.ptr ELSE "none"
  /\ document.text \in BOOLEAN
  /\ document.text \/ line.kind \in {"text", "textEnd"} => format = "xml"
  /\ line.kind = "meta" => format \in {"cli", "curly-braces"}
  /\ format = "xml" => document.indent = 2 * Len(document.stack)
  /\ format \in {"curly-braces", "json"} =>
       document.indent = IndentOf(DepthOf) /\ document.last = Leading[DepthOf]
  /\ format = "json" => \A i \in 1..Len(document.stack) : document.stack[i] = FALSE

\* The line ahead is indented as it is deep.
AheadInv ==
  /\ line.indent = IndentOf(DepthOf)
  /\ line.ptr \in Pointers /\ line.want \in BOOLEAN
  /\ line.kind # "exit" => DepthOf >= 1
  /\ line.kind = "meta" => line.want = FALSE

\* The length of what is open after a line of a kind.
After(kind, m) ==
  IF kind = "open" THEN m + 1 ELSE IF kind \in {"exit", "comma", "textEnd"} THEN m - 1 ELSE m

\* Indented again, a line is where its depth says, whatever the format.
LEMMA PrettyIs ==
  ASSUME DocumentInv, NEW m \in Nat, m = Len(document.stack), m >= 1,
         NEW kind \in LineKinds \ {"unread"}, NEW d \in Nat,
         d = IF kind \in {"exit", "comma"} THEN m - 1 ELSE m,
         kind = "comma" => format = "json"
  PROVE  LET p == pretty(document, kind, Leading[d])
         IN  /\ p.indent = IndentOf(d)
             /\ format = "xml" => p.next = 2 * After(kind, m)
             /\ format \in {"curly-braces", "json"} => p.next = IndentOf(d)
<1> DEFINE p == pretty(document, kind, Leading[d])
<1>1. CASE format = "cli"
  <2>1. p = trim(document, Leading[d])
    BY <1>1 DEF pretty
  <2> QED BY <1>1, <2>1 DEF trim, IndentOf
<1>2. CASE format = "xml"
  <2>1. p = reIndentXml(document, kind) /\ document.indent = 2 * m /\ kind # "comma"
    BY <1>2 DEF pretty, DocumentInv
  <2>2. IndentOf(d) = 2 * d
    BY <1>2 DEF IndentOf
  <2>3. CASE kind = "exit"
    <3>1. p = [indent |-> document.indent - 2, next |-> document.indent - 2]
      BY <2>1, <2>3 DEF reIndentXml
    <3> QED BY <1>2, <2>1, <2>2, <2>3, <3>1 DEF After
  <2>4. CASE kind = "textEnd"
    <3>1. p = [indent |-> document.indent, next |-> document.indent - 2]
      BY <2>1, <2>4 DEF reIndentXml
    <3> QED BY <1>2, <2>1, <2>2, <2>4, <3>1 DEF After
  <2>5. CASE kind = "open"
    <3>1. p = [indent |-> document.indent, next |-> document.indent + 2]
      BY <2>1, <2>5 DEF reIndentXml
    <3> QED BY <1>2, <2>1, <2>2, <2>5, <3>1 DEF After
  <2>6. CASE kind \notin {"exit", "textEnd", "open"}
    <3>1. p = [indent |-> document.indent, next |-> document.indent]
      BY <2>1, <2>6 DEF reIndentXml
    <3> QED BY <1>2, <2>1, <2>2, <2>6, <3>1 DEF After
  <2> QED BY <2>3, <2>4, <2>5, <2>6
<1>3. CASE format \in {"curly-braces", "json"}
  <2> DEFINE level == IF format = "json" THEN 1 ELSE 2
             q == DepthOf
  <2>1. p = reIndent(document, Leading[d], level)
    BY <1>3 DEF pretty
  <2>2. /\ q \in Nat /\ q <= MaxDepth /\ d <= MaxDepth /\ MaxDepth \in Nat
        /\ q = m \/ q = m - 1
        /\ document.indent = IndentOf(q) /\ document.last = Leading[q]
    <3>1. MaxDepth \in Nat /\ q \in Nat /\ q <= MaxDepth /\ m <= MaxDepth
      BY TextAssumption DEF DocumentInv
    <3>2. line.kind # "textEnd" /\ document.indent = IndentOf(q) /\ document.last = Leading[q]
      BY <1>3 DEF DocumentInv
    <3>3. d <= MaxDepth
      BY <3>1
    <3>4. q = m \/ q = m - 1
      <4>1. CASE line.kind \in {"open", "unread"}
        BY <4>1 DEF DepthOf
      <4>2. CASE line.kind \notin {"open", "unread"}
        BY <3>2, <4>2 DEF DepthOf
      <4> QED BY <4>1, <4>2
    <3> HIDE DEF q
    <3> QED BY <3>1, <3>2, <3>3, <3>4
  <2>3. level \in {1, 2} /\ \A k \in Nat : IndentOf(k) = level * k
    <3>1. CASE format = "json"
      BY <3>1 DEF IndentOf
    <3>2. CASE format = "curly-braces"
      BY <3>2 DEF IndentOf
    <3> QED BY <1>3, <3>1, <3>2
  <2>7. /\ IndentOf(q) = level * q /\ IndentOf(d) = level * d
        /\ Leading[d] \in Nat /\ Leading[q] \in Nat
    <3>1. \A k \in Nat : k <= MaxDepth => Leading[k] \in Nat
      BY TextAssumption
    <3> HIDE DEF q, level
    <3> QED BY <2>2, <2>3, <3>1
  <2> HIDE DEF q, level
  <2>4. CASE d > q
    <3>1. Leading[d] > document.last /\ d = q + 1
      BY <2>2, <2>4, LeadingGrows
    <3>2. p.indent = document.indent + level /\ p.next = document.indent + level
      <4>1. ~(Leading[d] < document.last)
        BY <2>2, <2>7, <3>1
      <4> QED BY <2>1, <3>1, <4>1 DEF reIndent
    <3>3. level * d = level * q + level
      BY <2>2, <2>3, <3>1
    <3> QED BY <1>3, <2>2, <2>7, <3>2, <3>3
  <2>5. CASE d < q
    <3>1. Leading[d] < document.last /\ ~(Leading[d] > document.last) /\ d = q - 1
      BY <2>2, <2>5, LeadingGrows
    <3>2. document.indent > 0
      <4>1. q > 0 /\ q \in Nat
        BY <2>2, <2>5
      <4>2. level = 1 \/ level = 2
        BY <2>3
      <4>3. level * q > 0
        BY <4>1, <4>2
      <4> QED BY <2>2, <2>7, <4>3
    <3>4. level * d = level * q - level
      BY <2>2, <2>3, <3>1
    <3>3. p.indent = document.indent - level /\ p.next = document.indent - level
      BY <2>1, <3>1, <3>2 DEF reIndent
    <3> QED BY <1>3, <2>2, <2>7, <3>3, <3>4
  <2>6. CASE d = q
    <3>1. Leading[d] = document.last /\ Leading[d] \in Nat
      BY <2>2, <2>6, <2>7
    <3>2. p.indent = document.indent /\ p.next = document.indent
      <4>1. ~(Leading[d] > document.last) /\ ~(Leading[d] < document.last)
        BY <3>1
      <4> QED BY <2>1, <4>1 DEF reIndent
    <3> QED BY <1>3, <2>2, <2>6, <3>2
  <2> QED BY <2>2, <2>4, <2>5, <2>6
<1> QED BY <1>1, <1>2, <1>3 DEF DocumentInv, Formats


\* A line that Read makes, and the document after it.
IsRead(kind, d, ptr, want, stack, note, text) ==
  LET n == Read(document, kind, d, ptr, want, stack, note, text)
  IN line' = n.line /\ document' = n.document

\* What the line after the one ahead is, whom it belongs to and what it leaves open.
NextIs(m) ==
  /\ line'.kind \in LineKinds \ {"unread"}
  /\ LET k == line'.kind
         d == IF k \in {"exit", "comma"} THEN m - 1 ELSE m
     IN  /\ DepthOf' = d /\ line'.indent = IndentOf(d)
         /\ Len(document'.stack) = After(k, m)
         /\ \A i \in 1..m : i <= After(k, m) => document'.stack[i] = document.stack[i]
         /\ k = "open" => document'.stack[m + 1] = line'.want
         /\ k \in {"leaf", "open"} => line'.want = Marked(document, line'.ptr)
         /\ k \in {"exit", "comma", "text", "textEnd"} =>
              line'.want = document.stack[m] /\ line'.ptr = "none" /\ document.note = "none"
         /\ k = "meta" => document.note = "none"
         /\ k = "comma" => format = "json" /\ m > 1

\* What Read makes of a line, but for what it is.
Reading(kind, d) ==
  LET p == pretty(document, kind, Leading[d])
  IN  /\ line'.kind = kind /\ line'.indent = p.indent
      /\ document'.indent = p.next /\ document'.last = Leading[d]

\* A line is indented as deep as it is, and so is what pretty remembers.
LEMMA ReadIs ==
  ASSUME DocumentInv, line.kind # "end", UNCHANGED format,
         NEW m \in Nat, m = Len(document.stack), m >= 1,
         NEW kind \in LineKinds \ {"unread"}, NEW d \in Nat,
         d = IF kind \in {"exit", "comma"} THEN m - 1 ELSE m,
         kind = "comma" => format = "json" /\ m > 1,
         Reading(kind, d),
         line'.ptr \in Pointers, line'.want \in BOOLEAN,
         document'.stack \in Seq(BOOLEAN), Len(document'.stack) = After(kind, m),
         Len(document'.stack) <= MaxDepth, document'.text \in BOOLEAN,
         document'.note = IF kind = "meta" THEN line'.ptr ELSE "none",
         document'.text \/ kind \in {"text", "textEnd"} => format = "xml",
         kind = "meta" => format \in {"cli", "curly-braces"} /\ line'.want = FALSE,
         format = "json" => \A i \in 1..Len(document'.stack) : document'.stack[i] = FALSE
  PROVE  /\ DocumentInv' /\ AheadInv' /\ DepthOf' = d /\ line'.indent = IndentOf(d)
<1> DEFINE p == pretty(document, kind, Leading[d])
<1>1. /\ line'.kind = kind /\ line'.indent = p.indent
      /\ document'.indent = p.next /\ document'.last = Leading[d]
  BY DEF Reading
<1>2. /\ p.indent = IndentOf(d)
      /\ format = "xml" => p.next = 2 * After(kind, m)
      /\ format \in {"curly-braces", "json"} => p.next = IndentOf(d)
  BY PrettyIs
<1> HIDE DEF p
<1>3. DepthOf' = d
  <2>1. Len(document'.stack) = After(kind, m) /\ line'.kind = kind
    BY <1>1
  <2>2. CASE kind = "open"
    BY <2>1, <2>2 DEF DepthOf, After
  <2>3. CASE kind = "textEnd"
    BY <2>1, <2>3 DEF DepthOf, After
  <2>4. CASE kind \in {"exit", "comma"}
    <3>1. Len(document'.stack) = m - 1 /\ line'.kind \notin {"open", "unread", "textEnd"}
      BY <2>1, <2>4 DEF After
    <3>2. DepthOf' = m - 1 + 0
      BY <3>1 DEF DepthOf
    <3> QED BY <2>4, <3>2
  <2>5. CASE kind \in {"meta", "leaf", "text"}
    <3>1. Len(document'.stack) = m /\ line'.kind \notin {"open", "unread", "textEnd"}
      BY <2>1, <2>5 DEF After
    <3>2. DepthOf' = m + 0
      BY <3>1 DEF DepthOf
    <3> QED BY <2>5, <3>2
  <2> QED BY <2>2, <2>3, <2>4, <2>5 DEF LineKinds
<1>4. IndentOf(d)' = IndentOf(d) /\ IndentOf(DepthOf)' = IndentOf(d)
  BY <1>3 DEF IndentOf
<1>5. d <= MaxDepth /\ (kind # "exit" => d >= 1)
  <2>1. m <= MaxDepth /\ MaxDepth \in Nat
    BY TextAssumption DEF DocumentInv
  <2> QED BY <2>1
<1>6. AheadInv'
  BY <1>1, <1>2, <1>3, <1>4, <1>5 DEF AheadInv
<1>7. DocumentInv'
  <2>1. format' \in Formats /\ line'.kind \in LineKinds
    BY <1>1 DEF DocumentInv
  <2>2. /\ document'.stack \in Seq(BOOLEAN) /\ Len(document'.stack) <= MaxDepth
        /\ DepthOf' \in Nat /\ DepthOf' <= MaxDepth
    BY <1>1, <1>3, <1>5
  <2>3. /\ document'.note = IF line'.kind = "meta" THEN line'.ptr ELSE "none"
        /\ document'.text \in BOOLEAN
        /\ document'.text \/ line'.kind \in {"text", "textEnd"} => format' = "xml"
        /\ line'.kind = "meta" => format' \in {"cli", "curly-braces"}
    BY <1>1
  <2>4. format' = "xml" => document'.indent = 2 * Len(document'.stack)
    BY <1>1, <1>2
  <2>5. format' \in {"curly-braces", "json"} =>
          document'.indent = IndentOf(DepthOf)' /\ document'.last = Leading[DepthOf']
    BY <1>1, <1>2, <1>3, <1>4
  <2>6. format' = "json" => \A i \in 1..Len(document'.stack) : document'.stack[i] = FALSE
    BY <1>1
  <2> QED BY <2>1, <2>2, <2>3, <2>4, <2>5, <2>6 DEF DocumentInv
<1> QED BY <1>2, <1>1, <1>3, <1>6, <1>7

\* The lines that may come next.
LEMMA NextLineIs ==
  ASSUME DocumentInv, line.kind = "unread" \/ AheadInv, line.kind # "end",
         UNCHANGED format, ReadNext, ~ragged'
  PROVE  \/ line'.kind = "end" /\ line' = EndOfText
         \/ /\ DocumentInv' /\ AheadInv' /\ Len(document.stack) >= 1
            /\ NextIs(Len(document.stack))
<1> DEFINE s == document.stack
           m == Len(document.stack)
<1>0. /\ s \in Seq(BOOLEAN) /\ m \in Nat /\ m <= MaxDepth /\ MaxDepth \in Nat
      /\ \A i \in 1..m : s[i] \in BOOLEAN
      /\ s = <<>> \/ m >= 1
  BY TextAssumption DEF DocumentInv
<1>1. PICK n \in NextLines(document) : line' = n.line /\ document' = n.document
  BY DEF ReadNext
<1>2. CASE s = <<>>
  <2>1. NextLines(document) = AtEnd(document)
    BY <1>2 DEF NextLines
  <2> QED BY <1>1, <2>1 DEF AtEnd, EndOfText, Line
<1>3. CASE n \in AtEnd(document)
  BY <1>1, <1>3 DEF AtEnd, EndOfText, Line
<1> SUFFICES ASSUME m >= 1, n \notin AtEnd(document)
             PROVE  DocumentInv' /\ AheadInv' /\ NextIs(m)
  BY <1>0, <1>2, <1>3
<1>4. /\ Top(document) = s[m] /\ Depth(document) = m /\ s[m] \in BOOLEAN
      /\ Commented => format \in {"cli", "curly-braces"}
      /\ ~Commented => document.note = "none"
      /\ document.note \in Pointers
  <2>1. Depth(document) = m /\ s[m] \in BOOLEAN /\ s # <<>>
    BY <1>0 DEF Depth
  <2>2. Top(document) = s[m]
    BY <2>1, Zenon DEF Top
  <2>3. line.kind # "meta" => document.note = "none"
    BY DEF DocumentInv
  <2>4. ~Commented => document.note = "none"
    BY <2>3 DEF DocumentInv, Commented
  <2>5. document.note \in Pointers
    BY DEF DocumentInv, AheadInv, Pointers
  <2> QED BY <2>1, <2>2, <2>4, <2>5 DEF Commented
<1>5. \A ptr \in Pointers : Marked(document, ptr) \in BOOLEAN
  BY <1>4 DEF Marked
<1>6. /\ SubSeq(s, 1, m - 1) \in Seq(BOOLEAN) /\ Len(SubSeq(s, 1, m - 1)) = m - 1
      /\ \A i \in 1..(m - 1) : SubSeq(s, 1, m - 1)[i] = s[i]
  BY <1>0
<1>7. ASSUME document.text, n \in Texts(document)
      PROVE  DocumentInv' /\ AheadInv' /\ NextIs(m)
  <2>1. format = "xml" /\ document.note = "none"
    BY <1>4, <1>7 DEF DocumentInv, Commented
  <2>2. CASE IsRead("text", m, "none", s[m], s, "none", TRUE)
    <3>1. /\ Reading("text", m) /\ line'.kind = "text"
          /\ line'.ptr = "none" /\ line'.want = s[m] /\ document'.stack = s
          /\ document'.note = "none" /\ document'.text = TRUE
      BY <2>2 DEF IsRead, Reading, Read, Line
    <3>2. DocumentInv' /\ AheadInv' /\ DepthOf' = m /\ line'.indent = IndentOf(m)
      BY <1>0, <1>4, <2>1, <3>1, ReadIs DEF LineKinds, After, Pointers
    <3> QED BY <1>0, <2>1, <3>1, <3>2 DEF NextIs, After, LineKinds
  <2>3. CASE IsRead("textEnd", m, "none", s[m], SubSeq(s, 1, m - 1), "none", FALSE)
    <3>1. /\ Reading("textEnd", m) /\ line'.kind = "textEnd"
          /\ line'.ptr = "none" /\ line'.want = s[m] /\ document'.stack = SubSeq(s, 1, m - 1)
          /\ document'.note = "none" /\ document'.text = FALSE
      BY <2>3 DEF IsRead, Reading, Read, Line
    <3>2. DocumentInv' /\ AheadInv' /\ DepthOf' = m /\ line'.indent = IndentOf(m)
      <4>1. /\ document'.stack \in Seq(BOOLEAN) /\ Len(document'.stack) = m - 1
            /\ m - 1 <= MaxDepth /\ After("textEnd", m) = m - 1
        BY <1>0, <1>6, <3>1 DEF After
      <4>2. line'.ptr \in Pointers /\ line'.want \in BOOLEAN /\ document'.text \in BOOLEAN
        BY <1>4, <3>1 DEF Pointers
      <4> QED BY <1>0, <2>1, <3>1, <4>1, <4>2, ReadIs DEF LineKinds
    <3> QED BY <1>0, <1>6, <2>1, <3>1, <3>2 DEF NextIs, After, LineKinds
  <2> QED BY <1>1, <1>4, <1>7, <2>2, <2>3 DEF Texts, IsRead
<1>8. ASSUME n \in Annotations(document)
      PROVE  DocumentInv' /\ AheadInv' /\ NextIs(m)
  <2>1. /\ format \in {"cli", "curly-braces"} /\ document.note = "none"
        /\ \E ptr \in Pointers : n = Read(document, "meta", m, ptr, FALSE, s, ptr, FALSE)
    BY <1>4, <1>8 DEF Annotations
  <2>2. PICK ptr \in Pointers : IsRead("meta", m, ptr, FALSE, s, ptr, FALSE)
    BY <1>1, <2>1 DEF IsRead
  <2>3. /\ Reading("meta", m) /\ line'.kind = "meta"
        /\ line'.ptr = ptr /\ line'.want = FALSE /\ document'.stack = s
        /\ document'.note = ptr /\ document'.text = FALSE
    BY <2>2 DEF IsRead, Reading, Read, Line
  <2>4. DocumentInv' /\ AheadInv' /\ DepthOf' = m /\ line'.indent = IndentOf(m)
    BY <1>0, <2>1, <2>3, ReadIs DEF LineKinds, After, DocumentInv
  <2> QED BY <1>0, <2>1, <2>3, <2>4 DEF NextIs, After, LineKinds
<1>9. ASSUME n \in Leaves(document)
      PROVE  DocumentInv' /\ AheadInv' /\ NextIs(m)
  <2>1. PICK ptr \in OwnPointers :
          IsRead("leaf", m, ptr, Marked(document, ptr), s, "none", FALSE)
    BY <1>1, <1>4, <1>9 DEF Leaves, IsRead
  <2>2. ptr \in Pointers /\ Marked(document, ptr) \in BOOLEAN
    BY <1>5 DEF OwnPointers, Pointers
  <2>3. /\ Reading("leaf", m) /\ line'.kind = "leaf"
        /\ line'.ptr = ptr /\ line'.want = Marked(document, ptr) /\ document'.stack = s
        /\ document'.note = "none" /\ document'.text = FALSE
    BY <2>1 DEF IsRead, Reading, Read, Line
  <2>4. DocumentInv' /\ AheadInv' /\ DepthOf' = m /\ line'.indent = IndentOf(m)
    BY <1>0, <2>2, <2>3, ReadIs DEF LineKinds, After, DocumentInv
  <2> QED BY <1>0, <2>3, <2>4 DEF NextIs, After, LineKinds
<1>10. ASSUME n \in Opens(document)
       PROVE  DocumentInv' /\ AheadInv' /\ NextIs(m)
  <2>0. m < MaxDepth
    <3> SUFFICES ASSUME m = MaxDepth
                 PROVE  FALSE
      BY <1>0
    <3>1. Depth(document) = MaxDepth
      BY <1>4
    <3>2. Opens(document) = {}
      BY <3>1 DEF Opens
    <3> QED BY <1>10, <3>2
  <2>1. PICK ptr \in OwnPointers, text \in Unfinished :
          IsRead("open", m, ptr, Marked(document, ptr), Append(s, Marked(document, ptr)),
                 "none", text)
    <3>1. Depth(document) = m /\ m # MaxDepth
      BY <1>0, <1>4, <2>0
    <3>2. n \in {Read(document, "open", Depth(document), ptr, Marked(document, ptr),
                      Append(document.stack, Marked(document, ptr)), "none", text) :
                   ptr \in OwnPointers, text \in Unfinished}
      BY <1>10, <3>1 DEF Opens
    <3> QED BY <1>1, <3>1, <3>2 DEF IsRead
  <2> DEFINE by == Marked(document, ptr)
             t  == Append(s, by)
  <2>2. ptr \in Pointers /\ by \in BOOLEAN /\ text \in BOOLEAN /\ (text => format = "xml")
    BY <1>5 DEF OwnPointers, Pointers, Unfinished
  <2>3. /\ t \in Seq(BOOLEAN) /\ Len(t) = m + 1 /\ t[m + 1] = by
        /\ \A i \in 1..m : t[i] = s[i]
    BY <1>0, <2>2
  <2>4. ASSUME format = "json"
        PROVE  \A i \in 1..Len(t) : t[i] = FALSE
    <3>1. document.note = "none" /\ ptr = "none" /\ s[m] = FALSE
      BY <1>0, <1>4, <2>4 DEF Commented, OwnPointers, DocumentInv
    <3>2. by = FALSE
      BY <1>4, <3>1 DEF Marked
    <3>3. \A i \in 1..m : s[i] = FALSE
      BY <2>4 DEF DocumentInv
    <3> HIDE DEF by, t
    <3>4. \A i \in 1..(m + 1) : i = m + 1 \/ i \in 1..m
      BY <1>0
    <3> QED BY <2>3, <3>2, <3>3, <3>4
  <2>5. /\ DocumentInv' /\ AheadInv' /\ line'.kind = "open" /\ line'.ptr = ptr
        /\ line'.want = by
        /\ document'.stack = t /\ DepthOf' = m /\ line'.indent = IndentOf(m)
    <3>1. IsRead("open", m, ptr, by, t, "none", text)
      BY <2>1
    <3>2. /\ Reading("open", m) /\ line'.kind = "open"
          /\ line'.ptr = ptr /\ line'.want = by /\ document'.stack = t
          /\ document'.note = "none" /\ document'.text = text
      BY <3>1 DEF IsRead, Reading, Read, Line
    <3> HIDE DEF by, t
    <3>3. DocumentInv' /\ AheadInv' /\ DepthOf' = m /\ line'.indent = IndentOf(m)
      <4>1. /\ document'.stack \in Seq(BOOLEAN) /\ Len(document'.stack) = m + 1
            /\ m + 1 <= MaxDepth /\ After("open", m) = m + 1
        BY <1>0, <2>0, <2>3, <3>2 DEF After
      <4>2. line'.ptr \in Pointers /\ line'.want \in BOOLEAN /\ document'.text \in BOOLEAN
        BY <2>2, <3>2
      <4>3. format = "json" => \A i \in 1..Len(document'.stack) : document'.stack[i] = FALSE
        BY <2>4, <3>2
      <4>4. document'.text => format = "xml"
        BY <2>2, <3>2
      <4> QED BY <1>0, <3>2, <4>1, <4>2, <4>3, <4>4, ReadIs DEF LineKinds
    <3> QED BY <3>2, <3>3
  <2>6. line'.want = Marked(document, line'.ptr)
    BY <2>5
  <2> HIDE DEF by, t
  <2> QED BY <1>0, <2>3, <2>5, <2>6 DEF NextIs, After, LineKinds
<1>11. ASSUME n \in Exits(document)
       PROVE  DocumentInv' /\ AheadInv' /\ NextIs(m)
  <2> DEFINE t == SubSeq(s, 1, m - 1)
  <2>0. document.note = "none"
    BY <1>11 DEF Exits
  <2>1. PICK k \in {"exit"} \cup (IF format = "json" /\ m > 1 THEN {"comma"} ELSE {}) :
          IsRead(k, m - 1, "none", s[m], t, "none", FALSE)
    BY <1>1, <1>4, <1>11, <2>0 DEF Exits, IsRead
  <2>2. k \in {"exit", "comma"} /\ (k = "comma" => format = "json" /\ m > 1)
    OBVIOUS
  <2>3. format = "json" => \A i \in 1..Len(t) : t[i] = FALSE
    BY <1>0, <1>6 DEF DocumentInv
  <2>4. /\ DocumentInv' /\ AheadInv' /\ line'.kind = k /\ line'.ptr = "none"
        /\ line'.want = s[m]
        /\ document'.stack = t /\ DepthOf' = m - 1 /\ line'.indent = IndentOf(m - 1)
    <3>1. m - 1 \in Nat /\ t \in Seq(BOOLEAN) /\ Len(t) = m - 1 /\ m - 1 <= MaxDepth
      BY <1>0, <1>6
    <3>2. /\ Reading(k, m - 1) /\ line'.kind = k
          /\ line'.ptr = "none" /\ line'.want = s[m] /\ document'.stack = t
          /\ document'.note = "none" /\ document'.text = FALSE
      BY <2>1 DEF IsRead, Reading, Read, Line
    <3> HIDE DEF t
    <3>3. DocumentInv' /\ AheadInv' /\ DepthOf' = m - 1 /\ line'.indent = IndentOf(m - 1)
      BY <1>0, <1>4, <2>2, <2>3, <3>1, <3>2, ReadIs DEF LineKinds, After, Pointers
    <3> QED BY <3>2, <3>3
  <2> QED BY <1>0, <1>6, <2>0, <2>2, <2>4 DEF NextIs, After, LineKinds
<1>12. NextLines(document) = IF document.text THEN Texts(document)
         ELSE Annotations(document) \cup Leaves(document) \cup Opens(document)
                \cup Exits(document)
                \cup (IF Depth(document) = 1 /\ document.note = "none" THEN AtEnd(document) ELSE {})
  <2>1. document.stack # <<>> /\ document.text \in BOOLEAN
    BY <1>0 DEF DocumentInv
  <2>2. CASE document.text
    BY <2>1, <2>2 DEF NextLines
  <2>3. CASE ~document.text
    BY <2>1, <2>3 DEF NextLines
  <2> QED BY <2>2, <2>3
<1> QED BY <1>1, <1>7, <1>8, <1>9, <1>10, <1>11, <1>12

------------------------------------------------------------------------------
(* The configuration: the calls of processBlock.                             *)

FrameType == [blockIndent: Int, indent: Int, backpointer: Pointers, highlight: BOOLEAN]

\* What a call decides for a line with the backpointer ptr.
Wanted(f, ptr) ==
  IF f.backpointer # "none" THEN f.backpointer = "open"
  ELSE IF ptr # "none" THEN ptr = "open" ELSE f.highlight

\* The innermost call is the only one that has looked at a line it does not end
\* with, and the only one that keeps a backpointer.
CallsInv(F) ==
  /\ F \in Seq(FrameType) /\ Len(F) >= 1 /\ Len(F) <= MaxDepth + 1
  /\ \A i \in 1..Len(F) : F[i].blockIndent = IndentOf(i - 1)
  /\ \A i \in 1..Len(F) : i < Len(F) => F[i].backpointer = "none" /\ F[i].indent > F[i].blockIndent

\* A call that has ended is deeper than d.
EndedBelow(F, d) == F[Len(F)].indent <= F[Len(F)].blockIndent => Len(F) >= d + 1

\* The calls when the next line is read: there is one for every open statement,
\* and the innermost statement's knows of its annotation.
ReadyInv(F) ==
  LET m == Len(document.stack)
  IN  /\ CallsInv(F) /\ m >= 1 /\ Len(F) >= m /\ EndedBelow(F, m)
      /\ \A i \in 1..m : F[i].highlight = document.stack[i]
      /\ F[m].backpointer = document.note

\* How many calls there are at least when the line ahead is to be looked at.
Needed == DepthOf + (IF line.kind = "exit" THEN 1 ELSE 0)

\* How many open statements have a call: the line ahead may open one more.
Called == Len(document.stack) - (IF line.kind = "open" THEN 1 ELSE 0)

\* The calls when a line is ahead: the one that the line belongs to is among
\* them, and will highlight it as its backpointer says.
BlocksInv ==
  LET q == DepthOf
  IN  /\ CallsInv(frames) /\ Len(frames) >= Needed /\ Needed >= 1
      /\ EndedBelow(frames, Needed)
      /\ \A i \in 1..Called : frames[i].highlight = document.stack[i]
      /\ line.kind = "open" => document.stack[Len(document.stack)] = line.want
      /\ line.kind = "exit" => frames[q + 1].highlight = line.want
      /\ line.kind = "meta" => frames[q].backpointer = "none"
      /\ line.kind \notin {"exit", "meta"} => line.want = Wanted(frames[q], line.ptr)

\* The line ahead, and the calls it finds.
AtLine == DocumentInv /\ AheadInv /\ BlocksInv /\ line.kind # "unread"

\* A line that was read finds the calls as it needs them.
LEMMA ReadBlocks ==
  ASSUME DocumentInv, line.kind = "unread" \/ AheadInv, line.kind # "end",
         UNCHANGED format, ReadNext, ~ragged', ReadyInv(frames')
  PROVE  line'.kind = "end" \/ AtLine'
<1> DEFINE m == Len(document.stack)
           F == frames'
           n == Len(F)
           s == document.stack
           t == document'.stack
<1> SUFFICES ASSUME line'.kind # "end"
             PROVE  AtLine'
  OBVIOUS
<1>1. DocumentInv' /\ AheadInv' /\ m >= 1 /\ NextIs(m)
  BY NextLineIs
<1>2. m \in Nat /\ MaxDepth \in Nat /\ s \in Seq(BOOLEAN) /\ t \in Seq(BOOLEAN)
  BY <1>1, TextAssumption DEF DocumentInv
<1> DEFINE k == line'.kind
           d == IF k \in {"exit", "comma"} THEN m - 1 ELSE m
<1>3. /\ k \in LineKinds \ {"unread"} /\ DepthOf' = d /\ Len(t) = After(k, m)
      /\ \A i \in 1..m : i <= After(k, m) => t[i] = s[i]
      /\ k = "open" => t[m + 1] = line'.want
      /\ k \in {"leaf", "open"} => line'.want = Marked(document, line'.ptr)
      /\ k \in {"exit", "comma", "text", "textEnd"} =>
           line'.want = s[m] /\ line'.ptr = "none" /\ document.note = "none"
      /\ k = "meta" => document.note = "none"
      /\ k = "comma" => format = "json" /\ m > 1
  BY <1>1 DEF NextIs
<1>4. /\ CallsInv(F) /\ n >= m /\ EndedBelow(F, m) /\ n \in Nat
      /\ \A i \in 1..m : F[i].highlight = s[i]
      /\ F[m].backpointer = document.note
  <2>1. /\ CallsInv(F) /\ n >= m /\ EndedBelow(F, m)
        /\ \A i \in 1..m : F[i].highlight = s[i]
        /\ F[m].backpointer = document.note
    BY Zenon DEF ReadyInv
  <2>2. n \in Nat
    BY <2>1 DEF CallsInv
  <2> QED BY <2>1, <2>2
<1>5. CallsInv(F) <=> CallsInv(frames)'
  BY DEF CallsInv, IndentOf
<1>6. Needed' = m \/ (Needed' = m - 1 /\ m > 1)
  <2>1. CASE k = "exit"
    BY <1>2, <1>3, <2>1 DEF Needed
  <2>2. CASE k = "comma"
    BY <1>2, <1>3, <2>2 DEF Needed
  <2>3. CASE k \notin {"exit", "comma"}
    <3>1. DepthOf' = m /\ line'.kind # "exit"
      BY <1>3, <2>3
    <3>2. Needed' = m + 0
      BY <3>1 DEF Needed
    <3> QED BY <1>2, <3>2
  <2> QED BY <2>1, <2>2, <2>3
<1>7. EndedBelow(frames, Needed)'
  BY <1>2, <1>4, <1>6 DEF EndedBelow
<1>8. /\ Called' \in Int /\ After(k, m) \in Int
      /\ Called' <= m /\ Called' <= After(k, m)
  <2>1. CASE k = "open"
    BY <1>2, <1>3, <2>1 DEF Called, After
  <2>2. CASE k # "open"
    BY <1>2, <1>3, <2>2 DEF Called, After
  <2> QED BY <2>1, <2>2
<1>9. \A i \in 1..Called' : F[i].highlight = t[i]
  <2> SUFFICES ASSUME NEW i \in 1..Called'
               PROVE  F[i].highlight = t[i]
    OBVIOUS
  <2>1. i \in 1..m /\ i <= After(k, m)
    BY <1>2, <1>8
  <2> QED BY <1>3, <1>4, <2>1
<1>10. k = "open" => t[Len(t)] = line'.want
  BY <1>3 DEF After
<1>11. ASSUME k = "exit"
       PROVE  F[DepthOf' + 1].highlight = line'.want
  <2>1. DepthOf' + 1 = m /\ line'.want = s[m]
    BY <1>2, <1>3, <1>11
  <2>2. F[m].highlight = s[m]
    BY <1>1, <1>2, <1>4
  <2> QED BY <2>1, <2>2
<1>12. k = "meta" => F[DepthOf'].backpointer = "none"
  BY <1>2, <1>3, <1>4
<1>13. ASSUME k \notin {"exit", "meta"}
       PROVE  line'.want = Wanted(F[DepthOf'], line'.ptr)
  <2>1. CASE k \in {"leaf", "open"}
    <3>1. DepthOf' = m /\ line'.want = Marked(document, line'.ptr)
      BY <1>3, <2>1
    <3>2. Top(document) = s[m]
      <4>1. s # <<>> /\ Depth(document) = m
        BY <1>1, <1>2 DEF Depth
      <4> QED BY <4>1, Zenon DEF Top
    <3>3. F[m].highlight = s[m] /\ F[m].backpointer = document.note
      BY <1>1, <1>2, <1>4
    <3> QED BY <3>1, <3>2, <3>3 DEF Marked, Wanted
  <2>2. CASE k \in {"text", "textEnd"}
    <3>1. DepthOf' = m /\ line'.want = s[m] /\ line'.ptr = "none" /\ document.note = "none"
      BY <1>3, <2>2
    <3>2. F[m].highlight = s[m] /\ F[m].backpointer = "none"
      BY <1>1, <1>2, <1>4, <3>1
    <3> QED BY <3>1, <3>2 DEF Wanted
  <2>3. CASE k = "comma"
    <3>1. /\ DepthOf' = m - 1 /\ line'.want = s[m] /\ line'.ptr = "none"
          /\ format = "json" /\ m > 1
      BY <1>3, <2>3
    <3>2. s[m] = FALSE /\ s[m - 1] = FALSE
      BY <1>1, <1>2, <3>1 DEF DocumentInv
    <3>3. F[m - 1].highlight = s[m - 1] /\ F[m - 1].backpointer = "none"
      <4>1. m - 1 \in 1..m /\ m - 1 \in 1..n /\ m - 1 < n
        BY <1>2, <1>4, <3>1
      <4> QED BY <1>4, <4>1 DEF CallsInv
    <3> QED BY <3>1, <3>2, <3>3 DEF Wanted
  <2> QED BY <1>3, <1>13, <2>1, <2>2, <2>3 DEF LineKinds
<1>14. BlocksInv'
  <2>1. CallsInv(frames)' /\ (Len(frames) >= Needed)' /\ (Needed >= 1)'
    BY <1>1, <1>2, <1>4, <1>5, <1>6
  <2> QED BY <1>7, <1>9, <1>10, <1>11, <1>12, <1>13, <2>1 DEF BlocksInv
<1> QED BY <1>1, <1>3, <1>14 DEF AtLine

------------------------------------------------------------------------------
(* The configuration: the loop of processBlock.                              *)

\* The last of the calls, and those around it.
LEMMA FramesAre ==
  ASSUME CallsInv(frames)
  PROVE  LET n == Len(frames)
         IN  /\ frames \in Seq(FrameType) /\ n \in Nat /\ n >= 1 /\ Frame = frames[n]
             /\ frames # <<>> /\ Frame \in FrameType
             /\ Outer \in Seq(FrameType) /\ Len(Outer) = n - 1
             /\ \A i \in 1..(n - 1) : Outer[i] = frames[i] /\ frames[i] \in FrameType
             /\ Frame.blockIndent = IndentOf(n - 1) /\ n - 1 \in Nat /\ n - 1 <= MaxDepth
<1> DEFINE n == Len(frames)
<1>1. frames \in Seq(FrameType) /\ n >= 1 /\ n <= MaxDepth + 1 /\ MaxDepth \in Nat
  BY TextAssumption DEF CallsInv
<1>2. n \in Nat /\ \A i \in 1..n : frames[i] \in FrameType
  BY <1>1
<1>3. Frame = frames[n] /\ Frame \in FrameType /\ frames # <<>>
  BY <1>1, <1>2 DEF Frame
<1> HIDE DEF FrameType
<1>4. /\ Outer \in Seq(FrameType) /\ Len(Outer) = n - 1
      /\ \A i \in 1..(n - 1) : Outer[i] = frames[i]
  <2>1. Outer = SubSeq(frames, 1, n - 1)
    BY DEF Outer
  <2>2. n - 1 \in Int /\ \A i \in 1..(n - 1) : frames[i] \in FrameType
    BY <1>1, <1>2
  <2>3. /\ SubSeq(frames, 1, n - 1) \in Seq(FrameType)
        /\ Len(SubSeq(frames, 1, n - 1)) = IF 1 <= n - 1 THEN n - 1 - 1 + 1 ELSE 0
        /\ \A i \in 1..(n - 1 - 1 + 1) : SubSeq(frames, 1, n - 1)[i] = frames[1 + i - 1]
    BY <2>2, SubSeqProperties
  <2>4. n - 1 - 1 + 1 = n - 1 /\ \A i \in 1..(n - 1) : 1 + i - 1 = i
    BY <1>2
  <2> QED BY <1>1, <1>2, <2>1, <2>3, <2>4
<1>5. Frame.blockIndent = IndentOf(n - 1)
  BY <1>1, <1>2, <1>3 DEF CallsInv
<1> QED BY <1>1, <1>2, <1>3, <1>4, <1>5

\* The innermost call may change all but where its block is.
LEMMA LastChanged ==
  ASSUME CallsInv(frames), UNCHANGED format, NEW g \in FrameType,
         g.blockIndent = Frame.blockIndent
  PROVE  LET G == Append(Outer, g)
             n == Len(frames)
         IN  /\ CallsInv(G) /\ Len(G) = n /\ G[n] = g
             /\ \A i \in 1..(n - 1) : G[i] = frames[i]
<1> DEFINE n == Len(frames)
           G == Append(Outer, g)
<1>1. /\ frames \in Seq(FrameType) /\ n \in Nat /\ n >= 1 /\ Frame = frames[n]
      /\ Outer \in Seq(FrameType) /\ Len(Outer) = n - 1
      /\ \A i \in 1..(n - 1) : Outer[i] = frames[i]
      /\ Frame.blockIndent = IndentOf(n - 1)
  BY FramesAre
<1> HIDE DEF FrameType
<1>2. G \in Seq(FrameType) /\ Len(G) = n /\ G[n] = g /\ \A i \in 1..(n - 1) : G[i] = Outer[i]
  BY <1>1
<1>3. \A i \in 1..n : i = n \/ (i \in 1..(n - 1) /\ i < n)
  BY <1>1
<1> HIDE DEF G, n
<1>4. \A i \in 1..n : G[i].blockIndent = IndentOf(i - 1)
  <2>1. \A i \in 1..(n - 1) : frames[i].blockIndent = IndentOf(i - 1)
    BY <1>1, <1>3 DEF CallsInv, n
  <2> QED BY <1>1, <1>2, <1>3, <2>1
<1>5. \A i \in 1..n : i < n => G[i].backpointer = "none" /\ G[i].indent > G[i].blockIndent
  <2>1. \A i \in 1..(n - 1) :
          frames[i].backpointer = "none" /\ frames[i].indent > frames[i].blockIndent
    BY <1>1 DEF CallsInv, n
  <2> QED BY <1>1, <1>2, <1>3, <2>1
<1>6. CallsInv(G)
  <2>1. n >= 1 /\ n <= MaxDepth + 1
    BY DEF CallsInv, n
  <2> QED BY <1>2, <1>4, <1>5, <2>1 DEF CallsInv
<1> QED BY <1>1, <1>2, <1>6 DEF G, n

\* What the innermost call has seen of the line ahead.
LEMMA LookedIs ==
  ASSUME CallsInv(frames), DocumentInv, AheadInv
  PROVE  /\ Looked \in FrameType /\ Looked.blockIndent = Frame.blockIndent
         /\ Looked.indent = line.indent /\ Looked.highlight = Frame.highlight
         /\ Looked.backpointer = IF Frame.backpointer = "none" THEN line.ptr
                                 ELSE Frame.backpointer
         /\ BlockHighlight(Looked) = Wanted(Frame, line.ptr)
         /\ BlockHighlight(Looked) \in BOOLEAN
<1>1. Frame \in FrameType
  BY FramesAre
<1>2. line.indent \in Int /\ line.ptr \in Pointers
  <2>1. line.indent = IndentOf(DepthOf) /\ line.ptr \in Pointers
    BY DEF AheadInv
  <2>2. DepthOf \in Nat /\ DepthOf <= MaxDepth
    BY DEF DocumentInv
  <2> QED BY <2>1, <2>2, UnitGrows
<1>3. /\ Looked \in FrameType /\ Looked.blockIndent = Frame.blockIndent
      /\ Looked.indent = line.indent /\ Looked.highlight = Frame.highlight
      /\ Looked.backpointer = IF Frame.backpointer = "none" THEN line.ptr
                              ELSE Frame.backpointer
  BY <1>1, <1>2 DEF Looked, FrameType
<1>4. BlockHighlight(Looked) = Wanted(Frame, line.ptr)
  <2>1. CASE Frame.backpointer = "none"
    BY <1>3, <2>1 DEF BlockHighlight, Wanted
  <2>2. CASE Frame.backpointer # "none"
    BY <1>3, <2>2 DEF BlockHighlight, Wanted
  <2> QED BY <2>1, <2>2
<1>5. BlockHighlight(Looked) \in BOOLEAN
  BY <1>3 DEF BlockHighlight, FrameType
<1> QED BY <1>3, <1>4, <1>5

\* Where the line ahead is, among the blocks.
LEMMA LineIs ==
  ASSUME AtLine
  PROVE  LET n == Len(frames)
             q == DepthOf
         IN  /\ q \in Nat /\ q <= MaxDepth /\ n \in Nat /\ n >= 1
             /\ line.indent = IndentOf(q) /\ Frame.blockIndent = IndentOf(n - 1)
             /\ line.indent \in Int /\ Frame.blockIndent \in Int
             /\ line.indent < Frame.blockIndent <=> q < n - 1
             /\ line.indent = Frame.blockIndent <=> q = n - 1
             /\ line.indent > Frame.blockIndent <=> q >= n
             /\ Needed \in Nat /\ n >= Needed /\ Needed >= 1 /\ Called \in Int /\ Called <= q
             /\ Needed = IF line.kind = "exit" THEN q + 1 ELSE q
<1> DEFINE n == Len(frames)
           q == DepthOf
<1>1. /\ CallsInv(frames) /\ n >= Needed /\ Needed >= 1 /\ q \in Nat /\ q <= MaxDepth
      /\ line.indent = IndentOf(q) /\ line.kind \in LineKinds /\ line.kind # "unread"
      /\ document.stack \in Seq(BOOLEAN)
  BY DEF AtLine, BlocksInv, DocumentInv, AheadInv
<1>2. /\ n \in Nat /\ n >= 1 /\ Frame.blockIndent = IndentOf(n - 1) /\ n - 1 \in Nat
      /\ n - 1 <= MaxDepth
  BY <1>1, FramesAre
<1>3. Needed = IF line.kind = "exit" THEN q + 1 ELSE q
  <2>1. CASE line.kind = "exit"
    BY <2>1 DEF Needed
  <2>2. CASE line.kind # "exit"
    <3>1. Needed = q + 0
      BY <2>2 DEF Needed
    <3> QED BY <1>1, <2>2, <3>1
  <2> QED BY <2>1, <2>2
<1>4. Called \in Int /\ Called <= q
  <2> DEFINE m == Len(document.stack)
  <2>1. m \in Nat
    BY <1>1
  <2>2. CASE line.kind = "open"
    <3>1. Called = m - 1 /\ q = m + (-1)
      BY <1>1, <2>2 DEF Called, DepthOf
    <3> QED BY <2>1, <3>1
  <2>3. CASE line.kind = "textEnd"
    <3>1. Called = m - 0 /\ q = m + 1
      BY <1>1, <2>3 DEF Called, DepthOf
    <3> QED BY <2>1, <3>1
  <2>4. CASE line.kind \notin {"open", "textEnd"}
    <3>1. Called = m - 0 /\ q = m + 0
      BY <1>1, <2>4 DEF Called, DepthOf
    <3> QED BY <2>1, <3>1
  <2> QED BY <2>2, <2>3, <2>4
<1>5. /\ IndentOf(q) \in Nat /\ IndentOf(n - 1) \in Nat
      /\ IndentOf(q) < IndentOf(n - 1) <=> q < n - 1
      /\ IndentOf(q) = IndentOf(n - 1) <=> q = n - 1
  BY <1>1, <1>2, UnitGrows
<1> HIDE DEF n, q
<1>6. /\ line.indent < Frame.blockIndent <=> q < n - 1
      /\ line.indent = Frame.blockIndent <=> q = n - 1
  BY <1>1, <1>2, <1>5 DEF n, q
<1>7. line.indent \in Int /\ Frame.blockIndent \in Int
  BY <1>1, <1>2, <1>5 DEF n, q
<1>8. line.indent > Frame.blockIndent <=> q >= n
  BY <1>1, <1>2, <1>6, <1>7
<1> QED BY <1>1, <1>2, <1>3, <1>4, <1>6, <1>7, <1>8 DEF n, q

\* A line that was shown, and the next one that is read.
AfterLine ==
  ~ragged' => /\ shown'.highlight = shown'.want
              /\ line'.kind = "end" \/ AtLine'

\* The first line.
LEMMA FirstLine ==
  ASSUME DocumentInv, line.kind = "unread", ReadyInv(frames), ReadFirst,
         shown.highlight = shown.want
  PROVE  AfterLine
<1>1. UNCHANGED <<format, frames, shown>> /\ ReadNext
  BY DEF ReadFirst
<1>2. ReadyInv(frames')
  BY <1>1
<1>3. ~ragged' => line'.kind = "end" \/ AtLine'
  BY <1>1, <1>2, ReadBlocks
<1> QED BY <1>1, <1>3 DEF AfterLine

\* The end of a block is highlighted as the block is.
LEMMA ExitStep ==
  ASSUME AtLine, line.kind # "end", ExitLine
  PROVE  AfterLine
<1> DEFINE n == Len(frames)
           q == DepthOf
           m == Len(document.stack)
<1>1. /\ line.kind = "exit" /\ line.indent = Frame.blockIndent
      /\ shown' = [want |-> line.want, highlight |-> Frame.highlight]
      /\ frames' = Append(Outer, Looked) /\ ReadNext /\ UNCHANGED format
  BY DEF ExitLine, IsExit, Pushed
<1>2. /\ DocumentInv /\ AheadInv /\ BlocksInv /\ CallsInv(frames)
  BY DEF AtLine, BlocksInv
<1>3. /\ q = n - 1 /\ q \in Nat /\ n \in Nat /\ n >= 1 /\ n >= Needed /\ Needed = q + 1
  BY <1>1, LineIs
<1>4. m = q /\ document.note = "none" /\ Called = m
  <2>1. m \in Nat /\ document.note = "none"
    BY <1>1, <1>2 DEF DocumentInv
  <2>2. q = m + 0 /\ Called = m - 0
    BY <1>1 DEF DepthOf, Called
  <2> QED BY <2>1, <2>2
<1>5. /\ Looked \in FrameType /\ Looked.blockIndent = Frame.blockIndent
      /\ Looked.indent = line.indent
  BY <1>2, LookedIs
<1>6. /\ CallsInv(frames') /\ Len(frames') = n /\ frames'[n] = Looked
      /\ \A i \in 1..(n - 1) : frames'[i] = frames[i]
  BY <1>1, <1>2, <1>5, LastChanged
<1>7. shown'.highlight = shown'.want
  <2>1. line.want = frames[q + 1].highlight
    BY <1>1, <1>2 DEF BlocksInv
  <2>2. q + 1 = n /\ Frame = frames[n]
    BY <1>2, <1>3, FramesAre
  <2> QED BY <1>1, <2>1, <2>2
<1>8. ASSUME m >= 1
      PROVE  ReadyInv(frames')
  <2>1. \A i \in 1..m : frames'[i].highlight = document.stack[i]
    BY <1>2, <1>3, <1>4, <1>6 DEF BlocksInv
  <2>2. frames'[m].backpointer = "none"
    <3>1. m \in 1..(n - 1) /\ m \in 1..n /\ m < n
      BY <1>3, <1>4, <1>8
    <3> QED BY <1>2, <1>6, <3>1 DEF CallsInv
  <2>3. EndedBelow(frames', m)
    BY <1>3, <1>4, <1>6 DEF EndedBelow
  <2> QED BY <1>3, <1>4, <1>6, <1>8, <2>1, <2>2, <2>3 DEF ReadyInv
<1>9. ASSUME ~(m >= 1), ~ragged'
      PROVE  line'.kind = "end"
  <2>1. \/ line'.kind = "end" /\ line' = EndOfText
        \/ m >= 1
    BY <1>1, <1>2, <1>9, NextLineIs DEF AtLine
  <2> QED BY <1>9, <2>1
<1>10. ~ragged' => line'.kind = "end" \/ AtLine'
  BY <1>1, <1>2, <1>8, <1>9, ReadBlocks
<1> QED BY <1>7, <1>10 DEF AfterLine

\* A line that is not of the block ends the block, and is left for another.
LEMMA LookStep ==
  ASSUME AtLine, line.kind # "end", LookAtNext
  PROVE  AtLine'
<1> DEFINE n == Len(frames)
           q == DepthOf
<1>1. /\ line.indent < Frame.blockIndent \/ (line.indent = Frame.blockIndent /\ line.kind # "exit")
      /\ frames' = Append(Outer, Looked) /\ UNCHANGED <<format, document, line>>
  BY DEF LookAtNext, IsExit
<1>2. DocumentInv /\ AheadInv /\ BlocksInv /\ CallsInv(frames)
  BY DEF AtLine, BlocksInv
<1>3. /\ q < n - 1 \/ (q = n - 1 /\ line.kind # "exit")
      /\ q \in Nat /\ n \in Nat /\ n >= 1 /\ n >= Needed /\ Needed \in Nat /\ Needed >= 1
      /\ Needed = IF line.kind = "exit" THEN q + 1 ELSE q
      /\ Called \in Int /\ Called <= q
  BY <1>1, LineIs
<1>4. Looked \in FrameType /\ Looked.blockIndent = Frame.blockIndent
  BY <1>2, LookedIs
<1>5. /\ CallsInv(frames') /\ Len(frames') = n /\ frames'[n] = Looked
      /\ \A i \in 1..(n - 1) : frames'[i] = frames[i]
  BY <1>1, <1>2, <1>4, LastChanged
<1>6. Needed <= n - 1 /\ q <= n - 1
  BY <1>3
<1>7. UNCHANGED <<DepthOf, Needed, Called>> /\ DocumentInv' /\ AheadInv'
  <2>1. UNCHANGED <<DepthOf, Needed, Called>>
    BY <1>1 DEF DepthOf, Needed, Called
  <2>2. DocumentInv' /\ AheadInv'
    BY <1>1, <1>2, <2>1 DEF DocumentInv, AheadInv, IndentOf
  <2> QED BY <2>1, <2>2
<1>8. CallsInv(frames)'
  BY <1>1, <1>5 DEF CallsInv, IndentOf
<1>9. EndedBelow(frames, Needed)'
  BY <1>3, <1>5, <1>6, <1>7 DEF EndedBelow
<1>10. \A i \in 1..Called : frames'[i].highlight = document.stack[i]
  BY <1>2, <1>3, <1>5, <1>6 DEF BlocksInv
<1>11. line.kind = "exit" => frames'[q + 1].highlight = line.want
  <2>1. line.kind = "exit" => q + 1 \in 1..(n - 1) /\ frames[q + 1].highlight = line.want
    BY <1>2, <1>3, <1>6 DEF BlocksInv
  <2> QED BY <1>5, <2>1
<1>12. /\ line.kind = "meta" => frames'[q].backpointer = "none"
       /\ line.kind \notin {"exit", "meta"} => line.want = Wanted(frames'[q], line.ptr)
  <2>1. line.kind # "exit" => q \in 1..(n - 1)
    BY <1>3, <1>6
  <2>2. line.kind # "exit" => frames'[q] = frames[q]
    BY <1>5, <2>1
  <2> QED BY <1>2, <2>2 DEF BlocksInv
<1>13. BlocksInv'
  <2>1. (Len(frames) >= Needed)' /\ (Needed >= 1)'
    BY <1>3, <1>5, <1>7
  <2>2. line.kind = "open" => document.stack[Len(document.stack)] = line.want
    BY <1>2 DEF BlocksInv
  <2> QED BY <1>1, <1>7, <1>8, <1>9, <1>10, <1>11, <1>12, <2>1, <2>2 DEF BlocksInv
<1> QED BY <1>1, <1>7, <1>13 DEF AtLine

\* A line that is deeper than the innermost call is the next one's, or has none.
LEMMA DeeperIs ==
  ASSUME AtLine, line.indent > Frame.blockIndent
  PROVE  LET n == Len(frames)
         IN  /\ DepthOf = n /\ Needed = n /\ line.kind # "exit" /\ n <= MaxDepth
             /\ n \in Nat /\ n >= 1
BY LineIs

\* A backpointer is not highlighted, and shown only with the button pressed.
LEMMA MetaStep ==
  ASSUME AtLine, line.kind # "end", MetaLine, shown.highlight = shown.want
  PROVE  AfterLine
<1> DEFINE n == Len(frames)
           m == Len(document.stack)
<1>1. /\ line.kind = "meta" /\ line.indent > Frame.blockIndent
      /\ frames' = Append(Outer, Looked) /\ ReadNext /\ UNCHANGED format
      /\ shown' = shown \/ shown' = [want |-> line.want, highlight |-> FALSE]
  BY DEF MetaLine, Pushed
<1>2. DocumentInv /\ AheadInv /\ BlocksInv /\ CallsInv(frames)
  BY DEF AtLine, BlocksInv
<1>3. DepthOf = n /\ n \in Nat /\ n >= 1
  BY <1>1, DeeperIs
<1>4. m = n /\ document.note = line.ptr /\ Called = m
  <2>1. m \in Nat /\ document.note = line.ptr
    BY <1>1, <1>2 DEF DocumentInv
  <2>2. DepthOf = m + 0 /\ Called = m - 0
    BY <1>1 DEF DepthOf, Called
  <2> QED BY <1>3, <2>1, <2>2
<1>5. /\ Looked \in FrameType /\ Looked.blockIndent = Frame.blockIndent
      /\ Looked.indent = line.indent /\ Looked.highlight = Frame.highlight
      /\ Looked.backpointer = IF Frame.backpointer = "none" THEN line.ptr
                              ELSE Frame.backpointer
  BY <1>2, LookedIs
<1>6. /\ CallsInv(frames') /\ Len(frames') = n /\ frames'[n] = Looked
      /\ \A i \in 1..(n - 1) : frames'[i] = frames[i]
  BY <1>1, <1>2, <1>5, LastChanged
<1>7. Frame = frames[n] /\ Looked.backpointer = line.ptr
  <2>1. frames[n].backpointer = "none"
    BY <1>1, <1>2, <1>3 DEF BlocksInv
  <2>2. Frame = frames[n]
    BY <1>2, FramesAre
  <2> QED BY <1>5, <2>1, <2>2
<1>8. ReadyInv(frames')
  <2>1. \A i \in 1..m : frames'[i].highlight = document.stack[i]
    <3>1. \A i \in 1..n : frames[i].highlight = document.stack[i]
      BY <1>2, <1>4 DEF BlocksInv
    <3>2. \A i \in 1..n : i = n \/ i \in 1..(n - 1)
      BY <1>3
    <3>3. n \in 1..n
      BY <1>3
    <3> QED BY <1>4, <1>5, <1>6, <1>7, <3>1, <3>2, <3>3
  <2>2. EndedBelow(frames', m)
    <3>1. Looked.indent > Looked.blockIndent /\ Looked.indent \in Int /\ Looked.blockIndent \in Int
      BY <1>1, <1>5, LineIs
    <3>2. ~(Looked.indent <= Looked.blockIndent)
      BY <3>1
    <3> QED BY <1>6, <3>2 DEF EndedBelow
  <2> QED BY <1>3, <1>4, <1>6, <1>7, <2>1, <2>2 DEF ReadyInv
<1>9. shown'.highlight = shown'.want
  <2>1. line.want = FALSE
    BY <1>1, <1>2 DEF AheadInv
  <2>2. CASE shown' = shown
    BY <2>2
  <2>3. CASE shown' = [want |-> line.want, highlight |-> FALSE]
    BY <2>1, <2>3
  <2> QED BY <1>1, <2>2, <2>3
<1>10. ~ragged' => line'.kind = "end" \/ AtLine'
  BY <1>1, <1>2, <1>8, ReadBlocks
<1> QED BY <1>9, <1>10 DEF AfterLine

\* A call of processBlock knows where its block is and whether it is highlighted.
LEMMA CallMade ==
  ASSUME CallsInv(frames), UNCHANGED format, NEW g \in FrameType, NEW h \in FrameType,
         g.blockIndent = Frame.blockIndent, g.backpointer = "none", g.indent > g.blockIndent,
         Len(frames) <= MaxDepth, h.blockIndent = IndentOf(Len(frames))
  PROVE  LET G == Outer \o <<g, h>>
             n == Len(frames)
         IN  /\ CallsInv(G) /\ Len(G) = n + 1 /\ G[n] = g /\ G[n + 1] = h
             /\ \A i \in 1..(n - 1) : G[i] = frames[i]
<1> DEFINE n == Len(frames)
           G == Outer \o <<g, h>>
<1>1. /\ frames \in Seq(FrameType) /\ n \in Nat /\ n >= 1 /\ Frame = frames[n]
      /\ Outer \in Seq(FrameType) /\ Len(Outer) = n - 1
      /\ \A i \in 1..(n - 1) : Outer[i] = frames[i]
      /\ Frame.blockIndent = IndentOf(n - 1)
  BY FramesAre
<1> HIDE DEF FrameType
<1>2. /\ G \in Seq(FrameType) /\ Len(G) = n + 1 /\ G[n] = g /\ G[n + 1] = h
      /\ \A i \in 1..(n - 1) : G[i] = Outer[i]
  <2>1. <<g, h>> \in Seq(FrameType) /\ Len(<<g, h>>) = 2
    OBVIOUS
  <2>2. Len(G) = n + 1 /\ G \in Seq(FrameType)
    BY <1>1, <2>1, ConcatProperties
  <2>3. G[n] = g /\ G[n + 1] = h
    <3> DEFINE T == <<g, h>>
    <3>1. \A i \in 1..(n - 1 + 2) : G[i] = IF i <= n - 1 THEN Outer[i] ELSE T[i - (n - 1)]
      BY <1>1, <2>1, ConcatProperties
    <3>2. /\ n \in 1..(n - 1 + 2) /\ n + 1 \in 1..(n - 1 + 2)
          /\ n - (n - 1) = 1 /\ n + 1 - (n - 1) = 2 /\ ~(n <= n - 1) /\ ~(n + 1 <= n - 1)
      BY <1>1
    <3>3. T[1] = g /\ T[2] = h
      OBVIOUS
    <3> HIDE DEF G, n, T
    <3>4. G[n] = T[n - (n - 1)] /\ G[n + 1] = T[n + 1 - (n - 1)]
      BY <3>1, <3>2
    <3> QED BY <3>2, <3>3, <3>4
  <2>4. \A i \in 1..(n - 1) : G[i] = Outer[i]
    BY <1>1, <2>1
  <2> QED BY <2>2, <2>3, <2>4
<1>3. \A i \in 1..(n + 1) : \/ i = n + 1 \/ (i = n /\ i < n + 1)
                            \/ i \in 1..(n - 1) /\ i < n /\ i < n + 1
  BY <1>1
<1> HIDE DEF G, n
<1>4. \A i \in 1..(n + 1) : G[i].blockIndent = IndentOf(i - 1)
  <2>1. \A i \in 1..(n - 1) : frames[i].blockIndent = IndentOf(i - 1)
    BY <1>1, <1>3 DEF CallsInv, n
  <2>2. n \in Nat
    BY <1>1
  <2>3. g.blockIndent = IndentOf(n - 1) /\ h.blockIndent = IndentOf(n)
    BY <1>1 DEF n
  <2> SUFFICES ASSUME NEW i \in 1..(n + 1)
               PROVE  G[i].blockIndent = IndentOf(i - 1)
    OBVIOUS
  <2>4. CASE i = n + 1
    <3>1. G[i] = h
      BY <1>2, <2>4, Zenon
    <3>2. i - 1 = n
      BY <2>2, <2>4
    <3> QED BY <2>3, <3>1, <3>2, Zenon
  <2>5. CASE i = n
    <3>1. G[i] = g
      BY <1>2, <2>5, Zenon
    <3>2. IndentOf(i - 1) = IndentOf(n - 1)
      BY <2>5, Zenon
    <3> QED BY <2>3, <3>1, <3>2, Zenon
  <2>6. CASE i \in 1..(n - 1)
    <3>1. G[i] = frames[i]
      BY <1>1, <1>2, <2>6, Zenon
    <3> QED BY <2>1, <2>6, <3>1, Zenon
  <2> QED BY <1>3, <2>4, <2>5, <2>6
<1>5. \A i \in 1..(n + 1) :
        i < n + 1 => G[i].backpointer = "none" /\ G[i].indent > G[i].blockIndent
  <2>1. \A i \in 1..(n - 1) :
          frames[i].backpointer = "none" /\ frames[i].indent > frames[i].blockIndent
    BY <1>1 DEF CallsInv, n
  <2> SUFFICES ASSUME NEW i \in 1..(n + 1), i < n + 1
               PROVE  G[i].backpointer = "none" /\ G[i].indent > G[i].blockIndent
    OBVIOUS
  <2>2. CASE i = n
    BY <1>2, <2>2
  <2>3. CASE i \in 1..(n - 1)
    <3>1. G[i] = frames[i]
      BY <1>1, <1>2, <2>3, Zenon
    <3> QED BY <2>1, <2>3, <3>1, Zenon
  <2>4. n \in Nat
    BY <1>1
  <2> QED BY <1>3, <2>2, <2>3, <2>4
<1>6. CallsInv(G)
  <2>1. n + 1 >= 1 /\ n + 1 <= MaxDepth + 1
    BY <1>1, TextAssumption DEF n
  <2> QED BY <1>2, <1>4, <1>5, <2>1 DEF CallsInv
<1> QED BY <1>1, <1>2, <1>6 DEF G, n

\* A line of the block is highlighted as it is to be, and with it what it opens.
LEMMA BlockStep ==
  ASSUME AtLine, line.kind # "end", processBlock
  PROVE  AfterLine
<1> DEFINE n == Len(frames)
           m == Len(document.stack)
           g == AfterBlock(Looked)
           h == [blockIndent |-> line.indent, indent |-> line.indent + 1,
                 backpointer |-> "none", highlight |-> BlockHighlight(Looked)]
<1>1. /\ line.kind # "meta" /\ line.indent > Frame.blockIndent
      /\ shown' = [want |-> line.want, highlight |-> BlockHighlight(Looked)]
      /\ frames' = Outer \o <<g, h>> /\ ReadNext /\ UNCHANGED format
  BY DEF processBlock, Pushed
<1>2. DocumentInv /\ AheadInv /\ BlocksInv /\ CallsInv(frames)
  BY DEF AtLine, BlocksInv
<1>3. /\ DepthOf = n /\ n \in Nat /\ n >= 1 /\ n <= MaxDepth /\ line.kind # "exit"
  BY <1>1, DeeperIs
<1>4. /\ line.indent = IndentOf(n) /\ line.indent \in Int /\ Frame.blockIndent \in Int
      /\ Called \in Int /\ Called <= n
  BY <1>3, LineIs
<1>5. /\ Looked \in FrameType /\ Looked.blockIndent = Frame.blockIndent
      /\ Looked.indent = line.indent /\ Looked.highlight = Frame.highlight
      /\ BlockHighlight(Looked) = Wanted(Frame, line.ptr)
      /\ BlockHighlight(Looked) \in BOOLEAN
  BY <1>2, LookedIs
<1>6. /\ g \in FrameType /\ g.blockIndent = Frame.blockIndent /\ g.backpointer = "none"
      /\ g.indent = line.indent /\ g.highlight = Frame.highlight
  BY <1>5 DEF AfterBlock, FrameType, Pointers
<1>7. /\ h \in FrameType /\ h.blockIndent = IndentOf(n) /\ h.backpointer = "none"
      /\ h.indent = line.indent + 1 /\ h.highlight = BlockHighlight(Looked)
  BY <1>4, <1>5 DEF FrameType, Pointers
<1> HIDE DEF g, h
<1>8. /\ CallsInv(frames') /\ Len(frames') = n + 1 /\ frames'[n] = g /\ frames'[n + 1] = h
      /\ \A i \in 1..(n - 1) : frames'[i] = frames[i]
  <2>1. g.indent > g.blockIndent
    BY <1>1, <1>4, <1>6
  <2> QED BY <1>1, <1>2, <1>3, <1>6, <1>7, <2>1, CallMade
<1>9. Frame = frames[n]
  BY <1>2, FramesAre
<1>10. line.want = BlockHighlight(Looked)
  <2>1. line.want = Wanted(frames[n], line.ptr)
    BY <1>1, <1>2, <1>3 DEF BlocksInv
  <2> QED BY <1>5, <1>9, <2>1
<1>11. /\ m \in Nat /\ document.note = "none"
       /\ IF line.kind = "open" THEN m = n + 1 /\ Called = n ELSE m <= n /\ Called = m
  <2>1. m \in Nat /\ document.note = "none" /\ line.kind # "unread"
    BY <1>1, <1>2 DEF DocumentInv, AtLine
  <2>2. CASE line.kind = "open"
    <3>1. DepthOf = m + (-1) /\ Called = m - 1
      BY <2>2 DEF DepthOf, Called
    <3> QED BY <1>3, <2>1, <2>2, <3>1
  <2>3. CASE line.kind # "open"
    <3>1. Called = m - 0
      BY <2>3 DEF Called
    <3> QED BY <1>3, <1>4, <2>1, <2>3, <3>1
  <2> QED BY <2>2, <2>3
<1>12. ASSUME m >= 1
       PROVE  ReadyInv(frames')
  <2>1. \A i \in 1..Called : frames'[i].highlight = document.stack[i]
    <3>1. \A i \in 1..Called : frames[i].highlight = document.stack[i]
      BY <1>2 DEF BlocksInv
    <3>2. \A i \in 1..Called : i = n \/ i \in 1..(n - 1)
      BY <1>3, <1>4
    <3> QED BY <1>6, <1>8, <1>9, <3>1, <3>2
  <2>2. line.kind = "open" => frames'[m].highlight = document.stack[m]
    <3>1. line.kind = "open" => document.stack[m] = line.want
      BY <1>2 DEF BlocksInv
    <3> QED BY <1>7, <1>8, <1>10, <1>11, <3>1
  <2>3. \A i \in 1..m : frames'[i].highlight = document.stack[i]
    <3>1. \A i \in 1..m : i \in 1..Called \/ (i = m /\ line.kind = "open")
      BY <1>3, <1>11
    <3> QED BY <2>1, <2>2, <3>1
  <2>4. frames'[m].backpointer = "none"
    <3>1. m \in 1..(n + 1) /\ (m = n + 1 \/ m < n + 1)
      BY <1>3, <1>11, <1>12
    <3>2. m < n + 1 => frames'[m].backpointer = "none"
      BY <1>8, <3>1 DEF CallsInv
    <3> QED BY <1>7, <1>8, <3>1, <3>2
  <2>5. EndedBelow(frames', m)
    <3>1. ~(h.indent <= h.blockIndent)
      BY <1>4, <1>7
    <3> QED BY <1>8, <3>1 DEF EndedBelow
  <2> QED BY <1>3, <1>8, <1>11, <1>12, <2>3, <2>4, <2>5 DEF ReadyInv
<1>13. shown'.highlight = shown'.want
  BY <1>1, <1>10
<1>14. ASSUME ~(m >= 1), ~ragged'
       PROVE  line'.kind = "end"
  <2>1. \/ line'.kind = "end" /\ line' = EndOfText
        \/ m >= 1
    BY <1>1, <1>2, <1>14, NextLineIs
  <2> QED BY <1>14, <2>1
<1>15. ~ragged' => line'.kind = "end" \/ AtLine'
  BY <1>1, <1>2, <1>12, <1>14, ReadBlocks
<1> QED BY <1>13, <1>15 DEF AfterLine

\* A call that ends has a line ahead that is for those around it.
LEMMA EndStep ==
  ASSUME AtLine, line.kind # "end", EndBlock
  PROVE  AtLine'
<1> DEFINE n == Len(frames)
           q == DepthOf
<1>1. /\ ~(Frame.indent > Frame.blockIndent) /\ frames' = Outer
      /\ UNCHANGED <<format, document, line>>
  BY DEF EndBlock, Looping, AtLine
<1>2. DocumentInv /\ AheadInv /\ BlocksInv /\ CallsInv(frames)
  BY DEF AtLine, BlocksInv
<1>3. /\ frames \in Seq(FrameType) /\ n \in Nat /\ n >= 1 /\ Frame = frames[n]
      /\ Frame \in FrameType /\ Outer \in Seq(FrameType) /\ Len(Outer) = n - 1
      /\ \A i \in 1..(n - 1) : Outer[i] = frames[i]
  BY <1>2, FramesAre
<1>4. /\ q \in Nat /\ n >= Needed /\ Needed \in Nat /\ Needed >= 1
      /\ Needed = IF line.kind = "exit" THEN q + 1 ELSE q
      /\ Called \in Int /\ Called <= q
  BY LineIs
<1>5. n >= Needed + 1
  <2>1. Frame.indent <= Frame.blockIndent
    <3>1. Frame.indent \in Int /\ Frame.blockIndent \in Int
      BY <1>3 DEF FrameType
    <3> QED BY <1>1, <3>1
  <2> QED BY <1>2, <1>3, <2>1 DEF BlocksInv, EndedBelow
<1>6. UNCHANGED <<DepthOf, Needed, Called>> /\ DocumentInv' /\ AheadInv'
  <2>1. UNCHANGED <<DepthOf, Needed, Called>>
    BY <1>1 DEF DepthOf, Needed, Called
  <2>2. DocumentInv' /\ AheadInv'
    BY <1>1, <1>2, <2>1 DEF DocumentInv, AheadInv, IndentOf
  <2> QED BY <2>1, <2>2
<1>7. /\ \A i \in 1..(n - 1) : i \in 1..n /\ i < n
      /\ n - 1 >= 1 /\ n - 1 \in 1..(n - 1) /\ n - 1 >= Needed
  BY <1>3, <1>4, <1>5
<1>8. \A i \in 1..(n - 1) : /\ Outer[i].blockIndent = IndentOf(i - 1)
                            /\ Outer[i].backpointer = "none"
                            /\ Outer[i].indent > Outer[i].blockIndent
  BY <1>2, <1>3, <1>7 DEF CallsInv
<1>9. CallsInv(frames)'
  <2>1. n - 1 <= MaxDepth + 1
    BY <1>2, <1>3, TextAssumption DEF CallsInv
  <2> QED BY <1>1, <1>3, <1>7, <1>8, <2>1 DEF CallsInv, IndentOf
<1>10. EndedBelow(frames, Needed)'
  <2>1. Outer[n - 1] \in FrameType /\ Outer[n - 1].indent > Outer[n - 1].blockIndent
    BY <1>3, <1>7, <1>8
  <2>2. ~(Outer[n - 1].indent <= Outer[n - 1].blockIndent)
    BY <2>1 DEF FrameType
  <2> QED BY <1>1, <1>3, <2>2 DEF EndedBelow
<1>11. \A i \in 1..Called : Outer[i].highlight = document.stack[i]
  BY <1>2, <1>3, <1>4, <1>5 DEF BlocksInv
<1>12. /\ line.kind = "exit" => Outer[q + 1].highlight = line.want
       /\ line.kind = "meta" => Outer[q].backpointer = "none"
       /\ line.kind \notin {"exit", "meta"} => line.want = Wanted(Outer[q], line.ptr)
  <2>1. Needed \in 1..(n - 1) /\ Outer[Needed] = frames[Needed]
    BY <1>3, <1>4, <1>5
  <2>2. CASE line.kind = "exit"
    BY <1>2, <1>4, <2>1, <2>2 DEF BlocksInv
  <2>3. CASE line.kind # "exit"
    BY <1>2, <1>4, <2>1, <2>3 DEF BlocksInv
  <2> QED BY <2>2, <2>3
<1>13. BlocksInv'
  <2>1. (Len(frames) >= Needed)' /\ (Needed >= 1)'
    BY <1>1, <1>3, <1>4, <1>6, <1>7
  <2>2. line.kind = "open" => document.stack[Len(document.stack)] = line.want
    BY <1>2 DEF BlocksInv
  <2> QED BY <1>1, <1>6, <1>9, <1>10, <1>11, <1>12, <2>1, <2>2 DEF BlocksInv
<1> QED BY <1>1, <1>6, <1>13 DEF AtLine

------------------------------------------------------------------------------
(* The configuration: what is shown.                                         *)

\* What was read is what is rendered, until a line without text is read.
TextInv ==
  /\ format \in Formats \cup {"undefined"}
  /\ ~ragged => /\ shown.highlight = shown.want
                /\ \/ line.kind = "end"
                   \/ line.kind = "unread" /\ DocumentInv /\ ReadyInv(frames)
                   \/ AtLine

LEMMA RenderStep ==
  ASSUME NEW f \in Formats, Render(f)
  PROVE  TextInv'
<1>1. /\ format' = f /\ line'.kind = "unread" /\ line'.ptr = "none" /\ line' = Unread
      /\ document'.stack = <<FALSE>> /\ document'.last = Leading[0]
      /\ document'.indent = (IF f = "xml" THEN 2 ELSE 0)
      /\ document'.note = "none" /\ document'.text = FALSE
      /\ frames' = <<[blockIndent |-> 0, indent |-> 1, backpointer |-> "none",
                      highlight |-> FALSE]>>
      /\ shown'.want = FALSE /\ shown'.highlight = FALSE
  BY DEF Render, DocumentStart, Unread, Line, NoLine
<1>2. /\ Len(document'.stack) = 1 /\ document'.stack \in Seq(BOOLEAN)
      /\ document'.stack[1] = FALSE
  BY <1>1
<1>3. DepthOf' = 0
  <2>1. DepthOf' = 1 + (-1)
    BY <1>1, <1>2 DEF DepthOf
  <2> QED BY <2>1
<1>4. IndentOf(0)' = 0 /\ IndentOf(DepthOf)' = 0
  <2>1. Leading[0] \in Nat
    BY TextAssumption
  <2>2. Leading[0] - Leading[0] = 0 /\ 2 * 0 = 0
    BY <2>1
  <2> QED BY <1>3, <2>2 DEF IndentOf
<1>5. DocumentInv'
  <2>1. format' \in Formats /\ line'.kind \in LineKinds
    BY <1>1 DEF LineKinds
  <2>2. /\ document'.stack \in Seq(BOOLEAN) /\ Len(document'.stack) <= MaxDepth
        /\ DepthOf' \in Nat /\ DepthOf' <= MaxDepth
    BY <1>2, <1>3, TextAssumption
  <2>3. /\ document'.note = IF line'.kind = "meta" THEN line'.ptr ELSE "none"
        /\ document'.text \in BOOLEAN
        /\ document'.text \/ line'.kind \in {"text", "textEnd"} => format' = "xml"
        /\ line'.kind = "meta" => format' \in {"cli", "curly-braces"}
    BY <1>1
  <2>4. format' = "xml" => document'.indent = 2 * Len(document'.stack)
    BY <1>1, <1>2
  <2>5. format' \in {"curly-braces", "json"} =>
          document'.indent = IndentOf(DepthOf)' /\ document'.last = Leading[DepthOf']
    BY <1>1, <1>3, <1>4
  <2>6. \A i \in 1..Len(document'.stack) : document'.stack[i] = FALSE
    BY <1>2
  <2> QED BY <2>1, <2>2, <2>3, <2>4, <2>5, <2>6 DEF DocumentInv
<1>6. ReadyInv(frames)'
  <2>1. /\ Len(frames') = 1 /\ frames' \in Seq(FrameType)
        /\ frames'[1].blockIndent = 0 /\ frames'[1].indent = 1
        /\ frames'[1].backpointer = "none" /\ frames'[1].highlight = FALSE
    BY <1>1 DEF FrameType, Pointers
  <2>2. MaxDepth \in Nat /\ 1 - 1 = 0
    BY TextAssumption
  <2>3. CallsInv(frames)'
    BY <1>4, <2>1, <2>2 DEF CallsInv
  <2>4. EndedBelow(frames, 1)'
    BY <2>1 DEF EndedBelow
  <2>5. \A i \in 1..1 : frames'[i].highlight = document'.stack[i]
    <3>1. frames'[1].highlight = document'.stack[1]
      BY <1>2, <2>1
    <3> QED BY <3>1
  <2>6. EndedBelow(frames, Len(document.stack))'
    BY <1>2, <2>4 DEF EndedBelow
  <2>7. Len(document'.stack) = 1 /\ frames'[1].backpointer = document'.note
    BY <1>1, <1>2, <2>1
  <2> QED BY <2>1, <2>3, <2>5, <2>6, <2>7 DEF ReadyInv
<1> QED BY <1>1, <1>5, <1>6 DEF TextInv

LEMMA TextInvStep == TextInv /\ [TextNext]_textVars => TextInv'
<1> SUFFICES ASSUME TextInv, [TextNext]_textVars
             PROVE  TextInv'
  OBVIOUS
<1>1. ASSUME UNCHANGED <<format, document, line, frames, shown, ragged>>
      PROVE  TextInv'
  <2>1. /\ UNCHANGED <<DepthOf, Needed, Called>>
        /\ \A d : IndentOf(d)' = IndentOf(d)
    BY <1>1 DEF DepthOf, Needed, Called, IndentOf
  <2>2. CallsInv(frames)' <=> CallsInv(frames)
    BY <1>1, <2>1 DEF CallsInv
  <2>3. DocumentInv' <=> DocumentInv
    BY <1>1, <2>1 DEF DocumentInv
  <2>4. AheadInv' <=> AheadInv
    BY <1>1, <2>1 DEF AheadInv
  <2>5. BlocksInv' <=> BlocksInv
    BY <1>1, <2>1, <2>2 DEF BlocksInv, EndedBelow
  <2>6. ReadyInv(frames)' <=> ReadyInv(frames)
    BY <1>1, <2>2 DEF ReadyInv, EndedBelow
  <2> QED BY <1>1, <2>3, <2>4, <2>5, <2>6 DEF TextInv, AtLine
<1>2. CASE getConfig
  BY <1>1, <1>2 DEF getConfig
<1>3. CASE ReceiveConfig
  BY <1>1, <1>3, RenderStep DEF ReceiveConfig
<1>4. CASE toggleMetaData
  <2>1. format \in Formats /\ Render(format)
    BY <1>4 DEF toggleMetaData, TextInv
  <2> QED BY <2>1, RenderStep
<1>5. ASSUME ReadFirst \/ ExitLine \/ MetaLine \/ processBlock, ~ragged' => AfterLine
      PROVE  TextInv'
  <2>1. format' \in Formats \cup {"undefined"}
    BY <1>5 DEF ReadFirst, ExitLine, MetaLine, processBlock, TextInv
  <2> QED BY <1>5, <2>1 DEF AfterLine, TextInv
<1>6. ASSUME ReadFirst \/ ExitLine \/ MetaLine \/ processBlock, ~ragged'
      PROVE  /\ shown.highlight = shown.want /\ line.kind # "end"
             /\ IF line.kind = "unread" THEN DocumentInv /\ ReadyInv(frames) ELSE AtLine
  <2>1. ReadNext
    BY <1>6 DEF ReadFirst, ExitLine, MetaLine, processBlock
  <2>2. ~ragged
    BY <1>6, <2>1 DEF ReadNext
  <2>3. line.kind # "end"
    BY <1>6 DEF ReadFirst, ExitLine, MetaLine, processBlock, Looping
  <2> QED BY <2>2, <2>3 DEF TextInv, AtLine
<1>7. CASE ReadFirst
  <2>1. line.kind = "unread"
    BY <1>7 DEF ReadFirst
  <2> QED BY <1>5, <1>6, <1>7, <2>1, FirstLine
<1>8. CASE ExitLine
  <2>1. line.kind # "unread"
    BY <1>8 DEF ExitLine, Looping
  <2> QED BY <1>5, <1>6, <1>8, <2>1, ExitStep
<1>9. CASE MetaLine
  <2>1. line.kind # "unread"
    BY <1>9 DEF MetaLine, Looping
  <2> QED BY <1>5, <1>6, <1>9, <2>1, MetaStep
<1>10. CASE processBlock
  <2>1. line.kind # "unread"
    BY <1>10 DEF processBlock, Looping
  <2> QED BY <1>5, <1>6, <1>10, <2>1, BlockStep
<1>11. CASE LookAtNext \/ EndBlock
  <2>1. UNCHANGED <<format, line, shown, ragged>> /\ line.kind # "unread"
    BY <1>11 DEF LookAtNext, EndBlock, Looping
  <2>2. ASSUME ~ragged, line.kind # "end"
        PROVE  AtLine'
    <3>1. AtLine
      BY <2>1, <2>2 DEF TextInv
    <3> QED BY <1>11, <2>2, <3>1, LookStep, EndStep
  <2> QED BY <2>1, <2>2 DEF TextInv
<1>12. CASE UNCHANGED textVars
  BY <1>1, <1>12 DEF textVars
<1> QED BY <1>2, <1>3, <1>4, <1>7, <1>8, <1>9, <1>10, <1>11, <1>12 DEF TextNext

\* When every call has ended, the line ahead is the end.
LEMMA TextInvShows == TextInv => ConfigShown
<1> SUFFICES ASSUME TextInv, ~ragged, Rendered
             PROVE  line.kind = "end"
  BY DEF TextInv, ConfigShown
<1>1. frames = <<>> /\ Len(frames) = 0
  BY DEF Rendered
<1>2. ~CallsInv(frames)
  BY <1>1 DEF CallsInv
<1> QED BY <1>2 DEF TextInv, AtLine, BlocksInv, ReadyInv

\* Whatever the document, its indentation and the service that is open, a line
\* is highlighted exactly if the open service wrote it, and no line is left out.
THEOREM ConfigurationShown == TextSpec => []ConfigShown
<1>1. TextInit => TextInv
  BY DEF TextInit, TextInv, EndOfText, Line, NoLine
<1>2. TextInv /\ [TextNext]_textVars => TextInv'
  BY TextInvStep
<1>3. TextInv => ConfigShown
  BY TextInvShows
<1> QED BY <1>1, <1>2, <1>3, PTL DEF TextSpec

------------------------------------------------------------------------------
(* The canvas: the links and the requests that change them.                  *)

\* The links that requests without an answer create and delete.
Created == {l \in Pairs : <<"create", l>> \in edits}
Deleted == {l \in Pairs : <<"delete", l>> \in edits}

\* No link of ls joins a device to itself, no two join the same devices.
Simple(ls) ==
  /\ \A l \in ls : l[1] # l[2]
  /\ \A l, m \in ls : {l[1], l[2]} = {m[1], m[2]} => l = m

\* What the other two parts take for granted.
Known ==
  /\ links \subseteq Pairs /\ edits \subseteq Edits
  /\ drag \in Drags /\ over \in Devices \cup {NoDevice}
  /\ drag.kind # "none" => drag.from \in Devices

\* The links that are there, and those that will be.
SimpleInv == "hasty" \notin raced => Simple(links \cup Created)

\* With the requests that wait, the links make up those the user has drawn.
MeantInv ==
  raced \cap {"hasty", "refused"} = {} =>
    /\ Created \cap links = {} /\ Created \cap Deleted = {}
    /\ (links \cup Created) \ Deleted = meant

\* The inductive invariant.
GestureInv == Known /\ SimpleInv /\ MeantInv

------------------------------------------------------------------------------
(* The canvas: a drop.                                                       *)

\* The two ends of a link that a drop creates.
LEMMA DroppedEnds ==
  ASSUME NEW d
  PROVE  /\ {Dropped(drag, d)[1], Dropped(drag, d)[2]} = {d, drag.from}
         /\ Dropped(drag, d) \in {<<d, drag.from>>, <<drag.from, d>>}
<1>1. Dropped(drag, d) \in {<<d, drag.from>>, <<drag.from, d>>}
  BY DEF Dropped
<1> QED BY <1>1

\* A device that may be dropped on is not connected to the one the link is from.
LEMMA DropIsNew ==
  ASSUME Known, over \in canDrop(drag, over, links)
  PROVE  /\ over \in Devices /\ over # drag.from
         /\ \A m \in links : {m[1], m[2]} # {over, drag.from}
<1>1. /\ over # NoDevice /\ over # drag.from /\ drag.from \notin Connected(over, links)
  BY DEF canDrop
<1>2. ASSUME NEW m \in links, {m[1], m[2]} = {over, drag.from} PROVE FALSE
  <2>1. over \in {m[1], m[2]} /\ (IF m[1] = over THEN m[2] ELSE m[1]) = drag.from
    BY <1>1, <1>2
  <2> QED BY <1>1, <2>1 DEF Connected
<1> QED BY <1>1, <1>2 DEF Known

\* A drop that is not hasty adds a link that is new, and deletes the link that
\* is moved, if any, of those that are there.
LEMMA DropKeeps ==
  ASSUME GestureInv, DropLink
  PROVE  GestureInv'
<1> DEFINE l == Dropped(drag, over)
<1>1. /\ over \in Devices /\ over # drag.from /\ drag.from \in Devices
      /\ \A m \in links : {m[1], m[2]} # {over, drag.from}
  BY DropIsNew DEF DropLink, GestureInv, Known, canDrop
<1>2. l \in Pairs /\ l[1] # l[2] /\ {l[1], l[2]} = {over, drag.from}
  BY <1>1, DroppedEnds DEF Pairs
<1>3. /\ links' = links /\ drag' = NoDrag /\ over' = NoDevice
      /\ edits' = edits \cup {<<"delete", m>> : m \in Moves(drag)} \cup {<<"create", l>>}
      /\ meant' = (meant \ {drag.link}) \cup {l}
      /\ raced \subseteq raced'
      /\ "hasty" \notin raced' => Moves(drag) \subseteq links /\ \A e \in edits : e[1] = "move"
  BY DEF DropLink, Ends
<1>4. Moves(drag) \subseteq Pairs
  BY DEF Moves, GestureInv, Known, Drags
<1>5. Known'
  <2>1. edits' \subseteq Edits
    BY <1>2, <1>3, <1>4 DEF GestureInv, Known, Edits
  <2> QED BY <1>3, <2>1 DEF GestureInv, Known, Drags, NoDrag
<1>6. Created' = Created \cup {l} /\ Deleted' = Deleted \cup Moves(drag)
  <2>1. Created' = Created \cup {l}
    BY <1>2, <1>3 DEF Created
  <2>2. Deleted' = Deleted \cup Moves(drag)
    BY <1>2, <1>3, <1>4 DEF Deleted
  <2> QED BY <2>1, <2>2
<1>7. ASSUME "hasty" \notin raced' PROVE Created = {} /\ Deleted = {} /\ Moves(drag) \subseteq links
  BY <1>3, <1>7 DEF Created, Deleted
<1>8. l \notin links
  BY <1>1, <1>2
<1>9. SimpleInv'
  <2> SUFFICES ASSUME "hasty" \notin raced' PROVE Simple(links \cup {l})
    BY <1>3, <1>6, <1>7 DEF SimpleInv, Simple
  <2>1. Simple(links)
    BY <1>3, <1>7 DEF GestureInv, SimpleInv, Simple
  <2> QED BY <1>1, <1>2, <2>1 DEF Simple
<1>10. MeantInv'
  <2> SUFFICES ASSUME raced' \cap {"hasty", "refused"} = {}
               PROVE  /\ {l} \cap links = {} /\ {l} \cap Moves(drag) = {}
                      /\ (links \cup {l}) \ Moves(drag) = meant'
    BY <1>3, <1>6, <1>7 DEF MeantInv
  <2>1. links = meant
    BY <1>3, <1>7 DEF GestureInv, MeantInv
  <2>2. Moves(drag) \subseteq links
    BY <1>7
  <2>3. Unset \notin links
    BY CanvasAssumption DEF GestureInv, Known, Pairs, Unset
  <2> QED BY <1>3, <1>8, <2>1, <2>2, <2>3 DEF Moves
<1> QED BY <1>5, <1>9, <1>10 DEF GestureInv

------------------------------------------------------------------------------
(* The canvas: the other steps.                                              *)

\* A drag begins at a device.
LEMMA BeginKeeps ==
  ASSUME GestureInv, NEW dr \in Drags, dr.from \in Devices, BeginDrag(dr)
  PROVE  GestureInv'
<1>1. /\ links' = links /\ edits' = edits /\ meant' = meant /\ raced' = raced
      /\ drag' = dr /\ over' = NoDevice
  BY DEF BeginDrag
<1> QED BY <1>1 DEF GestureInv, Known, SimpleInv, MeantInv, Created, Deleted

\* The button of a connection deletes a link that is there.
LEMMA DeleteKeeps ==
  ASSUME GestureInv, NEW l \in links, deleteConn(l)
  PROVE  GestureInv'
<1>1. /\ links' = links /\ edits' = edits \cup {<<"delete", l>>} /\ meant' = meant \ {l}
      /\ raced' = raced /\ drag' = drag /\ over' = over
  BY DEF deleteConn
<1>2. Created' = Created /\ Deleted' = Deleted \cup {l}
  BY <1>1 DEF GestureInv, Known, Created, Deleted
<1>3. Known'
  BY <1>1 DEF GestureInv, Known, Edits
<1>4. SimpleInv'
  BY <1>1, <1>2 DEF GestureInv, SimpleInv, Simple
<1>5. MeantInv'
  BY <1>1, <1>2 DEF GestureInv, MeantInv
<1> QED BY <1>3, <1>4, <1>5 DEF GestureInv

\* An answer moves a link from those that will be to those that are, or takes
\* away one that is to go.
LEMMA AnswerKeeps ==
  ASSUME GestureInv, NEW e \in edits, ReceiveEdit(e)
  PROVE  GestureInv'
<1>1. /\ edits' = edits \ {e} /\ meant' = meant /\ drag' = drag /\ over' = over
      /\ \/ links' = Answered(e) /\ raced' = raced
         \/ links' = links /\ raced' = raced \cup {"refused"}
  BY DEF ReceiveEdit
<1>2. \/ e[1] = "create" /\ e[2] \in Pairs /\ e = <<"create", e[2]>>
      \/ e[1] = "delete" /\ e[2] \in Pairs /\ e = <<"delete", e[2]>>
      \/ e[1] = "move" /\ e[2] \in Devices \X {NoDevice}
  BY DEF GestureInv, Known, Edits
<1>3. Known'
  BY <1>1, <1>2 DEF GestureInv, Known, Answered
<1>4. CASE links' = links /\ raced' = raced \cup {"refused"}
  <2>1. Created' \subseteq Created
    BY <1>1 DEF Created
  <2>2. SimpleInv'
    BY <1>4, <2>1 DEF GestureInv, SimpleInv, Simple
  <2> QED BY <1>3, <1>4, <2>2 DEF GestureInv, MeantInv
<1>5. CASE links' = Answered(e) /\ raced' = raced
  <2>1. CASE e[1] = "create"
    <3>1. links' = links \cup {e[2]}
      BY <1>5, <2>1 DEF Answered
    <3>2. e[2] \in Created /\ Created' = Created \ {e[2]} /\ Deleted' = Deleted
      BY <1>1, <1>2, <2>1 DEF Created, Deleted
    <3>3. SimpleInv'
      BY <1>5, <3>1, <3>2 DEF GestureInv, SimpleInv, Simple
    <3>4. MeantInv'
      BY <1>1, <1>5, <3>1, <3>2 DEF GestureInv, MeantInv
    <3> QED BY <1>3, <3>3, <3>4 DEF GestureInv
  <2>2. CASE e[1] = "delete"
    <3>1. links' = links \ {e[2]}
      BY <1>5, <2>2 DEF Answered
    <3>2. e[2] \in Deleted /\ Created' = Created /\ Deleted' = Deleted \ {e[2]}
      BY <1>1, <1>2, <2>2 DEF Created, Deleted
    <3>3. SimpleInv'
      BY <1>5, <3>1, <3>2 DEF GestureInv, SimpleInv, Simple
    <3>4. MeantInv'
      BY <1>1, <1>5, <3>1, <3>2 DEF GestureInv, MeantInv
    <3> QED BY <1>3, <3>3, <3>4 DEF GestureInv
  <2>3. CASE e[1] = "move"
    <3>1. links' = links
      BY <1>5, <2>3 DEF Answered
    <3>2. Created' = Created /\ Deleted' = Deleted
      BY <1>1, <2>3 DEF Created, Deleted
    <3> QED BY <1>1, <1>3, <1>5, <3>1, <3>2 DEF GestureInv, SimpleInv, MeantInv
  <2> QED BY <1>2, <2>1, <2>2, <2>3
<1> QED BY <1>1, <1>4, <1>5

\* The icon that is moved has a place of its own: no link changes.
LEMMA MoveKeeps ==
  ASSUME GestureInv, DropIcon
  PROVE  GestureInv'
<1>1. /\ links' = links /\ edits' = edits \cup {<<"move", <<drag.from, NoDevice>>>>}
      /\ meant' = meant /\ raced \subseteq raced' /\ raced' \subseteq raced \cup {"frame"}
      /\ drag' = NoDrag /\ over' = NoDevice
  BY DEF DropIcon, Ends
<1>2. Created' = Created /\ Deleted' = Deleted
  BY <1>1 DEF Created, Deleted
<1>3. Known'
  <2>1. edits' \subseteq Edits
    BY <1>1 DEF DropIcon, GestureInv, Known, Edits
  <2> QED BY <1>1, <2>1 DEF GestureInv, Known, Drags, NoDrag
<1> QED BY <1>1, <1>2, <1>3 DEF GestureInv, SimpleInv, MeantInv

\* A step that leaves the links alone.
LEMMA OthersKeep ==
  ASSUME GestureInv, UNCHANGED <<links, edits, meant>>,
         raced \subseteq raced', Known'
  PROVE  GestureInv'
<1>1. Created' = Created /\ Deleted' = Deleted
  BY DEF Created, Deleted
<1> QED BY <1>1 DEF GestureInv, SimpleInv, MeantInv

------------------------------------------------------------------------------
(* The canvas: the inductive invariant.                                      *)

LEMMA GestureInit == CanvasInit => GestureInv
<1> SUFFICES ASSUME CanvasInit PROVE GestureInv
  OBVIOUS
<1>1. links = FirstLinks /\ meant = FirstLinks /\ edits = {} /\ drag = NoDrag /\ over = NoDevice
  BY DEF CanvasInit
<1>2. Created = {} /\ Deleted = {}
  BY <1>1 DEF Created, Deleted
<1>3. Known
  BY <1>1, CanvasAssumption DEF Known, Drags, NoDrag
<1>4. SimpleInv
  BY <1>1, <1>2, CanvasAssumption DEF SimpleInv, Simple
<1> QED BY <1>1, <1>2, <1>3, <1>4 DEF GestureInv, MeantInv

LEMMA GestureNext == GestureInv /\ [CanvasNext]_canvasVars => GestureInv'
<1> SUFFICES ASSUME GestureInv, [CanvasNext]_canvasVars PROVE GestureInv'
  OBVIOUS
<1>1. CASE editModeToggled
  BY <1>1, OthersKeep DEF editModeToggled, GestureInv, Known
<1>2. CASE AnimationFrame
  BY <1>2, OthersKeep DEF AnimationFrame, GestureInv, Known
<1>3. CASE DropLink
  BY <1>3, DropKeeps
<1>4. CASE Cancel
  <2>1. Known'
    BY <1>4 DEF Cancel, Ends, GestureInv, Known, Drags, NoDrag
  <2> QED BY <1>4, <2>1, OthersKeep DEF Cancel, Ends
<1>5. CASE DropIcon
  BY <1>5, MoveKeeps
<1>6. CASE Reload
  BY <1>6, OthersKeep DEF Reload, GestureInv, Known
<1>7. ASSUME NEW d \in Devices, clickIcon(d) PROVE GestureInv'
  BY <1>7, OthersKeep DEF clickIcon, GestureInv, Known
<1>8. ASSUME NEW d \in Devices, DragIcon(d) \/ DragNewLink(d) PROVE GestureInv'
  BY <1>8, BeginKeeps DEF DragIcon, DragNewLink, Drags
<1>9. ASSUME NEW l \in links, connSelected(l) PROVE GestureInv'
  BY <1>9, OthersKeep DEF connSelected, GestureInv, Known
<1>10. ASSUME NEW l \in links, deleteConn(l) PROVE GestureInv'
  BY <1>10, DeleteKeeps
<1>11. ASSUME NEW l \in links, NEW e \in 1..2, DragLinkEnd(l, e) PROVE GestureInv'
  <2>1. l \in Pairs /\ l[3 - e] \in Devices
    BY DEF GestureInv, Known, Pairs
  <2> QED BY <1>11, <2>1, BeginKeeps DEF DragLinkEnd, Drags
<1>12. ASSUME NEW o \in Devices \cup {NoDevice}, Hover(o) PROVE GestureInv'
  BY <1>12, OthersKeep DEF Hover, GestureInv, Known
<1>13. ASSUME NEW e \in edits, ReceiveEdit(e) PROVE GestureInv'
  BY <1>13, AnswerKeeps
<1>14. CASE UNCHANGED canvasVars
  BY <1>14, OthersKeep DEF canvasVars, GestureInv, Known
<1> QED BY <1>1, <1>2, <1>3, <1>4, <1>5, <1>6, <1>7, <1>8, <1>9, <1>10, <1>11, <1>12, <1>13,
           <1>14 DEF CanvasNext

\* The inductive invariant holds in every reachable state.
THEOREM GestureInvariant == CanvasSpec => []GestureInv
<1> QED BY GestureInit, GestureNext, PTL DEF CanvasSpec

------------------------------------------------------------------------------
(* The canvas: what the links are.                                           *)

\* No two links join the same devices, whatever is dragged and in whatever
\* order the server answers, unless a link was drawn before the last change of
\* the links was answered.
THEOREM NoParallel == CanvasSpec => []NoParallelLinks
<1>1. GestureInv => NoParallelLinks
  BY DEF GestureInv, SimpleInv, Simple, NoParallelLinks
<1> QED BY <1>1, GestureInvariant, PTL

\* Once every request is answered, the links are those the user has drawn.
THEOREM LinksMeant == CanvasSpec => []LinksAsMeant
<1>1. GestureInv => LinksAsMeant
  BY DEF GestureInv, MeantInv, Created, Deleted, LinksAsMeant
<1> QED BY <1>1, GestureInvariant, PTL

------------------------------------------------------------------------------
(* The canvas: what a drag marks.                                            *)

\* The icon that is hovered over, as a set.
MarkOf(h) == IF h = NoDevice THEN {} ELSE {h}

Quiet(r) == r \cap {"frame", "hop"} = {}

\* A drag has a kind; an icon and a connection are not selected together.
SelectionInv ==
  /\ drag = NoDrag \/ drag.kind \in {"icon", "interface"}
  /\ selectedIcon # NoDevice => selectedConnection = {}

\* The icon that is marked is the one that takes the link; until its frame a drag
\* has changed nothing, and afterwards it has marked where it began.
MarkInv ==
  /\ canDrop(drag, over, links) = MarkOf(hoveredIcon)
  /\ frame # NoDrag => frame = drag /\ before = selection /\ draggedItem = NoDevice
  /\ drag = NoDrag => draggedItem = NoDevice
  /\ drag # NoDrag /\ frame = NoDrag => draggedItem = drag.from

\* The selection a link is dragged from, and what is selected during the drag: a
\* connection without ends.
ReselectInv ==
  /\ drag.kind = "interface" =>
       before = IF drag.link = Unset THEN <<drag.from, {}>> ELSE <<NoDevice, {drag.link}>>
  /\ drag.kind = "interface" /\ frame = NoDrag => selection = <<NoDevice, {Unset}>>
  /\ drag.kind # "interface" \/ frame # NoDrag => selectedConnection # {Unset}

TraceInv == Known /\ SelectionInv /\ (Quiet(raced) => MarkInv /\ ReselectInv)

\* Of some indices one is the last.
LEMMA LastIndex ==
  ASSUME NEW n \in Nat, NEW T \in SUBSET (1..n), T # {}
  PROVE  \E i \in T : \A j \in T : j <= i
<1> DEFINE U == {n - i : i \in T}
<1>1. U \in SUBSET Nat /\ U # {}
  <2>1. \A i \in T : n - i \in Nat
    OBVIOUS
  <2> QED BY <2>1
<1>2. PICK x \in U : \A y \in U : ~(<<y, x>> \in OpToRel(<, Nat))
  <2> HIDE DEF U
  <2> QED BY <1>1, NatLessThanWellFounded, WFMin
<1>3. PICK i \in T : x = n - i
  BY <1>2
<1>4. ASSUME NEW j \in T
      PROVE  j <= i
  <2>1. n - j \in U /\ n - j \in Nat /\ x \in Nat
    BY <1>1, <1>2
  <2>2. ~(n - j < x)
    BY <1>2, <2>1 DEF OpToRel
  <2> QED BY <1>3, <2>2
<1> QED BY <1>4

\* The icons that dispatch leave the mark at the icon that takes the link, unless
\* one icon has left it to another.
LEMMA HoverMarks ==
  ASSUME NEW C \in SUBSET Devices, NEW D \in SUBSET Devices,
         C = MarkOf(hoveredIcon), \A d, e \in D : d = e, C = {} \/ D = {} \/ C = D,
         iconHovered(C, D)
  PROVE  D = MarkOf(hoveredIcon')
<1> DEFINE changed == {i \in DOMAIN IconOrder : (IconOrder[i] \in C) # (IconOrder[i] \in D)}
           k    == CHOOSE i \in changed : \A j \in changed : j <= i
           last == IconOrder[k]
<1>1. hoveredIcon' = IF changed = {} THEN hoveredIcon ELSE IF last \in D THEN last ELSE NoDevice
  BY DEF iconHovered
<1>2. \A d \in Devices : \E i \in DOMAIN IconOrder : IconOrder[i] = d
  BY DEF Devices
<1>3. CASE changed = {}
  <2>1. C = D
    BY <1>2, <1>3
  <2> QED BY <1>1, <1>3, <2>1
<1>4. CASE changed # {}
  <2>1. DOMAIN IconOrder = 1..Len(IconOrder) /\ Len(IconOrder) \in Nat
    BY CanvasAssumption
  <2>2. \E i \in changed : \A j \in changed : j <= i
    <3>1. changed \in SUBSET (1..Len(IconOrder))
      BY <2>1
    <3> HIDE DEF changed
    <3> QED BY <1>4, <2>1, <3>1, LastIndex
  <2>3. k \in changed
    <3> HIDE DEF changed
    <3> QED BY <2>2
  <2>4. (last \in C) # (last \in D) /\ last \in Devices
    BY <2>3 DEF Devices
  <2> HIDE DEF changed, k
  <2>5. CASE last \in D
    <3>1. D = {last} /\ last # NoDevice
      BY <2>4, <2>5, CanvasAssumption
    <3> QED BY <1>1, <1>4, <2>5, <3>1 DEF MarkOf
  <2>6. CASE last \notin D
    <3>1. D = {}
      BY <2>4, <2>6
    <3> QED BY <1>1, <1>4, <2>6, <3>1 DEF MarkOf
  <2> QED BY <2>5, <2>6
<1> QED BY <1>3, <1>4

LEMMA CanDropType ==
  ASSUME NEW dr, NEW o \in Devices \cup {NoDevice}, NEW ls
  PROVE  /\ canDrop(dr, o, ls) \in SUBSET Devices /\ canDrop(dr, o, ls) \subseteq {o}
         /\ o = NoDevice => canDrop(dr, o, ls) = {}
         /\ dr.kind # "interface" => canDrop(dr, o, ls) = {}
BY CanvasAssumption DEF canDrop

\* What every drag ends with leaves no mark.
LEMMA EndMarks ==
  ASSUME Known, Ends, Quiet(raced) => MarkInv
  PROVE  /\ drag' = NoDrag /\ draggedItem' = NoDevice /\ over' = NoDevice /\ frame' = frame
         /\ Quiet(raced) => hoveredIcon' = NoDevice
<1>1. ASSUME Quiet(raced)
      PROVE  hoveredIcon' = NoDevice
  <2> DEFINE C == canDrop(drag, over, links)
  <2>1. C = MarkOf(hoveredIcon) /\ iconHovered(C, {}) /\ C \in SUBSET Devices
    BY <1>1, CanDropType DEF MarkInv, Ends, Known
  <2> HIDE DEF C
  <2>2. {} = MarkOf(hoveredIcon')
    BY <2>1, HoverMarks
  <2> QED BY <2>2 DEF MarkOf
<1> QED BY <1>1 DEF Ends

\* A drag that ends with its frame behind it.
LEMMA EndKeeps ==
  ASSUME TraceInv, Ends, DropLink \/ Cancel \/ DropIcon, Known'
  PROVE  TraceInv'
<1>0. drag # NoDrag /\ drag.kind # "none"
  BY CanDropType DEF DropLink, Cancel, DropIcon, canDrop, NoDrag
<1>1. /\ raced \subseteq raced' /\ (frame # NoDrag => "frame" \in raced')
      /\ drag' = NoDrag /\ frame' = frame /\ over' = NoDevice /\ NoDrag.kind = "none"
  BY DEF DropLink, Cancel, DropIcon, Ends, NoDrag
<1>2. selectedIcon' # NoDevice => selectedConnection' = {}
  BY DEF DropLink, Cancel, DropIcon, Reselect, connectionSelected, iconSelected, selection,
         TraceInv, SelectionInv
<1>3. ASSUME Quiet(raced')
      PROVE  MarkInv' /\ ReselectInv'
  <2>1. Quiet(raced) /\ frame = NoDrag /\ MarkInv /\ ReselectInv
    BY <1>1, <1>3 DEF Quiet, TraceInv
  <2>2. draggedItem' = NoDevice /\ hoveredIcon' = NoDevice
    BY <2>1, EndMarks DEF TraceInv
  <2>3. canDrop(NoDrag, NoDevice, links') = {}
    BY DEF canDrop, NoDrag
  <2>4. MarkInv'
    BY <1>1, <2>1, <2>2, <2>3 DEF MarkInv, MarkOf
  <2>5. selectedConnection' # {Unset}
    <3>1. CASE DropLink
      <4> DEFINE l == Dropped(drag, over)
      <4>1. l \in {<<over, drag.from>>, <<drag.from, over>>} /\ over # NoDevice
        BY <3>1, DroppedEnds DEF DropLink, canDrop
      <4>2. l # Unset
        BY <4>1 DEF Unset
      <4>3. selectedConnection' \in {{}, {l}}
        BY <3>1 DEF DropLink, connectionSelected
      <4> QED BY <4>2, <4>3
    <3>2. CASE Cancel
      <4>1. selectedConnection' \in {{}, {drag.link}} /\ (drag.link = Unset => selectedConnection' = {})
        BY <3>2 DEF Cancel, Reselect, iconSelected, connectionSelected
      <4> QED BY <4>1
    <3>3. CASE DropIcon
      BY <2>1, <3>3 DEF DropIcon, ReselectInv, selection
    <3> QED BY <3>1, <3>2, <3>3
  <2>6. ReselectInv'
    BY <1>1, <2>1, <2>5 DEF ReselectInv
  <2> QED BY <2>4, <2>6
<1> QED BY <1>1, <1>2, <1>3 DEF TraceInv, SelectionInv

\* A drag begins at an icon that is selected, or at the end of a connection
\* that is.
LEMMA BeginMarks ==
  ASSUME TraceInv, NEW dr \in Drags, dr.kind \in {"icon", "interface"}, dr.from \in Devices,
         BeginDrag(dr),
         dr.kind = "interface" => selection = IF dr.link = Unset THEN <<dr.from, {}>>
                                              ELSE <<NoDevice, {dr.link}>>
  PROVE  TraceInv'
<1>1. /\ drag = NoDrag /\ frame = NoDrag /\ drag' = dr /\ frame' = dr /\ over' = NoDevice
      /\ before' = selection /\ raced = {} /\ raced' = {}
      /\ UNCHANGED <<selectedIcon, selectedConnection, draggedItem, hoveredIcon, links, edits>>
      /\ selection' = selection
  BY DEF BeginDrag, selection
<1>2. dr # NoDrag /\ NoDrag.kind = "none"
  BY DEF NoDrag
<1>3. MarkInv /\ ReselectInv
  BY <1>1 DEF TraceInv, Quiet
<1>4. canDrop(drag, over, links) = {} /\ canDrop(dr, NoDevice, links) = {}
  BY <1>1, <1>2 DEF canDrop
<1>5. MarkInv'
  BY <1>1, <1>2, <1>3, <1>4 DEF MarkInv
<1>6. ReselectInv'
  BY <1>1, <1>2, <1>3 DEF ReselectInv
<1>7. Known' /\ SelectionInv'
  BY <1>1 DEF TraceInv, Known, SelectionInv
<1> QED BY <1>5, <1>6, <1>7 DEF TraceInv

\* The frame of a drag marks where it began.
LEMMA FrameKeeps ==
  ASSUME TraceInv, AnimationFrame
  PROVE  TraceInv'
<1>1. /\ frame # NoDrag /\ draggedItem' = frame.from /\ frame' = NoDrag
      /\ UNCHANGED <<hoveredIcon, drag, over, links, edits, before, raced>>
      /\ IF frame.kind = "interface" THEN connectionSelected(Unset)
         ELSE UNCHANGED <<selectedIcon, selectedConnection>>
  BY DEF AnimationFrame, selection
<1>2. Known' /\ SelectionInv'
  BY <1>1 DEF TraceInv, Known, SelectionInv, connectionSelected
<1>3. ASSUME Quiet(raced)
      PROVE  MarkInv' /\ ReselectInv'
  <2>1. MarkInv /\ ReselectInv /\ frame = drag /\ selectedConnection # {Unset}
    BY <1>1, <1>3 DEF TraceInv, MarkInv, ReselectInv
  <2>2. MarkInv'
    BY <1>1, <2>1 DEF MarkInv
  <2>3. CASE drag.kind = "interface"
    <3>1. selectedIcon' = NoDevice /\ selectedConnection' = {Unset}
      BY <1>1, <2>1, <2>3 DEF connectionSelected
    <3> QED BY <1>1, <2>1, <2>2, <2>3, <3>1 DEF ReselectInv, selection
  <2>4. CASE drag.kind # "interface"
    BY <1>1, <2>1, <2>2, <2>4 DEF ReselectInv
  <2> QED BY <2>3, <2>4
<1> QED BY <1>1, <1>2, <1>3 DEF TraceInv

\* The pointer moves, or a request is answered.
LEMMA HoverKeeps ==
  ASSUME TraceInv, Known',
         UNCHANGED <<selectedIcon, selectedConnection, draggedItem, drag, frame, before>>,
         iconHovered(canDrop(drag, over, links), canDrop(drag, over', links')),
         raced \subseteq raced', Quiet(raced') => over' = over \/ NoDevice \in {over, over'}
  PROVE  TraceInv'
<1>1. SelectionInv' /\ (Quiet(raced') => Quiet(raced))
  BY DEF TraceInv, SelectionInv, Quiet
<1>2. ASSUME Quiet(raced')
      PROVE  MarkInv' /\ ReselectInv'
  <2> DEFINE C == canDrop(drag, over, links)
             D == canDrop(drag, over', links')
  <2>1. MarkInv /\ ReselectInv /\ C = MarkOf(hoveredIcon)
    BY <1>1, <1>2 DEF TraceInv, MarkInv
  <2>2. over \in Devices \cup {NoDevice} /\ over' \in Devices \cup {NoDevice}
    BY DEF TraceInv, Known
  <2>3. /\ C \in SUBSET Devices /\ C \subseteq {over} /\ (over = NoDevice => C = {})
        /\ D \in SUBSET Devices /\ D \subseteq {over'} /\ (over' = NoDevice => D = {})
    BY <2>2, CanDropType
  <2>4. iconHovered(C, D)
    OBVIOUS
  <2>5. canDrop(drag', over', links') = D
    OBVIOUS
  <2> HIDE DEF C, D
  <2>6. (\A d, e \in D : d = e) /\ (C = {} \/ D = {} \/ C = D)
    BY <1>2, <2>3
  <2>7. D = MarkOf(hoveredIcon')
    BY <2>1, <2>3, <2>4, <2>6, HoverMarks
  <2>8. MarkInv'
    BY <2>1, <2>5, <2>7 DEF MarkInv, selection
  <2>9. ReselectInv'
    BY <2>1 DEF ReselectInv, selection
  <2> QED BY <2>8, <2>9
<1> QED BY <1>1, <1>2 DEF TraceInv

\* At rest, what is selected changes.
LEMMA RestKeeps ==
  ASSUME TraceInv, drag = NoDrag, frame = NoDrag,
         UNCHANGED <<draggedItem, hoveredIcon, drag, over, frame, links, before, raced>>,
         Known', selectedIcon' # NoDevice => selectedConnection' = {},
         selectedConnection' = selectedConnection \/ selectedConnection' # {Unset}
  PROVE  TraceInv'
<1>1. SelectionInv'
  BY DEF SelectionInv
<1>2. ASSUME Quiet(raced)
      PROVE  MarkInv' /\ ReselectInv'
  <2>1. MarkInv /\ ReselectInv /\ NoDrag.kind = "none"
    BY <1>2 DEF TraceInv, NoDrag
  <2>2. MarkInv'
    BY <2>1 DEF MarkInv
  <2> QED BY <2>1, <2>2 DEF ReselectInv
<1> QED BY <1>1, <1>2 DEF TraceInv

LEMMA TraceNext == TraceInv /\ [CanvasNext]_canvasVars => TraceInv'
<1> SUFFICES ASSUME TraceInv, [CanvasNext]_canvasVars PROVE TraceInv'
  OBVIOUS
<1> USE DEF selection
<1>1. CASE editModeToggled
  BY <1>1, RestKeeps DEF editModeToggled, TraceInv, Known, SelectionInv
<1>2. CASE AnimationFrame
  BY <1>2, FrameKeeps
<1>3. CASE DropLink
  <2>1. Known'
    <3>1. edits' \subseteq Edits
      <4>1. Dropped(drag, over) \in Pairs /\ Moves(drag) \subseteq Pairs
        BY <1>3, DropIsNew, DroppedEnds DEF DropLink, TraceInv, Known, canDrop, Pairs, Moves, Drags
      <4> QED BY <1>3, <4>1 DEF DropLink, TraceInv, Known, Edits
    <3> QED BY <1>3, <3>1 DEF DropLink, Ends, TraceInv, Known, Drags, NoDrag
  <2> QED BY <1>3, <2>1, EndKeeps DEF DropLink
<1>4. CASE Cancel
  <2>1. Known'
    BY <1>4 DEF Cancel, Ends, TraceInv, Known, Drags, NoDrag
  <2> QED BY <1>4, <2>1, EndKeeps DEF Cancel
<1>5. CASE DropIcon
  <2>1. edits' \subseteq Edits
    BY <1>5 DEF DropIcon, TraceInv, Known, Edits
  <2>2. Known'
    BY <1>5, <2>1 DEF DropIcon, Ends, TraceInv, Known, Drags, NoDrag
  <2> QED BY <1>5, <2>2, EndKeeps DEF DropIcon
<1>6. CASE Reload
  <2>1. /\ drag = NoDrag /\ drag' = NoDrag /\ frame' = NoDrag /\ NoDrag.kind = "none"
        /\ draggedItem' = NoDevice /\ hoveredIcon' = NoDevice
        /\ selectedIcon' = NoDevice /\ selectedConnection' = {}
    BY <1>6 DEF Reload, NoDrag
  <2>2. canDrop(drag', over', links') = {}
    BY <2>1 DEF canDrop
  <2>3. MarkInv' /\ ReselectInv' /\ SelectionInv'
    BY <2>1, <2>2 DEF MarkInv, MarkOf, ReselectInv, SelectionInv
  <2>4. Known'
    BY <1>6 DEF Reload, TraceInv, Known
  <2> QED BY <2>3, <2>4 DEF TraceInv
<1>7. ASSUME NEW d \in Devices, clickIcon(d) PROVE TraceInv'
  <2>1. Known'
    BY <1>7 DEF clickIcon, TraceInv, Known
  <2>2. selectedConnection' \in {{}, selectedConnection}
        /\ (selectedIcon' # NoDevice => selectedConnection' = {})
    BY <1>7 DEF clickIcon, iconSelected, TraceInv, SelectionInv
  <2> QED BY <1>7, <2>1, <2>2, RestKeeps DEF clickIcon
<1>8. ASSUME NEW d \in Devices, DragIcon(d) \/ DragNewLink(d) PROVE TraceInv'
  <2>1. CASE DragIcon(d)
    <3> DEFINE dr == [kind |-> "icon", from |-> d, link |-> Unset, end |-> 0]
    <3>1. dr \in Drags /\ BeginDrag(dr) /\ dr.kind = "icon" /\ dr.from = d
      BY <2>1 DEF DragIcon, Drags
    <3> HIDE DEF dr
    <3> QED BY <3>1, BeginMarks
  <2>2. CASE DragNewLink(d)
    <3> DEFINE dr == [kind |-> "interface", from |-> d, link |-> Unset, end |-> 0]
    <3>1. dr \in Drags /\ BeginDrag(dr) /\ selectedIcon = d /\ d # NoDevice
      BY <2>2, CanvasAssumption DEF DragNewLink, Drags
    <3>2. selection = <<dr.from, {}>>
      BY <3>1 DEF TraceInv, SelectionInv
    <3> QED BY <3>1, <3>2, BeginMarks
  <2> QED BY <1>8, <2>1, <2>2
<1>9. ASSUME NEW l \in links, connSelected(l) \/ deleteConn(l) PROVE TraceInv'
  <2>1. l \in Pairs /\ l # Unset
    BY CanvasAssumption DEF TraceInv, Known, Pairs, Unset
  <2>2. /\ drag = NoDrag /\ frame = NoDrag /\ connectionSelected(l)
        /\ UNCHANGED <<draggedItem, hoveredIcon, drag, over, frame, links, before, raced>>
        /\ edits' \subseteq edits \cup {<<"delete", l>>}
    BY <1>9 DEF connSelected, deleteConn
  <2>3. selectedIcon' = NoDevice /\ selectedConnection' \in {{}, {l}}
    BY <2>2 DEF connectionSelected
  <2>4. selectedConnection' # {Unset}
    BY <2>1, <2>3
  <2>5. Known'
    <3>1. edits' \subseteq Edits
      BY <2>1, <2>2 DEF TraceInv, Known, Edits
    <3> QED BY <2>2, <3>1 DEF TraceInv, Known
  <2> QED BY <2>2, <2>3, <2>4, <2>5, RestKeeps
<1>10. ASSUME NEW l \in links, NEW e \in 1..2, DragLinkEnd(l, e) PROVE TraceInv'
  <2> DEFINE dr == [kind |-> "interface", from |-> l[3 - e], link |-> l, end |-> e]
  <2>1. l \in Pairs /\ l[3 - e] \in Devices /\ l # Unset
    BY CanvasAssumption DEF TraceInv, Known, Pairs, Unset
  <2>2. dr \in Drags /\ BeginDrag(dr) /\ selectedConnection = {l}
    BY <1>10, <2>1 DEF DragLinkEnd, Drags
  <2>3. selection = <<NoDevice, {dr.link}>>
    BY <2>2 DEF TraceInv, SelectionInv
  <2> QED BY <2>1, <2>2, <2>3, BeginMarks
<1>11. ASSUME NEW o \in Devices \cup {NoDevice}, Hover(o) PROVE TraceInv'
  <2>1. Known'
    BY <1>11 DEF Hover, TraceInv, Known
  <2>2. /\ UNCHANGED <<selectedIcon, selectedConnection, draggedItem, drag, frame, before, links>>
        /\ over' = o /\ iconHovered(canDrop(drag, over, links), canDrop(drag, o, links))
        /\ raced' = IF NoDevice \in {over, o} THEN raced ELSE raced \cup {"hop"}
    BY <1>11 DEF Hover
  <2>3. raced \subseteq raced' /\ (Quiet(raced') => NoDevice \in {over, over'})
    BY <2>2 DEF Quiet
  <2> QED BY <2>1, <2>2, <2>3, HoverKeeps
<1>12. ASSUME NEW e \in edits, ReceiveEdit(e) PROVE TraceInv'
  <2>1. /\ UNCHANGED <<selectedIcon, selectedConnection, draggedItem, drag, frame, before, over>>
        /\ iconHovered(canDrop(drag, over, links), canDrop(drag, over, links'))
        /\ raced \subseteq raced' /\ edits' \subseteq edits
        /\ links' \in {links, Answered(e)}
    BY <1>12 DEF ReceiveEdit
  <2>2. Known'
    <3>1. e \in Edits
      BY DEF TraceInv, Known
    <3>2. Answered(e) \subseteq Pairs
      BY <3>1 DEF Answered, Edits, TraceInv, Known
    <3> QED BY <2>1, <3>2 DEF TraceInv, Known
  <2> QED BY <2>1, <2>2, HoverKeeps
<1>13. CASE UNCHANGED canvasVars
  <2>1. UNCHANGED <<selectedIcon, selectedConnection, draggedItem, hoveredIcon, drag, over, frame,
                    links, edits, before, raced>>
    BY <1>13 DEF canvasVars
  <2> QED BY <2>1 DEF TraceInv, Known, SelectionInv, MarkInv, ReselectInv
<1> QED BY <1>1, <1>2, <1>3, <1>4, <1>5, <1>6, <1>7, <1>8, <1>9, <1>10, <1>11, <1>12, <1>13
        DEF CanvasNext

LEMMA TraceInit == CanvasInit => TraceInv
<1> SUFFICES ASSUME CanvasInit PROVE TraceInv
  OBVIOUS
<1>1. Known
  BY GestureInit DEF GestureInv
<1>2. /\ drag = NoDrag /\ over = NoDevice /\ frame = NoDrag /\ draggedItem = NoDevice
      /\ hoveredIcon = NoDevice /\ selectedIcon = NoDevice /\ selectedConnection = {}
      /\ NoDrag.kind = "none"
  BY DEF CanvasInit, NoDrag
<1>3. canDrop(drag, over, links) = {}
  BY <1>2 DEF canDrop
<1> QED BY <1>1, <1>2, <1>3 DEF TraceInv, SelectionInv, MarkInv, MarkOf, ReselectInv

LEMMA TraceInvariant == CanvasSpec => []TraceInv
<1> QED BY TraceInit, TraceNext, PTL DEF CanvasSpec

\* The line that is drawn for a link ends at the icon that will take it, or at
\* the pointer, whatever is answered during the drag.
THEOREM PreviewTrue == CanvasSpec => []PreviewTruthful
<1>1. TraceInv => PreviewTruthful
  <2> SUFFICES ASSUME TraceInv, raced = {}, drag.kind = "interface", frame = NoDrag
               PROVE  Preview = {<<drag.from, o>> : o \in
                        LET target == canDrop(drag, over, links)
                        IN IF target = {} THEN {NoDevice} ELSE target}
    BY DEF PreviewTruthful
  <2>1. MarkInv /\ drag # NoDrag /\ drag.from \in Devices
    BY DEF TraceInv, Quiet, NoDrag, Known
  <2>2. draggedItem = drag.from /\ drag.from # NoDevice
    BY <2>1, CanvasAssumption DEF MarkInv
  <2>3. Preview = {<<drag.from, hoveredIcon>>}
    BY <2>2 DEF Preview, fromIcons
  <2>4. (IF canDrop(drag, over, links) = {} THEN {NoDevice} ELSE canDrop(drag, over, links))
          = {hoveredIcon}
    BY <2>1 DEF MarkInv, MarkOf
  <2> QED BY <2>3, <2>4
<1> QED BY <1>1, TraceInvariant, PTL

\* A drag that is given up leaves the selection as it was when it began, and no
\* drag leaves a mark of its own behind.
THEOREM NoTraceOfDrags == CanvasSpec => DragLeavesNoTrace
<1>1. ASSUME TraceInv, [CanvasNext]_canvasVars, TraceInv'
      PROVE  [drag # NoDrag /\ drag' = NoDrag /\ raced' \cap {"frame", "hop"} = {} =>
                /\ draggedItem' = NoDevice /\ hoveredIcon' = NoDevice
                /\ Cancel => selection' = before]_canvasVars
  <2> SUFFICES ASSUME drag # NoDrag, drag' = NoDrag, Quiet(raced')
               PROVE  /\ draggedItem' = NoDevice /\ hoveredIcon' = NoDevice
                      /\ Cancel => selection' = before
    BY DEF Quiet
  <2>1. MarkInv'
    BY <1>1 DEF TraceInv
  <2>2. canDrop(drag', over', links') = {}
    BY DEF canDrop, NoDrag
  <2>3. draggedItem' = NoDevice /\ hoveredIcon' = NoDevice
    BY <2>1, <2>2 DEF MarkInv, MarkOf
  <2>4. ASSUME Cancel
        PROVE  selection' = before
    <3>1. drag.kind = "interface" /\ Reselect(drag) /\ frame = NoDrag /\ Quiet(raced)
      BY <2>4 DEF Cancel, Quiet
    <3>2. ReselectInv /\ drag.from \in Devices /\ drag.from # NoDevice
      BY <1>1, <3>1, CanvasAssumption DEF TraceInv, Known
    <3>3. selectedIcon = NoDevice /\ selectedConnection = {Unset}
          /\ before = IF drag.link = Unset THEN <<drag.from, {}>> ELSE <<NoDevice, {drag.link}>>
      BY <3>1, <3>2 DEF ReselectInv, selection
    <3>4. CASE drag.link = Unset
      BY <3>1, <3>2, <3>3, <3>4 DEF Reselect, iconSelected, selection
    <3>5. CASE drag.link # Unset
      <4>1. {Unset} # {drag.link}
        BY <3>5
      <4> QED BY <3>1, <3>3, <3>5, <4>1 DEF Reselect, connectionSelected, selection
    <3> QED BY <3>4, <3>5
  <2> QED BY <2>3, <2>4
<1> QED BY <1>1, TraceInvariant, PTL DEF CanvasSpec, DragLeavesNoTrace

------------------------------------------------------------------------------
(* The layout: an icon is drawn again where it was dropped.                  *)

\* What Math.round returns is the nearest integer.
LEMMA RoundedNearest ==
  ASSUME NEW a \in Int, NEW b \in Nat \ {0}
  PROVE  /\ Rounded(a, b) \in Int /\ Rounded(a, b) * b \in Int
         /\ 2 * (Rounded(a, b) * b) <= 2 * a + b
         /\ 2 * a + b < 2 * (Rounded(a, b) * b) + 2 * b
<1> DEFINE n == 2 * a + b
           m == 2 * b
<1>1. n \in Int /\ m \in Nat \ {0} /\ Rounded(a, b) = n \div m
  BY DEF Rounded
<1> HIDE DEF n, m
<1>2. n \div m \in Int /\ m * (n \div m) <= n /\ n < m * (n \div m) + m
  BY <1>1
<1> DEFINE q == n \div m
<1>3. q \in Int /\ Rounded(a, b) = q /\ m * q <= n /\ n < m * q + m
  BY <1>1, <1>2
<1> HIDE DEF q
<1>4. m * q = 2 * (q * b) /\ q * b \in Int
  BY <1>3 DEF m
<1> QED BY <1>3, <1>4 DEF n, m

\* A product grows with its factor.
LEMMA ProductGrows ==
  ASSUME NEW x \in Int, NEW y \in Int, NEW d \in Nat, x <= y
  PROVE  x * d <= y * d
OBVIOUS

\* 100 percent.
Whole == 100 * Pc

LEMMA UnitsAre ==
  /\ Whole \in Nat \ {0} /\ Unit \in Nat \ {0} /\ Widest \in Nat
  /\ Whole = 10 * Unit /\ 23 * Widest < 3 * Whole
BY SMT DEF Whole, Unit, Widest, Pc

\* A percentage of D pixels, in pixels.
PxOf(pc, D) == Rounded(pc * D, Whole)

\* Pixel p, moved into the range that starts at S and is L long (percentages).
PxWithin(S, L, D, p) == Larger(PxOf(S, D), Smaller(PxOf(S + L, D), p))

\* The coordinate of pixel x in the range, and the pixel of coordinate c.
CoordOf(S, L, D, x) ==
  Larger(0, Smaller(Unit, Rounded((Rounded(x * Whole, D) - S) * Unit, L)))

PxOfCoord(S, L, D, c) == PxOf(10 * Rounded(S + (c * L) \div Unit, 10), D)

\* A pixel of a range is stored as a coordinate from which it is drawn again at
\* most one pixel away: the rounding to four decimals, to the percentage with two
\* and to the pixel never add up to two.
LEMMA PixelReturns ==
  ASSUME NEW D \in 1..Widest, NEW S \in Int, NEW L \in 1..Whole, NEW p \in Int
  PROVE  /\ PxWithin(S, L, D, p) \in Int
         /\ CoordOf(S, L, D, PxWithin(S, L, D, p)) \in 0..Unit
         /\ PxOfCoord(S, L, D, CoordOf(S, L, D, PxWithin(S, L, D, p)))
              - PxWithin(S, L, D, p) \in -1..1
<1> DEFINE E == Whole
           U == Unit
           SD == S * D
           LD == L * D
           lo == PxOf(S, D)
           hi == PxOf(S + L, D)
           x == PxWithin(S, L, D, p)
           pc == Rounded(x * E, D)
           PD == pc * D
           q == Rounded((pc - S) * U, L)
           Q == q * L
           c == CoordOf(S, L, D, x)
           w == (c * L) \div U
           r == Rounded(S + w, 10)
           RD == r * D
           y == PxOfCoord(S, L, D, c)
<1>1. /\ lo = Rounded(S * D, E) /\ hi = Rounded((S + L) * D, E)
      /\ x = Larger(lo, Smaller(hi, p)) /\ c = Larger(0, Smaller(U, q))
      /\ y = Rounded((10 * r) * D, E)
  BY Zenon DEF PxOf, PxWithin, CoordOf, PxOfCoord
<1>0. /\ E \in Nat \ {0} /\ U \in Nat \ {0} /\ D \in Nat \ {0} /\ L \in Nat \ {0}
      /\ E = 10 * U /\ 23 * D < 3 * E /\ L <= E
  BY UnitsAre, SMT
<1> SUFFICES x \in Int /\ c \in 0..U /\ y - x \in -1..1
  BY Zenon
<1> HIDE DEF E, U, lo, hi, x, pc, q, c, w, r, y
<1>2. SD \in Int /\ LD \in Int /\ LD >= 0 /\ (S + L) * D = SD + LD
  BY <1>0
<1>3. /\ lo \in Int /\ lo * E \in Int /\ 2 * (lo * E) <= 2 * SD + E
      /\ 2 * SD + E < 2 * (lo * E) + 2 * E
  <2>1. lo = Rounded(SD, E)
    BY <1>1
  <2> HIDE DEF SD
  <2>2. lo \in Int
    BY <1>0, <1>2, <2>1, RoundedNearest
  <2> QED BY <1>0, <1>2, <2>1, <2>2, RoundedNearest
<1>4. /\ hi \in Int /\ hi * E \in Int /\ 2 * (hi * E) <= 2 * (SD + LD) + E
      /\ 2 * (SD + LD) + E < 2 * (hi * E) + 2 * E
  <2> DEFINE t == SD + LD
  <2>1. hi = Rounded(t, E)
    BY <1>1, <1>2
  <2> HIDE DEF SD, LD
  <2>2. t \in Int
    BY <1>2
  <2> HIDE DEF t
  <2>3. /\ hi \in Int /\ hi * E \in Int /\ 2 * (hi * E) <= 2 * t + E
        /\ 2 * t + E < 2 * (hi * E) + 2 * E
    BY <1>0, <2>1, <2>2, RoundedNearest
  <2> QED BY <2>3 DEF t
<1>5. lo <= hi /\ x \in Int /\ lo <= x /\ x <= hi
  <2>1. lo <= hi
    <3>1. SUFFICES ASSUME hi + 1 <= lo
                   PROVE  FALSE
      BY <1>3, <1>4
    <3>2. (hi + 1) * E <= lo * E
      BY <1>0, <1>3, <1>4, <3>1, ProductGrows
    <3>3. hi * E + E <= lo * E
      BY <1>0, <1>4, <3>2
    <3> DEFINE loE == lo * E
               hiE == hi * E
    <3>4. /\ loE \in Int /\ hiE \in Int /\ 2 * loE <= 2 * SD + E
          /\ 2 * (SD + LD) + E < 2 * hiE + 2 * E /\ hiE + E <= loE
      BY <1>3, <1>4, <3>3
    <3> HIDE DEF loE, hiE, SD, LD
    <3> QED BY <1>0, <1>2, <3>4
  <2> QED BY <1>1, <1>3, <1>4, <2>1 DEF Larger, Smaller
<1>6. /\ pc \in Int /\ PD \in Int /\ x * E \in Int
      /\ 2 * PD <= 2 * (x * E) + D /\ 2 * (x * E) + D < 2 * PD + 2 * D
  <2> DEFINE t == x * E
  <2>1. t \in Int /\ pc = Rounded(t, D)
    BY <1>0, <1>5 DEF pc
  <2> HIDE DEF t
  <2>2. /\ pc \in Int /\ 2 * (pc * D) <= 2 * t + D
        /\ 2 * t + D < 2 * (pc * D) + 2 * D
    BY <1>0, <2>1, RoundedNearest
  <2>3. PD \in Int
    BY <1>0, <2>2
  <2> QED BY <2>1, <2>2, <2>3 DEF t
<1>7. /\ q \in Int /\ Q \in Int /\ (pc - S) * U \in Int
      /\ 2 * Q <= 2 * ((pc - S) * U) + L
      /\ 2 * ((pc - S) * U) + L < 2 * Q + 2 * L
  <2> DEFINE t == (pc - S) * U
  <2>1. t \in Int /\ q = Rounded(t, L)
    BY <1>0, <1>6 DEF q
  <2> HIDE DEF t
  <2>2. /\ q \in Int /\ 2 * (q * L) <= 2 * t + L
        /\ 2 * t + L < 2 * (q * L) + 2 * L
    BY <1>0, <2>1, RoundedNearest
  <2>3. Q \in Int
    BY <1>0, <2>2
  <2> QED BY <2>1, <2>2, <2>3 DEF t
<1>8. c \in 0..U
  BY <1>0, <1>1, <1>7 DEF Larger, Smaller
<1>9. c * L \in Int /\ w \in Int /\ U * w \in Int /\ U * w <= c * L /\ c * L < U * w + U
  <2> DEFINE t == c * L
  <2>1. t \in Int
    BY <1>0, <1>8
  <2>2. w = t \div U
    BY DEF w
  <2> HIDE DEF t
  <2>3. w \in Int /\ U * w \in Int /\ U * w <= t /\ t < U * w + U
    BY <1>0, <2>1, <2>2
  <2> QED BY <2>1, <2>3 DEF t
<1>10. /\ r \in Int /\ 20 * r <= 2 * (S + w) + 10 /\ 2 * (S + w) + 10 < 20 * r + 20
  <2> DEFINE t == S + w
  <2>1. t \in Int /\ r = Rounded(t, 10)
    BY <1>9 DEF r
  <2> HIDE DEF t
  <2>2. /\ r \in Int /\ 2 * (r * 10) <= 2 * t + 10
        /\ 2 * t + 10 < 2 * (r * 10) + 2 * 10
    BY <2>1, RoundedNearest
  <2> QED BY <2>2 DEF t
<1>11. /\ y \in Int /\ RD \in Int /\ y * E \in Int /\ (10 * r) * D = 10 * RD
       /\ 2 * (y * E) <= 20 * RD + E /\ 20 * RD + E < 2 * (y * E) + 2 * E
  <2>1. RD \in Int /\ (10 * r) * D = 10 * RD
    BY <1>0, <1>10
  <2> HIDE DEF RD
  <2> DEFINE t == 10 * RD
  <2>2. t \in Int /\ y = Rounded(t, E)
    BY <1>1, <2>1
  <2> HIDE DEF t
  <2>3. /\ y \in Int /\ y * E \in Int /\ 2 * (y * E) <= 2 * t + E
        /\ 2 * t + E < 2 * (y * E) + 2 * E
    BY <1>0, <2>2, RoundedNearest
  <2> QED BY <2>1, <2>3 DEF t
\* It is enough that the two are less than two pixels apart.
<1>12. ASSUME y * E - x * E < 2 * E, x * E - y * E < 2 * E
       PROVE  y - x \in -1..1
  <2>1. y - x < 2
    <3>1. SUFFICES ASSUME x + 2 <= y
                   PROVE  FALSE
      BY <1>5, <1>11
    <3>2. (x + 2) * E <= y * E
      BY <1>0, <1>5, <1>11, <3>1, ProductGrows
    <3>3. x * E + 2 * E <= y * E
      BY <1>0, <1>5, <3>2
    <3> DEFINE xE == x * E
               yE == y * E
    <3>4. xE \in Int /\ yE \in Int /\ yE - xE < 2 * E /\ xE + 2 * E <= yE
      BY <1>6, <1>11, <1>12, <3>3
    <3> HIDE DEF xE, yE
    <3> QED BY <1>0, <3>4
  <2>2. x - y < 2
    <3>1. SUFFICES ASSUME y + 2 <= x
                   PROVE  FALSE
      BY <1>5, <1>11
    <3>2. (y + 2) * E <= x * E
      BY <1>0, <1>5, <1>11, <3>1, ProductGrows
    <3>3. y * E + 2 * E <= x * E
      BY <1>0, <1>11, <3>2
    <3> DEFINE xE == x * E
               yE == y * E
    <3>4. xE \in Int /\ yE \in Int /\ xE - yE < 2 * E /\ yE + 2 * E <= xE
      BY <1>6, <1>11, <1>12, <3>3
    <3> HIDE DEF xE, yE
    <3> QED BY <1>0, <3>4
  <2> QED BY <1>5, <1>11, <2>1, <2>2
<1> DEFINE xE == x * E
           yE == y * E
<1>13. /\ xE \in Int /\ yE \in Int
       /\ 2 * PD <= 2 * xE + D /\ 2 * xE + D < 2 * PD + 2 * D
       /\ 2 * yE <= 20 * RD + E /\ 20 * RD + E < 2 * yE + 2 * E
  BY <1>6, <1>11
\* The coordinate is not clamped.
<1>14. CASE q \in 0..U
  <2>1. c * L = Q
    BY <1>0, <1>1, <1>14 DEF Larger, Smaller
  <2>2. -11 <= 10 * r - pc /\ 10 * r - pc <= 11
    <3> DEFINE m == (pc - S) - w
    <3>1. m \in Int
      BY <1>6, <1>9
    <3>2. U * m = (pc - S) * U - U * w
      BY <1>0, <1>6, <1>9
    <3> DEFINE um == U * m
    <3>3. um \in Int /\ 2 * um < 12 * U /\ -(12 * U) < 2 * um
      <4> DEFINE t == (pc - S) * U
                 uw == U * w
      <4>1. /\ t \in Int /\ uw \in Int /\ um = t - uw /\ uw <= Q /\ Q < uw + U
            /\ 2 * Q <= 2 * t + L /\ 2 * t + L < 2 * Q + 2 * L
        BY <1>7, <1>9, <2>1, <3>2
      <4> HIDE DEF t, uw, Q, um
      <4> QED BY <1>0, <1>7, <4>1
    <3>4. m < 6 /\ -6 < m
      <4>1. SUFFICES ASSUME 6 <= m \/ m <= -6
                     PROVE  FALSE
        BY <3>1
      <4>2. 6 * U <= m * U \/ m * U <= (-6) * U
        BY <1>0, <3>1, <4>1, ProductGrows
      <4>3. um = m * U
        BY <1>0, <3>1
      <4> DEFINE mu == m * U
      <4>4. 6 * U <= mu \/ mu <= -(6 * U)
        BY <1>0, <4>2
      <4> HIDE DEF um, m, mu
      <4>5. um = mu
        BY <4>3 DEF mu
      <4> QED BY <1>0, <3>3, <4>4, <4>5
    <3> QED BY <1>6, <1>9, <1>10, <3>1, <3>4
  <2>3. 10 * RD - PD <= 11 * D /\ -(11 * D) <= 10 * RD - PD
    <3>1. (10 * r - pc) * D = 10 * RD - PD
      BY <1>0, <1>6, <1>10
    <3>2. 10 * r - pc \in Int
      BY <1>6, <1>10
    <3>3. (10 * r - pc) * D <= 11 * D /\ (-11) * D <= (10 * r - pc) * D
      BY <1>0, <2>2, <3>2, ProductGrows
    <3> QED BY <1>0, <3>1, <3>3
  <2> HIDE DEF RD, PD, xE, yE
  <2>4. yE - xE < 2 * E /\ xE - yE < 2 * E
    BY <1>0, <1>6, <1>11, <1>13, <2>3
  <2> QED BY <1>5, <1>8, <1>12, <2>4 DEF xE, yE
\* It is clamped on the left, or above.
<1>15. CASE q < 0
  <2>1. c = 0
    BY <1>0, <1>1, <1>7, <1>15 DEF Larger, Smaller
  <2>2. w = 0
    BY <1>0, <2>1 DEF w
  <2>3. pc <= S
    <3>1. Q <= -L
      <4>1. q * L <= (-1) * L
        BY <1>0, <1>7, <1>15, ProductGrows
      <4> QED BY <1>0, <4>1
    <3>2. SUFFICES ASSUME S + 1 <= pc
                   PROVE  FALSE
      BY <1>6
    <3>3. 1 * U <= (pc - S) * U
      BY <1>0, <1>6, <3>2, ProductGrows
    <3> DEFINE t == (pc - S) * U
    <3>4. t \in Int /\ 2 * t + L < 2 * Q + 2 * L /\ U <= t
      BY <1>0, <1>7, <3>3
    <3> HIDE DEF Q, t
    <3> QED BY <1>0, <1>7, <3>1, <3>4
  <2>4. PD <= SD
    BY <1>0, <1>6, <2>3, ProductGrows
  <2>5. 10 * RD - SD <= 5 * D /\ -(5 * D) <= 10 * RD - SD
    <3>1. -5 <= 10 * r - S /\ 10 * r - S <= 5 /\ 10 * r - S \in Int
      BY <1>10, <2>2
    <3>2. (10 * r - S) * D = 10 * RD - SD
      BY <1>0, <1>10
    <3>3. (10 * r - S) * D <= 5 * D /\ (-5) * D <= (10 * r - S) * D
      BY <1>0, <3>1, ProductGrows
    <3> QED BY <1>0, <3>2, <3>3
  <2>6. lo * E <= xE
    BY <1>0, <1>3, <1>5, ProductGrows
  <2> DEFINE loE == lo * E
  <2>7. loE \in Int /\ loE <= xE /\ 2 * SD + E < 2 * loE + 2 * E
    BY <1>3, <2>6
  <2> HIDE DEF RD, PD, SD, xE, yE, loE
  <2>8. yE - xE < 2 * E /\ xE - yE < 2 * E
    BY <1>0, <1>2, <1>6, <1>11, <1>13, <2>4, <2>5, <2>7
  <2> QED BY <1>5, <1>8, <1>12, <2>8 DEF xE, yE
\* It is clamped on the right, or below.
<1>16. CASE q > U
  <2>1. c = U
    BY <1>0, <1>1, <1>7, <1>16 DEF Larger, Smaller
  <2>2. w = L
    BY <1>0, <2>1 DEF w
  <2>3. pc >= S + L
    <3>1. Q >= U * L + L
      <4>1. (U + 1) * L <= q * L
        BY <1>0, <1>7, <1>16, ProductGrows
      <4> QED BY <1>0, <4>1
    <3>2. SUFFICES ASSUME pc - S <= L
                   PROVE  pc >= S + L
      BY <1>0, <1>6
    <3>3. (pc - S) * U <= L * U
      BY <1>0, <1>6, <3>2, ProductGrows
    <3> DEFINE t == (pc - S) * U
               lu == L * U
    <3>4. t \in Int /\ lu \in Int /\ 2 * Q <= 2 * t + L /\ t <= lu /\ Q >= lu + L
      BY <1>0, <1>7, <3>1, <3>3
    <3> HIDE DEF Q, t, lu
    <3> QED BY <1>0, <1>7, <3>4
  <2>4. PD >= SD + LD
    <3>1. (S + L) * D <= pc * D
      BY <1>0, <1>6, <2>3, ProductGrows
    <3> QED BY <1>2, <3>1
  <2>5. 10 * RD - (SD + LD) <= 5 * D /\ -(5 * D) <= 10 * RD - (SD + LD)
    <3>1. /\ -5 <= 10 * r - (S + L) /\ 10 * r - (S + L) <= 5
          /\ 10 * r - (S + L) \in Int
      BY <1>0, <1>10, <2>2
    <3>2. (10 * r - (S + L)) * D = 10 * RD - (SD + LD)
      BY <1>0, <1>10
    <3>3. /\ (10 * r - (S + L)) * D <= 5 * D
          /\ (-5) * D <= (10 * r - (S + L)) * D
      BY <1>0, <3>1, ProductGrows
    <3> QED BY <1>0, <3>2, <3>3
  <2>6. xE <= hi * E
    BY <1>0, <1>4, <1>5, ProductGrows
  <2> DEFINE hiE == hi * E
  <2>7. hiE \in Int /\ xE <= hiE /\ 2 * hiE <= 2 * (SD + LD) + E
    BY <1>4, <2>6
  <2> HIDE DEF RD, PD, SD, LD, xE, yE, hiE
  <2>8. yE - xE < 2 * E /\ xE - yE < 2 * E
    BY <1>0, <1>2, <1>6, <1>11, <1>13, <2>4, <2>5, <2>7
  <2> QED BY <1>5, <1>8, <1>12, <2>8 DEF xE, yE
<1>17. q < 0 \/ q \in 0..U \/ q > U
  BY <1>0, <1>7
<1> QED BY <1>5, <1>8, <1>14, <1>15, <1>16, <1>17, Zenon

\* The layout on a canvas of size dm, with icons of size sz and container zc
\* zoomed: the definitions of LayoutGeometry, for any view.
IconPcIn(dm, sz, a) ==
  IF dm[a] > dm[3 - a] THEN (sz * Pc * dm[3 - a]) \div dm[a] ELSE sz * Pc

ReducedIn(dm, sz) ==
  LET x[i \in 0..Len(Columns)] ==
        IF i = 0 THEN -(IconPcIn(dm, sz, 1) \div 2) ELSE x[i - 1] + Columns[i][2] * Pc
  IN x

AfterZoomedIn(zc, i) == \E j \in 1..i : Columns[j][1] = zc

LeftIn(dm, sz, zc, i) ==
  CASE zc = NoContainer   -> ReducedIn(dm, sz)[i - 1] + IconPcIn(dm, sz, 1)
    [] zc = Columns[i][1] -> IconPcIn(dm, sz, 1) \div 2
    [] OTHER              -> IF AfterZoomedIn(zc, i) THEN 100 * Pc ELSE 0

WidthIn(dm, sz, zc, i) ==
  CASE zc = NoContainer   -> Columns[i][2] * Pc - IconPcIn(dm, sz, 1)
    [] zc = Columns[i][1] -> 100 * Pc - IconPcIn(dm, sz, 1)
    [] OTHER              -> 0

StartIn(dm, sz, zc, i, a) ==
  IF a = 1 THEN LeftIn(dm, sz, zc, i) ELSE IconPcIn(dm, sz, 2) \div 2

LengthIn(dm, sz, zc, i, a) ==
  IF a = 1 THEN WidthIn(dm, sz, zc, i)
  ELSE 100 * Pc - IconPcIn(dm, sz, 2) - IconPcIn(dm, sz, 2) \div 2

\* In the current view they are what the module computes.
LEMMA LayoutNow ==
  ASSUME NEW i, NEW a
  PROVE  /\ Start(i, a) = StartIn(dimensions, iconSize, zoomedContainer, i, a)
         /\ Length(i, a) = LengthIn(dimensions, iconSize, zoomedContainer, i, a)
<1>1. \A b : iconPc(b) = IconPcIn(dimensions, iconSize, b)
  BY Zenon DEF iconPc, IconPcIn
<1>2. ReducedX = ReducedIn(dimensions, iconSize)
  BY <1>1, Zenon DEF ReducedX, ReducedIn
<1>3. ColumnLeft(i) = ReducedIn(dimensions, iconSize)[i - 1] + IconPcIn(dimensions, iconSize, 1)
  BY <1>1, <1>2, Zenon DEF ColumnLeft
<1>4. AfterZoomed(i) <=> AfterZoomedIn(zoomedContainer, i)
  BY Zenon DEF AfterZoomed, AfterZoomedIn
<1>5. RangeLeft(i) = LeftIn(dimensions, iconSize, zoomedContainer, i)
  BY <1>1, <1>3, <1>4, Zenon DEF RangeLeft, LeftIn
<1>6. RangeWidth(i) = WidthIn(dimensions, iconSize, zoomedContainer, i)
  BY <1>1, Zenon DEF RangeWidth, WidthIn
<1> QED BY <1>1, <1>5, <1>6, Zenon DEF Start, StartIn, Length, LengthIn

\* What an icon takes of the canvas is at most what it takes of its shorter side.
LEMMA ShareSmaller ==
  ASSUME NEW t \in Nat, NEW h \in Nat, NEW w \in Nat \ {0}, h <= w
  PROVE  (t * h) \div w \in 0..t
<1> DEFINE n == t * h
           m == w * t
<1>1. n \in Nat /\ m \in Nat /\ n <= m
  <2>1. h * t <= w * t
    BY ProductGrows
  <2> QED BY <2>1
<1>2. (n \div w) \in Int /\ w * (n \div w) <= n /\ n < w * (n \div w) + w
  <2> HIDE DEF n
  <2> QED BY <1>1
<1> DEFINE q == n \div w
<1>3. q \in Int /\ w * q <= n /\ n < w * q + w
  BY <1>2
<1> HIDE DEF q
<1>4. q >= 0
  <2>1. SUFFICES ASSUME q <= -1
                 PROVE  FALSE
    BY <1>3
  <2>2. q * w <= (-1) * w
    BY <1>3, <2>1, ProductGrows
  <2>3. w * q + w <= 0
    BY <1>3, <2>2
  <2> HIDE DEF n
  <2> QED BY <1>1, <1>3, <2>3
<1>5. q <= t
  <2>1. SUFFICES ASSUME t + 1 <= q
                 PROVE  FALSE
    BY <1>3
  <2>2. (t + 1) * w <= q * w
    BY <1>3, <2>1, ProductGrows
  <2>3. m + w <= w * q
    BY <1>3, <2>2
  <2> HIDE DEF n, m
  <2> QED BY <1>1, <1>3, <2>3
<1> QED BY <1>3, <1>4, <1>5 DEF q

LEMMA IconPcType ==
  ASSUME NEW dm \in (1..Widest) \X (1..Widest), NEW sz \in 1..12, NEW a \in 1..2
  PROVE  IconPcIn(dm, sz, a) \in 0..(sz * Pc)
<1>1. /\ Widest \in Nat /\ Pc \in Nat \ {0} /\ sz * Pc \in Nat /\ 3 - a \in 1..2
  BY SMT DEF Widest, Pc
<1>2. dm[a] \in Nat \ {0} /\ dm[3 - a] \in Nat \ {0}
  BY <1>1
<1> DEFINE t == sz * Pc
<1>3. t \in Nat
  BY <1>1
<1> HIDE DEF t
<1>4. IconPcIn(dm, sz, a) = IF dm[a] > dm[3 - a] THEN (t * dm[3 - a]) \div dm[a] ELSE t
  BY DEF IconPcIn, t
<1>5. CASE dm[a] > dm[3 - a]
  BY <1>2, <1>3, <1>4, <1>5, ShareSmaller DEF t
<1>6. CASE ~(dm[a] > dm[3 - a])
  BY <1>3, <1>4, <1>6 DEF t
<1> QED BY <1>5, <1>6

\* The sums of the widths of the containers exist, and are integers.
ReducedSteps(f, b, n) ==
  f = [i \in 0..n |-> IF i = 0 THEN b ELSE f[i - 1] + Columns[i][2] * Pc]

LEMMA ReducedStepsExist ==
  ASSUME NEW N \in Nat, NEW b
  PROVE  \E f : ReducedSteps(f, b, N)
<1> DEFINE T == {n \in Nat : ~\E f : ReducedSteps(f, b, n)}
<1> SUFFICES ASSUME T # {}
             PROVE  FALSE
  OBVIOUS
<1>1. PICK m \in T : \A y \in T : ~(y < m)
  BY LeastNat
<1>2. m \in Nat /\ ~\E f : ReducedSteps(f, b, m)
  BY <1>1
<1>3. CASE m = 0
  <2> DEFINE f == [i \in 0..0 |-> b]
  <2>1. ReducedSteps(f, b, 0)
    BY DEF ReducedSteps
  <2> QED BY <1>2, <1>3, <2>1
<1>4. CASE m # 0
  <2>1. m - 1 \in Nat /\ m - 1 < m
    BY <1>2, <1>4
  <2>2. PICK g : ReducedSteps(g, b, m - 1)
    BY <1>1, <2>1
  <2> DEFINE last == g[m - 1] + Columns[m][2] * Pc
             f == [i \in 0..m |-> IF i = m THEN last ELSE g[i]]
  <2>3. \A i \in 0..(m - 1) : f[i] = g[i]
    BY <1>2, <1>4
  <2>4. f[m] = last
    BY <1>2
  <2>5. ASSUME NEW i \in 0..m
        PROVE  f[i] = IF i = 0 THEN b ELSE f[i - 1] + Columns[i][2] * Pc
    <3>1. CASE i = m
      <4>1. i - 1 \in 0..(m - 1) /\ i # 0
        BY <1>2, <1>4, <3>1
      <4>2. f[i - 1] = g[i - 1]
        BY <2>3, <4>1
      <4> HIDE DEF f
      <4> QED BY <2>4, <3>1, <4>1, <4>2
    <3>2. CASE i # m
      <4>1. i \in 0..(m - 1) /\ (i # 0 => i - 1 \in 0..(m - 1))
        BY <1>2, <3>2
      <4>2. f[i] = g[i] /\ (i # 0 => f[i - 1] = g[i - 1])
        BY <2>3, <4>1
      <4> HIDE DEF f
      <4>3. g[i] = IF i = 0 THEN b ELSE g[i - 1] + Columns[i][2] * Pc
        BY <2>2, <4>1 DEF ReducedSteps
      <4> QED BY <4>1, <4>2, <4>3
    <3> QED BY <3>1, <3>2
  <2>6. f = [i \in 0..m |-> f[i]]
    OBVIOUS
  <2>7. ReducedSteps(f, b, m)
    <3> HIDE DEF f
    <3> QED BY <2>5, <2>6 DEF ReducedSteps
  <2> HIDE DEF f
  <2> QED BY <1>2, <2>7
<1> QED BY <1>3, <1>4

LEMMA ReducedType ==
  ASSUME NEW dm \in (1..Widest) \X (1..Widest), NEW sz \in 1..12,
         NEW i \in 0..Len(Columns)
  PROVE  ReducedIn(dm, sz)[i] \in Int
<1> DEFINE N == Len(Columns)
           b == -(IconPcIn(dm, sz, 1) \div 2)
           f == CHOOSE g : ReducedSteps(g, b, N)
<1>1. /\ N \in Nat /\ DOMAIN Columns = 1..N /\ Pc \in Nat
      /\ \A j \in 1..N : Columns[j][2] * Pc \in Int
  <2>1. N \in Nat /\ DOMAIN Columns = 1..N /\ Pc \in Nat
    BY LayoutAssumption, LenProperties, SMT DEF Pc
  <2>2. \A j \in 1..N : Columns[j] \in Containers \X (11..100)
    BY <2>1, LayoutAssumption, ElementOfSeq
  <2>3. \A j \in 1..N : Columns[j][2] \in 11..100
    BY <2>2
  <2>4. ASSUME NEW j \in 1..N
        PROVE  Columns[j][2] * Pc \in Int
    <3> DEFINE cw == Columns[j][2]
    <3>1. cw \in Int
      <4>1. cw \in 11..100
        BY <2>3, Zenon
      <4> HIDE DEF cw
      <4> QED BY <4>1
    <3> HIDE DEF cw
    <3>2. cw * Pc \in Int
      BY <2>1, <3>1
    <3> QED BY <3>2 DEF cw
  <2> QED BY <2>1, <2>4
<1>2. b \in Int
  <2>1. sz * Pc \in Int
    BY <1>1
  <2>2. IconPcIn(dm, sz, 1) \in 0..(sz * Pc)
    <3>1. 1 \in 1..2
      OBVIOUS
    <3> QED BY <3>1, IconPcType, Zenon
  <2> QED BY <2>1, <2>2
<1>3. ReducedSteps(f, b, N)
  BY <1>1, ReducedStepsExist
<1>4. ReducedIn(dm, sz) = f
  BY Zenon DEF ReducedIn, ReducedSteps
<1> HIDE DEF f, N, b
<1>5. f[0] = b /\ \A j \in 1..N : f[j] = f[j - 1] + Columns[j][2] * Pc
  <2>1. ASSUME NEW j \in 0..N
        PROVE  f[j] = IF j = 0 THEN b ELSE f[j - 1] + Columns[j][2] * Pc
    BY <1>3 DEF ReducedSteps
  <2>2. 0 \in 0..N /\ \A j \in 1..N : j \in 0..N /\ j # 0
    BY <1>1
  <2> QED BY <2>1, <2>2
<1> DEFINE T == {n \in 0..N : f[n] \notin Int}
<1>6. T = {}
  <2> SUFFICES ASSUME T # {}
               PROVE  FALSE
    OBVIOUS
  <2>0. T \in SUBSET Nat
    BY <1>1
  <2>1. PICK m \in T : \A y \in T : ~(y < m)
    <3> HIDE DEF T
    <3> QED BY <2>0, LeastNat
  <2>2. m \in 0..N /\ f[m] \notin Int
    BY <2>1
  <2>3. m # 0
    BY <1>2, <1>5, <2>2
  <2>4. m - 1 \in 0..N /\ m - 1 < m /\ m \in 1..N
    BY <1>1, <2>2, <2>3
  <2>5. f[m - 1] \in Int
    BY <2>1, <2>4
  <2>6. f[m] = f[m - 1] + Columns[m][2] * Pc /\ Columns[m][2] * Pc \in Int
    BY <1>1, <1>5, <2>4
  <2> QED BY <2>2, <2>5, <2>6
<1>7. f[i] \in Int
  BY <1>6 DEF N
<1> QED BY <1>4, <1>7

\* The range of an icon that is shown is an interval of the canvas.
LEMMA RangeType ==
  ASSUME NEW dm \in (1..Widest) \X (1..Widest), NEW sz \in 1..12, NEW zc,
         NEW i \in DOMAIN Columns, sz < Columns[i][2],
         zc = NoContainer \/ zc = Columns[i][1], NEW a \in 1..2
  PROVE  /\ StartIn(dm, sz, zc, i, a) \in Int
         /\ LengthIn(dm, sz, zc, i, a) \in 1..Whole
<1> DEFINE u == IconPcIn(dm, sz, 1)
           v == IconPcIn(dm, sz, 2)
<1>1. i \in 1..Len(Columns) /\ Len(Columns) \in Nat
  BY LayoutAssumption, LenProperties
<1>2. Columns[i] \in Containers \X (11..100)
  BY <1>1, LayoutAssumption, ElementOfSeq
<1>3. Columns[i][2] \in 11..100 /\ Columns[i][1] # NoContainer
  BY <1>2, LayoutAssumption
<1>4. u \in 0..(sz * Pc) /\ v \in 0..(sz * Pc)
  BY IconPcType
<1>5. i - 1 \in 0..Len(Columns)
  BY <1>1
<1>6. ReducedIn(dm, sz)[i - 1] \in Int
  BY <1>5, ReducedType
<1> HIDE DEF u, v
<1> DEFINE col == Columns[i][2]
           red == ReducedIn(dm, sz)[i - 1]
<1>7. /\ StartIn(dm, sz, zc, i, 1) = IF zc = NoContainer THEN red + u ELSE u \div 2
      /\ LengthIn(dm, sz, zc, i, 1) = IF zc = NoContainer THEN col * Pc - u ELSE 100 * Pc - u
      /\ StartIn(dm, sz, zc, i, 2) = v \div 2
      /\ LengthIn(dm, sz, zc, i, 2) = 100 * Pc - v - v \div 2
  <2>1. /\ LeftIn(dm, sz, zc, i) = IF zc = NoContainer THEN red + u ELSE u \div 2
        /\ WidthIn(dm, sz, zc, i) = IF zc = NoContainer THEN col * Pc - u ELSE 100 * Pc - u
    <3>1. CASE zc = NoContainer
      BY <1>3, <3>1, Zenon DEF LeftIn, WidthIn, u
    <3>2. CASE zc # NoContainer
      BY <1>3, <3>2, Zenon DEF LeftIn, WidthIn, u
    <3> QED BY <3>1, <3>2
  <2> QED BY <2>1 DEF StartIn, LengthIn, v
<1> HIDE DEF col, red
<1>8. col \in 11..100 /\ sz < col /\ red \in Int
  BY <1>3, <1>6 DEF col, red
<1>9. u \in Nat /\ v \in Nat /\ u <= sz * 1000 /\ v <= sz * 1000
  BY <1>4, SMT DEF Pc
<1>10. /\ u \div 2 \in Int /\ v \div 2 \in Int /\ 2 * (v \div 2) <= v /\ v \div 2 >= 0
  BY <1>9
<1>11. /\ col * Pc - u \in 1..Whole /\ 100 * Pc - u \in 1..Whole
       /\ 100 * Pc - v - v \div 2 \in 1..Whole
  <2> DEFINE half == v \div 2
  <2>1. half \in Int /\ 2 * half <= v /\ half >= 0 /\ v \in Nat
    BY <1>9, <1>10
  <2> HIDE DEF half
  <2>2. v - 0 <= 12000 /\ u <= 12000
    BY <1>9, SMT
  <2>3. u < col * 1000 /\ col * 1000 <= 100000
    BY <1>8, <1>9, SMT
  <2> DEFINE cw == col * Pc
             e == 100 * Pc
  <2>7. cw \in Int /\ e \in Int /\ cw = col * 1000 /\ e = 100000 /\ Whole = e
    BY <1>8, SMT DEF Pc, Whole
  <2> HIDE DEF cw, e
  <2> HIDE DEF col
  <2>4. cw - u \in Int /\ 1 <= cw - u /\ cw - u <= e
    BY <1>8, <1>9, <2>3, <2>7, SMT
  <2>5. e - u \in Int /\ 1 <= e - u /\ e - u <= e
    BY <1>9, <2>2, <2>7, SMT
  <2>6. e - v - half \in Int /\ 1 <= e - v - half /\ e - v - half <= e
    BY <2>1, <2>2, <2>7, SMT
  <2> QED BY <2>4, <2>5, <2>6, <2>7 DEF half, cw, e
<1>12. a = 1 \/ a = 2
  OBVIOUS
<1> QED BY <1>7, <1>8, <1>9, <1>10, <1>11, <1>12

\* Where the icon of coordinate c is drawn, in container i.
DrawnAt(dm, sz, zc, i, a, c) ==
  PxOfCoord(StartIn(dm, sz, zc, i, a), LengthIn(dm, sz, zc, i, a), dm[a], c)

LEMMA DrawnNow ==
  ASSUME NEW d \in Icons, NEW a \in 1..2
  PROVE  IconPx(d)[a] = DrawnAt(dimensions, iconSize, zoomedContainer,
                                IndexOf(Hypervisor[d]), a, Coord(d, a))
<1> DEFINE i == IndexOf(Hypervisor[d])
           at(b) == ToPx(IconPc(d, b), b)
<1>1. IconPx(d)[a] = at(a)
  BY DEF IconPx
<1>2. IconPc(d, a) = 10 * Rounded(Start(i, a) + (Coord(d, a) * Length(i, a)) \div Unit, 10)
  BY Zenon DEF IconPc
<1>3. at(a) = PxOf(IconPc(d, a), dimensions[a])
  BY Zenon DEF ToPx, PxOf, Whole
<1>4. at(a) = PxOfCoord(Start(i, a), Length(i, a), dimensions[a], Coord(d, a))
  BY <1>2, <1>3, Zenon DEF PxOfCoord
<1> QED BY <1>1, <1>4, LayoutNow, Zenon DEF DrawnAt

\* Types, and icons narrower than the containers.
SizesInv ==
  /\ LayoutTypeOK
  /\ iconSize \in (0..10) \cup IconSizes

LEMMA IndexType ==
  ASSUME NEW d \in Icons
  PROVE  /\ IndexOf(Hypervisor[d]) \in DOMAIN Columns
         /\ Columns[IndexOf(Hypervisor[d])][1] = Hypervisor[d]
<1>1. Hypervisor[d] \in Containers
  BY LayoutAssumption
<1>2. \E i \in DOMAIN Columns : Columns[i][1] = Hypervisor[d]
  BY <1>1 DEF Containers
<1> QED BY <1>2, Zenon DEF IndexOf

LEMMA ColumnWide ==
  ASSUME SizesInv, iconSize > 0, NEW i \in DOMAIN Columns
  PROVE  iconSize \in 1..12 /\ iconSize < Columns[i][2]
<1>1. iconSize \in 1..12
  BY LayoutAssumption DEF SizesInv, LayoutTypeOK
<1>2. i \in 1..Len(Columns)
  BY LayoutAssumption, LenProperties
<1>3. Columns[i] \in Containers \X (11..100)
  BY <1>2, LayoutAssumption, ElementOfSeq
<1>4. Columns[i][2] \in 11..100
  BY <1>3
<1>5. CASE iconSize \in IconSizes
  BY <1>1, <1>4, <1>5, LayoutAssumption
<1>6. CASE iconSize \in 0..10
  BY <1>1, <1>4, <1>6
<1> QED BY <1>1, <1>5, <1>6 DEF SizesInv

\* What moveIcon sends for the icon: coordinates that are drawn where it was dropped.
LEMMA DropStores ==
  ASSUME SizesInv, NEW d \in Icons, NEW p \in Places, Drawn, ~isHidden(d),
         NEW a \in 1..2
  PROVE  LET i == IndexOf(Hypervisor[d])
         IN  /\ pxToPc(p, i)[a] \in 0..Unit
             /\ restrictPos(p, i)[a] \in Int
             /\ DrawnAt(dimensions, iconSize, zoomedContainer, i, a, pxToPc(p, i)[a])
                  - restrictPos(p, i)[a] \in -1..1
<1> DEFINE i == IndexOf(Hypervisor[d])
           S == StartIn(dimensions, iconSize, zoomedContainer, i, a)
           L == LengthIn(dimensions, iconSize, zoomedContainer, i, a)
           D == dimensions[a]
           x == restrictPos(p, i)[a]
           c == pxToPc(p, i)[a]
<1>1. dimensions \in Sizes /\ iconSize > 0
  BY DEF Drawn, SizesInv, LayoutTypeOK
<1>2. dimensions \in (1..Widest) \X (1..Widest) /\ p \in Int \X Int
  BY <1>1, LayoutAssumption
<1>3. i \in DOMAIN Columns /\ Columns[i][1] = Hypervisor[d]
  BY IndexType
<1>4. iconSize \in 1..12 /\ iconSize < Columns[i][2]
  BY <1>1, <1>3, ColumnWide
<1>5. zoomedContainer = NoContainer \/ zoomedContainer = Columns[i][1]
  BY <1>3, Zenon DEF isHidden, Zoomed
<1>6. S \in Int /\ L \in 1..Whole
  BY <1>2, <1>3, <1>4, <1>5, RangeType
<1>7. D \in 1..Widest /\ p[a] \in Int
  BY <1>2
<1>8. x = PxWithin(S, L, D, p[a])
  <2>1. x = Larger(ToPx(Start(i, a), a), Smaller(ToPx(Start(i, a) + Length(i, a), a), p[a]))
    BY Zenon DEF restrictPos
  <2>2. x = Larger(PxOf(S, D), Smaller(PxOf(S + L, D), p[a]))
    BY <2>1, LayoutNow, Zenon DEF ToPx, PxOf, Whole
  <2> QED BY <2>2, Zenon DEF PxWithin
<1> HIDE DEF S, L, D, x, c
<1>9. /\ x \in Int /\ CoordOf(S, L, D, x) \in 0..Unit
      /\ PxOfCoord(S, L, D, CoordOf(S, L, D, x)) - x \in -1..1
  BY <1>6, <1>7, <1>8, PixelReturns
<1>10. c = CoordOf(S, L, D, x)
  <2>1. c = Larger(0, Smaller(Unit,
                Rounded((Rounded(x * 100 * Pc, D) - Start(i, a)) * Unit, Length(i, a))))
    BY Zenon DEF pxToPc, c, x, D
  <2>2. x * 100 * Pc = x * Whole
    BY <1>9, SMT DEF Pc, Whole
  <2> QED BY <2>1, <2>2, LayoutNow, Zenon DEF CoordOf, S, L
<1>11. DrawnAt(dimensions, iconSize, zoomedContainer, i, a, c) = PxOfCoord(S, L, D, c)
  BY Zenon DEF DrawnAt, S, L, D
<1>12. c \in 0..Unit /\ x \in Int
       /\ DrawnAt(dimensions, iconSize, zoomedContainer, i, a, c) - x \in -1..1
  BY <1>9, <1>10, <1>11, Zenon
<1> HIDE DEF i
<1> QED BY <1>12, Zenon DEF c, x, i

\* The coordinates that are set in a view.
NodeIn(zc, d) == IF zc = Hypervisor[d] THEN "zoomed/coord" ELSE "coord"

\* The values c of the coordinates of d, stored in cs or on their way in ws, are
\* those that are drawn where the icon was dropped.
DropKept(d, v, at, c, cs, ws) ==
  /\ \A a \in 1..2 :
       /\ DrawnAt(v[1], v[2], v[3], IndexOf(Hypervisor[d]), a, c[a]) - at[a] \in -1..1
       /\ \/ <<d, NodeIn(v[3], d), a, c[a]>> \in ws
          \/ cs[d][NodeIn(v[3], d)][a] = c[a]
  /\ \A w \in ws : w[1] = d => w = <<d, NodeIn(v[3], d), w[3], c[w[3]]>>

DropsInv ==
  \A d \in Icons :
    \/ dropped[d] = NotDropped
    \/ \E c \in [1..2 -> 0..Unit] : DropKept(d, dropped[d].view, dropped[d].at, c, coords, writes)

LayoutInv == SizesInv /\ DropsInv

LEMMA LayoutTypeInit ==
  ASSUME LayoutInit
  PROVE  SizesInv
<1>1. /\ dimensions \in Sizes \cup {NoSize} /\ arrived \in BOOLEAN
      /\ zoomedContainer \in Containers \cup {NoContainer}
      /\ {backgroundOffset, contextOffset} \subseteq Offsets
      /\ coords \in [Icons -> [Kinds -> [1..2 -> NoCoord..Unit]]]
      /\ writes = {} /\ DOMAIN dropped = Icons
  BY LayoutAssumption DEF LayoutInit
<1>2. iconSize \in 0..12 /\ iconSize \in (0..10) \cup IconSizes
  BY LayoutAssumption DEF LayoutInit
<1>3. visibleUnderlays \subseteq Containers
  <2>1. Underlay \subseteq Icons /\ \A d \in Icons : Hypervisor[d] \in Containers
    BY LayoutAssumption
  <2> QED BY <2>1 DEF LayoutInit
<1>4. drops \in 0..MaxDrops
  BY LayoutAssumption DEF LayoutInit
<1> QED BY <1>1, <1>2, <1>3, <1>4 DEF SizesInv, LayoutTypeOK

LEMMA LayoutTypeStep ==
  ASSUME SizesInv, [LayoutNext]_layoutVars
  PROVE  SizesInv'
<1>0. contextOffset' \in Offsets \/ ~Rerendered \/ backgroundOffset' \notin Offsets
  BY DEF Rerendered, SizesInv, LayoutTypeOK
<1>1. ASSUME ReceiveLayouts
      PROVE  SizesInv'
  BY <1>0, <1>1 DEF ReceiveLayouts, SizesInv, LayoutTypeOK
<1>2. ASSUME NEW s \in Sizes, resize(s)
      PROVE  SizesInv'
  <2>1. s \in (1..Widest) \X (1..Widest)
    BY LayoutAssumption
  <2>2. s[1] \in Nat \ {0} /\ s[2] \in Nat \ {0}
    <3>1. Widest \in Int
      BY SMT DEF Widest
    <3> QED BY <2>1, <3>1
  <2>3. calculateInitialIconSize(s) \in 0..10
    <3> DEFINE m == Smaller(s[1], s[2])
               n == 64 * 100 + m - 1
    <3>1. m \in Nat \ {0}
      BY <2>2 DEF Smaller
    <3> HIDE DEF m
    <3>2. n \in Nat
      BY <3>1
    <3> HIDE DEF n
    <3>3. n \div m \in Nat
      <4>1. n \div m \in Int /\ m * (n \div m) <= n /\ n < m * (n \div m) + m
        BY <3>1, <3>2
      <4> DEFINE q == n \div m
      <4>2. q \in Int /\ n < m * q + m
        BY <4>1
      <4> HIDE DEF q
      <4>3. SUFFICES ASSUME q <= -1
                     PROVE  FALSE
        BY <4>2 DEF q
      <4>4. q * m <= (-1) * m
        BY <3>1, <4>2, <4>3, ProductGrows
      <4> QED BY <3>1, <3>2, <4>2, <4>4
    <3> QED BY <3>3 DEF calculateInitialIconSize, Smaller, m, n
  <2>4. iconSize' \in 0..10 \/ iconSize' = iconSize
    BY <1>2, <2>3 DEF resize
  <2>5. iconSize' \in 0..12 /\ iconSize' \in (0..10) \cup IconSizes
    BY <2>4 DEF SizesInv, LayoutTypeOK
  <2> QED BY <1>0, <1>2, <2>5 DEF resize, SizesInv, LayoutTypeOK
<1>3. ASSUME NEW s \in IconSizes, iconSizeChanged(s)
      PROVE  SizesInv'
  <2>1. s \in 0..12
    BY LayoutAssumption
  <2> QED BY <1>0, <1>3, <2>1 DEF iconSizeChanged, SizesInv, LayoutTypeOK
<1>4. ASSUME NEW c \in Containers, containerZoomToggled(c)
      PROVE  SizesInv'
  BY <1>0, <1>4 DEF containerZoomToggled, SizesInv, LayoutTypeOK
<1>5. ASSUME NEW c \in Containers, underlayToggled(c)
      PROVE  SizesInv'
  BY <1>5 DEF underlayToggled, view, SizesInv, LayoutTypeOK
<1>6. ASSUME NEW o \in Offsets, ReceiveOffset(o)
      PROVE  SizesInv'
  BY <1>6 DEF ReceiveOffset, view, SizesInv, LayoutTypeOK
<1>7. ASSUME NEW d \in Icons, NEW p \in Places, moveIcon(d, p)
      PROVE  SizesInv'
  <2> DEFINE i == IndexOf(Hypervisor[d])
             sent == {<<d, CoordNode(d), a, pxToPc(p, i)[a]>> : a \in 1..2}
  <2>1. /\ Drawn /\ ~isHidden(d) /\ drops < MaxDrops /\ drops' = drops + 1
        /\ writes' = writes \cup sent
        /\ DOMAIN dropped' = DOMAIN dropped
        /\ UNCHANGED <<view, visibleUnderlays, backgroundOffset, contextOffset, coords>>
    BY <1>7 DEF moveIcon
  <2>2. CoordNode(d) \in Kinds
    BY DEF CoordNode, Kinds
  <2>3. \A a \in 1..2 : pxToPc(p, i)[a] \in 0..Unit
    BY <2>1, DropStores
  <2>4. sent \subseteq Icons \X Kinds \X (1..2) \X (0..Unit)
    BY <2>2, <2>3
  <2> HIDE DEF sent
  <2>5. writes' \subseteq Icons \X Kinds \X (1..2) \X (0..Unit)
    BY <2>1, <2>4 DEF SizesInv, LayoutTypeOK
  <2>6. drops' \in 0..MaxDrops
    BY <2>1, LayoutAssumption DEF SizesInv, LayoutTypeOK
  <2> QED BY <2>1, <2>5, <2>6 DEF view, SizesInv, LayoutTypeOK
<1>8. ASSUME NEW w \in writes, ReceiveWrite(w)
      PROVE  SizesInv'
  <2>1. w \in Icons \X Kinds \X (1..2) \X (0..Unit)
    BY DEF SizesInv, LayoutTypeOK
  <2>2. /\ w[1] \in Icons /\ w[2] \in Kinds /\ w[3] \in 1..2 /\ w[4] \in NoCoord..Unit
    BY <2>1, SMT DEF NoCoord, Unit
  <2>3. coords' \in [Icons -> [Kinds -> [1..2 -> NoCoord..Unit]]]
    <3>1. CASE coords' = [coords EXCEPT ![w[1]][w[2]][w[3]] = w[4]]
      BY <2>2, <3>1 DEF SizesInv, LayoutTypeOK
    <3>2. CASE coords' = coords
      BY <3>2 DEF SizesInv, LayoutTypeOK
    <3> QED BY <1>8, <3>1, <3>2 DEF ReceiveWrite
  <2>4. DOMAIN dropped' = DOMAIN dropped
    BY <1>8 DEF ReceiveWrite
  <2>5. writes' \subseteq writes
    BY <1>8 DEF ReceiveWrite
  <2>6. UNCHANGED <<view, visibleUnderlays, backgroundOffset, contextOffset, drops>>
    BY <1>8 DEF ReceiveWrite
  <2> QED BY <2>3, <2>4, <2>5, <2>6 DEF view, SizesInv, LayoutTypeOK
<1>9. CASE UNCHANGED layoutVars
  BY <1>9 DEF layoutVars, view, SizesInv, LayoutTypeOK
<1> QED BY <1>1, <1>2, <1>3, <1>4, <1>5, <1>6, <1>7, <1>8, <1>9 DEF LayoutNext

\* Steps that leave the writes, the coordinates and the drops alone.
LEMMA DropsAlone ==
  ASSUME DropsInv, UNCHANGED <<coords, writes, dropped>>
  PROVE  DropsInv'
BY DEF DropsInv, DropKept

LEMMA DropsMove ==
  ASSUME LayoutInv, NEW d \in Icons, NEW p \in Places, moveIcon(d, p)
  PROVE  DropsInv'
<1> DEFINE i == IndexOf(Hypervisor[d])
           to == [a \in 1..2 |-> pxToPc(p, i)[a]]
           at == restrictPos(p, i)
           new == [view |-> view, at |-> at]
           sent == {<<d, CoordNode(d), a, pxToPc(p, i)[a]>> : a \in 1..2}
<1>1. /\ Drawn /\ ~isHidden(d) /\ coords' = coords
      /\ writes' = writes \cup sent
      /\ dropped' = [dropped EXCEPT ![d] =
           IF \E w \in writes : w[1] = d THEN NotDropped ELSE new]
  BY DEF moveIcon
<1>2. DOMAIN dropped = Icons
  BY DEF LayoutInv, SizesInv, LayoutTypeOK
<1>3. ASSUME NEW e \in Icons, e # d, dropped'[e] # NotDropped
      PROVE  \E c \in [1..2 -> 0..Unit] : DropKept(e, dropped'[e].view, dropped'[e].at, c, coords', writes')
  <2>1. dropped'[e] = dropped[e]
    BY <1>1, <1>2, <1>3
  <2>2. PICK c \in [1..2 -> 0..Unit] : DropKept(e, dropped[e].view, dropped[e].at, c, coords, writes)
    BY <1>3, <2>1 DEF LayoutInv, DropsInv
  <2>3. \A w \in writes' : w[1] = e => w \in writes
    BY <1>1, <1>3
  <2>4. writes \subseteq writes'
    BY <1>1
  <2> HIDE DEF sent, new, to, at, i
  <2>5. DropKept(e, dropped'[e].view, dropped'[e].at, c, coords', writes')
    BY <1>1, <2>1, <2>2, <2>3, <2>4 DEF DropKept
  <2> QED BY <2>5
<1>4. ASSUME dropped'[d] # NotDropped
      PROVE  \E c \in [1..2 -> 0..Unit] : DropKept(d, dropped'[d].view, dropped'[d].at, c, coords', writes')
  <2>1. dropped'[d] = new /\ \A w \in writes : w[1] # d
    BY <1>1, <1>2, <1>4
  <2>2. /\ new.view[1] = dimensions /\ new.view[2] = iconSize
        /\ new.view[3] = zoomedContainer /\ new.at = at
    BY DEF view
  <2>3. NodeIn(zoomedContainer, d) = CoordNode(d)
    BY Zenon DEF NodeIn, CoordNode, Zoomed
  <2>4. \A a \in 1..2 : /\ to[a] \in 0..Unit
                        /\ DrawnAt(dimensions, iconSize, zoomedContainer, i, a, to[a]) - at[a]
                             \in -1..1
    BY <1>1, DropStores DEF LayoutInv
  <2>5. to \in [1..2 -> 0..Unit]
    BY <2>4
  <2>6. \A a \in 1..2 : <<d, CoordNode(d), a, to[a]>> \in writes'
    BY <1>1
  <2>7. \A w \in writes' : w[1] = d => w = <<d, CoordNode(d), w[3], to[w[3]]>>
    BY <1>1, <2>1
  <2> HIDE DEF new, to, at, sent
  <2> DEFINE v == dropped'[d].view
             x == dropped'[d].at
  <2>8. v[1] = dimensions /\ v[2] = iconSize /\ v[3] = zoomedContainer /\ x = at
    BY <2>1, <2>2
  <2> HIDE DEF v, x, i
  <2>9. /\ \A a \in 1..2 :
             /\ DrawnAt(v[1], v[2], v[3], i, a, to[a]) - x[a] \in -1..1
             /\ <<d, NodeIn(v[3], d), a, to[a]>> \in writes'
        /\ \A w \in writes' : w[1] = d => w = <<d, NodeIn(v[3], d), w[3], to[w[3]]>>
    BY <2>3, <2>4, <2>6, <2>7, <2>8, Zenon
  <2>10. DropKept(d, dropped'[d].view, dropped'[d].at, to, coords', writes')
    <3>1. coords' = coords
      BY <1>1
    <3>2. DropKept(d, v, x, to, coords', writes')
      BY <2>9, Zenon DEF DropKept, i
    <3> QED BY <3>2, Zenon DEF v, x
  <2> QED BY <2>5, <2>10
<1> QED BY <1>3, <1>4 DEF DropsInv

LEMMA DropsAnswer ==
  ASSUME LayoutInv, NEW w \in writes, ReceiveWrite(w)
  PROVE  DropsInv'
<1>1. DOMAIN dropped = Icons /\ coords \in [Icons -> [Kinds -> [1..2 -> NoCoord..Unit]]]
  BY DEF LayoutInv, SizesInv, LayoutTypeOK
<1>2. w[1] \in Icons /\ w[2] \in Kinds /\ w[3] \in 1..2
  BY DEF LayoutInv, SizesInv, LayoutTypeOK
<1>3. writes' = writes \ {w}
  BY DEF ReceiveWrite
\* It is stored.
<1>4. CASE coords' = [coords EXCEPT ![w[1]][w[2]][w[3]] = w[4]] /\ dropped' = dropped
  <2> SUFFICES ASSUME NEW d \in Icons, dropped[d] # NotDropped
               PROVE  \E c \in [1..2 -> 0..Unit] : DropKept(d, dropped'[d].view, dropped'[d].at, c, coords', writes')
    BY <1>4 DEF DropsInv
  <2> DEFINE v == dropped[d].view
             x == dropped[d].at
             k == NodeIn(v[3], d)
  <2>1. PICK c \in [1..2 -> 0..Unit] : DropKept(d, v, x, c, coords, writes)
    BY DEF LayoutInv, DropsInv
  <2>2. k \in Kinds
    BY DEF NodeIn, Kinds
  <2>3. dropped'[d].view = v /\ dropped'[d].at = x
    BY <1>4
  <2>4. w[1] = d => w = <<d, k, w[3], c[w[3]]>>
    BY <2>1 DEF DropKept
  <2>5. ASSUME NEW a \in 1..2
        PROVE  <<d, k, a, c[a]>> \in writes' \/ coords'[d][k][a] = c[a]
    <3>1. CASE w = <<d, k, a, c[a]>>
      <4>1. w[1] = d /\ w[2] = k /\ w[3] = a /\ w[4] = c[a]
        BY <3>1
      <4> HIDE DEF k
      <4> QED BY <1>1, <1>2, <1>4, <2>2, <4>1
    <3>2. CASE w # <<d, k, a, c[a]>>
      <4>1. coords'[d][k][a] = coords[d][k][a] \/ (w[1] = d /\ w[2] = k /\ w[3] = a)
        <5> HIDE DEF k
        <5> QED BY <1>1, <1>2, <1>4, <2>2
      <4>2. coords'[d][k][a] = coords[d][k][a]
        BY <2>4, <3>2, <4>1, Zenon
      <4>3. <<d, k, a, c[a]>> \in writes \/ coords[d][k][a] = c[a]
        BY <2>1, Zenon DEF DropKept
      <4> HIDE DEF k
      <4> QED BY <1>3, <3>2, <4>2, <4>3
    <3> QED BY <3>1, <3>2
  <2>6. \A u \in writes' : u[1] = d => u = <<d, k, u[3], c[u[3]]>>
    BY <1>3, <2>1 DEF DropKept
  <2>7. \A a \in 1..2 : DrawnAt(v[1], v[2], v[3], IndexOf(Hypervisor[d]), a, c[a]) - x[a] \in -1..1
    BY <2>1 DEF DropKept
  <2>8. DropKept(d, dropped'[d].view, dropped'[d].at, c, coords', writes')
    <3> HIDE DEF v, x
    <3>1. DropKept(d, v, x, c, coords', writes')
      BY <2>5, <2>6, <2>7, Zenon DEF DropKept
    <3> QED BY <2>3, <3>1, Zenon
  <2> QED BY <2>8
\* It is refused.
<1>5. CASE dropped' = [dropped EXCEPT ![w[1]] = NotDropped] /\ coords' = coords
  <2> SUFFICES ASSUME NEW d \in Icons, dropped'[d] # NotDropped
               PROVE  \E c \in [1..2 -> 0..Unit] : DropKept(d, dropped'[d].view, dropped'[d].at, c, coords', writes')
    BY DEF DropsInv
  <2>1. d # w[1] /\ dropped'[d] = dropped[d]
    BY <1>1, <1>2, <1>5
  <2>2. PICK c \in [1..2 -> 0..Unit] : DropKept(d, dropped[d].view, dropped[d].at, c, coords, writes)
    BY <2>1 DEF LayoutInv, DropsInv
  <2>3. /\ \A u : u[1] = d /\ u \in writes => u \in writes'
        /\ writes' \subseteq writes
    BY <1>3, <2>1
  <2>4. ASSUME NEW a \in 1..2, NEW k, <<d, k, a, c[a]>> \in writes
        PROVE  <<d, k, a, c[a]>> \in writes'
    BY <2>3, <2>4
  <2>5. DropKept(d, dropped'[d].view, dropped'[d].at, c, coords', writes')
    BY <1>5, <2>1, <2>2, <2>3, <2>4 DEF DropKept
  <2> QED BY <2>5
<1> QED BY <1>4, <1>5 DEF ReceiveWrite

LEMMA LayoutStep ==
  ASSUME LayoutInv, [LayoutNext]_layoutVars
  PROVE  LayoutInv'
<1>1. SizesInv'
  BY LayoutTypeStep DEF LayoutInv
<1>2. CASE \E d \in Icons, p \in Places : moveIcon(d, p)
  BY <1>1, <1>2, DropsMove DEF LayoutInv
<1>3. CASE \E w \in writes : ReceiveWrite(w)
  BY <1>1, <1>3, DropsAnswer DEF LayoutInv
<1>4. CASE UNCHANGED <<coords, writes, dropped>>
  BY <1>1, <1>4, DropsAlone DEF LayoutInv
<1> QED
  BY <1>2, <1>3, <1>4
     DEF LayoutNext, layoutVars, ReceiveLayouts, resize, iconSizeChanged, containerZoomToggled,
         underlayToggled, ReceiveOffset

LEMMA LayoutStart ==
  ASSUME LayoutInit
  PROVE  LayoutInv
BY LayoutTypeInit DEF LayoutInit, LayoutInv, DropsInv

LEMMA LayoutShows ==
  ASSUME LayoutInv
  PROVE  RedrawnWhereDropped
<1> SUFFICES ASSUME NEW d \in Icons, dropped[d].view = view, \A w \in writes : w[1] # d,
                    NEW a \in 1..2
             PROVE  IconPx(d)[a] - dropped[d].at[a] \in -1..1
  BY DEF RedrawnWhereDropped
<1>1. dropped[d] # NotDropped
  <2>1. NotDropped.view = <<>>
    BY DEF NotDropped
  <2>2. view # <<>>
    BY DEF view
  <2> QED BY <2>1, <2>2
<1>2. /\ dropped[d].view[1] = dimensions /\ dropped[d].view[2] = iconSize
      /\ dropped[d].view[3] = zoomedContainer
  BY DEF view
<1>3. PICK c \in [1..2 -> 0..Unit] : DropKept(d, dropped[d].view, dropped[d].at, c, coords, writes)
  BY <1>1 DEF LayoutInv, DropsInv
<1> DEFINE k == NodeIn(zoomedContainer, d)
<1>4. /\ DrawnAt(dimensions, iconSize, zoomedContainer, IndexOf(Hypervisor[d]), a, c[a])
           - dropped[d].at[a] \in -1..1
      /\ <<d, k, a, c[a]>> \in writes \/ coords[d][k][a] = c[a]
  BY <1>2, <1>3, Zenon DEF DropKept
<1>5. coords[d][k][a] = c[a]
  <2>1. <<d, k, a, c[a]>>[1] = d
    OBVIOUS
  <2> QED BY <1>4, <2>1, Zenon
<1>6. c[a] # NoCoord
  <2>1. c[a] \in 0..Unit
    OBVIOUS
  <2>2. 0 <= c[a]
    BY <2>1, UnitsAre
  <2> QED BY <2>2, SMT DEF NoCoord
<1>7. Coord(d, a) = c[a]
  BY <1>5, <1>6, Zenon DEF Coord, Zoomed, NodeIn
<1> QED BY <1>4, <1>7, DrawnNow, Zenon

\* calculateLayout, pxToPc and calculateIconPosition: each variable of the layout
\* has its type.
THEOREM LayoutTypes == LayoutSpec => []LayoutTypeOK
<1>1. SizesInv => LayoutTypeOK
  BY DEF SizesInv
<1>2. LayoutInit => SizesInv
  BY LayoutTypeInit
<1>3. SizesInv /\ [LayoutNext]_layoutVars => SizesInv'
  BY LayoutTypeStep
<1> QED BY <1>1, <1>2, <1>3, PTL DEF LayoutSpec

\* moveIcon and useIconPosition: an icon that is dropped is drawn again within a
\* pixel of where it was dropped, for all containers, sizes and pixels.
THEOREM IconsStay == LayoutSpec => []RedrawnWhereDropped
<1>1. LayoutInit => LayoutInv
  BY LayoutStart
<1>2. LayoutInv /\ [LayoutNext]_layoutVars => LayoutInv'
  BY LayoutStep
<1>3. LayoutInv => RedrawnWhereDropped
  BY LayoutShows
<1> QED BY <1>1, <1>2, <1>3, PTL DEF LayoutSpec

------------------------------------------------------------------------------
(* The line at the cursor.                                                   *)

------------------------------------------------------------------------------
(* A message: the states between its bytes.                                  *)

States == [line: Seq(Bytes), cursor: Seq(Bytes), back: Nat, forward: Nat, cr: BOOLEAN,
           listed: Seq(Bytes)]

\* R holds the state after each byte.
IsRun(bytes, R) ==
  /\ R = [i \in 0..Len(bytes) |-> R[i]]
  /\ \A i \in 1..Len(bytes) : R[i] = Received(bytes[i], R[i - 1])

\* What a message comes to is where the states between its bytes end.
LEMMA MessageIs ==
  ASSUME NEW bytes, Len(bytes) \in Nat, NEW R, IsRun(bytes, R)
  PROVE  Message(bytes, R[0]) = R[Len(bytes)]
<1> DEFINE n == Len(bytes)
           Eq(f) == f = [i \in 0..n |-> IF i = 0 THEN R[0] ELSE Received(bytes[i], f[i - 1])]
<1>1. Eq(R)
  <2>1. \A i \in 0..n : R[i] = IF i = 0 THEN R[0] ELSE Received(bytes[i], R[i - 1])
    <3> TAKE i \in 0..n
    <3>1. i = 0 \/ i \in 1..n
      OBVIOUS
    <3> QED BY <3>1 DEF IsRun
  <2>2. R = [i \in 0..n |-> R[i]]
    BY DEF IsRun
  <2> QED BY <2>1, <2>2
<1>2. ASSUME NEW f, Eq(f)
      PROVE  f[n] = R[n]
  <2>1. f[0] = R[0] /\ \A i \in 1..n : f[i] = Received(bytes[i], f[i - 1])
    BY <1>2
  <2> HIDE DEF Eq
  <2> DEFINE T == {i \in Nat : i <= n /\ f[i] # R[i]}
  <2>2. T = {}
    <3> SUFFICES ASSUME T # {}
                 PROVE  FALSE
      OBVIOUS
    <3>1. PICK i \in T : \A y \in T : ~(y < i)
      BY LeastNat
    <3>2. i \in Nat /\ i <= n /\ f[i] # R[i]
      BY <3>1
    <3>3. i # 0
      BY <2>1, <3>2
    <3>4. i \in 1..n /\ i - 1 \in Nat /\ i - 1 <= n /\ i - 1 < i
      BY <3>2, <3>3
    <3>5. f[i - 1] = R[i - 1]
      BY <3>1, <3>4
    <3>6. R[i] = Received(bytes[i], R[i - 1])
      BY <3>4 DEF IsRun
    <3>7. f[i] = Received(bytes[i], f[i - 1])
      BY <2>1, <3>4
    <3> QED BY <3>2, <3>5, <3>6, <3>7
  <2> QED BY <2>2
<1> DEFINE g == CHOOSE f : Eq(f)
<1>3. Eq(g)
  BY <1>1
<1>4. g[n] = R[n]
  BY <1>2, <1>3
<1>5. Message(bytes, R[0]) = g[n]
  BY DEF Message
<1> QED BY <1>4, <1>5

\* A message takes the browser from a state to another.
Leads(bytes, st, next) ==
  \E R : IsRun(bytes, R) /\ R[0] = st /\ R[Len(bytes)] = next

LEMMA LeadsIs ==
  ASSUME NEW bytes, Len(bytes) \in Nat, NEW st, NEW next, Leads(bytes, st, next)
  PROVE  Message(bytes, st) = next
BY MessageIs DEF Leads

LEMMA LeadsOne ==
  ASSUME NEW b, NEW st
  PROVE  Leads(<<b>>, st, Received(b, st))
<1> DEFINE R == [i \in 0..1 |-> IF i = 0 THEN st ELSE Received(b, st)]
<1>1. Len(<<b>>) = 1 /\ <<b>>[1] = b
  OBVIOUS
<1>2. R[0] = st /\ R[1] = Received(b, st)
  OBVIOUS
<1>3. R = [i \in 0..1 |-> R[i]]
  OBVIOUS
<1>4. \A i \in 1..1 : i = 1 /\ i - 1 = 0
  OBVIOUS
<1> HIDE DEF R
<1>5. IsRun(<<b>>, R)
  BY <1>1, <1>2, <1>3, <1>4, Zenon DEF IsRun
<1> QED BY <1>1, <1>2, <1>5, Zenon DEF Leads

\* A byte, then the others.
LEMMA LeadsFirst ==
  ASSUME NEW B, NEW bytes \in Seq(B), NEW b \in B, NEW st, NEW next,
         Leads(bytes, Received(b, st), next)
  PROVE  Leads(<<b>> \o bytes, st, next)
<1> DEFINE n == Len(bytes)
           all == <<b>> \o bytes
<1>1. n \in Nat /\ Len(all) = n + 1 /\ all[1] = b /\ \A i \in 2..(n + 1) : all[i] = bytes[i - 1]
  <2>1. <<b>> \in Seq(B) /\ Len(<<b>>) = 1 /\ <<b>>[1] = b
    OBVIOUS
  <2>2. Len(all) = Len(<<b>>) + n /\ \A i \in 1..(Len(<<b>>) + n) :
          all[i] = IF i <= Len(<<b>>) THEN <<b>>[i] ELSE bytes[i - Len(<<b>>)]
    BY <2>1, ConcatProperties
  <2>3. n \in Nat
    OBVIOUS
  <2> HIDE DEF n, all
  <2>4. Len(all) = n + 1 /\ \A i \in 1..(1 + n) : all[i] = IF i <= 1 THEN b ELSE bytes[i - 1]
    BY <2>1, <2>2, <2>3
  <2> QED BY <2>3, <2>4
<1>2. PICK Q : IsRun(bytes, Q) /\ Q[0] = Received(b, st) /\ Q[n] = next
  BY DEF Leads
<1> HIDE DEF n, all
<1> DEFINE R == [i \in 0..(n + 1) |-> IF i = 0 THEN st ELSE Q[i - 1]]
<1>3. R[0] = st /\ R[n + 1] = next
  BY <1>1, <1>2
<1>4. R = [i \in 0..(n + 1) |-> R[i]]
  OBVIOUS
<1>5. ASSUME NEW i \in 1..(n + 1)
      PROVE  R[i] = Received(all[i], R[i - 1])
  <2>1. CASE i = 1
    BY <1>1, <1>2, <2>1
  <2>2. CASE i # 1
    <3>1. i - 1 \in 1..n /\ (i - 1) - 1 \in 0..n /\ i \in 2..(n + 1) /\ i - 1 \in 0..(n + 1)
      BY <1>1, <2>2
    <3>2. R[i] = Q[i - 1] /\ R[i - 1] = Q[(i - 1) - 1]
      BY <1>1, <2>2, <3>1
    <3>3. Q[i - 1] = Received(bytes[i - 1], Q[(i - 1) - 1])
      BY <1>2, <3>1 DEF IsRun, n
    <3>4. all[i] = bytes[i - 1]
      BY <1>1, <3>1
    <3> QED BY <3>2, <3>3, <3>4
  <2> QED BY <2>1, <2>2
<1> HIDE DEF R
<1>6. IsRun(all, R)
  BY <1>1, <1>4, <1>5 DEF IsRun
<1> QED BY <1>1, <1>3, <1>6 DEF Leads, all

------------------------------------------------------------------------------
(* A line that is written out, and moved back over.                          *)

Prefix(w, m) == SubSeq(w, 1, m)

Text == Bytes \ {"BELL", "BS", "NL", "CR"}

\* No arrow is awaited.
Plain(ln, cursor, old) ==
  [line |-> ln, cursor |-> cursor, back |-> 0, forward |-> 0, cr |-> FALSE, listed |-> old]

LEMMA StartIs ==
  ASSUME NEW w \in Seq(Bytes), NEW m \in 0..Len(w)
  PROVE  /\ Prefix(w, m) \in Seq(Bytes) /\ Len(Prefix(w, m)) = m
         /\ \A i \in 1..m : Prefix(w, m)[i] = w[i]
<1>1. 1 \in 1..(Len(w) + 1) /\ m \in (1 - 1)..Len(w)
  OBVIOUS
<1>2. /\ SubSeq(w, 1, m) \in Seq(Bytes)
      /\ Len(SubSeq(w, 1, m)) = IF 1 <= m THEN m - 1 + 1 ELSE 0
      /\ \A i \in 1..(m - 1 + 1) : SubSeq(w, 1, m)[i] = w[1 + i - 1]
  BY <1>1, SubSeqProperties
<1> QED BY <1>2 DEF Prefix

LEMMA StartLonger ==
  ASSUME NEW w \in Seq(Bytes), NEW m \in 0..Len(w), m < Len(w)
  PROVE  Append(Prefix(w, m), w[m + 1]) = Prefix(w, m + 1)
<1>1. m + 1 \in 0..Len(w) /\ w[m + 1] \in Bytes
  OBVIOUS
<1> DEFINE x == Prefix(w, m)
           y == Prefix(w, m + 1)
<1>2. /\ x \in Seq(Bytes) /\ Len(x) = m /\ \A i \in 1..m : x[i] = w[i]
      /\ y \in Seq(Bytes) /\ Len(y) = m + 1 /\ \A i \in 1..(m + 1) : y[i] = w[i]
  BY <1>1, StartIs
<1> HIDE DEF x, y
<1>3. Append(x, w[m + 1]) \in Seq(Bytes) /\ Len(Append(x, w[m + 1])) = m + 1
  BY <1>1, <1>2
<1>4. \A i \in 1..(m + 1) : Append(x, w[m + 1])[i] = y[i]
  BY <1>1, <1>2
<1>5. Append(x, w[m + 1]) = y
  BY <1>2, <1>3, <1>4, SeqEqual
<1> QED BY <1>5 DEF x, y

LEMMA StartShorter ==
  ASSUME NEW w \in Seq(Bytes), NEW m \in 1..Len(w)
  PROVE  Prefix(w, m) # <<>> /\ Front(Prefix(w, m)) = Prefix(w, m - 1)
<1> DEFINE x == Prefix(w, m)
           y == Prefix(w, m - 1)
<1>1. /\ x \in Seq(Bytes) /\ Len(x) = m /\ \A i \in 1..m : x[i] = w[i]
      /\ y \in Seq(Bytes) /\ Len(y) = m - 1 /\ \A i \in 1..(m - 1) : y[i] = w[i]
  BY StartIs
<1> HIDE DEF x, y
<1>2. m - 1 \in 0..Len(x) /\ Front(x) = Prefix(x, m - 1)
  BY <1>1 DEF Front, Prefix
<1>3. /\ Prefix(x, m - 1) \in Seq(Bytes) /\ Len(Prefix(x, m - 1)) = m - 1
      /\ \A i \in 1..(m - 1) : Prefix(x, m - 1)[i] = x[i]
  BY <1>1, <1>2, StartIs
<1>4. \A i \in 1..(m - 1) : i \in 1..m
  OBVIOUS
<1>5. Prefix(x, m - 1) = y
  BY <1>1, <1>3, <1>4, SeqEqual
<1>6. x # <<>>
  BY <1>1
<1> QED BY <1>2, <1>5, <1>6 DEF x, y

LEMMA PlainShows ==
  ASSUME NEW ln \in Seq(Bytes), NEW cursor, NEW old
  PROVE  /\ \A b \in Text : Received(b, Plain(ln, cursor, old))
                            = Plain(Append(ln, b), cursor, old)
         /\ ln # <<>> => Received("BS", Plain(ln, cursor, old))
                           = Plain(Front(ln), cursor, old)
         /\ Received("BELL", Plain(ln, cursor, old)) = Plain(ln, cursor, old)
<1> DEFINE st == Plain(ln, cursor, old)
<1>1. ASSUME NEW b
      PROVE  Received(b, st) = Show(b, st)
  <2>1. Back(b, st) = st
    BY DEF Back, Plain
  <2>2. Forward(b, st) = st
    BY DEF Forward, Plain
  <2> QED BY <2>1, <2>2 DEF Received
<1>2. ASSUME NEW b \in Text
      PROVE  Show(b, st) = Plain(Append(ln, b), cursor, old)
  <2>1. b # "BS" /\ b # "CR" /\ b # "NL" /\ b # "BELL"
    BY DEF Text
  <2>2. Show(b, st) = [st EXCEPT !.line = Append(IF st.cr THEN <<>> ELSE @, b), !.cr = FALSE]
    BY <2>1 DEF Show
  <2> QED BY <2>2 DEF Plain
<1>3. ln # <<>> => Show("BS", st) = Plain(Front(ln), cursor, old)
  BY DEF Show, Plain, MinusLast
<1>4. Show("BELL", st) = st
  BY DEF Show
<1> QED BY <1>1, <1>2, <1>3, <1>4

\* From its first a bytes a line w is written out, and q of its bytes moved back over.
LEMMA Redraws ==
  ASSUME NEW w \in Seq(Bytes), NEW a \in 0..Len(w), NEW q \in 0..Len(w),
         NEW cursor, NEW old, NEW bytes,
         \A i \in (a + 1)..Len(w) : w[i] \in Text,
         Len(bytes) = (Len(w) - a) + q,
         \A i \in 1..(Len(w) - a) : bytes[i] = w[a + i],
         \A i \in ((Len(w) - a) + 1)..((Len(w) - a) + q) : bytes[i] = "BS"
  PROVE  Leads(bytes, Plain(Prefix(w, a), cursor, old),
               Plain(Prefix(w, Len(w) - q), cursor, old))
<1> DEFINE t == Len(w) - a
           Size(i) == IF i <= t THEN a + i ELSE Len(w) - (i - t)
           R == [i \in 0..(t + q) |-> Plain(Prefix(w, Size(i)), cursor, old)]
<1>1. t \in Nat /\ Len(w) \in Nat /\ a \in Nat /\ q \in Nat
  OBVIOUS
<1>2. R[0] = Plain(Prefix(w, a), cursor, old)
  <2>1. Size(0) = a
    BY <1>1
  <2> QED BY <1>1, <2>1
<1>3. R[t + q] = Plain(Prefix(w, Len(w) - q), cursor, old)
  <2>1. Size(t + q) = Len(w) - q
    BY <1>1
  <2> QED BY <1>1, <2>1
<1>4. R = [i \in 0..(t + q) |-> R[i]]
  OBVIOUS
<1>5. ASSUME NEW i \in 1..(t + q)
      PROVE  R[i] = Received(bytes[i], R[i - 1])
  <2>1. i - 1 \in 0..(t + q) /\ i \in 0..(t + q)
    BY <1>1
  <2>2. /\ R[i] = Plain(Prefix(w, Size(i)), cursor, old)
        /\ R[i - 1] = Plain(Prefix(w, Size(i - 1)), cursor, old)
    BY <2>1
  <2>3. CASE i <= t
    <3>1. Size(i - 1) = a + (i - 1) /\ Size(i) = (a + (i - 1)) + 1
      BY <1>1, <2>3
    <3> DEFINE m == a + (i - 1)
    <3>2. m \in 0..Len(w) /\ m < Len(w) /\ m + 1 = a + i /\ m + 1 \in (a + 1)..Len(w)
      BY <1>1, <2>3
    <3>3. bytes[i] = w[m + 1] /\ w[m + 1] \in Text
      BY <2>3, <3>2
    <3>4. Append(Prefix(w, m), w[m + 1]) = Prefix(w, m + 1)
      BY <3>2, StartLonger
    <3>5. Prefix(w, m) \in Seq(Bytes)
      BY <3>2, StartIs
    <3> HIDE DEF m, R, Size
    <3>6. Received(bytes[i], Plain(Prefix(w, m), cursor, old))
          = Plain(Append(Prefix(w, m), w[m + 1]), cursor, old)
      BY <3>3, <3>5, PlainShows
    <3> QED BY <2>2, <3>1, <3>4, <3>6 DEF m
  <2>4. CASE i > t
    <3> DEFINE m == Len(w) - ((i - 1) - t)
    <3>1. Size(i - 1) = m /\ Size(i) = m - 1
      <4>1. CASE i - 1 <= t
        <5>1. Size(i - 1) = a + (i - 1) /\ Size(i) = Len(w) - (i - t)
          BY <1>1, <2>1, <2>4, <4>1
        <5>2. i \in Nat /\ t = Len(w) - a
          BY <1>1, <2>1
        <5> HIDE DEF t, Size
        <5>3. i = t + 1
          <6>1. \A x, y \in Nat : x - 1 <= y /\ x > y => x = y + 1
            OBVIOUS
          <6> QED BY <1>1, <2>4, <4>1, <5>2, <6>1
        <5>4. m = Len(w) /\ m - 1 = Len(w) - 1 /\ Len(w) - (i - t) = Len(w) - 1
          BY <1>1, <5>2, <5>3
        <5>5. a + (i - 1) = Len(w)
          BY <1>1, <5>2, <5>3
        <5> QED BY <5>1, <5>4, <5>5
      <4>2. CASE i - 1 > t
        BY <1>1, <2>4, <4>2
      <4> QED BY <1>1, <4>1, <4>2
    <3>2. m \in 1..Len(w) /\ m \in 0..Len(w) /\ bytes[i] = "BS"
      BY <1>1, <2>4
    <3>3. Prefix(w, m) # <<>> /\ Front(Prefix(w, m)) = Prefix(w, m - 1)
      BY <3>2, StartShorter
    <3>4. Prefix(w, m) \in Seq(Bytes)
      BY <3>2, StartIs
    <3> HIDE DEF m, R, Size
    <3>5. Received("BS", Plain(Prefix(w, m), cursor, old))
          = Plain(Front(Prefix(w, m)), cursor, old)
      BY <3>3, <3>4, PlainShows
    <3> QED BY <2>2, <3>1, <3>2, <3>3, <3>5
  <2> QED BY <1>1, <2>3, <2>4
<1> HIDE DEF R
<1>6. IsRun(bytes, R)
  BY <1>4, <1>5 DEF IsRun
<1> QED BY <1>2, <1>3, <1>6 DEF Leads

LEMMA StartOfConcat ==
  ASSUME NEW x \in Seq(Bytes), NEW y \in Seq(Bytes)
  PROVE  Prefix(x \o y, Len(x)) = x
<1> DEFINE w == x \o y
<1>1. /\ w \in Seq(Bytes) /\ Len(w) = Len(x) + Len(y)
      /\ \A i \in 1..(Len(x) + Len(y)) : w[i] = IF i <= Len(x) THEN x[i] ELSE y[i - Len(x)]
  BY ConcatProperties
<1>2. Len(x) \in Nat /\ Len(y) \in Nat /\ Len(x) \in 0..Len(w)
  BY <1>1
<1> HIDE DEF w
<1>3. /\ Prefix(w, Len(x)) \in Seq(Bytes) /\ Len(Prefix(w, Len(x))) = Len(x)
      /\ \A i \in 1..Len(x) : Prefix(w, Len(x))[i] = w[i]
  BY <1>1, <1>2, StartIs
<1>4. \A i \in 1..Len(x) : w[i] = x[i]
  BY <1>1, <1>2
<1>5. Prefix(w, Len(x)) = x
  BY <1>3, <1>4, SeqEqual
<1> QED BY <1>5 DEF w

LEMMA FrontOfAppend ==
  ASSUME NEW x \in Seq(Bytes), NEW b \in Bytes
  PROVE  Append(x, b) # <<>> /\ Front(Append(x, b)) = x /\ Last(Append(x, b)) = b
<1>1. Append(x, b) = x \o <<b>> /\ <<b>> \in Seq(Bytes)
  BY AppendIsConcat
<1>2. /\ Len(Append(x, b)) = Len(x) + 1 /\ Len(x) \in Nat /\ Append(x, b) # <<>>
      /\ Append(x, b)[Len(x) + 1] = b
  BY AppendProperties
<1>3. Front(Append(x, b)) = Prefix(Append(x, b), Len(x))
  <2>1. (Len(x) + 1) - 1 = Len(x)
    BY <1>2
  <2> QED BY <1>2, <2>1, Zenon DEF Front, Prefix
<1>4. Prefix(x \o <<b>>, Len(x)) = x
  BY <1>1, StartOfConcat
<1>5. Last(Append(x, b)) = b
  BY <1>2, Zenon DEF Last
<1> QED BY <1>1, <1>2, <1>3, <1>4, <1>5

\* A line is written out after x, and q of its bytes moved back over.
LEMMA RedrawsAfter ==
  ASSUME NEW x \in Seq(Bytes), NEW y \in Seq(Text), NEW q \in 0..Len(y), NEW cursor, NEW old
  PROVE  Leads(y \o Repeat("BS", q), Plain(x, cursor, old),
               Plain(Prefix(x \o y, (Len(x) + Len(y)) - q), cursor, old))
<1> DEFINE w == x \o y
           bs == Repeat("BS", q)
           bytes == y \o bs
<1>1. y \in Seq(Bytes) /\ Text \subseteq Bytes
  <2>1. Text \subseteq Bytes
    BY DEF Text
  <2> QED BY <2>1, SeqMonotonic
<1>2. Len(x) \in Nat /\ Len(y) \in Nat /\ q \in Nat /\ q <= Len(y)
  OBVIOUS
<1>3. bs \in Seq(Bytes) /\ Len(bs) = q /\ \A i \in 1..q : bs[i] = "BS"
  <2>1. "BS" \in Bytes
    BY DEF Bytes
  <2>2. bs \in [1..q -> Bytes] /\ \A i \in 1..q : bs[i] = "BS"
    BY <2>1 DEF Repeat
  <2> HIDE DEF bs
  <2> QED BY <1>2, <2>2
<1>4. /\ w \in Seq(Bytes) /\ Len(w) = Len(x) + Len(y)
      /\ \A i \in 1..(Len(x) + Len(y)) : w[i] = IF i <= Len(x) THEN x[i] ELSE y[i - Len(x)]
  BY <1>1, ConcatProperties
<1> HIDE DEF bs
<1>5. /\ Len(bytes) = Len(y) + Len(bs)
      /\ \A i \in 1..(Len(y) + Len(bs)) : bytes[i] = IF i <= Len(y) THEN y[i] ELSE bs[i - Len(y)]
  BY <1>1, <1>3, ConcatProperties
<1>6. Prefix(w, Len(x)) = x
  BY <1>1, StartOfConcat
<1> HIDE DEF w, bytes
<1>7. Len(w) - Len(x) = Len(y) /\ Len(x) \in 0..Len(w) /\ q \in 0..Len(w)
  BY <1>2, <1>4
<1>8. \A i \in (Len(x) + 1)..Len(w) : w[i] \in Text
  <2> TAKE i \in (Len(x) + 1)..Len(w)
  <2>1. i \in 1..(Len(x) + Len(y)) /\ ~(i <= Len(x)) /\ i - Len(x) \in 1..Len(y)
    BY <1>2, <1>4
  <2>2. w[i] = y[i - Len(x)]
    BY <1>4, <2>1
  <2> QED BY <2>1, <2>2, ElementOfSeq
<1>9. \A i \in 1..Len(y) : bytes[i] = w[Len(x) + i]
  <2> TAKE i \in 1..Len(y)
  <2>1. /\ i \in 1..(Len(y) + Len(bs)) /\ i <= Len(y)
        /\ Len(x) + i \in 1..(Len(x) + Len(y)) /\ ~(Len(x) + i <= Len(x))
        /\ (Len(x) + i) - Len(x) = i
    BY <1>2, <1>3
  <2>2. bytes[i] = y[i]
    BY <1>5, <2>1
  <2>3. w[Len(x) + i] = y[i]
    BY <1>4, <2>1
  <2> QED BY <2>2, <2>3
<1>10. \A i \in (Len(y) + 1)..(Len(y) + q) : bytes[i] = "BS"
  <2> TAKE i \in (Len(y) + 1)..(Len(y) + q)
  <2>1. i \in 1..(Len(y) + Len(bs)) /\ ~(i <= Len(y)) /\ i - Len(y) \in 1..q
    BY <1>2, <1>3
  <2>2. bytes[i] = bs[i - Len(y)]
    BY <1>5, <2>1
  <2> QED BY <1>3, <2>1, <2>2
<1>11. Len(bytes) = Len(y) + q
  BY <1>3, <1>5
<1>12. Leads(bytes, Plain(Prefix(w, Len(x)), cursor, old),
             Plain(Prefix(w, Len(w) - q), cursor, old))
  BY <1>4, <1>7, <1>8, <1>9, <1>10, <1>11, Redraws
<1> QED BY <1>4, <1>6, <1>12 DEF w, bytes, bs

------------------------------------------------------------------------------
(* What a key comes to in the browser.                                       *)

Prompt(l) == <<"prompt">> \o l

LEMMA LineTypes ==
  /\ Chars \subseteq Text /\ Text \subseteq Bytes /\ "prompt" \in Text /\ "space" \in Text
  /\ \A l \in Seq(Chars) : l \in Seq(Text) /\ l \in Seq(Bytes) /\ Prompt(l) \in Seq(Bytes)
<1>1. Chars \subseteq Text /\ Text \subseteq Bytes /\ "prompt" \in Text /\ "space" \in Text
  BY LineAssumption DEF Text, Bytes
<1>2. ASSUME NEW l \in Seq(Chars)
      PROVE  l \in Seq(Text) /\ l \in Seq(Bytes) /\ Prompt(l) \in Seq(Bytes)
  <2>1. l \in Seq(Text)
    BY <1>1, SeqMonotonic
  <2>2. l \in Seq(Bytes)
    BY <1>1, <2>1, SeqMonotonic
  <2>3. "prompt" \in Bytes
    BY <1>1
  <2>4. <<"prompt">> \in Seq(Bytes)
    BY <2>3
  <2>5. Prompt(l) \in Seq(Bytes)
    BY <2>2, <2>4, ConcatProperties DEF Prompt
  <2> QED BY <2>1, <2>2, <2>5
<1> QED BY <1>1, <1>2

LEMMA PromptOfAppend ==
  ASSUME NEW l \in Seq(Chars), NEW k \in Chars
  PROVE  Append(l, k) \in Seq(Chars) /\ Prompt(Append(l, k)) = Append(Prompt(l), k)
<1>1. k \in Bytes /\ l \in Seq(Bytes) /\ Prompt(l) \in Seq(Bytes) /\ "prompt" \in Bytes
  BY LineTypes
<1>2. <<k>> \in Seq(Bytes) /\ <<"prompt">> \in Seq(Bytes)
  BY <1>1
<1>3. Append(l, k) = l \o <<k>> /\ Append(Prompt(l), k) = Prompt(l) \o <<k>>
  BY <1>1, AppendIsConcat
<1>4. (<<"prompt">> \o l) \o <<k>> = <<"prompt">> \o (l \o <<k>>)
  BY <1>1, <1>2, ConcatAssociative
<1>5. Append(l, k) \in Seq(Chars)
  OBVIOUS
<1> QED BY <1>3, <1>4, <1>5 DEF Prompt

\* A line that is not empty, but for its last character.
LEMMA FrontOfLine ==
  ASSUME NEW l \in Seq(Chars), l # <<>>
  PROVE  /\ Front(l) \in Seq(Chars) /\ Last(l) \in Chars
         /\ Prompt(l) = Append(Prompt(Front(l)), Last(l))
<1>1. PICK s \in Seq(Chars), k \in Chars : l = Append(s, k)
  BY SequenceEmptyOrAppend
<1>2. s \in Seq(Bytes) /\ k \in Bytes
  BY LineTypes
<1>3. Front(l) = s /\ Last(l) = k
  BY <1>1, <1>2, FrontOfAppend
<1> QED BY <1>1, <1>3, PromptOfAppend

LEMMA CharShown ==
  ASSUME NEW l \in Seq(Chars), NEW r \in Seq(Chars), NEW k \in Chars, NEW old
  PROVE  Leads(<<k>> \o r \o Repeat("BS", Len(r)), Plain(Prompt(l), r, old),
               Plain(Prompt(Append(l, k)), r, old))
<1> DEFINE y == <<k>> \o r
           x == Prompt(l)
<1>1. k \in Text /\ k \in Bytes /\ r \in Seq(Text) /\ r \in Seq(Bytes) /\ x \in Seq(Bytes)
  BY LineTypes
<1>2. <<k>> \in Seq(Text) /\ Len(<<k>>) = 1 /\ <<k>> \in Seq(Bytes)
  BY <1>1
<1>3. y \in Seq(Text) /\ Len(y) = 1 + Len(r)
  BY <1>1, <1>2, ConcatProperties
<1>4. Len(r) \in 0..Len(y) /\ Len(x) \in Nat /\ (Len(x) + Len(y)) - Len(r) = Len(x) + 1
  BY <1>1, <1>3
<1>5. x \o y = Append(x, k) \o r
  <2>1. x \o y = (x \o <<k>>) \o r
    BY <1>1, <1>2, ConcatAssociative
  <2>2. Append(x, k) = x \o <<k>>
    BY <1>1, AppendIsConcat
  <2> QED BY <2>1, <2>2
<1> HIDE DEF x
<1>6. Append(x, k) \in Seq(Bytes) /\ Len(Append(x, k)) = Len(x) + 1
  BY <1>1, AppendProperties
<1> HIDE DEF y
<1>7. Prefix(x \o y, Len(x) + 1) = Append(x, k)
  BY <1>1, <1>5, <1>6, StartOfConcat
<1>8. Leads(y \o Repeat("BS", Len(r)), Plain(x, r, old),
            Plain(Prefix(x \o y, (Len(x) + Len(y)) - Len(r)), r, old))
  BY <1>1, <1>3, <1>4, RedrawsAfter
<1>9. Prompt(Append(l, k)) = Append(x, k)
  BY PromptOfAppend DEF x
<1> QED BY <1>4, <1>7, <1>8, <1>9 DEF x, y

LEMMA BackspaceShown ==
  ASSUME NEW l \in Seq(Chars), l # <<>>, NEW r \in Seq(Chars), NEW old
  PROVE  Leads(<<"BS">> \o r \o <<"space">> \o Repeat("BS", Len(r) + 1),
               Plain(Prompt(l), r, old), Plain(Prompt(Front(l)), r, old))
<1> DEFINE y == r \o <<"space">>
           x == Prompt(Front(l))
           bs == Repeat("BS", Len(r) + 1)
<1>1. /\ Front(l) \in Seq(Chars) /\ Last(l) \in Chars
      /\ Prompt(l) = Append(x, Last(l))
  BY FrontOfLine
<1>2. /\ Last(l) \in Bytes /\ x \in Seq(Bytes) /\ "space" \in Text /\ "space" \in Bytes
      /\ r \in Seq(Text) /\ r \in Seq(Bytes) /\ "BS" \in Bytes
  <2>1. "BS" \in Bytes
    BY DEF Bytes
  <2> QED BY <1>1, <2>1, LineTypes
<1> HIDE DEF x
<1>3. Prompt(l) # <<>> /\ Front(Prompt(l)) = x /\ Prompt(l) \in Seq(Bytes)
  BY <1>1, <1>2, FrontOfAppend, LineTypes
<1>4. <<"space">> \in Seq(Text) /\ <<"space">> \in Seq(Bytes) /\ <<"BS">> \in Seq(Bytes)
      /\ Len(<<"space">>) = 1
  BY <1>2
<1>5. y \in Seq(Text) /\ y \in Seq(Bytes) /\ Len(y) = Len(r) + 1
  BY <1>2, <1>4, ConcatProperties
<1>6. Received("BS", Plain(Prompt(l), r, old)) = Plain(x, r, old)
  BY <1>3, PlainShows
<1>7. bs \in Seq(Bytes)
  <2>1. Len(r) + 1 \in Nat
    BY <1>2
  <2>2. bs \in [1..(Len(r) + 1) -> Bytes]
    BY <1>2 DEF Repeat
  <2> HIDE DEF bs
  <2> QED BY <2>1, <2>2
<1>8. <<"BS">> \o r \o <<"space">> \o bs = <<"BS">> \o (y \o bs)
  <2> HIDE DEF bs
  <2>1. (<<"BS">> \o r) \o <<"space">> = <<"BS">> \o (r \o <<"space">>)
    BY <1>2, <1>4, ConcatAssociative
  <2> HIDE DEF y
  <2>2. (<<"BS">> \o y) \o bs = <<"BS">> \o (y \o bs)
    BY <1>4, <1>5, <1>7, ConcatAssociative
  <2> QED BY <2>1, <2>2 DEF y
<1> HIDE DEF y
<1>9. Prefix(x \o y, Len(x)) = x
  BY <1>2, <1>5, StartOfConcat
<1>10. /\ Len(r) + 1 \in 0..Len(y)
       /\ (Len(x) + Len(y)) - (Len(r) + 1) = Len(x)
  BY <1>2, <1>5
<1>11. Leads(y \o bs, Plain(x, r, old),
             Plain(Prefix(x \o y, (Len(x) + Len(y)) - (Len(r) + 1)), r, old))
  BY <1>2, <1>5, <1>10, RedrawsAfter
<1>12. y \o bs \in Seq(Bytes)
  BY <1>5, <1>7, ConcatProperties
<1> HIDE DEF bs
<1>13. Leads(y \o bs, Received("BS", Plain(Prompt(l), r, old)), Plain(x, r, old))
  BY <1>6, <1>9, <1>10, <1>11
<1>14. Leads(<<"BS">> \o (y \o bs), Plain(Prompt(l), r, old), Plain(x, r, old))
  BY <1>2, <1>12, <1>13, LeadsFirst
<1> QED BY <1>8, <1>14 DEF x, bs

\* A state of the browser; with no carriage return, arrows may be awaited.
St(ln, cursor, back, forward, cr, old) ==
  [line |-> ln, cursor |-> cursor, back |-> back, forward |-> forward, cr |-> cr,
   listed |-> old]

At(ln, cursor, back, forward, old) ==
  [line |-> ln, cursor |-> cursor, back |-> back, forward |-> forward, cr |-> FALSE,
   listed |-> old]

\* The changes that are made of it.
SetLine(st, x)       == [st EXCEPT !.line = x]
MovedBack(st, x, y)  == [st EXCEPT !.back = x, !.cursor = y]
MovedOn(st, x, y)    == [st EXCEPT !.forward = x, !.cursor = y]
Written(st, x)       == [st EXCEPT !.line = x, !.cr = FALSE]
Returned(st)         == [st EXCEPT !.cr = TRUE]

LEMMA Changed ==
  ASSUME NEW a, NEW b, NEW c, NEW d, NEW e, NEW x
  PROVE  /\ SetLine(At(a, b, c, d, e), x) = At(x, b, c, d, e)
         /\ Written(At(a, b, c, d, e), x) = At(x, b, c, d, e)
         /\ Written(Returned(At(a, b, c, d, e)), x) = At(x, b, c, d, e)
<1>1. PICK no : no = FALSE
  OBVIOUS
<1>2. PICK yes : yes = TRUE
  OBVIOUS
<1>3. \A u, v, w, z, t : At(u, v, w, z, t) = St(u, v, w, z, no, t)
  BY <1>1, Zenon DEF At, St
<1> DEFINE st == St(a, b, c, d, no, e)
<1>4. [st EXCEPT !.line = x] = St(x, b, c, d, no, e)
  BY DEF St
<1>5. [st EXCEPT !.line = x, !.cr = FALSE] = St(x, b, c, d, no, e)
  <2>1. [st EXCEPT !.line = x, !.cr = no] = [[st EXCEPT !.line = x] EXCEPT !.cr = no]
    OBVIOUS
  <2>2. [St(x, b, c, d, no, e) EXCEPT !.cr = no] = St(x, b, c, d, no, e)
    BY DEF St
  <2>3. [st EXCEPT !.line = x, !.cr = no] = St(x, b, c, d, no, e)
    BY <1>4, <2>1, <2>2, Zenon
  <2> QED BY <1>1, <2>3
<1>6. [[st EXCEPT !.cr = TRUE] EXCEPT !.line = x, !.cr = FALSE] = St(x, b, c, d, no, e)
  <2>1. [st EXCEPT !.cr = yes] = St(a, b, c, d, yes, e)
    BY DEF St
  <2>2. [St(a, b, c, d, yes, e) EXCEPT !.line = x, !.cr = no]
        = [[St(a, b, c, d, yes, e) EXCEPT !.line = x] EXCEPT !.cr = no]
    OBVIOUS
  <2>3. [St(a, b, c, d, yes, e) EXCEPT !.line = x] = St(x, b, c, d, yes, e)
    BY DEF St
  <2>4. [St(x, b, c, d, yes, e) EXCEPT !.cr = no] = St(x, b, c, d, no, e)
    BY DEF St
  <2>5. [St(a, b, c, d, yes, e) EXCEPT !.line = x, !.cr = no] = St(x, b, c, d, no, e)
    BY <2>2, <2>3, <2>4, Zenon
  <2> QED BY <1>1, <1>2, <2>1, <2>5
<1> HIDE DEF st
<1>7. st = At(a, b, c, d, e)
  BY <1>3 DEF st
<1>8. SetLine(st, x) = At(x, b, c, d, e)
  BY <1>3, <1>4 DEF SetLine
<1>9. Written(st, x) = At(x, b, c, d, e)
  BY <1>3, <1>5 DEF Written
<1>10. Written(Returned(st), x) = At(x, b, c, d, e)
  BY <1>3, <1>6 DEF Written, Returned
<1> QED BY <1>7, <1>8, <1>9, <1>10

LEMMA Moved ==
  ASSUME NEW a, NEW b, NEW c, NEW d, NEW e, NEW x, NEW y
  PROVE  /\ MovedBack(At(a, b, c, d, e), x, y) = At(a, y, x, d, e)
         /\ MovedOn(At(a, b, c, d, e), x, y) = At(a, y, c, x, e)
<1>1. PICK no : no = FALSE
  OBVIOUS
<1>2. \A u, v, w, z, t : At(u, v, w, z, t) = St(u, v, w, z, no, t)
  BY <1>1, Zenon DEF At, St
<1> DEFINE st == St(a, b, c, d, no, e)
<1>3. [st EXCEPT !.back = x, !.cursor = y] = St(a, y, x, d, no, e)
  <2>1. [st EXCEPT !.back = x, !.cursor = y] = [[st EXCEPT !.back = x] EXCEPT !.cursor = y]
    OBVIOUS
  <2>2. [st EXCEPT !.back = x] = St(a, b, x, d, no, e)
    BY DEF St
  <2>3. [St(a, b, x, d, no, e) EXCEPT !.cursor = y] = St(a, y, x, d, no, e)
    BY DEF St
  <2> QED BY <2>1, <2>2, <2>3, Zenon
<1>4. [st EXCEPT !.forward = x, !.cursor = y] = St(a, y, c, x, no, e)
  <2>1. [st EXCEPT !.forward = x, !.cursor = y] = [[st EXCEPT !.forward = x] EXCEPT !.cursor = y]
    OBVIOUS
  <2>2. [st EXCEPT !.forward = x] = St(a, b, c, x, no, e)
    BY DEF St
  <2>3. [St(a, b, c, x, no, e) EXCEPT !.cursor = y] = St(a, y, c, x, no, e)
    BY DEF St
  <2> QED BY <2>1, <2>2, <2>3, Zenon
<1> HIDE DEF st
<1>5. st = At(a, b, c, d, e)
  BY <1>2 DEF st
<1>6. MovedBack(st, x, y) = At(a, y, x, d, e)
  BY <1>2, <1>3 DEF MovedBack
<1>7. MovedOn(st, x, y) = At(a, y, c, x, e)
  BY <1>2, <1>4 DEF MovedOn
<1> QED BY <1>5, <1>6, <1>7

LEMMA UpShown ==
  ASSUME NEW ln \in Seq(Chars), NEW x \in Seq(Bytes), NEW old
  PROVE  Leads(<<"CR", "prompt">> \o ln, Plain(x, <<>>, old), Plain(Prompt(ln), <<>>, old))
<1> DEFINE st1 == [Plain(x, <<>>, old) EXCEPT !.cr = TRUE]
           p == <<"prompt">>
<1>1. Received("CR", Plain(x, <<>>, old)) = st1
  <2>1. Back("CR", Plain(x, <<>>, old)) = Plain(x, <<>>, old)
    BY DEF Back, Plain
  <2>2. Forward("CR", Plain(x, <<>>, old)) = Plain(x, <<>>, old)
    BY DEF Forward, Plain
  <2> QED BY <2>1, <2>2 DEF Received, Show
<1>2. Received("prompt", st1) = Plain(p, <<>>, old)
  <2>1. Back("prompt", st1) = st1 /\ st1.cr = TRUE
    BY DEF Back, Plain
  <2>2. Forward("prompt", st1) = st1
    BY DEF Forward, Plain
  <2>3. Show("prompt", st1)
        = [st1 EXCEPT !.line = Append(IF st1.cr THEN <<>> ELSE @, "prompt"), !.cr = FALSE]
    BY DEF Show
  <2>4. Append(<<>>, "prompt") = p
    OBVIOUS
  <2>5. [st1 EXCEPT !.line = Append(IF st1.cr THEN <<>> ELSE @, "prompt"), !.cr = FALSE]
        = [st1 EXCEPT !.line = p, !.cr = FALSE]
    BY <2>1, <2>4
  <2> HIDE DEF p
  <2>6. [st1 EXCEPT !.line = p, !.cr = FALSE] = Plain(p, <<>>, old)
    <3>1. \A u : Plain(u, <<>>, old) = At(u, <<>>, 0, 0, old)
      BY Zenon DEF Plain, At
    <3>2. \A c, z : Written(Returned(At(x, c, z, z, old)), p) = At(p, c, z, z, old)
      BY Changed
    <3> QED BY <3>1, <3>2, Zenon DEF Written, Returned
  <2> QED BY <2>1, <2>2, <2>3, <2>5, <2>6 DEF Received
<1>3. /\ ln \in Seq(Text) /\ ln \in Seq(Bytes) /\ "CR" \in Bytes /\ "prompt" \in Bytes
      /\ p \in Seq(Bytes) /\ Len(p) = 1
  <2>1. "CR" \in Bytes /\ "prompt" \in Bytes
    BY DEF Bytes
  <2> QED BY <2>1, LineTypes
<1>4. Leads(ln \o Repeat("BS", 0), Plain(p, <<>>, old), Plain(Prompt(ln), <<>>, old))
  <2>1. /\ 0 \in 0..Len(ln) /\ p \o ln \in Seq(Bytes)
        /\ Len(p \o ln) = Len(p) + Len(ln) /\ (Len(p) + Len(ln)) - 0 = Len(p \o ln)
    BY <1>3, ConcatProperties
  <2>2. Leads(ln \o Repeat("BS", 0), Plain(p, <<>>, old),
              Plain(Prefix(p \o ln, (Len(p) + Len(ln)) - 0), <<>>, old))
    BY <1>3, <2>1, RedrawsAfter
  <2>3. Prefix(p \o ln, Len(p \o ln)) = p \o ln
    <3> DEFINE w == p \o ln
    <3>1. w \o <<>> = w /\ <<>> \in Seq(Bytes)
      BY <2>1, ConcatEmptySeq
    <3> HIDE DEF w
    <3> QED BY <2>1, <3>1, StartOfConcat DEF w
  <2> QED BY <2>1, <2>2, <2>3 DEF Prompt
<1>5. ln \o Repeat("BS", 0) = ln
  <2>1. Repeat("BS", 0) = <<>>
    BY DEF Repeat
  <2> QED BY <1>3, <2>1, ConcatEmptySeq
<1>6. Leads(ln, Received("prompt", st1), Plain(Prompt(ln), <<>>, old))
  BY <1>2, <1>4, <1>5
<1>7. Leads(p \o ln, Received("CR", Plain(x, <<>>, old)), Plain(Prompt(ln), <<>>, old))
  <2>1. Leads(<<"prompt">> \o ln, st1, Plain(Prompt(ln), <<>>, old))
    BY <1>3, <1>6, LeadsFirst
  <2> QED BY <1>1, <2>1
<1>8. p \o ln \in Seq(Bytes)
  BY <1>3, ConcatProperties
<1>9. Leads(<<"CR">> \o (p \o ln), Plain(x, <<>>, old), Plain(Prompt(ln), <<>>, old))
  BY <1>3, <1>7, <1>8, LeadsFirst
<1>10. <<"CR", "prompt">> \o ln = <<"CR">> \o (p \o ln)
  <2>1. <<"CR">> \in Seq(Bytes) /\ <<"CR", "prompt">> = <<"CR">> \o p
    BY <1>3
  <2> QED BY <1>3, <2>1, ConcatAssociative
<1> QED BY <1>9, <1>10

LEMMA Concatenated ==
  ASSUME NEW a \in Bytes, NEW b \in Bytes, NEW c \in Bytes
  PROVE  <<a>> \o <<b>> = <<a, b>> /\ <<a>> \o <<b, c>> = <<a, b, c>>
<1>1. <<a>> \in Seq(Bytes) /\ <<b>> \in Seq(Bytes) /\ <<b, c>> \in Seq(Bytes)
      /\ <<a, b>> \in Seq(Bytes) /\ <<a, b, c>> \in Seq(Bytes)
  OBVIOUS
<1>2. <<a>> \o <<b>> = <<a, b>>
  <2> DEFINE x == <<a>> \o <<b>>
             y == <<a, b>>
  <2>1. Len(<<a>>) = 1 /\ Len(<<b>>) = 1 /\ <<a>>[1] = a /\ <<b>>[1] = b
    OBVIOUS
  <2>2. /\ x \in Seq(Bytes) /\ Len(x) = Len(<<a>>) + Len(<<b>>)
        /\ \A i \in 1..(Len(<<a>>) + Len(<<b>>)) :
             x[i] = IF i <= Len(<<a>>) THEN <<a>>[i] ELSE <<b>>[i - Len(<<a>>)]
    BY <1>1, ConcatProperties
  <2>3. Len(y) = 2 /\ y[1] = a /\ y[2] = b
    OBVIOUS
  <2> HIDE DEF x, y
  <2>4. x[1] = a /\ x[2] = b /\ Len(x) = 2
    BY <2>1, <2>2
  <2>5. \A i \in 1..Len(x) : i = 1 \/ i = 2
    BY <2>4
  <2>6. x = y
    BY <1>1, <2>2, <2>3, <2>4, <2>5, SeqEqual DEF y
  <2> QED BY <2>6 DEF x, y
<1>3. <<a>> \o <<b, c>> = <<a, b, c>>
  <2> DEFINE x == <<a>> \o <<b, c>>
             y == <<a, b, c>>
  <2>1. Len(<<a>>) = 1 /\ Len(<<b, c>>) = 2 /\ <<a>>[1] = a /\ <<b, c>>[1] = b
        /\ <<b, c>>[2] = c
    OBVIOUS
  <2>2. /\ x \in Seq(Bytes) /\ Len(x) = Len(<<a>>) + Len(<<b, c>>)
        /\ \A i \in 1..(Len(<<a>>) + Len(<<b, c>>)) :
             x[i] = IF i <= Len(<<a>>) THEN <<a>>[i] ELSE <<b, c>>[i - Len(<<a>>)]
    BY <1>1, ConcatProperties
  <2>3. Len(y) = 3 /\ y[1] = a /\ y[2] = b /\ y[3] = c
    OBVIOUS
  <2> HIDE DEF x, y
  <2>4. x[1] = a /\ x[2] = b /\ x[3] = c /\ Len(x) = 3
    BY <2>1, <2>2
  <2>5. \A i \in 1..Len(x) : i = 1 \/ i = 2 \/ i = 3
    BY <2>4
  <2>6. x = y
    BY <1>1, <2>2, <2>3, <2>4, <2>5, SeqEqual DEF y
  <2> QED BY <2>6 DEF x, y
<1> QED BY <1>2, <1>3

LEMMA EnterShown ==
  ASSUME NEW l \in Seq(Chars), NEW r \in Seq(Chars), NEW old
  PROVE  Leads(<<"CR", "NL", "prompt">>, Plain(Prompt(l), r, old),
               Plain(Prompt(<<>>), <<>>, Prompt(l \o r)))
<1> DEFINE st0 == Plain(Prompt(l), r, old)
           st1 == [st0 EXCEPT !.cr = TRUE]
           st2 == Plain(<<>>, <<>>, Prompt(l) \o r)
           st3 == Plain(<<"prompt">>, <<>>, Prompt(l) \o r)
<1>1. Received("CR", st0) = st1
  <2>1. Back("CR", st0) = st0
    BY DEF Back, Plain
  <2>2. Forward("CR", st0) = st0
    BY DEF Forward, Plain
  <2> QED BY <2>1, <2>2 DEF Received, Show
<1>2. Received("NL", st1) = st2
  <2>1. Back("NL", st1) = st1 /\ st1.line = Prompt(l) /\ st1.cursor = r
    BY DEF Back, Plain
  <2>2. Forward("NL", st1) = st1
    BY DEF Forward, Plain
  <2>3. Show("NL", st1)
        = [line |-> <<>>, cursor |-> <<>>, back |-> 0, forward |-> 0, cr |-> FALSE,
           listed |-> st1.line \o st1.cursor]
    BY DEF Show
  <2> QED BY <2>1, <2>2, <2>3 DEF Received, Plain
<1>3. Received("prompt", st2) = st3
  <2>1. <<>> \in Seq(Bytes) /\ "prompt" \in Text /\ Append(<<>>, "prompt") = <<"prompt">>
    BY LineTypes
  <2> DEFINE list2 == Prompt(l) \o r
  <2>2. Received("prompt", Plain(<<>>, <<>>, list2))
        = Plain(Append(<<>>, "prompt"), <<>>, list2)
    <3> HIDE DEF list2
    <3>1. \A ln \in Seq(Bytes) : \A b \in Text : \A c :
            Received(b, Plain(ln, c, list2)) = Plain(Append(ln, b), c, list2)
      BY PlainShows
    <3> QED BY <2>1, <3>1, Zenon
  <2> QED BY <2>1, <2>2
<1>4. Leads(<<"prompt">>, st2, st3)
  BY <1>3, LeadsOne
<1>5. "CR" \in Bytes /\ "NL" \in Bytes /\ "prompt" \in Bytes
  BY DEF Bytes
<1>6. <<"prompt">> \in Seq(Bytes) /\ <<"NL", "prompt">> \in Seq(Bytes)
  BY <1>5
<1> HIDE DEF st0, st1, st2, st3
<1>7. Leads(<<"NL">> \o <<"prompt">>, st1, st3)
  BY <1>2, <1>4, <1>5, <1>6, LeadsFirst
<1>8. <<"NL">> \o <<"prompt">> = <<"NL", "prompt">>
  BY <1>5, Concatenated
<1>9. Leads(<<"CR">> \o <<"NL", "prompt">>, st0, st3)
  BY <1>1, <1>5, <1>6, <1>7, <1>8, LeadsFirst
<1>10. <<"CR">> \o <<"NL", "prompt">> = <<"CR", "NL", "prompt">>
  BY <1>5, Concatenated
<1>11. Prompt(l) \o r = Prompt(l \o r) /\ Prompt(<<>>) = <<"prompt">>
  <2>1. l \in Seq(Bytes) /\ r \in Seq(Bytes) /\ <<"prompt">> \in Seq(Bytes)
    BY <1>6, LineTypes
  <2>2. (<<"prompt">> \o l) \o r = <<"prompt">> \o (l \o r)
    BY <2>1, ConcatAssociative
  <2>3. <<"prompt">> \o <<>> = <<"prompt">>
    BY <2>1, ConcatEmptySeq
  <2> QED BY <2>2, <2>3 DEF Prompt
<1> QED BY <1>9, <1>10, <1>11 DEF st0, st3

LEMMA LeftShown ==
  ASSUME NEW l \in Seq(Chars), NEW r \in Seq(Chars), NEW old, NEW n \in Nat, n > 0
  PROVE  /\ Received("BELL", At(Prompt(l), r, n, 0, old)) = At(Prompt(l), r, n - 1, 0, old)
         /\ l # <<>> => Received("BS", At(Prompt(l), r, n, 0, old))
                        = At(Prompt(Front(l)), <<Last(l)>> \o r, n - 1, 0, old)
<1> DEFINE st == At(Prompt(l), r, n, 0, old)
<1>1. st.back = n /\ n # 0
  BY DEF At
<1>2. Received("BELL", st) = At(Prompt(l), r, n - 1, 0, old)
  <2>1. Back("BELL", st) = At(Prompt(l), r, n - 1, 0, old)
    BY <1>1 DEF Back, At
  <2>2. Forward("BELL", At(Prompt(l), r, n - 1, 0, old)) = At(Prompt(l), r, n - 1, 0, old)
    BY DEF Forward, At
  <2> QED BY <2>1, <2>2 DEF Received, Show
<1>3. ASSUME l # <<>>
      PROVE  Received("BS", st) = At(Prompt(Front(l)), <<Last(l)>> \o r, n - 1, 0, old)
  <2> DEFINE c == <<Last(l)>> \o r
             st1 == At(Prompt(l), c, n - 1, 0, old)
  <2>1. Prompt(l) = Append(Prompt(Front(l)), Last(l)) /\ Prompt(Front(l)) \in Seq(Bytes)
        /\ Last(l) \in Bytes
    BY <1>3, FrontOfLine, LineTypes
  <2>2. Prompt(l) # <<>> /\ Front(Prompt(l)) = Prompt(Front(l)) /\ Last(Prompt(l)) = Last(l)
    BY <2>1, FrontOfAppend
  <2>3. LastOf(st.line) = <<Last(l)>>
    BY <2>2, Zenon DEF LastOf, At
  <2>4. Back("BS", st) = [st EXCEPT !.back = @ - 1, !.cursor = LastOf(st.line) \o @]
    BY <1>1 DEF Back
  <2> HIDE DEF c
  <2>5. [st EXCEPT !.back = @ - 1, !.cursor = LastOf(st.line) \o @] = st1
    <3>1. st.cursor = r /\ st.back = n
      BY DEF At
    <3>2. LastOf(st.line) \o st.cursor = c
      BY <2>3, <3>1 DEF c
    <3>3. [st EXCEPT !.back = @ - 1, !.cursor = LastOf(st.line) \o @]
          = [st EXCEPT !.back = n - 1, !.cursor = c]
      BY <3>1, <3>2
    <3>4. MovedBack(st, n - 1, c) = st1
      BY Moved
    <3> QED BY <3>3, <3>4, Zenon DEF MovedBack
  <2>6. Forward("BS", st1) = st1
    BY DEF Forward, At
  <2>7. Show("BS", st1) = [st1 EXCEPT !.line = MinusLast(@)]
    BY DEF Show
  <2>8. MinusLast(Prompt(l)) = Prompt(Front(l))
    BY <2>2, Zenon DEF MinusLast
  <2>9. [st1 EXCEPT !.line = MinusLast(@)] = At(Prompt(Front(l)), c, n - 1, 0, old)
    <3>1. st1.line = Prompt(l)
      BY DEF At
    <3>2. [st1 EXCEPT !.line = MinusLast(@)] = [st1 EXCEPT !.line = Prompt(Front(l))]
      BY <2>8, <3>1
    <3>3. \A u, m, z : SetLine(At(Prompt(l), c, m, z, old), u) = At(u, c, m, z, old)
      BY Changed
    <3> QED BY <3>2, <3>3, Zenon DEF SetLine
  <2>10. Back("BS", st) = st1
    BY <2>4, <2>5, Zenon
  <2>11. Show("BS", st1) = At(Prompt(Front(l)), c, n - 1, 0, old)
    BY <2>7, <2>9, Zenon
  <2> QED BY <2>6, <2>10, <2>11, Zenon DEF Received, c
<1> QED BY <1>2, <1>3

LEMMA RightShown ==
  ASSUME NEW l \in Seq(Chars), NEW r \in Seq(Chars), NEW old, NEW n \in Nat, n > 0
  PROVE  /\ Received("BELL", At(Prompt(l), r, 0, n, old)) = At(Prompt(l), r, 0, n - 1, old)
         /\ r # <<>> => Received(Head(r), At(Prompt(l), r, 0, n, old))
                        = At(Prompt(Append(l, Head(r))), Tail(r), 0, n - 1, old)
<1> DEFINE st == At(Prompt(l), r, 0, n, old)
<1>1. st.forward = n /\ n # 0 /\ st.back = 0
  BY DEF At
<1>2. \A b : Back(b, st) = st
  BY <1>1 DEF Back
<1>3. Received("BELL", st) = At(Prompt(l), r, 0, n - 1, old)
  <2>1. Forward("BELL", st) = At(Prompt(l), r, 0, n - 1, old)
    BY <1>1 DEF Forward, At
  <2> QED BY <1>2, <2>1 DEF Received, Show
<1>4. ASSUME r # <<>>
      PROVE  Received(Head(r), st) = At(Prompt(Append(l, Head(r))), Tail(r), 0, n - 1, old)
  <2> DEFINE k == Head(r)
             c == Tail(r)
             st1 == At(Prompt(l), c, 0, n - 1, old)
  <2>1. k \in Chars
    BY <1>4, HeadTailProperties
  <2>2. k # "BS" /\ k # "CR" /\ k # "NL" /\ k # "BELL"
    BY <2>1, LineTypes DEF Text
  <2>3. Prompt(Append(l, k)) = Append(Prompt(l), k)
    BY <2>1, PromptOfAppend
  <2>4. MinusHead(r) = c
    BY <1>4, Zenon DEF MinusHead
  <2> HIDE DEF k, c
  <2>5. Forward(k, st) = [st EXCEPT !.forward = @ - 1, !.cursor = MinusHead(@)]
    BY <1>1, <2>2 DEF Forward
  <2>6. [st EXCEPT !.forward = @ - 1, !.cursor = MinusHead(@)] = st1
    <3>1. st.cursor = r /\ st.forward = n
      BY DEF At
    <3>2. [st EXCEPT !.forward = @ - 1, !.cursor = MinusHead(@)]
          = [st EXCEPT !.forward = n - 1, !.cursor = c]
      BY <2>4, <3>1
    <3>3. MovedOn(st, n - 1, c) = st1
      BY Moved
    <3> QED BY <3>2, <3>3, Zenon DEF MovedOn
  <2>7. Show(k, st1) = [st1 EXCEPT !.line = Append(IF st1.cr THEN <<>> ELSE @, k), !.cr = FALSE]
    BY <2>2 DEF Show
  <2>8. [st1 EXCEPT !.line = Append(IF st1.cr THEN <<>> ELSE @, k), !.cr = FALSE]
        = At(Append(Prompt(l), k), c, 0, n - 1, old)
    <3>1. st1.line = Prompt(l) /\ st1.cr = FALSE
      BY DEF At
    <3>2. [st1 EXCEPT !.line = Append(IF st1.cr THEN <<>> ELSE @, k), !.cr = FALSE]
          = [st1 EXCEPT !.line = Append(Prompt(l), k), !.cr = FALSE]
      BY <3>1
    <3>3. \A u, m, z : Written(At(Prompt(l), c, z, m, old), u) = At(u, c, z, m, old)
      BY Changed
    <3> QED BY <3>2, <3>3, Zenon DEF Written
  <2>9. Received(k, st) = Show(k, Forward(k, st))
    BY <1>2 DEF Received
  <2> QED BY <2>3, <2>5, <2>6, <2>7, <2>8, <2>9 DEF k, c
<1> QED BY <1>3, <1>4

------------------------------------------------------------------------------
(* A key on the device, and in the browser.                                  *)

OtherKeys == {"Left", "Right", "Up", "Backspace", "Enter", "ControlA"}

LEMMA KeysAre ==
  Keys = Chars \cup OtherKeys /\ \A k \in Chars : k \notin OtherKeys
BY LineAssumption DEF Keys, Arrows, OtherKeys

LEMMA EditedChar ==
  ASSUME NEW l, NEW r, NEW k \in Chars, NEW e \in Edited(k, l, r)
  PROVE  \/ e = <<l, r, <<"BELL">>>>
         \/ e = <<Append(l, k), r, <<k>> \o r \o Repeat("BS", Len(r))>>
<1>1. Edited(k, l, r) = IF Len(l) + Len(r) = MaxLine THEN {<<l, r, <<"BELL">>>>}
        ELSE {<<Append(l, k), r, <<k>> \o r \o Repeat("BS", Len(r))>>}
  BY KeysAre, Zenon DEF Edited, OtherKeys
<1> QED BY <1>1, Zenon

LEMMA EditedBackspace ==
  ASSUME NEW l, NEW r, NEW e \in Edited("Backspace", l, r)
  PROVE  \/ e = <<l, r, <<"BELL">>>>
         \/ /\ l # <<>>
            /\ e = <<Front(l), r, <<"BS">> \o r \o <<"space">> \o Repeat("BS", Len(r) + 1)>>
<1>1. "Backspace" \notin Chars
  BY KeysAre DEF OtherKeys
<1>2. Edited("Backspace", l, r) = IF l = <<>> THEN {<<l, r, <<"BELL">>>>}
        ELSE {<<Front(l), r, <<"BS">> \o r \o <<"space">> \o Repeat("BS", Len(r) + 1)>>}
  BY <1>1, Zenon DEF Edited
<1> QED BY <1>2, Zenon

LEMMA EditedLeft ==
  ASSUME NEW l, NEW r, NEW e \in Edited("Left", l, r)
  PROVE  \/ e = <<l, r, <<"BELL">>>>
         \/ l # <<>> /\ e = <<Front(l), <<Last(l)>> \o r, <<"BS">>>>
<1>1. "Left" \notin Chars
  BY KeysAre DEF OtherKeys
<1>2. Edited("Left", l, r) = IF l = <<>> THEN {<<l, r, <<"BELL">>>>}
        ELSE {<<Front(l), <<Last(l)>> \o r, <<"BS">>>>}
  BY <1>1, Zenon DEF Edited
<1> QED BY <1>2, Zenon

LEMMA EditedRight ==
  ASSUME NEW l, NEW r, NEW e \in Edited("Right", l, r)
  PROVE  \/ e = <<l, r, <<"BELL">>>>
         \/ r # <<>> /\ e = <<Append(l, Head(r)), Tail(r), <<Head(r)>>>>
<1>1. "Right" \notin Chars
  BY KeysAre DEF OtherKeys
<1>2. Edited("Right", l, r) = IF r = <<>> THEN {<<l, r, <<"BELL">>>>}
        ELSE {<<Append(l, Head(r)), Tail(r), <<Head(r)>>>>}
  BY <1>1, Zenon DEF Edited
<1> QED BY <1>2, Zenon

LEMMA EditedUp ==
  ASSUME NEW l, NEW r, NEW e \in Edited("Up", l, r)
  PROVE  \E ln \in Recalled : e = <<ln, <<>>, <<"CR", "prompt">> \o ln>>
<1>1. "Up" \notin Chars
  BY KeysAre DEF OtherKeys
<1>2. Edited("Up", l, r) = {<<ln, <<>>, <<"CR", "prompt">> \o ln>> : ln \in Recalled}
  BY <1>1, Zenon DEF Edited
<1> QED BY <1>2, Zenon

LEMMA EditedEnter ==
  ASSUME NEW l, NEW r, NEW e \in Edited("Enter", l, r)
  PROVE  e = <<<<>>, <<>>, <<"CR", "NL", "prompt">>>>
<1>1. "Enter" \notin Chars
  BY KeysAre DEF OtherKeys
<1>2. Edited("Enter", l, r) = {<<<<>>, <<>>, <<"CR", "NL", "prompt">>>>}
  BY <1>1, Zenon DEF Edited
<1> QED BY <1>2, Zenon

LEMMA EditedControlA ==
  ASSUME NEW l, NEW r, NEW e \in Edited("ControlA", l, r)
  PROVE  e = <<<<>>, l \o r, Repeat("BS", Len(l))>>
<1>1. "ControlA" \notin Chars
  BY KeysAre DEF OtherKeys
<1>2. Edited("ControlA", l, r) = {<<<<>>, l \o r, Repeat("BS", Len(l))>>}
  BY <1>1, Zenon DEF Edited
<1> QED BY <1>2, Zenon

LEMMA RepeatIs ==
  ASSUME NEW n \in Nat
  PROVE  Repeat("BS", n) \in Seq(Bytes)
<1>1. "BS" \in Bytes
  BY DEF Bytes
<1>2. Repeat("BS", n) \in [1..n -> Bytes]
  BY <1>1 DEF Repeat
<1> QED BY <1>2

LEMMA EditedTypes ==
  ASSUME NEW l \in Seq(Chars), NEW r \in Seq(Chars), NEW k \in Keys, NEW e \in Edited(k, l, r)
  PROVE  e[1] \in Seq(Chars) /\ e[2] \in Seq(Chars) /\ e[3] \in Seq(Bytes)
<1>1. /\ l \in Seq(Bytes) /\ r \in Seq(Bytes) /\ Chars \subseteq Bytes
      /\ "BS" \in Bytes /\ "BELL" \in Bytes /\ "CR" \in Bytes /\ "NL" \in Bytes
      /\ "prompt" \in Bytes /\ "space" \in Bytes
  <2>1. /\ "BS" \in Bytes /\ "BELL" \in Bytes /\ "CR" \in Bytes /\ "NL" \in Bytes
        /\ "prompt" \in Bytes /\ "space" \in Bytes
    BY DEF Bytes
  <2> QED BY <2>1, LineTypes
<1>2. /\ <<"BELL">> \in Seq(Bytes) /\ <<"BS">> \in Seq(Bytes) /\ <<"space">> \in Seq(Bytes)
      /\ <<"CR", "prompt">> \in Seq(Bytes) /\ <<"CR", "NL", "prompt">> \in Seq(Bytes)
      /\ <<>> \in Seq(Chars)
  BY <1>1
<1>3. Len(l) \in Nat /\ Len(r) \in Nat /\ Len(r) + 1 \in Nat
  OBVIOUS
<1>4. ASSUME e = <<l, r, <<"BELL">>>>
      PROVE  e[1] \in Seq(Chars) /\ e[2] \in Seq(Chars) /\ e[3] \in Seq(Bytes)
  BY <1>2, <1>4
<1>5. CASE k \in Chars
  <2> DEFINE bs == Repeat("BS", Len(r))
             bytes == <<k>> \o r \o bs
  <2>1. e = <<l, r, <<"BELL">>>> \/ e = <<Append(l, k), r, bytes>>
    BY <1>5, EditedChar, Zenon
  <2>2. bs \in Seq(Bytes)
    BY <1>3, RepeatIs
  <2>3. bytes \in Seq(Bytes)
    <3>1. <<k>> \in Seq(Bytes)
      BY <1>1, <1>5
    <3> DEFINE y == <<k>> \o r
    <3>2. y \in Seq(Bytes)
      BY <1>1, <3>1, ConcatProperties
    <3> HIDE DEF y, bs
    <3>3. y \o bs \in Seq(Bytes)
      BY <2>2, <3>2, ConcatProperties
    <3> QED BY <3>3 DEF y
  <2>4. Append(l, k) \in Seq(Chars)
    BY <1>5
  <2> DEFINE x == Append(l, k)
  <2> HIDE DEF bytes, x
  <2>5. e = <<x, r, bytes>> => e[1] = x /\ e[2] = r /\ e[3] = bytes
    OBVIOUS
  <2> QED BY <1>4, <2>1, <2>3, <2>4, <2>5 DEF x
<1>6. CASE k = "Backspace"
  <2> DEFINE bs == Repeat("BS", Len(r) + 1)
             bytes == <<"BS">> \o r \o <<"space">> \o bs
  <2>1. e = <<l, r, <<"BELL">>>> \/ (l # <<>> /\ e = <<Front(l), r, bytes>>)
    BY <1>6, EditedBackspace, Zenon
  <2>2. bs \in Seq(Bytes)
    BY <1>3, RepeatIs
  <2>3. bytes \in Seq(Bytes)
    <3> DEFINE x == <<"BS">> \o r
               y == x \o <<"space">>
    <3>1. x \in Seq(Bytes)
      BY <1>1, <1>2, ConcatProperties
    <3> HIDE DEF x
    <3>2. y \in Seq(Bytes)
      BY <1>2, <3>1, ConcatProperties
    <3> HIDE DEF y, bs
    <3>3. y \o bs \in Seq(Bytes)
      BY <2>2, <3>2, ConcatProperties
    <3> QED BY <3>3 DEF x, y
  <2>4. l # <<>> => Front(l) \in Seq(Chars)
    BY FrontOfLine
  <2> HIDE DEF bytes
  <2> QED BY <1>4, <2>1, <2>3, <2>4
<1>7. CASE k = "Left"
  <2> DEFINE c == <<Last(l)>> \o r
  <2>1. e = <<l, r, <<"BELL">>>> \/ (l # <<>> /\ e = <<Front(l), c, <<"BS">>>>)
    BY <1>7, EditedLeft, Zenon
  <2>2. l # <<>> => Front(l) \in Seq(Chars) /\ <<Last(l)>> \in Seq(Chars)
    <3>1. l # <<>> => Front(l) \in Seq(Chars) /\ Last(l) \in Chars
      BY FrontOfLine
    <3> QED BY <3>1
  <2>3. l # <<>> => c \in Seq(Chars)
    BY <2>2, ConcatProperties
  <2> DEFINE x == Front(l)
  <2> HIDE DEF c, x
  <2>4. e = <<x, c, <<"BS">>>> => e[1] = x /\ e[2] = c /\ e[3] = <<"BS">>
    OBVIOUS
  <2> QED BY <1>2, <1>4, <2>1, <2>2, <2>3, <2>4 DEF x
<1>8. CASE k = "Right"
  <2>1. e = <<l, r, <<"BELL">>>>
        \/ (r # <<>> /\ e = <<Append(l, Head(r)), Tail(r), <<Head(r)>>>>)
    BY <1>8, EditedRight, Zenon
  <2>2. r # <<>> => Head(r) \in Chars /\ Tail(r) \in Seq(Chars)
    BY HeadTailProperties
  <2>3. r # <<>> => Append(l, Head(r)) \in Seq(Chars) /\ <<Head(r)>> \in Seq(Bytes)
    BY <1>1, <2>2
  <2> DEFINE x == Append(l, Head(r))
             y == Tail(r)
             b == <<Head(r)>>
  <2> HIDE DEF x, y, b
  <2>4. e = <<x, y, b>> => e[1] = x /\ e[2] = y /\ e[3] = b
    OBVIOUS
  <2> QED BY <1>4, <2>1, <2>2, <2>3, <2>4 DEF x, y, b
<1>9. CASE k = "Up"
  <2>1. PICK ln \in Recalled : e = <<ln, <<>>, <<"CR", "prompt">> \o ln>>
    BY <1>9, EditedUp, Zenon
  <2>2. ln \in Seq(Chars) /\ ln \in Seq(Bytes)
    BY LineAssumption, LineTypes
  <2> DEFINE bytes == <<"CR", "prompt">> \o ln
  <2>3. bytes \in Seq(Bytes)
    BY <1>2, <2>2, ConcatProperties
  <2> HIDE DEF bytes
  <2> QED BY <1>2, <2>1, <2>2, <2>3 DEF bytes
<1>10. CASE k = "Enter"
  <2>1. e = <<<<>>, <<>>, <<"CR", "NL", "prompt">>>>
    BY <1>10, EditedEnter, Zenon
  <2> QED BY <1>2, <2>1
<1>11. CASE k = "ControlA"
  <2> DEFINE c == l \o r
             bs == Repeat("BS", Len(l))
  <2>1. e = <<<<>>, c, bs>>
    BY <1>11, EditedControlA, Zenon
  <2>2. c \in Seq(Chars) /\ bs \in Seq(Bytes)
    BY <1>3, RepeatIs, ConcatProperties
  <2> HIDE DEF c, bs
  <2> QED BY <1>2, <2>1, <2>2
<1>12. k \in Chars \cup OtherKeys
  BY KeysAre
<1> QED BY <1>5, <1>6, <1>7, <1>8, <1>9, <1>10, <1>11, <1>12 DEF OtherKeys

LEMMA EditedIsTriple ==
  ASSUME NEW l, NEW r, NEW k \in Keys, NEW e \in Edited(k, l, r)
  PROVE  e = <<e[1], e[2], e[3]>>
<1>1. \A x, y, z : e = <<x, y, z>> => e = <<e[1], e[2], e[3]>>
  OBVIOUS
<1> DEFINE Triple == e = <<e[1], e[2], e[3]>>
<1>2. \A x, y, z : e = <<x, y, z>> => Triple
  BY <1>1
<1>3. CASE k \in Chars
  <2> DEFINE bell == <<l, r, <<"BELL">>>>
             x == Append(l, k)
             y == r
             z == <<k>> \o r \o Repeat("BS", Len(r))
             done == <<x, y, z>>
  <2>1. e = bell \/ e = done
    BY <1>3, EditedChar, Zenon
  <2>2. e = bell => Triple
    BY <1>2
  <2>3. e = done => Triple
    <3> HIDE DEF x, y, z
    <3> QED BY <1>2
  <2> HIDE DEF bell, done
  <2> QED BY <2>1, <2>2, <2>3
<1>4. CASE k = "Backspace"
  <2> DEFINE bell == <<l, r, <<"BELL">>>>
             x == Front(l)
             y == r
             z == <<"BS">> \o r \o <<"space">> \o Repeat("BS", Len(r) + 1)
             done == <<x, y, z>>
  <2>1. e = bell \/ e = done
    BY <1>4, EditedBackspace, Zenon
  <2>2. e = bell => Triple
    BY <1>2
  <2>3. e = done => Triple
    <3> HIDE DEF x, y, z
    <3> QED BY <1>2
  <2> HIDE DEF bell, done
  <2> QED BY <2>1, <2>2, <2>3
<1>5. CASE k = "Left"
  <2> DEFINE bell == <<l, r, <<"BELL">>>>
             x == Front(l)
             y == <<Last(l)>> \o r
             z == <<"BS">>
             done == <<x, y, z>>
  <2>1. e = bell \/ e = done
    BY <1>5, EditedLeft, Zenon
  <2>2. e = bell => Triple
    BY <1>2
  <2>3. e = done => Triple
    <3> HIDE DEF x, y, z
    <3> QED BY <1>2
  <2> HIDE DEF bell, done
  <2> QED BY <2>1, <2>2, <2>3
<1>6. CASE k = "Right"
  <2> DEFINE bell == <<l, r, <<"BELL">>>>
             x == Append(l, Head(r))
             y == Tail(r)
             z == <<Head(r)>>
             done == <<x, y, z>>
  <2>1. e = bell \/ e = done
    BY <1>6, EditedRight, Zenon
  <2>2. e = bell => Triple
    BY <1>2
  <2>3. e = done => Triple
    <3> HIDE DEF x, y, z
    <3> QED BY <1>2
  <2> HIDE DEF bell, done
  <2> QED BY <2>1, <2>2, <2>3
<1>7. CASE k = "Up"
  <2>1. PICK ln \in Recalled : e = <<ln, <<>>, <<"CR", "prompt">> \o ln>>
    BY <1>7, EditedUp, Zenon
  <2> QED BY <1>2, <2>1, Zenon
<1>8. CASE k = "Enter"
  <2>1. e = <<<<>>, <<>>, <<"CR", "NL", "prompt">>>>
    BY <1>8, EditedEnter, Zenon
  <2> QED BY <1>2, <2>1, Zenon
<1>9. CASE k = "ControlA"
  <2>1. e = <<<<>>, l \o r, Repeat("BS", Len(l))>>
    BY <1>9, EditedControlA, Zenon
  <2> QED BY <1>2, <2>1, Zenon
<1>10. Triple
  <2>1. k \in Chars \cup OtherKeys
    BY KeysAre
  <2> QED BY <1>3, <1>4, <1>5, <1>6, <1>7, <1>8, <1>9, <2>1 DEF OtherKeys
<1> QED BY <1>10

LEMMA PlainIs ==
  \A ln, cursor, old : Plain(ln, cursor, old) = At(ln, cursor, 0, 0, old)
BY Zenon DEF Plain, At

\* The cursor as the browser has it before the echo of a key.
Hidden(k, r) == IF k = "Up" THEN <<>> ELSE r

\* What the browser makes of a key is what the device made of it.
LEMMA CharIsShown ==
  ASSUME NEW l \in Seq(Chars), NEW r \in Seq(Chars), NEW k \in Chars, NEW e \in Edited(k, l, r),
         NEW old
  PROVE  Message(e[3], At(Prompt(l), r, 0, 0, old)) = At(Prompt(e[1]), e[2], 0, 0, old)
<1> DEFINE bytes == <<k>> \o r \o Repeat("BS", Len(r))
<1>1. Len(e[3]) \in Nat
  <2>1. k \in Keys
    BY KeysAre
  <2> QED BY <2>1, EditedTypes
<1>2. Prompt(l) \in Seq(Bytes)
  BY LineTypes
<1>3. Leads(e[3], Plain(Prompt(l), r, old), Plain(Prompt(e[1]), e[2], old))
  <2>1. CASE e = <<l, r, <<"BELL">>>>
    <3>1. e[1] = l /\ e[2] = r /\ e[3] = <<"BELL">>
      BY <2>1
    <3>2. Received("BELL", Plain(Prompt(l), r, old)) = Plain(Prompt(l), r, old)
      BY <1>2, PlainShows
    <3>3. Leads(<<"BELL">>, Plain(Prompt(l), r, old), Received("BELL", Plain(Prompt(l), r, old)))
      BY LeadsOne
    <3> QED BY <3>1, <3>2, <3>3
  <2>2. CASE e = <<Append(l, k), r, bytes>>
    <3> DEFINE x == Append(l, k)
    <3>1. Leads(bytes, Plain(Prompt(l), r, old), Plain(Prompt(x), r, old))
      BY CharShown
    <3> HIDE DEF x, bytes
    <3>2. e[1] = x /\ e[2] = r /\ e[3] = bytes
      BY <2>2 DEF x
    <3> QED BY <3>1, <3>2
  <2> QED BY <2>1, <2>2, EditedChar
<1>4. Message(e[3], Plain(Prompt(l), r, old)) = Plain(Prompt(e[1]), e[2], old)
  BY <1>1, <1>3, LeadsIs
<1> QED BY <1>4, PlainIs, Zenon

LEMMA BackspaceIsShown ==
  ASSUME NEW l \in Seq(Chars), NEW r \in Seq(Chars), NEW e \in Edited("Backspace", l, r), NEW old
  PROVE  Message(e[3], At(Prompt(l), r, 0, 0, old)) = At(Prompt(e[1]), e[2], 0, 0, old)
<1> DEFINE bytes == <<"BS">> \o r \o <<"space">> \o Repeat("BS", Len(r) + 1)
<1>1. Len(e[3]) \in Nat
  <2>1. "Backspace" \in Keys
    BY DEF Keys
  <2> QED BY <2>1, EditedTypes
<1>2. Prompt(l) \in Seq(Bytes)
  BY LineTypes
<1>3. Leads(e[3], Plain(Prompt(l), r, old), Plain(Prompt(e[1]), e[2], old))
  <2>1. CASE e = <<l, r, <<"BELL">>>>
    <3>1. e[1] = l /\ e[2] = r /\ e[3] = <<"BELL">>
      BY <2>1
    <3>2. Received("BELL", Plain(Prompt(l), r, old)) = Plain(Prompt(l), r, old)
      BY <1>2, PlainShows
    <3>3. Leads(<<"BELL">>, Plain(Prompt(l), r, old), Received("BELL", Plain(Prompt(l), r, old)))
      BY LeadsOne
    <3> QED BY <3>1, <3>2, <3>3
  <2>2. CASE l # <<>> /\ e = <<Front(l), r, bytes>>
    <3> DEFINE x == Front(l)
    <3>1. Leads(bytes, Plain(Prompt(l), r, old), Plain(Prompt(x), r, old))
      BY <2>2, BackspaceShown
    <3> HIDE DEF x, bytes
    <3>2. e[1] = x /\ e[2] = r /\ e[3] = bytes
      BY <2>2 DEF x
    <3> QED BY <3>1, <3>2
  <2> QED BY <2>1, <2>2, EditedBackspace
<1>4. Message(e[3], Plain(Prompt(l), r, old)) = Plain(Prompt(e[1]), e[2], old)
  BY <1>1, <1>3, LeadsIs
<1> QED BY <1>4, PlainIs, Zenon

LEMMA UpIsShown ==
  ASSUME NEW l \in Seq(Chars), NEW r \in Seq(Chars), NEW e \in Edited("Up", l, r), NEW old
  PROVE  Message(e[3], At(Prompt(l), <<>>, 0, 0, old)) = At(Prompt(e[1]), e[2], 0, 0, old)
<1>1. Len(e[3]) \in Nat
  <2>1. "Up" \in Keys
    BY DEF Keys
  <2> QED BY <2>1, EditedTypes
<1>2. Prompt(l) \in Seq(Bytes)
  BY LineTypes
<1>3. PICK ln \in Recalled : e = <<ln, <<>>, <<"CR", "prompt">> \o ln>>
  BY EditedUp, Zenon
<1> DEFINE bytes == <<"CR", "prompt">> \o ln
           none == <<>>
<1>4. ln \in Seq(Chars)
  BY LineAssumption
<1>5. Leads(bytes, Plain(Prompt(l), none, old), Plain(Prompt(ln), none, old))
  BY <1>2, <1>4, UpShown
<1>6. e = <<ln, none, bytes>>
  BY <1>3
<1> HIDE DEF bytes, none
<1>7. e[1] = ln /\ e[2] = none /\ e[3] = bytes
  BY <1>6
<1>8. Message(e[3], Plain(Prompt(l), none, old)) = Plain(Prompt(e[1]), e[2], old)
  BY <1>1, <1>5, <1>7, LeadsIs
<1>9. Message(e[3], At(Prompt(l), none, 0, 0, old)) = At(Prompt(e[1]), e[2], 0, 0, old)
  BY <1>8, PlainIs, Zenon
<1> QED BY <1>9 DEF none

LEMMA EnterIsShown ==
  ASSUME NEW l \in Seq(Chars), NEW r \in Seq(Chars), NEW e \in Edited("Enter", l, r), NEW old
  PROVE  Message(e[3], At(Prompt(l), r, 0, 0, old))
         = At(Prompt(e[1]), e[2], 0, 0, Prompt(l \o r))
<1>1. Len(e[3]) \in Nat
  <2>1. "Enter" \in Keys
    BY DEF Keys
  <2> QED BY <2>1, EditedTypes
<1>2. e = <<<<>>, <<>>, <<"CR", "NL", "prompt">>>>
  BY EditedEnter, Zenon
<1> DEFINE bytes == <<"CR", "NL", "prompt">>
           none == <<>>
           new == Prompt(l \o r)
<1>3. Leads(bytes, Plain(Prompt(l), r, old), Plain(Prompt(none), none, new))
  BY EnterShown
<1>4. e = <<none, none, bytes>>
  BY <1>2
<1> HIDE DEF bytes, none, new
<1>5. e[1] = none /\ e[2] = none /\ e[3] = bytes
  BY <1>4
<1>6. Message(e[3], Plain(Prompt(l), r, old)) = Plain(Prompt(e[1]), e[2], new)
  BY <1>1, <1>3, <1>5, LeadsIs
<1>7. Message(e[3], At(Prompt(l), r, 0, 0, old)) = At(Prompt(e[1]), e[2], 0, 0, new)
  BY <1>6, PlainIs, Zenon
<1> QED BY <1>7 DEF new

\* A message of one byte.
LEMMA MessageOne ==
  ASSUME NEW b \in Bytes, NEW st
  PROVE  Message(<<b>>, st) = Received(b, st)
<1>1. Len(<<b>>) \in Nat
  OBVIOUS
<1> DEFINE bytes == <<b>>
           next == Received(b, st)
<1>2. Leads(bytes, st, next)
  BY LeadsOne
<1> HIDE DEF bytes, next
<1>3. Message(bytes, st) = next
  BY <1>1, <1>2, LeadsIs DEF bytes
<1> QED BY <1>3 DEF bytes, next

LEMMA LeftIsShown ==
  ASSUME NEW l \in Seq(Chars), NEW r \in Seq(Chars), NEW e \in Edited("Left", l, r), NEW old,
         NEW n \in Nat, n > 0
  PROVE  Message(e[3], At(Prompt(l), r, n, 0, old)) = At(Prompt(e[1]), e[2], n - 1, 0, old)
<1>1. "BELL" \in Bytes /\ "BS" \in Bytes
  BY DEF Bytes
<1>2. CASE e = <<l, r, <<"BELL">>>>
  <2>1. e[1] = l /\ e[2] = r /\ e[3] = <<"BELL">>
    BY <1>2
  <2>2. Received("BELL", At(Prompt(l), r, n, 0, old)) = At(Prompt(l), r, n - 1, 0, old)
    BY LeftShown
  <2>3. Message(<<"BELL">>, At(Prompt(l), r, n, 0, old))
        = Received("BELL", At(Prompt(l), r, n, 0, old))
    BY <1>1, MessageOne
  <2> QED BY <2>1, <2>2, <2>3
<1>3. CASE l # <<>> /\ e = <<Front(l), <<Last(l)>> \o r, <<"BS">>>>
  <2> DEFINE x == Front(l)
             c == <<Last(l)>> \o r
  <2>1. Received("BS", At(Prompt(l), r, n, 0, old)) = At(Prompt(x), c, n - 1, 0, old)
    BY <1>3, LeftShown
  <2>2. Message(<<"BS">>, At(Prompt(l), r, n, 0, old))
        = Received("BS", At(Prompt(l), r, n, 0, old))
    BY <1>1, MessageOne
  <2> HIDE DEF x, c
  <2>3. e[1] = x /\ e[2] = c /\ e[3] = <<"BS">>
    BY <1>3 DEF x, c
  <2> QED BY <2>1, <2>2, <2>3
<1> QED BY <1>2, <1>3, EditedLeft

LEMMA RightIsShown ==
  ASSUME NEW l \in Seq(Chars), NEW r \in Seq(Chars), NEW e \in Edited("Right", l, r), NEW old,
         NEW n \in Nat, n > 0
  PROVE  Message(e[3], At(Prompt(l), r, 0, n, old)) = At(Prompt(e[1]), e[2], 0, n - 1, old)
<1>1. "BELL" \in Bytes
  BY DEF Bytes
<1>2. CASE e = <<l, r, <<"BELL">>>>
  <2>1. e[1] = l /\ e[2] = r /\ e[3] = <<"BELL">>
    BY <1>2
  <2>2. Received("BELL", At(Prompt(l), r, 0, n, old)) = At(Prompt(l), r, 0, n - 1, old)
    BY RightShown
  <2>3. Message(<<"BELL">>, At(Prompt(l), r, 0, n, old))
        = Received("BELL", At(Prompt(l), r, 0, n, old))
    BY <1>1, MessageOne
  <2> QED BY <2>1, <2>2, <2>3
<1>3. CASE r # <<>> /\ e = <<Append(l, Head(r)), Tail(r), <<Head(r)>>>>
  <2> DEFINE k == Head(r)
             x == Append(l, Head(r))
             c == Tail(r)
             bytes == <<k>>
  <2>1. Received(k, At(Prompt(l), r, 0, n, old)) = At(Prompt(x), c, 0, n - 1, old)
    BY <1>3, RightShown
  <2>2. k \in Bytes
    BY <1>3, HeadTailProperties, LineTypes
  <2>3. Message(bytes, At(Prompt(l), r, 0, n, old)) = Received(k, At(Prompt(l), r, 0, n, old))
    BY <2>2, MessageOne
  <2>4. e = <<x, c, bytes>>
    BY <1>3
  <2> HIDE DEF k, x, c, bytes
  <2>5. e[1] = x /\ e[2] = c /\ e[3] = bytes
    BY <2>4
  <2> QED BY <2>1, <2>3, <2>5
<1> QED BY <1>2, <1>3, EditedRight

------------------------------------------------------------------------------
(* What the device has done, the browser will come to.                       *)

Echoes == [key: Keys, bytes: Seq(Bytes)]

LineTyped ==
  /\ left \in Seq(Chars) /\ right \in Seq(Chars) /\ entered \in Seq(Chars)
  /\ typed \in Seq(Keys) /\ echoed \in Seq(Echoes)

\* The keys that are not echoed in the browser, in their order.
Awaited == Len(echoed) + Len(typed)
KeyAt(i) == IF i <= Len(echoed) THEN echoed[i].key ELSE typed[i - Len(echoed)]

\* p arrows of one direction, and then other keys; a line is recalled only before any.
KeysInOrder(p, dir) ==
  /\ \A i \in 1..Awaited : /\ i <= p => KeyAt(i) = dir
                           /\ i > p => KeyAt(i) \notin {"Left", "Right", "ControlA"}
                           /\ KeyAt(i) = "Up" => i = 1
  /\ backCount = IF dir = "Left" THEN p ELSE 0
  /\ forwardCount = IF dir = "Right" THEN p ELSE 0

Ordered == \E p \in 0..Awaited, dir \in Arrows : KeysInOrder(p, dir)

\* The device before and after an echo: its line, and the line entered last.
Lines == [left: Seq(Chars), right: Seq(Chars), entered: Seq(Chars)]

Follows(v, w, e) ==
  /\ <<w.left, w.right, e.bytes>> \in Edited(e.key, v.left, v.right)
  /\ w.entered = IF e.key = "Enter" THEN v.left \o v.right ELSE v.entered

\* The browser shows the line that is the first of D, and the messages lead
\* through the others to the line of the device.
Traces(D) ==
  /\ D \in [0..Len(echoed) -> Lines]
  /\ D[Len(echoed)] = [left |-> left, right |-> right, entered |-> entered]
  /\ \A i \in 1..Len(echoed) : Follows(D[i - 1], D[i], echoed[i])
  /\ lineBuffer = Prompt(D[0].left) /\ listed = Prompt(D[0].entered) /\ gotCR = FALSE
  /\ cursorBuffer = IF Awaited > 0 /\ KeyAt(1) = "Up" THEN <<>> ELSE D[0].right

LineInv == LineTyped /\ (guessed = {} => Ordered /\ \E D : Traces(D))

LEMMA LineInitially == LineInit => LineInv
<1> SUFFICES ASSUME LineInit
             PROVE  LineInv
  OBVIOUS
<1>1. LineTyped
  BY DEF LineInit, LineTyped
<1>2. Len(echoed) = 0 /\ Len(typed) = 0 /\ Awaited = 0
  BY DEF LineInit, Awaited
<1>3. Ordered
  <2>1. KeysInOrder(0, "Left")
    BY <1>2 DEF KeysInOrder, LineInit
  <2> QED BY <1>2, <2>1 DEF Ordered, Arrows
<1> DEFINE none == [left |-> left, right |-> right, entered |-> entered]
           D == [i \in 0..0 |-> none]
<1>4. none \in Lines
  BY <1>1 DEF LineTyped, Lines
<1>5. none.left = <<>> /\ none.right = <<>> /\ none.entered = <<>>
  BY DEF LineInit
<1>6. Prompt(<<>>) = <<"prompt">>
  <2>1. "prompt" \in Bytes
    BY DEF Bytes
  <2>2. <<"prompt">> \in Seq(Bytes)
    BY <2>1
  <2> QED BY <2>2, ConcatEmptySeq DEF Prompt
<1> HIDE DEF none
<1>7. D \in [0..0 -> Lines] /\ D[0] = none
  BY <1>4
<1> HIDE DEF D
<1>8. Traces(D)
  <2>1. lineBuffer = Prompt(D[0].left) /\ listed = Prompt(D[0].entered) /\ gotCR = FALSE
    BY <1>5, <1>6, <1>7 DEF LineInit
  <2>2. cursorBuffer = IF Awaited > 0 /\ KeyAt(1) = "Up" THEN <<>> ELSE D[0].right
    BY <1>2, <1>5, <1>7 DEF LineInit
  <2> QED BY <1>2, <1>7, <2>1, <2>2 DEF Traces, none
<1> QED BY <1>1, <1>3, <1>8 DEF LineInv

LEMMA KeyTypes ==
  ASSUME LineTyped
  PROVE  /\ Len(echoed) \in Nat /\ Len(typed) \in Nat /\ Awaited \in Nat
         /\ \A i \in 1..Awaited : KeyAt(i) \in Keys
<1>1. Len(echoed) \in Nat /\ Len(typed) \in Nat /\ Awaited \in Nat
  BY DEF LineTyped, Awaited
<1>2. ASSUME NEW i \in 1..Awaited
      PROVE  KeyAt(i) \in Keys
  <2>1. CASE i <= Len(echoed)
    <3>1. i \in 1..Len(echoed)
      BY <1>1, <2>1
    <3>2. echoed[i] \in Echoes
      BY <3>1, ElementOfSeq DEF LineTyped
    <3> QED BY <2>1, <3>2 DEF KeyAt, Echoes
  <2>2. CASE ~(i <= Len(echoed))
    <3>1. i - Len(echoed) \in 1..Len(typed)
      BY <1>1, <2>2 DEF Awaited
    <3>2. typed[i - Len(echoed)] \in Keys
      BY <3>1, ElementOfSeq DEF LineTyped
    <3> QED BY <2>2, <3>2 DEF KeyAt
  <2> QED BY <2>1, <2>2
<1> QED BY <1>1, <1>2

LEMMA LineKeyDown ==
  ASSUME LineInv, NEW k \in Keys, handleKeyDown(k)
  PROVE  LineInv'
<1>1. /\ typed' = Append(typed, k) /\ guessed = {}
      /\ sendKeyCode(k) \/ ArrowUp(k) \/ ArrowLeft(k) \/ ArrowRight(k)
      /\ left' = left /\ right' = right /\ echoed' = echoed /\ lineBuffer' = lineBuffer
      /\ gotCR' = gotCR /\ entered' = entered /\ listed' = listed
  BY DEF handleKeyDown, remote
<1>2. LineTyped /\ Ordered
  BY <1>1 DEF LineInv
<1>3. LineTyped'
  <2>1. typed' \in Seq(Keys)
    BY <1>1, <1>2 DEF LineTyped
  <2> QED BY <1>1, <1>2, <2>1 DEF LineTyped
<1>4. PICK D : Traces(D)
  BY <1>1 DEF LineInv
<1>5. PICK p \in 0..Awaited, dir \in Arrows : KeysInOrder(p, dir)
  BY <1>2 DEF Ordered
<1>6. Len(echoed) \in Nat /\ Len(typed) \in Nat /\ Awaited \in Nat
  BY <1>2, KeyTypes
<1>7. /\ Len(typed') = Len(typed) + 1 /\ typed'[Len(typed) + 1] = k
      /\ \A i \in 1..Len(typed) : typed'[i] = typed[i]
  BY <1>1, <1>2, AppendProperties DEF LineTyped
<1>8. Awaited' = Awaited + 1
  BY <1>1, <1>6, <1>7 DEF Awaited
<1>9. \A i \in 1..Awaited : KeyAt(i)' = KeyAt(i)
  <2> TAKE i \in 1..Awaited
  <2>1. CASE i <= Len(echoed)
    BY <1>1, <2>1 DEF KeyAt
  <2>2. CASE ~(i <= Len(echoed))
    <3>1. i - Len(echoed) \in 1..Len(typed)
      BY <1>6, <2>2 DEF Awaited
    <3> QED BY <1>1, <1>7, <2>2, <3>1 DEF KeyAt
  <2> QED BY <2>1, <2>2
<1>0. PICK last \in Nat : last = Awaited + 1
  BY <1>6
<1>10. KeyAt(last)' = k
  <2>1. ~(last <= Len(echoed)) /\ last - Len(echoed) = Len(typed) + 1
    BY <1>0, <1>6 DEF Awaited
  <2> QED BY <1>1, <1>7, <2>1 DEF KeyAt
<1>11. \A i \in 1..(Awaited + 1) : i \in 1..Awaited \/ i = Awaited + 1
  BY <1>6
<1>12. ASSUME guessed' = {}
       PROVE  /\ Ordered'
              /\ cursorBuffer' = IF k = "Up" THEN <<>> ELSE cursorBuffer
              /\ k = "Up" => Awaited = 0
  <2>1. CASE sendKeyCode(k)
    <3>1. /\ k \notin Arrows \cup {"Up"} /\ cursorBuffer' = cursorBuffer
          /\ backCount' = backCount /\ forwardCount' = forwardCount
      BY <2>1 DEF sendKeyCode
    <3>2. k # "ControlA"
      <4>1. k = "ControlA" => guessed' = guessed \cup {"control"}
        BY <2>1 DEF sendKeyCode
      <4> QED BY <1>12, <4>1
    <3>3. ASSUME NEW i \in 1..(Awaited + 1)
          PROVE  /\ i <= p => KeyAt(i)' = dir
                 /\ i > p => KeyAt(i)' \notin {"Left", "Right", "ControlA"}
                 /\ KeyAt(i)' = "Up" => i = 1
      <4>1. CASE i \in 1..Awaited
        BY <1>5, <1>9, <4>1 DEF KeysInOrder
      <4>2. CASE i = Awaited + 1
        <5>1. ~(i <= p) /\ KeyAt(i)' = k
          BY <1>0, <1>5, <1>6, <1>10, <4>2
        <5> QED BY <3>1, <3>2, <5>1 DEF Arrows
      <4> QED BY <1>11, <4>1, <4>2
    <3>4. p \in 0..(Awaited + 1)
      BY <1>5, <1>6
    <3>5. KeysInOrder(p, dir)'
      BY <1>5, <1>8, <3>1, <3>3 DEF KeysInOrder
    <3>6. Ordered'
      BY <1>5, <1>8, <3>4, <3>5 DEF Ordered
    <3>7. k # "Up"
      BY <3>1
    <3> QED BY <3>1, <3>6, <3>7
  <2>2. CASE ArrowUp(k)
    <3>1. k = "Up" /\ cursorBuffer' = <<>> /\ backCount' = 0 /\ forwardCount' = 0
      BY <2>2 DEF ArrowUp, resetCursorBuffer
    <3>2. Outstanding = {}
      <4>1. Outstanding # {} => guessed' = guessed \cup {"ahead"}
        BY <2>2 DEF ArrowUp
      <4> QED BY <1>12, <4>1
    <3>3. Awaited = 0
      <4>1. Len(echoed) = 0
        <5>1. \A i \in DOMAIN echoed : FALSE
          BY <3>2 DEF Outstanding
        <5>2. DOMAIN echoed = 1..Len(echoed)
          BY <1>2 DEF LineTyped
        <5>3. Len(echoed) > 0 => 1 \in 1..Len(echoed)
          BY <1>6
        <5> QED BY <1>6, <5>1, <5>2, <5>3
      <4>2. Len(typed) = 0
        <5>1. \A i \in DOMAIN typed : FALSE
          BY <3>2 DEF Outstanding, Range
        <5>2. DOMAIN typed = 1..Len(typed)
          BY <1>2 DEF LineTyped
        <5>3. Len(typed) > 0 => 1 \in 1..Len(typed)
          BY <1>6
        <5> QED BY <1>6, <5>1, <5>2, <5>3
      <4> QED BY <4>1, <4>2 DEF Awaited
    <3>4. \A i \in 1..(Awaited + 1) : i = 1 /\ KeyAt(i)' = "Up" /\ i > 0 /\ ~(i <= 0)
      BY <1>0, <1>10, <3>1, <3>3
    <3>5. KeysInOrder(0, dir)'
      BY <1>8, <3>1, <3>4 DEF KeysInOrder
    <3>6. 0 \in 0..(Awaited + 1)
      BY <1>6
    <3>7. Ordered'
      BY <1>5, <1>8, <3>5, <3>6 DEF Ordered
    <3> QED BY <3>1, <3>3, <3>7
  <2>3. ASSUME k \in Arrows, guessed' = GuessedArrow
        PROVE  p = Awaited
    <3>1. Outstanding \subseteq Arrows
      <4>1. ~(Outstanding \subseteq Arrows) => guessed' = guessed \cup {"ahead"}
        BY <2>3 DEF GuessedArrow
      <4> QED BY <1>12, <4>1
    <3>2. ASSUME p # Awaited
          PROVE  FALSE
      <4>1. Awaited \in 1..Awaited /\ Awaited > p
        BY <1>5, <1>6, <3>2
      <4>2. KeyAt(Awaited) \notin Arrows
        BY <1>5, <4>1 DEF KeysInOrder, Arrows
      <4>3. KeyAt(Awaited) \in Outstanding
        <5>1. CASE Awaited <= Len(echoed)
          <6>1. Awaited \in DOMAIN echoed
            BY <1>2, <1>6, <4>1, <5>1 DEF LineTyped
          <6> QED BY <5>1, <6>1 DEF KeyAt, Outstanding
        <5>2. CASE ~(Awaited <= Len(echoed))
          <6>1. Awaited - Len(echoed) \in 1..Len(typed)
            BY <1>6, <5>2 DEF Awaited
          <6>2. Awaited - Len(echoed) \in DOMAIN typed
            BY <1>2, <6>1 DEF LineTyped
          <6> QED BY <5>2, <6>2 DEF KeyAt, Outstanding, Range
        <5> QED BY <5>1, <5>2
      <4> QED BY <3>1, <4>2, <4>3
    <3> QED BY <3>2
  <2>4. ASSUME k \in Arrows, p = Awaited, p > 0 => dir = k,
               backCount' = IF k = "Left" THEN p + 1 ELSE 0,
               forwardCount' = IF k = "Right" THEN p + 1 ELSE 0
        PROVE  Ordered'
    <3>1. ASSUME NEW i \in 1..(Awaited + 1)
          PROVE  KeyAt(i)' = k
      <4>1. CASE i \in 1..Awaited
        <5>1. p > 0 /\ i <= p
          BY <1>6, <2>4, <4>1
        <5> QED BY <1>5, <1>9, <2>4, <4>1, <5>1 DEF KeysInOrder
      <4>2. CASE i = Awaited + 1
        BY <1>0, <1>10, <4>2
      <4> QED BY <1>11, <4>1, <4>2
    <3>2. \A i \in 1..(Awaited + 1) : i <= p + 1 /\ ~(i > p + 1)
      BY <1>6, <2>4
    <3>3. k # "Up"
      BY <2>4 DEF Arrows
    <3>4. KeysInOrder(p + 1, k)'
      BY <1>8, <2>4, <3>1, <3>2, <3>3 DEF KeysInOrder
    <3>5. p + 1 \in 0..(Awaited + 1)
      BY <1>6, <2>4
    <3> QED BY <1>8, <2>4, <3>4, <3>5 DEF Ordered
  <2>5. CASE ArrowLeft(k)
    <3>1. /\ k = "Left" /\ forwardCount = 0 /\ backCount' = backCount + 1
          /\ guessed' = GuessedArrow /\ cursorBuffer' = cursorBuffer
          /\ forwardCount' = forwardCount
      BY <2>5 DEF ArrowLeft, MayGoLeft
    <3>2. k \in Arrows /\ k # "Up" /\ k # "Right"
      BY <3>1 DEF Arrows
    <3>3. p = Awaited
      BY <2>3, <3>1, <3>2
    <3>4. p > 0 => dir = k
      BY <1>5, <3>1 DEF KeysInOrder, Arrows
    <3>5. backCount = p
      BY <1>5, <1>6, <3>1, <3>3, <3>4 DEF KeysInOrder
    <3>6. Ordered'
      BY <2>4, <3>1, <3>2, <3>3, <3>4, <3>5
    <3> QED BY <3>1, <3>2, <3>6
  <2>6. CASE ArrowRight(k)
    <3>1. /\ k = "Right" /\ backCount = 0 /\ forwardCount' = forwardCount + 1
          /\ guessed' = GuessedArrow /\ cursorBuffer' = cursorBuffer
          /\ backCount' = backCount
      BY <2>6 DEF ArrowRight
    <3>2. k \in Arrows /\ k # "Up" /\ k # "Left"
      BY <3>1 DEF Arrows
    <3>3. p = Awaited
      BY <2>3, <3>1, <3>2
    <3>4. p > 0 => dir = k
      BY <1>5, <3>1 DEF KeysInOrder, Arrows
    <3>5. forwardCount = p
      BY <1>5, <1>6, <3>1, <3>3, <3>4 DEF KeysInOrder
    <3>6. Ordered'
      BY <2>4, <3>1, <3>2, <3>3, <3>4, <3>5
    <3> QED BY <3>1, <3>2, <3>6
  <2> QED BY <1>1, <2>1, <2>2, <2>5, <2>6
<1>13. ASSUME guessed' = {}
       PROVE  Traces(D)'
  <2>1. /\ cursorBuffer' = IF k = "Up" THEN <<>> ELSE cursorBuffer
        /\ k = "Up" => Awaited = 0
    BY <1>12, <1>13
  <2>2. /\ D \in [0..Len(echoed) -> Lines]
        /\ D[Len(echoed)] = [left |-> left, right |-> right, entered |-> entered]
        /\ \A i \in 1..Len(echoed) : Follows(D[i - 1], D[i], echoed[i])
        /\ lineBuffer = Prompt(D[0].left) /\ listed = Prompt(D[0].entered) /\ gotCR = FALSE
        /\ cursorBuffer = IF Awaited > 0 /\ KeyAt(1) = "Up" THEN <<>> ELSE D[0].right
    BY <1>4 DEF Traces
  <2>3. cursorBuffer' = IF (Awaited > 0 /\ KeyAt(1) = "Up")' THEN <<>> ELSE D[0].right
    <3>1. CASE Awaited = 0
      <4>1. (Awaited > 0)' /\ KeyAt(1)' = k
        BY <1>0, <1>8, <1>10, <3>1
      <4> QED BY <2>1, <2>2, <3>1, <4>1
    <3>2. CASE Awaited # 0
      <4>1. (Awaited > 0)' /\ Awaited > 0 /\ 1 \in 1..Awaited
        BY <1>6, <1>8, <3>2
      <4>2. KeyAt(1)' = KeyAt(1)
        BY <1>9, <4>1
      <4>3. cursorBuffer' = cursorBuffer
        BY <2>1, <3>2
      <4> QED BY <2>2, <4>1, <4>2, <4>3
    <3> QED BY <3>1, <3>2
  <2> QED BY <1>1, <2>2, <2>3 DEF Traces
<1> QED BY <1>3, <1>12, <1>13 DEF LineInv

LEMMA LineEcho ==
  ASSUME LineInv, Echo
  PROVE  LineInv'
<1>1. PICK e \in Edited(Head(typed), left, right) :
        /\ left' = e[1] /\ right' = e[2]
        /\ echoed' = Append(echoed, [key |-> Head(typed), bytes |-> e[3]])
  BY DEF Echo
<1>2. /\ typed # <<>> /\ typed' = Tail(typed)
      /\ entered' = IF Head(typed) = "Enter" THEN left \o right ELSE entered
      /\ lineBuffer' = lineBuffer /\ cursorBuffer' = cursorBuffer /\ backCount' = backCount
      /\ forwardCount' = forwardCount /\ gotCR' = gotCR /\ listed' = listed
      /\ guessed' = guessed
  BY DEF Echo, browser
<1>3. LineTyped
  BY DEF LineInv
<1> DEFINE k == Head(typed)
           m == [key |-> k, bytes |-> e[3]]
<1>4. /\ k \in Keys /\ Tail(typed) \in Seq(Keys) /\ Len(Tail(typed)) = Len(typed) - 1
      /\ \A i \in 1..(Len(typed) - 1) : Tail(typed)[i] = typed[i + 1]
      /\ k = typed[1] /\ Len(typed) \in Nat /\ Len(typed) > 0
  <2>1. /\ k \in Keys /\ Tail(typed) \in Seq(Keys) /\ Len(Tail(typed)) = Len(typed) - 1
        /\ \A i \in 1..Len(Tail(typed)) : Tail(typed)[i] = typed[i + 1]
    BY <1>2, <1>3, HeadTailProperties DEF LineTyped
  <2>2. Len(typed) \in Nat /\ Len(typed) > 0 /\ k = typed[1]
    BY <1>2, <1>3 DEF LineTyped
  <2> QED BY <2>1, <2>2
<1>5. e[1] \in Seq(Chars) /\ e[2] \in Seq(Chars) /\ e[3] \in Seq(Bytes)
  BY <1>1, <1>3, <1>4, EditedTypes DEF LineTyped
<1>6. left \o right \in Seq(Chars) /\ entered' \in Seq(Chars)
  <2>1. left \o right \in Seq(Chars)
    BY <1>3, ConcatProperties DEF LineTyped
  <2> DEFINE whole == left \o right
  <2> HIDE DEF whole
  <2>2. whole \in Seq(Chars) /\ entered' = IF Head(typed) = "Enter" THEN whole ELSE entered
    BY <1>2, <2>1 DEF whole
  <2>3. entered' \in Seq(Chars)
    BY <1>3, <2>2 DEF LineTyped
  <2> QED BY <2>1, <2>3
<1>7. m \in Echoes /\ m.key = k /\ m.bytes = e[3]
  BY <1>4, <1>5 DEF Echoes
<1> HIDE DEF k
<1>8. echoed' = Append(echoed, m)
  BY <1>1 DEF k
<1> HIDE DEF m
<1> DEFINE n == Len(echoed)
<1>9. n \in Nat /\ Awaited \in Nat
  BY <1>3, KeyTypes
<1>10. /\ echoed' \in Seq(Echoes) /\ Len(echoed') = n + 1 /\ echoed'[n + 1] = m
       /\ \A i \in 1..n : echoed'[i] = echoed[i]
  BY <1>3, <1>7, <1>8, AppendProperties DEF LineTyped
<1>11. LineTyped'
  BY <1>1, <1>2, <1>4, <1>5, <1>6, <1>10 DEF LineTyped
<1>12. Awaited' = Awaited
  BY <1>2, <1>4, <1>9, <1>10 DEF Awaited
<1>13. ASSUME NEW i \in 1..Awaited
       PROVE  KeyAt(i)' = KeyAt(i)
  <2>1. KeyAt(i)' = IF i <= n + 1 THEN echoed'[i].key ELSE typed'[i - (n + 1)]
    BY <1>10 DEF KeyAt
  <2>2. KeyAt(i) = IF i <= n THEN echoed[i].key ELSE typed[i - n]
    BY DEF KeyAt
  <2> HIDE DEF n
  <2>3. CASE i <= n
    <3>1. i \in 1..n /\ i <= n + 1
      BY <1>9, <2>3
    <3>2. echoed'[i] = echoed[i]
      BY <1>10, <3>1
    <3> QED BY <2>1, <2>2, <2>3, <3>1, <3>2
  <2>4. CASE i = n + 1
    <3>1. i <= n + 1 /\ ~(i <= n) /\ i - n = 1
      BY <1>9, <2>4
    <3>2. echoed'[i].key = k
      BY <1>7, <1>10, <2>4
    <3> QED BY <1>4, <2>1, <2>2, <3>1, <3>2
  <2>5. CASE i > n + 1
    <3>1. ~(i <= n + 1) /\ ~(i <= n) /\ i - (n + 1) \in 1..(Len(typed) - 1)
          /\ (i - (n + 1)) + 1 = i - n
      BY <1>4, <1>9, <2>5 DEF Awaited, n
    <3>2. typed'[i - (n + 1)] = typed[(i - (n + 1)) + 1]
      BY <1>2, <1>4, <3>1
    <3> QED BY <2>1, <2>2, <3>1, <3>2
  <2> QED BY <1>9, <2>3, <2>4, <2>5
<1>14. Ordered => Ordered'
  <2> SUFFICES ASSUME Ordered
               PROVE  Ordered'
    OBVIOUS
  <2>1. PICK p \in 0..Awaited, dir \in Arrows : KeysInOrder(p, dir)
    BY DEF Ordered
  <2>2. KeysInOrder(p, dir)'
    BY <1>2, <1>12, <1>13, <2>1 DEF KeysInOrder
  <2> QED BY <1>12, <2>1, <2>2 DEF Ordered
<1>15. ASSUME NEW D, Traces(D)
       PROVE  \E X : Traces(X)'
  <2>1. /\ D \in [0..n -> Lines]
        /\ D[n] = [left |-> left, right |-> right, entered |-> entered]
        /\ \A i \in 1..n : Follows(D[i - 1], D[i], echoed[i])
        /\ lineBuffer = Prompt(D[0].left) /\ listed = Prompt(D[0].entered) /\ gotCR = FALSE
        /\ cursorBuffer = IF Awaited > 0 /\ KeyAt(1) = "Up" THEN <<>> ELSE D[0].right
    BY <1>15 DEF Traces
  <2> DEFINE new == [left |-> left', right |-> right', entered |-> entered']
             Y == [i \in 0..(n + 1) |-> IF i <= n THEN D[i] ELSE new]
  <2>2. new \in Lines
    BY <1>11 DEF LineTyped, Lines
  <2>3. new.left = left' /\ new.right = right' /\ new.entered = entered'
    OBVIOUS
  <2> HIDE DEF new, n
  <2>4. PICK X : /\ X \in [0..(n + 1) -> Lines] /\ X[n + 1] = new
                 /\ \A i \in 0..n : X[i] = D[i]
    <3>1. \A i \in 0..(n + 1) : (i <= n => i \in 0..n) /\ (IF i <= n THEN D[i] ELSE new) \in Lines
      BY <1>9, <2>1, <2>2
    <3>2. Y \in [0..(n + 1) -> Lines]
      BY <3>1
    <3>3. Y[n + 1] = new /\ \A i \in 0..n : Y[i] = D[i]
      BY <1>9
    <3> HIDE DEF Y
    <3> QED BY <3>2, <3>3
  <2>5. Follows(D[n], new, m)
    <3>1. D[n].left = left /\ D[n].right = right /\ D[n].entered = entered
      BY <2>1
    <3>2. <<new.left, new.right, m.bytes>> \in Edited(m.key, left, right)
      <4>1. e = <<e[1], e[2], e[3]>>
        BY <1>1, <1>3, <1>4, EditedIsTriple DEF LineTyped
      <4>2. <<new.left, new.right, m.bytes>> = <<e[1], e[2], e[3]>>
        BY <1>1, <1>7, <2>3
      <4> QED BY <1>1, <1>7, <4>1, <4>2 DEF k
    <3>3. new.entered = IF m.key = "Enter" THEN left \o right ELSE entered
      BY <1>2, <1>7, <2>3, Zenon DEF k
    <3> QED BY <3>1, <3>2, <3>3 DEF Follows
  <2>6. ASSUME NEW i \in 1..(n + 1)
        PROVE  Follows(X[i - 1], X[i], echoed'[i])
    <3>1. CASE i \in 1..n
      <4>1. i - 1 \in 0..n /\ i \in 0..n
        BY <1>9, <3>1
      <4>2. X[i - 1] = D[i - 1] /\ X[i] = D[i] /\ echoed'[i] = echoed[i]
        BY <1>10, <2>4, <3>1, <4>1
      <4>3. Follows(D[i - 1], D[i], echoed[i])
        BY <2>1, <3>1
      <4> QED BY <4>2, <4>3
    <3>2. CASE i = n + 1
      <4>1. i - 1 = n /\ n \in 0..n
        BY <1>9, <3>2
      <4>2. X[i - 1] = D[n] /\ X[i] = new /\ echoed'[i] = m
        BY <1>10, <2>4, <3>2, <4>1
      <4> QED BY <2>5, <4>2
    <3> QED BY <1>9, <3>1, <3>2
  <2>7. X[0] = D[0]
    BY <1>9, <2>4
  <2>8. cursorBuffer' = IF (Awaited > 0 /\ KeyAt(1) = "Up")' THEN <<>> ELSE X[0].right
    <3>1. Awaited > 0 => KeyAt(1)' = KeyAt(1)
      <4>1. Awaited > 0 => 1 \in 1..Awaited
        BY <1>9
      <4> QED BY <1>13, <4>1
    <3> QED BY <1>2, <1>12, <2>1, <2>7, <3>1
  <2>9. Len(echoed') = n + 1
    BY <1>10
  <2>10. Traces(X)'
    BY <1>2, <2>1, <2>3, <2>4, <2>6, <2>7, <2>8, <2>9 DEF Traces, new
  <2> QED BY <2>10
<1> QED BY <1>2, <1>11, <1>14, <1>15 DEF LineInv

\* The state a message finds, and the one it leaves.
LEMMA LineOneMessage ==
  ASSUME NEW v \in Lines, NEW w \in Lines, NEW m \in Echoes, Follows(v, w, m),
         m.key # "ControlA",
         NEW back \in Nat, NEW forward \in Nat,
         m.key = "Left" => back > 0 /\ forward = 0,
         m.key = "Right" => forward > 0 /\ back = 0,
         m.key \notin {"Left", "Right"} => back = 0 /\ forward = 0
  PROVE  Message(m.bytes, At(Prompt(v.left), Hidden(m.key, v.right), back, forward,
                             Prompt(v.entered)))
         = At(Prompt(w.left), w.right, IF m.key = "Left" THEN back - 1 ELSE 0,
              IF m.key = "Right" THEN forward - 1 ELSE 0, Prompt(w.entered))
<1>1. /\ v.left \in Seq(Chars) /\ v.right \in Seq(Chars) /\ v.entered \in Seq(Chars)
      /\ m.key \in Keys
  BY DEF Lines, Echoes
<1> DEFINE k == m.key
           e == <<w.left, w.right, m.bytes>>
           l == v.left
           r == v.right
           old == Prompt(v.entered)
<1>2. e \in Edited(k, l, r) /\ e[1] = w.left /\ e[2] = w.right /\ e[3] = m.bytes
  BY DEF Follows
<1>3. w.entered = IF k = "Enter" THEN l \o r ELSE v.entered
  BY DEF Follows
<1>4. k \in Chars \cup OtherKeys /\ \A c \in Chars : c \notin OtherKeys
  BY <1>1, KeysAre
<1> HIDE DEF k, e, l, r
<1>5. CASE k \in Chars
  <2>1. k # "Left" /\ k # "Right" /\ k # "Up" /\ k # "Enter"
    BY <1>4, <1>5 DEF OtherKeys
  <2>2. Message(e[3], At(Prompt(l), r, 0, 0, old)) = At(Prompt(e[1]), e[2], 0, 0, old)
    BY <1>1, <1>2, <1>5, CharIsShown DEF l, r
  <2>3. back = 0 /\ forward = 0 /\ Hidden(k, r) = r /\ w.entered = v.entered
    BY <1>3, <2>1 DEF Hidden, k
  <2> QED BY <1>2, <2>1, <2>2, <2>3 DEF k, l, r
<1>6. CASE k = "Backspace"
  <2>1. Message(e[3], At(Prompt(l), r, 0, 0, old)) = At(Prompt(e[1]), e[2], 0, 0, old)
    BY <1>1, <1>2, <1>6, BackspaceIsShown DEF l, r
  <2>2. back = 0 /\ forward = 0 /\ Hidden(k, r) = r /\ w.entered = v.entered
    BY <1>3, <1>6 DEF Hidden, k
  <2> QED BY <1>2, <1>6, <2>1, <2>2 DEF k, l, r
<1>7. CASE k = "Left"
  <2>1. back > 0 /\ forward = 0 /\ Hidden(k, r) = r /\ w.entered = v.entered
    BY <1>3, <1>7 DEF Hidden, k
  <2>2. Message(e[3], At(Prompt(l), r, back, 0, old)) = At(Prompt(e[1]), e[2], back - 1, 0, old)
    BY <1>1, <1>2, <1>7, <2>1, LeftIsShown DEF l, r
  <2> QED BY <1>2, <1>7, <2>1, <2>2 DEF k, l, r
<1>8. CASE k = "Right"
  <2>1. forward > 0 /\ back = 0 /\ Hidden(k, r) = r /\ w.entered = v.entered
    BY <1>3, <1>8 DEF Hidden, k
  <2>2. Message(e[3], At(Prompt(l), r, 0, forward, old))
        = At(Prompt(e[1]), e[2], 0, forward - 1, old)
    BY <1>1, <1>2, <1>8, <2>1, RightIsShown DEF l, r
  <2> QED BY <1>2, <1>8, <2>1, <2>2 DEF k, l, r
<1>9. CASE k = "Up"
  <2>1. Message(e[3], At(Prompt(l), <<>>, 0, 0, old)) = At(Prompt(e[1]), e[2], 0, 0, old)
    BY <1>1, <1>2, <1>9, UpIsShown DEF l, r
  <2>2. back = 0 /\ forward = 0 /\ Hidden(k, r) = <<>> /\ w.entered = v.entered
    BY <1>3, <1>9 DEF Hidden, k
  <2> QED BY <1>2, <1>9, <2>1, <2>2 DEF k, l, r
<1>10. CASE k = "Enter"
  <2>1. Message(e[3], At(Prompt(l), r, 0, 0, old))
        = At(Prompt(e[1]), e[2], 0, 0, Prompt(l \o r))
    BY <1>1, <1>2, <1>10, EnterIsShown DEF l, r
  <2>2. back = 0 /\ forward = 0 /\ Hidden(k, r) = r /\ w.entered = l \o r
    BY <1>3, <1>10 DEF Hidden, k
  <2> QED BY <1>2, <1>10, <2>1, <2>2 DEF k, l, r
<1> QED BY <1>4, <1>5, <1>6, <1>7, <1>8, <1>9, <1>10 DEF OtherKeys, k

LEMMA LineReceived ==
  ASSUME LineInv, ReceiveMessage
  PROVE  LineInv'
<1> DEFINE found == [line |-> lineBuffer, cursor |-> cursorBuffer, back |-> backCount,
                      forward |-> forwardCount, cr |-> gotCR, listed |-> listed]
           st == Message(Head(echoed).bytes, found)
<1>1. /\ echoed # <<>> /\ echoed' = Tail(echoed)
      /\ lineBuffer' = st.line /\ cursorBuffer' = st.cursor
      /\ backCount' = st.back /\ forwardCount' = st.forward
      /\ gotCR' = st.cr /\ listed' = st.listed
      /\ left' = left /\ right' = right /\ typed' = typed /\ entered' = entered
      /\ guessed' = guessed
  BY DEF ReceiveMessage, remote
<1> HIDE DEF st
<1>2. LineTyped
  BY DEF LineInv
<1> DEFINE n == Len(echoed)
           m == Head(echoed)
<1>3. /\ n \in Nat /\ n > 0 /\ Awaited \in Nat /\ Len(typed) \in Nat /\ Awaited >= n
      /\ m = echoed[1] /\ m \in Echoes
      /\ echoed' \in Seq(Echoes) /\ Len(echoed') = n - 1
      /\ \A i \in 1..(n - 1) : echoed'[i] = echoed[i + 1]
  <2>1. n \in Nat /\ Awaited \in Nat /\ Len(typed) \in Nat
    BY <1>2, KeyTypes
  <2>2. n > 0 /\ m = echoed[1]
    BY <1>1, <1>2 DEF LineTyped
  <2>3. /\ m \in Echoes /\ Tail(echoed) \in Seq(Echoes) /\ Len(Tail(echoed)) = n - 1
        /\ \A i \in 1..Len(Tail(echoed)) : Tail(echoed)[i] = echoed[i + 1]
    BY <1>1, <1>2, HeadTailProperties DEF LineTyped
  <2> QED BY <1>1, <2>1, <2>2, <2>3 DEF Awaited
<1> HIDE DEF n, m
<1>4. LineTyped'
  BY <1>1, <1>2, <1>3 DEF LineTyped
<1>5. Awaited' = Awaited - 1
  BY <1>1, <1>3 DEF Awaited, n
<1>6. ASSUME NEW i \in 1..(Awaited - 1)
      PROVE  KeyAt(i)' = KeyAt(i + 1) /\ i + 1 \in 1..Awaited
  <2>1. KeyAt(i)' = IF i <= n - 1 THEN echoed'[i].key ELSE typed[i - (n - 1)]
    BY <1>1, <1>3 DEF KeyAt
  <2>2. KeyAt(i + 1) = IF i + 1 <= n THEN echoed[i + 1].key ELSE typed[(i + 1) - n]
    BY DEF KeyAt, n
  <2>3. CASE i <= n - 1
    <3>1. i \in 1..(n - 1) /\ i + 1 <= n
      BY <1>3, <2>3
    <3>2. echoed'[i] = echoed[i + 1]
      BY <1>3, <3>1
    <3>3. i + 1 \in 1..Awaited
      BY <1>3
    <3> QED BY <2>1, <2>2, <2>3, <3>1, <3>2, <3>3
  <2>4. CASE ~(i <= n - 1)
    <3>1. ~(i + 1 <= n) /\ i - (n - 1) = (i + 1) - n /\ i + 1 \in 1..Awaited
      BY <1>3, <2>4
    <3> QED BY <2>1, <2>2, <2>4, <3>1
  <2> QED BY <2>3, <2>4
<1>7. KeyAt(1) = m.key /\ 1 \in 1..Awaited
  BY <1>3 DEF KeyAt, n
<1>8. ASSUME guessed = {}
      PROVE  Ordered' /\ \E X : Traces(X)'
  <2>1. PICK p \in 0..Awaited, dir \in Arrows : KeysInOrder(p, dir)
    BY <1>8 DEF LineInv, Ordered
  <2>2. PICK D : Traces(D)
    BY <1>8 DEF LineInv
  <2>3. /\ D \in [0..n -> Lines]
        /\ D[n] = [left |-> left, right |-> right, entered |-> entered]
        /\ \A i \in 1..n : Follows(D[i - 1], D[i], echoed[i])
        /\ lineBuffer = Prompt(D[0].left) /\ listed = Prompt(D[0].entered) /\ gotCR = FALSE
        /\ cursorBuffer = Hidden(m.key, D[0].right)
    BY <1>3, <1>7, <2>2 DEF Traces, Hidden, n
  <2>4. D[0] \in Lines /\ D[1] \in Lines /\ Follows(D[0], D[1], m)
    <3>1. 0 \in 0..n /\ 1 \in 0..n /\ 1 \in 1..n /\ 1 - 1 = 0
      BY <1>3
    <3>2. Follows(D[1 - 1], D[1], echoed[1])
      BY <2>3, <3>1
    <3> QED BY <1>3, <2>3, <3>1, <3>2
  <2>5. found = At(Prompt(D[0].left), Hidden(m.key, D[0].right), backCount, forwardCount,
                    Prompt(D[0].entered))
    <3>1. found = [line |-> lineBuffer, cursor |-> cursorBuffer, back |-> backCount,
                    forward |-> forwardCount, cr |-> FALSE, listed |-> listed]
      BY <2>3, Zenon
    <3>2. found = At(lineBuffer, cursorBuffer, backCount, forwardCount, listed)
      BY <3>1, Zenon DEF At
    <3> QED BY <2>3, <3>2, Zenon
  <2> HIDE DEF found
  <2>6. /\ m.key # "ControlA" /\ backCount \in Nat /\ forwardCount \in Nat
        /\ m.key = "Left" => backCount > 0 /\ forwardCount = 0
        /\ m.key = "Right" => forwardCount > 0 /\ backCount = 0
        /\ m.key \notin {"Left", "Right"} => backCount = 0 /\ forwardCount = 0
        /\ m.key = "Left" => dir = "Left" /\ backCount = p /\ p > 0
        /\ m.key = "Right" => dir = "Right" /\ forwardCount = p /\ p > 0
        /\ m.key \notin {"Left", "Right"} => p = 0
    <3>1. CASE p = 0
      BY <1>7, <2>1, <3>1 DEF KeysInOrder
    <3>2. CASE p # 0
      <4>1. 1 <= p /\ p > 0 /\ p \in Nat
        BY <2>1, <1>3, <3>2
      <4>2. m.key = dir
        BY <1>7, <2>1, <4>1 DEF KeysInOrder
      <4>3. CASE dir = "Left"
        BY <2>1, <4>1, <4>2, <4>3 DEF KeysInOrder
      <4>4. CASE dir = "Right"
        BY <2>1, <4>1, <4>2, <4>4 DEF KeysInOrder
      <4> QED BY <2>1, <4>3, <4>4 DEF Arrows
    <3> QED BY <3>1, <3>2
  <2>7. st = At(Prompt(D[1].left), D[1].right, IF m.key = "Left" THEN backCount - 1 ELSE 0,
                IF m.key = "Right" THEN forwardCount - 1 ELSE 0, Prompt(D[1].entered))
    <3>1. Message(m.bytes, At(Prompt(D[0].left), Hidden(m.key, D[0].right), backCount,
                              forwardCount, Prompt(D[0].entered)))
          = At(Prompt(D[1].left), D[1].right, IF m.key = "Left" THEN backCount - 1 ELSE 0,
               IF m.key = "Right" THEN forwardCount - 1 ELSE 0, Prompt(D[1].entered))
      BY <1>3, <2>4, <2>6, LineOneMessage
    <3> QED BY <2>5, <3>1 DEF st, m
  <2>8. /\ lineBuffer' = Prompt(D[1].left) /\ cursorBuffer' = D[1].right
        /\ backCount' = IF m.key = "Left" THEN backCount - 1 ELSE 0
        /\ forwardCount' = IF m.key = "Right" THEN forwardCount - 1 ELSE 0
        /\ gotCR' = FALSE /\ listed' = Prompt(D[1].entered)
    <3>1. PICK b : b = IF m.key = "Left" THEN backCount - 1 ELSE 0
      OBVIOUS
    <3>2. PICK f : f = IF m.key = "Right" THEN forwardCount - 1 ELSE 0
      OBVIOUS
    <3>3. st = At(Prompt(D[1].left), D[1].right, b, f, Prompt(D[1].entered))
      BY <2>7, <3>1, <3>2
    <3>4. /\ st.line = Prompt(D[1].left) /\ st.cursor = D[1].right /\ st.back = b
          /\ st.forward = f /\ st.cr = FALSE /\ st.listed = Prompt(D[1].entered)
      BY <3>3 DEF At
    <3> QED BY <1>1, <3>1, <3>2, <3>4
  <2>9. Ordered'
    <3>1. PICK q \in Nat : q = IF p = 0 THEN 0 ELSE p - 1
      BY <1>3, <2>1
    <3>2. q \in 0..(Awaited - 1)
      BY <1>3, <2>1, <3>1
    <3>3. ASSUME NEW i \in 1..(Awaited - 1)
          PROVE  /\ i <= q => KeyAt(i)' = dir
                 /\ i > q => KeyAt(i)' \notin {"Left", "Right", "ControlA"}
                 /\ KeyAt(i)' # "Up"
      <4>1. KeyAt(i)' = KeyAt(i + 1) /\ i + 1 \in 1..Awaited /\ i \in Nat /\ i > 0
        BY <1>3, <1>6
      <4>2. /\ i + 1 <= p => KeyAt(i + 1) = dir
            /\ i + 1 > p => KeyAt(i + 1) \notin {"Left", "Right", "ControlA"}
            /\ KeyAt(i + 1) = "Up" => i + 1 = 1
        BY <2>1, <4>1 DEF KeysInOrder
      <4>3. (i <= q => i + 1 <= p) /\ (i > q => i + 1 > p) /\ i + 1 # 1
        BY <1>3, <2>1, <3>1, <4>1
      <4> QED BY <4>1, <4>2, <4>3
    <3>4. /\ backCount' = IF dir = "Left" THEN q ELSE 0
          /\ forwardCount' = IF dir = "Right" THEN q ELSE 0
      <4>1. CASE p = 0
        <5>1. backCount = 0 /\ forwardCount = 0 /\ q = 0
          BY <2>1, <3>1, <4>1 DEF KeysInOrder
        <5>2. m.key # "Left" /\ m.key # "Right"
          BY <2>6, <4>1
        <5> QED BY <2>8, <5>1, <5>2
      <4>2. CASE p # 0
        <5>1. q = p - 1 /\ (m.key = "Left" \/ m.key = "Right")
          BY <2>6, <3>1, <4>2
        <5>2. CASE m.key = "Left"
          BY <2>6, <2>8, <5>1, <5>2
        <5>3. CASE m.key = "Right"
          BY <2>6, <2>8, <5>1, <5>3
        <5> QED BY <5>1, <5>2, <5>3
      <4> QED BY <4>1, <4>2
    <3>5. KeysInOrder(q, dir)'
      BY <1>5, <3>3, <3>4 DEF KeysInOrder
    <3> QED BY <1>5, <2>1, <3>2, <3>5 DEF Ordered
  <2>10. PICK X : X \in [0..(n - 1) -> Lines] /\ \A i \in 0..(n - 1) : X[i] = D[i + 1]
    <3> DEFINE Y == [i \in 0..(n - 1) |-> D[i + 1]]
    <3>1. \A i \in 0..(n - 1) : i + 1 \in 0..n /\ D[i + 1] \in Lines
      BY <1>3, <2>3
    <3>2. Y \in [0..(n - 1) -> Lines] /\ \A i \in 0..(n - 1) : Y[i] = D[i + 1]
      BY <3>1
    <3> HIDE DEF Y
    <3> QED BY <3>2
  <2>11. X[0] = D[1] /\ X[n - 1] = D[n]
    BY <1>3, <2>10
  <2>12. ASSUME NEW i \in 1..(n - 1)
         PROVE  Follows(X[i - 1], X[i], echoed'[i])
    <3>1. i - 1 \in 0..(n - 1) /\ i \in 0..(n - 1) /\ (i - 1) + 1 = (i + 1) - 1
          /\ i + 1 \in 1..n
      BY <1>3
    <3>2. Follows(D[(i + 1) - 1], D[i + 1], echoed[i + 1])
      BY <2>3, <3>1
    <3>3. X[i - 1] = D[(i + 1) - 1] /\ X[i] = D[i + 1] /\ echoed'[i] = echoed[i + 1]
      BY <1>3, <2>10, <3>1
    <3> QED BY <3>2, <3>3
  <2>13. cursorBuffer' = IF (Awaited > 0 /\ KeyAt(1) = "Up")' THEN <<>> ELSE X[0].right
    <3>1. ~((Awaited > 0 /\ KeyAt(1) = "Up")')
      <4>1. ASSUME Awaited' > 0
            PROVE  KeyAt(1)' # "Up"
        <5>1. 1 \in 1..(Awaited - 1)
          BY <1>3, <1>5, <4>1
        <5>2. KeyAt(1)' = KeyAt(1 + 1) /\ 1 + 1 \in 1..Awaited
          BY <1>6, <5>1
        <5>3. KeyAt(1 + 1) = "Up" => 1 + 1 = 1
          BY <2>1, <5>2 DEF KeysInOrder
        <5> QED BY <5>2, <5>3
      <4> QED BY <4>1
    <3> QED BY <2>8, <2>11, <3>1
  <2>14. Traces(X)'
    BY <1>1, <1>3, <2>3, <2>8, <2>10, <2>11, <2>12, <2>13 DEF Traces
  <2> QED BY <2>9, <2>14
<1> QED BY <1>1, <1>4, <1>8 DEF LineInv

\* In every reachable state the messages on their way lead the browser from the
\* line it shows to the line of the device, as long as it need not guess.
THEOREM LineInvariant == LineSpec => []LineInv
<1>1. LineInit => LineInv
  BY LineInitially
<1>2. LineInv /\ [LineNext]_lineVars => LineInv'
  <2> SUFFICES ASSUME LineInv, [LineNext]_lineVars
               PROVE  LineInv'
    OBVIOUS
  <2>1. ASSUME NEW k \in Keys, handleKeyDown(k)
        PROVE  LineInv'
    BY <2>1, LineKeyDown
  <2>2. CASE Echo
    BY <2>2, LineEcho
  <2>3. CASE ReceiveMessage
    BY <2>3, LineReceived
  <2>4. CASE UNCHANGED lineVars
    <3>1. /\ left' = left /\ right' = right /\ typed' = typed /\ echoed' = echoed
          /\ lineBuffer' = lineBuffer /\ cursorBuffer' = cursorBuffer
          /\ backCount' = backCount /\ forwardCount' = forwardCount /\ gotCR' = gotCR
          /\ entered' = entered /\ listed' = listed /\ guessed' = guessed
      BY <2>4 DEF lineVars
    <3>2. LineTyped'
      BY <3>1 DEF LineInv, LineTyped
    <3>3. Awaited' = Awaited /\ \A i : KeyAt(i)' = KeyAt(i)
      BY <3>1 DEF Awaited, KeyAt
    <3>4. \A p, dir : KeysInOrder(p, dir) => KeysInOrder(p, dir)'
      BY <3>1, <3>3 DEF KeysInOrder
    <3>5. Ordered => Ordered'
      BY <3>3, <3>4 DEF Ordered
    <3>6. \A D : Traces(D) => Traces(D)'
      BY <3>1, <3>3 DEF Traces
    <3> QED BY <3>1, <3>2, <3>5, <3>6 DEF LineInv
  <2> QED BY <2>1, <2>2, <2>3, <2>4 DEF LineNext
<1> QED BY <1>1, <1>2, PTL DEF LineSpec

\* When every key has been echoed, whatever was typed ahead of the echoes, the line
\* of the console is shown as the device has it, and so is the line entered last.
THEOREM LineShown == LineSpec => []ShownAsOnDevice
<1>1. LineInv => ShownAsOnDevice
  <2> SUFFICES ASSUME LineInv, Settled
               PROVE  /\ lineBuffer = <<"prompt">> \o left /\ cursorBuffer = right
                      /\ listed = <<"prompt">> \o entered
    BY DEF ShownAsOnDevice
  <2>1. guessed = {} /\ typed = <<>> /\ echoed = <<>>
    BY DEF Settled
  <2>2. PICK D : Traces(D)
    BY <2>1 DEF LineInv
  <2>3. Len(echoed) = 0 /\ Awaited = 0
    BY <2>1 DEF Awaited
  <2>4. D[0].left = left /\ D[0].right = right /\ D[0].entered = entered
    BY <2>2, <2>3 DEF Traces
  <2> QED BY <2>2, <2>3, <2>4 DEF Traces, Prompt
<1> QED BY <1>1, LineInvariant, PTL

------------------------------------------------------------------------------
(* The canvas: types.                                                        *)

\* The icon that is marked is one of the icons.
LEMMA HoveredType ==
  ASSUME NEW C, NEW D, iconHovered(C, D), hoveredIcon \in Devices \cup {NoDevice}
  PROVE  hoveredIcon' \in Devices \cup {NoDevice}
<1> DEFINE changed == {i \in DOMAIN IconOrder : (IconOrder[i] \in C) # (IconOrder[i] \in D)}
           k    == CHOOSE i \in changed : \A j \in changed : j <= i
           last == IconOrder[k]
<1>1. hoveredIcon' = IF changed = {} THEN hoveredIcon ELSE IF last \in D THEN last ELSE NoDevice
  BY DEF iconHovered
<1>2. ASSUME changed # {}
      PROVE  last \in Devices
  <2>1. DOMAIN IconOrder = 1..Len(IconOrder) /\ Len(IconOrder) \in Nat
    BY CanvasAssumption
  <2>2. \E i \in changed : \A j \in changed : j <= i
    <3>1. changed \in SUBSET (1..Len(IconOrder))
      BY <2>1
    <3> HIDE DEF changed
    <3> QED BY <1>2, <2>1, <3>1, LastIndex
  <2>3. k \in changed
    <3> HIDE DEF changed
    <3> QED BY <2>2
  <2> QED BY <2>3 DEF Devices
<1> HIDE DEF changed, k
<1> QED BY <1>1, <1>2

\* The types of what is selected.
SelectionTypes ==
  /\ selectedIcon \in Devices \cup {NoDevice}
  /\ selectedConnection \subseteq Pairs \cup {Unset} /\ Cardinality(selectedConnection) <= 1

LEMMA OneSelected ==
  ASSUME SelectionTypes, NEW p \in Pairs \cup {Unset}, connectionSelected(p)
  PROVE  SelectionTypes'
<1>1. selectedConnection' \in {{}, {p}} /\ selectedIcon' = NoDevice
  BY DEF connectionSelected
<1>2. Cardinality({}) = 0 /\ Cardinality({p}) = 1
  BY FS_EmptySet, FS_Singleton
<1>3. Cardinality(selectedConnection') <= 1
  BY <1>1, <1>2
<1> QED BY <1>1, <1>3 DEF SelectionTypes

LEMMA IconSelected ==
  ASSUME SelectionTypes, NEW d \in Devices \cup {NoDevice}, iconSelected(d)
  PROVE  SelectionTypes'
<1>1. selectedConnection' = {} /\ selectedIcon' \in {d, NoDevice}
  BY DEF iconSelected
<1>2. Cardinality({}) = 0
  BY FS_EmptySet
<1>3. Cardinality(selectedConnection') <= 1
  BY <1>1, <1>2
<1> QED BY <1>1, <1>3 DEF SelectionTypes

\* The types of the other variables of the canvas.
MarkTypes ==
  /\ editMode \in BOOLEAN /\ expandedIcons \subseteq Devices
  /\ draggedItem \in Devices \cup {NoDevice} /\ hoveredIcon \in Devices \cup {NoDevice}
  /\ frame \in Drags /\ meant \subseteq Pairs /\ raced \subseteq Races
  /\ drags \in 0..MaxDrags

LEMMA CanvasParts == CanvasTypeOK /\ Known <=> Known /\ SelectionTypes /\ MarkTypes
BY DEF CanvasTypeOK, Known, SelectionTypes, MarkTypes

LEMMA NoDragType == NoDrag \in Drags
BY DEF NoDrag, Drags

\* What every drag ends with.
LEMMA EndTypes ==
  ASSUME MarkTypes, Ends
  PROVE  /\ editMode' \in BOOLEAN /\ expandedIcons' \subseteq Devices
         /\ draggedItem' \in Devices \cup {NoDevice} /\ hoveredIcon' \in Devices \cup {NoDevice}
         /\ frame' \in Drags /\ drags' \in 0..MaxDrags
<1>1. hoveredIcon' \in Devices \cup {NoDevice}
  BY HoveredType DEF Ends, MarkTypes
<1> QED BY <1>1 DEF Ends, MarkTypes

\* A drag that begins.
LEMMA BeginTypes ==
  ASSUME SelectionTypes, MarkTypes, NEW dr \in Drags, BeginDrag(dr)
  PROVE  SelectionTypes' /\ MarkTypes'
<1>1. SelectionTypes'
  BY DEF BeginDrag, SelectionTypes, selection
<1>2. drags + 1 \in 0..MaxDrags
  BY CanvasAssumption DEF BeginDrag, MarkTypes
<1> QED BY <1>1, <1>2 DEF BeginDrag, MarkTypes

LEMMA CanvasTypeStep ==
  ASSUME CanvasTypeOK, Known, [CanvasNext]_canvasVars, Known'
  PROVE  CanvasTypeOK'
<1> USE DEF selection
<1>1. SelectionTypes /\ MarkTypes
  BY CanvasParts
<1> SUFFICES SelectionTypes' /\ MarkTypes'
  BY DEF CanvasTypeOK, Known, SelectionTypes, MarkTypes
<1>2. CASE editModeToggled
  BY <1>1, <1>2 DEF editModeToggled, SelectionTypes, MarkTypes
<1>3. CASE AnimationFrame
  <2>1. SelectionTypes'
    <3>1. CASE frame.kind = "interface"
      BY <1>1, <1>3, <3>1, OneSelected DEF AnimationFrame
    <3>2. CASE frame.kind # "interface"
      BY <1>1, <1>3, <3>2 DEF AnimationFrame, SelectionTypes
    <3> QED BY <3>1, <3>2
  <2>2. frame.from \in Devices \cup {NoDevice}
    BY <1>1 DEF MarkTypes, Drags
  <2> QED BY <1>1, <1>3, <2>1, <2>2, NoDragType DEF AnimationFrame, MarkTypes
<1>4. CASE DropLink
  <2>1. over \in Devices /\ drag.from \in Devices
    <3>1. over \in Devices
      BY <1>4, DropIsNew DEF DropLink
    <3>2. drag.kind = "interface"
      BY <1>4 DEF DropLink, canDrop
    <3> QED BY <3>1, <3>2 DEF Known
  <2>2. Dropped(drag, over) \in Pairs
    BY <2>1, DroppedEnds DEF Pairs
  <2>3. connectionSelected(Dropped(drag, over)) /\ Ends
    BY <1>4 DEF DropLink
  <2>4. SelectionTypes'
    BY <1>1, <2>2, <2>3, OneSelected
  <2>5. meant' \subseteq Pairs
    BY <1>1, <1>4, <2>2 DEF DropLink, MarkTypes
  <2>6. raced' \subseteq Races
    BY <1>1, <1>4 DEF DropLink, MarkTypes, Races
  <2> QED BY <1>1, <2>3, <2>4, <2>5, <2>6, EndTypes DEF MarkTypes
<1>5. CASE Cancel
  <2>1. SelectionTypes'
    <3>1. drag.from \in Devices \cup {NoDevice} /\ drag.link \in Pairs \cup {Unset}
      BY DEF Known, Drags
    <3>2. iconSelected(drag.from) \/ connectionSelected(drag.link)
      BY <1>5 DEF Cancel, Reselect
    <3> QED BY <1>1, <3>1, <3>2, IconSelected, OneSelected
  <2>2. raced' \subseteq Races /\ meant' \subseteq Pairs /\ Ends
    BY <1>1, <1>5 DEF Cancel, MarkTypes, Races
  <2> QED BY <1>1, <2>1, <2>2, EndTypes DEF MarkTypes
<1>6. CASE DropIcon
  <2>1. SelectionTypes'
    BY <1>1, <1>6 DEF DropIcon, SelectionTypes
  <2>2. raced' \subseteq Races /\ meant' \subseteq Pairs /\ Ends
    BY <1>1, <1>6 DEF DropIcon, MarkTypes, Races
  <2> QED BY <1>1, <2>1, <2>2, EndTypes DEF MarkTypes
<1>7. CASE Reload
  <2>1. Cardinality({}) = 0
    BY FS_EmptySet
  <2>2. SelectionTypes'
    BY <1>7, <2>1 DEF Reload, SelectionTypes
  <2> QED BY <1>1, <1>7, <2>2, NoDragType DEF Reload, MarkTypes
<1>8. ASSUME NEW d \in Devices, clickIcon(d)
      PROVE  SelectionTypes' /\ MarkTypes'
  <2>1. SelectionTypes'
    BY <1>1, <1>8, IconSelected DEF clickIcon, SelectionTypes
  <2>2. expandedIcons' \subseteq Devices
    BY <1>1, <1>8 DEF clickIcon, MarkTypes
  <2> QED BY <1>1, <1>8, <2>1, <2>2 DEF clickIcon, MarkTypes
<1>9. ASSUME NEW d \in Devices, DragIcon(d) \/ DragNewLink(d)
      PROVE  SelectionTypes' /\ MarkTypes'
  <2>1. /\ [kind |-> "icon", from |-> d, link |-> Unset, end |-> 0] \in Drags
        /\ [kind |-> "interface", from |-> d, link |-> Unset, end |-> 0] \in Drags
    BY DEF Drags
  <2> QED BY <1>1, <1>9, <2>1, BeginTypes DEF DragIcon, DragNewLink
<1>10. ASSUME NEW l \in links, connSelected(l)
       PROVE  SelectionTypes' /\ MarkTypes'
  <2>1. l \in Pairs
    BY DEF Known
  <2>2. SelectionTypes'
    BY <1>1, <1>10, <2>1, OneSelected DEF connSelected
  <2> QED BY <1>1, <1>10, <2>2 DEF connSelected, MarkTypes
<1>11. ASSUME NEW l \in links, deleteConn(l)
       PROVE  SelectionTypes' /\ MarkTypes'
  <2>1. l \in Pairs
    BY DEF Known
  <2>2. SelectionTypes'
    BY <1>1, <1>11, <2>1, OneSelected DEF deleteConn
  <2> QED BY <1>1, <1>11, <2>2 DEF deleteConn, MarkTypes
<1>12. ASSUME NEW l \in links, NEW e \in 1..2, DragLinkEnd(l, e)
       PROVE  SelectionTypes' /\ MarkTypes'
  <2>1. l \in Pairs /\ 3 - e \in 1..2
    BY DEF Known
  <2>2. l[3 - e] \in Devices
    BY <2>1 DEF Pairs
  <2>3. [kind |-> "interface", from |-> l[3 - e], link |-> l, end |-> e] \in Drags
    BY <2>1, <2>2 DEF Drags
  <2> QED BY <1>1, <1>12, <2>3, BeginTypes DEF DragLinkEnd
<1>13. ASSUME NEW o \in Devices \cup {NoDevice}, Hover(o)
       PROVE  SelectionTypes' /\ MarkTypes'
  <2>1. hoveredIcon' \in Devices \cup {NoDevice}
    BY <1>1, <1>13, HoveredType DEF Hover, MarkTypes
  <2>2. SelectionTypes'
    BY <1>1, <1>13 DEF Hover, SelectionTypes
  <2> QED BY <1>1, <1>13, <2>1, <2>2 DEF Hover, MarkTypes, Races
<1>14. ASSUME NEW e \in edits, ReceiveEdit(e)
       PROVE  SelectionTypes' /\ MarkTypes'
  <2>1. hoveredIcon' \in Devices \cup {NoDevice}
    BY <1>1, <1>14, HoveredType DEF ReceiveEdit, MarkTypes
  <2>2. SelectionTypes'
    BY <1>1, <1>14 DEF ReceiveEdit, SelectionTypes
  <2> QED BY <1>1, <1>14, <2>1, <2>2 DEF ReceiveEdit, MarkTypes, Races
<1>15. CASE UNCHANGED canvasVars
  BY <1>1, <1>15 DEF canvasVars, SelectionTypes, MarkTypes
<1> QED BY <1>2, <1>3, <1>4, <1>5, <1>6, <1>7, <1>8, <1>9, <1>10, <1>11, <1>12, <1>13, <1>14,
           <1>15 DEF CanvasNext

LEMMA CanvasTypeInit == CanvasInit => CanvasTypeOK
<1> SUFFICES ASSUME CanvasInit PROVE CanvasTypeOK
  OBVIOUS
<1>1. Cardinality({}) = 0
  BY FS_EmptySet
<1>2. SelectionTypes
  BY <1>1 DEF CanvasInit, SelectionTypes
<1>3. MarkTypes
  <2>1. FirstLinks \subseteq Pairs /\ 0 \in 0..MaxDrags
    BY CanvasAssumption
  <2> QED BY <2>1, NoDragType DEF CanvasInit, MarkTypes
<1>4. Known
  BY GestureInit DEF GestureInv
<1> QED BY <1>2, <1>3, <1>4, CanvasParts

------------------------------------------------------------------------------
(* The configuration: types.                                                 *)

DocumentTypes(doc) ==
  /\ doc.stack \in Seq(BOOLEAN) /\ Len(doc.stack) <= MaxDepth
  /\ doc.note \in Pointers /\ doc.text \in BOOLEAN /\ doc.indent \in Int /\ doc.last \in Int

AheadTypes(ln) == ln.indent \in Int /\ ln.ptr \in Pointers /\ ln.want \in BOOLEAN

\* Where a line may be that is not indented again: at a depth, or without text.
CliIndent(i) == i = -1 \/ \E k \in Nat : k <= MaxDepth /\ i = IndentOf(k)

\* The calls are at lines that are each deeper than the one before.
CliInv ==
  /\ CliIndent(line.indent)
  /\ Len(frames) <= MaxDepth + 1
  /\ \A i \in 1..Len(frames) : frames[i].blockIndent >= IndentOf(i - 1)

\* The inductive invariant for the types: how many calls there are after a line
\* without text shows in what they are indented by.
TextTypes ==
  /\ TextTypeOK /\ DocumentTypes(document) /\ frames \in Seq(FrameType)
  /\ ragged => format = "cli"
  /\ format = "cli" => CliInv

LEMMA ReadType ==
  ASSUME DocumentTypes(document), NEW kind, NEW d \in Nat, d <= MaxDepth,
         NEW ptr \in Pointers, NEW want \in BOOLEAN,
         NEW stack \in Seq(BOOLEAN), Len(stack) <= MaxDepth, NEW note \in Pointers,
         NEW text \in BOOLEAN
  PROVE  LET n == Read(document, kind, d, ptr, want, stack, note, text)
         IN  /\ DocumentTypes(n.document) /\ AheadTypes(n.line)
             /\ format = "cli" => CliIndent(n.line.indent)
<1> DEFINE p == pretty(document, kind, Leading[d])
           n == Read(document, kind, d, ptr, want, stack, note, text)
<1>1. Leading[d] \in Int /\ Leading[0] \in Int /\ document.indent \in Int /\ document.last \in Int
  BY TextAssumption DEF DocumentTypes
<1>2. p.indent \in Int /\ p.next \in Int
  <2>1. trim(document, Leading[d]).indent \in Int /\ trim(document, Leading[d]).next \in Int
    BY <1>1 DEF trim
  <2>2. ASSUME NEW level \in {1, 2}
        PROVE  /\ reIndent(document, Leading[d], level).indent \in Int
               /\ reIndent(document, Leading[d], level).next \in Int
    BY <1>1 DEF reIndent
  <2>3. reIndentXml(document, kind).indent \in Int /\ reIndentXml(document, kind).next \in Int
    BY <1>1 DEF reIndentXml
  <2>4. p \in {trim(document, Leading[d]), reIndent(document, Leading[d], 1),
               reIndent(document, Leading[d], 2), reIndentXml(document, kind)}
    <3>1. CASE format = "cli"
      BY <3>1 DEF pretty
    <3>2. CASE format = "json"
      BY <3>2 DEF pretty
    <3>3. CASE format = "xml"
      BY <3>3 DEF pretty
    <3>4. CASE format \notin {"cli", "json", "xml"}
      BY <3>4 DEF pretty
    <3> QED BY <3>1, <3>2, <3>3, <3>4
  <2> HIDE DEF p
  <2> QED BY <2>1, <2>2, <2>3, <2>4
<1>3. ASSUME format = "cli"
      PROVE  CliIndent(p.indent)
  <2>1. p.indent = Leading[d] - Leading[0]
    BY <1>3 DEF pretty, trim
  <2>2. p.indent = IndentOf(d)
    BY <1>3, <2>1 DEF IndentOf
  <2> QED BY <2>2 DEF CliIndent
<1>4. /\ n.line.indent = p.indent /\ n.line.ptr = ptr /\ n.line.want = want
      /\ n.document.stack = stack /\ n.document.note = note /\ n.document.text = text
      /\ n.document.indent = p.next /\ n.document.last = Leading[d]
  BY DEF Read, Line
<1> HIDE DEF p, n
<1> QED BY <1>1, <1>2, <1>3, <1>4 DEF DocumentTypes, AheadTypes, n

\* Every line that may come next, and the document after it.
LEMMA NextTypes ==
  ASSUME DocumentTypes(document), ReadNext, UNCHANGED format, ragged \in BOOLEAN
  PROVE  /\ DocumentTypes(document') /\ AheadTypes(line') /\ ragged' \in BOOLEAN
         /\ format = "cli" => CliIndent(line'.indent)
         /\ ragged' /\ ~ragged => format = "cli"
<1> DEFINE s == document.stack
           m == Len(document.stack)
           Ok(n) == /\ DocumentTypes(n.document) /\ AheadTypes(n.line)
                    /\ format = "cli" => CliIndent(n.line.indent)
<1>1. /\ s \in Seq(BOOLEAN) /\ m \in Nat /\ m <= MaxDepth /\ MaxDepth \in Nat
      /\ document.note \in Pointers /\ document.text \in BOOLEAN
      /\ "none" \in Pointers /\ FALSE \in BOOLEAN /\ TRUE \in BOOLEAN
  BY TextAssumption DEF DocumentTypes, Pointers
<1>2. Depth(document) = m /\ Top(document) \in BOOLEAN
  <2>1. CASE s = <<>>
    BY <2>1 DEF Top, Depth
  <2>2. CASE s # <<>>
    <3>1. m \in 1..m
      BY <1>1, <2>2
    <3>2. s[m] \in BOOLEAN
      BY <1>1, <3>1, ElementOfSeq
    <3> QED BY <2>2, <3>2 DEF Top, Depth
  <2> QED BY <2>1, <2>2
<1>3. \A ptr : Marked(document, ptr) \in BOOLEAN
  BY <1>2 DEF Marked
<1>4. OwnPointers \subseteq Pointers /\ Unfinished \subseteq BOOLEAN
  BY DEF OwnPointers, Unfinished, Pointers
<1>5. AheadTypes(EndOfText) /\ CliIndent(EndOfText.indent)
  BY <1>1 DEF EndOfText, Line, AheadTypes, CliIndent
<1>6. ASSUME s # <<>>
      PROVE  /\ m - 1 \in Nat /\ m - 1 <= MaxDepth
             /\ SubSeq(s, 1, m - 1) \in Seq(BOOLEAN) /\ Len(SubSeq(s, 1, m - 1)) <= MaxDepth
  <2>1. m - 1 \in Nat /\ m - 1 <= MaxDepth
    BY <1>1, <1>6
  <2>2. \A i \in 1..(m - 1) : s[i] \in BOOLEAN
    BY <1>1, ElementOfSeq
  <2>3. /\ SubSeq(s, 1, m - 1) \in Seq(BOOLEAN)
        /\ Len(SubSeq(s, 1, m - 1)) = IF 1 <= m - 1 THEN m - 1 - 1 + 1 ELSE 0
    BY <2>1, <2>2, SubSeqProperties
  <2> HIDE DEF s, m
  <2>4. Len(SubSeq(s, 1, m - 1)) <= MaxDepth
    BY <1>1, <2>1, <2>3
  <2> QED BY <2>1, <2>3, <2>4
<1>7. ASSUME NEW n \in NextLines(document)
      PROVE  Ok(n)
  <2>1. CASE n \in AtEnd(document)
    BY <1>5, <2>1 DEF AtEnd
  <2>2. CASE s = <<>>
    BY <2>1, <2>2 DEF NextLines
  <2>3. CASE s # <<>> /\ document.text
    <3>1. n \in Texts(document)
      BY <2>3 DEF NextLines
    <3>2. CASE n = Read(document, "text", m, "none", Top(document), s, "none", TRUE)
      BY <1>1, <1>2, <3>2, ReadType
    <3>3. CASE n = Read(document, "textEnd", m, "none", Top(document),
                        SubSeq(s, 1, m - 1), "none", FALSE)
      BY <1>1, <1>2, <1>6, <2>3, <3>3, ReadType
    <3> QED BY <1>2, <3>1, <3>2, <3>3, Zenon DEF Texts
  <2>4. CASE s # <<>> /\ ~document.text /\ n \notin AtEnd(document)
    <3>1. n \in Annotations(document) \cup Leaves(document) \cup Opens(document) \cup Exits(document)
      BY <2>4 DEF NextLines
    <3>2. CASE n \in Annotations(document)
      <4>1. PICK ptr \in Pointers :
              n = Read(document, "meta", m, ptr, FALSE, s, ptr, FALSE)
        BY <1>2, <3>2, Zenon DEF Annotations
      <4> QED BY <1>1, <4>1, ReadType
    <3>3. CASE n \in Leaves(document)
      <4>1. PICK ptr \in OwnPointers :
              n = Read(document, "leaf", m, ptr, Marked(document, ptr), s, "none", FALSE)
        BY <1>2, <3>3, Zenon DEF Leaves
      <4> QED BY <1>1, <1>3, <1>4, <4>1, ReadType
    <3>4. CASE n \in Opens(document)
      <4>1. m # MaxDepth /\ \E ptr \in OwnPointers, text \in Unfinished :
              n = Read(document, "open", m, ptr, Marked(document, ptr),
                       Append(s, Marked(document, ptr)), "none", text)
        <5>1. m # MaxDepth
          BY <1>2, <3>4 DEF Opens
        <5> QED BY <1>2, <3>4, <5>1 DEF Opens
      <4>2. PICK ptr \in OwnPointers, text \in Unfinished :
              n = Read(document, "open", m, ptr, Marked(document, ptr),
                       Append(s, Marked(document, ptr)), "none", text)
        BY <4>1
      <4>3. /\ Append(s, Marked(document, ptr)) \in Seq(BOOLEAN)
            /\ Len(Append(s, Marked(document, ptr))) = m + 1
        BY <1>1, <1>3, AppendProperties
      <4>4. Len(Append(s, Marked(document, ptr))) <= MaxDepth
        BY <1>1, <4>1, <4>3
      <4> QED BY <1>1, <1>3, <1>4, <4>2, <4>3, <4>4, ReadType
    <3>5. CASE n \in Exits(document)
      <4>1. PICK k : n = Read(document, k, m - 1, "none", Top(document),
                              SubSeq(s, 1, m - 1), "none", FALSE)
        <5>1. document.note = "none"
          BY <3>5 DEF Exits
        <5> QED BY <1>2, <3>5, <5>1 DEF Exits
      <4> QED BY <1>1, <1>2, <1>6, <2>4, <4>1, ReadType
    <3> QED BY <3>1, <3>2, <3>3, <3>4, <3>5
  <2> QED BY <2>1, <2>2, <2>3, <2>4
<1>8. CASE \E n \in NextLines(document) :
             line' = n.line /\ document' = n.document /\ UNCHANGED ragged
  <2>1. PICK n \in NextLines(document) :
          line' = n.line /\ document' = n.document /\ UNCHANGED ragged
    BY <1>8
  <2>2. Ok(n)
    BY <1>7
  <2> QED BY <2>1, <2>2
<1>9. CASE /\ format = "cli" /\ line' = Line("leaf", -1, "none", Top(document))
           /\ ragged' = TRUE /\ UNCHANGED document
  <2>1. line'.indent = -1 /\ line'.ptr = "none" /\ line'.want = Top(document)
    BY <1>9 DEF Line
  <2> QED BY <1>1, <1>2, <1>9, <2>1 DEF AheadTypes, CliIndent
<1> QED BY <1>8, <1>9 DEF ReadNext

\* The innermost call and those around it.
LEMMA OuterIs ==
  ASSUME frames \in Seq(FrameType), frames # <<>>
  PROVE  LET n == Len(frames)
         IN  /\ n \in Nat /\ n >= 1 /\ Frame = frames[n] /\ Frame \in FrameType
             /\ Outer \in Seq(FrameType) /\ Len(Outer) = n - 1
             /\ \A i \in 1..(n - 1) : Outer[i] = frames[i]
<1> DEFINE n == Len(frames)
<1>1. n \in Nat /\ n >= 1
  BY EmptySeq, LenProperties
<1>2. \A i \in 1..n : frames[i] \in FrameType
  BY ElementOfSeq
<1>3. Frame = frames[n] /\ Frame \in FrameType
  <2>1. n \in 1..n
    BY <1>1
  <2> QED BY <1>2, <2>1, Zenon DEF Frame
<1> HIDE DEF FrameType
<1>4. Outer = SubSeq(frames, 1, n - 1)
  BY DEF Outer
<1>5. n - 1 \in Int /\ \A i \in 1..(n - 1) : frames[i] \in FrameType
  BY <1>1, <1>2
<1>6. /\ SubSeq(frames, 1, n - 1) \in Seq(FrameType)
      /\ Len(SubSeq(frames, 1, n - 1)) = IF 1 <= n - 1 THEN n - 1 - 1 + 1 ELSE 0
      /\ \A i \in 1..(n - 1 - 1 + 1) : SubSeq(frames, 1, n - 1)[i] = frames[1 + i - 1]
  BY <1>5, SubSeqProperties
<1>7. n - 1 - 1 + 1 = n - 1 /\ \A i \in 1..(n - 1) : 1 + i - 1 = i
  BY <1>1
<1> QED BY <1>1, <1>3, <1>4, <1>6, <1>7

\* How many calls there may be before a line that is deeper is read.
LEMMA CallsBound ==
  ASSUME TextInv, TextTypes, frames # <<>>, line.kind \notin {"unread", "end"}
  PROVE  Len(frames) <= MaxDepth + 1
<1>1. CASE ragged
  BY <1>1 DEF TextTypes, CliInv
<1>2. CASE ~ragged
  BY <1>2 DEF TextInv, AtLine, BlocksInv, CallsInv
<1> QED BY <1>1, <1>2

\* The line that is shown.
LEMMA ShownType ==
  ASSUME AheadTypes(line), NEW h \in BOOLEAN, Pushed(h)
  PROVE  shown' \in [want: BOOLEAN, highlight: BOOLEAN]
BY DEF AheadTypes, Pushed

LEMMA TextTypesParts ==
  TextTypes <=>
    /\ format \in Formats \cup {"undefined"}
    /\ serviceMetaData \in BOOLEAN /\ isFetching \in BOOLEAN /\ ragged \in BOOLEAN
    /\ DocumentTypes(document) /\ AheadTypes(line)
    /\ frames \in Seq(FrameType) /\ Len(frames) <= MaxDepth + 2
    /\ shown \in [want: BOOLEAN, highlight: BOOLEAN]
    /\ ragged => format = "cli"
    /\ format = "cli" => CliInv
<1>1. ASSUME frames \in Seq(FrameType)
      PROVE  \A i \in DOMAIN frames : /\ frames[i].backpointer \in Pointers
                                      /\ frames[i].highlight \in BOOLEAN
  <2>1. DOMAIN frames = 1..Len(frames)
    BY <1>1
  <2>2. \A i \in DOMAIN frames : frames[i] \in FrameType
    BY <1>1, <2>1, ElementOfSeq
  <2> QED BY <2>2 DEF FrameType
<1> QED BY <1>1 DEF TextTypes, TextTypeOK, DocumentTypes, AheadTypes

\* The innermost call has looked at the line.
LEMMA LookedType ==
  ASSUME TextTypes, frames # <<>>
  PROVE  /\ Looked \in FrameType /\ Looked.blockIndent = Frame.blockIndent
         /\ Frame.highlight \in BOOLEAN
         /\ Append(Outer, Looked) \in Seq(FrameType)
         /\ Len(Append(Outer, Looked)) = Len(frames)
         /\ \A i \in 1..Len(frames) :
              Append(Outer, Looked)[i].blockIndent = frames[i].blockIndent
<1> DEFINE n == Len(frames)
<1>1. /\ n \in Nat /\ n >= 1 /\ Frame = frames[n] /\ Frame \in FrameType
      /\ Outer \in Seq(FrameType) /\ Len(Outer) = n - 1
      /\ \A i \in 1..(n - 1) : Outer[i] = frames[i]
  BY OuterIs, TextTypesParts
<1>2. AheadTypes(line)
  BY TextTypesParts
<1>3. Looked \in FrameType /\ Looked.blockIndent = Frame.blockIndent /\ Frame.highlight \in BOOLEAN
  BY <1>1, <1>2 DEF Looked, FrameType, AheadTypes
<1> HIDE DEF FrameType, n
<1> DEFINE G == Append(Outer, Looked)
<1>4. G \in Seq(FrameType) /\ Len(G) = n /\ G[n] = Looked /\ \A i \in 1..(n - 1) : G[i] = Outer[i]
  BY <1>1, <1>3
<1> HIDE DEF G
<1>5. \A i \in 1..n : G[i].blockIndent = frames[i].blockIndent
  <2> TAKE i \in 1..n
  <2>1. CASE i = n
    BY <1>1, <1>3, <1>4, <2>1
  <2>2. CASE i # n
    <3>1. i \in 1..(n - 1)
      BY <1>1, <2>2
    <3> QED BY <1>1, <1>4, <3>1
  <2> QED BY <2>1, <2>2
<1> QED BY <1>3, <1>4, <1>5 DEF G, n

LEMMA TextTypeStep ==
  ASSUME TextTypes, TextInv, [TextNext]_textVars
  PROVE  TextTypes'
<1>0. /\ format \in Formats \cup {"undefined"}
      /\ serviceMetaData \in BOOLEAN /\ isFetching \in BOOLEAN /\ ragged \in BOOLEAN
      /\ DocumentTypes(document) /\ AheadTypes(line)
      /\ frames \in Seq(FrameType) /\ Len(frames) <= MaxDepth + 2
      /\ shown \in [want: BOOLEAN, highlight: BOOLEAN]
      /\ ragged => format = "cli"
      /\ format = "cli" => CliInv
      /\ MaxDepth \in Nat /\ MaxDepth >= 1
  BY TextTypesParts, TextAssumption
<1> DEFINE Goal == /\ format' \in Formats \cup {"undefined"}
                   /\ serviceMetaData' \in BOOLEAN /\ isFetching' \in BOOLEAN
                   /\ ragged' \in BOOLEAN
                   /\ DocumentTypes(document') /\ AheadTypes(line')
                   /\ frames' \in Seq(FrameType) /\ Len(frames') <= MaxDepth + 2
                   /\ shown' \in [want: BOOLEAN, highlight: BOOLEAN]
                   /\ ragged' => format' = "cli"
                   /\ format' = "cli" => CliInv'
<1> SUFFICES Goal
  <2>1. TextTypes' <=> Goal
    <3>1. ASSUME frames' \in Seq(FrameType)
          PROVE  \A i \in DOMAIN frames' : /\ frames'[i].backpointer \in Pointers
                                           /\ frames'[i].highlight \in BOOLEAN
      <4>1. DOMAIN frames' = 1..Len(frames')
        BY <3>1
      <4>2. \A i \in DOMAIN frames' : frames'[i] \in FrameType
        BY <3>1, <4>1, ElementOfSeq
      <4> QED BY <4>2 DEF FrameType
    <3> QED BY <3>1 DEF TextTypes, TextTypeOK, DocumentTypes, AheadTypes
  <2> QED BY <2>1
<1>1. ASSUME UNCHANGED <<format, document, line, frames, shown, ragged>>,
             serviceMetaData' \in BOOLEAN, isFetching' \in BOOLEAN
      PROVE  Goal
  <2>1. CliInv => CliInv'
    BY <1>1 DEF CliInv, CliIndent, IndentOf
  <2> QED BY <1>0, <1>1, <2>1
<1>2. ASSUME NEW f \in Formats, Render(f), serviceMetaData' \in BOOLEAN, isFetching' \in BOOLEAN
      PROVE  Goal
  <2> DEFINE first == [blockIndent |-> 0, indent |-> 1, backpointer |-> "none",
                       highlight |-> FALSE]
  <2>1. /\ format' = f /\ line' = Unread
        /\ document'.stack = <<FALSE>> /\ document'.last = Leading[0]
        /\ document'.indent = (IF f = "xml" THEN 2 ELSE 0)
        /\ document'.note = "none" /\ document'.text = FALSE
        /\ frames' = <<first>> /\ shown' = NoLine /\ ragged' = FALSE
    BY <1>2 DEF Render, DocumentStart
  <2>2. DocumentTypes(document')
    <3>1. document'.last \in Int /\ document'.note \in Pointers
      BY <1>0, <2>1, TextAssumption DEF Pointers
    <3>2. document'.stack \in Seq(BOOLEAN) /\ Len(document'.stack) <= MaxDepth
      BY <1>0, <2>1
    <3>3. document'.indent \in Int
      BY <2>1
    <3>4. document'.text \in BOOLEAN
      BY <2>1
    <3> QED BY <3>1, <3>2, <3>3, <3>4 DEF DocumentTypes
  <2>3. AheadTypes(line') /\ line'.indent = -1
    BY <2>1 DEF Unread, Line, AheadTypes, Pointers
  <2>4. first \in FrameType /\ first.blockIndent = 0
    BY DEF FrameType, Pointers
  <2> HIDE DEF first
  <2>5. frames' \in Seq(FrameType) /\ Len(frames') = 1 /\ frames'[1] = first
    BY <2>1, <2>4
  <2>6. shown' \in [want: BOOLEAN, highlight: BOOLEAN]
    BY <2>1 DEF NoLine
  <2>7. ASSUME format' = "cli"
        PROVE  CliInv'
    <3>1. IndentOf(0)' = 0
      <4>1. Leading[0] \in Nat
        BY <1>0, TextAssumption
      <4> QED BY <2>7, <4>1 DEF IndentOf
    <3>2. CliIndent(line.indent)'
      BY <2>3 DEF CliIndent
    <3>3. \A i \in 1..Len(frames') : frames'[i].blockIndent >= IndentOf(i - 1)'
      <4> TAKE i \in 1..Len(frames')
      <4>1. i = 1 /\ i - 1 = 0
        BY <2>5
      <4>2. IndentOf(i - 1)' = 0
        BY <3>1, <4>1
      <4> QED BY <2>4, <2>5, <4>1, <4>2
    <3>4. Len(frames') <= MaxDepth + 1
      BY <1>0, <2>5
    <3> QED BY <3>2, <3>3, <3>4 DEF CliInv
  <2>8. Len(frames') <= MaxDepth + 2
    BY <1>0, <2>5
  <2> QED BY <1>2, <2>1, <2>2, <2>3, <2>5, <2>6, <2>7, <2>8
<1>3. CASE getConfig
  BY <1>0, <1>1, <1>3 DEF getConfig
<1>4. CASE ReceiveConfig
  <2>1. serviceMetaData' \in BOOLEAN /\ isFetching' \in BOOLEAN
    BY <1>0, <1>4 DEF ReceiveConfig
  <2> QED BY <1>1, <1>2, <1>4, <2>1 DEF ReceiveConfig
<1>5. CASE toggleMetaData
  <2>1. serviceMetaData' \in BOOLEAN /\ isFetching' \in BOOLEAN /\ format \in Formats /\ Render(format)
    BY <1>0, <1>5 DEF toggleMetaData
  <2> QED BY <1>2, <2>1
\* The calls keep their blocks, and a line is read.
<1>6. ASSUME ReadNext, UNCHANGED <<format, serviceMetaData, isFetching>>,
             frames' \in Seq(FrameType), Len(frames') = Len(frames),
             \A i \in 1..Len(frames) : frames'[i].blockIndent = frames[i].blockIndent,
             shown' \in [want: BOOLEAN, highlight: BOOLEAN]
      PROVE  Goal
  <2>1. /\ DocumentTypes(document') /\ AheadTypes(line') /\ ragged' \in BOOLEAN
        /\ format = "cli" => CliIndent(line'.indent)
        /\ ragged' /\ ~ragged => format = "cli"
    BY <1>0, <1>6, NextTypes
  <2>2. ASSUME format = "cli"
        PROVE  CliInv'
    <3>1. CliInv
      BY <1>0, <2>2
    <3>2. CliIndent(line.indent)'
      BY <1>6, <2>1, <2>2 DEF CliIndent, IndentOf
    <3>3. \A i : IndentOf(i)' = IndentOf(i)
      BY <1>6 DEF IndentOf
    <3>4. \A i \in 1..Len(frames') : frames'[i].blockIndent >= IndentOf(i - 1)'
      BY <1>6, <3>1, <3>3 DEF CliInv
    <3> QED BY <1>6, <3>1, <3>2, <3>4 DEF CliInv
  <2>3. ragged' => format' = "cli"
    BY <1>0, <1>6, <2>1
  <2> QED BY <1>0, <1>6, <2>1, <2>2, <2>3
<1>7. CASE ReadFirst
  <2>1. ReadNext /\ UNCHANGED <<format, serviceMetaData, isFetching, frames, shown>>
    BY <1>7 DEF ReadFirst
  <2> QED BY <1>0, <1>6, <2>1
<1>8. CASE ExitLine
  <2>1. /\ ReadNext /\ UNCHANGED <<format, serviceMetaData, isFetching>> /\ frames # <<>>
        /\ Pushed(Frame.highlight) /\ frames' = Append(Outer, Looked)
    BY <1>8 DEF ExitLine
  <2>2. shown' \in [want: BOOLEAN, highlight: BOOLEAN]
    BY <1>0, <2>1, LookedType, ShownType
  <2> QED BY <1>6, <2>1, <2>2, LookedType
<1>9. CASE MetaLine
  <2>1. /\ ReadNext /\ UNCHANGED <<format, serviceMetaData, isFetching>> /\ frames # <<>>
        /\ Pushed(FALSE) \/ UNCHANGED shown
        /\ frames' = Append(Outer, Looked)
    BY <1>9 DEF MetaLine
  <2>2. shown' \in [want: BOOLEAN, highlight: BOOLEAN]
    BY <1>0, <2>1, ShownType
  <2> QED BY <1>6, <2>1, <2>2, LookedType
<1>10. CASE LookAtNext
  <2>1. /\ UNCHANGED <<format, serviceMetaData, isFetching, document, line, shown, ragged>>
        /\ frames # <<>> /\ frames' = Append(Outer, Looked)
    BY <1>10 DEF LookAtNext
  <2>2. /\ frames' \in Seq(FrameType) /\ Len(frames') = Len(frames)
        /\ \A i \in 1..Len(frames) : frames'[i].blockIndent = frames[i].blockIndent
    BY <2>1, LookedType
  <2>3. CliInv => CliInv'
    BY <2>1, <2>2 DEF CliInv, CliIndent, IndentOf
  <2> QED BY <1>0, <2>1, <2>2, <2>3
<1>11. CASE EndBlock
  <2>1. /\ UNCHANGED <<format, serviceMetaData, isFetching, document, line, shown, ragged>>
        /\ frames # <<>> /\ frames' = Outer
    BY <1>11 DEF EndBlock
  <2> DEFINE n == Len(frames)
  <2>2. /\ n \in Nat /\ n >= 1 /\ frames' \in Seq(FrameType) /\ Len(frames') = n - 1
        /\ \A i \in 1..(n - 1) : frames'[i] = frames[i]
    BY <1>0, <2>1, OuterIs
  <2>3. CliInv => CliInv'
    <3> SUFFICES ASSUME CliInv
                 PROVE  CliInv'
      OBVIOUS
    <3>1. \A i : IndentOf(i)' = IndentOf(i)
      BY <2>1 DEF IndentOf
    <3>2. CliIndent(line.indent)'
      BY <2>1, <3>1 DEF CliInv, CliIndent
    <3>3. \A i \in 1..Len(frames') : frames'[i].blockIndent >= IndentOf(i - 1)'
      <4> TAKE i \in 1..Len(frames')
      <4>1. i \in 1..(n - 1) /\ i \in 1..n
        BY <2>2
      <4>2. frames[i].blockIndent >= IndentOf(i - 1)
        BY <4>1 DEF CliInv
      <4> QED BY <2>2, <3>1, <4>1, <4>2
    <3>4. Len(frames') <= MaxDepth + 1
      BY <1>0, <2>2 DEF CliInv
    <3> QED BY <3>2, <3>3, <3>4 DEF CliInv
  <2>4. Len(frames') <= MaxDepth + 2
    BY <1>0, <2>2
  <2> QED BY <1>0, <2>1, <2>2, <2>3, <2>4
<1>12. CASE processBlock
  <2> DEFINE n == Len(frames)
             h == BlockHighlight(Looked)
             a == AfterBlock(Looked)
             b == [blockIndent |-> line.indent, indent |-> line.indent + 1,
                   backpointer |-> "none", highlight |-> h]
             G == Outer \o <<a, b>>
  <2>1. /\ ReadNext /\ UNCHANGED <<format, serviceMetaData, isFetching>> /\ frames # <<>>
        /\ Pushed(h) /\ frames' = G /\ line.indent > Frame.blockIndent
        /\ line.kind \notin {"unread", "end"}
    BY <1>12 DEF processBlock, Looping
  <2>2. /\ n \in Nat /\ n >= 1 /\ Frame = frames[n] /\ Frame \in FrameType
        /\ Outer \in Seq(FrameType) /\ Len(Outer) = n - 1
        /\ \A i \in 1..(n - 1) : Outer[i] = frames[i]
    BY <1>0, <2>1, OuterIs
  <2>3. Looked \in FrameType /\ Looked.blockIndent = Frame.blockIndent
    BY <2>1, LookedType
  <2>4. h \in BOOLEAN
    BY <2>3 DEF BlockHighlight, FrameType
  <2>5. a \in FrameType /\ a.blockIndent = Frame.blockIndent
    BY <2>3 DEF AfterBlock, FrameType, Pointers
  <2> HIDE DEF h, a
  <2>6. b \in FrameType /\ b.blockIndent = line.indent /\ line.indent \in Int
        /\ Frame.blockIndent \in Int
    BY <1>0, <2>2, <2>4 DEF AheadTypes, FrameType, Pointers
  <2> HIDE DEF b
  <2>7. n <= MaxDepth + 1
    BY <2>1, CallsBound
  <2> HIDE DEF FrameType
  <2>8. <<a, b>> \in Seq(FrameType) /\ Len(<<a, b>>) = 2 /\ <<a, b>>[1] = a /\ <<a, b>>[2] = b
    BY <2>5, <2>6
  <2>9. /\ G \in Seq(FrameType) /\ Len(G) = n + 1 /\ G[n] = a /\ G[n + 1] = b
        /\ \A i \in 1..(n - 1) : G[i] = frames[i]
    <3> DEFINE w == <<a, b>>
    <3>1. w \in Seq(FrameType) /\ Len(w) = 2 /\ w[1] = a /\ w[2] = b
      BY <2>8
    <3> HIDE DEF w
    <3>2. /\ Outer \o w \in Seq(FrameType) /\ Len(Outer \o w) = Len(Outer) + Len(w)
          /\ \A i \in 1..(Len(Outer) + Len(w)) :
               (Outer \o w)[i] = IF i <= Len(Outer) THEN Outer[i] ELSE w[i - Len(Outer)]
      BY <2>2, <3>1, ConcatProperties
    <3>3. Len(Outer) + Len(w) = n + 1
      BY <2>2, <3>1
    <3>4. (Outer \o w)[n] = w[n - (n - 1)] /\ (Outer \o w)[n + 1] = w[n + 1 - (n - 1)]
      BY <2>2, <3>2, <3>3
    <3>5. n - (n - 1) = 1 /\ n + 1 - (n - 1) = 2
      BY <2>2
    <3>6. \A i \in 1..(n - 1) : (Outer \o w)[i] = Outer[i]
      BY <2>2, <3>2, <3>3
    <3> QED BY <2>2, <3>1, <3>2, <3>3, <3>4, <3>5, <3>6 DEF w
  <2> HIDE DEF G
  <2>10. /\ DocumentTypes(document') /\ AheadTypes(line') /\ ragged' \in BOOLEAN
         /\ format = "cli" => CliIndent(line'.indent)
         /\ ragged' /\ ~ragged => format = "cli"
    BY <1>0, <2>1, NextTypes
  <2>11. ASSUME format = "cli"
         PROVE  CliInv'
    <3>1. CliInv
      BY <1>0, <2>11
    <3>2. CliIndent(line.indent)'
      BY <2>1, <2>10, <2>11 DEF CliIndent, IndentOf
    <3>3. \A i : IndentOf(i)' = IndentOf(i)
      BY <2>1 DEF IndentOf
    <3>4. n - 1 \in Nat /\ n - 1 <= MaxDepth
      BY <1>0, <2>2, <2>7
    <3>5. Frame.blockIndent >= IndentOf(n - 1) /\ IndentOf(n - 1) \in Nat
      <4>1. n \in 1..n
        BY <2>2
      <4>2. IndentOf(n - 1) \in Nat
        BY <3>4, UnitGrows
      <4> QED BY <2>2, <3>1, <4>1, <4>2 DEF CliInv
    <3>6. PICK k \in Nat : k <= MaxDepth /\ line.indent = IndentOf(k)
      <4>1. line.indent # -1
        BY <2>1, <2>6, <3>5
      <4> QED BY <3>1, <4>1 DEF CliInv, CliIndent
    <3>7. n - 1 < k
      <4>1. IndentOf(n - 1) < IndentOf(k)
        BY <2>1, <2>6, <3>5, <3>6
      <4> QED BY <3>4, <3>6, <4>1, UnitGrows
    <3>8. n <= k /\ n <= MaxDepth
      BY <1>0, <2>2, <3>6, <3>7
    <3>9. line.indent >= IndentOf(n)
      <4>1. /\ IndentOf(n) \in Nat /\ IndentOf(k) \in Nat
            /\ (IndentOf(n) < IndentOf(k) <=> n < k) /\ (IndentOf(n) = IndentOf(k) <=> n = k)
        BY <2>2, <3>6, <3>8, UnitGrows
      <4> QED BY <2>2, <3>6, <3>8, <4>1
    <3>10. \A i \in 1..Len(frames') : frames'[i].blockIndent >= IndentOf(i - 1)'
      <4> TAKE i \in 1..Len(frames')
      <4>1. frames' = G /\ Len(frames') = n + 1 /\ IndentOf(i - 1)' = IndentOf(i - 1)
        BY <2>1, <2>9, <3>3
      <4>2. CASE i = n
        BY <2>5, <2>9, <3>5, <4>1, <4>2
      <4>3. CASE i = n + 1
        <5>1. i - 1 = n
          BY <2>2, <4>3
        <5> QED BY <2>6, <2>9, <3>9, <4>1, <4>3, <5>1
      <4>4. CASE i \notin {n, n + 1}
        <5>1. i \in 1..(n - 1) /\ i \in 1..n
          BY <2>2, <4>1, <4>4
        <5>2. frames[i].blockIndent >= IndentOf(i - 1)
          BY <3>1, <5>1 DEF CliInv
        <5> QED BY <2>9, <4>1, <5>1, <5>2
      <4> QED BY <4>2, <4>3, <4>4
    <3>11. Len(frames') <= MaxDepth + 1
      BY <1>0, <2>1, <2>2, <2>9, <3>8
    <3> QED BY <3>2, <3>10, <3>11 DEF CliInv
  <2>12. Len(frames') <= MaxDepth + 2
    BY <1>0, <2>1, <2>2, <2>7, <2>9
  <2>13. shown' \in [want: BOOLEAN, highlight: BOOLEAN]
    BY <1>0, <2>1, <2>4, ShownType
  <2>14. ragged' => format' = "cli"
    BY <1>0, <2>1, <2>10
  <2> QED BY <1>0, <2>1, <2>9, <2>10, <2>11, <2>12, <2>13, <2>14
<1>13. CASE UNCHANGED textVars
  BY <1>0, <1>1, <1>13 DEF textVars
<1> QED BY <1>3, <1>4, <1>5, <1>7, <1>8, <1>9, <1>10, <1>11, <1>12, <1>13 DEF TextNext

LEMMA TextTypeInit == TextInit => TextTypes
<1> SUFFICES ASSUME TextInit
             PROVE  TextTypes
  OBVIOUS
<1>1. /\ document.stack = <<>> /\ document.note = "none" /\ document.text = FALSE
      /\ document.indent = -2 /\ document.last = -1
      /\ line.indent = -1 /\ line.ptr = "none" /\ line.want = FALSE
      /\ format = "undefined" /\ serviceMetaData = FALSE /\ isFetching = FALSE
      /\ frames = <<>> /\ ragged = FALSE
      /\ shown = [want |-> FALSE, highlight |-> FALSE]
  BY DEF TextInit, DocumentStart, EndOfText, Line, NoLine
<1>2. MaxDepth \in Nat /\ "none" \in Pointers
  BY TextAssumption DEF Pointers
<1>3. DocumentTypes(document)
  <2>1. document.stack \in Seq(BOOLEAN) /\ Len(document.stack) <= MaxDepth
    BY <1>1, <1>2
  <2>2. document.indent \in Int /\ document.last \in Int
    BY <1>1
  <2>3. document.text \in BOOLEAN /\ document.note \in Pointers
    BY <1>1, <1>2
  <2> QED BY <2>1, <2>2, <2>3 DEF DocumentTypes
<1>4. AheadTypes(line)
  <2>1. line.indent \in Int
    BY <1>1
  <2>2. line.want \in BOOLEAN /\ line.ptr \in Pointers
    BY <1>1, <1>2
  <2> QED BY <2>1, <2>2 DEF AheadTypes
<1>5. frames \in Seq(FrameType) /\ Len(frames) <= MaxDepth + 2
  BY <1>1, <1>2
<1>6. shown \in [want: BOOLEAN, highlight: BOOLEAN]
  BY <1>1
<1> QED BY <1>1, <1>3, <1>4, <1>5, <1>6, TextTypesParts

------------------------------------------------------------------------------
(* The line at the cursor: types.                                            *)

\* What a key leaves of the line is as long as the device allows.
LEMMA EditedFits ==
  ASSUME NEW l \in Seq(Chars), NEW r \in Seq(Chars), NEW k \in Keys, NEW e \in Edited(k, l, r),
         Len(l) + Len(r) <= MaxLine
  PROVE  Len(e[1]) + Len(e[2]) <= MaxLine
<1>1. /\ Len(l) \in Nat /\ Len(r) \in Nat /\ MaxLine \in Nat
      /\ l # <<>> => Len(Front(l)) = Len(l) - 1 /\ Front(l) \in Seq(Chars) /\ Last(l) \in Chars
      /\ r # <<>> => Len(Tail(r)) = Len(r) - 1 /\ Tail(r) \in Seq(Chars) /\ Head(r) \in Chars
  <2>1. Len(l) \in Nat /\ Len(r) \in Nat /\ MaxLine \in Nat
    BY LineAssumption
  <2>2. ASSUME l # <<>>
        PROVE  Len(Front(l)) = Len(l) - 1 /\ Front(l) \in Seq(Chars) /\ Last(l) \in Chars
    <3>1. PICK s \in Seq(Chars), c \in Chars : l = Append(s, c)
      BY <2>2, SequenceEmptyOrAppend
    <3>2. s \in Seq(Bytes) /\ c \in Bytes
      BY LineTypes
    <3>3. Front(l) = s /\ Last(l) = c
      BY <3>1, <3>2, FrontOfAppend
    <3>4. Len(l) = Len(s) + 1 /\ Len(s) \in Nat
      BY <3>1, AppendProperties
    <3> QED BY <3>3, <3>4
  <2>3. r # <<>> => Len(Tail(r)) = Len(r) - 1 /\ Tail(r) \in Seq(Chars) /\ Head(r) \in Chars
    BY HeadTailProperties
  <2> QED BY <2>1, <2>2, <2>3
<1>2. ASSUME NEW x, NEW y, NEW b, e = <<x, y, b>>, Len(x) + Len(y) <= MaxLine
      PROVE  Len(e[1]) + Len(e[2]) <= MaxLine
  BY <1>2
<1>3. CASE k \in Chars
  <2>1. \/ e = <<l, r, <<"BELL">>>>
        \/ /\ Len(l) + Len(r) # MaxLine
           /\ e = <<Append(l, k), r, <<k>> \o r \o Repeat("BS", Len(r))>>
    <3>1. Edited(k, l, r) = IF Len(l) + Len(r) = MaxLine THEN {<<l, r, <<"BELL">>>>}
            ELSE {<<Append(l, k), r, <<k>> \o r \o Repeat("BS", Len(r))>>}
      BY <1>3, KeysAre, Zenon DEF Edited, OtherKeys
    <3> QED BY <3>1, Zenon
  <2>2. Len(Append(l, k)) = Len(l) + 1
    BY <1>3, AppendProperties
  <2>3. Len(l) + Len(r) # MaxLine => Len(Append(l, k)) + Len(r) <= MaxLine
    BY <1>1, <2>2
  <2> QED BY <1>2, <2>1, <2>3, Zenon
<1>4. CASE k = "Backspace"
  <2>1. l # <<>> => Len(Front(l)) + Len(r) <= MaxLine
    BY <1>1
  <2>2. \/ e = <<l, r, <<"BELL">>>>
        \/ /\ l # <<>>
           /\ e = <<Front(l), r, <<"BS">> \o r \o <<"space">> \o Repeat("BS", Len(r) + 1)>>
    BY <1>4, EditedBackspace, Zenon
  <2> QED BY <1>2, <2>1, <2>2, Zenon
<1>5. CASE k = "Left"
  <2>1. l # <<>> => Len(Front(l)) + Len(<<Last(l)>> \o r) <= MaxLine
    <3> SUFFICES ASSUME l # <<>>
                 PROVE  Len(Front(l)) + Len(<<Last(l)>> \o r) <= MaxLine
      OBVIOUS
    <3>1. <<Last(l)>> \in Seq(Chars) /\ Len(<<Last(l)>>) = 1
      BY <1>1
    <3>2. Len(<<Last(l)>> \o r) = 1 + Len(r)
      BY <3>1, ConcatProperties
    <3> QED BY <1>1, <3>2
  <2>2. \/ e = <<l, r, <<"BELL">>>>
        \/ l # <<>> /\ e = <<Front(l), <<Last(l)>> \o r, <<"BS">>>>
    BY <1>5, EditedLeft, Zenon
  <2> QED BY <1>2, <2>1, <2>2, Zenon
<1>6. CASE k = "Right"
  <2>1. r # <<>> => Len(Append(l, Head(r))) + Len(Tail(r)) <= MaxLine
    <3> SUFFICES ASSUME r # <<>>
                 PROVE  Len(Append(l, Head(r))) + Len(Tail(r)) <= MaxLine
      OBVIOUS
    <3>1. Len(Append(l, Head(r))) = Len(l) + 1
      BY <1>1, AppendProperties
    <3> QED BY <1>1, <3>1
  <2>2. \/ e = <<l, r, <<"BELL">>>>
        \/ r # <<>> /\ e = <<Append(l, Head(r)), Tail(r), <<Head(r)>>>>
    BY <1>6, EditedRight, Zenon
  <2> QED BY <1>2, <2>1, <2>2, Zenon
<1>7. CASE k = "Up"
  <2>1. PICK ln \in Recalled : e = <<ln, <<>>, <<"CR", "prompt">> \o ln>>
    BY <1>7, EditedUp, Zenon
  <2>2. Len(ln) <= MaxLine /\ Len(ln) \in Nat
    BY LineAssumption
  <2>3. Len(ln) + Len(<<>>) <= MaxLine
    BY <2>2
  <2> QED BY <1>2, <2>1, <2>3, Zenon
<1>8. CASE k = "Enter"
  <2>1. Len(<<>>) + Len(<<>>) <= MaxLine
    BY <1>1
  <2> QED BY <1>2, <1>8, <2>1, EditedEnter, Zenon
<1>9. CASE k = "ControlA"
  <2>1. Len(<<>>) + Len(l \o r) <= MaxLine
    <3>1. Len(l \o r) = Len(l) + Len(r)
      BY ConcatProperties
    <3> QED BY <1>1, <3>1
  <2> QED BY <1>2, <1>9, <2>1, EditedControlA, Zenon
<1> QED BY <1>3, <1>4, <1>5, <1>6, <1>7, <1>8, <1>9, KeysAre DEF OtherKeys

\* The states a byte leads to: it moves the cursor at most once each way.
Under(st, next) == next \in States /\ next.back <= st.back /\ next.forward <= st.forward

LEMMA ReceivedType ==
  ASSUME NEW st \in States, NEW b \in Bytes
  PROVE  Under(st, Received(b, st))
<1>1. /\ st.line \in Seq(Bytes) /\ st.cursor \in Seq(Bytes) /\ st.listed \in Seq(Bytes)
      /\ st.back \in Nat /\ st.forward \in Nat /\ st.cr \in BOOLEAN
  BY DEF States
<1>2. ASSUME NEW s \in Seq(Bytes)
      PROVE  /\ MinusLast(s) \in Seq(Bytes) /\ MinusHead(s) \in Seq(Bytes)
             /\ LastOf(s) \in Seq(Bytes)
  <2>1. CASE s = <<>>
    BY <2>1 DEF MinusLast, MinusHead, LastOf
  <2>2. CASE s # <<>>
    <3>1. PICK t \in Seq(Bytes), c \in Bytes : s = Append(t, c)
      BY <2>2, SequenceEmptyOrAppend
    <3>2. Front(s) = t /\ Last(s) = c
      BY <3>1, FrontOfAppend
    <3>3. Tail(s) \in Seq(Bytes)
      BY <2>2, HeadTailProperties
    <3>4. MinusLast(s) = t /\ MinusHead(s) = Tail(s) /\ LastOf(s) = <<c>>
      BY <2>2, <3>2 DEF MinusLast, MinusHead, LastOf
    <3> QED BY <3>3, <3>4
  <2> QED BY <2>1, <2>2
<1> DEFINE moved == Back(b, st)
           on    == Forward(b, moved)
<1>3. Under(st, moved)
  <2>1. CASE st.back = 0
    BY <1>1, <2>1 DEF Back, Under
  <2>2. CASE st.back # 0
    <3> DEFINE c == IF b = "BELL" THEN st.cursor ELSE LastOf(st.line) \o st.cursor
    <3>1. c \in Seq(Bytes)
      <4>1. LastOf(st.line) \o st.cursor \in Seq(Bytes)
        BY <1>1, <1>2, ConcatProperties
      <4> QED BY <1>1, <4>1, Zenon
    <3>2. moved = [st EXCEPT !.back = st.back - 1, !.cursor = c]
      BY <2>2, Zenon DEF Back
    <3> HIDE DEF c, moved
    <3>3. st.back - 1 \in Nat /\ st.back - 1 <= st.back
      BY <1>1, <2>2
    <3>4. moved \in States
      BY <1>1, <3>1, <3>2, <3>3 DEF States
    <3>5. moved.back = st.back - 1 /\ moved.forward = st.forward
      BY <3>2 DEF States
    <3> QED BY <1>1, <3>3, <3>4, <3>5 DEF Under
  <2> QED BY <2>1, <2>2
<1> HIDE DEF moved
<1>4. /\ moved \in States /\ moved.cursor \in Seq(Bytes) /\ moved.forward \in Nat
      /\ moved.back \in Nat
  BY <1>3 DEF Under, States
<1>5. Under(moved, on)
  <2>1. CASE moved.forward = 0
    BY <1>4, <2>1 DEF Forward, Under
  <2>2. CASE moved.forward # 0
    <3> DEFINE c == IF b = "BELL" THEN moved.cursor ELSE MinusHead(moved.cursor)
    <3>1. c \in Seq(Bytes)
      BY <1>2, <1>4
    <3>2. on = [moved EXCEPT !.forward = moved.forward - 1, !.cursor = c]
      BY <2>2, Zenon DEF Forward
    <3> HIDE DEF c, on
    <3>3. moved.forward - 1 \in Nat /\ moved.forward - 1 <= moved.forward
      BY <1>4, <2>2
    <3>4. on \in States
      BY <1>4, <3>1, <3>2, <3>3 DEF States
    <3>5. on.forward = moved.forward - 1 /\ on.back = moved.back
      BY <1>4, <3>2 DEF States
    <3> QED BY <1>4, <3>3, <3>4, <3>5 DEF Under
  <2> QED BY <2>1, <2>2
<1> HIDE DEF on
<1>6. /\ on \in States /\ on.line \in Seq(Bytes) /\ on.cursor \in Seq(Bytes) /\ on.back \in Nat
      /\ on.forward \in Nat /\ on.cr \in BOOLEAN
  BY <1>5 DEF Under, States
<1> DEFINE next == Show(b, on)
<1>7. Under(on, next)
  <2>1. CASE b = "BS"
    <3>1. next = [on EXCEPT !.line = MinusLast(on.line)]
      BY <2>1, Zenon DEF Show
    <3>2. MinusLast(on.line) \in Seq(Bytes)
      BY <1>2, <1>6
    <3> HIDE DEF next
    <3> QED BY <1>6, <3>1, <3>2 DEF Under, States
  <2>2. CASE b = "CR"
    <3>1. next = [on EXCEPT !.cr = TRUE]
      BY <2>2 DEF Show
    <3> HIDE DEF next
    <3>2. next \in States
      BY <1>6, <3>1 DEF States
    <3>3. next.back = on.back /\ next.forward = on.forward
      BY <1>6, <3>1 DEF States
    <3> QED BY <1>6, <3>2, <3>3 DEF Under
  <2>3. CASE b = "NL"
    <3> DEFINE ls == on.line \o on.cursor
    <3>1. ls \in Seq(Bytes)
      BY <1>6, ConcatProperties
    <3>2. next = [line |-> <<>>, cursor |-> <<>>, back |-> 0, forward |-> 0, cr |-> FALSE,
                  listed |-> ls]
      BY <2>3 DEF Show
    <3> HIDE DEF next, ls
    <3> QED BY <1>6, <3>1, <3>2 DEF Under, States
  <2>4. CASE b = "BELL"
    <3>1. next = on
      BY <2>4 DEF Show
    <3> QED BY <1>6, <3>1 DEF Under
  <2>5. CASE b \notin {"BS", "CR", "NL", "BELL"}
    <3> DEFINE ln == Append(IF on.cr THEN <<>> ELSE on.line, b)
    <3>1. ln \in Seq(Bytes)
      BY <1>6
    <3>2. next = [on EXCEPT !.line = ln, !.cr = FALSE]
      BY <2>5, Zenon DEF Show
    <3> HIDE DEF next, ln
    <3>3. next \in States
      BY <1>6, <3>1, <3>2 DEF States
    <3>4. next.back = on.back /\ next.forward = on.forward
      BY <1>6, <3>2 DEF States
    <3> QED BY <1>6, <3>3, <3>4 DEF Under
  <2> QED BY <2>1, <2>2, <2>3, <2>4, <2>5
<1>8. Received(b, st) = next
  BY DEF Received, moved, on
<1> HIDE DEF next
<1>9. next \in States /\ next.back \in Nat /\ next.forward \in Nat
  BY <1>7 DEF Under, States
<1> QED BY <1>1, <1>3, <1>4, <1>5, <1>6, <1>7, <1>8, <1>9 DEF Under

\* The states between the first n bytes of a message.
Running(R, bytes, st, n) ==
  /\ R = [i \in 0..n |-> R[i]]
  /\ R[0] = st /\ \A i \in 1..n : R[i] = Received(bytes[i], R[i - 1])
  /\ \A i \in 0..n : Under(st, R[i])

LEMMA RunsOn ==
  ASSUME NEW bytes \in Seq(Bytes), NEW st \in States, NEW n \in Nat, n <= Len(bytes)
  PROVE  \E R : Running(R, bytes, st, n)
<1>0. Len(bytes) \in Nat
  OBVIOUS
<1> DEFINE T == {i \in Nat : i <= Len(bytes) /\ ~\E R : Running(R, bytes, st, i)}
<1> SUFFICES ASSUME T # {}
             PROVE  FALSE
  OBVIOUS
<1>1. PICK m \in T : \A y \in T : ~(y < m)
  BY LeastNat
<1>2. m \in Nat /\ m <= Len(bytes) /\ ~\E R : Running(R, bytes, st, m)
  BY <1>1
<1>3. Under(st, st)
  BY DEF Under, States
<1>4. CASE m = 0
  <2> DEFINE R == [i \in 0..0 |-> st]
  <2>1. Running(R, bytes, st, 0)
    BY <1>3 DEF Running
  <2> QED BY <1>2, <1>4, <2>1
<1>5. CASE m # 0
  <2>1. m - 1 \in Nat /\ m - 1 < m /\ m - 1 <= Len(bytes) /\ m \in 1..Len(bytes)
    BY <1>0, <1>2, <1>5
  <2>2. PICK Q : Running(Q, bytes, st, m - 1)
    BY <1>1, <2>1
  <2> DEFINE next == Received(bytes[m], Q[m - 1])
             R == [i \in 0..m |-> IF i = m THEN next ELSE Q[i]]
  <2>3. Under(st, next)
    <3>1. bytes[m] \in Bytes /\ m - 1 \in 0..(m - 1)
      BY <2>1, ElementOfSeq
    <3>2. Under(st, Q[m - 1])
      BY <2>2, <3>1 DEF Running
    <3>3. Under(Q[m - 1], next)
      BY <3>1, <3>2, ReceivedType DEF Under
    <3> HIDE DEF next
    <3>4. /\ next.back \in Nat /\ next.forward \in Nat /\ Q[m - 1].back \in Nat
          /\ Q[m - 1].forward \in Nat /\ st.back \in Nat /\ st.forward \in Nat
      BY <3>2, <3>3 DEF Under, States
    <3> QED BY <3>2, <3>3, <3>4 DEF Under
  <2> HIDE DEF next
  <2>4. R[m] = next /\ \A i \in 0..(m - 1) : R[i] = Q[i]
    BY <2>1
  <2>5. R = [i \in 0..m |-> R[i]]
    OBVIOUS
  <2> HIDE DEF R
  <2>6. R[0] = st
    BY <2>1, <2>2, <2>4 DEF Running
  <2>7. ASSUME NEW i \in 1..m
        PROVE  R[i] = Received(bytes[i], R[i - 1])
    <3>1. i - 1 \in 0..(m - 1)
      BY <2>1
    <3>2. CASE i = m
      BY <2>4, <3>1, <3>2 DEF next
    <3>3. CASE i # m
      <4>1. i \in 1..(m - 1) /\ i \in 0..(m - 1)
        BY <2>1, <3>3
      <4>2. Q[i] = Received(bytes[i], Q[i - 1])
        BY <2>2, <4>1 DEF Running
      <4> QED BY <2>4, <3>1, <4>1, <4>2
    <3> QED BY <3>2, <3>3
  <2>8. ASSUME NEW i \in 0..m
        PROVE  Under(st, R[i])
    <3>1. CASE i = m
      BY <2>3, <2>4, <3>1
    <3>2. CASE i # m
      <4>1. i \in 0..(m - 1)
        BY <2>1, <3>2
      <4> QED BY <2>2, <2>4, <4>1 DEF Running
    <3> QED BY <3>1, <3>2
  <2>9. Running(R, bytes, st, m)
    BY <2>5, <2>6, <2>7, <2>8 DEF Running
  <2> QED BY <1>2, <2>9
<1> QED BY <1>4, <1>5

LEMMA MessageType ==
  ASSUME NEW bytes \in Seq(Bytes), NEW st \in States
  PROVE  Under(st, Message(bytes, st))
<1>1. Len(bytes) \in Nat /\ Len(bytes) <= Len(bytes)
  OBVIOUS
<1>2. PICK R : Running(R, bytes, st, Len(bytes))
  BY <1>1, RunsOn
<1>3. IsRun(bytes, R) /\ R[0] = st
  BY <1>2 DEF Running, IsRun
<1>4. Message(bytes, R[0]) = R[Len(bytes)]
  BY <1>1, <1>3, MessageIs
<1>5. Len(bytes) \in 0..Len(bytes)
  BY <1>1
<1> QED BY <1>2, <1>3, <1>4, <1>5 DEF Running


LEMMA LineTypeStep ==
  ASSUME LineInv, LineTypeOK, listed \in Seq(Bytes), [LineNext]_lineVars, LineInv'
  PROVE  LineTypeOK' /\ (listed \in Seq(Bytes))'
<1>1. /\ left \in Seq(Chars) /\ right \in Seq(Chars) /\ Len(left) + Len(right) <= MaxLine
      /\ Len(typed) + Len(echoed) <= MaxAhead
      /\ lineBuffer \in Seq(Bytes) /\ cursorBuffer \in Seq(Bytes)
      /\ backCount \in 0..MaxAhead /\ forwardCount \in 0..MaxAhead /\ gotCR \in BOOLEAN
      /\ guessed \subseteq Guesses /\ MaxAhead \in Nat
  BY LineAssumption DEF LineTypeOK
<1>2. /\ typed \in Seq(Keys) /\ echoed \in Seq(Echoes)
      /\ left' \in Seq(Chars) /\ right' \in Seq(Chars)
      /\ typed' \in Seq(Keys) /\ echoed' \in Seq(Echoes)
  BY DEF LineInv, LineTyped
<1>3. Len(typed) \in Nat /\ Len(echoed) \in Nat
  BY <1>2
<1>4. \A i \in DOMAIN echoed' : echoed'[i].key \in Keys /\ echoed'[i].bytes \in Seq(Bytes)
  <2>1. DOMAIN echoed' = 1..Len(echoed')
    BY <1>2
  <2>2. \A i \in DOMAIN echoed' : echoed'[i] \in Echoes
    BY <1>2, <2>1, ElementOfSeq
  <2> QED BY <2>2 DEF Echoes
<1>5. ASSUME NEW k \in Keys, handleKeyDown(k)
      PROVE  LineTypeOK' /\ (listed \in Seq(Bytes))'
  <2>1. /\ Len(typed) + Len(echoed) < MaxAhead /\ guessed = {} /\ typed' = Append(typed, k)
        /\ sendKeyCode(k) \/ ArrowUp(k) \/ ArrowLeft(k) \/ ArrowRight(k)
        /\ left' = left /\ right' = right /\ echoed' = echoed /\ lineBuffer' = lineBuffer
        /\ gotCR' = gotCR /\ listed' = listed
    BY <1>5 DEF handleKeyDown, remote
  <2>2. Len(typed') + Len(echoed') <= MaxAhead
    <3>1. Len(typed') = Len(typed) + 1
      BY <1>2, <2>1, AppendProperties
    <3> QED BY <1>1, <1>3, <2>1, <3>1
  <2>3. backCount + 1 \in 0..MaxAhead /\ forwardCount + 1 \in 0..MaxAhead
    <3>1. PICK p \in 0..Awaited, dir \in Arrows : KeysInOrder(p, dir)
      BY <2>1 DEF LineInv, Ordered
    <3>2. Awaited < MaxAhead /\ Awaited \in Nat
      BY <1>1, <1>3, <2>1 DEF Awaited
    <3>3. backCount <= p /\ forwardCount <= p
      BY <3>1, <3>2 DEF KeysInOrder
    <3> QED BY <1>1, <3>2, <3>3
  <2>4. /\ backCount' \in 0..MaxAhead /\ forwardCount' \in 0..MaxAhead
        /\ cursorBuffer' \in Seq(Bytes)
    <3>1. CASE sendKeyCode(k)
      BY <1>1, <3>1 DEF sendKeyCode
    <3>2. CASE ArrowUp(k)
      BY <1>1, <3>2 DEF ArrowUp, resetCursorBuffer
    <3>3. CASE ArrowLeft(k)
      BY <1>1, <2>3, <3>3 DEF ArrowLeft
    <3>4. CASE ArrowRight(k)
      BY <1>1, <2>3, <3>4 DEF ArrowRight
    <3> QED BY <2>1, <3>1, <3>2, <3>3, <3>4
  <2>5. guessed' \subseteq Guesses
    BY <1>1, <2>1 DEF sendKeyCode, ArrowUp, ArrowLeft, ArrowRight, GuessedArrow, Guesses
  <2> QED BY <1>1, <1>2, <1>4, <2>1, <2>2, <2>4, <2>5 DEF LineTypeOK
<1>6. CASE Echo
  <2>1. PICK e \in Edited(Head(typed), left, right) :
          /\ left' = e[1] /\ right' = e[2]
          /\ echoed' = Append(echoed, [key |-> Head(typed), bytes |-> e[3]])
    BY <1>6 DEF Echo
  <2>2. /\ typed # <<>> /\ typed' = Tail(typed) /\ guessed' = guessed /\ listed' = listed
        /\ lineBuffer' = lineBuffer /\ cursorBuffer' = cursorBuffer /\ backCount' = backCount
        /\ forwardCount' = forwardCount /\ gotCR' = gotCR
    BY <1>6 DEF Echo, browser
  <2>3. Head(typed) \in Keys /\ Len(typed') = Len(typed) - 1
    BY <1>2, <2>2, HeadTailProperties
  <2>4. Len(left') + Len(right') <= MaxLine
    BY <1>1, <2>1, <2>3, EditedFits
  <2>5. Len(echoed') = Len(echoed) + 1
    <3> DEFINE m == [key |-> Head(typed), bytes |-> e[3]]
    <3>1. echoed' = Append(echoed, m)
      BY <2>1
    <3> HIDE DEF m
    <3>2. Len(Append(echoed, m)) = Len(echoed) + 1
      BY <1>2
    <3> QED BY <3>1, <3>2
  <2>6. Len(typed') + Len(echoed') <= MaxAhead
    BY <1>1, <1>3, <2>3, <2>5
  <2> QED BY <1>1, <1>2, <1>4, <2>2, <2>4, <2>6 DEF LineTypeOK
<1>7. CASE ReceiveMessage
  <2> DEFINE found == [line |-> lineBuffer, cursor |-> cursorBuffer, back |-> backCount,
                       forward |-> forwardCount, cr |-> gotCR, listed |-> listed]
             st == Message(Head(echoed).bytes, found)
  <2>1. /\ echoed # <<>> /\ echoed' = Tail(echoed)
        /\ lineBuffer' = st.line /\ cursorBuffer' = st.cursor
        /\ backCount' = st.back /\ forwardCount' = st.forward
        /\ gotCR' = st.cr /\ listed' = st.listed
        /\ left' = left /\ right' = right /\ typed' = typed /\ guessed' = guessed
    BY <1>7 DEF ReceiveMessage, remote
  <2>2. found \in States /\ found.back = backCount /\ found.forward = forwardCount
    BY <1>1 DEF States
  <2>3. Head(echoed) \in Echoes /\ Len(echoed') = Len(echoed) - 1
    BY <1>2, <2>1, HeadTailProperties
  <2>4. Under(found, st)
    BY <2>2, <2>3, MessageType DEF Echoes
  <2> HIDE DEF found, st
  <2>5. /\ st.line \in Seq(Bytes) /\ st.cursor \in Seq(Bytes) /\ st.listed \in Seq(Bytes)
        /\ st.cr \in BOOLEAN /\ st.back \in Nat /\ st.forward \in Nat
        /\ st.back <= backCount /\ st.forward <= forwardCount
    BY <2>2, <2>4 DEF Under, States
  <2>6. backCount' \in 0..MaxAhead /\ forwardCount' \in 0..MaxAhead
    <3>1. backCount' = st.back /\ forwardCount' = st.forward
      BY <2>1
    <3>2. MaxAhead \in Nat /\ backCount \in 0..MaxAhead /\ forwardCount \in 0..MaxAhead
      BY <1>1
    <3> QED BY <2>5, <3>1, <3>2
  <2>7. Len(typed') + Len(echoed') <= MaxAhead
    BY <1>1, <1>3, <2>1, <2>3
  <2> QED BY <1>1, <1>2, <1>4, <2>1, <2>5, <2>6, <2>7 DEF LineTypeOK
<1>8. CASE UNCHANGED lineVars
  BY <1>8 DEF lineVars, LineTypeOK
<1> QED BY <1>5, <1>6, <1>7, <1>8 DEF LineNext

LEMMA LineTypeInit == LineInit => LineTypeOK /\ listed \in Seq(Bytes)
<1> SUFFICES ASSUME LineInit PROVE LineTypeOK /\ listed \in Seq(Bytes)
  OBVIOUS
<1>1. <<"prompt">> \in Seq(Bytes) /\ <<>> \in Seq(Bytes)
  <2>1. "prompt" \in Bytes
    BY DEF Bytes
  <2> QED BY <2>1
<1>2. MaxLine \in Nat /\ MaxAhead \in Nat
  BY LineAssumption
<1>3. Len(left) = 0 /\ Len(right) = 0 /\ Len(typed) = 0 /\ Len(echoed) = 0 /\ DOMAIN echoed = {}
  BY DEF LineInit
<1>4. Len(left) + Len(right) <= MaxLine /\ Len(typed) + Len(echoed) <= MaxAhead
  BY <1>2, <1>3
<1>5. /\ left \in Seq(Chars) /\ right \in Seq(Chars) /\ typed \in Seq(Keys)
      /\ lineBuffer \in Seq(Bytes) /\ cursorBuffer \in Seq(Bytes) /\ listed \in Seq(Bytes)
  BY <1>1 DEF LineInit
<1>6. backCount \in 0..MaxAhead /\ forwardCount \in 0..MaxAhead /\ gotCR \in BOOLEAN
  <2>1. 0 \in 0..MaxAhead
    BY <1>2
  <2>2. backCount = 0 /\ forwardCount = 0 /\ gotCR = FALSE
    BY DEF LineInit
  <2> QED BY <2>1, <2>2
<1>7. guessed \subseteq Guesses
  BY DEF LineInit
<1> QED BY <1>3, <1>4, <1>5, <1>6, <1>7 DEF LineTypeOK

------------------------------------------------------------------------------
(* All views together.                                                       *)

\* Whatever is clicked, dragged and answered, the variables of the canvas have their types.
THEOREM CanvasTypes == CanvasSpec => []CanvasTypeOK
<1>1. CanvasInit => CanvasTypeOK /\ GestureInv
  BY CanvasTypeInit, GestureInit
<1>2. CanvasTypeOK /\ GestureInv /\ [CanvasNext]_canvasVars => CanvasTypeOK' /\ GestureInv'
  <2> SUFFICES ASSUME CanvasTypeOK, GestureInv, [CanvasNext]_canvasVars
               PROVE  CanvasTypeOK' /\ GestureInv'
    OBVIOUS
  <2>1. GestureInv'
    BY GestureNext
  <2> QED BY <2>1, CanvasTypeStep DEF GestureInv
<1> QED BY <1>1, <1>2, PTL DEF CanvasSpec

\* However a configuration is indented, no more blocks are open than it is deep.
THEOREM ConfigurationTypes == TextSpec => []TextTypeOK
<1>1. TextInit => TextTypes /\ TextInv
  <2>1. TextInit => TextInv
    BY DEF TextInit, TextInv, EndOfText, Line, NoLine
  <2> QED BY <2>1, TextTypeInit
<1>2. TextTypes /\ TextInv /\ [TextNext]_textVars => TextTypes' /\ TextInv'
  BY TextTypeStep, TextInvStep
<1>3. TextTypes => TextTypeOK
  BY DEF TextTypes
<1> QED BY <1>1, <1>2, <1>3, PTL DEF TextSpec

\* Whatever is typed ahead of the echoes, and after the browser has to guess, the
\* counts of arrows and the two parts of the line keep their types and bounds.
THEOREM LineTyping == LineSpec => []LineTypeOK
<1> DEFINE Listed == listed \in Seq(Bytes)
<1>1. LineInit => LineTypeOK /\ Listed
  BY LineTypeInit
<1>2. LineTypeOK /\ Listed /\ LineInv /\ LineInv' /\ [LineNext]_lineVars => LineTypeOK' /\ Listed'
  BY LineTypeStep
<1> HIDE DEF Listed
<1> QED BY <1>1, <1>2, LineInvariant, PTL DEF LineSpec

\* In the composition, each view behaves as its own specification says.
THEOREM ViewsAreViews ==
  Spec => /\ CanvasSpec /\ MenuSpec /\ TextSpec /\ LineSpec /\ AnimationSpec /\ LayoutSpec
          /\ ConnectionSpec
<1> DEFINE vars == <<part, canvasVars, menuVars, textVars, lineVars, animVars, layoutVars,
                     connectionVars>>
<1>1. Init => /\ CanvasInit /\ MenuInit /\ TextInit /\ LineInit /\ AnimationInit /\ LayoutInit
              /\ ConnectionInit
  BY DEF Init
<1>2. [Next]_vars => [CanvasNext]_canvasVars
  BY DEF Next, OnlyCanvas, OnlyMenu, OnlyText, OnlyCli, OnlyPanel, OnlyLayout, OnlyConnection
<1>3. [Next]_vars => [MenuNext]_menuVars
  BY DEF Next, OnlyCanvas, OnlyMenu, OnlyText, OnlyCli, OnlyPanel, OnlyLayout, OnlyConnection
<1>4. [Next]_vars => [TextNext]_textVars
  BY DEF Next, OnlyCanvas, OnlyMenu, OnlyText, OnlyCli, OnlyPanel, OnlyLayout, OnlyConnection
<1>5. [Next]_vars => [LineNext]_lineVars
  BY DEF Next, OnlyCanvas, OnlyMenu, OnlyText, OnlyCli, OnlyPanel, OnlyLayout, OnlyConnection
<1>6. [Next]_vars => [AnimationNext]_animVars
  BY DEF Next, OnlyCanvas, OnlyMenu, OnlyText, OnlyCli, OnlyPanel, OnlyLayout, OnlyConnection
<1>7. [Next]_vars => [LayoutNext]_layoutVars
  BY DEF Next, OnlyCanvas, OnlyMenu, OnlyText, OnlyCli, OnlyPanel, OnlyLayout, OnlyConnection
<1>8. [Next]_vars => [ConnectionNext]_connectionVars
  BY DEF Next, OnlyCanvas, OnlyMenu, OnlyText, OnlyCli, OnlyPanel, OnlyLayout, OnlyConnection
<1> QED
  BY <1>1, <1>2, <1>3, <1>4, <1>5, <1>6, <1>7, <1>8, PTL
     DEF Spec, CanvasSpec, MenuSpec, TextSpec, LineSpec, AnimationSpec, LayoutSpec, ConnectionSpec

\* In every reachable state of every view, its variables have their types.
THEOREM ViewsTypes == Spec => []ViewsTypeOK
<1>1. AnimationInv => AnimationTypeOK
  BY DEF AnimationInv
<1>2. RotationInv => ConnectionTypeOK
  BY DEF RotationInv
<1>3. /\ CanvasTypeOK /\ MenuTypeOK /\ TextTypeOK /\ LineTypeOK /\ AnimationTypeOK
      /\ LayoutTypeOK /\ ConnectionTypeOK
      => ViewsTypeOK
  BY DEF ViewsTypeOK
<1> QED BY <1>1, <1>2, <1>3, ViewsAreViews, CanvasTypes, MenuTypes, ConfigurationTypes, LineTyping,
           AnimationInvariant, LayoutTypes, RotationInvariant, PTL

\* What is shown and drawn is right in every view of the composition: the links,
\* the menu, the configuration, the console's line, the panels and the layout.
THEOREM ViewsCorrect ==
  Spec => /\ [](NoParallelLinks /\ LinksAsMeant /\ PreviewTruthful)
          /\ [](OpenPanesExist /\ HighlightsFollowService /\ OverlayShields)
          /\ [](ConfigShown /\ ShownAsOnDevice /\ PanelsSettle)
          /\ [](RedrawnWhereDropped /\ ShortestRotation)
          /\ DragLeavesNoTrace
BY ViewsAreViews, NoParallel, LinksMeant, PreviewTrue, NoTraceOfDrags, MenuPanesExist,
   MenuHighlights, MenuShielded, ConfigurationShown, LineShown, PanelsSettled, IconsStay,
   LinesTurnLeast, PTL
================================================================================
