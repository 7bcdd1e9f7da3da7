------------------------------- MODULE MCViews --------------------------------
(***************************************************************************)
(* Instances of the models of single views, which share no state: in each   *)
(* behaviour one of them takes steps.                                      *)
(***************************************************************************)
EXTENDS CanvasGestures, ServiceMenu, ConfigText, TerminalLine, PanelAnimation,
        LayoutGeometry, ConnectionLine, TLC

CONSTANTS d1, d2, d3

\* Three icons, and a link between the first two.
MCIconOrder  == <<d1, d2, d3>>
MCFirstLinks == {<<d1, d2>>}

\* The icons of the device that a service has changed.
MCDeviceLists == {{}, {d1}}

\* Leading space as NSO prints it within the braces of the device.
MCLeading == [d \in 0..MaxDepth |-> 4 * d + (IF d > 1 THEN 3 ELSE 1)]

MCRecalled == {<<>>, <<"a", "b">>}

\* Three columns; an icon that was moved in both views, and one in one.
MCColumns    == <<<<"left", 30>>, <<"middle", 40>>, <<"right", 30>>>>
MCHypervisor == d1 :> "left" @@ d2 :> "middle"
MCSizes      == {<<1000, 800>>, <<600, 750>>}
MCPlaces     == {<<0, 799>>, <<417, 333>>}
MCFirstCoords ==
  d1 :> ("coord" :> <<5000, 2500>> @@ "zoomed/coord" :> <<NoCoord, NoCoord>>)
  @@ d2 :> ("coord" :> <<0, 10000>> @@ "zoomed/coord" :> <<3333, 6667>>)

VARIABLE part   \* the model that takes steps

OnlyCanvas ==
  part = "canvas" /\ UNCHANGED <<part, menuVars, textVars, lineVars, animVars, layoutVars, connectionVars>>

OnlyMenu ==
  part = "menu" /\ UNCHANGED <<part, canvasVars, textVars, lineVars, animVars, layoutVars, connectionVars>>

OnlyText ==
  part = "text" /\ UNCHANGED <<part, canvasVars, menuVars, lineVars, animVars, layoutVars, connectionVars>>

OnlyCli ==
  part = "cli" /\ UNCHANGED <<part, canvasVars, menuVars, textVars, animVars, layoutVars, connectionVars>>

OnlyPanel ==
  part = "panel" /\ UNCHANGED <<part, canvasVars, menuVars, textVars, lineVars, layoutVars, connectionVars>>

OnlyLayout ==
  part = "layout" /\ UNCHANGED <<part, canvasVars, menuVars, textVars, lineVars, animVars, connectionVars>>

OnlyConnection ==
  part = "line" /\ UNCHANGED <<part, canvasVars, menuVars, textVars, lineVars, animVars, layoutVars>>

Init ==
  /\ part \in {"canvas", "menu", "text", "cli", "panel", "layout", "line"}
  /\ CanvasInit /\ MenuInit /\ TextInit /\ LineInit /\ AnimationInit /\ LayoutInit
  /\ ConnectionInit
  /\ part # "layout" => /\ iconSize = 0 /\ zoomedContainer = NoContainer
                        /\ visibleUnderlays = {}
  /\ part # "line" => direction = 0 /\ distance = 200 /\ iconRadius = 20

Next ==
  \/ OnlyCanvas /\ CanvasNext
  \/ OnlyMenu /\ MenuNext
  \/ OnlyText /\ TextNext
  \/ OnlyCli /\ LineNext
  \/ OnlyPanel /\ AnimationNext
  \/ OnlyLayout /\ LayoutNext
  \/ OnlyConnection /\ ConnectionNext

Spec ==
  Init /\ [][Next]_<<part, canvasVars, menuVars, textVars, lineVars, animVars, layoutVars,
                    connectionVars>>

\* Every variable of every view has its type.
ViewsTypeOK ==
  /\ CanvasTypeOK /\ MenuTypeOK /\ TextTypeOK /\ LineTypeOK /\ AnimationTypeOK
  /\ LayoutTypeOK /\ ConnectionTypeOK
===============================================================================
