---------------------------- MODULE ConnectionLine ----------------------------
(***************************************************************************)
(* How a connection is drawn on the canvas of the web UI                   *)
(* (features/topology/Connection): as a line between the rims of two icons,*)
(* rotated by an angle that a CSS transition animates, so that the angle    *)
(* must not jump by more than a half turn when the icons move.             *)
(***************************************************************************)
EXTENDS Integers

CONSTANTS Directions,   \* of the second icon from the first, in degrees
          Distances,    \* between the icons, in pixels
          Radii         \* half the size of an icon

ASSUME LineGeometryAssumption ==
  /\ Directions \subseteq 0..359 /\ Distances \subseteq Nat /\ Radii \subseteq Nat \ {0}

VARIABLES
  direction, distance, iconRadius,
  lineAngleRef,   \* what the effect has kept of the angle that was drawn
  drawnAngle,     \* the angle that is drawn
  turn,           \* history: by how much the last drawing turned the line
  wound           \* history: see Wound

connectionVars == <<direction, distance, iconRadius, lineAngleRef, drawnAngle, turn, wound>>

\* Every variable has its type.
ConnectionTypeOK ==
  /\ direction \in Directions /\ distance \in Distances /\ iconRadius \in Radii
  /\ {lineAngleRef, drawnAngle, turn} \subseteq Int
  /\ wound \in BOOLEAN

\* How far along the line the point is.
pointAlongLine(d, n) == IF d > n THEN n ELSE d

\* The line from p1 to p2: negative when the icons overlap and it runs back.
lineLength(d, r) == d - 2 * pointAlongLine(d, r)

lineAngle(a, d, r) == IF lineLength(d, r) < 0 THEN (a + 180) % 360 ELSE a

\* Mutant: the angle is only corrected clockwise.
Shortest_Clockwise(ref, angle) == IF ref - angle > 180 THEN angle + 360 ELSE angle

Shortest(ref, angle) ==
  CASE ref - angle > 180  -> angle + 360
    [] ref - angle < -180 -> angle - 360
    [] OTHER              -> angle

actualLineAngle(a, d, r) ==
  IF lineLength(d, r) = 0 THEN lineAngleRef ELSE Shortest(lineAngleRef, lineAngle(a, d, r))

\* The line was turned in one sense until one correction is not enough, or it
\* was turned around by a change of the radius, which the effect has missed.
Wound(ref, drawn) == ref \notin -180..540 \/ drawn # ref

Draw(a, d, r) ==
  /\ direction' = a /\ distance' = d /\ iconRadius' = r
  /\ drawnAngle' = actualLineAngle(a, d, r)
  /\ turn' = drawnAngle' - drawnAngle
  /\ lineAngleRef' = IF <<a, d>> # <<direction, distance>> THEN drawnAngle' ELSE lineAngleRef
  /\ wound' = (wound \/ Wound(lineAngleRef', drawnAngle'))

\* An icon was dropped, or the layout changed.
MoveIcons == \E a \in Directions, d \in Distances : Draw(a, d, iconRadius)

\* The size of the icons changed where they are.
ResizeIcons == \E r \in Radii : Draw(direction, distance, r)

\* The connection is mounted: the effect keeps the first angle.
ConnectionInit ==
  /\ direction \in Directions /\ distance \in Distances /\ iconRadius \in Radii
  /\ drawnAngle = (IF lineLength(distance, iconRadius) = 0 THEN 0
                   ELSE Shortest(0, lineAngle(direction, distance, iconRadius)))
  /\ lineAngleRef = drawnAngle
  /\ turn = 0 /\ wound = FALSE

\* Bound: what follows a line that is wound up is not explored.
ConnectionNext == ~wound /\ (MoveIcons \/ ResizeIcons)

ConnectionSpec == ConnectionInit /\ [][ConnectionNext]_connectionVars

------------------------------------------------------------------------------
(* Properties.                                                               *)

\* The line is drawn along the two icons, and it got there by the shortest
\* rotation, after any number of moves that did not wind it up.
ShortestRotation ==
  /\ lineLength(distance, iconRadius) # 0 =>
       (drawnAngle - lineAngle(direction, distance, iconRadius)) % 360 = 0
  /\ ~wound => turn \in -180..180
==============================================================================
