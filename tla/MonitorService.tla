--------------------------- MODULE MonitorService ----------------------------
(***************************************************************************)
(* What a monitor promises to those who start and stop it: there is one    *)
(* process at most, it appears only because of a start, and when a stop    *)
(* has returned there is none.                                             *)
(***************************************************************************)
EXTENDS Naturals

VARIABLES phase,   \* of the monitor: "off", "coming", "on", or "over"
          call,    \* in progress: "start", "stop" or "none"
          live     \* processes that run

serviceVars == <<phase, call, live>>

Call(op) ==
  /\ call = "none" /\ phase # "coming"
  /\ call' = op
  /\ UNCHANGED <<phase, live>>

Create ==
  /\ call = "start" /\ phase = "off"
  /\ phase' = "coming"
  /\ UNCHANGED <<call, live>>

Appear ==
  /\ phase = "coming" /\ live = 0
  /\ phase' = "on" /\ live' = 1
  /\ UNCHANGED call

\* The process ends because it was asked to, or by itself.
End ==
  /\ phase = "on"
  /\ phase' = "over" /\ live' = 0
  /\ UNCHANGED call

\* A monitor that has ended is forgotten; then a stop returns, and a start goes
\* on.
Forget ==
  /\ phase = "over" /\ call # "none"
  /\ phase' = "off"
  /\ call' = IF call = "stop" THEN "none" ELSE call
  /\ UNCHANGED live

Return ==
  /\ call # "none"
  /\ call = "stop" => phase = "off"
  /\ call' = "none"
  /\ UNCHANGED <<phase, live>>

ServiceInit == phase = "off" /\ call = "none" /\ live = 0

ServiceNext ==
  (\E op \in {"start", "stop"} : Call(op)) \/ Create \/ Appear \/ End \/ Forget \/ Return

ServiceSpec == ServiceInit /\ [][ServiceNext]_serviceVars
==============================================================================
