----------------------------- MODULE MCTerminals -----------------------------
(***************************************************************************)
(* The consoles of two devices, and the monitors of one name: pingers whose *)
(* calls overlap, pingers and console loggers whose calls do not.  They    *)
(* share no state: in each behaviour one of the two models takes steps.    *)
(***************************************************************************)
EXTENDS Terminals, Monitors

CONSTANTS d1, d2, m1, m2

\* Anything but a process that is killed.
Anything == {"construct", "write", "process"}

MCModes == {[kind |-> "pinger",  overlap |-> TRUE,  faults |-> {"construct"}],
            [kind |-> "pinger",  overlap |-> FALSE, faults |-> Anything],
            [kind |-> "console", overlap |-> FALSE, faults |-> Anything],
            [kind |-> "console", overlap |-> FALSE, faults |-> {"kill"}]}

\* A console may say a line while another waits to be written.
MCBacklog == [k \in Kinds |-> IF k = "pinger" THEN 1 ELSE 2]

VARIABLE part   \* the model that takes steps

allVars == <<part, vars, monitorVars>>

OnlyTerminals == part = "terminals" /\ UNCHANGED <<part, monitorVars>>
OnlyMonitors  == part = "monitors" /\ UNCHANGED <<part, vars>>

ConsolesInit ==
  /\ part \in {"terminals", "monitors"}
  /\ Init /\ MonitorsInit
  /\ part = "terminals" => mode = CHOOSE k \in Modes : k.overlap

ConsolesNext == (OnlyTerminals /\ Next) \/ (OnlyMonitors /\ MonitorsNext)

\* Fairness and MonitorsFairness, of the model that takes steps.
ConsolesFairness ==
  /\ \A d \in Devices :
       /\ WF_vars(part = "terminals" /\ ServeAction(d))
       /\ WF_vars(part = "terminals" /\ SocketClosed(d))
  /\ \A c \in Connections : WF_vars(part = "terminals" /\ c \in Used /\ ProxyRuns(c))
  /\ \A c \in Caller : WF_monitorVars(part = "monitors" /\ CallStep(c))
  /\ \A m \in Manager :
       /\ WF_monitorVars(part = "monitors" /\ ThreadStep(m))
       /\ WF_monitorVars(part = "monitors" /\ ProcessStep(m))

ConsolesSpec == ConsolesInit /\ [][ConsolesNext]_allVars /\ ConsolesFairness
==============================================================================
