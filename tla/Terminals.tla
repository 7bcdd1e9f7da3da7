------------------------------ MODULE Terminals ------------------------------
(***************************************************************************)
(* The consoles of devices in the web UI: which are open and which is in   *)
(* front (features/topology/topologySlice.js, features/terminal), the      *)
(* web socket of each to the telnet proxy (telnet-proxy.mjs), and the      *)
(* actions that stop the console logger of the device while a console is   *)
(* open and start it again.                                                *)
(*                                                                         *)
(* Opening and closing a console toggles and untoggles its component in the  *)
(* same step.  The actions of a device are served in the order they were     *)
(* sent (an assumption on NSO, which serves requests concurrently).          *)
(***************************************************************************)
EXTENDS Naturals, Sequences, FiniteSets, SequencesExt

CONSTANTS Devices,
          MaxConnections, \* bound: web sockets opened
          MaxToggles      \* bound: how often consoles are toggled

Connections == 1..MaxConnections
NoSocket    == 0
Lost        == MaxConnections + 1

ASSUME TerminalsAssumption ==
  MaxConnections \in Nat /\ MaxToggles \in Nat

VARIABLES
  openTerminals, consoleViewerHidden,   \* topologySlice
  toggles,     \* how often consoles were toggled
  stopped,     \* DeviceTerminal: the answer to console/stop, if mounted
  ip,          \* the address of the hypervisor is loaded
  socket,      \* Terminal: the web socket of a device, NoSocket or Lost
  proxy,       \* telnet-proxy: the connections
  serving,     \* ... accepts connections
  requests,    \* actions on the console of a device, not served
  logger       \* the console logger of a device runs

vars == <<openTerminals, consoleViewerHidden, toggles, stopped, ip, socket, proxy, serving,
          requests, logger>>

IsOpen(d) == Contains(openTerminals, d)

Used == DOMAIN proxy

\* What the proxy keeps of a connection.
Handlers == [device: Devices, client: {"open", "closing", "closed"},
             pc: {"connect", "shell", "pipe", "done"},
             telnet: {"connecting", "connected", "ended"}]

\* Every variable has its type, and no console is open twice.
TypeOK ==
  /\ openTerminals \in Seq(Devices) /\ IsInjective(openTerminals)
  /\ consoleViewerHidden \in BOOLEAN
  /\ toggles \in 0..MaxToggles
  /\ stopped \in [Devices -> {"none", "asked", "answered"}]
  /\ ip \in BOOLEAN /\ serving \in BOOLEAN
  /\ socket \in [Devices -> {NoSocket, Lost} \cup Connections]
  /\ Used \subseteq Connections
  /\ proxy \in [Used -> Handlers]
  /\ requests \in [Devices -> Seq({"stop", "start"})]
  /\ logger \in [Devices -> BOOLEAN]

------------------------------------------------------------------------------
(* Opening, switching and closing consoles.                                  *)

Position(d) == CHOOSE i \in DOMAIN openTerminals : openTerminals[i] = d

\* The reducer terminalToggled; no console is open twice.
Toggled(d) ==
  IF openTerminals # <<>> /\ Head(openTerminals) = d
  THEN IF consoleViewerHidden THEN openTerminals ELSE Tail(openTerminals)
  ELSE <<d>> \o (IF IsOpen(d) THEN RemoveAt(openTerminals, Position(d)) ELSE openTerminals)

Send(d, op) == [requests EXCEPT ![d] = Append(@, op)]

\* Mutant: the unmounted component does not start the logger.
Unmounted_Silent(d) == requests

\* The cleanup of DeviceTerminal's effect.
Unmounted(d) == Send(d, "start")

Closing(d) ==
  IF socket[d] \in Connections
  THEN [proxy EXCEPT ![socket[d]].client = IF @ = "open" THEN "closing" ELSE @]
  ELSE proxy

terminalToggled(d) ==
  /\ toggles < MaxToggles
  /\ toggles' = toggles + 1
  /\ openTerminals' = Toggled(d)
  /\ consoleViewerHidden' = FALSE
  /\ \/ /\ ~IsOpen(d)
        /\ requests' = Send(d, "stop")
        /\ stopped' = [stopped EXCEPT ![d] = "asked"]
        /\ UNCHANGED <<socket, proxy>>
     \/ /\ IsOpen(d) /\ ~Contains(openTerminals', d)
        /\ requests' = Unmounted(d)
        /\ stopped' = [stopped EXCEPT ![d] = "none"]
        /\ proxy' = Closing(d)
        /\ socket' = [socket EXCEPT ![d] = NoSocket]
     \/ /\ IsOpen(d) /\ Contains(openTerminals', d)
        /\ UNCHANGED <<requests, stopped, socket, proxy>>
  /\ UNCHANGED <<ip, serving, logger>>

hideConsoleViewer ==
  /\ openTerminals # <<>> /\ ~consoleViewerHidden
  /\ consoleViewerHidden' = TRUE
  /\ UNCHANGED <<openTerminals, toggles, stopped, ip, socket, proxy, serving, requests, logger>>

ReceiveIp ==
  /\ ~ip /\ openTerminals # <<>>
  /\ ip' = TRUE
  /\ UNCHANGED <<openTerminals, consoleViewerHidden, toggles, stopped, socket, proxy, serving,
                 requests, logger>>

\* The actions console/stop and console/start do nothing that is done.  The
\* answer to the stop of a console that was closed is not waited for.
ServeAction(d) ==
  /\ requests[d] # <<>>
  /\ LET op == Head(requests[d])
     IN /\ requests' = [requests EXCEPT ![d] = Tail(@)]
        /\ logger' = [logger EXCEPT ![d] = (op = "start")]
        /\ stopped' = IF op = "stop" /\ stopped[d] = "asked" /\ ~Contains(Tail(requests[d]), "stop")
                      THEN [stopped EXCEPT ![d] = "answered"] ELSE stopped
  /\ UNCHANGED <<openTerminals, consoleViewerHidden, toggles, ip, socket, proxy, serving>>

------------------------------------------------------------------------------
(* The web socket and the telnet proxy.                                      *)

\* Mutant: the web socket does not wait for the logger to stop.
CanMount_Early(d) == IsOpen(d) /\ ip

\* DeviceTerminal renders Terminal.
CanMount(d) == IsOpen(d) /\ ip /\ stopped[d] = "answered"

\* Terminal opens a web socket when it is mounted; the proxy then connects.
Connect(d) ==
  LET c == Cardinality(Used) + 1
  IN /\ CanMount(d) /\ socket[d] = NoSocket /\ c \in Connections
     /\ IF serving
        THEN /\ proxy' = [i \in Used \cup {c} |->
                            IF i = c THEN [device |-> d, client |-> "open", pc |-> "connect",
                                           telnet |-> "connecting"]
                            ELSE proxy[i]]
             /\ socket' = [socket EXCEPT ![d] = c]
             /\ UNCHANGED requests
        ELSE /\ socket' = [socket EXCEPT ![d] = Lost]
             /\ requests' = Send(d, "start")
             /\ UNCHANGED proxy
     /\ UNCHANGED <<openTerminals, consoleViewerHidden, toggles, stopped, ip, serving, logger>>

\* readyState becomes CLOSED: the logger is started, the component stays.
SocketClosed(d) ==
  /\ socket[d] \in Connections /\ proxy[socket[d]].client = "closed"
  /\ socket' = [socket EXCEPT ![d] = Lost]
  /\ requests' = Send(d, "start")
  /\ UNCHANGED <<openTerminals, consoleViewerHidden, toggles, stopped, ip, proxy, serving, logger>>

ProxyStep(c, p) ==
  /\ proxy' = [proxy EXCEPT ![c] = p]
  /\ UNCHANGED <<openTerminals, consoleViewerHidden, toggles, stopped, ip, socket, serving,
                 requests, logger>>

\* Mutant: the telnet session is not ended.
Finally_Left(p) == [p EXCEPT !.pc = "done"]

\* The finally block of the connection handler.
Finally(p) == [p EXCEPT !.pc = "done", !.telnet = "ended"]

\* telnet.connect ends, or fails: also because telnet.end was called, or by
\* its timeout.
TelnetConnect(c) ==
  /\ proxy[c].pc = "connect"
  /\ \/ /\ proxy[c].telnet = "connecting"
        /\ ProxyStep(c, [proxy[c] EXCEPT !.pc = "shell", !.telnet = "connected"])
     \/ ProxyStep(c, Finally(proxy[c]))

\* telnet.shell gives the stream, and the two pipelines start; they fail if
\* the web socket is closed or telnet has ended.
TelnetShell(c) ==
  /\ proxy[c].pc = "shell"
  /\ IF proxy[c].client = "closed" \/ proxy[c].telnet = "ended"
     THEN ProxyStep(c, Finally(proxy[c]))
     ELSE ProxyStep(c, [proxy[c] EXCEPT !.pc = "pipe"])

\* One of the streams has ended, so that both pipelines end.
PipelinesEnd(c) ==
  /\ proxy[c].pc = "pipe"
  /\ proxy[c].client = "closed" \/ proxy[c].telnet = "ended"
  /\ ProxyStep(c, [Finally(proxy[c]) EXCEPT !.client = "closed"])

\* The device ends the telnet session, or the network the web socket.
RemoteEnds(c) ==
  \/ proxy[c].telnet = "connected" /\ proxy[c].pc = "pipe"
     /\ ProxyStep(c, [proxy[c] EXCEPT !.telnet = "ended"])
  \/ proxy[c].client = "open" /\ ProxyStep(c, [proxy[c] EXCEPT !.client = "closing"])

\* connection.on('close'): telnet.end() ends a session; one that is still being
\* set up may go on.
ConnectionClosed(c) ==
  /\ proxy[c].client = "closing"
  /\ \E t \in {"ended", proxy[c].telnet} :
       /\ proxy[c].telnet # "connecting" => t = "ended"
       /\ ProxyStep(c, [proxy[c] EXCEPT !.client = "closed", !.telnet = t])

\* SIGINT or SIGTERM: the connections that have a cleanup function end.
handleExit ==
  /\ serving
  /\ serving' = FALSE
  /\ proxy' = [c \in Used |->
                 IF proxy[c].pc = "pipe"
                 THEN [proxy[c] EXCEPT !.telnet = "ended", !.client = "closed"]
                 ELSE proxy[c]]
  /\ UNCHANGED <<openTerminals, consoleViewerHidden, toggles, stopped, ip, socket, requests,
                 logger>>

Init ==
  /\ openTerminals = <<>> /\ consoleViewerHidden = FALSE
  /\ toggles = 0
  /\ stopped = [d \in Devices |-> "none"]
  /\ ip = FALSE /\ serving = TRUE
  /\ socket = [d \in Devices |-> NoSocket]
  /\ proxy = <<>>
  /\ requests = [d \in Devices |-> <<>>]
  /\ logger = [d \in Devices |-> TRUE]

ProxyRuns(c) == TelnetConnect(c) \/ TelnetShell(c) \/ PipelinesEnd(c) \/ ConnectionClosed(c)

Next ==
  \/ \E d \in Devices :
       terminalToggled(d) \/ ServeAction(d) \/ Connect(d) \/ SocketClosed(d)
  \/ \E c \in Used : ProxyRuns(c) \/ RemoteEnds(c)
  \/ hideConsoleViewer \/ ReceiveIp \/ handleExit

\* Requests are served, a telnet connection is set up or times out, and the
\* event loops of the browser and the proxy go on.
Fairness ==
  /\ \A d \in Devices : WF_vars(ServeAction(d)) /\ WF_vars(SocketClosed(d))
  /\ \A c \in Connections : WF_vars(c \in Used /\ ProxyRuns(c))

Spec == Init /\ [][Next]_vars /\ Fairness

------------------------------------------------------------------------------
(* Properties.                                                               *)

\* While a console is connected to its device, the logger of the device does
\* not read from it too.
ConsoleExclusive ==
  \A c \in Used :
    proxy[c].telnet = "connected" /\ socket[proxy[c].device] = c
      => ~logger[proxy[c].device]

\* When every action has been served, the logger of a device whose console is
\* closed runs again.
LoggerRestored ==
  \A d \in Devices :
    requests[d] = <<>> /\ (~IsOpen(d) \/ socket[d] = Lost) => logger[d]

\* A web socket that is closed leaves no telnet session behind.
TelnetEnds ==
  \A c \in Connections :
    (c \in Used /\ proxy[c].client # "open") ~> (c \in Used /\ proxy[c].telnet = "ended")
==============================================================================
