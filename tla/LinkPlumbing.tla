---------------------------- MODULE LinkPlumbing -----------------------------
(***************************************************************************)
(* The plumbing of direct links (virt/connection_docker.py), driven by the *)
(* actions of virt/virt_topology.py.  A link between two containers is a   *)
(* veth pair, one end in the network namespace of each; a link between a   *)
(* container and a virtual machine is the machine's tap interface moved    *)
(* into the container.  Both need the two devices up, so the action on a   *)
(* device plumbs a link only if the provisioning status of the device at   *)
(* the other end, as stored in NSO, says that it is up; otherwise it relies *)
(* on the action that later starts that device.                            *)
(*                                                                         *)
(* Actors are invocations of LibvirtAction, each a worker thread of NSO    *)
(* with its own Topology object; the periodic status check runs beside     *)
(* them.  Nothing in the code keeps them apart: Serial = TRUE adds, as an  *)
(* assumption on the operator, that one starts only when all others have   *)
(* returned.  An actor reads a status and acts on it in two steps; the     *)
(* shell commands of one plumber call are one step.                        *)
(***************************************************************************)
EXTENDS VirtActions, FiniteSets

CONSTANTS Device,      \* the devices of the topology, all of them defined
          Container,   \* those that run as docker containers
          Unmanaged,   \* those whose definition has no NED
          Link,        \* direct links: sets of two devices
          Actor,       \* invocations of LibvirtAction that may overlap
          SyncResult,  \* statuses a synchronisation may write
          Serial,      \* operations never overlap
          Crashes,     \* a domain may stop by itself
          None         \* no device, no link

ASSUME LinkPlumbingAssumption ==
  /\ Container \subseteq Device
  /\ Unmanaged \subseteq Device
  /\ \A l \in Link : \E c \in Container : \E d \in Device \ {c} : l = {c, d}
  /\ SyncResult \subseteq {"ready", "sync-error"}
  /\ Serial \in BOOLEAN
  /\ Crashes \in BOOLEAN
  /\ None \notin Device \cup Link

VARIABLES
  dom,       \* state of each domain on its hypervisor
  status,    \* provisioning-status of each device, in NSO
  pairs,     \* links whose veth pair exists
  inside,    \* <<container, link>>: that end of the pair is in the container
  tap,       \* where the tap interface of each container-to-machine link is
  pc,        \* what each actor does next
  command,   \* the command it runs ...
  scope,     \* ... on these devices
  action,    \* the action of the command being run
  pend,      \* the devices the action has still to process
  cur,       \* the device it is processing
  links,     \* the links of cur still to process
  link,      \* the link being plumbed
  plumbed,   \* the actor's _plumbed_link_interfaces
  checking   \* devices the status check has pinged and not yet synchronised

network == <<pairs, inside, tap>>
actors  == <<pc, command, scope, action, pend, cur, links, link, plumbed>>
vars    == <<dom, status, network, actors, checking>>

VethLink   == {l \in Link : l \subseteq Container}
TapLink    == Link \ VethLink
End        == {e \in Container \X VethLink : e[1] \in e[2]}
Iface      == {e \in Container \X Link : e[1] \in e[2]}
LinksOf(d) == {l \in Link : d \in l}
Other(d, l) == CHOOSE o \in l : o # d

PCs == {"idle", "next", "pre", "domain", "post", "plumb_own", "peer",
        "plumb_peer", "status", "wait"}

TypeOK ==
  /\ dom \in [Device -> {"shut", "running", "acpi"}]
  /\ status \in [Device -> ProvisioningStatus]
  /\ pairs \subseteq VethLink
  /\ inside \subseteq End
  /\ tap \in [TapLink -> {"none", "host", "container", "lost"}]
  /\ pc \in [Actor -> PCs]
  /\ command \in [Actor -> {"none", "start", "stop", "reboot"}]
  /\ scope \in [Actor -> SUBSET Device]
  /\ action \in [Actor -> {"none", "create", "shutdown", "destroy"}]
  /\ pend \in [Actor -> SUBSET Device]
  /\ cur \in [Actor -> Device \cup {None}]
  /\ links \in [Actor -> SUBSET Link]
  /\ link \in [Actor -> Link \cup {None}]
  /\ plumbed \in [Actor -> SUBSET Iface]
  /\ checking \subseteq Device \ Unmanaged

\* A machine asked to shut down ("acpi") still runs.
Active(d) == dom[d] # "shut"

\* The statuses _plumb_direct_link_interface takes as "the other end is up".
PeerReady == {"started", "ready", "unmanaged"}

Idle == \A a \in Actor : pc[a] = "idle"

Init ==
  /\ dom = [d \in Device |-> "shut"]
  /\ status = [d \in Device |-> "defined"]
  /\ pairs = {}
  /\ inside = {}
  /\ tap = [l \in TapLink |-> "none"]
  /\ pc = [a \in Actor |-> "idle"]
  /\ command = [a \in Actor |-> "none"]
  /\ scope = [a \in Actor |-> {}]
  /\ action = [a \in Actor |-> "none"]
  /\ pend = [a \in Actor |-> {}]
  /\ cur = [a \in Actor |-> None]
  /\ links = [a \in Actor |-> {}]
  /\ link = [a \in Actor |-> None]
  /\ plumbed = [a \in Actor |-> {}]
  /\ checking = {}

------------------------------------------------------------------------------
(* LibvirtAction.cb_action and Topology.action: the loops over the actions  *)
(* of a command and over the devices of the topology.                       *)

\* A command arrives for one device or for all of them; a new Topology object
\* starts with an empty _plumbed_link_interfaces.
Begin(a, c, S) ==
  /\ pc[a] = "idle"
  /\ Serial => Idle /\ checking = {}
  /\ pc' = [pc EXCEPT ![a] = "next"]
  /\ command' = [command EXCEPT ![a] = c]
  /\ scope' = [scope EXCEPT ![a] = S]
  /\ action' = [action EXCEPT ![a] = FirstAction(c)]
  /\ pend' = [pend EXCEPT ![a] = S]
  /\ UNCHANGED <<dom, status, network, cur, links, link, plumbed, checking>>

\* The action takes the next device: machines first, then containers.
NextDevice(a, d) ==
  /\ pc[a] = "next"
  /\ d \in pend[a]
  /\ d \in Container => pend[a] \subseteq Container
  /\ pc' = [pc EXCEPT ![a] = "pre"]
  /\ cur' = [cur EXCEPT ![a] = d]
  /\ pend' = [pend EXCEPT ![a] = @ \ {d}]
  /\ links' = [links EXCEPT ![a] = LinksOf(d)]
  /\ UNCHANGED <<dom, status, network, command, scope, action, link, plumbed,
                 checking>>

\* The invocation returns or raises: its Topology object is gone.
Return(a) ==
  /\ pc' = [pc EXCEPT ![a] = "idle"]
  /\ command' = [command EXCEPT ![a] = "none"]
  /\ scope' = [scope EXCEPT ![a] = {}]
  /\ action' = [action EXCEPT ![a] = "none"]
  /\ pend' = [pend EXCEPT ![a] = {}]
  /\ cur' = [cur EXCEPT ![a] = None]
  /\ links' = [links EXCEPT ![a] = {}]
  /\ link' = [link EXCEPT ![a] = None]
  /\ plumbed' = [plumbed EXCEPT ![a] = {}]

\* All devices processed: on to the next action of the command.
NextStep(a) ==
  /\ pc[a] = "next"
  /\ pend[a] = {}
  /\ IF NextAction(command[a], action[a]) = "none"
     THEN Return(a)
     ELSE /\ pc' = [pc EXCEPT ![a] = IF action[a] = "shutdown" THEN "wait"
                                                               ELSE "next"]
          /\ action' = [action EXCEPT ![a] = NextAction(command[a], @)]
          /\ pend' = [pend EXCEPT ![a] = scope[a]]
          /\ UNCHANGED <<command, scope, cur, links, link, plumbed>>
  /\ UNCHANGED <<dom, status, network, checking>>

\* wait_for_shutdown returns when the domains are down or after 60 seconds.
WaitForShutdown(a) ==
  /\ pc[a] = "wait"
  /\ pc' = [pc EXCEPT ![a] = "next"]
  /\ UNCHANGED <<dom, status, network, command, scope, action, pend, cur,
                 links, link, plumbed, checking>>

------------------------------------------------------------------------------
(* ConnectionDocker.shutdown and InterfacePlumber.destroy_*.                *)

\* Mutant: the last end to leave its container does not delete the pair.
UnplumbVeth_NoDelete(d, l) ==
  /\ IF Active(d) THEN inside' = inside \ {<<d, l>>} ELSE UNCHANGED inside
  /\ UNCHANGED <<pairs, tap>>

\* destroy_container_to_container_link: the end moves back to the host, and
\* the pair is deleted when its other end is on the host as well.
UnplumbVeth(d, l) ==
  LET e == <<d, l>>
      o == <<Other(d, l), l>>
      delete == l \in pairs /\ o \notin inside
  IN  /\ IF Active(d) /\ delete THEN pairs' = pairs \ {l}
                                ELSE UNCHANGED pairs
      /\ IF Active(d) THEN inside' = inside \ {e} ELSE UNCHANGED inside
      /\ UNCHANGED tap

\* destroy_tap_to_container_link: the tap moves back to the host, whichever
\* of the two devices is shut down.
UnplumbTap(l) ==
  /\ tap' = [tap EXCEPT ![l] =
       IF @ = "container" /\ (\E c \in l \cap Container : Active(c))
       THEN "host" ELSE @]
  /\ UNCHANGED <<pairs, inside>>

\* process_device_connections('shutdown', ..., 'pre-domain') for one link: the
\* two calls of connection(), for the device's own interface and for the
\* interface at the other end.
Unplumb(a, l) ==
  /\ pc[a] = "pre"
  /\ action[a] = "shutdown"
  /\ l \in links[a]
  /\ links' = [links EXCEPT ![a] = @ \ {l}]
  /\ plumbed' = [plumbed EXCEPT ![a] = {e \in @ : e[2] # l}]
  /\ IF l \in VethLink THEN UnplumbVeth(cur[a], l) ELSE UnplumbTap(l)
  /\ UNCHANGED <<dom, status, pc, command, scope, action, pend, cur, link,
                 checking>>

\* Mutant: the container stops before its links are unplumbed.
PreDomainDone_TooEarly(a) ==
  /\ pc[a] = "pre"
  /\ pc' = [pc EXCEPT ![a] = "domain"]
  /\ UNCHANGED <<dom, status, network, command, scope, action, pend, cur,
                 links, link, plumbed, checking>>

PreDomainDone(a) ==
  /\ pc[a] = "pre"
  /\ action[a] = "shutdown" => links[a] = {}
  /\ pc' = [pc EXCEPT ![a] = "domain"]
  /\ UNCHANGED <<dom, status, network, command, scope, action, pend, cur,
                 links, link, plumbed, checking>>

------------------------------------------------------------------------------
(* The domain action, and what the kernel does to the interfaces.           *)

\* A network namespace goes with its container and takes along every
\* interface in it; a veth end takes its peer along.
NetnsGone(c) ==
  /\ pairs' = {l \in pairs : <<c, l>> \notin inside}
  /\ inside' = {e \in inside : <<c, e[2]>> \notin inside}
  /\ tap' = [l \in TapLink |->
               IF c \in l /\ tap[l] = "container" THEN "lost" ELSE tap[l]]

\* A tap lives as long as the machine that owns it.
TapsGone(d) ==
  /\ tap' = [l \in TapLink |-> IF d \in l THEN "none" ELSE tap[l]]
  /\ UNCHANGED <<pairs, inside>>

TapsCreated(d) ==
  /\ tap' = [l \in TapLink |-> IF d \in l THEN "host" ELSE tap[l]]
  /\ UNCHANGED <<pairs, inside>>

DomainDown(d) ==
  /\ dom' = [dom EXCEPT ![d] = "shut"]
  /\ IF d \in Container THEN NetnsGone(d) ELSE TapsGone(d)

DomainUp(d) ==
  /\ dom' = [dom EXCEPT ![d] = "running"]
  /\ IF d \in Container THEN UNCHANGED network ELSE TapsCreated(d)

\* DomainDocker._action and DomainLibvirt._action.  docker stop returns when
\* the container is down, and DomainDocker has no destroy; a shutdown only
\* asks a machine's guest.
DomainStep(d, act) ==
  CASE ~ActionAllowed(Active(d), act) -> UNCHANGED <<dom, network>>
    [] OTHER ->
       CASE act = "create" -> DomainUp(d)
         [] act = "shutdown" /\ d \in Container -> DomainDown(d)
         [] act = "shutdown" /\ d \notin Container ->
              dom' = [dom EXCEPT ![d] = "acpi"] /\ UNCHANGED network
         [] act = "destroy" /\ d \in Container -> UNCHANGED <<dom, network>>
         [] act = "destroy" /\ d \notin Container -> DomainDown(d)

DomainAction(a) ==
  /\ pc[a] = "domain"
  /\ DomainStep(cur[a], action[a])
  /\ pc' = [pc EXCEPT ![a] = IF action[a] = "create" THEN "post" ELSE "status"]
  /\ links' = [links EXCEPT ![a] = LinksOf(cur[a])]
  /\ UNCHANGED <<status, command, scope, action, pend, cur, link, plumbed,
                 checking>>

------------------------------------------------------------------------------
(* ConnectionDocker.create and InterfacePlumber.create_*.                   *)

\* Mutant: the status read is that of the interface's own device.
MayPlumb_OwnStatus(a, x, l, o) ==
  /\ x \in Container
  /\ <<x, l>> \notin plumbed[a]
  /\ status[x] \in PeerReady

\* _plumb_direct_link_interface up to the plumber call, for the interface of
\* x on link l while the action processes a device whose other end is o.
\* Whether x is the device itself (is_link_dest False) or the far end (True),
\* the status that is read is the far end's.
MayPlumb(a, x, l, o) ==
  /\ x \in Container
  /\ <<x, l>> \notin plumbed[a]
  /\ status[o] \in PeerReady

\* connection(..., is_link_dest=False): the device's own interface.
CheckOwn(a, l) ==
  /\ pc[a] = "post"
  /\ l \in links[a]
  /\ link' = [link EXCEPT ![a] = l]
  /\ pc' = [pc EXCEPT ![a] =
       IF MayPlumb(a, cur[a], l, Other(cur[a], l)) THEN "plumb_own" ELSE "peer"]
  /\ UNCHANGED <<dom, status, network, command, scope, action, pend, cur,
                 links, plumbed, checking>>

LinkDone(a) ==
  /\ pc' = [pc EXCEPT ![a] = "post"]
  /\ links' = [links EXCEPT ![a] = @ \ {link[a]}]
  /\ link' = [link EXCEPT ![a] = None]

\* Mutant: the action plumbs the interface of its own device only.
CheckPeer_Skipped(a) ==
  /\ pc[a] = "peer"
  /\ LinkDone(a)
  /\ UNCHANGED <<dom, status, network, command, scope, action, pend, cur,
                 plumbed, checking>>

\* connection(..., is_link_dest=True): the interface at the other end.
CheckPeer(a) ==
  /\ pc[a] = "peer"
  /\ LET o == Other(cur[a], link[a])
     IN  IF MayPlumb(a, o, link[a], o)
         THEN /\ pc' = [pc EXCEPT ![a] = "plumb_peer"]
              /\ UNCHANGED <<links, link>>
         ELSE LinkDone(a)
  /\ UNCHANGED <<dom, status, network, command, scope, action, pend, cur,
                 plumbed, checking>>

\* create_container_to_container_link finds the interface in the container
\* already, create_tap_to_container_link finds no tap on the host.
NothingToPlumb(x, l) ==
  IF l \in VethLink THEN <<x, l>> \in inside ELSE tap[l] # "host"

\* The interface of x moves into the container; the first end creates the pair.
MoveInside(x, l) ==
  IF l \in VethLink
  THEN /\ pairs' = pairs \cup {l}
       /\ inside' = inside \cup {<<x, l>>}
       /\ UNCHANGED tap
  ELSE /\ tap' = [tap EXCEPT ![l] = "container"]
       /\ UNCHANGED <<pairs, inside>>

\* The plumber call: nothing to do, done, or an exception when the container
\* has no process (_get_container_pid_must_exist), which ends the action with
\* the device's status as it was.
Plumb(a, x, Continue) ==
  \/ /\ NothingToPlumb(x, link[a])
     /\ Continue
     /\ UNCHANGED <<network, plumbed, command, scope, action, pend, cur>>
  \/ /\ ~NothingToPlumb(x, link[a])
     /\ Active(x)
     /\ MoveInside(x, link[a])
     /\ plumbed' = [plumbed EXCEPT ![a] = @ \cup {<<x, link[a]>>}]
     /\ Continue
     /\ UNCHANGED <<command, scope, action, pend, cur>>
  \/ /\ ~NothingToPlumb(x, link[a])
     /\ ~Active(x)
     /\ Return(a)
     /\ UNCHANGED network

PlumbOwn(a) ==
  /\ pc[a] = "plumb_own"
  /\ Plumb(a, cur[a], /\ pc' = [pc EXCEPT ![a] = "peer"]
                      /\ UNCHANGED <<links, link>>)
  /\ UNCHANGED <<dom, status, checking>>

PlumbPeer(a) ==
  /\ pc[a] = "plumb_peer"
  /\ Plumb(a, Other(cur[a], link[a]), LinkDone(a))
  /\ UNCHANGED <<dom, status, checking>>

PostDomainDone(a) ==
  /\ pc[a] = "post"
  /\ links[a] = {}
  /\ pc' = [pc EXCEPT ![a] = "status"]
  /\ UNCHANGED <<dom, status, network, command, scope, action, pend, cur,
                 links, link, plumbed, checking>>

\* update_device_status_after_action: last of all, after the plumbing.
WriteStatus(a) ==
  /\ pc[a] = "status"
  /\ status' = [status EXCEPT ![cur[a]] =
       DeviceStatusAfter(action[a], cur[a] \in Unmanaged)]
  /\ pc' = [pc EXCEPT ![a] = "next"]
  /\ cur' = [cur EXCEPT ![a] = None]
  /\ links' = [links EXCEPT ![a] = {}]
  /\ UNCHANGED <<dom, network, command, scope, action, pend, link, plumbed,
                 checking>>

------------------------------------------------------------------------------
(* Beside the actions: the status check, and domains that stop.             *)

\* TopologyStatus.check selects a device that is not ready and answers a ping.
PingDevice(d) ==
  /\ d \notin Unmanaged
  /\ status[d] # "ready"
  /\ Active(d)
  /\ Serial => Idle
  /\ checking' = checking \cup {d}
  /\ UNCHANGED <<dom, status, network, actors>>

\* ... and, seconds later, writes the result of its synchronisation.
SyncDevice(d) ==
  /\ d \in checking
  /\ checking' = checking \ {d}
  /\ \E result \in SyncResult : status' = [status EXCEPT ![d] = result]
  /\ UNCHANGED <<dom, network, actors>>

\* The guest of a machine obeys the shutdown request.
PowerOff(d) ==
  /\ dom[d] = "acpi"
  /\ DomainDown(d)
  /\ UNCHANGED <<status, actors, checking>>

Crash(d) ==
  /\ Crashes
  /\ Active(d)
  /\ Serial => Idle
  /\ DomainDown(d)
  /\ UNCHANGED <<status, actors, checking>>

\* One step of an invocation, or its start.
ActorStep(a) ==
  \/ \E d \in Device : NextDevice(a, d)
  \/ NextStep(a)
  \/ WaitForShutdown(a)
  \/ \E l \in Link : Unplumb(a, l)
  \/ PreDomainDone(a)
  \/ DomainAction(a)
  \/ \E l \in Link : CheckOwn(a, l)
  \/ CheckPeer(a)
  \/ PlumbOwn(a)
  \/ PlumbPeer(a)
  \/ PostDomainDone(a)
  \/ WriteStatus(a)

Targets == {Device} \cup {{d} : d \in Device}

Next ==
  \/ \E a \in Actor, c \in {"start", "stop", "reboot"}, S \in Targets :
       Begin(a, c, S)
  \/ \E a \in Actor : ActorStep(a)
  \/ \E d \in Device : PingDevice(d) \/ SyncDevice(d) \/ PowerOff(d) \/ Crash(d)

Spec == Init /\ [][Next]_vars

------------------------------------------------------------------------------
(* What the plumbing promises.                                              *)

\* Some action is at work on d.
Busy(d) == \E a \in Actor : cur[a] = d

Up(d) == Active(d) /\ status[d] \in PeerReady

LinkUp(l) == IF l \in VethLink THEN \A d \in l : <<d, l>> \in inside
                               ELSE tap[l] = "container"

\* A link whose two devices run, are recorded as up and are not being worked
\* on is connected: whichever of the two came up last plumbed it
\* (the docstring of ConnectionDocker.create).
LinksPlumbed ==
  \A l \in Link : (\A d \in l : Up(d) /\ ~Busy(d)) => LinkUp(l)

\* A reboot of the whole topology repairs everything: it never raises, and
\* when it returns every link is connected, whatever had crashed, been left
\* unplumbed or half plumbed, or was recorded wrongly before it.  (A start does
\* raise: on the recorded status of a container that has crashed since.)
RebootHeals ==
  [][\A a \in Actor :
       /\ command[a] = "reboot"
       /\ scope[a] = Device
       /\ pc'[a] = "idle"
       => \A l \in Link : LinkUp(l)]_vars

\* "CRITICAL: This MUST be called BEFORE the container stops!"
\* (destroy_tap_to_container_link): no container takes the tap of a running
\* machine down with it.
TapNotLost == \A l \in TapLink : tap[l] # "lost"

\* A veth pair does not outlive both of its containers.
NoLeakedPair == \A l \in pairs : \E c \in l : Active(c)

------------------------------------------------------------------------------
(* Why it keeps the promise when operations do not overlap and no domain    *)
(* stops by itself: the inductive invariant of LinkPlumbingProofs.          *)

Working(a) == pc[a] # "idle"

Plumbing == {"post", "plumb_own", "peer", "plumb_peer"}

\* At most one operation at a time; the check holds only running devices.
SerialInv ==
  /\ \A a, b \in Actor : Working(a) /\ Working(b) => a = b
  /\ checking # {} => Idle
  /\ \A d \in checking : Active(d)

\* Where an actor can be in its loops.
ControlInv ==
  \A a \in Actor :
    /\ cur[a] = None <=> pc[a] \in {"idle", "next", "wait"}
    /\ Working(a) <=> action[a] # "none"
    /\ Working(a) => /\ pend[a] \subseteq scope[a]
                     /\ command[a] # "none"
                     /\ cur[a] # None => cur[a] \in scope[a] \ pend[a]
    /\ command[a] = "start" => action[a] = "create"
    /\ command[a] = "stop" => action[a] \in {"shutdown", "destroy"}
    /\ cur[a] # None => links[a] \subseteq LinksOf(cur[a])
    /\ pc[a] = "wait" => action[a] = "destroy" /\ pend[a] = scope[a]
    /\ pc[a] \in Plumbing => action[a] = "create"
    /\ pc[a] \in Plumbing \ {"post"} => link[a] \in links[a]
    /\ pc[a] = "plumb_own" => cur[a] \in Container
    /\ pc[a] = "plumb_peer" => Other(cur[a], link[a]) \in Container
    /\ pc[a] = "status" /\ action[a] = "create" => links[a] = {}

\* What the checks of MayPlumb still guarantee at the plumber call.
CheckedInv ==
  \A a \in Actor :
    pc[a] \in {"plumb_own", "plumb_peer"} =>
      status[Other(cur[a], link[a])] \in PeerReady

\* a's command still has to destroy d.
DestroyComing(a, d) ==
  \/ action[a] = "shutdown" /\ d \in scope[a]
  \/ /\ action[a] = "destroy"
     /\ d \in pend[a] \/ (cur[a] = d /\ pc[a] \in {"pre", "domain"})

\* A status that says "up" is true, and a running device has one, except while
\* its own action is at work or has only asked the guest to stop.
StatusInv ==
  \A d \in Device :
    /\ ~Busy(d) /\ status[d] \in PeerReady => dom[d] = "running"
    /\ ~Busy(d) /\ Active(d) /\ status[d] \notin PeerReady =>
         d \notin Container /\ \E a \in Actor : Working(a) /\ DestroyComing(a, d)
    /\ dom[d] = "acpi" =>
         d \notin Container /\ \E a \in Actor : Working(a) /\ DestroyComing(a, d)

\* What the domain step of the current action, or an earlier one, achieved.
DomainInv ==
  \A a \in Actor :
    /\ pc[a] \in Plumbing => Active(cur[a])
    /\ pc[a] = "status" => (Active(cur[a]) <=>
         \/ action[a] = "create"
         \/ /\ action[a] = "shutdown"
            /\ cur[a] \notin Container
            /\ dom[cur[a]] = "acpi")
    /\ action[a] = "shutdown" =>
         \A d \in (scope[a] \ pend[a]) \cap Container :
           (cur[a] = d /\ pc[a] \in {"pre", "domain"}) \/ ~Active(d)
    /\ action[a] = "destroy" => \A d \in scope[a] \cap Container : ~Active(d)

\* An interface in a container needs the container, a tap needs its machine.
IfaceInv ==
  /\ \A e \in inside : Active(e[1]) /\ e[2] \in pairs
  /\ \A l \in TapLink :
       /\ tap[l] # "lost"
       /\ tap[l] = "container" => \A c \in l \cap Container : Active(c)
       /\ \A v \in l \ Container : tap[l] = "none" <=> ~Active(v)

\* A container goes down only after its taps have left it.
UnplumbedInv ==
  \A a \in Actor :
    action[a] = "shutdown" =>
      \A l \in TapLink :
        /\ pc[a] = "pre" /\ cur[a] \in l /\ l \notin links[a]
             => tap[l] # "container"
        /\ pc[a] = "domain" /\ cur[a] \in l => tap[l] # "container"

\* The interface of x on l is where the plumber puts it.
InPlace(x, l) ==
  IF l \in VethLink THEN <<x, l>> \in inside ELSE tap[l] = "container"

\* The cache tells the truth, and it is empty before the create action.
CacheInv ==
  \A a \in Actor :
    /\ plumbed[a] # {} => action[a] = "create"
    /\ \A e \in plumbed[a] : InPlace(e[1], e[2])

\* During a create the links already processed are connected, if the other
\* end is up; the link in progress is half done.
ProgressInv ==
  \A a \in Actor :
    \A l \in Link :
      cur[a] \in l /\ Up(Other(cur[a], l)) =>
        /\ (/\ \/ pc[a] \in Plumbing
               \/ pc[a] = "status" /\ action[a] = "create"
            /\ l \notin links[a]) => LinkUp(l)
        /\ (/\ pc[a] \in {"peer", "plumb_peer"}
            /\ l = link[a]
            /\ cur[a] \in Container) => InPlace(cur[a], l)

IInv ==
  /\ TypeOK
  /\ SerialInv
  /\ ControlInv
  /\ CheckedInv
  /\ StatusInv
  /\ DomainInv
  /\ IfaceInv
  /\ UnplumbedInv
  /\ CacheInv
  /\ ProgressInv
  /\ LinksPlumbed
==============================================================================
