--------------------------- MODULE NetworkLifecycle ---------------------------
(***************************************************************************)
(* The libvirt networks that carry the links and networks of a topology of *)
(* libvirt machines (virt/connection_libvirt.py), driven by the actions of *)
(* virt/virt_topology.py.  A network is shared by the machines that have   *)
(* an interface in it, so the action on one machine defines, starts, stops *)
(* or undefines it only if the provisioning statuses of the others say     *)
(* that none of them needs it in the state it is in.                       *)
(*                                                                         *)
(* Actors are invocations of LibvirtAction.  Each has its own cache of the *)
(* networks, loaded with its Topology object.  Nothing in the code keeps   *)
(* them apart: Serial = TRUE is an assumption on the operator, and so is   *)
(* Careful.  The statuses that decide on a network are read in one step,   *)
(* and each call to a hypervisor is a step of its own.                     *)
(***************************************************************************)
EXTENDS VirtActions

CONSTANTS Device,       \* the libvirt machines of the topology
          Unmanaged,    \* those whose definition has no NED
          Network,      \* the managed networks ...
          LinkNetwork,  \* ... of them, those made for one link
          Members,      \* the machines with an interface in each network
          Hypervisor,
          Host,         \* the hypervisor of each machine
          Actor,        \* invocations of LibvirtAction that may overlap
          Command,      \* the commands the operator gives
          Serial,       \* operations never overlap
          Careful,      \* the operator gives a command only where it applies
          Failing,      \* actions that may raise instead of changing the domain
          None          \* no device, no network

ASSUME NetworkLifecycleAssumption ==
  /\ Unmanaged \subseteq Device
  /\ LinkNetwork \subseteq Network
  /\ Members \in [Network -> SUBSET Device]
  /\ Host \in [Device -> Hypervisor]
  /\ Command \subseteq Commands
  /\ Serial \in BOOLEAN /\ Careful \in BOOLEAN
  /\ Failing \subseteq Actions
  /\ None \notin Device \cup Network

VARIABLES
  dom,      \* each domain on its hypervisor
  net,      \* each network on each hypervisor
  status,   \* provisioning-status of each device, in NSO
  pc, command, scope, action, pend, cur,
            \* of each invocation: where it is, what it runs, on what; the
            \* action in progress, the devices still to process, the current
  nets,     \* networks of cur still to decide on
  network,  \* the network it has decided to act on ...
  hosts,    \* ... on these hypervisors still
  known     \* its libvirt.networks: the networks cached on each hypervisor

actors == <<pc, command, scope, action, pend, cur, nets, network, hosts>>
vars   == <<dom, net, status, actors, known>>

NetHost == Network \X Hypervisor

NetworksOf(d) == {n \in Network : d \in Members[n]}

\* LinkNetworks acts on the hypervisor of the device the action is about,
\* TopologyNetworks on all of them.
HostsOf(n, d) == IF n \in LinkNetwork THEN {Host[d]} ELSE Hypervisor

TypeOK ==
  /\ dom \in [Device -> {"absent", "shut", "running"}]
  /\ net \in [NetHost -> {"absent", "inactive", "active"}]
  /\ status \in [Device -> ProvisioningStatus]
  /\ pc \in [Actor -> {"idle", "next", "pre", "post"}]
  /\ command \in [Actor -> Commands \cup {"none"}]
  /\ scope \in [Actor -> SUBSET Device]
  /\ action \in [Actor -> Actions \cup {"none"}]
  /\ pend \in [Actor -> SUBSET Device]
  /\ cur \in [Actor -> Device \cup {None}]
  /\ nets \in [Actor -> SUBSET Network]
  /\ network \in [Actor -> Network \cup {None}]
  /\ hosts \in [Actor -> SUBSET Hypervisor]
  /\ known \in [Actor -> SUBSET NetHost]

Existing == {x \in NetHost : net[x] # "absent"}

Idle == \A a \in Actor : pc[a] = "idle"

Init ==
  /\ dom = [d \in Device |-> "absent"]
  /\ net = [x \in NetHost |-> "absent"]
  /\ status = [d \in Device |-> "undefined"]
  /\ pc = [a \in Actor |-> "idle"]
  /\ command = [a \in Actor |-> "none"]
  /\ scope = [a \in Actor |-> {}]
  /\ action = [a \in Actor |-> "none"]
  /\ pend = [a \in Actor |-> {}]
  /\ cur = [a \in Actor |-> None]
  /\ nets = [a \in Actor |-> {}]
  /\ network = [a \in Actor |-> None]
  /\ hosts = [a \in Actor |-> {}]
  /\ known = [a \in Actor |-> {}]

------------------------------------------------------------------------------
(* LibvirtAction.cb_action and Topology.action.                             *)

\* The command makes sense for every device it is given for.
Applies(c, S) ==
  \A d \in S : CASE c \in {"define", "undefine"} -> dom[d] # "running"
                 [] OTHER                        -> dom[d] # "absent"

\* A command arrives for one device or for all of them; its Topology object
\* caches the networks of every hypervisor.
Begin(a, c, S) ==
  /\ pc[a] = "idle"
  /\ Serial => Idle
  /\ Careful => Applies(c, S)
  /\ pc' = [pc EXCEPT ![a] = "next"]
  /\ command' = [command EXCEPT ![a] = c]
  /\ scope' = [scope EXCEPT ![a] = S]
  /\ action' = [action EXCEPT ![a] = FirstAction(c)]
  /\ pend' = [pend EXCEPT ![a] = S]
  /\ known' = [known EXCEPT ![a] = Existing]
  /\ UNCHANGED <<dom, net, status, cur, nets, network, hosts>>

\* The invocation returns or raises.
Return(a) ==
  /\ pc' = [pc EXCEPT ![a] = "idle"]
  /\ command' = [command EXCEPT ![a] = "none"]
  /\ scope' = [scope EXCEPT ![a] = {}]
  /\ action' = [action EXCEPT ![a] = "none"]
  /\ pend' = [pend EXCEPT ![a] = {}]
  /\ cur' = [cur EXCEPT ![a] = None]
  /\ nets' = [nets EXCEPT ![a] = {}]
  /\ network' = [network EXCEPT ![a] = None]
  /\ hosts' = [hosts EXCEPT ![a] = {}]
  /\ known' = [known EXCEPT ![a] = {}]

\* The networks ConnectionLibvirt considers for d before and after the domain
\* action; a shutdown does nothing to a network.
Considered(d, act, when) ==
  IF \/ when = "pre" /\ act \in {"define", "create"}
     \/ when = "post" /\ act \in {"create", "destroy", "undefine"}
  THEN NetworksOf(d)
  ELSE {}

NextDevice(a, d) ==
  /\ pc[a] = "next"
  /\ d \in pend[a]
  /\ pc' = [pc EXCEPT ![a] = "pre"]
  /\ cur' = [cur EXCEPT ![a] = d]
  /\ pend' = [pend EXCEPT ![a] = @ \ {d}]
  /\ nets' = [nets EXCEPT ![a] = Considered(d, action[a], "pre")]
  /\ UNCHANGED <<dom, net, status, command, scope, action, network, hosts,
                 known>>

\* All devices processed: on to the next action of the command; a hard reset
\* loads a new Topology after undefine and after define.
NextStep(a) ==
  /\ pc[a] = "next"
  /\ pend[a] = {}
  /\ LET following == NextAction(command[a], action[a])
     IN  IF following = "none"
         THEN Return(a)
         ELSE /\ action' = [action EXCEPT ![a] = following]
              /\ pend' = [pend EXCEPT ![a] = scope[a]]
              /\ known' = [known EXCEPT ![a] =
                   IF action[a] \in {"undefine", "define"} THEN Existing ELSE @]
              /\ UNCHANGED <<pc, command, scope, cur, nets, network, hosts>>
  /\ UNCHANGED <<dom, net, status>>

------------------------------------------------------------------------------
(* ConnectionLibvirt.connection and LibvirtNetwork.                         *)

\* Mutant: a ready device does not keep its network from being destroyed.
AllowedStates_DestroyReady ==
  [undefine |-> {"undefined"},
   define   |-> {"undefined"},
   destroy  |-> {"undefined", "defined", "unmanaged", "ready"},
   create   |-> {"undefined", "defined", "unmanaged"}]

\* Mutant: a network is created only once the others are all defined.
AllowedStates_CreateDefined ==
  [undefine |-> {"undefined"},
   define   |-> {"undefined"},
   destroy  |-> {"undefined", "defined", "unmanaged"},
   create   |-> {"defined", "unmanaged"}]

\* The statuses of the other members that allow an action on a network.
AllowedStates ==
  [undefine |-> {"undefined"},
   define   |-> {"undefined"},
   destroy  |-> {"undefined", "defined", "unmanaged"},
   create   |-> {"undefined", "defined", "unmanaged"}]

\* Mutant: the device the action is about is asked as well.
OtherMembers_All(n, d) == Members[n]

\* The other devices of get_interface_managed_network_info.
OtherMembers(n, d) == Members[n] \ {d}

network_action_allowed(act, others) ==
  \A d \in others : status[d] \in AllowedStates[act]

\* The decision on one of the networks of the current device.
CheckNetwork(a, n) ==
  /\ pc[a] \in {"pre", "post"}
  /\ network[a] = None
  /\ n \in nets[a]
  /\ nets' = [nets EXCEPT ![a] = @ \ {n}]
  /\ IF network_action_allowed(action[a], OtherMembers(n, cur[a]))
     THEN /\ network' = [network EXCEPT ![a] = n]
          /\ hosts' = [hosts EXCEPT ![a] = HostsOf(n, cur[a])]
     ELSE UNCHANGED <<network, hosts>>
  /\ UNCHANGED <<dom, net, status, pc, command, scope, action, pend, cur, known>>

\* What an action makes of a network.
After(act) ==
  CASE act = "create"              -> "active"
    [] act \in {"define", "destroy"} -> "inactive"
    [] act = "undefine"            -> "absent"

\* The action is run on a cached network in the right state; a network is
\* defined unless it is cached.
Runs(act, x) ==
  IF act = "define" THEN TRUE ELSE ActionAllowed(net[x] = "active", act)

\* LibvirtNetwork.define and _action on one hypervisor.  The call raises when
\* the cache is out of date: the network to define exists, or the network to
\* look up is gone.
ActOnNetwork(a, h) ==
  LET act == action[a]
      x == <<network[a], h>>
      skip == (x \in known[a]) = (act = "define")
  IN  /\ network[a] # None
      /\ h \in hosts[a]
      /\ \/ /\ ~skip
            /\ (net[x] = "absent") # (act = "define")
            /\ Return(a)
            /\ UNCHANGED net
         \/ /\ skip \/ (net[x] = "absent") = (act = "define")
            /\ IF ~skip /\ Runs(act, x)
               THEN /\ net' = [net EXCEPT ![x] = After(act)]
                    /\ known' = [known EXCEPT ![a] =
                         CASE act = "define"   -> @ \cup {x}
                           [] act = "undefine" -> @ \ {x}
                           [] OTHER            -> @]
               ELSE UNCHANGED <<net, known>>
            /\ hosts' = [hosts EXCEPT ![a] = @ \ {h}]
            /\ UNCHANGED <<pc, command, scope, action, pend, cur, nets, network>>
      /\ UNCHANGED <<dom, status>>

NetworkDone(a) ==
  /\ network[a] # None
  /\ hosts[a] = {}
  /\ network' = [network EXCEPT ![a] = None]
  /\ UNCHANGED <<dom, net, status, pc, command, scope, action, pend, cur, nets,
                 hosts, known>>

------------------------------------------------------------------------------
(* The domain between the two passes over its networks.                     *)

Served(d) == \A n \in NetworksOf(d) : net[<<n, Host[d]>>] = "active"

\* The domain action changes the domain.
Effective(d, act) ==
  IF act = "define" THEN dom[d] = "absent"
  ELSE dom[d] # "absent" /\ ActionAllowed(dom[d] = "running", act)

\* What becomes of the domain: a guest asked to shut down obeys or does not.
DomainAfter(d, act) ==
  CASE act = "create"   -> {"running"}
    [] act = "shutdown" -> {"running", "shut"}
    [] act \in {"define", "destroy"} -> {"shut"}
    [] act = "undefine" -> {"absent"}

\* DomainLibvirt._define and _action.  libvirt starts no domain with an
\* interface in a network that is not active, and the call may raise for
\* other reasons.
DomainAction(a) ==
  LET d == cur[a]
      act == action[a]
  IN  /\ pc[a] = "pre"
      /\ nets[a] = {}
      /\ network[a] = None
      /\ \/ /\ Effective(d, act)
            /\ act \in Failing \/ (act = "create" /\ ~Served(d))
            /\ Return(a)
            /\ UNCHANGED dom
         \/ /\ Effective(d, act) /\ act = "create" => Served(d)
            /\ \E s \in IF Effective(d, act) THEN DomainAfter(d, act)
                                             ELSE {dom[d]} :
                 dom' = [dom EXCEPT ![d] = s]
            /\ pc' = [pc EXCEPT ![a] = "post"]
            /\ nets' = [nets EXCEPT ![a] = Considered(d, act, "post")]
            /\ UNCHANGED <<command, scope, action, pend, cur, network, hosts,
                           known>>
      /\ UNCHANGED <<net, status>>

\* update_device_status_after_action: last of all, after the networks.
WriteStatus(a) ==
  /\ pc[a] = "post"
  /\ nets[a] = {}
  /\ network[a] = None
  /\ status' = [status EXCEPT ![cur[a]] =
       DeviceStatusAfter(action[a], cur[a] \in Unmanaged)]
  /\ pc' = [pc EXCEPT ![a] = "next"]
  /\ cur' = [cur EXCEPT ![a] = None]
  /\ UNCHANGED <<dom, net, command, scope, action, pend, nets, network, hosts,
                 known>>

\* TopologyStatus.sync_device, beside the actions.
SyncDevice(d) ==
  /\ Serial => Idle
  /\ d \notin Unmanaged
  /\ dom[d] = "running"
  /\ status[d] # "ready"
  /\ \E result \in {"ready", "sync-error"} :
       status' = [status EXCEPT ![d] = result]
  /\ UNCHANGED <<dom, net, actors, known>>

------------------------------------------------------------------------------

ActorStep(a) ==
  \/ \E d \in Device : NextDevice(a, d)
  \/ NextStep(a)
  \/ \E n \in Network : CheckNetwork(a, n)
  \/ \E h \in Hypervisor : ActOnNetwork(a, h)
  \/ NetworkDone(a)
  \/ DomainAction(a)
  \/ WriteStatus(a)

Targets == {Device} \cup {{d} : d \in Device}

Next ==
  \/ \E a \in Actor, c \in Command, S \in Targets : Begin(a, c, S)
  \/ \E a \in Actor : ActorStep(a)
  \/ \E d \in Device : SyncDevice(d)

Spec == Init /\ [][Next]_vars

------------------------------------------------------------------------------

\* "Networks ... should not be stopped until all device endpoints have been
\* stopped" (ConnectionManager): a running machine never loses its networks,
\* whichever machines beside it are started, stopped, undefined or fail to.
NetworksServe == \A d \in Device : dom[d] = "running" => Served(d)

\* "Networks should be started before any device endpoint" (ConnectionManager):
\* a machine is never started before all its networks, although the action on
\* it may have left some of them to the machines that share them.
NetworksReady ==
  \A a \in Actor :
    /\ pc[a] = "pre"
    /\ nets[a] = {}
    /\ network[a] = None
    /\ action[a] = "create"
    => Served(cur[a])

\* a's command returns after the last action on the last of all devices.
Completes(a, act) ==
  /\ scope[a] = Device
  /\ action[a] = act
  /\ pc[a] = "next" /\ pend[a] = {}

\* However single machines were started and stopped before, and whatever
\* failed: when a stop of the whole topology completes, no network is left
\* active, although each machine destroys a network only if it is the last; and
\* an undefine of the whole topology leaves no network behind, unless it is
\* active, which only a start that failed can have caused.
NetworksReleased ==
  \A a \in Actor :
    /\ Completes(a, "destroy") => \A x \in NetHost : net[x] # "active"
    /\ Completes(a, "undefine") => \A x \in NetHost : net[x] # "inactive"
------------------------------------------------------------------------------
(* Why a running machine keeps its networks when operations do not overlap  *)
(* and every machine with a network is managed: the inductive invariant of  *)
(* NetworkLifecycleProofs.                                                  *)

Working(a) == pc[a] # "idle"

\* Where an invocation can be in its loops.
ControlInv ==
  \A a \in Actor :
    /\ Working(a) <=> action[a] # "none"
    /\ cur[a] # None <=> pc[a] \in {"pre", "post"}
    /\ pend[a] \subseteq scope[a]
    /\ cur[a] # None => cur[a] \in scope[a] \ pend[a]
    /\ nets[a] # {} \/ network[a] # None =>
         \/ pc[a] = "pre" /\ action[a] \in {"define", "create"}
         \/ pc[a] = "post" /\ action[a] \in {"create", "destroy", "undefine"}

\* At most one operation at a time.
Alone == \A a, b \in Actor : Working(a) /\ Working(b) => a = b

\* What is cached exists; only a network that is to be defined may be missing.
CacheInv ==
  \A a \in Actor :
    /\ known[a] \subseteq Existing
    /\ ~Working(a) => known[a] = {}

\* Define and undefine work on machines that do not run, and a destroy leaves
\* none running behind it.
StoppedInv ==
  \A a \in Actor :
    /\ action[a] \in {"define", "undefine"} =>
         \A d \in scope[a] : dom[d] # "running"
    /\ action[a] = "destroy" =>
         \A d \in scope[a] \ pend[a] :
           dom[d] = "running" => cur[a] = d /\ pc[a] = "pre"

\* The decision to destroy a network still holds when it is carried out.
DecidedInv ==
  \A a \in Actor :
    action[a] = "destroy" /\ network[a] # None =>
      network_action_allowed("destroy", OtherMembers(network[a], cur[a]))

\* A managed machine that runs is recorded so, or as stopping, unless its own
\* action has just started it.
StatusInv ==
  \A d \in Device \ Unmanaged :
    dom[d] = "running" /\ (\A a \in Actor : cur[a] = d => pc[a] = "pre") =>
      status[d] \in {"started", "ready", "sync-error", "stopping"}

\* Together they keep the networks of running machines: a decision of
\* network_action_allowed to destroy a network is right when it is taken and
\* when it is carried out.
ServeInv ==
  /\ TypeOK
  /\ ControlInv
  /\ Alone
  /\ CacheInv
  /\ StoppedInv
  /\ DecidedInv
  /\ StatusInv
  /\ NetworksServe
==============================================================================
