-------------------------- MODULE TopologyLifecycle --------------------------
(***************************************************************************)
(* The provisioning of a topology of libvirt machines: the actions of      *)
(* virt/virt_topology.py, the domain builder they call (virt/domain.py,    *)
(* virt/domain_libvirt.py), the statuses they record, and the periodic     *)
(* check of virt/topology_status.py, which pings the devices, synchronises *)
(* those that answer into NSO, and reboots those whose console has been    *)
(* silent for too long.                                                    *)
(*                                                                         *)
(* Actors are invocations of LibvirtAction, each in an NSO worker thread;  *)
(* Rebooter is the invocation the check makes and waits for.  No lock      *)
(* keeps invocations and the check apart: Serial = TRUE is an assumption   *)
(* on the operator.  Every transaction and every call to a hypervisor or   *)
(* to a device is a step of its own.                                       *)
(***************************************************************************)
EXTENDS VirtActions, FiniteSets

CONSTANTS Device,     \* the devices of the topology
          Unmanaged,  \* those whose definition has no NED
          Locked,     \* those southbound-locked in NSO
          Graceful,   \* those whose guest obeys a shutdown request
          Consoled,   \* those with a console monitor and a console timeout
          Actor,      \* invocations by the operator that may overlap
          Rebooter,   \* the invocation the check makes
          Command,    \* the commands the operator gives ...
          Target,     \* ... for one device, or for all (None) ...
          Forced,     \* ... with or without the force flag
          Serial,     \* the operator waits for everything to finish
          Careful,    \* the operator gives a command only where it applies
          SyncFails,  \* a synchronisation may fail
          None        \* no device

ASSUME TopologyLifecycleAssumption ==
  /\ None \notin Device
  /\ Unmanaged \subseteq Device /\ Locked \subseteq Device
  /\ Graceful \subseteq Device /\ Consoled \subseteq Device
  /\ Rebooter \notin Actor
  /\ Command \subseteq Commands
  /\ Target \subseteq Device \cup {None}
  /\ Forced \subseteq BOOLEAN
  /\ Serial \in BOOLEAN /\ Careful \in BOOLEAN /\ SyncFails \in BOOLEAN

VARIABLES
  dom,        \* each domain on its hypervisor
  nso,        \* devices onboarded into NSO
  console,    \* devices with a console logger running
  status,     \* provisioning-status of each device
  oper,       \* devices whose operational-status is reachable
  topo,       \* provisioning-status of the topology
  scheduled,  \* the scheduler task that runs the check every two minutes
  pc, command, target, action, pend, cur,
              \* of each invocation: where it is, what it runs, on what; the
              \* action in progress, the devices still to process, the current
  known,      \* its libvirt.domains, loaded with its Topology object
  cpc,        \* where the check is
  todo,       \* devices it has not looked at
  states,     \* its device_states, "none" where it has no entry
  reach,      \* reachable_devices still to synchronise
  cdev,       \* the device it is at
  result      \* of a synchronisation, before it is written

domains   == <<dom, nso, console>>
statuses  == <<status, oper, topo, scheduled>>
actors    == <<pc, command, target, action, pend, cur, known>>
check     == <<cpc, todo, states, reach, cdev, result>>
vars      == <<domains, statuses, actors, check>>

Invocation == Actor \cup {Rebooter}

TypeOK ==
  /\ dom \in [Device -> {"absent", "shut", "booting", "up", "acpi"}]
  /\ nso \subseteq Device \ Unmanaged
  /\ console \subseteq Consoled
  /\ status \in [Device -> ProvisioningStatus]
  /\ oper \subseteq Device
  /\ topo \in ProvisioningStatus
  /\ scheduled \in BOOLEAN
  /\ pc \in [Invocation -> {"idle", "next", "status", "wait", "schedule"}]
  /\ command \in [Invocation -> Commands \cup {"none"}]
  /\ target \in [Invocation -> Device \cup {None}]
  /\ action \in [Invocation -> Actions \cup {"none"}]
  /\ pend \in [Invocation -> SUBSET Device]
  /\ cur \in [Invocation -> Device \cup {None}]
  /\ known \in [Invocation -> SUBSET Device]
  /\ cpc \in {"idle", "scan", "ping", "console", "reboot", "sync", "write"}
  /\ todo \subseteq Device
  /\ states \in [Device -> ProvisioningStatus \cup {"none"}]
  /\ reach \subseteq Device \ Unmanaged
  /\ cdev \in (Device \ Unmanaged) \cup {None}
  /\ result \in {"none", "ready", "sync-error"}

Running(d) == dom[d] \in {"booting", "up", "acpi"}

Existing == {d \in Device : dom[d] # "absent"}

Scope(t) == IF t = None THEN Device ELSE {t}

Idle == \A a \in Invocation : pc[a] = "idle"

Quiet == Idle /\ cpc = "idle"

Init ==
  /\ dom = [d \in Device |-> "absent"]
  /\ nso = {}
  /\ console = {}
  /\ status = [d \in Device |-> "undefined"]
  /\ oper = {}
  /\ topo = "undefined"
  /\ scheduled = FALSE
  /\ pc = [a \in Invocation |-> "idle"]
  /\ command = [a \in Invocation |-> "none"]
  /\ target = [a \in Invocation |-> None]
  /\ action = [a \in Invocation |-> "none"]
  /\ pend = [a \in Invocation |-> {}]
  /\ cur = [a \in Invocation |-> None]
  /\ known = [a \in Invocation |-> {}]
  /\ cpc = "idle"
  /\ todo = {}
  /\ states = [d \in Device |-> "none"]
  /\ reach = {}
  /\ cdev = None
  /\ result = "none"

------------------------------------------------------------------------------
(* LibvirtAction.cb_action.                                                 *)

\* A start or define of the whole topology, unless forced, is for a topology
\* that is defined or undefined; otherwise the call returns at once.
Admitted(c, t, force) ==
  (t = None /\ ~force) => /\ c = "start" => topo = "defined"
                          /\ c = "define" => topo = "undefined"

\* The command makes sense for every device it is given for.
Applies(c, t) ==
  \A d \in Scope(t) :
    CASE c = "define" -> dom[d] = "absent"
      [] c \in {"start", "undefine"} -> dom[d] = "shut"
      [] OTHER -> dom[d] # "absent"

\* run_action('stop') for the whole topology first takes the check off the
\* schedule.
Begin(a, c, t) ==
  /\ pc[a] = "idle"
  /\ pc' = [pc EXCEPT ![a] = "next"]
  /\ command' = [command EXCEPT ![a] = c]
  /\ target' = [target EXCEPT ![a] = t]
  /\ action' = [action EXCEPT ![a] = FirstAction(c)]
  /\ pend' = [pend EXCEPT ![a] = Scope(t)]
  /\ known' = [known EXCEPT ![a] = Existing]
  /\ scheduled' = IF FirstAction(c) = "shutdown" /\ t = None THEN FALSE
                                                             ELSE scheduled
  /\ UNCHANGED cur

OperatorCommand(a, c, t, force) ==
  /\ Serial => Quiet
  /\ Careful => Applies(c, t)
  /\ Admitted(c, t, force)
  /\ Begin(a, c, t)
  /\ UNCHANGED <<domains, status, oper, topo, check>>

\* The invocation returns.
Return(a) ==
  /\ pc' = [pc EXCEPT ![a] = "idle"]
  /\ command' = [command EXCEPT ![a] = "none"]
  /\ target' = [target EXCEPT ![a] = None]
  /\ action' = [action EXCEPT ![a] = "none"]
  /\ pend' = [pend EXCEPT ![a] = {}]
  /\ cur' = [cur EXCEPT ![a] = None]
  /\ known' = [known EXCEPT ![a] = {}]

\* The check ends; its TopologyStatus object is gone.
CheckEnds ==
  /\ cpc' = "idle"
  /\ todo' = {}
  /\ states' = [d \in Device |-> "none"]
  /\ reach' = {}
  /\ cdev' = None
  /\ result' = "none"

\* Mutant: destroying a domain leaves its console logger running.
Perform_LoggerLeft(d, act) ==
  CASE act = "create" ->
         /\ dom' = [dom EXCEPT ![d] = "booting"]
         /\ console' = console \cup ({d} \cap Consoled)
         /\ UNCHANGED nso
    [] act = "shutdown" ->
         /\ dom' = [dom EXCEPT ![d] = IF d \in Graceful THEN "acpi" ELSE @]
         /\ UNCHANGED <<nso, console>>
    [] act = "destroy" ->
         /\ dom' = [dom EXCEPT ![d] = "shut"]
         /\ UNCHANGED <<nso, console>>
    [] act = "undefine" ->
         /\ dom' = [dom EXCEPT ![d] = "absent"]
         /\ nso' = nso \ {d}
         /\ UNCHANGED console

\* DomainLibvirt._action on a domain it applies to: create and destroy start
\* and stop the console logger, undefine removes the device from NSO.
Perform(d, act) ==
  CASE act = "create" ->
         /\ dom' = [dom EXCEPT ![d] = "booting"]
         /\ console' = console \cup ({d} \cap Consoled)
         /\ UNCHANGED nso
    [] act = "shutdown" ->
         /\ dom' = [dom EXCEPT ![d] = IF d \in Graceful THEN "acpi" ELSE @]
         /\ UNCHANGED <<nso, console>>
    [] act = "destroy" ->
         /\ dom' = [dom EXCEPT ![d] = "shut"]
         /\ console' = console \ {d}
         /\ UNCHANGED nso
    [] act = "undefine" ->
         /\ dom' = [dom EXCEPT ![d] = "absent"]
         /\ nso' = nso \ {d}
         /\ UNCHANGED console

\* Domain.define: the domain is (re)defined and onboarded, whatever it does.
Define(d) ==
  /\ dom' = [dom EXCEPT ![d] = IF @ = "absent" THEN "shut" ELSE @]
  /\ nso' = nso \cup ({d} \ Unmanaged)
  /\ UNCHANGED console

ProcessDevice(a, d) ==
  /\ pc[a] = "next"
  /\ d \in pend[a]
  /\ CASE action[a] = "define" -> Define(d)
       [] action[a] # "define" /\ d \notin known[a] -> UNCHANGED domains
       [] action[a] # "define" /\ d \in known[a] ->
            /\ dom[d] # "absent"
            /\ IF ActionAllowed(Running(d), action[a])
               THEN Perform(d, action[a])
               ELSE UNCHANGED domains
  /\ pc' = [pc EXCEPT ![a] = "status"]
  /\ pend' = [pend EXCEPT ![a] = @ \ {d}]
  /\ cur' = [cur EXCEPT ![a] = d]
  /\ UNCHANGED <<statuses, command, target, action, known, check>>

\* Mutant: the lookup is tried again and again.
DomainVanished_Retried(a, d) ==
  /\ pc[a] = "next"
  /\ d \in pend[a] \cap known[a]
  /\ action[a] # "define"
  /\ dom[d] = "absent"
  /\ UNCHANGED vars

\* lookupByName raises for a domain that is cached but has been undefined
\* since; an exception in the check's own reboot ends the check too.
DomainVanished(a, d) ==
  /\ pc[a] = "next"
  /\ d \in pend[a] \cap known[a]
  /\ action[a] # "define"
  /\ dom[d] = "absent"
  /\ Return(a)
  /\ IF a = Rebooter THEN CheckEnds ELSE UNCHANGED check
  /\ UNCHANGED <<domains, statuses>>

\* update_device_status_after_action, whether or not anything was done.
WriteStatus(a) ==
  /\ pc[a] = "status"
  /\ LET d == cur[a]
         act == action[a]
     IN  /\ status' = [status EXCEPT ![d] =
                         DeviceStatusAfter(act, d \in Unmanaged)]
         /\ oper' = CASE act = "create" /\ d \in Unmanaged -> oper \cup {d}
                      [] act \in {"shutdown", "destroy", "undefine"} -> oper \ {d}
                      [] OTHER -> oper
  /\ pc' = [pc EXCEPT ![a] = "next"]
  /\ cur' = [cur EXCEPT ![a] = None]
  /\ UNCHANGED <<domains, topo, scheduled, command, target, action, pend,
                 known, check>>

\* After the shutdown of all devices, wait_for_shutdown.
ShutdownDone(a) ==
  /\ pc[a] = "next"
  /\ pend[a] = {}
  /\ action[a] = "shutdown"
  /\ pc' = [pc EXCEPT ![a] = "wait"]
  /\ UNCHANGED <<domains, statuses, command, target, action, pend, cur, known,
                 check>>

\* The wait ends when the domains are down, or after a minute.
WaitForShutdown(a) ==
  /\ pc[a] = "wait"
  /\ pc' = [pc EXCEPT ![a] = "next"]
  /\ action' = [action EXCEPT ![a] = "destroy"]
  /\ pend' = [pend EXCEPT ![a] = Scope(target[a])]
  /\ UNCHANGED <<domains, statuses, command, target, cur, known, check>>

\* Any other action ends by recording the status of the whole topology, also
\* when it was for one device; a hard reset then loads a new Topology.
ActionDone(a) ==
  /\ pc[a] = "next"
  /\ pend[a] = {}
  /\ action[a] # "shutdown"
  /\ topo' = ACTION_STATUS_MAP[action[a]]
  /\ LET following == NextAction(command[a], action[a])
     IN  CASE following # "none" ->
                /\ action' = [action EXCEPT ![a] = following]
                /\ pend' = [pend EXCEPT ![a] = Scope(target[a])]
                /\ known' = [known EXCEPT ![a] =
                     IF action[a] = "destroy" THEN @ ELSE Existing]
                /\ UNCHANGED <<pc, command, target, cur>>
           [] following = "none" /\ action[a] = "create" /\ target[a] = None ->
                /\ pc' = [pc EXCEPT ![a] = "schedule"]
                /\ UNCHANGED <<command, target, action, pend, cur, known>>
           [] following = "none" /\ ~(action[a] = "create" /\ target[a] = None) ->
                Return(a)
  /\ UNCHANGED <<domains, status, oper, scheduled, check>>

\* schedule_topology_ping, for a start of the whole topology.
Schedule(a) ==
  /\ pc[a] = "schedule"
  /\ scheduled' = TRUE
  /\ Return(a)
  /\ UNCHANGED <<domains, status, oper, topo, check>>

------------------------------------------------------------------------------
(* TopologyStatus.check.                                                    *)

\* Run by the scheduler, or by the operator, who may do so at any time.
StartCheck ==
  /\ cpc = "idle"
  /\ Serial => Idle
  /\ cpc' = "scan"
  /\ todo' = Device
  /\ UNCHANGED <<domains, statuses, actors, states, reach, cdev, result>>

\* Devices without a NED and devices that are ready are left alone.
SkipDevice(d) ==
  /\ cpc = "scan"
  /\ d \in todo
  /\ d \in Unmanaged \/ status[d] = "ready"
  /\ todo' = todo \ {d}
  /\ UNCHANGED <<domains, statuses, actors, cpc, states, reach, cdev, result>>

\* A locked device is taken for ready without a ping.
SkipLocked(d) ==
  /\ cpc = "scan"
  /\ d \in todo \cap nso \cap Locked
  /\ d \notin Unmanaged /\ status[d] # "ready"
  /\ todo' = todo \ {d}
  /\ status' = [status EXCEPT ![d] = "ready"]
  /\ states' = [states EXCEPT ![d] = "ready"]
  /\ UNCHANGED <<domains, oper, topo, scheduled, actors, cpc, reach, cdev,
                 result>>

\* A device that is not in NSO raises a KeyError, which ends the check.
DeviceMissing(d) ==
  /\ \/ cpc = "scan" /\ d \in todo /\ d \notin Unmanaged /\ status[d] # "ready"
     \/ cpc = "sync" /\ d \in reach
  /\ d \notin nso
  /\ CheckEnds
  /\ UNCHANGED <<domains, statuses, actors>>

PingDevice(d) ==
  /\ cpc = "scan"
  /\ d \in (todo \cap nso) \ Locked
  /\ d \notin Unmanaged /\ status[d] # "ready"
  /\ cpc' = "ping"
  /\ todo' = todo \ {d}
  /\ states' = [states EXCEPT ![d] = status[d]]
  /\ cdev' = d
  /\ UNCHANGED <<domains, statuses, actors, reach, result>>

PingAnswered ==
  /\ cpc = "ping"
  /\ dom[cdev] = "up"
  /\ cpc' = "scan"
  /\ oper' = oper \cup {cdev}
  /\ reach' = reach \cup {cdev}
  /\ cdev' = None
  /\ UNCHANGED <<domains, status, topo, scheduled, actors, todo, states, result>>

\* check_console_activity: a running console logger may have been silent for
\* longer than the timeout.
PingUnanswered ==
  /\ cpc = "ping"
  /\ dom[cdev] # "up"
  /\ oper' = oper \ {cdev}
  /\ \/ /\ cpc' = "scan"
        /\ cdev' = None
     \/ /\ cdev \in console
        /\ cpc' = "console"
        /\ UNCHANGED cdev
  /\ UNCHANGED <<domains, status, topo, scheduled, actors, todo, states, reach,
                 result>>

\* The reboot action is called from within the check.
ConsoleReboot ==
  /\ cpc = "console"
  /\ Begin(Rebooter, "reboot", cdev)
  /\ cpc' = "reboot"
  /\ UNCHANGED <<domains, status, oper, topo, todo, states, reach, cdev, result>>

RebootReturns ==
  /\ cpc = "reboot"
  /\ pc[Rebooter] = "idle"
  /\ cpc' = "scan"
  /\ cdev' = None
  /\ UNCHANGED <<domains, statuses, actors, todo, states, reach, result>>

ScanDone ==
  /\ cpc = "scan"
  /\ todo = {}
  /\ cpc' = "sync"
  /\ UNCHANGED <<domains, statuses, actors, todo, states, reach, cdev, result>>

\* sync_from, seconds after the ping ...
SyncFrom(d) ==
  /\ cpc = "sync"
  /\ d \in reach \cap nso
  /\ cpc' = "write"
  /\ cdev' = d
  /\ reach' = reach \ {d}
  /\ result' \in IF dom[d] # "up" THEN {"sync-error"}
                 ELSE IF SyncFails THEN {"ready", "sync-error"} ELSE {"ready"}
  /\ UNCHANGED <<domains, statuses, actors, todo, states>>

\* ... and its result in a transaction of its own.
WriteSync ==
  /\ cpc = "write"
  /\ status' = [status EXCEPT ![cdev] = result]
  /\ states' = [states EXCEPT ![cdev] = result]
  /\ cpc' = "sync"
  /\ cdev' = None
  /\ result' = "none"
  /\ UNCHANGED <<domains, oper, topo, scheduled, actors, todo, reach>>

Checked == {d \in Device : states[d] # "none"}

\* Mutant: one ready device is enough.
AllReady_Any == \E d \in Checked : states[d] = "ready"

AllReady == \A d \in Checked : states[d] = "ready"

Conclude ==
  /\ cpc = "sync"
  /\ reach = {}
  /\ topo' = CASE AllReady -> "ready"
               [] ~AllReady /\ \E d \in Checked : states[d] = "sync-error"
                    -> "sync-error"
               [] ~AllReady /\ \A d \in Checked : states[d] # "sync-error"
                    -> "started"
  /\ scheduled' = (scheduled /\ ~AllReady)
  /\ CheckEnds
  /\ UNCHANGED <<domains, status, oper, actors>>

------------------------------------------------------------------------------

\* A machine answers pings once it has booted.
Boot(d) ==
  /\ dom[d] = "booting"
  /\ dom' = [dom EXCEPT ![d] = "up"]
  /\ UNCHANGED <<nso, console, statuses, actors, check>>

\* The guest obeys the shutdown request.
PowerOff(d) ==
  /\ dom[d] = "acpi"
  /\ dom' = [dom EXCEPT ![d] = "shut"]
  /\ UNCHANGED <<nso, console, statuses, actors, check>>

Step(a) ==
  \/ \E d \in Device : ProcessDevice(a, d) \/ DomainVanished(a, d)
  \/ WriteStatus(a)
  \/ ShutdownDone(a)
  \/ WaitForShutdown(a)
  \/ ActionDone(a)
  \/ Schedule(a)

CheckStep ==
  \/ \E d \in Device :
       \/ SkipDevice(d)
       \/ SkipLocked(d)
       \/ DeviceMissing(d)
       \/ PingDevice(d)
       \/ SyncFrom(d)
  \/ PingAnswered
  \/ PingUnanswered
  \/ ConsoleReboot
  \/ RebootReturns
  \/ ScanDone
  \/ WriteSync
  \/ Conclude

Next ==
  \/ \E a \in Actor, c \in Command, t \in Target, force \in Forced :
       OperatorCommand(a, c, t, force)
  \/ \E a \in Invocation : Step(a)
  \/ StartCheck
  \/ CheckStep
  \/ \E d \in Device : Boot(d) \/ PowerOff(d)

Spec == Init /\ [][Next]_vars

\* Threads are scheduled, the scheduler runs its task although operations come
\* in between, machines boot.
Fairness ==
  /\ \A a \in Invocation : WF_vars(Step(a))
  /\ WF_vars(CheckStep)
  /\ SF_vars(scheduled /\ StartCheck)
  /\ \A d \in Device : WF_vars(Boot(d)) /\ WF_vars(PowerOff(d))

FairSpec == Spec /\ Fairness

------------------------------------------------------------------------------

\* When nothing is in progress, exactly the machines that run are recorded as
\* up; in particular no check has taken one that was stopped for ready.
StatusTruthful ==
  Quiet => \A d \in Device :
             Running(d) <=> status[d] \in {"started", "ready", "unmanaged",
                                           "sync-error"}

\* When nothing is in progress, a topology recorded as ready has all its
\* managed devices ready, whatever was done to single devices since.
ReadyTopology ==
  Quiet /\ topo = "ready" => \A d \in Device \ Unmanaged : status[d] = "ready"

\* "Run every 2 minutes until all devices are ready": a device that has been
\* started is not forgotten.
CheckedUntilReady ==
  Quiet /\ (\E d \in Device : status[d] \in {"started", "sync-error"}) =>
    scheduled

\* The check reboots a machine that hangs, never one that has been stopped.
NoResurrection ==
  [][cpc = "console" /\ cpc' = "reboot" => Running(cdev)]_vars

\* Every invocation returns, also when others remove its domains.
InvocationsReturn == \A a \in Invocation : pc[a] # "idle" ~> pc[a] = "idle"

\* A machine that runs while the check is scheduled becomes ready, unless it
\* stops first.
EventuallyReady ==
  \A d \in Device \ (Unmanaged \cup Locked) :
    Quiet /\ scheduled /\ Running(d) ~> status[d] = "ready" \/ ~Running(d)
==============================================================================
