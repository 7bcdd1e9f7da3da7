------------------------ MODULE TopologyLifecycleProofs -----------------------
(***************************************************************************)
(* Proofs about TopologyLifecycle, for every set of devices and            *)
(* invocations, and whatever their guests do.                              *)
(***************************************************************************)
EXTENDS TopologyLifecycle, TLAPS

\* The operator gives one command at a time, each where it applies.
OneAtATime == Serial /\ Careful

Active(a) == pc[a] # "idle"

\* The statuses of a device that runs.
Up == {"started", "ready", "unmanaged", "sync-error"}

\* The status of d says whether it runs, unless the check takes d for ready unseen,
\* and nothing is about to stop it.
Truth(d) ==
  /\ d \notin Locked => (Running(d) <=> status[d] \in Up)
  /\ dom[d] # "acpi"

\* Where a domain is before an action processes it, and afterwards.
Before(act) ==
  CASE act \in {"shutdown", "destroy"} -> {"shut", "booting", "up", "acpi"}
    [] act \in {"create", "undefine"}  -> {"shut"}
    [] act = "define"                  -> {"absent"}

After(act) ==
  CASE act = "shutdown"             -> {"shut", "booting", "up", "acpi"}
    [] act \in {"destroy", "define"} -> {"shut"}
    [] act = "create"               -> {"booting", "up"}
    [] act = "undefine"             -> {"absent"}

\* What is true of device d while invocation a is in progress: processed or
\* not, being processed, or not one of its devices.
DeviceInv(a, d) ==
  /\ d \notin Scope(target[a]) => Truth(d)
  /\ d \in pend[a] => dom[d] \in Before(action[a])
  /\ d = cur[a] => dom[d] \in After(action[a])
  /\ d \in Scope(target[a]) /\ d \notin pend[a] /\ d # cur[a] =>
       /\ dom[d] \in After(action[a])
       /\ status[d] = DeviceStatusAfter(action[a], d \in Unmanaged)

\* The domains an invocation looks up are those it has found.
KnownInv(a) ==
  /\ action[a] # "define" => pend[a] \subseteq known[a]
  /\ action[a] \in {"shutdown", "destroy"} => Scope(target[a]) \subseteq known[a]

\* Where an invocation can be in its loops.
ControlInv(a) ==
  /\ Active(a) => command[a] \in Commands /\ action[a] \in Actions
  /\ pend[a] \subseteq Scope(target[a])
  /\ IF pc[a] = "status" THEN cur[a] \in Scope(target[a]) \ pend[a] ELSE cur[a] = None
  /\ pc[a] = "wait" => action[a] = "shutdown"
  /\ pc[a] = "schedule" => action[a] = "create"
  /\ pc[a] \in {"wait", "schedule"} => pend[a] = {}

\* Where the check can be.
CheckControl ==
  /\ IF cpc \in {"ping", "console", "reboot", "write"} THEN cdev # None ELSE cdev = None
  /\ cpc = "write" => result # "none"

\* What holds also when invocations overlap.
TypeInv == TypeOK /\ CheckControl /\ \A a \in Invocation : ControlInv(a)

\* Invocations, and the check, keep out of each other's way; the check waits
\* for its own invocation.
AloneInv ==
  /\ \A a, b \in Invocation : Active(a) /\ Active(b) => a = b
  /\ \A a \in Actor : Active(a) => cpc = "idle"
  /\ Active(Rebooter) => cpc = "reboot" /\ target[Rebooter] = cdev

InvocationInv ==
  \A a \in Invocation : Active(a) =>
    KnownInv(a) /\ \A d \in Device : DeviceInv(a, d)

\* The devices that are defined are exactly those in NSO.
OnboardedInv == nso = Existing \ Unmanaged

\* Between commands the statuses are true, and so is a topology recorded as
\* ready.
RestInv ==
  /\ \A a \in Invocation : pc[a] = "schedule" => topo # "ready"
  /\ Idle => /\ \A d \in Device : Truth(d)
             /\ topo = "ready" => \A d \in Device \ Unmanaged : status[d] = "ready"

\* What the check has noted of the devices: the one it is at, those that have
\* answered, those it has seen.
AtInv ==
  /\ cpc \in {"ping", "console", "reboot", "write"} =>
       cdev \notin todo \cup reach /\ states[cdev] # "none"
  /\ cpc \in {"ping", "console"} => cdev \in nso
  /\ cpc \in {"ping", "console", "write"} => status[cdev] # "ready"
  /\ cpc \in {"ping", "console", "reboot"} => states[cdev] # "ready"
  /\ cpc = "console" => cdev \in console
  /\ cpc = "write" => dom[cdev] = "up"

ReachInv ==
  \A d \in reach : dom[d] = "up" /\ status[d] # "ready" /\ d \notin todo /\ states[d] # "none"

SeenInv ==
  /\ \A d \in Device : states[d] = "ready" => status[d] = "ready"
  /\ cpc # "idle" => \A d \in Device \ Unmanaged :
                       d \in todo \/ status[d] = "ready" \/ states[d] # "none"
  /\ cpc \in {"sync", "write"} => todo = {}
  /\ cpc = "idle" => reach = {} /\ \A d \in Device : states[d] = "none"

CheckInv == AtInv /\ ReachInv /\ SeenInv

\* The inductive invariant.
SerialInv == AloneInv /\ InvocationInv /\ OnboardedInv /\ RestInv /\ CheckInv

IInv == TypeInv /\ SerialInv

\* If no guest with a console monitor obeys shutdown requests, a logger only
\* runs on a machine that does.
LoggerInv ==
  /\ \A d \in Device : dom[d] = "acpi" => d \in Graceful
  /\ \A d \in console : Running(d)

------------------------------------------------------------------------------
(* Tables.                                                                   *)

LEMMA ActionsFollow ==
  /\ \A c \in Commands : FirstAction(c) \in Actions \ {"destroy"}
  /\ \A c, act : NextAction(c, act) \in Actions \cup {"none"}
  /\ \A act \in Actions : \A u : DeviceStatusAfter(act, u) \in ProvisioningStatus
BY DEF Commands, FirstAction, NextAction, Actions, DeviceStatusAfter,
       ACTION_STATUS_MAP, ProvisioningStatus

LEMMA ScopeType ==
  ASSUME NEW t \in Device \cup {None}
  PROVE  Scope(t) \subseteq Device
BY DEF Scope

------------------------------------------------------------------------------
(* Types.                                                                   *)

LEMMA BeginType ==
  ASSUME TypeInv, NEW a \in Invocation, NEW c \in Commands,
         NEW t \in Device \cup {None}, Begin(a, c, t),
         UNCHANGED <<domains, status, oper, topo, todo, states, reach, cdev, result>>,
         UNCHANGED cpc \/ (cpc = "console" /\ cpc' = "reboot")
  PROVE  TypeInv'
<1>1. FirstAction(c) \in Actions
  BY ActionsFollow
<1>2. Scope(t) \subseteq Device
  BY ScopeType
<1>3. Existing \subseteq Device
  BY DEF Existing
<1>4. TypeOK'
  BY <1>1, <1>2, <1>3 DEF TypeInv, TypeOK, Begin, domains
<1>5. \A b \in Invocation : ControlInv(b)'
  BY <1>1 DEF TypeInv, TypeOK, Begin, ControlInv, Active
<1>6. CheckControl'
  BY DEF TypeInv, CheckControl
<1> QED BY <1>4, <1>5, <1>6 DEF TypeInv

LEMMA ReturnType ==
  ASSUME TypeInv, NEW a \in Invocation, Return(a)
  PROVE  \A b \in Invocation : ControlInv(b)'
BY DEF TypeInv, TypeOK, Return, ControlInv, Active

LEMMA CheckEndsType ==
  ASSUME TypeInv, CheckEnds
  PROVE  CheckControl'
BY DEF CheckEnds, CheckControl

\* The steps of one invocation.
LEMMA StepType ==
  ASSUME TypeInv, NEW a \in Invocation, Step(a)
  PROVE  TypeInv'
<1> USE TopologyLifecycleAssumption
<1>1. ASSUME NEW d \in Device, ProcessDevice(a, d)
      PROVE  TypeInv'
  <2>1. Active(a) /\ action[a] \in Actions /\ d \in Scope(target[a])
    BY <1>1 DEF ProcessDevice, Active, TypeInv, ControlInv
  <2>2. /\ dom' \in [Device -> {"absent", "shut", "booting", "up", "acpi"}]
        /\ nso' \subseteq Device \ Unmanaged
        /\ console' \subseteq Consoled
    <3>1. CASE Define(d)
      BY <3>1 DEF Define, TypeInv, TypeOK
    <3>2. CASE UNCHANGED domains
      BY <3>2 DEF domains, TypeInv, TypeOK
    <3>3. CASE action[a] # "define" /\ Perform(d, action[a])
      <4>1. CASE action[a] = "create"
        BY <3>3, <4>1 DEF Perform, TypeInv, TypeOK
      <4>2. CASE action[a] = "shutdown"
        BY <3>3, <4>2 DEF Perform, TypeInv, TypeOK
      <4>3. CASE action[a] \in {"destroy", "undefine"}
        BY <3>3, <4>3 DEF Perform, TypeInv, TypeOK
      <4> QED BY <2>1, <3>3, <4>1, <4>2, <4>3 DEF Actions
    <3> QED BY <1>1, <3>1, <3>2, <3>3 DEF ProcessDevice
  <2>3. TypeOK'
    BY <1>1, <2>2 DEF ProcessDevice, TypeInv, TypeOK, statuses, check
  <2>4. \A b \in Invocation : ControlInv(b)'
    BY <1>1, <2>1 DEF ProcessDevice, TypeInv, TypeOK, ControlInv, Active
  <2>5. CheckControl'
    BY <1>1 DEF ProcessDevice, TypeInv, CheckControl, check
  <2> QED BY <2>3, <2>4, <2>5 DEF TypeInv
<1>2. ASSUME NEW d \in Device, DomainVanished(a, d)
      PROVE  TypeInv'
  <2>1. TypeOK'
    BY <1>2 DEF DomainVanished, Return, CheckEnds, TypeInv, TypeOK, domains, statuses, check
  <2>2. CheckControl'
    BY <1>2, CheckEndsType DEF DomainVanished, TypeInv, CheckControl, check
  <2> QED BY <1>2, <2>1, <2>2, ReturnType DEF DomainVanished, TypeInv
<1>3. CASE WriteStatus(a)
  <2>1. cur[a] \in Device /\ action[a] \in Actions
    BY <1>3, ScopeType DEF WriteStatus, TypeInv, TypeOK, ControlInv, Active
  <2>2. DeviceStatusAfter(action[a], cur[a] \in Unmanaged) \in ProvisioningStatus
    BY <2>1, ActionsFollow
  <2>3. TypeOK'
    BY <1>3, <2>1, <2>2 DEF WriteStatus, TypeInv, TypeOK, domains, check
  <2>4. \A b \in Invocation : ControlInv(b)'
    BY <1>3 DEF WriteStatus, TypeInv, TypeOK, ControlInv, Active
  <2>5. CheckControl'
    BY <1>3 DEF WriteStatus, TypeInv, CheckControl, check
  <2> QED BY <2>3, <2>4, <2>5 DEF TypeInv
<1>4. CASE ShutdownDone(a) \/ WaitForShutdown(a)
  <2>1. Scope(target[a]) \subseteq Device
    BY ScopeType DEF TypeInv, TypeOK
  <2>2. TypeOK'
    BY <1>4, <2>1 DEF ShutdownDone, WaitForShutdown, TypeInv, TypeOK, domains, statuses,
                      check, Actions
  <2>3. \A b \in Invocation : ControlInv(b)'
    BY <1>4 DEF ShutdownDone, WaitForShutdown, TypeInv, TypeOK, ControlInv, Active, Actions
  <2>4. CheckControl'
    BY <1>4 DEF ShutdownDone, WaitForShutdown, TypeInv, CheckControl, check
  <2> QED BY <2>2, <2>3, <2>4 DEF TypeInv
<1>5. CASE ActionDone(a)
  <2> DEFINE following == NextAction(command[a], action[a])
  <2>1. /\ Scope(target[a]) \subseteq Device /\ Existing \subseteq Device
        /\ following \in Actions \cup {"none"}
        /\ Active(a) /\ action[a] \in Actions
    BY <1>5, ScopeType, ActionsFollow DEF TypeInv, TypeOK, Existing, ActionDone, Active, ControlInv
  <2>2. topo' \in ProvisioningStatus
    BY <1>5, <2>1 DEF ActionDone, Actions, ACTION_STATUS_MAP, ProvisioningStatus
  <2>3. CASE following # "none"
    <3> DEFINE k == IF action[a] = "destroy" THEN known[a] ELSE Existing
    <3>0. /\ action' = [action EXCEPT ![a] = following]
          /\ pend' = [pend EXCEPT ![a] = Scope(target[a])]
          /\ known' = [known EXCEPT ![a] = k]
          /\ UNCHANGED <<pc, command, target, cur>>
      BY <1>5, <2>3 DEF ActionDone
    <3>1. TypeOK'
      <4>1. k \subseteq Device
        BY <2>1 DEF TypeInv, TypeOK
      <4> HIDE DEF k, following
      <4> QED BY <1>5, <2>1, <2>2, <2>3, <3>0, <4>1
              DEF ActionDone, TypeInv, TypeOK, domains, check
    <3>2. \A b \in Invocation : ControlInv(b)'
      <4>1. action[a] # "shutdown" /\ pc[a] = "next"
        BY <1>5 DEF ActionDone
      <4> HIDE DEF following
      <4> QED BY <2>1, <2>3, <3>0, <4>1 DEF TypeInv, TypeOK, ControlInv, Active
    <3> QED BY <1>5, <3>1, <3>2 DEF ActionDone, TypeInv, CheckControl, check
  <2>4. CASE following = "none" /\ action[a] = "create" /\ target[a] = None
    <3>1. TypeOK'
      BY <1>5, <2>2, <2>4 DEF ActionDone, TypeInv, TypeOK, domains, check
    <3>2. \A b \in Invocation : ControlInv(b)'
      BY <1>5, <2>4 DEF ActionDone, TypeInv, TypeOK, ControlInv, Active
    <3> QED BY <1>5, <3>1, <3>2 DEF ActionDone, TypeInv, CheckControl, check
  <2>5. CASE following = "none" /\ ~(action[a] = "create" /\ target[a] = None)
    <3>1. Return(a)
      BY <1>5, <2>5 DEF ActionDone
    <3>2. TypeOK'
      BY <1>5, <2>2, <3>1 DEF ActionDone, Return, TypeInv, TypeOK, domains, check
    <3> QED BY <1>5, <3>1, <3>2, ReturnType DEF ActionDone, TypeInv, CheckControl, check
  <2> QED BY <2>3, <2>4, <2>5
<1>6. CASE Schedule(a)
  <2>1. TypeOK'
    BY <1>6 DEF Schedule, Return, TypeInv, TypeOK, domains, check
  <2> QED BY <1>6, <2>1, ReturnType DEF Schedule, TypeInv, CheckControl, check
<1> QED BY <1>1, <1>2, <1>3, <1>4, <1>5, <1>6 DEF Step

\* The steps of the check and of the machines.
LEMMA CheckType ==
  ASSUME TypeInv, CheckStep \/ StartCheck \/ \E d \in Device : Boot(d) \/ PowerOff(d)
  PROVE  TypeInv'
<1> USE TopologyLifecycleAssumption DEF domains, statuses, actors, check
<1>1. CASE ConsoleReboot
  <2>1. cdev \in Device /\ Rebooter \in Invocation /\ "reboot" \in Commands
    BY <1>1 DEF ConsoleReboot, TypeInv, TypeOK, CheckControl, Invocation, Commands
  <2> QED BY <1>1, <2>1, BeginType DEF ConsoleReboot
<1>2. CASE \/ \E d \in Device : SkipDevice(d) \/ SkipLocked(d) \/ DeviceMissing(d)
                                \/ PingDevice(d) \/ SyncFrom(d)
           \/ PingAnswered \/ PingUnanswered \/ RebootReturns \/ ScanDone
           \/ WriteSync \/ Conclude \/ StartCheck
           \/ \E d \in Device : Boot(d) \/ PowerOff(d)
  <2>1. UNCHANGED actors
    BY <1>2 DEF SkipDevice, SkipLocked, DeviceMissing, PingDevice, SyncFrom, PingAnswered,
       PingUnanswered, RebootReturns, ScanDone, WriteSync, Conclude, StartCheck, Boot, PowerOff
  <2>2. \A b \in Invocation : ControlInv(b)'
    BY <2>1 DEF TypeInv, ControlInv, Active
  <2>3. ASSUME NEW d \in Device, SkipDevice(d) \/ SkipLocked(d) \/ DeviceMissing(d)
                                 \/ PingDevice(d) \/ SyncFrom(d)
        PROVE  TypeOK' /\ CheckControl'
    BY <2>3 DEF SkipDevice, SkipLocked, DeviceMissing, PingDevice, SyncFrom, CheckEnds,
       TypeInv, TypeOK, CheckControl, ProvisioningStatus
  <2>4. CASE PingAnswered \/ PingUnanswered
    BY <2>2, <2>4 DEF PingAnswered, PingUnanswered, TypeInv, TypeOK, CheckControl
  <2>5. CASE RebootReturns \/ ScanDone \/ WriteSync \/ StartCheck
    BY <2>2, <2>5 DEF RebootReturns, ScanDone, WriteSync, StartCheck, TypeInv, TypeOK,
       CheckControl, ProvisioningStatus
  <2>6. CASE Conclude
    <3>1. topo' \in ProvisioningStatus /\ scheduled' \in BOOLEAN
      BY <2>6 DEF Conclude, ProvisioningStatus, AllReady, TypeInv, TypeOK
    <3>2. TypeOK'
      BY <2>6, <3>1 DEF Conclude, CheckEnds, TypeInv, TypeOK
    <3> QED BY <2>2, <2>6, <3>2, CheckEndsType DEF Conclude, TypeInv
  <2>7. ASSUME NEW d \in Device, Boot(d) \/ PowerOff(d)
        PROVE  TypeOK' /\ CheckControl'
    BY <2>7 DEF Boot, PowerOff, TypeInv, TypeOK, CheckControl
  <2> QED BY <1>2, <2>2, <2>3, <2>4, <2>5, <2>6, <2>7 DEF TypeInv
<1> QED BY <1>1, <1>2 DEF CheckStep

LEMMA TypeInit == Init => TypeInv
<1> SUFFICES ASSUME Init PROVE TypeInv
  OBVIOUS
<1>1. TypeOK
  BY DEF Init, TypeOK, ProvisioningStatus
<1>2. \A a \in Invocation : ControlInv(a)
  BY DEF Init, ControlInv, Active
<1>3. CheckControl
  BY DEF Init, CheckControl
<1> QED BY <1>1, <1>2, <1>3 DEF TypeInv

LEMMA TypeStep == TypeInv /\ [Next]_vars => TypeInv'
<1> SUFFICES ASSUME TypeInv, [Next]_vars PROVE TypeInv'
  OBVIOUS
<1>1. ASSUME NEW a \in Actor, NEW c \in Command, NEW t \in Target, NEW force \in Forced,
             OperatorCommand(a, c, t, force)
      PROVE  TypeInv'
  <2>1. a \in Invocation /\ c \in Commands /\ t \in Device \cup {None}
    BY TopologyLifecycleAssumption DEF Invocation
  <2> QED BY <1>1, <2>1, BeginType DEF OperatorCommand, check, domains
<1>2. CASE UNCHANGED vars
  BY <1>2 DEF vars, domains, statuses, actors, check, TypeInv, TypeOK, CheckControl,
              ControlInv, Active
<1> QED BY <1>1, <1>2, StepType, CheckType DEF Next

\* Every variable has its type, also when invocations and the check overlap.
THEOREM TypeCorrect == Spec => []TypeOK
<1>1. TypeInv => TypeOK
  BY DEF TypeInv
<1> QED BY <1>1, TypeInit, TypeStep, PTL DEF Spec

------------------------------------------------------------------------------
(* One command at a time.                                                    *)

\* A command that applies finds the domains where its first action needs them.
LEMMA AppliesBefore ==
  ASSUME TypeInv, NEW c \in Commands, NEW t \in Device \cup {None}, Applies(c, t)
  PROVE  /\ \A d \in Scope(t) : dom[d] \in Before(FirstAction(c))
         /\ FirstAction(c) # "define" => Scope(t) \subseteq Existing
<1>1. Scope(t) \subseteq Device
  BY ScopeType
<1>2. ASSUME NEW d \in Scope(t)
      PROVE  /\ dom[d] \in Before(FirstAction(c))
             /\ FirstAction(c) # "define" => dom[d] # "absent"
  <2>1. dom[d] \in {"absent", "shut", "booting", "up", "acpi"}
    BY <1>1 DEF TypeInv, TypeOK
  <2>2. CASE c = "define"
    BY <2>1, <2>2 DEF Applies, FirstAction, Before
  <2>3. CASE c \in {"start", "undefine"}
    BY <2>1, <2>3 DEF Applies, FirstAction, Before
  <2>4. CASE c \in {"stop", "reboot", "hard-reset"}
    BY <2>1, <2>4 DEF Applies, FirstAction, Before
  <2> QED BY <2>2, <2>3, <2>4 DEF Commands
<1> QED BY <1>1, <1>2 DEF Existing

\* What an action leaves of a domain is what the next action of its command
\* needs.
LEMMA AfterBefore ==
  ASSUME NEW c \in Commands, NEW act \in Actions, act # "shutdown",
         NextAction(c, act) # "none"
  PROVE  After(act) \subseteq Before(NextAction(c, act))
BY DEF NextAction, After, Before, Actions

\* The status an action other than shutdown leaves behind tells the truth.
LEMMA AfterTruth ==
  ASSUME NEW act \in Actions \ {"shutdown"}, NEW d \in Device,
         dom[d] \in After(act), status[d] = DeviceStatusAfter(act, d \in Unmanaged)
  PROVE  Truth(d) /\ status[d] # "ready"
BY DEF After, Truth, DeviceStatusAfter, ACTION_STATUS_MAP, Running, Up, Actions

\* An invocation begins when no other is in progress.
LEMMA BeginStep ==
  ASSUME IInv, Idle, NEW a \in Invocation, NEW c \in Commands,
         NEW t \in Device \cup {None}, Begin(a, c, t),
         \A d \in Scope(t) : dom[d] \in Before(FirstAction(c)),
         FirstAction(c) # "define" => Scope(t) \subseteq Existing,
         UNCHANGED <<domains, status, topo, todo, states, reach, cdev, result>>,
         \/ a \in Actor /\ cpc = "idle" /\ UNCHANGED cpc
         \/ a = Rebooter /\ t = cdev /\ cpc = "console" /\ cpc' = "reboot"
  PROVE  SerialInv'
<1> USE TopologyLifecycleAssumption
<1>1. AloneInv'
  BY DEF IInv, TypeInv, TypeOK, SerialInv, AloneInv, Begin, Idle, Active, Invocation
<1>2. InvocationInv'
  <2>1. KnownInv(a)'
    BY DEF IInv, TypeInv, TypeOK, Begin, KnownInv, Existing
  <2>2. ASSUME NEW d \in Device PROVE DeviceInv(a, d)'
    <3>1. Truth(d)'
      BY DEF IInv, SerialInv, RestInv, Truth, Running, domains
    <3>2. /\ target'[a] = t /\ pend'[a] = Scope(t) /\ action'[a] = FirstAction(c)
          /\ cur'[a] = None
      BY DEF IInv, TypeInv, TypeOK, ControlInv, Begin
    <3> QED BY <3>1, <3>2 DEF DeviceInv, domains
  <2>3. \A b \in Invocation : Active(b)' => b = a
    BY DEF Begin, Idle, Active, IInv, TypeInv, TypeOK
  <2> QED BY <2>1, <2>2, <2>3 DEF InvocationInv
<1>3. OnboardedInv'
  BY DEF IInv, SerialInv, OnboardedInv, Existing, domains
<1>4. RestInv'
  BY DEF Begin, Idle, RestInv, IInv, TypeInv, TypeOK, SerialInv
<1>5. CheckInv'
  BY DEF IInv, SerialInv, CheckInv, AtInv, ReachInv, SeenInv, domains
<1> QED BY <1>1, <1>2, <1>3, <1>4, <1>5 DEF SerialInv

\* What one invocation does to its devices does not concern the check.
LEMMA CheckFrame ==
  ASSUME IInv, NEW a \in Invocation, Active(a), UNCHANGED check,
         \A d \in Device \ Scope(target[a]) : dom'[d] = dom[d] /\ status'[d] = status[d]
  PROVE  CheckInv'
<1>1. CASE a \in Actor
  BY <1>1 DEF IInv, TypeInv, TypeOK, SerialInv, AloneInv, CheckInv, AtInv, ReachInv, SeenInv,
              check
<1>2. CASE a = Rebooter
  <2>1. cpc = "reboot" /\ target[a] = cdev /\ cdev # None
    BY <1>2 DEF IInv, SerialInv, AloneInv, TypeInv, CheckControl
  <2>2. Scope(target[a]) = {cdev}
    BY <2>1 DEF Scope
  <2>3. reach \subseteq Device
    BY DEF IInv, TypeInv, TypeOK
  <2>4. cdev \notin reach /\ states[cdev] # "none" /\ states[cdev] # "ready"
    BY <2>1 DEF IInv, SerialInv, CheckInv, AtInv
  <2>5. AtInv'
    BY <2>1 DEF IInv, SerialInv, CheckInv, AtInv, check
  <2>6. ReachInv'
    BY <2>2, <2>3, <2>4 DEF IInv, SerialInv, CheckInv, ReachInv, check
  <2>7. SeenInv'
    BY <2>1, <2>2, <2>4 DEF IInv, SerialInv, CheckInv, SeenInv, check
  <2> QED BY <2>5, <2>6, <2>7 DEF CheckInv
<1> QED BY <1>1, <1>2 DEF Invocation

\* An invocation that goes on is still the only one.
LEMMA WorkFrame ==
  ASSUME IInv, NEW a \in Invocation, Active(a), NEW p \in {"next", "status", "wait", "schedule"},
         pc' = [pc EXCEPT ![a] = p], p = "schedule" => topo' # "ready",
         UNCHANGED <<target, check>>
  PROVE  AloneInv' /\ RestInv' /\ \A b \in Invocation : Active(b)' => b = a
<1>1. \A b \in Invocation : Active(b)' => b = a
  BY DEF IInv, TypeInv, TypeOK, SerialInv, AloneInv, Active
<1>2. AloneInv'
  BY <1>1 DEF IInv, TypeInv, TypeOK, SerialInv, AloneInv, Active, check, Invocation
<1>3. pc'[a] = p
  BY DEF IInv, TypeInv, TypeOK
<1>4. RestInv'
  BY <1>1, <1>3 DEF RestInv, Active, Idle
<1> QED BY <1>1, <1>2, <1>4

\* When an invocation returns, its devices are as its last action left them,
\* the others as they were.
LEMMA ReturnStep ==
  ASSUME IInv, NEW a \in Invocation, Active(a), Return(a),
         action[a] # "shutdown", pend[a] = {}, cur[a] = None, topo' # "ready",
         UNCHANGED <<domains, status, check>>
  PROVE  SerialInv'
<1> USE TopologyLifecycleAssumption
<1>1. action[a] \in Actions \ {"shutdown"}
  BY DEF IInv, TypeInv, ControlInv
<1>2. \A b \in Invocation : ~Active(b)'
  BY DEF IInv, TypeInv, TypeOK, SerialInv, AloneInv, Active, Return
<1>3. ASSUME NEW d \in Device PROVE Truth(d)
  <2>1. DeviceInv(a, d)
    BY DEF IInv, SerialInv, InvocationInv
  <2> QED BY <1>1, <2>1, AfterTruth DEF DeviceInv
<1>4. AloneInv' /\ InvocationInv'
  <2>1. Rebooter \in Invocation /\ Actor \subseteq Invocation
    BY DEF Invocation
  <2> QED BY <1>2, <2>1 DEF AloneInv, InvocationInv
<1>5. OnboardedInv'
  BY DEF IInv, SerialInv, OnboardedInv, Existing, domains
<1>6. RestInv'
  BY <1>2, <1>3 DEF RestInv, Active, Truth, Running, domains
<1>7. CheckInv'
  BY CheckFrame DEF domains
<1> QED BY <1>4, <1>5, <1>6, <1>7 DEF SerialInv

\* The domain an invocation processes goes where the action takes it.
LEMMA ProcessDeviceStep ==
  ASSUME IInv, NEW a \in Invocation, NEW d \in Device, ProcessDevice(a, d)
  PROVE  SerialInv'
<1> USE TopologyLifecycleAssumption
<1>1. Active(a) /\ action[a] \in Actions /\ d \in pend[a] /\ d \in Scope(target[a])
  BY DEF ProcessDevice, Active, IInv, TypeInv, ControlInv
<1>2. KnownInv(a) /\ \A e \in Device : DeviceInv(a, e)
  BY <1>1 DEF IInv, SerialInv, InvocationInv
<1>3. dom[d] \in Before(action[a])
  BY <1>1, <1>2 DEF DeviceInv
<1>4. /\ \A e \in Device \ {d} : dom'[e] = dom[e]
      /\ dom'[d] \in After(action[a])
      /\ nso' = {e \in Device : dom'[e] # "absent"} \ Unmanaged
  <2>1. nso = {e \in Device : dom[e] # "absent"} \ Unmanaged
    BY DEF IInv, SerialInv, OnboardedInv, Existing
  <2>2. CASE action[a] = "define"
    <3>1. Define(d) /\ dom[d] = "absent"
      BY <1>3, <2>2 DEF ProcessDevice, Before
    <3> QED BY <2>1, <2>2, <3>1 DEF Define, After, IInv, TypeInv, TypeOK
  <2>3. CASE action[a] # "define"
    <3>1. d \in known[a]
      BY <1>1, <1>2, <2>3 DEF KnownInv
    <3>2. IF ActionAllowed(Running(d), action[a]) THEN Perform(d, action[a])
                                                  ELSE UNCHANGED domains
      BY <2>3, <3>1 DEF ProcessDevice
    <3>3. CASE action[a] = "create"
      BY <1>3, <2>1, <3>2, <3>3
         DEF ActionAllowed, Running, Before, After, Perform, IInv, TypeInv, TypeOK
    <3>4. CASE action[a] = "shutdown"
      BY <1>3, <2>1, <3>2, <3>4
         DEF ActionAllowed, Running, Before, After, Perform, IInv, TypeInv, TypeOK, domains
    <3>5. CASE action[a] = "destroy"
      BY <1>3, <2>1, <3>2, <3>5
         DEF ActionAllowed, Running, Before, After, Perform, IInv, TypeInv, TypeOK, domains
    <3>6. CASE action[a] = "undefine"
      BY <1>3, <2>1, <3>2, <3>6
         DEF ActionAllowed, Running, Before, After, Perform, IInv, TypeInv, TypeOK
    <3> QED BY <1>1, <2>3, <3>3, <3>4, <3>5, <3>6 DEF Actions
  <2> QED BY <2>2, <2>3
<1>5. /\ pc' = [pc EXCEPT ![a] = "status"]
      /\ pend' = [pend EXCEPT ![a] = @ \ {d}] /\ cur' = [cur EXCEPT ![a] = d]
      /\ UNCHANGED <<statuses, command, target, action, known, check>>
  BY DEF ProcessDevice
<1>6. AloneInv' /\ RestInv' /\ \A b \in Invocation : Active(b)' => b = a
  BY <1>1, <1>5, WorkFrame
<1>7. InvocationInv'
  <2>1. KnownInv(a)'
    BY <1>2, <1>5 DEF KnownInv, IInv, TypeInv, TypeOK
  <2>2. ASSUME NEW e \in Device PROVE DeviceInv(a, e)'
    <3>1. /\ pend'[a] = pend[a] \ {d} /\ cur'[a] = d /\ cur[a] = None
          /\ target'[a] = target[a] /\ action'[a] = action[a]
      BY <1>5 DEF ProcessDevice, IInv, TypeInv, TypeOK, ControlInv
    <3>2. CASE e = d
      BY <1>1, <1>4, <3>1, <3>2 DEF DeviceInv
    <3>3. CASE e # d
      BY <1>2, <1>4, <1>5, <3>1, <3>3 DEF DeviceInv, Truth, Running, statuses
    <3> QED BY <3>2, <3>3
  <2> QED BY <1>6, <2>1, <2>2 DEF InvocationInv
<1>8. OnboardedInv'
  BY <1>4 DEF OnboardedInv, Existing
<1>9. CheckInv'
  BY <1>1, <1>4, <1>5, CheckFrame DEF statuses
<1> QED BY <1>6, <1>7, <1>8, <1>9 DEF SerialInv

\* The domains an invocation has found are there.
LEMMA NotVanished ==
  ASSUME IInv, NEW a \in Invocation, NEW d \in Device
  PROVE  ~DomainVanished(a, d)
<1> SUFFICES ASSUME DomainVanished(a, d) PROVE FALSE
  OBVIOUS
<1>1. Active(a) /\ action[a] \in Actions /\ d \in pend[a] /\ action[a] # "define"
  BY DEF DomainVanished, Active, IInv, TypeInv, ControlInv
<1>2. dom[d] \in Before(action[a])
  BY <1>1 DEF IInv, SerialInv, InvocationInv, DeviceInv
<1>3. "absent" \notin Before(action[a])
  BY <1>1 DEF Before, Actions
<1> QED BY <1>2, <1>3 DEF DomainVanished

\* The status written is the one the action leaves behind.
LEMMA WriteStatusStep ==
  ASSUME IInv, NEW a \in Invocation, WriteStatus(a)
  PROVE  SerialInv'
<1> USE TopologyLifecycleAssumption
<1>1. /\ Active(a) /\ cur[a] \in Scope(target[a]) /\ cur[a] \notin pend[a]
      /\ cur[a] \in Device
  BY ScopeType DEF WriteStatus, Active, IInv, TypeInv, TypeOK, ControlInv
<1>2. KnownInv(a) /\ \A e \in Device : DeviceInv(a, e)
  BY <1>1 DEF IInv, SerialInv, InvocationInv
<1>3. /\ pc' = [pc EXCEPT ![a] = "next"] /\ cur' = [cur EXCEPT ![a] = None]
      /\ status' = [status EXCEPT ![cur[a]] = DeviceStatusAfter(action[a], cur[a] \in Unmanaged)]
      /\ UNCHANGED <<domains, topo, target, action, pend, known, check>>
  BY DEF WriteStatus
<1>4. AloneInv' /\ RestInv' /\ \A b \in Invocation : Active(b)' => b = a
  BY <1>1, <1>3, WorkFrame
<1>5. \A e \in Device \ {cur[a]} : status'[e] = status[e]
  BY <1>3 DEF IInv, TypeInv, TypeOK
<1>6. status'[cur[a]] = DeviceStatusAfter(action[a], cur[a] \in Unmanaged)
  BY <1>1, <1>3 DEF IInv, TypeInv, TypeOK
<1>7. InvocationInv'
  <2>1. KnownInv(a)'
    BY <1>2, <1>3 DEF KnownInv
  <2>2. ASSUME NEW e \in Device PROVE DeviceInv(a, e)'
    <3>1. cur'[a] = None /\ e # None
      BY <1>3 DEF IInv, TypeInv, TypeOK
    <3>2. CASE e = cur[a]
      BY <1>1, <1>2, <1>3, <1>6, <3>1, <3>2 DEF DeviceInv, domains
    <3>3. CASE e # cur[a]
      BY <1>2, <1>3, <1>5, <3>1, <3>3 DEF DeviceInv, Truth, Running, domains
    <3> QED BY <3>2, <3>3
  <2> QED BY <1>4, <2>1, <2>2 DEF InvocationInv
<1>8. OnboardedInv'
  BY <1>3 DEF IInv, SerialInv, OnboardedInv, Existing, domains
<1>9. CheckInv'
  BY <1>1, <1>3, <1>5, CheckFrame DEF domains
<1> QED BY <1>4, <1>7, <1>8, <1>9 DEF SerialInv

\* An invocation whose devices are all processed goes on to wait, to its next
\* action, or to schedule the check, with the domains as it left them.
LEMMA NextActionStep ==
  ASSUME IInv, NEW a \in Invocation, Active(a), pend[a] = {}, cur[a] = None,
         NEW p \in {"next", "wait", "schedule"}, pc' = [pc EXCEPT ![a] = p],
         p = "schedule" => topo' # "ready",
         UNCHANGED <<domains, status, target, cur, check>>,
         \/ UNCHANGED <<action, pend, known>>
         \/ /\ pend'[a] = Scope(target[a])
            /\ \A d \in Scope(target[a]) : dom[d] \in Before(action'[a])
            /\ KnownInv(a)'
  PROVE  SerialInv'
<1> USE TopologyLifecycleAssumption
<1>1. KnownInv(a) /\ \A d \in Device : DeviceInv(a, d)
  BY DEF IInv, SerialInv, InvocationInv
<1>2. AloneInv' /\ RestInv' /\ \A b \in Invocation : Active(b)' => b = a
  BY WorkFrame
<1>3. InvocationInv'
  <2>1. KnownInv(a)'
    BY <1>1 DEF KnownInv
  <2>2. ASSUME NEW d \in Device PROVE DeviceInv(a, d)'
    BY <1>1 DEF DeviceInv, Truth, Running, domains
  <2> QED BY <1>2, <2>1, <2>2 DEF InvocationInv
<1>4. OnboardedInv'
  BY DEF IInv, SerialInv, OnboardedInv, Existing, domains
<1>5. CheckInv'
  BY CheckFrame DEF domains
<1> QED BY <1>2, <1>3, <1>4, <1>5 DEF SerialInv

LEMMA ActionDoneStep ==
  ASSUME IInv, NEW a \in Invocation, ActionDone(a)
  PROVE  SerialInv'
<1> USE TopologyLifecycleAssumption
<1> DEFINE following == NextAction(command[a], action[a])
<1>1. /\ Active(a) /\ command[a] \in Commands /\ action[a] \in Actions
      /\ action[a] # "shutdown" /\ pend[a] = {} /\ cur[a] = None
  BY DEF ActionDone, Active, IInv, TypeInv, ControlInv
<1>2. topo' # "ready" /\ UNCHANGED <<domains, status, check>>
  BY <1>1 DEF ActionDone, Actions, ACTION_STATUS_MAP
<1>3. /\ Scope(target[a]) \subseteq Device
      /\ \A d \in Scope(target[a]) : dom[d] \in After(action[a])
  BY <1>1, ScopeType DEF IInv, TypeInv, TypeOK, SerialInv, InvocationInv, DeviceInv
<1>4. CASE following # "none"
  <2>1. /\ action' = [action EXCEPT ![a] = following]
        /\ pend' = [pend EXCEPT ![a] = Scope(target[a])]
        /\ known' = [known EXCEPT ![a] = IF action[a] = "destroy" THEN @ ELSE Existing]
        /\ UNCHANGED <<pc, command, target, cur>>
    BY <1>4 DEF ActionDone
  <2>2. \A d \in Scope(target[a]) : dom[d] \in Before(following)
    BY <1>1, <1>3, <1>4, AfterBefore
  <2>3. KnownInv(a)'
    <3>1. following \in {"create", "undefine", "define"}
      BY <1>1, <1>4 DEF NextAction
    <3>2. action'[a] = following /\ pend'[a] = Scope(target[a])
      BY <2>1 DEF IInv, TypeInv, TypeOK
    <3>3. CASE action[a] = "destroy"
      <4>1. Scope(target[a]) \subseteq known[a]
        BY <1>1, <3>3 DEF IInv, SerialInv, InvocationInv, KnownInv
      <4>2. known'[a] = known[a]
        BY <2>1, <3>3 DEF IInv, TypeInv, TypeOK
      <4> QED BY <3>1, <3>2, <4>1, <4>2 DEF KnownInv
    <3>4. CASE action[a] # "destroy" /\ following # "define"
      <4>1. known'[a] = Existing
        BY <2>1, <3>4 DEF IInv, TypeInv, TypeOK
      <4>2. "absent" \notin Before(following)
        BY <3>1, <3>4 DEF Before
      <4>3. Scope(target[a]) \subseteq Existing
        BY <1>3, <2>2, <4>2 DEF Existing
      <4> QED BY <3>1, <3>2, <4>1, <4>3 DEF KnownInv
    <3>5. CASE following = "define"
      BY <3>2, <3>5 DEF KnownInv
    <3> QED BY <3>3, <3>4, <3>5
  <2>4. /\ pc' = [pc EXCEPT ![a] = "next"] /\ action'[a] = following
        /\ pend'[a] = Scope(target[a])
    BY <2>1 DEF ActionDone, IInv, TypeInv, TypeOK
  <2> QED BY <1>1, <1>2, <2>1, <2>2, <2>3, <2>4, NextActionStep
<1>5. CASE following = "none" /\ action[a] = "create" /\ target[a] = None
  <2>1. /\ pc' = [pc EXCEPT ![a] = "schedule"]
        /\ UNCHANGED <<command, target, action, pend, cur, known>>
    BY <1>5 DEF ActionDone
  <2> QED BY <1>1, <1>2, <2>1, NextActionStep
<1>6. CASE following = "none" /\ ~(action[a] = "create" /\ target[a] = None)
  <2>1. Return(a)
    BY <1>6 DEF ActionDone
  <2> QED BY <1>1, <1>2, <2>1, ReturnStep
<1> QED BY <1>4, <1>5, <1>6

LEMMA StepStep ==
  ASSUME IInv, NEW a \in Invocation, Step(a)
  PROVE  SerialInv'
<1>1. CASE ShutdownDone(a)
  <2>1. Active(a) /\ cur[a] = None
    BY <1>1 DEF ShutdownDone, Active, IInv, TypeInv, ControlInv
  <2> QED BY <1>1, <2>1, NextActionStep DEF ShutdownDone, statuses
<1>2. CASE WaitForShutdown(a)
  <2>1. Active(a) /\ action[a] = "shutdown" /\ pend[a] = {} /\ cur[a] = None
    BY <1>2 DEF WaitForShutdown, Active, IInv, TypeInv, ControlInv
  <2>2. /\ pend'[a] = Scope(target[a]) /\ action'[a] = "destroy"
        /\ pc' = [pc EXCEPT ![a] = "next"]
        /\ UNCHANGED <<domains, status, topo, target, cur, known, check>>
    BY <1>2 DEF WaitForShutdown, statuses, IInv, TypeInv, TypeOK
  <2>3. \A d \in Scope(target[a]) : dom[d] \in Before("destroy")
    BY <2>1, ScopeType, TopologyLifecycleAssumption
       DEF IInv, TypeInv, TypeOK, SerialInv, InvocationInv, DeviceInv, After, Before
  <2>4. KnownInv(a)'
    BY <2>1, <2>2 DEF IInv, SerialInv, InvocationInv, KnownInv
  <2> QED BY <2>1, <2>2, <2>3, <2>4, NextActionStep
<1>3. CASE Schedule(a)
  <2>1. /\ Active(a) /\ action[a] = "create" /\ pend[a] = {} /\ cur[a] = None
        /\ topo # "ready"
    BY <1>3 DEF Schedule, Active, IInv, TypeInv, ControlInv, SerialInv, RestInv
  <2> QED BY <1>3, <2>1, ReturnStep DEF Schedule
<1> QED BY <1>1, <1>2, <1>3, ProcessDeviceStep, NotVanished, WriteStatusStep, ActionDoneStep
        DEF Step

------------------------------------------------------------------------------
(* The check, and the machines.                                              *)

\* Where the check is, but for its own reboot, nothing else is in progress.
LEMMA CheckAlone ==
  ASSUME IInv, cpc \in {"scan", "ping", "console", "sync", "write"}
                 \/ (cpc = "reboot" /\ pc[Rebooter] = "idle")
  PROVE  Idle
BY DEF IInv, SerialInv, AloneInv, Active, Idle, Invocation

\* With nothing in progress, steps of the check leave domains and invocations
\* alone.
LEMMA RestFrame ==
  ASSUME IInv, Idle, UNCHANGED <<domains, pc>>
  PROVE  AloneInv' /\ InvocationInv' /\ OnboardedInv'
<1>1. \A a \in Invocation : ~Active(a)'
  BY DEF Idle, Active
<1>2. Actor \subseteq Invocation /\ Rebooter \in Invocation
  BY DEF Invocation
<1> QED BY <1>1, <1>2 DEF AloneInv, InvocationInv, IInv, SerialInv, OnboardedInv, Existing, domains

LEMMA CheckStepStep ==
  ASSUME IInv, CheckStep
  PROVE  SerialInv'
<1> USE TopologyLifecycleAssumption
<1>1. CASE ConsoleReboot
  <2>1. /\ Idle /\ cpc = "console" /\ cdev \in Device /\ cdev \in nso
        /\ Rebooter \in Invocation /\ "reboot" \in Commands
    BY <1>1, CheckAlone DEF ConsoleReboot, IInv, TypeInv, TypeOK, CheckControl, SerialInv,
       CheckInv, AtInv, Invocation, Commands
  <2>2. Scope(cdev) = {cdev} /\ FirstAction("reboot") = "shutdown"
    BY <2>1 DEF Scope, FirstAction
  <2>3. cdev \in Existing
    BY <2>1 DEF IInv, SerialInv, OnboardedInv
  <2>4. dom[cdev] \in Before("shutdown")
    BY <2>1, <2>3 DEF Before, Existing, IInv, TypeInv, TypeOK
  <2> QED BY <1>1, <2>1, <2>2, <2>3, <2>4, BeginStep DEF ConsoleReboot
<1>2. CASE RebootReturns
  <2>1. Idle /\ UNCHANGED <<domains, status, topo, actors, todo, states, reach>>
    BY <1>2, CheckAlone DEF RebootReturns, statuses
  <2>2. AloneInv' /\ InvocationInv' /\ OnboardedInv'
    BY <2>1, RestFrame DEF actors
  <2>3. RestInv'
    BY <2>1 DEF IInv, SerialInv, RestInv, Idle, Truth, Running, domains, actors
  <2>4. CheckInv'
    BY <1>2, <2>1 DEF RebootReturns, IInv, SerialInv, CheckInv, AtInv, ReachInv, SeenInv, domains
  <2> QED BY <2>2, <2>3, <2>4 DEF SerialInv
<1>3. CASE \/ \E d \in Device : SkipDevice(d) \/ PingDevice(d) \/ SyncFrom(d) \/ DeviceMissing(d)
           \/ PingAnswered \/ PingUnanswered \/ ScanDone
  <2>1. Idle /\ UNCHANGED <<domains, status, topo, actors>>
    BY <1>3, CheckAlone DEF SkipDevice, PingDevice, SyncFrom, DeviceMissing, PingAnswered,
       PingUnanswered, ScanDone, statuses
  <2>2. AloneInv' /\ InvocationInv' /\ OnboardedInv'
    BY <2>1, RestFrame DEF actors
  <2>3. RestInv'
    BY <2>1 DEF IInv, SerialInv, RestInv, Idle, Truth, Running, domains, actors
  <2>4. ASSUME NEW d \in Device, SkipDevice(d) \/ DeviceMissing(d)
        PROVE  CheckInv'
    BY <2>1, <2>4 DEF SkipDevice, DeviceMissing, CheckEnds, IInv, SerialInv, CheckInv,
       AtInv, ReachInv, SeenInv, CheckControl, TypeInv, domains
  <2>5. ASSUME NEW d \in Device, PingDevice(d)
        PROVE  CheckInv'
    <3>1. d \in todo /\ d \in nso /\ status[d] # "ready" /\ status[d] # "none" /\ d \notin reach
      BY <2>5 DEF PingDevice, IInv, TypeInv, TypeOK, ProvisioningStatus, SerialInv, CheckInv, ReachInv
    <3>2. states' = [states EXCEPT ![d] = status[d]] /\ todo' = todo \ {d} /\ cdev' = d
          /\ cpc' = "ping" /\ UNCHANGED reach /\ cpc = "scan"
      BY <2>5 DEF PingDevice
    <3>3. AtInv'
      BY <2>1, <3>1, <3>2 DEF AtInv, IInv, TypeInv, TypeOK, domains
    <3>4. ReachInv'
      BY <2>1, <3>1, <3>2 DEF ReachInv, IInv, TypeInv, TypeOK, SerialInv, CheckInv, domains
    <3>5. SeenInv'
      BY <2>1, <3>1, <3>2 DEF SeenInv, IInv, TypeInv, TypeOK, SerialInv, CheckInv
    <3> QED BY <3>3, <3>4, <3>5 DEF CheckInv
  <2>6. ASSUME NEW d \in Device, SyncFrom(d)
        PROVE  CheckInv'
    <3>1. d \in reach /\ d \notin todo /\ dom[d] = "up" /\ status[d] # "ready" /\ states[d] # "none"
      BY <2>6 DEF SyncFrom, IInv, SerialInv, CheckInv, ReachInv
    <3> QED BY <2>1, <2>6, <3>1 DEF SyncFrom, IInv, SerialInv, CheckInv, AtInv, ReachInv,
            SeenInv, domains
  <2>7. ASSUME PingAnswered \/ PingUnanswered PROVE CheckInv'
    <3>1. /\ cpc = "ping" /\ cdev \notin todo \cup reach /\ status[cdev] # "ready"
          /\ states[cdev] # "none" /\ states[cdev] # "ready" /\ cdev \in nso
      BY <2>7 DEF PingAnswered, PingUnanswered, IInv, SerialInv, CheckInv, AtInv
    <3>2. \/ cpc' = "scan"
          \/ cpc' = "console" /\ cdev' = cdev /\ cdev \in console /\ UNCHANGED reach
      BY <2>7 DEF PingAnswered, PingUnanswered
    <3>3. UNCHANGED reach \/ (reach' = reach \cup {cdev} /\ dom[cdev] = "up")
      BY <2>7 DEF PingAnswered, PingUnanswered
    <3>4. UNCHANGED <<todo, states>>
      BY <2>7 DEF PingAnswered, PingUnanswered
    <3>5. AtInv'
      BY <2>1, <3>1, <3>2, <3>4 DEF AtInv, domains
    <3>6. ReachInv'
      BY <2>1, <3>1, <3>3, <3>4 DEF IInv, SerialInv, CheckInv, ReachInv, domains
    <3>7. SeenInv'
      BY <2>1, <3>1, <3>2, <3>4 DEF IInv, SerialInv, CheckInv, SeenInv
    <3> QED BY <3>5, <3>6, <3>7 DEF CheckInv
  <2>8. ASSUME ScanDone PROVE CheckInv'
    <3>1. /\ cpc = "scan" /\ todo = {} /\ cpc' = "sync" /\ UNCHANGED <<todo, states, reach>>
      BY <2>8 DEF ScanDone
    <3>2. AtInv'
      BY <3>1 DEF AtInv
    <3>3. ReachInv' /\ SeenInv'
      BY <2>1, <3>1 DEF IInv, SerialInv, CheckInv, ReachInv, SeenInv, domains
    <3> QED BY <3>2, <3>3 DEF CheckInv
  <2>9. CheckInv'
    BY <1>3, <2>4, <2>5, <2>6, <2>7, <2>8
  <2> QED BY <2>2, <2>3, <2>9 DEF SerialInv
<1>4. CASE WriteSync
  <2>1. /\ Idle /\ cpc = "write" /\ cdev \in Device \ Unmanaged /\ dom[cdev] = "up"
        /\ status[cdev] # "ready" /\ result \in {"ready", "sync-error"} /\ cdev \notin reach
    BY <1>4, CheckAlone DEF WriteSync, IInv, TypeInv, TypeOK, CheckControl, SerialInv,
       CheckInv, AtInv
  <2>2. /\ status' = [status EXCEPT ![cdev] = result] /\ states' = [states EXCEPT ![cdev] = result]
        /\ cpc' = "sync" /\ cdev' = None /\ UNCHANGED <<domains, topo, actors, todo, reach>>
    BY <1>4 DEF WriteSync
  <2>3. AloneInv' /\ InvocationInv' /\ OnboardedInv'
    BY <2>1, <2>2, RestFrame DEF actors
  <2>4. RestInv'
    <3>1. topo # "ready"
      BY <2>1 DEF IInv, SerialInv, RestInv
    <3>2. ASSUME NEW d \in Device PROVE Truth(d)'
      <4>1. Truth(d) /\ (d = cdev => Running(d))
        BY <2>1 DEF IInv, SerialInv, RestInv, Running
      <4> QED BY <2>1, <2>2, <4>1 DEF Truth, Running, Up, domains, IInv, TypeInv, TypeOK
    <3> QED BY <2>2, <3>1, <3>2 DEF RestInv, IInv, SerialInv, actors
  <2>5. AtInv'
    BY <2>2 DEF AtInv
  <2>6. ReachInv' /\ SeenInv'
    BY <2>1, <2>2 DEF IInv, TypeInv, TypeOK, SerialInv, CheckInv, ReachInv, SeenInv, domains
  <2> QED BY <2>3, <2>4, <2>5, <2>6 DEF SerialInv, CheckInv
<1>5. CASE Conclude
  <2>1. Idle /\ UNCHANGED <<domains, status, actors>> /\ CheckEnds
    BY <1>5, CheckAlone DEF Conclude
  <2>2. AloneInv' /\ InvocationInv' /\ OnboardedInv'
    BY <2>1, RestFrame DEF actors
  <2>3. topo' = "ready" => \A d \in Device \ Unmanaged : status[d] = "ready"
    <3>1. topo' = "ready" => \A d \in Checked : states[d] = "ready"
      BY <1>5 DEF Conclude, AllReady
    <3>2. cpc = "sync" /\ SeenInv
      BY <1>5 DEF Conclude, IInv, SerialInv, CheckInv
    <3> QED BY <3>1, <3>2 DEF SeenInv, Checked
  <2>4. RestInv'
    BY <2>1, <2>3 DEF IInv, SerialInv, RestInv, Idle, Truth, Running, domains, actors
  <2>5. CheckInv'
    BY <2>1 DEF CheckEnds, CheckInv, AtInv, ReachInv, SeenInv
  <2> QED BY <2>2, <2>4, <2>5 DEF SerialInv
<1>6. ASSUME NEW d \in Device, SkipLocked(d)
      PROVE  SerialInv'
  <2>1. /\ Idle /\ d \in todo \cap Locked /\ d \notin reach /\ cpc = "scan"
        /\ status' = [status EXCEPT ![d] = "ready"] /\ states' = [states EXCEPT ![d] = "ready"]
        /\ todo' = todo \ {d} /\ UNCHANGED <<domains, topo, actors, cpc, reach>>
    BY <1>6, CheckAlone DEF SkipLocked, IInv, SerialInv, CheckInv, ReachInv
  <2>2. AloneInv' /\ InvocationInv' /\ OnboardedInv'
    BY <2>1, RestFrame DEF actors
  <2>3. RestInv'
    BY <2>1 DEF IInv, TypeInv, TypeOK, SerialInv, RestInv, Idle, Truth, Running, domains, actors
  <2>4. AtInv'
    BY <2>1 DEF AtInv
  <2>5. ReachInv' /\ SeenInv'
    BY <2>1 DEF IInv, TypeInv, TypeOK, SerialInv, CheckInv, ReachInv, SeenInv, domains
  <2> QED BY <2>2, <2>3, <2>4, <2>5 DEF SerialInv, CheckInv
<1> QED BY <1>1, <1>2, <1>3, <1>4, <1>5, <1>6 DEF CheckStep

LEMMA StartCheckStep ==
  ASSUME IInv, Serial, StartCheck
  PROVE  SerialInv'
<1>1. /\ Idle /\ cpc = "idle" /\ cpc' = "scan" /\ todo' = Device
      /\ UNCHANGED <<domains, status, topo, actors, states, reach>>
  BY DEF StartCheck, statuses
<1>2. AloneInv' /\ InvocationInv' /\ OnboardedInv'
  BY <1>1, RestFrame DEF actors
<1>3. RestInv'
  BY <1>1 DEF IInv, SerialInv, RestInv, Idle, Truth, Running, domains, actors
<1>4. AtInv'
  BY <1>1 DEF AtInv
<1>5. ReachInv' /\ SeenInv'
  BY <1>1 DEF IInv, SerialInv, CheckInv, ReachInv, SeenInv, domains
<1> QED BY <1>2, <1>3, <1>4, <1>5 DEF SerialInv, CheckInv

\* A machine that boots, or obeys a shutdown request.
LEMMA MachineStep ==
  ASSUME IInv, NEW d \in Device, Boot(d) \/ PowerOff(d)
  PROVE  SerialInv'
<1>1. /\ \A e \in Device \ {d} : dom'[e] = dom[e]
      /\ \/ dom[d] = "booting" /\ dom'[d] = "up"
         \/ dom[d] = "acpi" /\ dom'[d] = "shut"
      /\ UNCHANGED <<nso, console, statuses, actors, check>>
  BY DEF Boot, PowerOff, IInv, TypeInv, TypeOK
<1>2. ASSUME NEW e \in Device, Truth(e)
      PROVE  Truth(e)'
  BY <1>1, <1>2 DEF Truth, Running, statuses
<1>3. AloneInv'
  BY <1>1 DEF IInv, SerialInv, AloneInv, Active, actors, check
<1>4. InvocationInv'
  <2> SUFFICES ASSUME NEW a \in Invocation, Active(a)
               PROVE  KnownInv(a)' /\ \A e \in Device : DeviceInv(a, e)'
    BY <1>1 DEF InvocationInv, Active, actors
  <2>1. KnownInv(a)'
    BY <1>1 DEF IInv, SerialInv, InvocationInv, KnownInv, actors
  <2>2. ASSUME NEW e \in Device PROVE DeviceInv(a, e)'
    <3>1. DeviceInv(a, e) /\ action[a] \in Actions
      BY DEF IInv, SerialInv, InvocationInv, TypeInv, ControlInv
    <3>2. dom[e] \in Before(action[a]) => dom'[e] \in Before(action[a])
      BY <1>1, <3>1 DEF Before, Actions
    <3>3. dom[e] \in After(action[a]) => dom'[e] \in After(action[a])
      BY <1>1, <3>1 DEF After, Actions
    <3>4. UNCHANGED <<target, pend, cur, action, status>>
      BY <1>1 DEF actors, statuses
    <3> HIDE DEF Before, After
    <3> QED BY <1>2, <3>1, <3>2, <3>3, <3>4 DEF DeviceInv
  <2> QED BY <2>1, <2>2
<1>5. OnboardedInv'
  BY <1>1 DEF IInv, SerialInv, OnboardedInv, Existing
<1>6. RestInv'
  <2>1. \A a \in Invocation : pc'[a] = "schedule" => topo' # "ready"
    BY <1>1 DEF IInv, SerialInv, RestInv, actors, statuses
  <2>2. Idle' => Idle /\ RestInv
    BY <1>1 DEF Idle, actors, IInv, SerialInv
  <2> QED BY <1>1, <1>2, <2>1, <2>2 DEF RestInv, statuses
<1>7. CheckInv'
  <2>1. /\ \A e \in Device : dom[e] = "up" => dom'[e] = "up"
        /\ reach \subseteq Device /\ cdev \in Device \cup {None}
    BY <1>1 DEF IInv, TypeInv, TypeOK
  <2>2. AtInv'
    BY <1>1, <2>1 DEF IInv, TypeInv, CheckControl, SerialInv, CheckInv, AtInv, check, statuses
  <2>3. ReachInv' /\ SeenInv'
    BY <1>1, <2>1 DEF IInv, SerialInv, CheckInv, ReachInv, SeenInv, check, statuses
  <2> QED BY <2>2, <2>3 DEF CheckInv
<1> QED BY <1>3, <1>4, <1>5, <1>6, <1>7 DEF SerialInv

------------------------------------------------------------------------------

LEMMA IInvInit == Init => IInv
<1> SUFFICES ASSUME Init PROVE IInv
  OBVIOUS
<1>1. AloneInv /\ InvocationInv
  BY DEF Init, AloneInv, InvocationInv, Active, Invocation
<1>2. OnboardedInv
  BY DEF Init, OnboardedInv, Existing
<1>3. RestInv
  BY DEF Init, RestInv, Truth, Running, Up
<1>4. CheckInv
  BY DEF Init, CheckInv, AtInv, ReachInv, SeenInv
<1> QED BY <1>1, <1>2, <1>3, <1>4, TypeInit DEF IInv, SerialInv

LEMMA IInvStep == OneAtATime /\ IInv /\ [Next]_vars => IInv'
<1> SUFFICES ASSUME OneAtATime, IInv, [Next]_vars PROVE IInv'
  OBVIOUS
<1> USE DEF OneAtATime
<1>1. TypeInv'
  BY TypeStep DEF IInv
<1>2. ASSUME NEW a \in Actor, NEW c \in Command, NEW t \in Target, NEW force \in Forced,
             OperatorCommand(a, c, t, force)
      PROVE  SerialInv'
  <2>1. /\ a \in Invocation /\ c \in Commands /\ t \in Device \cup {None}
        /\ Idle /\ cpc = "idle" /\ Applies(c, t)
    BY <1>2, TopologyLifecycleAssumption DEF OperatorCommand, Quiet, Invocation
  <2> QED BY <1>2, <2>1, AppliesBefore, BeginStep DEF OperatorCommand, check, domains, IInv
<1>3. CASE UNCHANGED vars
  <2>1. UNCHANGED <<domains, statuses, actors, check>>
    BY <1>3 DEF vars
  <2>2. AloneInv' /\ OnboardedInv' /\ RestInv'
    BY <2>1 DEF domains, statuses, actors, check, IInv, SerialInv, AloneInv, OnboardedInv,
                RestInv, Active, Idle, Truth, Running, Existing
  <2>3. InvocationInv'
    BY <2>1 DEF domains, statuses, actors, IInv, SerialInv, InvocationInv, Active, KnownInv,
                DeviceInv, Truth, Running
  <2>4. CheckInv'
    BY <2>1 DEF domains, statuses, check, IInv, SerialInv, CheckInv, AtInv, ReachInv, SeenInv
  <2> QED BY <1>1, <2>2, <2>3, <2>4 DEF IInv, SerialInv
<1>4. SerialInv' => IInv'
  BY <1>1 DEF IInv
<1> QED BY <1>2, <1>3, <1>4, StepStep, CheckStepStep, StartCheckStep, MachineStep DEF Next

\* The inductive invariant holds in every reachable state, if commands are
\* given one at a time.
LEMMA Invariant ==
  ASSUME OneAtATime
  PROVE  Spec => []IInv
<1>1. IInv /\ [Next]_vars => IInv'
  BY IInvStep
<1> QED BY IInvInit, <1>1, PTL DEF Spec

\* Between commands the recorded statuses say which machines run, whatever the
\* check, its reboots and guests that shut down slowly did in between.  The check
\* takes a southbound-locked device for ready unseen.
THEOREM StatusesTrue ==
  ASSUME OneAtATime, Locked = {}
  PROVE  Spec => []StatusTruthful
<1>1. IInv => StatusTruthful
  BY DEF IInv, SerialInv, RestInv, StatusTruthful, Truth, Up, Quiet
<1> QED BY <1>1, Invariant, PTL

\* A topology recorded as ready is ready, also after commands for single
\* devices and checks that ended early.
THEOREM TopologyReady ==
  ASSUME OneAtATime
  PROVE  Spec => []ReadyTopology
<1>1. IInv => ReadyTopology
  BY DEF IInv, SerialInv, RestInv, ReadyTopology, Quiet
<1> QED BY <1>1, Invariant, PTL

------------------------------------------------------------------------------
(* Console loggers.                                                          *)

LEMMA LoggerStep ==
  ASSUME Graceful \cap Consoled = {}
  PROVE  TypeInv /\ LoggerInv /\ [Next]_vars => LoggerInv'
<1> SUFFICES ASSUME TypeInv, LoggerInv, [Next]_vars
             PROVE  LoggerInv'
  OBVIOUS
<1> USE TopologyLifecycleAssumption
<1>1. ASSUME NEW a \in Invocation, NEW d \in Device, ProcessDevice(a, d)
      PROVE  LoggerInv'
  <2>1. action[a] \in Actions
    BY <1>1 DEF ProcessDevice, TypeInv, ControlInv, Active
  <2>2. CASE Define(d)
    BY <2>2 DEF Define, LoggerInv, Running, TypeInv, TypeOK
  <2>3. CASE UNCHANGED domains
    BY <2>3 DEF domains, LoggerInv, Running
  <2>4. ASSUME ActionAllowed(Running(d), action[a]), Perform(d, action[a])
        PROVE  LoggerInv'
    <3>1. CASE action[a] = "create"
      BY <2>4, <3>1 DEF Perform, LoggerInv, Running, TypeInv, TypeOK
    <3>2. CASE action[a] = "shutdown"
      BY <2>4, <3>2 DEF Perform, LoggerInv, Running, TypeInv, TypeOK
    <3>3. CASE action[a] = "destroy"
      BY <2>4, <3>3 DEF Perform, LoggerInv, Running, TypeInv, TypeOK
    <3>4. CASE action[a] = "undefine"
      BY <2>4, <3>4 DEF Perform, ActionAllowed, LoggerInv, Running, TypeInv, TypeOK
    <3>5. action[a] # "define"
      BY <2>4 DEF ActionAllowed
    <3> QED BY <2>1, <3>1, <3>2, <3>3, <3>4, <3>5 DEF Actions
  <2> QED BY <1>1, <2>2, <2>3, <2>4 DEF ProcessDevice
<1>2. ASSUME NEW d \in Device, Boot(d)
      PROVE  LoggerInv'
  BY <1>2 DEF Boot, LoggerInv, Running, TypeInv, TypeOK
<1>3. ASSUME NEW d \in Device, PowerOff(d)
      PROVE  LoggerInv'
  <2>1. d \notin console
    BY <1>3 DEF PowerOff, LoggerInv, TypeInv, TypeOK
  <2> QED BY <1>3, <2>1 DEF PowerOff, LoggerInv, Running, TypeInv, TypeOK
<1>4. CASE UNCHANGED domains
  BY <1>4 DEF domains, LoggerInv, Running
<1>5. ASSUME NEW a \in Invocation, Step(a)
      PROVE  LoggerInv'
  BY <1>1, <1>4, <1>5 DEF Step, DomainVanished, WriteStatus, ShutdownDone, WaitForShutdown,
     ActionDone, Schedule
<1>6. ASSUME CheckStep \/ StartCheck
      PROVE  UNCHANGED domains
  BY <1>6 DEF CheckStep, StartCheck, SkipDevice, SkipLocked, DeviceMissing, PingDevice,
     SyncFrom, PingAnswered, PingUnanswered, ConsoleReboot, RebootReturns, ScanDone,
     WriteSync, Conclude
<1>7. ASSUME NEW a \in Actor, NEW c \in Command, NEW t \in Target, NEW force \in Forced,
             OperatorCommand(a, c, t, force)
      PROVE  UNCHANGED domains
  BY <1>7 DEF OperatorCommand
<1> QED BY <1>2, <1>3, <1>4, <1>5, <1>6, <1>7 DEF Next, vars

\* The check reboots no machine that has been stopped, if no guest with a
\* console monitor obeys shutdown requests: a destroy stops the logger, a guest
\* that has shut down by itself is not destroyed.
THEOREM NothingResurrected ==
  ASSUME OneAtATime, Graceful \cap Consoled = {}
  PROVE  Spec => NoResurrection
<1>1. Init => LoggerInv
  BY DEF Init, LoggerInv
<1>2. TypeInv /\ LoggerInv /\ [Next]_vars => LoggerInv'
  BY LoggerStep
<1>3. IInv => TypeInv
  BY DEF IInv
<1>4. IInv /\ LoggerInv /\ [Next]_vars =>
        [cpc = "console" /\ cpc' = "reboot" => Running(cdev)]_vars
  BY DEF IInv, SerialInv, CheckInv, AtInv, LoggerInv
<1> QED BY <1>1, <1>2, <1>3, <1>4, Invariant, PTL DEF Spec, NoResurrection
------------------------------------------------------------------------------
(* The schedule of the check.                                                *)

\* The check has not concluded about d.
Pending(d) == status[d] \in {"started", "sync-error"}

\* While a device waits to become ready the check is scheduled.  Commands are for
\* the whole topology, the check reboots only while it is scheduled, and it
\* neither pings nor synchronises a locked device.
ScheduleInv ==
  /\ Idle /\ (\E d \in Device : Pending(d)) => scheduled
  /\ Active(Rebooter) => scheduled
  /\ \A a \in Actor : Active(a) => target[a] = None
  /\ \A d \in Device : IF d \in Unmanaged THEN ~Pending(d) ELSE status[d] # "unmanaged"
  /\ cpc \in {"ping", "console", "write"} => cdev \notin Locked
  /\ reach \cap Locked = {}

\* A device that runs and is not ready, as the check finds it, is pending.
LEMMA RunsPending ==
  ASSUME IInv, ScheduleInv, Idle, NEW d \in Device \ (Unmanaged \cup Locked),
         Running(d), status[d] # "ready"
  PROVE  Pending(d) /\ scheduled
<1>1. Truth(d)
  BY DEF IInv, SerialInv, RestInv
<1>2. Pending(d)
  BY <1>1 DEF ScheduleInv, Truth, Up, Pending
<1> QED BY <1>2 DEF ScheduleInv

LEMMA ScheduleOfStep ==
  ASSUME IInv, ScheduleInv, NEW a \in Invocation, Step(a)
  PROVE  ScheduleInv'
<1> USE TopologyLifecycleAssumption
<1>1. Active(a) /\ action[a] \in Actions /\ a \in Actor \cup {Rebooter}
  BY DEF Step, ProcessDevice, DomainVanished, WriteStatus, ShutdownDone, WaitForShutdown,
         ActionDone, Schedule, Active, IInv, TypeInv, ControlInv, Invocation
<1>3. UNCHANGED check
  BY NotVanished DEF Step, ProcessDevice, WriteStatus, ShutdownDone, WaitForShutdown,
         ActionDone, Schedule
<1>4. ASSUME NEW p \in {"next", "status", "wait", "schedule"}, pc' = [pc EXCEPT ![a] = p],
             UNCHANGED <<target, scheduled>>,
             \A d \in Device : IF d \in Unmanaged THEN ~Pending(d)' ELSE status'[d] # "unmanaged"
      PROVE  ScheduleInv'
  <2>1. pc'[a] # "idle" /\ \A b \in Invocation : Active(b)' => Active(b)
    BY <1>1, <1>4 DEF IInv, TypeInv, TypeOK, Active
  <2>2. ~Idle' /\ Actor \subseteq Invocation /\ Rebooter \in Invocation
    BY <2>1 DEF Idle, Invocation
  <2> QED BY <1>3, <1>4, <2>1, <2>2 DEF ScheduleInv, check
<1>5. ASSUME Return(a), UNCHANGED status,
             (\E d \in Device : Pending(d)) => scheduled'
      PROVE  ScheduleInv'
  <2>1. \A b \in Invocation : ~Active(b)'
    BY <1>1, <1>5 DEF Return, IInv, TypeInv, TypeOK, SerialInv, AloneInv, Active
  <2>2. Actor \subseteq Invocation /\ Rebooter \in Invocation
    BY DEF Invocation
  <2> QED BY <1>3, <1>5, <2>1, <2>2 DEF ScheduleInv, Pending, check
<1>6. ASSUME NEW d \in Device, ProcessDevice(a, d)
      PROVE  ScheduleInv'
  BY <1>4, <1>6 DEF ProcessDevice, statuses, ScheduleInv, Pending
<1>7. CASE WriteStatus(a)
  <2>1. cur[a] \in Device
    BY <1>7, ScopeType DEF WriteStatus, IInv, TypeInv, TypeOK, ControlInv
  <2>2. status' = [status EXCEPT ![cur[a]] = DeviceStatusAfter(action[a], cur[a] \in Unmanaged)]
    BY <1>7 DEF WriteStatus
  <2>3. LET new == DeviceStatusAfter(action[a], cur[a] \in Unmanaged)
        IN  IF cur[a] \in Unmanaged THEN new \notin {"started", "sync-error"}
                                    ELSE new # "unmanaged"
    BY <1>1 DEF DeviceStatusAfter, ACTION_STATUS_MAP, Actions
  <2>4. \A d \in Device : IF d \in Unmanaged THEN ~Pending(d)' ELSE status'[d] # "unmanaged"
    BY <2>1, <2>2, <2>3 DEF ScheduleInv, Pending, IInv, TypeInv, TypeOK
  <2> QED BY <1>4, <1>7, <2>4 DEF WriteStatus
<1>8. CASE ShutdownDone(a) \/ WaitForShutdown(a)
  BY <1>4, <1>8 DEF ShutdownDone, WaitForShutdown, statuses, ScheduleInv, Pending
<1>9. CASE ActionDone(a)
  <2>1. /\ UNCHANGED <<status, scheduled>> /\ pc[a] = "next" /\ pend[a] = {}
        /\ action[a] # "shutdown"
    BY <1>9 DEF ActionDone
  <2>2. CASE ~Return(a)
    <3>1. \/ UNCHANGED <<pc, target>>
          \/ pc' = [pc EXCEPT ![a] = "schedule"] /\ UNCHANGED target
      BY <1>9, <2>2 DEF ActionDone
    <3>2. \E p \in {"next", "schedule"} : pc' = [pc EXCEPT ![a] = p]
      BY <2>1, <3>1 DEF IInv, TypeInv, TypeOK
    <3> QED BY <1>4, <2>1, <3>1, <3>2 DEF ScheduleInv, Pending
  <2>3. CASE Return(a) /\ a = Rebooter
    BY <1>1, <1>5, <2>1, <2>3 DEF ScheduleInv
  <2>4. CASE Return(a) /\ a \in Actor
    <3>1. target[a] = None /\ Scope(target[a]) = Device
      BY <1>1, <2>4 DEF ScheduleInv, Scope
    <3>2. action[a] # "create"
      <4>1. pc'[a] = "idle"
        BY <2>4 DEF Return, IInv, TypeInv, TypeOK
      <4>2. ASSUME action[a] = "create"
            PROVE  pc'[a] \in {"next", "schedule"}
        BY <1>9, <2>1, <3>1, <4>2 DEF ActionDone, IInv, TypeInv, TypeOK
      <4> QED BY <4>1, <4>2
    <3>3. ASSUME NEW d \in Device
          PROVE  ~Pending(d)
      <4>1. DeviceInv(a, d) /\ cur[a] = None
        BY <1>1, <2>1 DEF IInv, SerialInv, InvocationInv, TypeInv, ControlInv
      <4>2. status[d] = DeviceStatusAfter(action[a], d \in Unmanaged)
        BY <2>1, <3>1, <4>1 DEF DeviceInv
      <4> QED BY <1>1, <2>1, <3>2, <4>2
              DEF Pending, DeviceStatusAfter, ACTION_STATUS_MAP, Actions
    <3> QED BY <1>5, <2>1, <2>4, <3>3
  <2> QED BY <1>1, <2>2, <2>3, <2>4
<1>10. CASE Schedule(a)
  BY <1>5, <1>10 DEF Schedule
<1> QED BY <1>6, <1>7, <1>8, <1>9, <1>10, NotVanished DEF Step

LEMMA ScheduleOfCheck ==
  ASSUME IInv, ScheduleInv, LoggerInv, CheckStep
  PROVE  ScheduleInv'
<1> USE TopologyLifecycleAssumption
<1>1. CASE ConsoleReboot
  <2>1. /\ Idle /\ cdev \in Device \ (Unmanaged \cup Locked) /\ Running(cdev)
        /\ status[cdev] # "ready"
    BY <1>1, CheckAlone DEF ConsoleReboot, IInv, TypeInv, TypeOK, CheckControl, SerialInv,
       CheckInv, AtInv, LoggerInv, ScheduleInv
  <2>2. scheduled
    BY <2>1, RunsPending
  <2>3. /\ scheduled' = scheduled /\ UNCHANGED <<status, reach>> /\ cpc' = "reboot"
        /\ pc' = [pc EXCEPT ![Rebooter] = "next"]
    BY <1>1, <2>1 DEF ConsoleReboot, Begin
  <2>4. ASSUME NEW a \in Actor
        PROVE  ~Active(a)'
    BY <2>1, <2>3 DEF Idle, Active, Invocation, IInv, TypeInv, TypeOK
  <2> QED BY <2>2, <2>3, <2>4 DEF ScheduleInv, Pending
<1>3. ASSUME NEW d \in Device, SkipLocked(d)
      PROVE  ScheduleInv'
  <2>1. /\ Idle /\ status' = [status EXCEPT ![d] = "ready"] /\ d \notin Unmanaged
        /\ cpc = "scan" /\ UNCHANGED <<pc, target, scheduled, cpc, reach>>
    BY <1>3, CheckAlone DEF SkipLocked, actors
  <2> QED BY <2>1 DEF ScheduleInv, Pending, Idle, Active, IInv, TypeInv, TypeOK
<1>4. CASE \/ \E d \in Device : SkipDevice(d) \/ DeviceMissing(d) \/ PingDevice(d) \/ SyncFrom(d)
           \/ PingAnswered \/ PingUnanswered \/ RebootReturns \/ ScanDone
  <2>1. UNCHANGED <<status, scheduled, pc, target>>
    BY <1>4 DEF SkipDevice, DeviceMissing, PingDevice, SyncFrom, PingAnswered, PingUnanswered,
       RebootReturns, ScanDone, statuses, actors
  <2>2. /\ cpc' \in {"ping", "console", "write"} => cdev' \notin Locked
        /\ reach' \cap Locked = {}
    BY <1>4 DEF SkipDevice, DeviceMissing, PingDevice, SyncFrom, PingAnswered, PingUnanswered,
       RebootReturns, ScanDone, CheckEnds, ScheduleInv
  <2> QED BY <2>1, <2>2 DEF ScheduleInv, Pending, Idle, Active
<1>5. CASE WriteSync
  <2>1. /\ Idle /\ cdev \in Device \ (Unmanaged \cup Locked) /\ Running(cdev)
        /\ status[cdev] # "ready" /\ result \in {"ready", "sync-error"}
    BY <1>5, CheckAlone DEF WriteSync, IInv, TypeInv, TypeOK, CheckControl, SerialInv,
       CheckInv, AtInv, ScheduleInv, Running
  <2>2. scheduled
    BY <2>1, RunsPending
  <2>3. /\ status' = [status EXCEPT ![cdev] = result] /\ cpc' = "sync"
        /\ UNCHANGED <<pc, target, scheduled, reach>>
    BY <1>5 DEF WriteSync, actors
  <2> QED BY <2>1, <2>2, <2>3 DEF ScheduleInv, Pending, Idle, Active, IInv, TypeInv, TypeOK
<1>6. CASE Conclude
  <2>1. /\ UNCHANGED <<status, pc, target>> /\ cpc' = "idle" /\ reach' = {} /\ cpc = "sync"
        /\ scheduled' = (scheduled /\ ~AllReady)
    BY <1>6 DEF Conclude, CheckEnds, actors
  <2>2. Idle
    BY <2>1, CheckAlone
  <2>3. ASSUME AllReady, NEW d \in Device
        PROVE  ~Pending(d)
    <3>1. CASE d \in Unmanaged
      BY <3>1 DEF ScheduleInv
    <3>2. CASE d \notin Unmanaged
      <4>1. status[d] = "ready" \/ states[d] # "none"
        BY <2>1, <3>2 DEF IInv, SerialInv, CheckInv, SeenInv
      <4>2. status[d] = "ready"
        BY <2>3, <4>1 DEF AllReady, Checked, IInv, SerialInv, CheckInv, SeenInv
      <4> QED BY <4>2 DEF Pending
    <3> QED BY <3>1, <3>2
  <2>4. ~Active(Rebooter)'
    BY <2>1, <2>2 DEF Idle, Active, Invocation
  <2> QED BY <2>1, <2>2, <2>3, <2>4 DEF ScheduleInv, Pending, Idle, Active
<1> QED BY <1>1, <1>3, <1>4, <1>5, <1>6 DEF CheckStep

LEMMA ScheduleStep ==
  ASSUME OneAtATime, Target \subseteq {None}
  PROVE  IInv /\ LoggerInv /\ ScheduleInv /\ [Next]_vars => ScheduleInv'
<1> SUFFICES ASSUME IInv, LoggerInv, ScheduleInv, [Next]_vars
             PROVE  ScheduleInv'
  OBVIOUS
<1> USE TopologyLifecycleAssumption
<1>1. ASSUME NEW a \in Actor, NEW c \in Command, NEW t \in Target, NEW force \in Forced,
             OperatorCommand(a, c, t, force)
      PROVE  ScheduleInv'
  <2>1. /\ Idle /\ t = None /\ a \in Invocation /\ a # Rebooter
        /\ pc' = [pc EXCEPT ![a] = "next"] /\ target' = [target EXCEPT ![a] = t]
        /\ UNCHANGED <<status, check>>
    BY <1>1 DEF OneAtATime, OperatorCommand, Begin, Quiet, Invocation
  <2>2. ~Idle' /\ ~Active(Rebooter)' /\ \A b \in Actor : Active(b)' => target'[b] = None
    BY <2>1 DEF Idle, Active, Invocation, IInv, TypeInv, TypeOK
  <2> QED BY <2>1, <2>2 DEF ScheduleInv, Pending, check
<1>2. CASE StartCheck
  BY <1>2 DEF StartCheck, statuses, actors, ScheduleInv, Pending, Idle, Active
<1>3. ASSUME NEW d \in Device, Boot(d) \/ PowerOff(d)
      PROVE  ScheduleInv'
  BY <1>3 DEF Boot, PowerOff, statuses, actors, check, ScheduleInv, Pending, Idle, Active
<1>4. CASE UNCHANGED vars
  BY <1>4 DEF vars, statuses, actors, check, ScheduleInv, Pending, Idle, Active
<1> QED BY <1>1, <1>2, <1>3, <1>4, ScheduleOfStep, ScheduleOfCheck DEF Next

\* A device that has been started, or could not be synchronised, is not forgotten:
\* the check stays scheduled, whatever it reboots and whatever is locked, if
\* commands are given one at a time, for the whole topology, and no guest with
\* a console monitor obeys shutdown requests (schedule_topology_ping).
THEOREM NotForgotten ==
  ASSUME OneAtATime, Target \subseteq {None}, Graceful \cap Consoled = {}
  PROVE  Spec => []CheckedUntilReady
<1>1. Init => LoggerInv /\ ScheduleInv
  BY DEF Init, LoggerInv, ScheduleInv, Pending, Active, Invocation
<1>2. TypeInv /\ LoggerInv /\ [Next]_vars => LoggerInv'
  BY LoggerStep
<1>3. IInv => TypeInv
  BY DEF IInv
<1>4. IInv /\ LoggerInv /\ ScheduleInv /\ [Next]_vars => ScheduleInv'
  BY ScheduleStep
<1>5. ScheduleInv => CheckedUntilReady
  BY DEF ScheduleInv, CheckedUntilReady, Pending, Quiet
<1> QED BY <1>1, <1>2, <1>3, <1>4, <1>5, Invariant, PTL DEF Spec
==============================================================================
