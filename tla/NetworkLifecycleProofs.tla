------------------------ MODULE NetworkLifecycleProofs ------------------------
(***************************************************************************)
(* Proofs about NetworkLifecycle, for every set of machines, networks,     *)
(* hypervisors and invocations.                                            *)
(***************************************************************************)
EXTENDS NetworkLifecycle, TLAPS

\* Every machine with a network has a NED, so that its status tells whether it
\* runs (unmanaged does not), and the operator gives one command at a time,
\* each where it applies.
OneAtATime ==
  /\ Serial
  /\ Careful
  /\ \A n \in Network : Members[n] \cap Unmanaged = {}

\* A decision is about one of the current machine's networks.
LEMMA ConsideredNetworks ==
  ASSUME NEW d, NEW act, NEW when \in {"pre", "post"}
  PROVE  /\ Considered(d, act, when) \subseteq Network
         /\ Considered(d, act, when) # {} =>
              \/ when = "pre" /\ act \in {"define", "create"}
              \/ when = "post" /\ act \in {"create", "destroy", "undefine"}
BY DEF Considered, NetworksOf

\* A command leads from action to action.
LEMMA ActionsFollow ==
  /\ \A c \in Commands : FirstAction(c) \in Actions \ {"destroy"}
  /\ \A c \in Commands : FirstAction(c) \in {"define", "undefine"}
                           <=> c \in {"define", "undefine"}
  /\ \A c, act : NextAction(c, act) \in Actions \cup {"none"}
  /\ \A c, act : NextAction(c, act) \in {"define", "undefine"} =>
                   act \in {"destroy", "undefine"}
BY DEF Commands, FirstAction, NextAction, Actions

------------------------------------------------------------------------------
(* Types.                                                                   *)

LEMMA ReturnType ==
  ASSUME TypeOK, NEW a \in Actor, Return(a), UNCHANGED <<dom, net, status>>
  PROVE  TypeOK'
BY DEF TypeOK, Return

LEMMA ActOnNetworkType ==
  ASSUME TypeOK, ControlInv, NEW a \in Actor, NEW h \in Hypervisor,
         ActOnNetwork(a, h)
  PROVE  TypeOK'
<1> DEFINE x == <<network[a], h>>
<1>1. x \in NetHost /\ action[a] \in {"define", "create", "destroy", "undefine"}
  BY DEF ActOnNetwork, TypeOK, ControlInv, NetHost
<1>2. UNCHANGED <<dom, status>>
  BY DEF ActOnNetwork
<1>3. CASE Return(a) /\ UNCHANGED net
  BY <1>2, <1>3, ReturnType
<1>4. CASE /\ \/ UNCHANGED <<net, known>>
              \/ /\ net' = [net EXCEPT ![x] = After(action[a])]
                 /\ known' = [known EXCEPT ![a] =
                      CASE action[a] = "define"   -> @ \cup {x}
                        [] action[a] = "undefine" -> @ \ {x}
                        [] OTHER                  -> @]
           /\ hosts' = [hosts EXCEPT ![a] = @ \ {h}]
           /\ UNCHANGED <<pc, command, scope, action, pend, cur, nets, network>>
  <2>1. After(action[a]) \in {"absent", "inactive", "active"}
    BY <1>1 DEF After
  <2>2. net' \in [NetHost -> {"absent", "inactive", "active"}]
    BY <1>1, <1>4, <2>1 DEF TypeOK
  <2>3. known' \in [Actor -> SUBSET NetHost]
    <3>1. CASE UNCHANGED known
      BY <3>1 DEF TypeOK
    <3>2. CASE known' = [known EXCEPT ![a] =
                 CASE action[a] = "define"   -> @ \cup {x}
                   [] action[a] = "undefine" -> @ \ {x}
                   [] OTHER                  -> @]
      <4> DEFINE k == CASE action[a] = "define"   -> known[a] \cup {x}
                        [] action[a] = "undefine" -> known[a] \ {x}
                        [] OTHER                  -> known[a]
      <4>1. k \in SUBSET NetHost
        BY <1>1 DEF TypeOK
      <4>2. known' = [known EXCEPT ![a] = k]
        BY <3>2
      <4> HIDE DEF k
      <4>3. QED
        BY <4>1, <4>2 DEF TypeOK
    <3>3. QED
      BY <1>4, <3>1, <3>2
  <2>4. hosts' \in [Actor -> SUBSET Hypervisor]
    BY <1>4 DEF TypeOK
  <2>5. QED
    BY <1>2, <1>4, <2>2, <2>3, <2>4 DEF TypeOK
<1>5. QED
  BY <1>3, <1>4 DEF ActOnNetwork

LEMMA DomainActionType ==
  ASSUME TypeOK, ControlInv, NEW a \in Actor, DomainAction(a)
  PROVE  TypeOK'
<1>1. cur[a] \in Device /\ action[a] \in Actions
  BY DEF DomainAction, TypeOK, ControlInv, Working
<1>2. UNCHANGED <<net, status>>
  BY DEF DomainAction
<1>3. CASE Return(a) /\ UNCHANGED dom
  BY <1>2, <1>3, ReturnType
<1>4. CASE /\ \E s \in IF Effective(cur[a], action[a])
                       THEN DomainAfter(cur[a], action[a])
                       ELSE {dom[cur[a]]} : dom' = [dom EXCEPT ![cur[a]] = s]
           /\ pc' = [pc EXCEPT ![a] = "post"]
           /\ nets' = [nets EXCEPT ![a] = Considered(cur[a], action[a], "post")]
           /\ UNCHANGED <<command, scope, action, pend, cur, network, hosts, known>>
  <2>1. dom' \in [Device -> {"absent", "shut", "running"}]
    BY <1>1, <1>4 DEF TypeOK, DomainAfter, Actions
  <2>2. QED
    BY <1>2, <1>4, <2>1, ConsideredNetworks DEF TypeOK
<1>5. QED
  BY <1>3, <1>4 DEF DomainAction

LEMMA TypeStep ==
  ASSUME TypeOK, ControlInv, [Next]_vars
  PROVE  TypeOK'
<1> USE NetworkLifecycleAssumption
<1>1. ASSUME NEW a \in Actor, NEW c \in Command, NEW S \in Targets, Begin(a, c, S)
      PROVE  TypeOK'
  <2>1. c \in Commands /\ S \subseteq Device /\ FirstAction(c) \in Actions
    BY <1>1, ActionsFollow DEF Targets
  <2>2. Existing \subseteq NetHost
    BY DEF Existing
  <2>3. QED
    BY <1>1, <2>1, <2>2 DEF Begin, TypeOK
<1>2. ASSUME NEW a \in Actor, NEW d \in Device, NextDevice(a, d)
      PROVE  TypeOK'
  BY <1>2, ConsideredNetworks DEF NextDevice, TypeOK
<1>3. ASSUME NEW a \in Actor, NextStep(a)
      PROVE  TypeOK'
  <2>1. CASE NextAction(command[a], action[a]) = "none"
    BY <1>3, <2>1, ReturnType DEF NextStep
  <2>2. CASE NextAction(command[a], action[a]) # "none"
    <3>1. NextAction(command[a], action[a]) \in Actions
      BY <2>2, ActionsFollow
    <3>2. Existing \subseteq NetHost
      BY DEF Existing
    <3>3. QED
      BY <1>3, <2>2, <3>1, <3>2 DEF NextStep, TypeOK
  <2>3. QED
    BY <2>1, <2>2
<1>4. ASSUME NEW a \in Actor, NEW n \in Network, CheckNetwork(a, n)
      PROVE  TypeOK'
  <2>1. HostsOf(n, cur[a]) \subseteq Hypervisor
    BY <1>4 DEF HostsOf, CheckNetwork, TypeOK, ControlInv
  <2>2. QED
    BY <1>4, <2>1 DEF CheckNetwork, TypeOK
<1>5. ASSUME NEW a \in Actor, NetworkDone(a)
      PROVE  TypeOK'
  BY <1>5 DEF NetworkDone, TypeOK
<1>6. ASSUME NEW a \in Actor, WriteStatus(a)
      PROVE  TypeOK'
  <2>1. cur[a] \in Device /\ action[a] \in Actions
    BY <1>6 DEF WriteStatus, TypeOK, ControlInv, Working
  <2>2. DeviceStatusAfter(action[a], cur[a] \in Unmanaged) \in ProvisioningStatus
    BY <2>1 DEF DeviceStatusAfter, ACTION_STATUS_MAP, Actions, ProvisioningStatus
  <2>3. QED
    BY <1>6, <2>1, <2>2 DEF WriteStatus, TypeOK
<1>7. ASSUME NEW d \in Device, SyncDevice(d)
      PROVE  TypeOK'
  BY <1>7 DEF SyncDevice, TypeOK, actors, ProvisioningStatus
<1>8. CASE UNCHANGED vars
  BY <1>8 DEF vars, actors, TypeOK
<1>9. ASSUME NEW a \in Actor, ActorStep(a)
      PROVE  TypeOK'
  BY <1>2, <1>3, <1>4, <1>5, <1>6, <1>9, ActOnNetworkType, DomainActionType
     DEF ActorStep
<1>10. QED
  BY <1>1, <1>7, <1>8, <1>9 DEF Next

LEMMA InitInv == Init => ServeInv
<1> SUFFICES ASSUME Init PROVE ServeInv
  OBVIOUS
<1> USE NetworkLifecycleAssumption
<1>1. TypeOK
  BY DEF Init, TypeOK, ProvisioningStatus
<1>2. ControlInv /\ Alone /\ CacheInv
  BY DEF Init, ControlInv, Alone, Working, CacheInv
<1>3. StoppedInv /\ DecidedInv /\ StatusInv /\ NetworksServe
  BY DEF Init, StoppedInv, DecidedInv, StatusInv, NetworksServe
<1>4. QED
  BY <1>1, <1>2, <1>3 DEF ServeInv

------------------------------------------------------------------------------
(* Control.                                                                 *)

\* A step of one invocation leaves the others where they are.
Stay(a) ==
  \A b \in Actor \ {a} :
    /\ pc'[b] = pc[b] /\ action'[b] = action[b] /\ scope'[b] = scope[b]
    /\ pend'[b] = pend[b] /\ cur'[b] = cur[b] /\ nets'[b] = nets[b]
    /\ network'[b] = network[b] /\ known'[b] = known[b]

LEMMA OthersStay ==
  ASSUME TypeOK, NEW a \in Actor, ActorStep(a)
  PROVE  Stay(a)
<1>1. ASSUME Return(a)
      PROVE  Stay(a)
  BY <1>1 DEF Return, TypeOK, Stay
<1>2. ASSUME NEW d \in Device, NextDevice(a, d)
      PROVE  Stay(a)
  BY <1>2 DEF NextDevice, TypeOK, Stay
<1>3. ASSUME NextStep(a)
      PROVE  Stay(a)
  BY <1>1, <1>3 DEF NextStep, TypeOK, Stay
<1>4. ASSUME NEW n \in Network, CheckNetwork(a, n)
      PROVE  Stay(a)
  BY <1>4 DEF CheckNetwork, TypeOK, Stay
<1>5. ASSUME NEW h \in Hypervisor, ActOnNetwork(a, h)
      PROVE  Stay(a)
  <2>1. CASE Return(a)
    BY <1>1, <2>1
  <2>2. CASE /\ \/ UNCHANGED known
                \/ \E k : known' = [known EXCEPT ![a] = k]
             /\ UNCHANGED <<pc, command, scope, action, pend, cur, nets, network>>
    BY <2>2 DEF TypeOK, Stay
  <2>3. QED
    BY <1>5, <2>1, <2>2 DEF ActOnNetwork
<1>6. ASSUME NetworkDone(a)
      PROVE  Stay(a)
  BY <1>6 DEF NetworkDone, TypeOK, Stay
<1>7. ASSUME DomainAction(a)
      PROVE  Stay(a)
  BY <1>1, <1>7 DEF DomainAction, TypeOK, Stay
<1>8. ASSUME WriteStatus(a)
      PROVE  Stay(a)
  BY <1>8 DEF WriteStatus, TypeOK, Stay
<1>9. QED
  BY <1>2, <1>3, <1>4, <1>5, <1>6, <1>7, <1>8 DEF ActorStep

\* A returning invocation is idle.
LEMMA Returned ==
  ASSUME TypeOK, NEW a \in Actor, Return(a)
  PROVE  /\ pc'[a] = "idle" /\ action'[a] = "none" /\ cur'[a] = None
         /\ scope'[a] = {} /\ pend'[a] = {} /\ nets'[a] = {}
         /\ network'[a] = None /\ known'[a] = {}
BY DEF TypeOK, Return

\* Only a working invocation takes steps.
LEMMA StepsWork ==
  ASSUME TypeOK, ControlInv, NEW a \in Actor, ActorStep(a)
  PROVE  Working(a)
BY DEF ActorStep, ControlInv, Working, TypeOK, NextDevice, NextStep,
       CheckNetwork, ActOnNetwork, NetworkDone, DomainAction, WriteStatus

\* What a network action does: the call raises, or does nothing, or defines,
\* starts, stops or undefines the network.
LEMMA NetworkActionCases ==
  ASSUME TypeOK, ControlInv, NEW a \in Actor, NEW h \in Hypervisor,
         ActOnNetwork(a, h)
  PROVE  LET x == <<network[a], h>>
         IN  /\ x \in NetHost
             /\ UNCHANGED <<dom, status>>
             /\ \/ /\ Return(a) /\ UNCHANGED net
                   /\ \/ action[a] = "define"
                      \/ x \in known[a] /\ net[x] = "absent"
                \/ /\ UNCHANGED <<pc, scope, action, pend, cur, nets, network>>
                   /\ \/ UNCHANGED <<net, known>>
                      \/ /\ action[a] = "define"
                         /\ net[x] = "absent"
                         /\ net' = [net EXCEPT ![x] = "inactive"]
                         /\ known' = [known EXCEPT ![a] = @ \cup {x}]
                      \/ /\ action[a] = "undefine"
                         /\ net[x] = "inactive"
                         /\ net' = [net EXCEPT ![x] = "absent"]
                         /\ known' = [known EXCEPT ![a] = @ \ {x}]
                      \/ /\ action[a] = "create"
                         /\ net[x] = "inactive"
                         /\ net' = [net EXCEPT ![x] = "active"]
                         /\ UNCHANGED known
                      \/ /\ action[a] = "destroy"
                         /\ net[x] = "active"
                         /\ net' = [net EXCEPT ![x] = "inactive"]
                         /\ UNCHANGED known
<1> DEFINE x == <<network[a], h>>
           act == action[a]
           skip == (x \in known[a]) = (act = "define")
<1>1. x \in NetHost /\ act \in {"define", "create", "destroy", "undefine"}
  BY DEF ActOnNetwork, TypeOK, ControlInv, NetHost
<1>2. UNCHANGED <<dom, status>>
  BY DEF ActOnNetwork
<1>3. CASE ~skip /\ (net[x] = "absent") # (act = "define") /\ Return(a) /\ UNCHANGED net
  BY <1>1, <1>2, <1>3
<1>4. CASE /\ ~(~skip /\ Runs(act, x)) /\ UNCHANGED <<net, known>>
           /\ UNCHANGED <<pc, scope, action, pend, cur, nets, network>>
  BY <1>1, <1>2, <1>4
<1>5. CASE /\ ~skip /\ (net[x] = "absent") = (act = "define") /\ Runs(act, x)
           /\ net' = [net EXCEPT ![x] = After(act)]
           /\ known' = [known EXCEPT ![a] =
                CASE act = "define"   -> @ \cup {x}
                  [] act = "undefine" -> @ \ {x}
                  [] OTHER            -> @]
           /\ UNCHANGED <<pc, scope, action, pend, cur, nets, network>>
  <2>1. net[x] \in {"absent", "inactive", "active"}
    BY <1>1 DEF TypeOK
  <2>2. act = "create" \/ act = "destroy" => UNCHANGED known
    BY <1>5 DEF TypeOK
  <2>3. CASE act = "define"
    BY <1>1, <1>2, <1>5, <2>3 DEF After
  <2>4. CASE act = "undefine"
    BY <1>1, <1>2, <1>5, <2>1, <2>4 DEF After, Runs, ActionAllowed
  <2>5. CASE act = "create"
    BY <1>1, <1>2, <1>5, <2>1, <2>2, <2>5 DEF After, Runs, ActionAllowed
  <2>6. CASE act = "destroy"
    BY <1>1, <1>2, <1>5, <2>1, <2>2, <2>6 DEF After, Runs, ActionAllowed
  <2>7. QED
    BY <1>1, <2>3, <2>4, <2>5, <2>6
<1>6. QED
  BY <1>3, <1>4, <1>5 DEF ActOnNetwork

\* What a domain action does: the call raises, or the domain is as the action
\* leaves it.
LEMMA DomainActionCases ==
  ASSUME TypeOK, ControlInv, NEW a \in Actor, DomainAction(a)
  PROVE  /\ cur[a] \in Device
         /\ UNCHANGED <<net, status>>
         /\ \/ Return(a) /\ UNCHANGED dom
            \/ /\ UNCHANGED <<scope, action, pend, cur, network, known>>
               /\ pc' = [pc EXCEPT ![a] = "post"]
               /\ nets' = [nets EXCEPT ![a] = Considered(cur[a], action[a], "post")]
               /\ \A d \in Device : d # cur[a] => dom'[d] = dom[d]
               /\ dom'[cur[a]] = "running" =>
                    /\ dom[cur[a]] = "running" \/ Served(cur[a])
                    /\ action[a] = "define" \/ action[a] = "undefine"
                         => dom[cur[a]] = "running"
                    /\ action[a] # "destroy"
<1> DEFINE d == cur[a]
           act == action[a]
<1>1. d \in Device /\ act \in Actions
  BY DEF DomainAction, TypeOK, ControlInv, Working
<1>2. UNCHANGED <<net, status>>
  BY DEF DomainAction
<1>3. CASE Return(a) /\ UNCHANGED dom
  BY <1>1, <1>2, <1>3
<1>4. CASE /\ Effective(d, act) /\ act = "create" => Served(d)
           /\ \E s \in IF Effective(d, act) THEN DomainAfter(d, act)
                                            ELSE {dom[d]} :
                dom' = [dom EXCEPT ![d] = s]
           /\ pc' = [pc EXCEPT ![a] = "post"]
           /\ nets' = [nets EXCEPT ![a] = Considered(d, act, "post")]
           /\ UNCHANGED <<scope, action, pend, cur, network, known>>
  <2>1. \A e \in Device : e # d => dom'[e] = dom[e]
    BY <1>1, <1>4 DEF TypeOK
  <2>2. CASE ~Effective(d, act)
    <3>1. dom'[d] = dom[d]
      BY <1>1, <1>4, <2>2 DEF TypeOK
    <3>2. act = "destroy" => dom[d] # "running"
      BY <2>2 DEF Effective, ActionAllowed
    <3>3. QED
      BY <1>1, <1>2, <1>4, <2>1, <3>1, <3>2
  <2>3. CASE Effective(d, act)
    <3>1. dom'[d] \in DomainAfter(d, act)
      BY <1>1, <1>4, <2>3 DEF TypeOK
    <3>2. dom'[d] = "running" => act = "create" \/ (act = "shutdown" /\ dom[d] = "running")
      BY <1>1, <2>3, <3>1 DEF DomainAfter, Effective, ActionAllowed, Actions
    <3>3. QED
      BY <1>1, <1>2, <1>4, <2>1, <2>3, <3>2
  <2>4. QED
    BY <2>2, <2>3
<1>5. QED
  BY <1>3, <1>4 DEF DomainAction

\* Every step leaves each invocation where its loops allow.
LEMMA ControlStep ==
  ASSUME TypeOK, ControlInv, [Next]_vars
  PROVE  ControlInv'
<1> DEFINE C(a) ==
      /\ Working(a) <=> action[a] # "none"
      /\ cur[a] # None <=> pc[a] \in {"pre", "post"}
      /\ pend[a] \subseteq scope[a]
      /\ cur[a] # None => cur[a] \in scope[a] \ pend[a]
      /\ nets[a] # {} \/ network[a] # None =>
           \/ pc[a] = "pre" /\ action[a] \in {"define", "create"}
           \/ pc[a] = "post" /\ action[a] \in {"create", "destroy", "undefine"}
<1> USE NetworkLifecycleAssumption
<1>1. ASSUME NEW a \in Actor, NEW c \in Command, NEW S \in Targets, Begin(a, c, S)
      PROVE  ControlInv'
  <2>1. FirstAction(c) \in Actions
    BY ActionsFollow
  <2>2. FirstAction(c) # "none"
    BY <2>1 DEF Actions
  <2>3. \A b \in Actor \ {a} : C(b)'
    BY <1>1 DEF Begin, TypeOK, ControlInv, Working
  <2>4. C(a)'
    BY <1>1, <2>2 DEF Begin, TypeOK, ControlInv, Working
  <2>5. QED
    BY <2>3, <2>4 DEF ControlInv
<1>2. ASSUME NEW a \in Actor, ActorStep(a)
      PROVE  ControlInv'
  <2>1. \A b \in Actor \ {a} : C(b)'
    BY <1>2, OthersStay DEF Stay, ControlInv, Working
  <2>2. ASSUME Return(a)
        PROVE  C(a)'
    BY <2>2, Returned DEF Working
  <2>3. ASSUME NEW d \in Device, NextDevice(a, d)
        PROVE  C(a)'
    <3>1. Considered(d, action[a], "pre") # {} => action[a] \in {"define", "create"}
      BY ConsideredNetworks
    <3>2. QED
      BY <2>3, <3>1 DEF NextDevice, TypeOK, ControlInv, Working
  <2>4. ASSUME NextStep(a)
        PROVE  C(a)'
    <3>1. CASE Return(a)
      BY <2>2, <3>1
    <3>2. CASE ~Return(a)
      BY <2>4, <3>2 DEF NextStep, TypeOK, ControlInv, Working
    <3>3. QED
      BY <3>1, <3>2
  <2>5. ASSUME NEW n \in Network, CheckNetwork(a, n)
        PROVE  C(a)'
    BY <2>5 DEF CheckNetwork, TypeOK, ControlInv, Working
  <2>6. ASSUME NEW h \in Hypervisor, ActOnNetwork(a, h)
        PROVE  C(a)'
    <3>1. CASE UNCHANGED <<pc, scope, action, pend, cur, nets, network>>
      BY <3>1 DEF ControlInv, Working
    <3>2. QED
      BY <2>2, <2>6, <3>1, NetworkActionCases
  <2>7. ASSUME NetworkDone(a)
        PROVE  C(a)'
    BY <2>7 DEF NetworkDone, TypeOK, ControlInv, Working
  <2>8. ASSUME DomainAction(a)
        PROVE  C(a)'
    <3>1. CASE /\ UNCHANGED <<scope, action, pend, cur, network>>
               /\ pc' = [pc EXCEPT ![a] = "post"]
               /\ nets' = [nets EXCEPT ![a] = Considered(cur[a], action[a], "post")]
      <4>1. Considered(cur[a], action[a], "post") # {} =>
              action[a] \in {"create", "destroy", "undefine"}
        BY ConsideredNetworks
      <4>2. pc[a] = "pre" /\ network[a] = None
        BY <2>8 DEF DomainAction
      <4>3. QED
        BY <3>1, <4>1, <4>2 DEF TypeOK, ControlInv, Working
    <3>2. QED
      BY <2>2, <2>8, <3>1, DomainActionCases
  <2>9. ASSUME WriteStatus(a)
        PROVE  C(a)'
    BY <2>9 DEF WriteStatus, TypeOK, ControlInv, Working
  <2>10. C(a)'
    BY <1>2, <2>3, <2>4, <2>5, <2>6, <2>7, <2>8, <2>9 DEF ActorStep
  <2>11. QED
    BY <2>1, <2>10 DEF ControlInv
<1>3. ASSUME NEW d \in Device, SyncDevice(d)
      PROVE  ControlInv'
  BY <1>3 DEF SyncDevice, actors, ControlInv, Working
<1>4. CASE UNCHANGED vars
  BY <1>4 DEF vars, actors, ControlInv, Working
<1>5. QED
  BY <1>1, <1>2, <1>3, <1>4 DEF Next

\* Every variable always has its type, however the invocations of LibvirtAction
\* overlap, whoever they act on and whichever of their calls raise.
THEOREM TypeCorrect == Spec => []TypeOK
<1>1. Init => TypeOK /\ ControlInv
  BY InitInv DEF ServeInv
<1>2. TypeOK /\ ControlInv /\ [Next]_vars => (TypeOK /\ ControlInv)'
  BY TypeStep, ControlStep
<1>3. QED
  BY <1>1, <1>2, PTL DEF Spec

LEMMA AloneStep ==
  ASSUME Serial, TypeOK, ControlInv, Alone, [Next]_vars
  PROVE  Alone'
<1>1. ASSUME NEW a \in Actor, NEW c \in Command, NEW S \in Targets, Begin(a, c, S)
      PROVE  Alone'
  BY <1>1 DEF Begin, Idle, Alone, Working, TypeOK
<1>2. ASSUME NEW a \in Actor, ActorStep(a)
      PROVE  Alone'
  <2>1. \A b \in Actor \ {a} : pc'[b] = pc[b]
    BY <1>2, OthersStay DEF Stay
  <2>2. \A b \in Actor \ {a} : ~Working(b)
    BY <1>2, StepsWork DEF Alone
  <2>3. QED
    BY <2>1, <2>2 DEF Alone, Working
<1>3. ASSUME NEW d \in Device, SyncDevice(d)
      PROVE  Alone'
  BY <1>3 DEF SyncDevice, actors, Alone, Working
<1>4. CASE UNCHANGED vars
  BY <1>4 DEF vars, actors, Alone, Working
<1>5. QED
  BY <1>1, <1>2, <1>3, <1>4 DEF Next

------------------------------------------------------------------------------
(* One operation at a time: caches, domains, decisions and statuses agree.  *)

\* What the previous section establishes.
Before == TypeOK /\ ControlInv /\ Alone

\* While an invocation takes a step the others are idle and hold nothing.
LEMMA OthersIdle ==
  ASSUME Before, CacheInv, NEW a \in Actor, ActorStep(a), NEW b \in Actor \ {a}
  PROVE  /\ action[b] = "none" /\ cur[b] = None /\ network[b] = None
         /\ known[b] = {}
         /\ action'[b] = "none" /\ cur'[b] = None /\ network'[b] = None
         /\ known'[b] = {} /\ ~Working(b) /\ ~Working(b)'
<1>1. ~Working(b)
  BY StepsWork DEF Before, Alone
<1>2. QED
  BY <1>1, OthersStay DEF Before, ControlInv, CacheInv, Working, Stay

LEMMA CacheStep ==
  ASSUME Before, CacheInv, [Next]_vars
  PROVE  CacheInv'
<1>1. ASSUME NEW a \in Actor, NEW c \in Command, NEW S \in Targets, Begin(a, c, S)
      PROVE  CacheInv'
  BY <1>1 DEF Begin, Before, TypeOK, CacheInv, Working, Existing
<1>2. ASSUME NEW a \in Actor, ActorStep(a)
      PROVE  CacheInv'
  <2>1. \A b \in Actor \ {a} : known'[b] = {} /\ ~Working(b)'
    BY <1>2, OthersIdle
  <2>2. SUFFICES known'[a] \subseteq Existing' /\ (~Working(a)' => known'[a] = {})
    BY <2>1 DEF CacheInv
  <2>3. known[a] \subseteq Existing /\ Working(a)
    BY <1>2, StepsWork DEF CacheInv, Before
  <2>4. CASE Return(a)
    BY <2>4, Returned DEF Before
  <2>5. ASSUME NEW d \in Device, NextDevice(a, d)
        PROVE  known'[a] \subseteq Existing' /\ Working(a)'
    BY <2>3, <2>5 DEF NextDevice, Existing, Working, Before, TypeOK
  <2>6. ASSUME NextStep(a), ~Return(a)
        PROVE  known'[a] \subseteq Existing' /\ Working(a)'
    BY <2>3, <2>6 DEF NextStep, Existing, Working, Before, TypeOK
  <2>7. ASSUME NEW n \in Network, CheckNetwork(a, n)
        PROVE  known'[a] \subseteq Existing' /\ Working(a)'
    BY <2>3, <2>7 DEF CheckNetwork, Existing, Working
  <2>8. ASSUME NEW h \in Hypervisor, ActOnNetwork(a, h), ~Return(a)
        PROVE  known'[a] \subseteq Existing' /\ Working(a)'
    <3> DEFINE x == <<network[a], h>>
    <3>1. x \in NetHost /\ UNCHANGED pc
      BY <2>8, NetworkActionCases DEF Before
    <3>2. CASE UNCHANGED <<net, known>>
      BY <2>3, <3>1, <3>2 DEF Existing, Working
    <3>3. CASE net' = [net EXCEPT ![x] = "inactive"]
               /\ known' = [known EXCEPT ![a] = @ \cup {x}]
      BY <2>3, <3>1, <3>3 DEF Existing, Working, Before, TypeOK
    <3>4. CASE net' = [net EXCEPT ![x] = "absent"]
               /\ known' = [known EXCEPT ![a] = @ \ {x}]
      BY <2>3, <3>1, <3>4 DEF Existing, Working, Before, TypeOK
    <3>5. CASE \E s \in {"inactive", "active"} : net' = [net EXCEPT ![x] = s]
               /\ UNCHANGED known
      BY <2>3, <3>1, <3>5 DEF Existing, Working, Before, TypeOK
    <3>6. QED
      BY <2>8, <3>2, <3>3, <3>4, <3>5, NetworkActionCases DEF Before
  <2>9. ASSUME NetworkDone(a)
        PROVE  known'[a] \subseteq Existing' /\ Working(a)'
    BY <2>3, <2>9 DEF NetworkDone, Existing, Working
  <2>10. ASSUME DomainAction(a), ~Return(a)
         PROVE  known'[a] \subseteq Existing' /\ Working(a)'
    BY <2>3, <2>10, DomainActionCases DEF Existing, Working, Before, TypeOK
  <2>11. ASSUME WriteStatus(a)
         PROVE  known'[a] \subseteq Existing' /\ Working(a)'
    BY <2>3, <2>11 DEF WriteStatus, Existing, Working, Before, TypeOK
  <2>12. QED
    BY <1>2, <2>4, <2>5, <2>6, <2>7, <2>8, <2>9, <2>10, <2>11 DEF ActorStep
<1>3. ASSUME NEW d \in Device, SyncDevice(d)
      PROVE  CacheInv'
  BY <1>3 DEF SyncDevice, actors, CacheInv, Working, Existing
<1>4. CASE UNCHANGED vars
  BY <1>4 DEF vars, actors, CacheInv, Working, Existing
<1>5. QED
  BY <1>1, <1>2, <1>3, <1>4 DEF Next

\* Under the cache invariant no call to a network raises after the domain
\* action: what is cached exists.
LEMMA NoRaiseAfter ==
  ASSUME Before, CacheInv, NEW a \in Actor, NEW h \in Hypervisor,
         ActOnNetwork(a, h), Return(a)
  PROVE  pc[a] = "pre"
<1>1. UNCHANGED <<pc, network>> => pc[a] = "idle"
  BY Returned DEF Before
<1>2. network[a] # None
  BY DEF ActOnNetwork
<1>3. action[a] = "define" \/ (<<network[a], h>> \in known[a] /\ net[<<network[a], h>>] = "absent")
  BY <1>1, <1>2, NetworkActionCases DEF Before, ControlInv
<1>4. action[a] = "define"
  BY <1>3 DEF CacheInv, Existing
<1>5. QED
  BY <1>2, <1>4 DEF Before, ControlInv

LEMMA StoppedStep ==
  ASSUME Serial, Careful, Before, CacheInv, StoppedInv, [Next]_vars
  PROVE  StoppedInv'
<1> DEFINE P(a) ==
      /\ action[a] \in {"define", "undefine"} =>
           \A d \in scope[a] : dom[d] # "running"
      /\ action[a] = "destroy" =>
           \A d \in scope[a] \ pend[a] :
             dom[d] = "running" => cur[a] = d /\ pc[a] = "pre"
<1>1. ASSUME NEW a \in Actor, NEW c \in Command, NEW S \in Targets, Begin(a, c, S)
      PROVE  StoppedInv'
  <2>1. c \in Commands /\ UNCHANGED dom
    BY <1>1, NetworkLifecycleAssumption DEF Begin
  <2>2. \A b \in Actor \ {a} : P(b)'
    BY <1>1, <2>1 DEF Begin, Before, TypeOK, StoppedInv
  <2>3. action'[a] = FirstAction(c) /\ scope'[a] = S /\ pend'[a] = S
    BY <1>1 DEF Begin, Before, TypeOK
  <2>4. c \in {"define", "undefine"} => \A d \in S : dom[d] # "running"
    BY <1>1 DEF Begin, Applies
  <2>5. P(a)'
    BY <2>1, <2>3, <2>4, ActionsFollow
  <2>6. QED
    BY <2>2, <2>5 DEF StoppedInv
<1>2. ASSUME NEW a \in Actor, ActorStep(a)
      PROVE  StoppedInv'
  <2>1. \A b \in Actor \ {a} : action'[b] = "none"
    BY <1>2, OthersIdle
  <2>2. SUFFICES P(a)'
    BY <2>1 DEF StoppedInv
  <2>3. P(a)
    BY DEF StoppedInv
  <2>4. CASE Return(a)
    BY <2>4, Returned DEF Before
  <2>5. ASSUME NEW d \in Device, NextDevice(a, d)
        PROVE  P(a)'
    <3>1. /\ cur'[a] = d /\ pc'[a] = "pre" /\ pend'[a] = pend[a] \ {d}
          /\ UNCHANGED <<dom, action, scope>> /\ pc[a] = "next"
      BY <2>5 DEF NextDevice, Before, TypeOK
    <3>2. QED
      BY <2>3, <3>1
  <2>6. ASSUME NextStep(a), ~Return(a)
        PROVE  P(a)'
    <3>1. /\ action'[a] = NextAction(command[a], action[a])
          /\ pend'[a] = scope[a] /\ UNCHANGED <<dom, scope, pc>>
          /\ pc[a] = "next" /\ pend[a] = {}
      BY <2>6 DEF NextStep, Before, TypeOK
    <3>2. action[a] \in {"destroy", "undefine"} => \A d \in scope[a] : dom[d] # "running"
      BY <2>3, <3>1
    <3>3. QED
      BY <3>1, <3>2, ActionsFollow
  <2>7. ASSUME NEW n \in Network, CheckNetwork(a, n)
        PROVE  P(a)'
    BY <2>3, <2>7 DEF CheckNetwork
  <2>8. ASSUME NEW h \in Hypervisor, ActOnNetwork(a, h), ~Return(a)
        PROVE  P(a)'
    BY <2>3, <2>8, NetworkActionCases DEF Before
  <2>9. ASSUME NetworkDone(a)
        PROVE  P(a)'
    BY <2>3, <2>9 DEF NetworkDone
  <2>10. ASSUME DomainAction(a), ~Return(a)
         PROVE  P(a)'
    <3>1. /\ UNCHANGED <<scope, action, pend, cur>>
          /\ pc'[a] = "post" /\ cur[a] \in Device
          /\ \A d \in Device : d # cur[a] => dom'[d] = dom[d]
          /\ dom'[cur[a]] = "running" =>
               /\ action[a] = "define" \/ action[a] = "undefine"
                    => dom[cur[a]] = "running"
               /\ action[a] # "destroy"
      BY <2>10, DomainActionCases DEF Before, TypeOK
    <3>2. scope[a] \subseteq Device
      BY DEF Before, TypeOK
    <3>3. QED
      BY <2>3, <3>1, <3>2
  <2>11. ASSUME WriteStatus(a)
         PROVE  P(a)'
    <3>1. /\ UNCHANGED <<dom, scope, action, pend>> /\ pc[a] = "post"
      BY <2>11 DEF WriteStatus
    <3>2. QED
      BY <2>3, <3>1
  <2>12. QED
    BY <1>2, <2>4, <2>5, <2>6, <2>7, <2>8, <2>9, <2>10, <2>11 DEF ActorStep
<1>3. ASSUME NEW d \in Device, SyncDevice(d)
      PROVE  StoppedInv'
  BY <1>3 DEF SyncDevice, actors, StoppedInv
<1>4. CASE UNCHANGED vars
  BY <1>4 DEF vars, actors, StoppedInv
<1>5. QED
  BY <1>1, <1>2, <1>3, <1>4 DEF Next

LEMMA DecidedStep ==
  ASSUME Serial, Careful, Before, CacheInv, DecidedInv, [Next]_vars
  PROVE  DecidedInv'
<1> DEFINE P(a) ==
      action[a] = "destroy" /\ network[a] # None =>
        network_action_allowed("destroy", OtherMembers(network[a], cur[a]))
<1>1. ASSUME NEW a \in Actor, NEW c \in Command, NEW S \in Targets, Begin(a, c, S)
      PROVE  DecidedInv'
  <2>1. \A b \in Actor : network[b] = None
    BY <1>1 DEF Begin, Idle, Before, ControlInv
  <2>2. QED
    BY <1>1, <2>1 DEF Begin, DecidedInv
<1>2. ASSUME NEW a \in Actor, ActorStep(a)
      PROVE  DecidedInv'
  <2>1. \A b \in Actor \ {a} : network'[b] = None
    BY <1>2, OthersIdle
  <2>2. SUFFICES P(a)'
    BY <2>1 DEF DecidedInv
  <2>3. P(a)
    BY DEF DecidedInv
  <2>4. CASE Return(a)
    BY <2>4, Returned DEF Before
  <2>5. ASSUME pc[a] = "next", UNCHANGED network
        PROVE  P(a)'
    BY <2>5 DEF Before, ControlInv
  <2>6. ASSUME NEW n \in Network, CheckNetwork(a, n)
        PROVE  P(a)'
    <3>1. UNCHANGED <<status, action, cur>> /\ network[a] = None
      BY <2>6 DEF CheckNetwork
    <3>2. network'[a] # None =>
            /\ network'[a] = n
            /\ network_action_allowed(action[a], OtherMembers(n, cur[a]))
      BY <2>6, <3>1 DEF CheckNetwork, Before, TypeOK
    <3>3. QED
      BY <3>1, <3>2 DEF network_action_allowed
  <2>7. ASSUME UNCHANGED <<status, action, cur, network>>
        PROVE  P(a)'
    BY <2>3, <2>7 DEF network_action_allowed
  <2>8. ASSUME NetworkDone(a) \/ WriteStatus(a)
        PROVE  P(a)'
    BY <2>8 DEF NetworkDone, WriteStatus, Before, TypeOK
  <2>9. ASSUME NEW h \in Hypervisor, ActOnNetwork(a, h)
        PROVE  P(a)'
    BY <2>4, <2>7, <2>9, NetworkActionCases DEF Before
  <2>10. ASSUME DomainAction(a)
         PROVE  P(a)'
    BY <2>4, <2>7, <2>10, DomainActionCases DEF Before
  <2>11. ASSUME NEW d \in Device, NextDevice(a, d)
         PROVE  P(a)'
    BY <2>5, <2>11 DEF NextDevice
  <2>12. ASSUME NextStep(a)
         PROVE  P(a)'
    BY <2>4, <2>5, <2>12 DEF NextStep
  <2>13. QED
    BY <1>2, <2>6, <2>8, <2>9, <2>10, <2>11, <2>12 DEF ActorStep
<1>3. ASSUME NEW d \in Device, SyncDevice(d)
      PROVE  DecidedInv'
  <2>1. \A b \in Actor : network[b] = None
    BY <1>3 DEF SyncDevice, Idle, Before, ControlInv
  <2>2. QED
    BY <1>3, <2>1 DEF SyncDevice, actors, DecidedInv
<1>4. CASE UNCHANGED vars
  BY <1>4 DEF vars, actors, DecidedInv, network_action_allowed
<1>5. QED
  BY <1>1, <1>2, <1>3, <1>4 DEF Next

Recorded == {"started", "ready", "sync-error", "stopping"}

\* The device is not between its own action and the status of that action.
Settled(d) == \A a \in Actor : cur[a] = d => pc[a] = "pre"

LEMMA StatusStep ==
  ASSUME Serial, Careful, Before, CacheInv, StoppedInv, StatusInv, [Next]_vars
  PROVE  StatusInv'
<1> SUFFICES ASSUME NEW d \in Device \ Unmanaged,
                    dom'[d] = "running", Settled(d)'
             PROVE  status'[d] \in Recorded
  BY DEF StatusInv, Recorded, Settled
<1>1. dom[d] = "running" /\ Settled(d) => status[d] \in Recorded
  BY DEF StatusInv, Recorded, Settled
<1>2. ASSUME NEW a \in Actor, NEW c \in Command, NEW S \in Targets, Begin(a, c, S)
      PROVE  status'[d] \in Recorded
  <2>1. UNCHANGED <<dom, status>>
    BY <1>2 DEF Begin
  <2>2. Settled(d)
    BY <1>2 DEF Begin, Idle, Before, ControlInv, Settled
  <2>3. QED
    BY <1>1, <2>1, <2>2
<1>3. ASSUME NEW a \in Actor, ActorStep(a)
      PROVE  status'[d] \in Recorded
  <2>1. \A b \in Actor \ {a} : cur[b] = None /\ cur'[b] = None
    BY <1>3, OthersIdle
  <2>2. d # None
    BY NetworkLifecycleAssumption
  <2>3. Settled(d) <=> (cur[a] = d => pc[a] = "pre")
    BY <2>1, <2>2 DEF Settled
  <2>4. cur'[a] = d => pc'[a] = "pre"
    BY DEF Settled
  <2>5. ASSUME UNCHANGED <<dom, status, pc, cur>>
        PROVE  status'[d] \in Recorded
    BY <1>1, <2>3, <2>4, <2>5
  <2>6. ASSUME UNCHANGED <<dom, status>>, pc[a] \in {"next", "pre"}
        PROVE  status'[d] \in Recorded
    BY <1>1, <2>2, <2>3, <2>6 DEF Before, ControlInv
  <2>7. ASSUME NEW e \in Device, NextDevice(a, e)
        PROVE  status'[d] \in Recorded
    BY <2>6, <2>7 DEF NextDevice
  <2>8. ASSUME NextStep(a)
        PROVE  status'[d] \in Recorded
    BY <2>6, <2>8 DEF NextStep
  <2>9. ASSUME NEW n \in Network, CheckNetwork(a, n)
        PROVE  status'[d] \in Recorded
    BY <2>5, <2>9 DEF CheckNetwork
  <2>10. ASSUME NEW h \in Hypervisor, ActOnNetwork(a, h)
         PROVE  status'[d] \in Recorded
    <3>1. CASE Return(a)
      BY <2>6, <2>10, <3>1, NoRaiseAfter, NetworkActionCases DEF Before
    <3>2. CASE ~Return(a)
      BY <2>5, <2>10, <3>2, NetworkActionCases DEF Before
    <3>3. QED
      BY <3>1, <3>2
  <2>11. ASSUME NetworkDone(a)
         PROVE  status'[d] \in Recorded
    BY <2>5, <2>11 DEF NetworkDone
  <2>12. ASSUME DomainAction(a)
         PROVE  status'[d] \in Recorded
    <3>1. pc[a] = "pre"
      BY <2>12 DEF DomainAction
    <3>2. CASE UNCHANGED dom
      BY <2>6, <2>12, <3>1, <3>2, DomainActionCases DEF Before
    <3>3. CASE ~UNCHANGED dom
      <4>1. /\ pc'[a] = "post" /\ UNCHANGED <<cur, status>>
            /\ d # cur[a] => dom'[d] = dom[d]
        BY <2>12, <3>3, DomainActionCases DEF Before, TypeOK
      <4>2. QED
        BY <1>1, <2>3, <2>4, <4>1
    <3>4. QED
      BY <3>2, <3>3
  <2>13. ASSUME WriteStatus(a)
         PROVE  status'[d] \in Recorded
    <3>1. /\ UNCHANGED dom /\ pc[a] = "post" /\ cur[a] \in Device
          /\ action[a] \in Actions
          /\ cur[a] \in scope[a] \ pend[a]
      BY <2>13 DEF WriteStatus, Before, TypeOK, ControlInv, Working
    <3>2. CASE d # cur[a]
      <4>1. status'[d] = status[d]
        BY <2>13, <3>1, <3>2 DEF WriteStatus, Before, TypeOK
      <4>2. QED
        BY <1>1, <2>3, <3>1, <3>2, <4>1
    <3>3. CASE d = cur[a]
      <4>1. status'[d] = DeviceStatusAfter(action[a], d \in Unmanaged)
        BY <2>13, <3>1, <3>3 DEF WriteStatus, Before, TypeOK
      <4>2. action[a] \in {"create", "shutdown"}
        BY <3>1, <3>3 DEF StoppedInv, Actions
      <4>3. QED
        BY <4>1, <4>2 DEF DeviceStatusAfter, ACTION_STATUS_MAP, Recorded
    <3>4. QED
      BY <3>2, <3>3
  <2>14. QED
    BY <1>3, <2>7, <2>8, <2>9, <2>10, <2>11, <2>12, <2>13 DEF ActorStep
<1>4. ASSUME NEW e \in Device, SyncDevice(e)
      PROVE  status'[d] \in Recorded
  <2>1. UNCHANGED <<dom, pc, cur>>
    BY <1>4 DEF SyncDevice, actors
  <2>2. status'[d] \in {status[d], "ready", "sync-error"}
    BY <1>4 DEF SyncDevice, Before, TypeOK
  <2>3. QED
    BY <1>1, <2>1, <2>2 DEF Settled, Recorded
<1>5. CASE UNCHANGED vars
  BY <1>1, <1>5 DEF vars, actors, Settled
<1>6. QED
  BY <1>2, <1>3, <1>4, <1>5 DEF Next

------------------------------------------------------------------------------
(* A network is destroyed under no running machine.                         *)

\* The members of a network about to be destroyed do not run: the one the
\* action is about was stopped first, the others are not recorded as running.
LEMMA DestroySafe ==
  ASSUME OneAtATime, ServeInv, NEW a \in Actor, NEW h \in Hypervisor,
         ActOnNetwork(a, h), action[a] = "destroy",
         NEW d \in Members[network[a]]
  PROVE  dom[d] # "running"
<1>1. /\ network[a] \in Network /\ pc[a] = "post" /\ cur[a] \in scope[a] \ pend[a]
      /\ Working(a)
  BY DEF ActOnNetwork, ServeInv, TypeOK, ControlInv, Working
<1>2. d \in Device \ Unmanaged
  BY <1>1, NetworkLifecycleAssumption DEF OneAtATime
<1>3. CASE d = cur[a]
  BY <1>1, <1>3 DEF ServeInv, StoppedInv
<1>4. CASE d # cur[a]
  <2>1. status[d] \in {"undefined", "defined", "unmanaged"}
    BY <1>1, <1>4 DEF ActOnNetwork, ServeInv, DecidedInv, OtherMembers,
                      network_action_allowed, AllowedStates
  <2>2. ASSUME NEW b \in Actor, cur[b] = d
        PROVE  FALSE
    <3>1. Working(b)
      BY <1>2, <2>2, NetworkLifecycleAssumption DEF ServeInv, ControlInv, Working
    <3>2. QED
      BY <1>1, <1>4, <2>2, <3>1 DEF ServeInv, Alone
  <2>3. QED
    BY <1>2, <2>1, <2>2 DEF ServeInv, StatusInv
<1>5. QED
  BY <1>3, <1>4

LEMMA ServeStep ==
  ASSUME OneAtATime, ServeInv, [Next]_vars
  PROVE  NetworksServe'
<1> SUFFICES ASSUME NEW d \in Device, dom'[d] = "running",
                    NEW n \in NetworksOf(d)
             PROVE  net'[<<n, Host[d]>>] = "active"
  BY DEF NetworksServe, Served
<1>1. dom[d] = "running" => net[<<n, Host[d]>>] = "active"
  BY DEF ServeInv, NetworksServe, Served
<1>2. n \in Network /\ d \in Members[n] /\ <<n, Host[d]>> \in NetHost
  BY NetworkLifecycleAssumption DEF NetworksOf, NetHost
<1>3. ASSUME UNCHANGED <<dom, net>>
      PROVE  net'[<<n, Host[d]>>] = "active"
  BY <1>1, <1>3
<1>4. ASSUME NEW a \in Actor, NEW h \in Hypervisor, ActOnNetwork(a, h)
      PROVE  net'[<<n, Host[d]>>] = "active"
  <2> DEFINE x == <<network[a], h>>
  <2>1. x \in NetHost /\ UNCHANGED dom
    BY <1>4, NetworkActionCases DEF ServeInv
  <2>2. net[<<n, Host[d]>>] = "active"
    BY <1>1, <2>1
  <2>3. CASE <<n, Host[d]>> # x
    <3>1. UNCHANGED net \/ \E s : net' = [net EXCEPT ![x] = s]
      BY <1>4, NetworkActionCases DEF ServeInv
    <3>2. QED
      BY <1>2, <2>1, <2>2, <2>3, <3>1 DEF ServeInv, TypeOK
  <2>4. CASE <<n, Host[d]>> = x
    <3>1. n = network[a] /\ net[x] = "active"
      BY <2>2, <2>4
    <3>2. action[a] # "destroy"
      BY <1>2, <1>4, <2>1, <3>1, DestroySafe
    <3>3. UNCHANGED net
      BY <1>4, <3>1, <3>2, NetworkActionCases DEF ServeInv
    <3>4. QED
      BY <2>2, <3>3
  <2>5. QED
    BY <2>3, <2>4
<1>5. ASSUME NEW a \in Actor, DomainAction(a)
      PROVE  net'[<<n, Host[d]>>] = "active"
  <2>1. UNCHANGED net /\ (dom[d] = "running" \/ Served(d))
    BY <1>5, DomainActionCases DEF ServeInv
  <2>2. QED
    BY <1>1, <2>1 DEF Served
<1>6. ASSUME NEW a \in Actor, ActorStep(a)
      PROVE  net'[<<n, Host[d]>>] = "active"
  BY <1>3, <1>4, <1>5, <1>6 DEF ActorStep, NextDevice, NextStep, CheckNetwork,
                                NetworkDone, WriteStatus
<1>7. CASE UNCHANGED vars
  BY <1>3, <1>7 DEF vars
<1>8. QED
  BY <1>3, <1>6, <1>7 DEF Next, Begin, SyncDevice

\* A running machine keeps its networks, whichever machines share them and
\* whatever fails, if every machine with a network has a NED and operations do
\* not overlap (ConnectionLibvirt.network_action_allowed).
THEOREM NetworksKept ==
  ASSUME OneAtATime
  PROVE  Spec => []NetworksServe
<1>1. Init => ServeInv
  BY InitInv
<1>2. ServeInv /\ [Next]_vars => ServeInv'
  BY TypeStep, ControlStep, AloneStep, CacheStep, StoppedStep, DecidedStep,
     StatusStep, ServeStep DEF ServeInv, Before, OneAtATime
<1>3. ServeInv => NetworksServe
  BY DEF ServeInv
<1>4. QED
  BY <1>1, <1>2, <1>3, PTL DEF Spec

------------------------------------------------------------------------------
(* Networks are released.                                                   *)

\* A network made for a link is on one hypervisor, that of both its ends.
LinksLocal ==
  \A n \in LinkNetwork : \A d, e \in Members[n] : Host[d] = Host[e]

\* A working invocation has cached exactly the networks that exist.
KnownInv == \A a \in Actor : Working(a) => known[a] = Existing

\* A network exists only where one of its members had it made.
PlacedInv ==
  \A n \in Network, h \in Hypervisor :
    net[<<n, h>>] # "absent" => \E d \in Members[n] : h \in HostsOf(n, d)

\* An invocation decides on the networks of its current device.
OwnInv ==
  \A a \in Actor :
    /\ nets[a] # {} => nets[a] \subseteq NetworksOf(cur[a])
    /\ network[a] # None => /\ network[a] \in NetworksOf(cur[a])
                            /\ hosts[a] \subseteq HostsOf(network[a], cur[a])

\* The devices that a destroy or an undefine has done with are recorded so.
WrittenInv ==
  \A a \in Actor : \A d \in scope[a] \ pend[a] :
    d # cur[a] => /\ action[a] = "destroy" => status[d] = "defined"
                  /\ action[a] = "undefine" => status[d] = "undefined"

\* What an action on networks leaves none in.
Leftover(act) == IF act = "destroy" THEN "active" ELSE "inactive"

\* Once the last of its members has been processed, a network is released; while
\* it is, this is so on the hypervisors already dealt with.
ReleasingInv ==
  \A a \in Actor :
    scope[a] = Device /\ action[a] \in {"destroy", "undefine"} =>
      \A n \in Network, h \in Hypervisor :
        /\ Members[n] \cap pend[a] = {}
        /\ \/ cur[a] \notin Members[n]
           \/ pc[a] = "post" /\ n \notin nets[a] /\ (network[a] = n => h \notin hosts[a])
        => net[<<n, h>>] # Leftover(action[a])

\* While an invocation takes a step the others are away.
LEMMA OthersAway ==
  ASSUME Before, NEW a \in Actor, ActorStep(a), NEW b \in Actor \ {a}
  PROVE  /\ ~Working(b) /\ action[b] = "none" /\ cur[b] = None /\ network[b] = None
         /\ nets[b] = {} /\ pc[b] = "idle"
         /\ ~Working(b)' /\ action'[b] = "none" /\ cur'[b] = None /\ network'[b] = None
         /\ nets'[b] = {} /\ pc'[b] = "idle"
<1>1. ~Working(b)
  BY StepsWork DEF Before, Alone
<1>2. QED
  BY <1>1, OthersStay DEF Before, ControlInv, Working, Stay

\* What an action makes of a network.
NetAfter(act, s) ==
  IF act = "define" /\ s = "absent" THEN "inactive"
  ELSE IF act = "undefine" /\ s = "inactive" THEN "absent"
  ELSE IF act = "create" /\ s = "inactive" THEN "active"
  ELSE IF act = "destroy" /\ s = "active" THEN "inactive"
  ELSE s

\* With a true cache no call to a network raises, and each does what it should.
LEMMA NetworkActionDone ==
  ASSUME Before, KnownInv, NEW a \in Actor, NEW h \in Hypervisor, ActOnNetwork(a, h)
  PROVE  LET x == <<network[a], h>>
         IN  /\ x \in NetHost /\ network[a] \in Network /\ Working(a)
             /\ h \in hosts[a]
             /\ UNCHANGED <<dom, status, pc, command, scope, action, pend, cur, nets, network>>
             /\ hosts' = [hosts EXCEPT ![a] = @ \ {h}]
             /\ net'[x] = NetAfter(action[a], net[x])
             /\ \A y \in NetHost \ {x} : net'[y] = net[y]
             /\ known'[a] = Existing'
<1> DEFINE x == <<network[a], h>>
           act == action[a]
           skip == (x \in known[a]) = (act = "define")
<1>1. /\ x \in NetHost /\ act \in {"define", "create", "destroy", "undefine"}
      /\ network[a] \in Network /\ Working(a)
  BY DEF ActOnNetwork, Before, TypeOK, ControlInv, NetHost, Working
<1>2. known[a] = Existing /\ (x \in known[a] <=> net[x] # "absent")
  BY <1>1 DEF KnownInv, Existing
<1>3. ~(~skip /\ (net[x] = "absent") # (act = "define"))
  BY <1>2
<1>4. /\ IF ~skip /\ Runs(act, x)
         THEN /\ net' = [net EXCEPT ![x] = After(act)]
              /\ known' = [known EXCEPT ![a] =
                   CASE act = "define"   -> @ \cup {x}
                     [] act = "undefine" -> @ \ {x}
                     [] OTHER            -> @]
         ELSE UNCHANGED <<net, known>>
      /\ hosts' = [hosts EXCEPT ![a] = @ \ {h}]
      /\ UNCHANGED <<dom, status, pc, command, scope, action, pend, cur, nets, network>>
      /\ h \in hosts[a]
  BY <1>3 DEF ActOnNetwork
<1>5. net[x] \in {"absent", "inactive", "active"}
  BY <1>1 DEF Before, TypeOK
<1>6. CASE ~(~skip /\ Runs(act, x))
  <2>1. net[x] = NetAfter(act, net[x])
    <3>1. CASE skip
      BY <1>1, <1>2, <1>5, <3>1 DEF NetAfter
    <3>2. CASE ~Runs(act, x)
      BY <1>1, <1>5, <3>2 DEF NetAfter, Runs, ActionAllowed
    <3> QED BY <1>6, <3>1, <3>2
  <2>2. UNCHANGED <<net, known>>
    BY <1>4, <1>6
  <2> QED BY <1>1, <1>2, <1>4, <2>1, <2>2 DEF Existing
<1>7. CASE ~skip /\ Runs(act, x)
  <2>1. net' = [net EXCEPT ![x] = After(act)]
    BY <1>4, <1>7
  <2>2. net'[x] = After(act) /\ \A y \in NetHost \ {x} : net'[y] = net[y]
    BY <1>1, <2>1 DEF Before, TypeOK
  <2>3. After(act) = NetAfter(act, net[x])
    BY <1>1, <1>2, <1>5, <1>7 DEF After, NetAfter, Runs, ActionAllowed
  <2>4. known'[a] = Existing'
    <3>1. known' = [known EXCEPT ![a] =
                   CASE act = "define"   -> @ \cup {x}
                     [] act = "undefine" -> @ \ {x}
                     [] OTHER            -> @]
      BY <1>4, <1>7
    <3>2. known'[a] = CASE act = "define"   -> known[a] \cup {x}
                        [] act = "undefine" -> known[a] \ {x}
                        [] OTHER            -> known[a]
      BY <3>1 DEF Before, TypeOK
    <3>3. CASE act = "define"
      BY <1>1, <1>2, <2>2, <3>2, <3>3 DEF After, Existing
    <3>4. CASE act = "undefine"
      BY <1>1, <1>2, <2>2, <3>2, <3>4 DEF After, Existing
    <3>5. CASE act \in {"create", "destroy"}
      <4>1. net[x] # "absent"
        BY <1>2, <1>7, <3>5
      <4> QED BY <1>1, <1>2, <2>2, <3>2, <3>5, <4>1 DEF After, Existing
    <3> QED BY <1>1, <3>3, <3>4, <3>5
  <2> QED BY <1>1, <1>4, <2>2, <2>3, <2>4
<1> QED BY <1>6, <1>7

\* The cache stays true.
LEMMA KnownStep ==
  ASSUME Serial, Before, KnownInv, [Next]_vars
  PROVE  KnownInv'
<1>1. ASSUME NEW a \in Actor, NEW c \in Command, NEW S \in Targets, Begin(a, c, S)
      PROVE  KnownInv'
  BY <1>1 DEF Begin, Idle, Before, TypeOK, KnownInv, Working, Existing
<1>2. ASSUME NEW a \in Actor, ActorStep(a)
      PROVE  KnownInv'
  <2>1. \A b \in Actor \ {a} : ~Working(b)'
    BY <1>2, OthersAway
  <2>2. known[a] = Existing
    BY <1>2, StepsWork DEF KnownInv, Before
  <2>3. ASSUME Working(a)' PROVE known'[a] = Existing'
    <3>1. CASE \E h \in Hypervisor : ActOnNetwork(a, h)
      BY <3>1, NetworkActionDone
    <3>2. CASE NextStep(a)
      BY <2>2, <2>3, <3>2, Returned DEF NextStep, Existing, Before, TypeOK, Working
    <3>3. CASE DomainAction(a)
      BY <2>2, <2>3, <3>3, Returned DEF DomainAction, Existing, Before, TypeOK, Working
    <3> QED BY <1>2, <2>2, <3>1, <3>2, <3>3
            DEF ActorStep, NextDevice, CheckNetwork, NetworkDone, WriteStatus, Existing
  <2> QED BY <2>1, <2>3 DEF KnownInv
<1>3. ASSUME NEW d \in Device, SyncDevice(d)
      PROVE  KnownInv'
  BY <1>3 DEF SyncDevice, actors, KnownInv, Working, Existing
<1>4. CASE UNCHANGED vars
  BY <1>4 DEF vars, actors, KnownInv, Working, Existing
<1> QED BY <1>1, <1>2, <1>3, <1>4 DEF Next

\* The networks at hand stay those of the current device.
LEMMA OwnStep ==
  ASSUME Serial, Before, KnownInv, OwnInv, [Next]_vars
  PROVE  OwnInv'
<1> USE NetworkLifecycleAssumption
<1>1. ASSUME NEW a \in Actor, NEW c \in Command, NEW S \in Targets, Begin(a, c, S)
      PROVE  OwnInv'
  BY <1>1 DEF Begin, OwnInv
<1>2. ASSUME NEW a \in Actor, ActorStep(a)
      PROVE  OwnInv'
  <2>1. \A b \in Actor \ {a} : nets'[b] = {} /\ network'[b] = None
    BY <1>2, OthersAway
  <2>2. SUFFICES /\ nets'[a] # {} => nets'[a] \subseteq NetworksOf(cur'[a])
                 /\ network'[a] # None => /\ network'[a] \in NetworksOf(cur'[a])
                                          /\ hosts'[a] \subseteq HostsOf(network'[a], cur'[a])
    BY <2>1 DEF OwnInv, NetworksOf, HostsOf
  <2>3. CASE Return(a)
    BY <2>3, Returned DEF Before
  <2>4. CASE \E d \in Device : NextDevice(a, d)
    <3>1. network[a] = None
      BY <2>4 DEF NextDevice, Before, ControlInv
    <3> QED BY <2>4, <3>1 DEF NextDevice, Before, TypeOK, Considered
  <2>5. CASE NextStep(a) /\ ~Return(a)
    BY <2>5 DEF NextStep, OwnInv
  <2>6. CASE \E n \in Network : CheckNetwork(a, n)
    BY <2>6 DEF CheckNetwork, Before, TypeOK, OwnInv
  <2>7. CASE \E h \in Hypervisor : ActOnNetwork(a, h)
    <3>1. PICK h \in Hypervisor : ActOnNetwork(a, h)
      BY <2>7
    <3>2. UNCHANGED <<cur, nets, network>> /\ hosts' = [hosts EXCEPT ![a] = @ \ {h}]
      BY <3>1, NetworkActionDone
    <3>3. hosts'[a] = hosts[a] \ {h}
      BY <3>2 DEF Before, TypeOK
    <3> QED BY <3>2, <3>3 DEF OwnInv
  <2>8. CASE NetworkDone(a)
    BY <2>8 DEF NetworkDone, Before, TypeOK, OwnInv
  <2>9. CASE DomainAction(a) /\ ~Return(a)
    BY <2>9 DEF DomainAction, Before, TypeOK, Considered
  <2>10. CASE WriteStatus(a)
    BY <2>10 DEF WriteStatus, Before, TypeOK
  <2> QED BY <1>2, <2>3, <2>4, <2>5, <2>6, <2>7, <2>8, <2>9, <2>10 DEF ActorStep
<1>3. ASSUME NEW d \in Device, SyncDevice(d)
      PROVE  OwnInv'
  BY <1>3 DEF SyncDevice, actors, OwnInv
<1>4. CASE UNCHANGED vars
  BY <1>4 DEF vars, actors, OwnInv
<1> QED BY <1>1, <1>2, <1>3, <1>4 DEF Next

\* Networks appear only where a member has its own defined.
LEMMA PlacedStep ==
  ASSUME Serial, Before, KnownInv, OwnInv, PlacedInv, [Next]_vars
  PROVE  PlacedInv'
<1>1. ASSUME NEW a \in Actor, NEW g \in Hypervisor, ActOnNetwork(a, g)
      PROVE  PlacedInv'
  <2> SUFFICES ASSUME NEW n \in Network, NEW h \in Hypervisor, net'[<<n, h>>] # "absent"
               PROVE  \E d \in Members[n] : h \in HostsOf(n, d)
    BY DEF PlacedInv
  <2>1. CASE <<n, h>> = <<network[a], g>>
    <3>1. network[a] # None
      BY <1>1 DEF ActOnNetwork
    <3>2. cur[a] \in Members[n] /\ h \in HostsOf(n, cur[a])
      BY <1>1, <2>1, <3>1, NetworkActionDone DEF OwnInv, NetworksOf
    <3> QED BY <3>2
  <2>2. CASE <<n, h>> # <<network[a], g>>
    <3>1. <<n, h>> \in NetHost
      BY DEF NetHost
    <3>2. net'[<<n, h>>] = net[<<n, h>>]
      BY <1>1, <2>2, <3>1, NetworkActionDone
    <3> QED BY <3>2 DEF PlacedInv
  <2> QED BY <2>1, <2>2
<1>2. CASE UNCHANGED net
  BY <1>2 DEF PlacedInv
<1> QED BY <1>1, <1>2
    DEF Next, ActorStep, Begin, SyncDevice, NextDevice, NextStep, CheckNetwork, NetworkDone,
        DomainAction, WriteStatus, vars

\* The statuses of the devices done with stay as written.
LEMMA WrittenStep ==
  ASSUME Serial, Before, KnownInv, WrittenInv, [Next]_vars
  PROVE  WrittenInv'
<1> USE NetworkLifecycleAssumption
<1>1. ASSUME NEW a \in Actor, NEW c \in Command, NEW S \in Targets, Begin(a, c, S)
      PROVE  WrittenInv'
  BY <1>1 DEF Begin, WrittenInv, Before, TypeOK
<1>2. ASSUME NEW a \in Actor, ActorStep(a)
      PROVE  WrittenInv'
  <2>1. \A b \in Actor \ {a} : action'[b] = "none"
    BY <1>2, OthersAway
  <2> DEFINE W == \A d \in scope[a] \ pend[a] :
                    d # cur[a] => /\ action[a] = "destroy" => status[d] = "defined"
                                  /\ action[a] = "undefine" => status[d] = "undefined"
  <2>2. SUFFICES W'
    BY <2>1 DEF WrittenInv
  <2>3. W
    BY DEF WrittenInv
  <2>4. CASE Return(a)
    BY <2>4, Returned DEF Before
  <2>5. CASE \E d \in Device : NextDevice(a, d)
    BY <2>3, <2>5 DEF NextDevice, Before, TypeOK, ControlInv
  <2>6. CASE NextStep(a) /\ ~Return(a)
    BY <2>6 DEF NextStep, Before, TypeOK
  <2>7. CASE UNCHANGED <<status, scope, action, pend, cur>>
    BY <2>3, <2>7
  <2>8. CASE \E h \in Hypervisor : ActOnNetwork(a, h)
    BY <2>7, <2>8, NetworkActionDone
  <2>9. CASE DomainAction(a)
    BY <2>4, <2>7, <2>9, DomainActionCases DEF Before
  <2>10. CASE WriteStatus(a)
    <3>1. /\ UNCHANGED <<scope, action, pend>>
          /\ \A d \in Device : status'[d] =
               IF d = cur[a] THEN DeviceStatusAfter(action[a], cur[a] \in Unmanaged)
                             ELSE status[d]
          /\ scope[a] \subseteq Device
      BY <2>10 DEF WriteStatus, Before, TypeOK
    <3> QED BY <2>3, <3>1 DEF DeviceStatusAfter, ACTION_STATUS_MAP
  <2> QED BY <1>2, <2>4, <2>5, <2>6, <2>7, <2>8, <2>9, <2>10
          DEF ActorStep, CheckNetwork, NetworkDone
<1>3. ASSUME NEW d \in Device, SyncDevice(d)
      PROVE  WrittenInv'
  <2>1. UNCHANGED actors /\ \A a \in Actor : action[a] = "none"
    BY <1>3 DEF SyncDevice, Idle, Before, ControlInv, Working
  <2> QED BY <2>1 DEF actors, WrittenInv
<1>4. CASE UNCHANGED vars
  BY <1>4 DEF vars, actors, WrittenInv
<1> QED BY <1>1, <1>2, <1>3, <1>4 DEF Next

\* What ReleasingInv says of one invocation.
Releasing(a) ==
  scope[a] = Device /\ action[a] \in {"destroy", "undefine"} =>
    \A n \in Network, h \in Hypervisor :
      /\ Members[n] \cap pend[a] = {}
      /\ \/ cur[a] \notin Members[n]
         \/ pc[a] = "post" /\ n \notin nets[a] /\ (network[a] = n => h \notin hosts[a])
      => net[<<n, h>>] # Leftover(action[a])

\* No network is left where no machine has an interface.
LEMMA NoMembers ==
  ASSUME PlacedInv, NEW n \in Network, NEW h \in Hypervisor, Members[n] = {}
  PROVE  net[<<n, h>>] = "absent"
BY DEF PlacedInv

\* The hypervisors of a network are the same for all its members.
LEMMA SameHosts ==
  ASSUME LinksLocal, NEW n \in Network, NEW d \in Members[n], NEW e \in Members[n]
  PROVE  HostsOf(n, d) = HostsOf(n, e)
BY DEF LinksLocal, HostsOf

\* The decision about a network: the others have been processed, so it is to act.
LEMMA ReleasingCheck ==
  ASSUME LinksLocal, Before, OwnInv, WrittenInv, PlacedInv, NEW a \in Actor, Releasing(a),
         NEW m \in Network, CheckNetwork(a, m)
  PROVE  Releasing(a)'
<1>0. /\ UNCHANGED <<net, status, pc, command, scope, action, pend, cur>>
      /\ network[a] = None /\ m \in nets[a] /\ pc[a] \in {"pre", "post"}
      /\ nets'[a] = nets[a] \ {m}
      /\ IF network_action_allowed(action[a], OtherMembers(m, cur[a]))
         THEN network'[a] = m /\ hosts'[a] = HostsOf(m, cur[a])
         ELSE network'[a] = None
  BY DEF CheckNetwork, Before, TypeOK
<1> SUFFICES ASSUME scope[a] = Device, action[a] \in {"destroy", "undefine"},
                    NEW n \in Network, NEW h \in Hypervisor, Members[n] \cap pend[a] = {},
                    \/ cur[a] \notin Members[n]
                    \/ /\ pc[a] = "post" /\ n \notin nets'[a]
                       /\ network'[a] = n => h \notin hosts'[a]
             PROVE  net[<<n, h>>] # Leftover(action[a])
  BY <1>0 DEF Releasing
<1>1. CASE n # m \/ cur[a] \notin Members[n]
  BY <1>0, <1>1, NetworkLifecycleAssumption DEF Releasing
<1>2. CASE n = m /\ cur[a] \in Members[n]
  <2>1. \A d \in OtherMembers(m, cur[a]) :
          status[d] = IF action[a] = "destroy" THEN "defined" ELSE "undefined"
    BY <1>2, NetworkLifecycleAssumption DEF OtherMembers, WrittenInv
  <2>2. network_action_allowed(action[a], OtherMembers(m, cur[a]))
    BY <2>1 DEF network_action_allowed, AllowedStates
  <2>3. h \notin HostsOf(m, cur[a])
    BY <1>0, <1>2, <2>2
  <2>4. net[<<n, h>>] = "absent"
    BY <1>2, <2>3, SameHosts DEF PlacedInv
  <2> QED BY <2>4 DEF Leftover
<1> QED BY <1>1, <1>2

\* The action on it, hypervisor by hypervisor.
LEMMA ReleasingAct ==
  ASSUME Before, KnownInv, OwnInv, NEW a \in Actor, Releasing(a),
         NEW g \in Hypervisor, ActOnNetwork(a, g)
  PROVE  Releasing(a)'
<1>0. /\ UNCHANGED <<pc, scope, action, pend, cur, nets, network>>
      /\ network[a] \in Network /\ network[a] # None /\ <<network[a], g>> \in NetHost
      /\ hosts'[a] = hosts[a] \ {g}
      /\ net'[<<network[a], g>>] = NetAfter(action[a], net[<<network[a], g>>])
      /\ \A y \in NetHost \ {<<network[a], g>>} : net'[y] = net[y]
  <2>1. /\ UNCHANGED <<pc, scope, action, pend, cur, nets, network>>
        /\ network[a] \in Network /\ <<network[a], g>> \in NetHost
        /\ hosts' = [hosts EXCEPT ![a] = @ \ {g}]
        /\ net'[<<network[a], g>>] = NetAfter(action[a], net[<<network[a], g>>])
        /\ \A y \in NetHost \ {<<network[a], g>>} : net'[y] = net[y]
    BY NetworkActionDone
  <2>2. network[a] # None
    BY DEF ActOnNetwork
  <2>3. hosts'[a] = hosts[a] \ {g}
    BY <2>1 DEF Before, TypeOK
  <2> QED BY <2>1, <2>2, <2>3
<1> SUFFICES ASSUME scope[a] = Device, action[a] \in {"destroy", "undefine"},
                    NEW n \in Network, NEW h \in Hypervisor, Members[n] \cap pend[a] = {},
                    \/ cur[a] \notin Members[n]
                    \/ /\ pc[a] = "post" /\ n \notin nets[a]
                       /\ network[a] = n => h \notin hosts'[a]
             PROVE  net'[<<n, h>>] # Leftover(action[a])
  BY <1>0 DEF Releasing
<1>1. CASE n = network[a] /\ h = g
  <2>1. NetAfter(action[a], net[<<n, h>>]) # Leftover(action[a])
    BY DEF NetAfter, Leftover
  <2> QED BY <1>0, <1>1, <2>1
<1>2. CASE n # network[a] \/ h # g
  <2>1. net'[<<n, h>>] = net[<<n, h>>]
    <3>1. <<n, h>> \in NetHost \ {<<network[a], g>>}
      BY <1>2 DEF NetHost
    <3> QED BY <1>0, <3>1
  <2>2. net[<<n, h>>] # Leftover(action[a])
    BY <1>0, <1>2 DEF Releasing
  <2> QED BY <2>1, <2>2
<1> QED BY <1>1, <1>2

\* Every step keeps what has been released.
LEMMA ReleasingStep ==
  ASSUME Serial, LinksLocal, Before, KnownInv, OwnInv, WrittenInv, PlacedInv, PlacedInv',
         ReleasingInv, [Next]_vars
  PROVE  ReleasingInv'
<1> USE NetworkLifecycleAssumption
<1>0. \A a \in Actor : Releasing(a)
  BY DEF ReleasingInv, Releasing
<1> SUFFICES \A a \in Actor : Releasing(a)'
  BY DEF ReleasingInv, Releasing
<1>1. ASSUME NEW a \in Actor, NEW c \in Command, NEW S \in Targets, Begin(a, c, S),
             NEW b \in Actor
      PROVE  Releasing(b)'
  <2>1. CASE b # a
    BY <1>0, <1>1, <2>1 DEF Begin, Releasing, Before, TypeOK
  <2>2. CASE b = a
    <3>1. pend'[a] = scope'[a]
      BY <1>1 DEF Begin, Before, TypeOK
    <3>2. \A n \in Network, h \in Hypervisor : Members[n] = {} => net'[<<n, h>>] = "absent"
      BY DEF PlacedInv
    <3> QED BY <2>2, <3>1, <3>2 DEF Releasing, Leftover
  <2> QED BY <2>1, <2>2
<1>2. ASSUME NEW a \in Actor, ActorStep(a), NEW b \in Actor
      PROVE  Releasing(b)'
  <2>1. CASE b # a
    <3>1. action'[b] = "none"
      BY <1>2, <2>1, OthersAway
    <3> QED BY <3>1 DEF Releasing
  <2>2. CASE b = a
    <3>1. CASE Return(a)
      BY <2>2, <3>1, Returned DEF Before, Releasing
    <3>2. CASE \E d \in Device : NextDevice(a, d)
      <4>1. PICK d \in Device : NextDevice(a, d)
        BY <3>2
      <4>2. /\ UNCHANGED <<net, scope, action>> /\ pc'[a] = "pre" /\ cur'[a] = d
            /\ pend'[a] = pend[a] \ {d} /\ cur[a] = None
        BY <4>1 DEF NextDevice, Before, TypeOK, ControlInv
      <4>3. \A n \in Network : Members[n] \subseteq Device
        OBVIOUS
      <4> QED BY <1>0, <2>2, <4>2, <4>3 DEF Releasing
    <3>3. CASE NextStep(a) /\ ~Return(a)
      <4>1. pend'[a] = scope'[a]
        BY <3>3 DEF NextStep, Before, TypeOK
      <4>2. \A n \in Network, h \in Hypervisor : Members[n] = {} => net'[<<n, h>>] = "absent"
        BY DEF PlacedInv
      <4> QED BY <2>2, <4>1, <4>2 DEF Releasing, Leftover
    <3>4. CASE \E n \in Network : CheckNetwork(a, n)
      BY <1>0, <2>2, <3>4, ReleasingCheck
    <3>5. CASE \E h \in Hypervisor : ActOnNetwork(a, h)
      BY <1>0, <2>2, <3>5, ReleasingAct
    <3>6. CASE NetworkDone(a)
      BY <1>0, <2>2, <3>6 DEF NetworkDone, Releasing, Before, TypeOK
    <3>7. CASE DomainAction(a) /\ ~Return(a)
      <4>1. /\ UNCHANGED <<net, scope, action, pend, cur>>
            /\ nets'[a] = Considered(cur[a], action[a], "post")
            /\ action[a] \in {"destroy", "undefine"} => nets'[a] = NetworksOf(cur[a])
        BY <3>7 DEF DomainAction, Before, TypeOK, Considered
      <4>2. \A n \in Network : cur[a] \in Members[n] => n \in NetworksOf(cur[a])
        BY DEF NetworksOf
      <4> QED BY <1>0, <2>2, <4>1, <4>2 DEF Releasing
    <3>8. CASE WriteStatus(a)
      <4>1. /\ UNCHANGED <<net, scope, action, pend>>
            /\ pc[a] = "post" /\ nets[a] = {} /\ network[a] = None
        BY <3>8 DEF WriteStatus
      <4> QED BY <1>0, <2>2, <4>1 DEF Releasing
    <3> QED BY <1>2, <3>1, <3>2, <3>3, <3>4, <3>5, <3>6, <3>7, <3>8 DEF ActorStep
  <2> QED BY <2>1, <2>2
<1>3. ASSUME NEW d \in Device, SyncDevice(d), NEW b \in Actor
      PROVE  Releasing(b)'
  BY <1>0, <1>3 DEF SyncDevice, actors, Releasing
<1>4. ASSUME UNCHANGED vars, NEW b \in Actor
      PROVE  Releasing(b)'
  BY <1>0, <1>4 DEF vars, actors, Releasing
<1> QED BY <1>1, <1>2, <1>3, <1>4 DEF Next

ReleaseInv ==
  Before /\ KnownInv /\ OwnInv /\ WrittenInv /\ PlacedInv /\ ReleasingInv

\* A stop of the whole topology leaves no network active, an undefine leaves none
\* behind that is not active, whatever was started, stopped or failed before: the
\* last machine of each network finds the others recorded as stopped or gone
\* (ConnectionLibvirt.network_action_allowed).
THEOREM NetworksGone ==
  ASSUME Serial, LinksLocal
  PROVE  Spec => []NetworksReleased
<1>1. Init => ReleaseInv
  BY InitInv DEF Init, ServeInv, ReleaseInv, Before, KnownInv, OwnInv, WrittenInv, PlacedInv,
     ReleasingInv, Working, NetHost
<1>2. ReleaseInv /\ [Next]_vars => ReleaseInv'
  <2> SUFFICES ASSUME ReleaseInv, [Next]_vars PROVE ReleaseInv'
    OBVIOUS
  <2>1. Before'
    BY TypeStep, ControlStep, AloneStep DEF ReleaseInv, Before
  <2>2. KnownInv' /\ OwnInv' /\ WrittenInv' /\ PlacedInv'
    BY KnownStep, OwnStep, WrittenStep, PlacedStep DEF ReleaseInv
  <2>3. ReleasingInv'
    BY <2>2, ReleasingStep DEF ReleaseInv
  <2> QED BY <2>1, <2>2, <2>3 DEF ReleaseInv
<1>3. ReleaseInv => NetworksReleased
  <2> SUFFICES ASSUME ReleaseInv, NEW a \in Actor, NEW act \in {"destroy", "undefine"},
                      Completes(a, act), NEW x \in NetHost
               PROVE  net[x] # Leftover(act)
    BY DEF NetworksReleased, Leftover
  <2>1. PICK n \in Network, h \in Hypervisor : x = <<n, h>>
    BY DEF NetHost
  <2>2. cur[a] = None /\ pend[a] = {} /\ scope[a] = Device /\ action[a] = act
    BY DEF Completes, ReleaseInv, Before, ControlInv
  <2>3. cur[a] \notin Members[n] /\ Members[n] \cap pend[a] = {}
    BY <2>2, NetworkLifecycleAssumption
  <2> QED BY <2>1, <2>2, <2>3 DEF ReleaseInv, ReleasingInv
<1> QED BY <1>1, <1>2, <1>3, PTL DEF Spec

------------------------------------------------------------------------------
(* Networks are ready.                                                      *)

\* The operator gives one command at a time, each where it applies, link networks
\* are local, and the calls that shut machines down do not raise: a machine whose
\* destroy raised would stay recorded as stopping, which counts as up.
Orderly ==
  /\ Serial
  /\ Careful
  /\ LinksLocal
  /\ Failing \cap {"shutdown", "destroy"} = {}

\* The statuses of machines that keep their networks up.
Up == {"started", "ready", "sync-error"}

\* All networks of the machine are active wherever it needs them.
FullyServed(d) ==
  \A n \in NetworksOf(d) : \A h \in HostsOf(n, d) : net[<<n, h>>] = "active"

\* A decision on a network still holds when it is carried out.
DecisionInv ==
  \A a \in Actor : network[a] # None =>
    network_action_allowed(action[a], OtherMembers(network[a], cur[a]))

\* Exactly the machines that are not defined are recorded so.
GoneInv ==
  \A d \in Device :
    Settled(d) => (status[d] = "undefined" <=> dom[d] = "absent")

\* Actions other than define are run on machines that exist.
ThereInv ==
  \A a \in Actor :
    /\ pc[a] = "post" => (dom[cur[a]] = "absent" <=> action[a] = "undefine")
    /\ action[a] \in {"create", "shutdown", "destroy"} =>
         \A d \in scope[a] : dom[d] # "absent"
    /\ action[a] = "define" =>
         \A d \in scope[a] \ pend[a] :
           (cur[a] = d /\ pc[a] = "pre") \/ dom[d] # "absent"

\* A machine that exists has its networks defined.
DefinedInv ==
  \A d \in Device : dom[d] # "absent" =>
    \A n \in NetworksOf(d) : \A h \in HostsOf(n, d) : net[<<n, h>>] # "absent"

\* A machine recorded as up has its networks active, until it is destroyed.
UpInv ==
  \A d \in Device :
    /\ status[d] \in Up
    /\ \A a \in Actor : cur[a] = d => action[a] # "destroy"
    => FullyServed(d)

\* A machine is recorded as stopping only during the stop that will destroy it.
StoppingInv ==
  \A d \in Device : status[d] = "stopping" =>
    \E a \in Actor :
      /\ d \in scope[a]
      /\ \/ action[a] = "shutdown"
         \/ action[a] = "destroy" /\ (d \in pend[a] \/ d = cur[a])

\* The action on the current machine is done with a network on a hypervisor.
Passed(a, n, h) == n \notin nets[a] /\ (network[a] = n => h \notin hosts[a])

\* What it is done with is defined, or active, whoever made it so.
PassInv ==
  \A a \in Actor : cur[a] # None =>
    \A n \in NetworksOf(cur[a]) : \A h \in HostsOf(n, cur[a]) :
      /\ action[a] = "define" /\ pc[a] = "pre" /\ Passed(a, n, h) =>
           net[<<n, h>>] # "absent"
      /\ action[a] = "create" /\ (pc[a] = "post" \/ Passed(a, n, h)) =>
           net[<<n, h>>] = "active"

\* Everything the following steps rely on.
Prior == Before /\ CacheInv /\ KnownInv /\ OwnInv /\ StoppedInv /\ StatusInv

\* An invocation returns between two devices, or before the action on a domain
\* raises or cannot find its networks active.
LEMMA ReturnsFrom ==
  ASSUME Orderly, Prior, NEW a \in Actor, ActorStep(a), Return(a)
  PROVE  /\ UNCHANGED <<dom, net, status>>
         /\ \/ pc[a] = "next" /\ pend[a] = {} /\ action[a] # "shutdown"
            \/ /\ pc[a] = "pre" /\ nets[a] = {} /\ network[a] = None
               /\ action[a] \notin {"shutdown", "destroy"}
<1>0. pc'[a] = "idle" /\ pc[a] # "idle"
  BY Returned, StepsWork DEF Prior, Before, Working
<1>1. CASE \E d \in Device : NextDevice(a, d)
  BY <1>0, <1>1 DEF NextDevice, Prior, Before, TypeOK
<1>2. CASE NextStep(a)
  <2>1. action[a] # "shutdown"
    <3>1. CASE action[a] = "shutdown"
      <4>1. NextAction(command[a], action[a]) = "destroy"
        BY <3>1 DEF NextAction
      <4> QED BY <1>0, <1>2, <4>1 DEF NextStep
    <3> QED BY <3>1
  <2> QED BY <1>2, <2>1 DEF NextStep
<1>3. CASE \E n \in Network : CheckNetwork(a, n)
  BY <1>0, <1>3 DEF CheckNetwork
<1>4. CASE \E h \in Hypervisor : ActOnNetwork(a, h)
  BY <1>0, <1>4, NetworkActionDone DEF Prior
<1>5. CASE NetworkDone(a)
  BY <1>0, <1>5 DEF NetworkDone
<1>6. CASE DomainAction(a)
  <2>1. pc'[a] # "post"
    BY <1>0
  <2>2. Effective(cur[a], action[a]) /\ (action[a] \in Failing \/ action[a] = "create")
    BY <1>6, <2>1 DEF DomainAction, Prior, Before, TypeOK
  <2>3. action[a] \notin {"shutdown", "destroy"}
    BY <2>2 DEF Orderly
  <2>4. UNCHANGED dom
    BY <1>6, <2>1 DEF DomainAction, Prior, Before, TypeOK
  <2> QED BY <1>6, <2>3, <2>4 DEF DomainAction
<1>7. CASE WriteStatus(a)
  BY <1>0, <1>7 DEF WriteStatus, Prior, Before, TypeOK
<1> QED BY <1>1, <1>2, <1>3, <1>4, <1>5, <1>6, <1>7 DEF ActorStep

\* The action on a domain that does not raise.
LEMMA DomainActionDone ==
  ASSUME Prior, NEW a \in Actor, DomainAction(a), ~Return(a)
  PROVE  /\ UNCHANGED <<net, status, command, scope, action, pend, cur, network, hosts, known>>
         /\ pc[a] = "pre" /\ nets[a] = {} /\ network[a] = None
         /\ cur[a] \in Device /\ action[a] \in Actions
         /\ pc'[a] = "post" /\ nets'[a] = Considered(cur[a], action[a], "post")
         /\ \A d \in Device : d # cur[a] => dom'[d] = dom[d]
         /\ dom'[cur[a]] \in IF Effective(cur[a], action[a])
                             THEN DomainAfter(cur[a], action[a]) ELSE {dom[cur[a]]}
<1>1. cur[a] \in Device /\ action[a] \in Actions
  BY DEF DomainAction, Prior, Before, TypeOK, ControlInv, Working
<1>2. /\ \E s \in IF Effective(cur[a], action[a])
                  THEN DomainAfter(cur[a], action[a]) ELSE {dom[cur[a]]} :
           dom' = [dom EXCEPT ![cur[a]] = s]
      /\ pc' = [pc EXCEPT ![a] = "post"]
      /\ nets' = [nets EXCEPT ![a] = Considered(cur[a], action[a], "post")]
      /\ UNCHANGED <<net, status, command, scope, action, pend, cur, network, hosts, known>>
      /\ pc[a] = "pre" /\ nets[a] = {} /\ network[a] = None
  BY DEF DomainAction
<1> QED BY <1>1, <1>2 DEF Prior, Before, TypeOK

\* The status is written at the end of the action on a device.
LEMMA StatusWritten ==
  ASSUME Prior, NEW a \in Actor, WriteStatus(a)
  PROVE  /\ UNCHANGED <<dom, net, scope, action, pend, nets, network, hosts>>
         /\ pc[a] = "post" /\ nets[a] = {} /\ network[a] = None
         /\ cur[a] \in Device /\ cur[a] \in scope[a] \ pend[a] /\ action[a] \in Actions
         /\ pc'[a] = "next" /\ cur'[a] = None
         /\ status'[cur[a]] = DeviceStatusAfter(action[a], cur[a] \in Unmanaged)
         /\ \A d \in Device : d # cur[a] => status'[d] = status[d]
BY DEF WriteStatus, Prior, Before, TypeOK, ControlInv, Working

\* Decisions are carried out before any status changes.
LEMMA DecisionStep ==
  ASSUME Orderly, Prior, DecisionInv, [Next]_vars
  PROVE  DecisionInv'
<1> DEFINE P(a) == network[a] # None =>
                     network_action_allowed(action[a], OtherMembers(network[a], cur[a]))
<1>1. ASSUME NEW a \in Actor, NEW c \in Command, NEW S \in Targets, Begin(a, c, S)
      PROVE  DecisionInv'
  <2>1. \A b \in Actor : network[b] = None
    BY <1>1 DEF Begin, Orderly, Idle, Prior, Before, ControlInv
  <2> QED BY <1>1, <2>1 DEF Begin, DecisionInv
<1>2. ASSUME NEW a \in Actor, ActorStep(a)
      PROVE  DecisionInv'
  <2>1. \A b \in Actor \ {a} : network'[b] = None
    BY <1>2, OthersAway DEF Prior
  <2>2. SUFFICES P(a)'
    BY <2>1 DEF DecisionInv
  <2>3. P(a)
    BY DEF DecisionInv
  <2>4. CASE Return(a)
    BY <2>4, Returned DEF Prior, Before
  <2>5. CASE network'[a] = None
    BY <2>5
  <2>6. CASE UNCHANGED <<status, action, cur, network>>
    BY <2>3, <2>6 DEF network_action_allowed
  <2>7. CASE \E n \in Network : CheckNetwork(a, n)
    <3>1. PICK n \in Network : CheckNetwork(a, n)
      BY <2>7
    <3>2. UNCHANGED <<status, action, cur>>
      BY <3>1 DEF CheckNetwork
    <3>3. network'[a] # None =>
            /\ network'[a] = n
            /\ network_action_allowed(action[a], OtherMembers(n, cur[a]))
      BY <3>1 DEF CheckNetwork, Prior, Before, TypeOK
    <3> QED BY <3>2, <3>3 DEF network_action_allowed
  <2>8. CASE \E h \in Hypervisor : ActOnNetwork(a, h)
    BY <2>6, <2>8, NetworkActionDone DEF Prior
  <2>9. CASE DomainAction(a) /\ ~Return(a)
    BY <2>5, <2>9, DomainActionDone
  <2>10. CASE NetworkDone(a)
    BY <2>5, <2>10 DEF NetworkDone, Prior, Before, TypeOK
  <2>11. CASE WriteStatus(a)
    BY <2>5, <2>11, StatusWritten
  <2>12. CASE (\E d \in Device : NextDevice(a, d)) \/ (NextStep(a) /\ ~Return(a))
    BY <2>5, <2>12 DEF NextDevice, NextStep, Prior, Before, ControlInv
  <2> QED BY <1>2, <2>4, <2>7, <2>8, <2>9, <2>10, <2>11, <2>12 DEF ActorStep
<1>3. ASSUME NEW d \in Device, SyncDevice(d)
      PROVE  DecisionInv'
  <2>1. \A b \in Actor : network[b] = None
    BY <1>3 DEF SyncDevice, Orderly, Idle, Prior, Before, ControlInv
  <2> QED BY <1>3, <2>1 DEF SyncDevice, actors, DecisionInv
<1>4. CASE UNCHANGED vars
  BY <1>4 DEF vars, actors, DecisionInv, network_action_allowed
<1> QED BY <1>1, <1>2, <1>3, <1>4 DEF Next

\* A machine's own action keeps its record right.
LEMMA GoneStep ==
  ASSUME Orderly, Prior, GoneInv, ThereInv, [Next]_vars
  PROVE  GoneInv'
<1> SUFFICES ASSUME NEW d \in Device, Settled(d)'
             PROVE  status'[d] = "undefined" <=> dom'[d] = "absent"
  BY DEF GoneInv
<1>0. Settled(d) => (status[d] = "undefined" <=> dom[d] = "absent")
  BY DEF GoneInv
<1>1. ASSUME NEW a \in Actor, NEW c \in Command, NEW S \in Targets, Begin(a, c, S)
      PROVE  status'[d] = "undefined" <=> dom'[d] = "absent"
  <2>1. Settled(d)
    BY <1>1 DEF Begin, Orderly, Idle, Prior, Before, ControlInv, Settled
  <2> QED BY <1>0, <1>1, <2>1 DEF Begin
<1>2. ASSUME NEW a \in Actor, ActorStep(a)
      PROVE  status'[d] = "undefined" <=> dom'[d] = "absent"
  <2>1. \A b \in Actor \ {a} : cur[b] = None /\ cur'[b] = None
    BY <1>2, OthersAway DEF Prior
  <2>2. d # None
    BY NetworkLifecycleAssumption
  <2>3. Settled(d) <=> (cur[a] = d => pc[a] = "pre")
    BY <2>1, <2>2 DEF Settled
  <2>4. cur'[a] = d => pc'[a] = "pre"
    BY DEF Settled
  <2>5. CASE UNCHANGED <<dom, status, pc, cur>>
    BY <1>0, <2>3, <2>4, <2>5
  <2>6. CASE UNCHANGED <<dom, status>> /\ pc[a] \in {"next", "pre"}
    BY <1>0, <2>2, <2>3, <2>6 DEF Prior, Before, ControlInv
  <2>7. CASE Return(a)
    BY <1>2, <2>6, <2>7, ReturnsFrom
  <2>8. CASE (\E e \in Device : NextDevice(a, e)) \/ (NextStep(a) /\ ~Return(a))
    BY <2>6, <2>8 DEF NextDevice, NextStep
  <2>9. CASE (\E n \in Network : CheckNetwork(a, n)) \/ NetworkDone(a)
    BY <2>5, <2>9 DEF CheckNetwork, NetworkDone
  <2>10. CASE \E h \in Hypervisor : ActOnNetwork(a, h)
    BY <2>5, <2>10, NetworkActionDone DEF Prior
  <2>11. CASE DomainAction(a) /\ ~Return(a)
    <3>1. d # cur[a]
      BY <2>4, <2>11, DomainActionDone
    <3> QED BY <1>0, <2>3, <2>11, <3>1, DomainActionDone
  <2>12. CASE WriteStatus(a)
    <3>1. CASE d # cur[a]
      BY <1>0, <2>3, <2>12, <3>1, StatusWritten
    <3>2. CASE d = cur[a]
      <4>1. dom[d] = "absent" <=> action[a] = "undefine"
        BY <2>12, <3>2, StatusWritten DEF ThereInv
      <4>2. status'[d] = "undefined" <=> action[a] = "undefine"
        BY <2>12, <3>2, StatusWritten DEF DeviceStatusAfter, ACTION_STATUS_MAP, Actions
      <4> QED BY <2>12, <4>1, <4>2, StatusWritten
    <3> QED BY <3>1, <3>2
  <2> QED BY <1>2, <2>7, <2>8, <2>9, <2>10, <2>11, <2>12 DEF ActorStep
<1>3. ASSUME NEW e \in Device, SyncDevice(e)
      PROVE  status'[d] = "undefined" <=> dom'[d] = "absent"
  <2>1. UNCHANGED <<dom, pc, cur>> /\ dom[e] = "running"
    BY <1>3 DEF SyncDevice, actors
  <2>2. status'[d] = status[d] \/ (d = e /\ status'[d] \in {"ready", "sync-error"})
    BY <1>3 DEF SyncDevice, Prior, Before, TypeOK
  <2> QED BY <1>0, <2>1, <2>2 DEF Settled
<1>4. CASE UNCHANGED vars
  BY <1>0, <1>4 DEF vars, actors, Settled
<1> QED BY <1>1, <1>2, <1>3, <1>4 DEF Next

\* Commands are given where they apply, and define makes what it is run on.
LEMMA ThereStep ==
  ASSUME Orderly, Prior, ThereInv, [Next]_vars
  PROVE  ThereInv'
<1> DEFINE T(a) ==
      /\ pc[a] = "post" => (dom[cur[a]] = "absent" <=> action[a] = "undefine")
      /\ action[a] \in {"create", "shutdown", "destroy"} =>
           \A d \in scope[a] : dom[d] # "absent"
      /\ action[a] = "define" =>
           \A d \in scope[a] \ pend[a] :
             (cur[a] = d /\ pc[a] = "pre") \/ dom[d] # "absent"
<1>0. \A a \in Actor : T(a)
  BY DEF ThereInv
<1> SUFFICES \A a \in Actor : T(a)'
  BY DEF ThereInv
<1>1. ASSUME NEW a \in Actor, NEW c \in Command, NEW S \in Targets, Begin(a, c, S),
             NEW b \in Actor
      PROVE  T(b)'
  <2>1. CASE b # a
    BY <1>0, <1>1, <2>1 DEF Begin, Prior, Before, TypeOK
  <2>2. CASE b = a
    <3>1. /\ pc'[a] = "next" /\ action'[a] = FirstAction(c) /\ scope'[a] = S
          /\ pend'[a] = S /\ UNCHANGED dom
      BY <1>1 DEF Begin, Prior, Before, TypeOK
    <3>2. c \in Commands
      BY NetworkLifecycleAssumption
    <3>3. FirstAction(c) \in {"create", "shutdown", "destroy"} =>
            c \notin {"define", "undefine"}
      BY <3>2, ActionsFollow
    <3>4. c \notin {"define", "undefine"} => \A d \in S : dom[d] # "absent"
      BY <1>1 DEF Begin, Orderly, Applies
    <3> QED BY <2>2, <3>1, <3>3, <3>4
  <2> QED BY <2>1, <2>2
<1>2. ASSUME NEW a \in Actor, ActorStep(a), NEW b \in Actor
      PROVE  T(b)'
  <2>1. CASE b # a
    <3>1. action'[b] = "none" /\ pc'[b] = "idle"
      BY <1>2, <2>1, OthersAway DEF Prior
    <3> QED BY <3>1
  <2>2. SUFFICES T(a)'
    BY <2>1
  <2>3. T(a) /\ scope[a] \subseteq Device
    BY <1>0 DEF Prior, Before, TypeOK
  <2>4. CASE Return(a)
    BY <2>4, Returned DEF Prior, Before
  <2>5. CASE UNCHANGED <<dom, pc, scope, action, pend, cur>>
    BY <2>3, <2>5
  <2>6. CASE \E d \in Device : NextDevice(a, d)
    <3>1. PICK d \in Device : NextDevice(a, d)
      BY <2>6
    <3>2. /\ UNCHANGED <<dom, scope, action>> /\ pc[a] = "next" /\ pc'[a] = "pre"
          /\ cur'[a] = d /\ pend'[a] = pend[a] \ {d}
      BY <3>1 DEF NextDevice, Prior, Before, TypeOK
    <3> QED BY <2>3, <3>2
  <2>7. CASE NextStep(a) /\ ~Return(a)
    <3>1. /\ UNCHANGED <<dom, pc, scope>> /\ pc[a] = "next" /\ pend[a] = {}
          /\ action'[a] = NextAction(command[a], action[a]) /\ pend'[a] = scope[a]
      BY <2>7 DEF NextStep, Prior, Before, TypeOK
    <3>2. action'[a] \in {"create", "shutdown", "destroy"} =>
            action[a] \in {"define", "shutdown", "destroy"}
      BY <3>1 DEF NextAction
    <3>3. action[a] = "define" => \A d \in scope[a] : dom[d] # "absent"
      BY <2>3, <3>1
    <3> QED BY <2>3, <3>1, <3>2, <3>3
  <2>8. CASE (\E n \in Network : CheckNetwork(a, n)) \/ NetworkDone(a)
    BY <2>5, <2>8 DEF CheckNetwork, NetworkDone
  <2>9. CASE \E h \in Hypervisor : ActOnNetwork(a, h)
    BY <2>5, <2>9, NetworkActionDone DEF Prior
  <2>10. CASE DomainAction(a) /\ ~Return(a)
    <3> DEFINE d == cur[a]
    <3>1. /\ UNCHANGED <<scope, action, pend, cur>> /\ pc[a] = "pre" /\ pc'[a] = "post"
          /\ d \in Device /\ action[a] \in Actions
          /\ \A e \in Device : e # d => dom'[e] = dom[e]
          /\ dom'[d] \in IF Effective(d, action[a])
                         THEN DomainAfter(d, action[a]) ELSE {dom[d]}
      BY <2>10, DomainActionDone
    <3>2. d \in scope[a] \ pend[a]
      BY <3>1 DEF Prior, Before, ControlInv
    <3>3. dom'[d] = "absent" <=> action[a] = "undefine"
      <4>1. CASE action[a] = "undefine"
        <5>1. dom[d] # "running"
          BY <3>2, <4>1 DEF Prior, StoppedInv
        <5> QED BY <3>1, <4>1, <5>1 DEF Effective, ActionAllowed, DomainAfter
      <4>2. CASE action[a] = "define"
        BY <3>1, <4>2 DEF Effective, DomainAfter
      <4>3. CASE action[a] \in {"create", "shutdown", "destroy"}
        <5>1. dom[d] # "absent"
          BY <2>3, <3>2, <4>3
        <5> QED BY <3>1, <4>3, <5>1 DEF DomainAfter
      <4> QED BY <3>1, <4>1, <4>2, <4>3 DEF Actions
    <3> QED BY <2>3, <3>1, <3>3
  <2>11. CASE WriteStatus(a)
    BY <2>3, <2>11, StatusWritten
  <2> QED BY <1>2, <2>4, <2>6, <2>7, <2>8, <2>9, <2>10, <2>11 DEF ActorStep
<1>3. ASSUME NEW d \in Device, SyncDevice(d), NEW b \in Actor
      PROVE  T(b)'
  BY <1>0, <1>3 DEF SyncDevice, actors
<1>4. ASSUME UNCHANGED vars, NEW b \in Actor
      PROVE  T(b)'
  BY <1>0, <1>4 DEF vars, actors
<1> QED BY <1>1, <1>2, <1>3, <1>4 DEF Next

\* Under Alone, an invocation that acts on a device is the one that works.
LEMMA TheOther ==
  ASSUME Prior, NEW a \in Actor, Working(a), NEW d \in Device, d # cur[a]
  PROVE  \A b \in Actor : cur[b] # d
<1> SUFFICES ASSUME NEW b \in Actor, cur[b] = d PROVE FALSE
  OBVIOUS
<1>1. Working(b)
  BY NetworkLifecycleAssumption DEF Prior, Before, ControlInv, Working
<1> QED BY <1>1 DEF Prior, Before, Alone

\* A network is undefined only under machines that are gone.
LEMMA UndefineSafe ==
  ASSUME Orderly, Prior, DecisionInv, GoneInv, ThereInv, NEW a \in Actor,
         NEW h \in Hypervisor, ActOnNetwork(a, h), action[a] = "undefine",
         NEW d \in Members[network[a]]
  PROVE  dom[d] = "absent"
<1>1. network[a] \in Network /\ network[a] # None /\ Working(a) /\ pc[a] = "post"
  BY NetworkActionDone DEF ActOnNetwork, Prior, Before, ControlInv
<1>2. d \in Device
  BY <1>1, NetworkLifecycleAssumption
<1>3. CASE d = cur[a]
  BY <1>1, <1>3 DEF ThereInv
<1>4. CASE d # cur[a]
  <2>1. status[d] = "undefined"
    BY <1>1, <1>4 DEF DecisionInv, OtherMembers, network_action_allowed, AllowedStates
  <2>2. Settled(d)
    BY <1>1, <1>2, <1>4, TheOther DEF Settled
  <2> QED BY <1>2, <2>1, <2>2 DEF GoneInv
<1> QED BY <1>3, <1>4

\* A machine that exists keeps its networks defined.
LEMMA DefinedStep ==
  ASSUME Orderly, Prior, DecisionInv, GoneInv, ThereInv, PassInv, DefinedInv, [Next]_vars
  PROVE  DefinedInv'
<1> SUFFICES ASSUME NEW d \in Device, dom'[d] # "absent", NEW n \in NetworksOf(d),
                    NEW h \in HostsOf(n, d)
             PROVE  net'[<<n, h>>] # "absent"
  BY DEF DefinedInv, NetworksOf, HostsOf
<1>0. /\ dom[d] # "absent" => net[<<n, h>>] # "absent"
      /\ n \in Network /\ d \in Members[n] /\ h \in Hypervisor /\ <<n, h>> \in NetHost
  BY NetworkLifecycleAssumption DEF DefinedInv, NetworksOf, HostsOf, NetHost
<1>1. CASE UNCHANGED <<dom, net>>
  BY <1>0, <1>1
<1>2. ASSUME NEW a \in Actor, NEW g \in Hypervisor, ActOnNetwork(a, g)
      PROVE  net'[<<n, h>>] # "absent"
  <2>1. UNCHANGED dom
    BY <1>2, NetworkActionDone DEF Prior
  <2>2. CASE <<n, h>> # <<network[a], g>>
    <3>1. net'[<<n, h>>] = net[<<n, h>>]
      BY <1>0, <1>2, <2>2, NetworkActionDone DEF Prior
    <3> QED BY <1>0, <2>1, <3>1
  <2>3. CASE <<n, h>> = <<network[a], g>>
    <3>1. n = network[a]
      BY <2>3
    <3>2. action[a] # "undefine"
      BY <1>0, <1>2, <2>1, <3>1, UndefineSafe
    <3>3. net'[<<n, h>>] = NetAfter(action[a], net[<<n, h>>])
      BY <1>2, <2>3, NetworkActionDone DEF Prior
    <3> QED BY <1>0, <2>1, <3>2, <3>3 DEF NetAfter
  <2> QED BY <2>2, <2>3
<1>3. ASSUME NEW a \in Actor, DomainAction(a), ~Return(a)
      PROVE  net'[<<n, h>>] # "absent"
  <2>1. UNCHANGED net
    BY <1>3, DomainActionDone
  <2>2. CASE dom[d] # "absent"
    BY <1>0, <2>1, <2>2
  <2>3. CASE dom[d] = "absent"
    <3>0. d = cur[a] /\ Effective(d, action[a])
      <4>1. d = cur[a]
        BY <1>3, <2>3, DomainActionDone
      <4> QED BY <1>3, <2>3, <4>1, DomainActionDone
    <3>1. d = cur[a] /\ action[a] = "define"
      BY <2>3, <3>0 DEF Effective
    <3>2. Passed(a, n, h) /\ pc[a] = "pre"
      <4>1. pc[a] = "pre" /\ nets[a] = {} /\ network[a] = None
        BY <1>3, DomainActionDone
      <4>2. n # None
        BY <1>0, NetworkLifecycleAssumption
      <4> QED BY <4>1, <4>2 DEF Passed
    <3>3. cur[a] # None
      BY <3>1, NetworkLifecycleAssumption
    <3> QED BY <2>1, <3>1, <3>2, <3>3 DEF PassInv
  <2> QED BY <2>2, <2>3
<1>4. ASSUME NEW a \in Actor, ActorStep(a)
      PROVE  net'[<<n, h>>] # "absent"
  <2>1. CASE Return(a)
    BY <1>1, <1>4, <2>1, ReturnsFrom
  <2> QED BY <1>1, <1>2, <1>3, <1>4, <2>1 DEF ActorStep, NextDevice, NextStep, CheckNetwork,
                                          NetworkDone, WriteStatus
<1> QED BY <1>1, <1>4 DEF Next, Begin, SyncDevice, vars

\* A machine is destroyed by the stop that shut it down.
LEMMA StoppingStep ==
  ASSUME Orderly, Prior, StoppingInv, [Next]_vars
  PROVE  StoppingInv'
<1> DEFINE S(d, a) == /\ d \in scope[a]
                      /\ \/ action[a] = "shutdown"
                         \/ action[a] = "destroy" /\ (d \in pend[a] \/ d = cur[a])
<1>0. ASSUME Idle, NEW d \in Device, status[d] = "stopping"
      PROVE  FALSE
  BY <1>0 DEF StoppingInv, Idle, Prior, Before, ControlInv, Working
<1>1. ASSUME NEW a \in Actor, NEW c \in Command, NEW T \in Targets, Begin(a, c, T)
      PROVE  StoppingInv'
  BY <1>0, <1>1 DEF Begin, Orderly, StoppingInv
<1>2. ASSUME NEW a \in Actor, ActorStep(a)
      PROVE  StoppingInv'
  <2> SUFFICES ASSUME NEW d \in Device, status'[d] = "stopping"
               PROVE  S(d, a)'
    BY DEF StoppingInv
  <2>1. \A b \in Actor \ {a} : action[b] = "none"
    BY <1>2, OthersAway DEF Prior
  <2>2. status[d] = "stopping" => S(d, a)
    BY <2>1 DEF StoppingInv
  <2>3. d # None
    BY NetworkLifecycleAssumption
  <2>4. CASE Return(a)
    <3>1. /\ UNCHANGED status
          /\ \/ pend[a] = {} /\ action[a] # "shutdown" /\ pc[a] = "next"
             \/ action[a] \notin {"shutdown", "destroy"}
      BY <1>2, <2>4, ReturnsFrom
    <3>2. pc[a] = "next" => cur[a] = None
      BY DEF Prior, Before, ControlInv
    <3> QED BY <2>2, <2>3, <3>1, <3>2
  <2>5. CASE UNCHANGED <<status, scope, action, pend, cur>>
    BY <2>2, <2>5
  <2>6. CASE \E e \in Device : NextDevice(a, e)
    <3>1. PICK e \in Device : NextDevice(a, e)
      BY <2>6
    <3>2. /\ UNCHANGED <<status, scope, action>> /\ cur[a] = None
          /\ cur'[a] = e /\ pend'[a] = pend[a] \ {e}
      BY <3>1 DEF NextDevice, Prior, Before, TypeOK, ControlInv
    <3> QED BY <2>2, <2>3, <3>2
  <2>7. CASE NextStep(a) /\ ~Return(a)
    <3>1. /\ UNCHANGED <<status, scope>> /\ pc[a] = "next" /\ pend[a] = {} /\ cur[a] = None
          /\ action'[a] = NextAction(command[a], action[a]) /\ pend'[a] = scope[a]
      BY <2>7 DEF NextStep, Prior, Before, TypeOK, ControlInv
    <3>2. action[a] = "shutdown" => action'[a] = "destroy"
      BY <3>1 DEF NextAction
    <3> QED BY <2>2, <2>3, <3>1, <3>2
  <2>8. CASE (\E n \in Network : CheckNetwork(a, n)) \/ NetworkDone(a)
    BY <2>5, <2>8 DEF CheckNetwork, NetworkDone
  <2>9. CASE \E h \in Hypervisor : ActOnNetwork(a, h)
    BY <2>5, <2>9, NetworkActionDone DEF Prior
  <2>10. CASE DomainAction(a) /\ ~Return(a)
    BY <2>5, <2>10, DomainActionDone
  <2>11. CASE WriteStatus(a)
    <3>1. CASE d # cur[a]
      BY <2>2, <2>11, <3>1, StatusWritten
    <3>2. CASE d = cur[a]
      <4>1. action[a] = "shutdown"
        BY <2>11, <3>2, StatusWritten DEF DeviceStatusAfter, ACTION_STATUS_MAP, Actions
      <4> QED BY <2>11, <3>2, <4>1, StatusWritten
    <3> QED BY <3>1, <3>2
  <2> QED BY <1>2, <2>4, <2>6, <2>7, <2>8, <2>9, <2>10, <2>11 DEF ActorStep
<1>3. ASSUME NEW d \in Device, SyncDevice(d)
      PROVE  StoppingInv'
  <2>1. \A e \in Device : status'[e] # "stopping"
    BY <1>0, <1>3 DEF SyncDevice, Orderly, Prior, Before, TypeOK
  <2> QED BY <2>1 DEF StoppingInv
<1>4. CASE UNCHANGED vars
  BY <1>4 DEF vars, actors, StoppingInv
<1> QED BY <1>1, <1>2, <1>3, <1>4 DEF Next

\* While another machine is destroyed, the networks of one that is up stay active.
LEMMA UpStep ==
  ASSUME Orderly, Prior, DecisionInv, StoppingInv, PassInv, UpInv, [Next]_vars
  PROVE  UpInv'
<1> SUFFICES ASSUME NEW d \in Device, status'[d] \in Up,
                    \A a \in Actor : cur'[a] = d => action'[a] # "destroy",
                    NEW n \in NetworksOf(d), NEW h \in HostsOf(n, d)
             PROVE  net'[<<n, h>>] = "active"
  BY DEF UpInv, FullyServed, NetworksOf, HostsOf
<1> DEFINE Free == \A a \in Actor : cur[a] = d => action[a] # "destroy"
<1>0. /\ status[d] \in Up /\ Free => net[<<n, h>>] = "active"
      /\ n \in Network /\ d \in Members[n] /\ h \in Hypervisor /\ <<n, h>> \in NetHost
      /\ d # None
  BY NetworkLifecycleAssumption DEF UpInv, FullyServed, NetworksOf, HostsOf, NetHost
<1>1. ASSUME NEW a \in Actor, NEW c \in Command, NEW S \in Targets, Begin(a, c, S)
      PROVE  net'[<<n, h>>] = "active"
  <2>1. Free
    BY <1>0, <1>1 DEF Begin, Orderly, Idle, Prior, Before, ControlInv
  <2> QED BY <1>0, <1>1, <2>1 DEF Begin
<1>2. ASSUME NEW a \in Actor, ActorStep(a)
      PROVE  net'[<<n, h>>] = "active"
  <2>1. Working(a) /\ \A b \in Actor \ {a} : cur[b] = None /\ cur'[b] = None
    BY <1>2, OthersAway, StepsWork DEF Prior, Before
  <2>2. Free <=> (cur[a] = d => action[a] # "destroy")
    BY <1>0, <2>1
  <2>3. cur'[a] = d => action'[a] # "destroy"
    OBVIOUS
  <2>4. CASE UNCHANGED <<net, status, action, cur>>
    BY <1>0, <2>2, <2>3, <2>4
  <2>5. CASE UNCHANGED <<net, status>> /\ (cur[a] = None \/ action[a] # "destroy")
    BY <1>0, <2>2, <2>5
  <2>6. CASE Return(a)
    <3>1. pc[a] = "next" => cur[a] = None
      BY DEF Prior, Before, ControlInv
    <3> QED BY <1>2, <2>5, <2>6, <3>1, ReturnsFrom
  <2>7. CASE (\E e \in Device : NextDevice(a, e)) \/ (NextStep(a) /\ ~Return(a))
    BY <2>5, <2>7 DEF NextDevice, NextStep, Prior, Before, ControlInv
  <2>8. CASE (\E m \in Network : CheckNetwork(a, m)) \/ NetworkDone(a)
    BY <2>4, <2>8 DEF CheckNetwork, NetworkDone
  <2>9. CASE \E g \in Hypervisor : ActOnNetwork(a, g)
    <3>1. PICK g \in Hypervisor : ActOnNetwork(a, g)
      BY <2>9
    <3>2. UNCHANGED <<status, action, cur>> /\ network[a] # None
      BY <3>1, NetworkActionDone DEF Prior, ActOnNetwork
    <3>3. net[<<n, h>>] = "active"
      BY <1>0, <2>2, <2>3, <3>2
    <3>4. CASE <<n, h>> # <<network[a], g>>
      BY <1>0, <3>1, <3>3, <3>4, NetworkActionDone DEF Prior
    <3>5. CASE <<n, h>> = <<network[a], g>>
      <4>1. n = network[a]
        BY <3>5
      <4>2. action[a] # "destroy"
        <5> SUFFICES ASSUME action[a] = "destroy" PROVE FALSE
          OBVIOUS
        <5>1. d # cur[a]
          BY <2>3, <3>2
        <5>2. d \in OtherMembers(network[a], cur[a])
          BY <1>0, <4>1, <5>1 DEF OtherMembers
        <5>3. status[d] \in {"undefined", "defined", "unmanaged"}
          BY <3>2, <5>2 DEF DecisionInv, network_action_allowed, AllowedStates
        <5> QED BY <3>2, <5>3 DEF Up
      <4>3. net'[<<n, h>>] = NetAfter(action[a], net[<<n, h>>])
        BY <3>1, <3>5, NetworkActionDone DEF Prior
      <4> QED BY <3>3, <4>2, <4>3 DEF NetAfter
    <3> QED BY <3>4, <3>5
  <2>10. CASE DomainAction(a) /\ ~Return(a)
    BY <2>4, <2>10, DomainActionDone
  <2>11. CASE WriteStatus(a)
    <3>1. CASE d # cur[a]
      BY <1>0, <2>2, <2>11, <3>1, StatusWritten
    <3>2. CASE d = cur[a]
      <4>1. action[a] = "create"
        BY <2>11, <3>2, StatusWritten DEF DeviceStatusAfter, ACTION_STATUS_MAP, Actions, Up
      <4> QED BY <1>0, <2>11, <3>2, <4>1, StatusWritten DEF PassInv
    <3> QED BY <3>1, <3>2
  <2> QED BY <1>2, <2>6, <2>7, <2>8, <2>9, <2>10, <2>11 DEF ActorStep
<1>3. ASSUME NEW e \in Device, SyncDevice(e)
      PROVE  net'[<<n, h>>] = "active"
  <2>1. /\ UNCHANGED <<dom, net>> /\ dom[e] = "running" /\ e \notin Unmanaged /\ Idle
        /\ \A g \in Device : g # e => status'[g] = status[g]
    BY <1>3 DEF SyncDevice, Orderly, Prior, Before, TypeOK
  <2>2. \A a \in Actor : cur[a] = None /\ action[a] = "none"
    BY <2>1 DEF Idle, Prior, Before, ControlInv, Working
  <2>3. Free
    BY <1>0, <2>2
  <2>4. status[d] \in Up
    <3>1. CASE d # e
      BY <2>1, <3>1
    <3>2. CASE d = e
      <4>1. status[d] \in {"started", "ready", "sync-error", "stopping"}
        BY <1>0, <2>1, <2>2, <3>2 DEF Prior, StatusInv
      <4>2. status[d] # "stopping"
        BY <2>2 DEF StoppingInv
      <4> QED BY <4>1, <4>2 DEF Up
    <3> QED BY <3>1, <3>2
  <2> QED BY <1>0, <2>1, <2>3, <2>4
<1>4. CASE UNCHANGED vars
  BY <1>0, <1>4 DEF vars, actors
<1> QED BY <1>1, <1>2, <1>3, <1>4 DEF Next

\* A network the action has just passed over is as the action wants it, because
\* another machine that keeps it so is recorded as up, or as defined.
LEMMA PassCheck ==
  ASSUME Orderly, Prior, GoneInv, DefinedInv, UpInv, StoppingInv, NEW a \in Actor,
         NEW n \in NetworksOf(cur[a]), NEW h \in HostsOf(n, cur[a]),
         CheckNetwork(a, n), network'[a] # n
  PROVE  /\ action[a] = "define" => net[<<n, h>>] # "absent"
         /\ action[a] = "create" => net[<<n, h>>] = "active"
<1>0. n \in Network /\ cur[a] \in Members[n] /\ Working(a) /\ cur[a] \in Device
  BY DEF NetworksOf, CheckNetwork, Working, Prior, Before, TypeOK, ControlInv
<1>1. ~network_action_allowed(action[a], OtherMembers(n, cur[a]))
  BY DEF CheckNetwork, Prior, Before, TypeOK
<1>2. PICK d \in Members[n] : d # cur[a] /\ status[d] \notin AllowedStates[action[a]]
  BY <1>1 DEF network_action_allowed, OtherMembers
<1>3. d \in Device /\ h \in HostsOf(n, d) /\ n \in NetworksOf(d)
  BY <1>0, SameHosts, NetworkLifecycleAssumption DEF Orderly, NetworksOf
<1>4. \A b \in Actor : cur[b] # d
  BY <1>0, <1>2, <1>3, TheOther
<1>5. CASE action[a] = "define"
  <2>1. dom[d] # "absent"
    BY <1>2, <1>3, <1>4, <1>5 DEF GoneInv, Settled, AllowedStates
  <2> QED BY <1>3, <1>5, <2>1 DEF DefinedInv
<1>6. CASE action[a] = "create"
  <2>1. status[d] \in Up \cup {"stopping"}
    BY <1>2, <1>3, <1>6 DEF AllowedStates, Prior, Before, TypeOK, ProvisioningStatus, Up
  <2>2. status[d] # "stopping"
    <3> SUFFICES ASSUME status[d] = "stopping" PROVE FALSE
      OBVIOUS
    <3>1. PICK b \in Actor : action[b] \in {"shutdown", "destroy"}
      BY <1>3 DEF StoppingInv
    <3>2. Working(b)
      BY <3>1 DEF Prior, Before, ControlInv
    <3> QED BY <1>0, <1>6, <3>1, <3>2 DEF Prior, Before, Alone
  <2>3. FullyServed(d)
    BY <1>3, <1>4, <2>1, <2>2 DEF UpInv
  <2> QED BY <1>3, <1>6, <2>3 DEF FullyServed
<1> QED BY <1>5, <1>6

\* What PassInv says of one network of the current machine.
Kept(a, n, h) ==
  /\ action[a] = "define" /\ pc[a] = "pre" /\ Passed(a, n, h) => net[<<n, h>>] # "absent"
  /\ action[a] = "create" /\ (pc[a] = "post" \/ Passed(a, n, h)) => net[<<n, h>>] = "active"

\* A network passed over stays so until the machine is done with.
LEMMA PassStep ==
  ASSUME Orderly, Prior, GoneInv, ThereInv, DefinedInv, UpInv, StoppingInv, PassInv,
         [Next]_vars
  PROVE  PassInv'
<1> USE NetworkLifecycleAssumption
<1>0. \A a \in Actor : cur[a] # None =>
        \A n \in NetworksOf(cur[a]) : \A h \in HostsOf(n, cur[a]) : Kept(a, n, h)
  BY DEF PassInv, Kept
<1> SUFFICES ASSUME NEW a \in Actor, cur'[a] # None,
                    NEW n \in NetworksOf(cur'[a]), NEW h \in HostsOf(n, cur'[a])
             PROVE  Kept(a, n, h)'
  BY DEF PassInv, Kept
<1>w. cur'[a] \in Device
  BY TypeStep DEF Prior, Before, TypeOK
<1>x. n \in Network /\ n # None /\ h \in Hypervisor /\ <<n, h>> \in NetHost
  BY <1>w DEF NetHost, NetworksOf, HostsOf
<1>1. ASSUME NEW b \in Actor, NEW c \in Command, NEW S \in Targets, Begin(b, c, S)
      PROVE  Kept(a, n, h)'
  BY <1>1 DEF Begin, Orderly, Idle, Prior, Before, ControlInv
<1>2. ASSUME NEW b \in Actor, ActorStep(b), b # a
      PROVE  Kept(a, n, h)'
  BY <1>2, OthersAway DEF Prior
<1>3. ASSUME ActorStep(a)
      PROVE  Kept(a, n, h)'
  <2>1. CASE Return(a)
    BY <2>1, Returned DEF Prior, Before
  <2>2. CASE \E d \in Device : NextDevice(a, d)
    <3>1. PICK d \in Device : NextDevice(a, d)
      BY <2>2
    <3>2. /\ cur'[a] = d /\ pc'[a] = "pre" /\ nets'[a] = Considered(d, action[a], "pre")
          /\ UNCHANGED action
      BY <3>1 DEF NextDevice, Prior, Before, TypeOK
    <3>3. action[a] \in {"define", "create"} => n \in nets'[a]
      BY <3>2 DEF Considered
    <3> QED BY <3>2, <3>3 DEF Kept, Passed
  <2>3. CASE NextStep(a) /\ ~Return(a)
    BY <2>3 DEF NextStep, Prior, Before, TypeOK, ControlInv
  <2>4. CASE \E m \in Network : CheckNetwork(a, m)
    <3>1. PICK m \in Network : CheckNetwork(a, m)
      BY <2>4
    <3>2. /\ UNCHANGED <<net, pc, action, cur>> /\ nets'[a] = nets[a] \ {m} /\ network[a] = None
          /\ network'[a] \in {m, None}
          /\ network'[a] = m => hosts'[a] = HostsOf(m, cur[a])
      BY <3>1 DEF CheckNetwork, Prior, Before, TypeOK
    <3>3. Kept(a, n, h)
      BY <1>0, <3>2
    <3>4. CASE n # m
      BY <1>x, <3>2, <3>3, <3>4 DEF Kept, Passed
    <3>5. CASE n = m /\ network'[a] = m
      BY <3>2, <3>3, <3>5 DEF Kept, Passed
    <3>6. CASE n = m /\ network'[a] # m
      <4>1. /\ action[a] = "define" => net[<<n, h>>] # "absent"
            /\ action[a] = "create" => net[<<n, h>>] = "active"
        BY <3>1, <3>2, <3>6, PassCheck
      <4> QED BY <3>2, <4>1 DEF Kept
    <3> QED BY <3>4, <3>5, <3>6
  <2>5. CASE \E g \in Hypervisor : ActOnNetwork(a, g)
    <3>1. PICK g \in Hypervisor : ActOnNetwork(a, g)
      BY <2>5
    <3>2. /\ UNCHANGED <<dom, pc, action, cur, nets, network>> /\ hosts'[a] = hosts[a] \ {g}
          /\ network[a] # None
      BY <3>1, NetworkActionDone DEF Prior, Before, TypeOK, ActOnNetwork
    <3>3. Kept(a, n, h)
      BY <1>0, <3>2
    <3>4. CASE <<n, h>> # <<network[a], g>>
      <4>1. net'[<<n, h>>] = net[<<n, h>>]
        <5>1. <<n, h>> \in NetHost \ {<<network[a], g>>}
          BY <1>x, <3>4
        <5> QED BY <3>1, <5>1, NetworkActionDone DEF Prior
      <4>2. Passed(a, n, h)' => Passed(a, n, h)
        BY <3>2, <3>4 DEF Passed
      <4> QED BY <3>2, <3>3, <4>1, <4>2 DEF Kept
    <3>5. CASE <<n, h>> = <<network[a], g>>
      <4>1. net'[<<n, h>>] = NetAfter(action[a], net[<<n, h>>])
        BY <3>1, <3>5, NetworkActionDone DEF Prior
      <4>2. net[<<n, h>>] \in {"absent", "inactive", "active"}
        BY <1>x DEF Prior, Before, TypeOK
      <4>3. action[a] = "create" => net[<<n, h>>] # "absent"
        <5>1. cur[a] \in scope[a] /\ cur[a] \in Device
          BY <3>2 DEF Prior, Before, TypeOK, ControlInv
        <5> QED BY <3>2, <5>1 DEF ThereInv, DefinedInv
      <4> QED BY <3>2, <4>1, <4>2, <4>3 DEF Kept, NetAfter
    <3> QED BY <3>4, <3>5
  <2>6. CASE NetworkDone(a)
    <3>1. /\ UNCHANGED <<net, pc, action, cur, nets>> /\ hosts[a] = {}
      BY <2>6 DEF NetworkDone
    <3>2. Kept(a, n, h)
      BY <1>0, <3>1
    <3> QED BY <3>1, <3>2 DEF Kept, Passed
  <2>7. CASE DomainAction(a) /\ ~Return(a)
    <3>1. /\ UNCHANGED <<net, action, cur>> /\ nets[a] = {} /\ network[a] = None
          /\ pc'[a] = "post"
      BY <2>7, DomainActionDone
    <3>2. Kept(a, n, h)
      BY <1>0, <3>1
    <3>3. Passed(a, n, h)
      BY <1>x, <3>1 DEF Passed
    <3> QED BY <3>1, <3>2, <3>3 DEF Kept
  <2>8. CASE WriteStatus(a)
    BY <2>8, StatusWritten
  <2> QED BY <1>3, <2>1, <2>2, <2>3, <2>4, <2>5, <2>6, <2>7, <2>8 DEF ActorStep
<1>4. ASSUME NEW d \in Device, SyncDevice(d)
      PROVE  Kept(a, n, h)'
  BY <1>0, <1>4 DEF SyncDevice, actors, Kept, Passed
<1>5. CASE UNCHANGED vars
  BY <1>0, <1>5 DEF vars, actors, Kept, Passed
<1> QED BY <1>1, <1>2, <1>3, <1>4, <1>5 DEF Next

ReadyInv ==
  /\ Prior
  /\ DecisionInv /\ GoneInv /\ ThereInv
  /\ DefinedInv /\ UpInv /\ StoppingInv /\ PassInv

\* A machine is started only once every one of its networks is active on the
\* hypervisors it needs them on, those left to the machines that share them
\* included (ConnectionLibvirt.connection, network_action_allowed).
THEOREM NetworksUpFirst ==
  ASSUME Orderly
  PROVE  Spec => []NetworksReady
<1>1. Init => ReadyInv
  <2> SUFFICES ASSUME Init PROVE ReadyInv
    OBVIOUS
  <2>1. ServeInv
    BY InitInv
  <2>2. KnownInv /\ OwnInv
    BY DEF Init, KnownInv, OwnInv, Working
  <2>3. DecisionInv /\ GoneInv /\ ThereInv
    BY NetworkLifecycleAssumption DEF Init, DecisionInv, GoneInv, ThereInv
  <2>4. DefinedInv /\ UpInv /\ StoppingInv /\ PassInv
    BY DEF Init, DefinedInv, UpInv, StoppingInv, PassInv, Up
  <2> QED BY <2>1, <2>2, <2>3, <2>4 DEF ReadyInv, Prior, Before, ServeInv
<1>2. ReadyInv /\ [Next]_vars => ReadyInv'
  <2> SUFFICES ASSUME ReadyInv, [Next]_vars PROVE ReadyInv'
    OBVIOUS
  <2>1. Before'
    BY TypeStep, ControlStep, AloneStep DEF ReadyInv, Prior, Before, Orderly
  <2>2. CacheInv' /\ StoppedInv' /\ StatusInv'
    BY CacheStep, StoppedStep, StatusStep DEF ReadyInv, Prior, Orderly
  <2>3. KnownInv' /\ OwnInv'
    BY KnownStep, OwnStep DEF ReadyInv, Prior, Orderly
  <2>4. DecisionInv' /\ GoneInv' /\ ThereInv'
    BY DecisionStep, GoneStep, ThereStep DEF ReadyInv
  <2>5. DefinedInv' /\ UpInv' /\ StoppingInv' /\ PassInv'
    BY DefinedStep, UpStep, StoppingStep, PassStep DEF ReadyInv
  <2> QED BY <2>1, <2>2, <2>3, <2>4, <2>5 DEF ReadyInv, Prior
<1>3. ReadyInv => NetworksReady
  <2> SUFFICES ASSUME ReadyInv, NEW a \in Actor, pc[a] = "pre", nets[a] = {},
                      network[a] = None, action[a] = "create",
                      NEW n \in NetworksOf(cur[a])
               PROVE  net[<<n, Host[cur[a]]>>] = "active"
    BY DEF NetworksReady, Served
  <2>1. cur[a] # None /\ cur[a] \in Device
    BY DEF ReadyInv, Prior, Before, ControlInv, TypeOK
  <2>2. n \in Network /\ n # None
    BY NetworkLifecycleAssumption DEF NetworksOf
  <2>3. Host[cur[a]] \in HostsOf(n, cur[a])
    BY <2>1, NetworkLifecycleAssumption DEF HostsOf
  <2>4. Passed(a, n, Host[cur[a]])
    BY <2>2 DEF Passed
  <2> QED BY <2>1, <2>3, <2>4 DEF ReadyInv, PassInv
<1> QED BY <1>1, <1>2, <1>3, PTL DEF Spec
==============================================================================
