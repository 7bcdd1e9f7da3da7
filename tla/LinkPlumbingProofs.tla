------------------------- MODULE LinkPlumbingProofs --------------------------
(***************************************************************************)
(* Proofs about LinkPlumbing, for every set of devices, links and actors.  *)
(***************************************************************************)
EXTENDS LinkPlumbing, TLAPS

\* A link has two ends, one of them a container (ConnectionManager adds a
\* direct link per pair of devices).
LEMMA OtherEnd ==
  ASSUME NEW l \in Link, NEW d \in l
  PROVE  /\ Other(d, l) \in l
         /\ Other(d, l) # d
         /\ l = {d, Other(d, l)}
         /\ l \subseteq Device
<1>1. PICK c \in Container : \E e \in Device \ {c} : l = {c, e}
  BY LinkPlumbingAssumption
<1>2. PICK e \in Device \ {c} : l = {c, e}
  BY <1>1
<1>3. \E o \in l : o # d
  BY <1>2
<1>4. Other(d, l) \in l /\ Other(d, l) # d
  BY <1>3 DEF Other
<1>5. l = {d, Other(d, l)}
  BY <1>2, <1>4
<1>6. l \subseteq Device
  BY <1>2, LinkPlumbingAssumption
<1>7. QED
  BY <1>4, <1>5, <1>6

DomType == [Device -> {"shut", "running", "acpi"}]

NetworkType ==
  /\ pairs \subseteq VethLink
  /\ inside \subseteq End
  /\ tap \in [TapLink -> {"none", "host", "container", "lost"}]

\* A domain that goes down leaves well-typed interfaces behind.
LEMMA DomainDownType ==
  ASSUME NEW d \in Device, dom \in DomType, NetworkType, DomainDown(d)
  PROVE  dom' \in DomType /\ NetworkType'
<1>1. dom' \in DomType
  BY DEF DomType, DomainDown
<1>2. CASE d \in Container
  <2>1. NetnsGone(d)
    BY <1>2 DEF DomainDown
  <2>2. pairs' \subseteq VethLink
    BY <2>1 DEF NetnsGone, NetworkType
  <2>3. inside' \subseteq End
    BY <2>1 DEF NetnsGone, NetworkType
  <2>4. tap' \in [TapLink -> {"none", "host", "container", "lost"}]
    BY <2>1 DEF NetnsGone, NetworkType
  <2>5. QED
    BY <1>1, <2>2, <2>3, <2>4 DEF NetworkType
<1>3. CASE d \notin Container
  <2>1. TapsGone(d)
    BY <1>3 DEF DomainDown
  <2>2. QED
    BY <1>1, <2>1 DEF TapsGone, NetworkType
<1>4. QED
  BY <1>1, <1>2, <1>3

\* The cases of the domain step that change anything.
LEMMA DomainStepCases ==
  ASSUME NEW d \in Device, NEW act \in {"create", "shutdown", "destroy"},
         DomainStep(d, act)
  PROVE  \/ /\ UNCHANGED <<dom, network>>
            /\ ~ActionAllowed(Active(d), act) \/ (act = "destroy" /\ d \in Container)
         \/ act = "create" /\ ~Active(d) /\ DomainUp(d)
         \/ act = "shutdown" /\ Active(d) /\ d \in Container /\ DomainDown(d)
         \/ /\ act = "shutdown" /\ Active(d) /\ d \notin Container
            /\ dom' = [dom EXCEPT ![d] = "acpi"]
            /\ UNCHANGED network
         \/ act = "destroy" /\ Active(d) /\ d \notin Container /\ DomainDown(d)
<1>1. CASE ~ActionAllowed(Active(d), act)
  BY <1>1 DEF DomainStep
<1>2. CASE ActionAllowed(Active(d), act) /\ act = "create"
  BY <1>2 DEF DomainStep, ActionAllowed
<1>3. CASE ActionAllowed(Active(d), act) /\ act = "shutdown"
  BY <1>3 DEF DomainStep, ActionAllowed
<1>4. CASE ActionAllowed(Active(d), act) /\ act = "destroy"
  BY <1>4 DEF DomainStep, ActionAllowed
<1>5. QED
  BY <1>1, <1>2, <1>3, <1>4

LEMMA DomainStepType ==
  ASSUME NEW d \in Device, NEW act \in {"create", "shutdown", "destroy"},
         dom \in DomType, NetworkType, DomainStep(d, act)
  PROVE  dom' \in DomType /\ NetworkType'
<1>1. CASE UNCHANGED <<dom, network>>
  BY <1>1 DEF DomType, NetworkType, network
<1>2. CASE DomainUp(d)
  BY <1>2 DEF DomType, NetworkType, DomainUp, TapsCreated, network
<1>3. CASE dom' = [dom EXCEPT ![d] = "acpi"] /\ UNCHANGED network
  BY <1>3 DEF DomType, NetworkType, network
<1>4. CASE DomainDown(d)
  BY <1>4, DomainDownType
<1>5. QED
  BY <1>1, <1>2, <1>3, <1>4, DomainStepCases

\* The type invariant and the control invariant start out true.
LEMMA TypeInit == Init => TypeOK /\ ControlInv
BY LinkPlumbingAssumption
   DEF Init, TypeOK, ControlInv, ProvisioningStatus, PCs, Working, Plumbing

\* An invocation that ends leaves nothing behind.
LEMMA ReturnType ==
  ASSUME TypeOK, ControlInv, NEW a \in Actor, Return(a),
         UNCHANGED <<dom, status, network, checking>>
  PROVE  TypeOK' /\ ControlInv'
<1>1. TypeOK'
  BY DEF TypeOK, Return, network, PCs
<1>2. ControlInv'
  <2>1. /\ pc' = [pc EXCEPT ![a] = "idle"]
        /\ cur' = [cur EXCEPT ![a] = None]
        /\ action' = [action EXCEPT ![a] = "none"]
        /\ command' = [command EXCEPT ![a] = "none"]
    BY DEF Return
  <2>2. ASSUME NEW b \in Actor, b # a
        PROVE  /\ pc'[b] = pc[b] /\ cur'[b] = cur[b] /\ action'[b] = action[b]
               /\ command'[b] = command[b] /\ scope'[b] = scope[b]
               /\ pend'[b] = pend[b] /\ links'[b] = links[b] /\ link'[b] = link[b]
    BY <2>2 DEF Return, TypeOK
  <2>3. /\ pc'[a] = "idle" /\ cur'[a] = None /\ action'[a] = "none"
        /\ command'[a] = "none"
    BY <2>1 DEF TypeOK
  <2>4. QED
    BY <2>2, <2>3 DEF ControlInv, Working, Plumbing, LinksOf
<1>3. QED
  BY <1>1, <1>2

LEMMA TypeStep ==
  ASSUME TypeOK, ControlInv, [Next]_vars
  PROVE  TypeOK' /\ ControlInv'
<1> USE LinkPlumbingAssumption
<1> USE DEF TypeOK, ControlInv, PCs, Working, Plumbing, ProvisioningStatus
<1>1. ASSUME NEW a \in Actor, NEW c \in {"start", "stop", "reboot"},
             NEW S \in Targets, Begin(a, c, S)
      PROVE  TypeOK' /\ ControlInv'
  BY <1>1 DEF Begin, Targets, FirstAction, network
<1>2. ASSUME NEW a \in Actor, NEW d \in Device, NextDevice(a, d)
      PROVE  TypeOK' /\ ControlInv'
  BY <1>2 DEF NextDevice, LinksOf, network
<1>3. ASSUME NEW a \in Actor, NextStep(a)
      PROVE  TypeOK' /\ ControlInv'
  <2>1. CASE NextAction(command[a], action[a]) = "none"
    BY <1>3, <2>1, ReturnType DEF NextStep
  <2>2. CASE NextAction(command[a], action[a]) # "none"
    <3>1. \/ action[a] = "shutdown" /\ NextAction(command[a], action[a]) = "destroy"
          \/ /\ action[a] = "destroy" /\ command[a] = "reboot"
             /\ NextAction(command[a], action[a]) = "create"
      BY <1>3, <2>2 DEF NextStep, NextAction
    <3>2. QED
      BY <1>3, <2>2, <3>1 DEF NextStep, network
  <2>3. QED
    BY <2>1, <2>2
<1>4. ASSUME NEW a \in Actor, WaitForShutdown(a)
      PROVE  TypeOK' /\ ControlInv'
  BY <1>4 DEF WaitForShutdown, network
<1>5. ASSUME NEW a \in Actor, NEW l \in Link, Unplumb(a, l)
      PROVE  TypeOK' /\ ControlInv'
  BY <1>5 DEF Unplumb, UnplumbVeth, UnplumbTap, TapLink
<1>6. ASSUME NEW a \in Actor, PreDomainDone(a)
      PROVE  TypeOK' /\ ControlInv'
  BY <1>6 DEF PreDomainDone, network
<1>7. ASSUME NEW a \in Actor, DomainAction(a)
      PROVE  TypeOK' /\ ControlInv'
  <2>1. cur[a] \in Device /\ action[a] \in {"create", "shutdown", "destroy"}
    BY <1>7 DEF DomainAction
  <2>2. dom' \in DomType /\ NetworkType'
    BY <1>7, <2>1, DomainStepType DEF DomainAction, DomType, NetworkType
  <2>3. QED
    BY <1>7, <2>1, <2>2 DEF DomainAction, DomType, NetworkType, LinksOf
<1>8. ASSUME NEW a \in Actor, NEW l \in Link, CheckOwn(a, l)
      PROVE  TypeOK' /\ ControlInv'
  BY <1>8 DEF CheckOwn, MayPlumb, network
<1>9. ASSUME NEW a \in Actor, CheckPeer(a)
      PROVE  TypeOK' /\ ControlInv'
  BY <1>9 DEF CheckPeer, MayPlumb, LinkDone, network
<1>10. ASSUME NEW a \in Actor, PlumbOwn(a)
       PROVE  TypeOK' /\ ControlInv'
  <2>1. /\ link[a] \in Link /\ cur[a] \in link[a] /\ cur[a] \in Container
        /\ <<cur[a], link[a]>> \in Iface
    BY <1>10 DEF PlumbOwn, LinksOf, Iface
  <2>2. CASE Return(a) /\ UNCHANGED network
    BY <1>10, <2>2, ReturnType DEF PlumbOwn
  <2>3. CASE /\ pc' = [pc EXCEPT ![a] = "peer"] /\ UNCHANGED <<links, link>>
             /\ UNCHANGED <<command, scope, action, pend, cur>>
             /\ \/ UNCHANGED plumbed
                \/ plumbed' = [plumbed EXCEPT ![a] = @ \cup {<<cur[a], link[a]>>}]
    <3>1. plumbed' \in [Actor -> SUBSET Iface]
      BY <2>1, <2>3
    <3>2. NetworkType'
      BY <1>10, <2>1 DEF PlumbOwn, Plumb, MoveInside, NetworkType, network, End,
                         Iface, TapLink
    <3>3. UNCHANGED <<dom, status, checking, command, scope, action, pend, cur>>
      BY <1>10, <2>3 DEF PlumbOwn
    <3>4. TypeOK'
      <4>1. /\ pc' \in [Actor -> PCs]
            /\ links' \in [Actor -> SUBSET Link]
            /\ link' \in [Actor -> Link \cup {None}]
        BY <2>3
      <4>2. QED
        BY <3>1, <3>2, <3>3, <4>1 DEF NetworkType
    <3>5. ControlInv'
      BY <1>10, <2>3, <3>3 DEF PlumbOwn
    <3>6. QED
      BY <3>4, <3>5
  <2>4. QED
    BY <1>10, <2>2, <2>3 DEF PlumbOwn, Plumb
<1>11. ASSUME NEW a \in Actor, PlumbPeer(a)
       PROVE  TypeOK' /\ ControlInv'
  <2> DEFINE o == Other(cur[a], link[a])
  <2>1. /\ link[a] \in Link /\ o \in link[a] /\ o \in Container
        /\ <<o, link[a]>> \in Iface
    BY <1>11, OtherEnd DEF PlumbPeer, LinksOf, Iface
  <2>2. CASE Return(a) /\ UNCHANGED network
    BY <1>11, <2>2, ReturnType DEF PlumbPeer
  <2>3. CASE /\ LinkDone(a)
             /\ UNCHANGED <<command, scope, action, pend, cur>>
             /\ \/ UNCHANGED plumbed
                \/ plumbed' = [plumbed EXCEPT ![a] = @ \cup {<<o, link[a]>>}]
    <3>1. plumbed' \in [Actor -> SUBSET Iface]
      BY <2>1, <2>3
    <3>2. NetworkType'
      BY <1>11, <2>1 DEF PlumbPeer, Plumb, MoveInside, NetworkType, network, End,
                         Iface, TapLink
    <3>3. UNCHANGED <<dom, status, checking, command, scope, action, pend, cur>>
      BY <1>11, <2>3 DEF PlumbPeer
    <3>4. TypeOK'
      <4>1. /\ pc' \in [Actor -> PCs]
            /\ links' \in [Actor -> SUBSET Link]
            /\ link' \in [Actor -> Link \cup {None}]
        BY <2>3 DEF LinkDone
      <4>2. QED
        BY <3>1, <3>2, <3>3, <4>1 DEF NetworkType
    <3>5. ControlInv'
      BY <1>11, <2>3, <3>3 DEF PlumbPeer, LinkDone
    <3>6. QED
      BY <3>4, <3>5
  <2>4. QED
    BY <1>11, <2>2, <2>3 DEF PlumbPeer, Plumb
<1>12. ASSUME NEW a \in Actor, PostDomainDone(a)
       PROVE  TypeOK' /\ ControlInv'
  BY <1>12 DEF PostDomainDone, network
<1>13. ASSUME NEW a \in Actor, WriteStatus(a)
       PROVE  TypeOK' /\ ControlInv'
  BY <1>13 DEF WriteStatus, DeviceStatusAfter, ACTION_STATUS_MAP, network
<1>14. ASSUME NEW d \in Device, PingDevice(d)
       PROVE  TypeOK' /\ ControlInv'
  BY <1>14 DEF PingDevice, network, actors
<1>15. ASSUME NEW d \in Device, SyncDevice(d)
       PROVE  TypeOK' /\ ControlInv'
  BY <1>15 DEF SyncDevice, network, actors
<1>16. ASSUME NEW d \in Device, PowerOff(d) \/ Crash(d)
       PROVE  TypeOK' /\ ControlInv'
  <2>1. dom' \in DomType /\ NetworkType'
    BY <1>16, DomainDownType DEF PowerOff, Crash, DomType, NetworkType
  <2>2. QED
    BY <1>16, <2>1 DEF PowerOff, Crash, actors, DomType, NetworkType
<1>17. CASE UNCHANGED vars
  BY <1>17 DEF vars, network, actors
<1> HIDE DEF TypeOK, ControlInv
<1>18. ASSUME NEW a \in Actor, ActorStep(a)
       PROVE  TypeOK' /\ ControlInv'
  BY <1>18, <1>2, <1>3, <1>4, <1>5, <1>6, <1>7, <1>8, <1>9, <1>10, <1>11, <1>12,
     <1>13 DEF ActorStep
<1>19. QED
  <2>1. CASE \E a \in Actor, c \in {"start", "stop", "reboot"}, S \in Targets :
               Begin(a, c, S)
    BY <2>1, <1>1
  <2>2. CASE \E a \in Actor : ActorStep(a)
    BY <2>2, <1>18
  <2>3. CASE \E d \in Device :
               PingDevice(d) \/ SyncDevice(d) \/ PowerOff(d) \/ Crash(d)
    BY <2>3, <1>14, <1>15, <1>16
  <2>4. QED
    BY <1>17, <2>1, <2>2, <2>3 DEF Next

\* Every variable keeps its type, also when operations overlap and domains
\* crash.
THEOREM TypeCorrect == Spec => []TypeOK
<1>1. TypeOK /\ ControlInv /\ [Next]_vars => (TypeOK /\ ControlInv)'
  BY TypeStep
<1>2. QED
  BY TypeInit, <1>1, PTL DEF Spec

------------------------------------------------------------------------------
(* Veth pairs.                                                               *)

\* Every end in a container has its container and its pair, and every pair has an
\* end in a container.
PairInv ==
  /\ \A e \in inside : Active(e[1]) /\ e[2] \in pairs
  /\ \A l \in pairs : \E d \in l : <<d, l>> \in inside

\* A domain goes down, with what is in its namespace.
LEMMA PairsAtDown ==
  ASSUME TypeOK, PairInv, NEW d \in Device, DomainDown(d)
  PROVE  PairInv'
<1>1. dom' = [dom EXCEPT ![d] = "shut"]
  BY DEF DomainDown
<1>2. CASE d \in Container
  <2>1. NetnsGone(d)
    BY <1>2 DEF DomainDown
  <2>2. ASSUME NEW e \in inside' PROVE Active(e[1])' /\ e[2] \in pairs'
    <3>1. e \in inside /\ <<d, e[2]>> \notin inside /\ e = <<e[1], e[2]>>
      BY <2>1 DEF NetnsGone, TypeOK, End
    <3>2. e[1] # d /\ e[1] \in Device
      BY <3>1, LinkPlumbingAssumption DEF TypeOK, End
    <3> QED BY <1>1, <2>1, <3>1, <3>2 DEF NetnsGone, PairInv, Active, TypeOK
  <2>3. ASSUME NEW l \in pairs' PROVE \E c \in l : <<c, l>> \in inside'
    <3>1. l \in pairs /\ <<d, l>> \notin inside
      BY <2>1 DEF NetnsGone
    <3>2. PICK c \in l : <<c, l>> \in inside
      BY <3>1 DEF PairInv
    <3> QED BY <2>1, <3>1, <3>2 DEF NetnsGone
  <2> QED BY <2>2, <2>3 DEF PairInv
<1>3. CASE d \notin Container
  <2>1. inside' = inside /\ pairs' = pairs
    BY <1>3 DEF DomainDown, TapsGone
  <2>2. ASSUME NEW e \in inside PROVE Active(e[1])' /\ e[2] \in pairs'
    <3>1. e[1] # d /\ e[1] \in Device
      BY <1>3, LinkPlumbingAssumption DEF TypeOK, End
    <3>2. dom'[e[1]] = dom[e[1]]
      BY <1>1, <3>1 DEF TypeOK
    <3> QED BY <2>1, <3>2 DEF PairInv, Active
  <2>3. ASSUME NEW l \in pairs PROVE \E c \in l : <<c, l>> \in inside'
    BY <2>1 DEF PairInv
  <2> QED BY <2>1, <2>2, <2>3 DEF PairInv
<1> QED BY <1>2, <1>3

\* An end moves back to the host; the last one takes the pair along.
LEMMA PairsAtUnplumb ==
  ASSUME TypeOK, PairInv, NEW l \in VethLink, NEW d \in l, UnplumbVeth(d, l), dom' = dom
  PROVE  PairInv'
<1> DEFINE o == Other(d, l)
<1>1. l \in Link /\ o \in l /\ o # d /\ l = {d, o}
  BY OtherEnd DEF VethLink
<1>2. CASE ~Active(d)
  BY <1>2 DEF UnplumbVeth, PairInv, Active
<1>3. CASE Active(d) /\ <<o, l>> \notin inside
  <2>1. inside' = inside \ {<<d, l>>} /\ pairs' = pairs \ {l}
    BY <1>3 DEF UnplumbVeth
  <2>2. \A e \in inside : e[1] \in e[2] /\ e = <<e[1], e[2]>>
    BY DEF TypeOK, End
  <2>3. \A e \in inside' : e[2] # l
    BY <1>1, <1>3, <2>1, <2>2
  <2>4. ASSUME NEW k \in pairs' PROVE \E c \in k : <<c, k>> \in inside'
    BY <2>1 DEF PairInv
  <2> QED BY <2>1, <2>3, <2>4 DEF PairInv, Active
<1>4. CASE Active(d) /\ <<o, l>> \in inside
  <2>1. inside' = inside \ {<<d, l>>} /\ pairs' = pairs
    BY <1>4 DEF UnplumbVeth
  <2>2. ASSUME NEW k \in pairs' PROVE \E c \in k : <<c, k>> \in inside'
    BY <1>1, <1>4, <2>1 DEF PairInv
  <2> QED BY <2>1, <2>2 DEF PairInv, Active
<1> QED BY <1>2, <1>3, <1>4

\* A plumber call.
LEMMA PairsAtPlumb ==
  ASSUME TypeOK, PairInv, dom' = dom, NEW l \in Link, NEW x \in l,
         UNCHANGED network \/ (Active(x) /\ MoveInside(x, l))
  PROVE  PairInv'
BY DEF PairInv, Active, network, MoveInside

\* Every step keeps the pairs.
LEMMA PairsStep ==
  ASSUME TypeOK, ControlInv, PairInv, [Next]_vars
  PROVE  PairInv'
<1>1. ASSUME NEW a \in Actor, NEW l \in Link, Unplumb(a, l) PROVE PairInv'
  <2>1. dom' = dom /\ cur[a] \in l
    BY <1>1 DEF Unplumb, ControlInv, LinksOf, TypeOK, PCs
  <2>2. CASE l \in VethLink
    BY <1>1, <2>1, <2>2, PairsAtUnplumb DEF Unplumb
  <2>3. CASE l \notin VethLink
    BY <1>1, <2>1, <2>3 DEF Unplumb, UnplumbTap, PairInv, Active
  <2> QED BY <2>2, <2>3
<1>2. ASSUME NEW a \in Actor, DomainAction(a) PROVE PairInv'
  <2>1. cur[a] \in Device /\ action[a] \in {"create", "shutdown", "destroy"}
    BY <1>2 DEF DomainAction, ControlInv, TypeOK, Working
  <2>2. CASE UNCHANGED <<dom, network>>
    BY <2>2 DEF PairInv, Active, network
  <2>3. CASE DomainDown(cur[a])
    BY <2>1, <2>3, PairsAtDown
  <2>4. CASE \/ DomainUp(cur[a])
             \/ dom' = [dom EXCEPT ![cur[a]] = "acpi"] /\ UNCHANGED network
    <3>1. inside' = inside /\ pairs' = pairs
      BY <2>4 DEF DomainUp, TapsCreated, network
    <3>2. \A d \in Device : Active(d) => Active(d)'
      BY <2>1, <2>4 DEF DomainUp, Active, TypeOK
    <3>3. \A e \in inside : e[1] \in Device
      BY LinkPlumbingAssumption DEF TypeOK, End
    <3> QED BY <3>1, <3>2, <3>3 DEF PairInv
  <2> QED BY <1>2, <2>1, <2>2, <2>3, <2>4, DomainStepCases DEF DomainAction
<1>3. ASSUME NEW a \in Actor, PlumbOwn(a) \/ PlumbPeer(a) PROVE PairInv'
  <2>1. /\ link[a] \in Link /\ cur[a] \in link[a] /\ Other(cur[a], link[a]) \in link[a]
        /\ dom' = dom
    BY <1>3, OtherEnd DEF PlumbOwn, PlumbPeer, ControlInv, TypeOK, LinksOf, Plumbing
  <2>2. PICK x \in {cur[a], Other(cur[a], link[a])} :
          UNCHANGED network \/ (Active(x) /\ MoveInside(x, link[a]))
    BY <1>3 DEF PlumbOwn, PlumbPeer, Plumb
  <2> QED BY <2>1, <2>2, PairsAtPlumb
<1>4. ASSUME NEW d \in Device, PowerOff(d) \/ Crash(d) PROVE PairInv'
  BY <1>4, PairsAtDown DEF PowerOff, Crash
<1>5. CASE UNCHANGED <<dom, pairs, inside>>
  BY <1>5 DEF PairInv, Active
<1>6. ASSUME NEW a \in Actor, ActorStep(a) PROVE PairInv'
  BY <1>1, <1>2, <1>3, <1>5, <1>6
     DEF ActorStep, NextDevice, NextStep, WaitForShutdown, PreDomainDone, CheckOwn, CheckPeer,
         PostDomainDone, WriteStatus, network
<1>7. CASE \/ \E a \in Actor, c \in {"start", "stop", "reboot"}, S \in Targets : Begin(a, c, S)
           \/ \E d \in Device : PingDevice(d) \/ SyncDevice(d)
  BY <1>5, <1>7 DEF Begin, PingDevice, SyncDevice, network
<1>8. CASE UNCHANGED vars
  BY <1>5, <1>8 DEF vars, network
<1> QED BY <1>4, <1>6, <1>7, <1>8 DEF Next

\* A veth pair never outlives both its containers, also when operations overlap
\* and containers crash: whichever end goes last takes the pair with it.
THEOREM PairsNotLeaked == Spec => []NoLeakedPair
<1>1. Init => PairInv
  BY DEF Init, PairInv
<1>2. TypeOK /\ ControlInv /\ PairInv /\ [Next]_vars => (TypeOK /\ ControlInv /\ PairInv)'
  BY TypeStep, PairsStep
<1>3. PairInv => NoLeakedPair
  BY DEF PairInv, NoLeakedPair
<1> QED BY TypeInit, <1>1, <1>2, <1>3, PTL DEF Spec
------------------------------------------------------------------------------
(* A reboot of the whole topology, when commands do not overlap.             *)

\* A link is up when each end that a plumber moves is in its place.
LEMMA LinkUpInPlace ==
  ASSUME NEW l \in Link
  PROVE  LinkUp(l) <=> \A x \in l \cap Container : InPlace(x, l)
BY LinkPlumbingAssumption DEF LinkUp, InPlace, VethLink

\* The same in the next state.
LEMMA LinkUpInPlacePrime ==
  ASSUME NEW l \in Link
  PROVE  LinkUp(l)' <=> \A x \in l \cap Container : InPlace(x, l)'
BY LinkPlumbingAssumption DEF LinkUp, InPlace, VethLink

\* The command a runs reboots the whole topology.
Rebooting(a) == command[a] = "reboot" /\ scope[a] = Device

\* The current action of a has changed the domain of d, and has recorded it.
Acted(a, d) == d \notin pend[a] /\ ~(cur[a] = d /\ pc[a] \in {"pre", "domain"})
Done(a, d) == d \notin pend[a] /\ cur[a] # d

\* The commands of an operator who waits overlap neither each other nor the
\* status check, and the cache of plumbed interfaces is empty before a create.
AloneInv ==
  /\ \A a, b \in Actor : Working(a) /\ Working(b) => a = b
  /\ checking # {} => Idle
  /\ \A a \in Actor : plumbed[a] # {} => action[a] = "create"

\* A reboot first takes every container down, then every domain ...
RebootDown(a) ==
  /\ Working(a)
  /\ action[a] = "shutdown" => \A c \in Container : Acted(a, c) => ~Active(c)
  /\ action[a] = "destroy" =>
       \A d \in Device : /\ d \in Container \/ Acted(a, d) => ~Active(d)
                         /\ Done(a, d) => status[d] = "defined"

\* ... so that its create finds every domain down and recorded as down: from
\* then on those that run, or are recorded as up, are the ones it has started.
RebootUp(a) ==
  action[a] = "create" =>
    /\ \A d \in Device : /\ dom[d] = IF Acted(a, d) THEN "running" ELSE "shut"
                         /\ status[d] \in PeerReady <=> Done(a, d)
    /\ \A l \in TapLink : \A v \in l \ Container :
         Acted(a, v) => tap[l] \in {"host", "container"}
    /\ pc[a] \in {"plumb_own", "plumb_peer"} => Done(a, Other(cur[a], link[a]))

\* A link is connected when the second of its devices is done; the links of the
\* device in progress are connected one by one.
RebootLinks(a) ==
  action[a] = "create" =>
    /\ \A e \in plumbed[a] : InPlace(e[1], e[2]) /\ \A d \in e[2] : Acted(a, d)
    /\ \A l \in Link : (\A d \in l : Done(a, d)) => LinkUp(l)
    /\ \A l \in Link : cur[a] \in l /\ Done(a, Other(cur[a], l)) =>
         /\ pc[a] \in Plumbing \cup {"status"} /\ l \notin links[a] => LinkUp(l)
         /\ (/\ pc[a] \in {"peer", "plumb_peer"}
             /\ l = link[a]
             /\ cur[a] \in Container) => InPlace(cur[a], l)

RebootInv ==
  \A a \in Actor :
    Rebooting(a) => RebootDown(a) /\ RebootUp(a) /\ RebootLinks(a)

\* A step of an invocation keeps the reboot invariant if it keeps its own part.
LEMMA RebootFrame ==
  ASSUME TypeOK, ControlInv, AloneInv, RebootInv, NEW a \in Actor, Working(a),
         \A b \in Actor \ {a} : command'[b] = command[b] /\ scope'[b] = scope[b],
         Rebooting(a)' => RebootDown(a)' /\ RebootUp(a)' /\ RebootLinks(a)'
  PROVE  RebootInv'
<1> SUFFICES ASSUME NEW b \in Actor, Rebooting(b)', b # a
             PROVE  FALSE
  BY DEF RebootInv
<1>1. Rebooting(b)
  BY DEF Rebooting
<1>2. Working(b)
  BY <1>1 DEF RebootInv, RebootDown
<1> QED BY <1>2 DEF AloneInv

\* The steps that only move an invocation along its loops.
LEMMA RebootControl ==
  ASSUME TypeOK, ControlInv, AloneInv, RebootInv, NEW a \in Actor, Rebooting(a),
         \/ \E d \in Device : NextDevice(a, d)
         \/ WaitForShutdown(a)
         \/ PreDomainDone(a)
         \/ PostDomainDone(a)
  PROVE  RebootDown(a)' /\ RebootUp(a)' /\ RebootLinks(a)'
<1>0. /\ RebootDown(a) /\ RebootUp(a) /\ RebootLinks(a)
      /\ UNCHANGED <<dom, status, network, command, scope, action, link, plumbed, checking>>
  BY DEF RebootInv, NextDevice, WaitForShutdown, PreDomainDone, PostDomainDone
<1>1. \A d \in Device : (Acted(a, d)' <=> Acted(a, d)) /\ (Done(a, d)' <=> Done(a, d))
  BY LinkPlumbingAssumption DEF TypeOK, ControlInv, NextDevice, WaitForShutdown, PreDomainDone, PostDomainDone,
         Acted, Done
<1>2. Working(a)' /\ PeerReady' = PeerReady
      /\ (\A d \in Device : Active(d)' <=> Active(d))
      /\ \A l \in Link : /\ l \subseteq Device
                         /\ LinkUp(l)' <=> LinkUp(l)
                         /\ \A x \in l : InPlace(x, l)' <=> InPlace(x, l)
  BY <1>0, LinkPlumbingAssumption
     DEF Working, NextDevice, WaitForShutdown, PreDomainDone, PostDomainDone, PeerReady,
         network, LinkUp, InPlace, TypeOK, Active
<1>3. RebootDown(a)'
  BY <1>0, <1>1, <1>2, LinkPlumbingAssumption DEF RebootDown
<1>4. RebootUp(a)'
  <2>1. pc'[a] \notin {"plumb_own", "plumb_peer"}
    BY DEF TypeOK, NextDevice, WaitForShutdown, PreDomainDone, PostDomainDone
  <2>2. \A l \in TapLink : l \subseteq Device
    BY <1>2 DEF TapLink
  <2> QED BY <1>0, <1>1, <1>2, <2>1, <2>2 DEF RebootUp, network
<1>5. RebootLinks(a)'
  <2> SUFFICES ASSUME action[a] = "create" PROVE RebootLinks(a)'
    BY <1>0 DEF RebootLinks
  <2>1. \A e \in plumbed[a] : InPlace(e[1], e[2])' /\ \A d \in e[2] : Acted(a, d)'
    BY <1>0, <1>1, <1>2 DEF RebootLinks, TypeOK, Iface
  <2>2. \A l \in Link : (\A d \in l : Done(a, d)') => LinkUp(l)'
    BY <1>0, <1>1, <1>2 DEF RebootLinks
  <2>3. CASE PostDomainDone(a)
    <3>1. cur' = cur /\ links' = links /\ pc[a] = "post" /\ pc'[a] = "status"
      BY <2>3 DEF PostDomainDone, TypeOK
    <3>2. \A l \in Link : cur[a] \in l => /\ Other(cur[a], l) \in Device
      BY OtherEnd
    <3> QED BY <1>0, <1>1, <1>2, <2>1, <2>2, <3>1, <3>2 DEF RebootLinks, Plumbing
  <2>4. CASE ~PostDomainDone(a)
    <3>1. pc'[a] \in {"pre", "next", "domain"}
      BY <2>4 DEF NextDevice, WaitForShutdown, PreDomainDone, TypeOK
    <3> QED BY <1>0, <2>1, <2>2, <3>1 DEF RebootLinks, Plumbing
  <2> QED BY <2>3, <2>4
<1> QED BY <1>3, <1>4, <1>5

\* On to the next action of the command.
LEMMA RebootNextStep ==
  ASSUME TypeOK, ControlInv, AloneInv, RebootInv, NEW a \in Actor, Rebooting(a),
         NextStep(a), Rebooting(a)'
  PROVE  RebootDown(a)' /\ RebootUp(a)' /\ RebootLinks(a)'
<1>0. /\ RebootDown(a) /\ RebootUp(a) /\ RebootLinks(a)
      /\ UNCHANGED <<dom, status, network, checking>>
      /\ pc[a] = "next" /\ cur[a] = None /\ pend[a] = {} /\ scope[a] = Device
      /\ command[a] = "reboot" /\ action[a] \in {"create", "shutdown", "destroy"}
  BY DEF RebootInv, NextStep, Rebooting, TypeOK, ControlInv, RebootDown
<1>1. \A d \in Device : Acted(a, d) /\ Done(a, d)
  BY <1>0, LinkPlumbingAssumption DEF Acted, Done
<1>2. action[a] # "create"
  BY <1>0 DEF NextStep, NextAction, Return, Rebooting, TypeOK
<1>3. /\ UNCHANGED <<command, scope, cur, links, link, plumbed>>
      /\ pend' = [pend EXCEPT ![a] = Device]
      /\ pc'[a] \in {"wait", "next"}
      /\ action'[a] = IF action[a] = "shutdown" THEN "destroy" ELSE "create"
  BY <1>0, <1>2 DEF NextStep, NextAction, TypeOK
<1>4. (\A d \in Device : ~Acted(a, d)' /\ ~Done(a, d)' /\ (Active(d)' <=> Active(d)))
      /\ PeerReady' = PeerReady
  BY <1>0, <1>3 DEF Acted, Done, TypeOK, Active, PeerReady
<1>5. Working(a)'
  BY <1>3 DEF Working
<1>6. CASE action[a] = "shutdown"
  BY <1>0, <1>1, <1>3, <1>4, <1>5, <1>6, LinkPlumbingAssumption
     DEF RebootDown, RebootUp, RebootLinks
<1>7. CASE action[a] = "destroy"
  <2>1. \A d \in Device : dom[d] = "shut" /\ status[d] = "defined"
    BY <1>0, <1>1, <1>7 DEF RebootDown, Active
  <2>2. plumbed[a] = {}
    BY <1>7 DEF AloneInv
  <2>3. \A l \in Link : l \subseteq Device /\ (\E d \in l : TRUE)
    BY LinkPlumbingAssumption
  <2>4. RebootUp(a)'
    BY <1>0, <1>3, <1>4, <2>1, <2>3 DEF RebootUp, PeerReady, TapLink
  <2>5. RebootLinks(a)'
    BY <1>0, <1>3, <1>4, <2>2, <2>3, LinkPlumbingAssumption DEF RebootLinks, Plumbing
  <2> QED BY <1>3, <1>5, <1>7, <2>4, <2>5 DEF RebootDown
<1> QED BY <1>0, <1>2, <1>6, <1>7

\* The last container to come up is the last device to be unplumbed.
LEMMA RebootUnplumb ==
  ASSUME TypeOK, ControlInv, AloneInv, RebootInv, NEW a \in Actor, Rebooting(a),
         NEW l \in Link, Unplumb(a, l)
  PROVE  RebootDown(a)' /\ RebootUp(a)' /\ RebootLinks(a)'
BY DEF RebootInv, Unplumb, RebootDown, RebootUp, RebootLinks, Working, Active, Acted

\* A domain goes down during the first two actions of a reboot.
LEMMA RebootDomainDown ==
  ASSUME TypeOK, ControlInv, AloneInv, RebootInv, NEW a \in Actor, Rebooting(a),
         DomainAction(a), action[a] # "create"
  PROVE  RebootDown(a)' /\ RebootUp(a)' /\ RebootLinks(a)'
<1>0. /\ RebootDown(a)
      /\ UNCHANGED <<status, command, scope, action, pend, cur, checking>>
      /\ pc[a] = "domain" /\ pc' = [pc EXCEPT ![a] = "status"]
      /\ cur[a] \in Device /\ action[a] \in {"shutdown", "destroy"}
      /\ DomainStep(cur[a], action[a])
  BY DEF RebootInv, DomainAction, TypeOK, ControlInv, RebootDown
<1>1. \A d \in Device : (Acted(a, d)' => Acted(a, d) \/ d = cur[a])
                        /\ (Done(a, d)' <=> Done(a, d))
  BY <1>0 DEF Acted, Done, TypeOK
<1>2. \A d \in Device : Active(d)' => Active(d)
  BY <1>0, DomainStepCases DEF DomainDown, Active, TypeOK, ActionAllowed
<1>3. action[a] = "destroy" \/ cur[a] \in Container => ~Active(cur[a])'
  <2>1. CASE action[a] = "destroy"
    BY <1>0, <1>2, <2>1, DomainStepCases
       DEF RebootDown, DomainDown, Active, TypeOK, ActionAllowed
  <2>2. CASE action[a] = "shutdown" /\ cur[a] \in Container
    BY <1>0, <1>2, <2>2, DomainStepCases DEF DomainDown, Active, TypeOK, ActionAllowed
  <2> QED BY <1>0, <2>1, <2>2
<1>4. Working(a)'
  BY <1>0 DEF Working, TypeOK
<1> QED BY <1>0, <1>1, <1>2, <1>3, <1>4, LinkPlumbingAssumption
       DEF RebootDown, RebootUp, RebootLinks

\* A domain comes up: its links are not among those already plumbed.
LEMMA RebootDomainUp ==
  ASSUME TypeOK, ControlInv, AloneInv, RebootInv, NEW a \in Actor, Rebooting(a),
         DomainAction(a), action[a] = "create"
  PROVE  RebootDown(a)' /\ RebootUp(a)' /\ RebootLinks(a)'
<1>0. /\ RebootDown(a) /\ RebootUp(a) /\ RebootLinks(a)
      /\ UNCHANGED <<status, command, scope, action, pend, cur, link, plumbed, checking>>
      /\ pc[a] = "domain" /\ pc' = [pc EXCEPT ![a] = "post"]
      /\ links' = [links EXCEPT ![a] = LinksOf(cur[a])]
      /\ cur[a] \in Device /\ cur[a] \notin pend[a]
      /\ DomainStep(cur[a], "create")
  BY DEF RebootInv, DomainAction, TypeOK, ControlInv, RebootDown, Working
<1> DEFINE d == cur[a]
<1>1. \A x \in Device : /\ Acted(a, x)' <=> Acted(a, x) \/ x = d
                        /\ Done(a, x)' <=> Done(a, x)
  BY <1>0 DEF Acted, Done, TypeOK
<1>2. ~Acted(a, d) /\ ~Done(a, d) /\ \A x \in Device : Done(a, x) => Acted(a, x)
  BY <1>0 DEF Acted, Done
<1>3. ~Active(d)
  BY <1>0, <1>2 DEF RebootUp, Active
<1>4. DomainUp(d)
  BY <1>0, <1>3, DomainStepCases DEF ActionAllowed
<1>5. /\ dom' = [dom EXCEPT ![d] = "running"] /\ inside' = inside
      /\ tap' = tap \/ (d \notin Container
                        /\ tap' = [l \in TapLink |-> IF d \in l THEN "host" ELSE tap[l]])
      /\ d \in Container => tap' = tap
  BY <1>4 DEF DomainUp, TapsCreated, network
<1>6. \A l \in Link : l \subseteq Device
  BY LinkPlumbingAssumption
<1>7. \A l \in Link : d \notin l =>
        /\ LinkUp(l)' <=> LinkUp(l)
        /\ \A x \in Device : InPlace(x, l)' <=> InPlace(x, l)
  BY <1>5, <1>6 DEF LinkUp, InPlace, TapLink
<1>8. RebootDown(a)'
  BY <1>0 DEF RebootDown, Working, TypeOK
<1>9. RebootUp(a)'
  <2>1. \A x \in Device : dom'[x] = IF Acted(a, x)' THEN "running" ELSE "shut"
    BY <1>0, <1>1, <1>5 DEF RebootUp, TypeOK
  <2>2. \A x \in Device : status'[x] \in PeerReady' <=> Done(a, x)'
    BY <1>0, <1>1 DEF RebootUp, PeerReady
  <2>3. ASSUME NEW l \in TapLink, NEW v \in l \ Container, Acted(a, v)'
        PROVE  tap'[l] \in {"host", "container"}
    <3>1. v \in Device /\ l \in Link
      BY <1>6 DEF TapLink
    <3>2. CASE d \in l /\ d \notin Container
      BY <1>4, <3>2 DEF DomainUp, TapsCreated
    <3>3. CASE d \notin l \/ d \in Container
      BY <1>0, <1>1, <1>5, <2>3, <3>1, <3>3 DEF RebootUp
    <3> QED BY <3>2, <3>3
  <2>4. pc'[a] \notin {"plumb_own", "plumb_peer"}
    BY <1>0 DEF TypeOK
  <2> QED BY <1>0, <2>1, <2>2, <2>3, <2>4 DEF RebootUp
<1>10. RebootLinks(a)'
  <2>1. ASSUME NEW e \in plumbed[a]
        PROVE  InPlace(e[1], e[2])' /\ \A x \in e[2] : Acted(a, x)'
    <3>1. e[2] \in Link /\ e[1] \in Device /\ d \notin e[2]
      BY <1>0, <1>2, LinkPlumbingAssumption DEF RebootLinks, TypeOK, Iface
    <3> QED BY <1>0, <1>1, <1>6, <1>7, <3>1 DEF RebootLinks
  <2>2. ASSUME NEW l \in Link, \A x \in l : Done(a, x)' PROVE LinkUp(l)'
    BY <1>0, <1>1, <1>2, <1>6, <1>7, <2>2 DEF RebootLinks
  <2>3. \A l \in Link : d \in l => l \in links'[a]
    BY <1>0 DEF TypeOK, LinksOf
  <2>4. pc'[a] = "post"
    BY <1>0 DEF TypeOK
  <2> QED BY <1>0, <2>1, <2>2, <2>3, <2>4 DEF RebootLinks
<1> QED BY <1>8, <1>9, <1>10

\* The two checks before the plumber calls.
LEMMA RebootCheckOwn ==
  ASSUME TypeOK, ControlInv, AloneInv, RebootInv, NEW a \in Actor, Rebooting(a),
         NEW l \in Link, CheckOwn(a, l)
  PROVE  RebootDown(a)' /\ RebootUp(a)' /\ RebootLinks(a)'
<1> DEFINE o == Other(cur[a], l)
<1>0. /\ RebootDown(a) /\ RebootUp(a) /\ RebootLinks(a)
      /\ UNCHANGED <<dom, status, network, command, scope, action, pend, cur, links,
                     plumbed, checking>>
      /\ pc[a] = "post" /\ action[a] = "create" /\ l \in links[a] /\ cur[a] \in l
      /\ link'[a] = l
      /\ pc'[a] = IF MayPlumb(a, cur[a], l, o) THEN "plumb_own" ELSE "peer"
  BY DEF RebootInv, CheckOwn, TypeOK, ControlInv, Plumbing, LinksOf
<1>1. o \in Device /\ \A k \in Link : k \subseteq Device
  BY <1>0, OtherEnd
<1>2. \A d \in Device : (Acted(a, d)' <=> Acted(a, d)) /\ (Done(a, d)' <=> Done(a, d))
  BY <1>0 DEF Acted, Done
<1>3. \A k \in Link : /\ LinkUp(k)' <=> LinkUp(k)
                      /\ \A x \in Device : InPlace(x, k)' <=> InPlace(x, k)
  BY <1>0, <1>1 DEF LinkUp, InPlace, network
<1>4. RebootDown(a)'
  BY <1>0 DEF RebootDown, Working
<1>5. RebootUp(a)'
  <2>1. pc'[a] \in {"plumb_own", "plumb_peer"} => Done(a, o)
    BY <1>0, <1>1 DEF MayPlumb, RebootUp
  <2>2. \A k \in TapLink : k \subseteq Device
    BY <1>1 DEF TapLink
  <2> QED BY <1>0, <1>1, <1>2, <2>1, <2>2 DEF RebootUp, network, PeerReady
<1>6. RebootLinks(a)'
  <2>1. \A e \in plumbed[a] : InPlace(e[1], e[2])' /\ \A d \in e[2] : Acted(a, d)'
    BY <1>0, <1>1, <1>2, <1>3, LinkPlumbingAssumption DEF RebootLinks, TypeOK, Iface
  <2>2. \A k \in Link : (\A d \in k : Done(a, d)') => LinkUp(k)'
    BY <1>0, <1>1, <1>2, <1>3 DEF RebootLinks
  <2>3. ASSUME NEW k \in Link, cur[a] \in k, Done(a, Other(cur[a], k))
        PROVE  /\ k \notin links[a] => LinkUp(k)'
               /\ pc'[a] = "peer" /\ k = l /\ cur[a] \in Container => InPlace(cur[a], l)'
    <3>1. k \notin links[a] => LinkUp(k)'
      BY <1>0, <1>3, <2>3 DEF RebootLinks, Plumbing
    <3>2. ASSUME pc'[a] = "peer", k = l, cur[a] \in Container PROVE InPlace(cur[a], l)'
      <4>1. status[o] \in PeerReady
        BY <1>0, <1>1, <2>3, <3>2 DEF RebootUp
      <4>2. InPlace(cur[a], l)
        BY <1>0, <3>2, <4>1 DEF MayPlumb, RebootLinks
      <4> QED BY <1>0, <1>1, <1>3, <4>2
    <3> QED BY <3>1, <3>2
  <2>4. \A k \in Link : cur[a] \in k => Other(cur[a], k) \in Device
    BY OtherEnd
  <2> QED BY <1>0, <1>2, <2>1, <2>2, <2>3, <2>4 DEF RebootLinks
<1> QED BY <1>4, <1>5, <1>6

\* The second one may be the last of the link.
LEMMA RebootCheckPeer ==
  ASSUME TypeOK, ControlInv, AloneInv, RebootInv, NEW a \in Actor, Rebooting(a),
         CheckPeer(a)
  PROVE  RebootDown(a)' /\ RebootUp(a)' /\ RebootLinks(a)'
<1>a. /\ link[a] \in Link /\ cur[a] \in Device /\ Other(cur[a], link[a]) \in Device
  BY OtherEnd DEF CheckPeer, TypeOK, ControlInv, Plumbing, LinksOf
<1>b. PICK l \in Link, x \in Device, o \in Device :
        link[a] = l /\ cur[a] = x /\ Other(x, l) = o
  BY <1>a
<1>0. /\ link[a] = l /\ cur[a] = x /\ Other(x, l) = o
      /\ RebootDown(a) /\ RebootUp(a) /\ RebootLinks(a)
      /\ UNCHANGED <<dom, status, network, command, scope, action, pend, cur, plumbed,
                     checking>>
      /\ pc[a] = "peer" /\ action[a] = "create" /\ l \in Link /\ x \in l
      /\ IF MayPlumb(a, o, l, o)
         THEN pc'[a] = "plumb_peer" /\ links' = links /\ link' = link
         ELSE pc'[a] = "post" /\ links'[a] = links[a] \ {l}
  BY <1>b DEF RebootInv, CheckPeer, LinkDone, TypeOK, ControlInv, Plumbing, LinksOf
<1>1. o \in Device /\ l = {x, o} /\ \A k \in Link : k \subseteq Device
  BY <1>0, OtherEnd
<1>2. \A d \in Device : (Acted(a, d)' <=> Acted(a, d)) /\ (Done(a, d)' <=> Done(a, d))
  BY <1>0 DEF Acted, Done
<1>3. \A k \in Link : /\ LinkUp(k)' <=> LinkUp(k)
                      /\ \A y \in Device : InPlace(y, k)' <=> InPlace(y, k)
  BY <1>0, <1>1 DEF LinkUp, InPlace, network
<1>4. RebootDown(a)'
  BY <1>0 DEF RebootDown, Working
<1>5. RebootUp(a)'
  <2>1. pc'[a] \in {"plumb_own", "plumb_peer"} => Done(a, o) /\ link'[a] = l
    BY <1>0, <1>1 DEF MayPlumb, RebootUp
  <2>2. \A k \in TapLink : k \subseteq Device
    BY <1>1 DEF TapLink
  <2> QED BY <1>0, <1>1, <1>2, <2>1, <2>2 DEF RebootUp, network, PeerReady
<1>6. RebootLinks(a)'
  <2>1. \A e \in plumbed[a] : InPlace(e[1], e[2])' /\ \A d \in e[2] : Acted(a, d)'
    BY <1>0, <1>1, <1>2, <1>3, LinkPlumbingAssumption DEF RebootLinks, TypeOK, Iface
  <2>2. \A k \in Link : (\A d \in k : Done(a, d)') => LinkUp(k)'
    BY <1>0, <1>1, <1>2, <1>3 DEF RebootLinks
  <2>3. ASSUME NEW k \in Link, x \in k, Done(a, Other(x, k)), k \notin links[a]
        PROVE  LinkUp(k)'
    BY <1>0, <1>3, <2>3 DEF RebootLinks, Plumbing
  <2>4. ASSUME Done(a, o), ~MayPlumb(a, o, l, o) PROVE LinkUp(l)
    <3>1. status[o] \in PeerReady
      BY <1>0, <1>1, <2>4 DEF RebootUp
    <3>2. o \in Container => InPlace(o, l)
      BY <1>0, <2>4, <3>1 DEF MayPlumb, RebootLinks
    <3>3. x \in Container => InPlace(x, l)
      BY <1>0, <2>4 DEF RebootLinks
    <3> QED BY <1>0, <1>1, <3>2, <3>3, LinkUpInPlace
  <2>5. ASSUME Done(a, o), x \in Container PROVE InPlace(x, l)'
    <3>1. InPlace(x, l)
      BY <1>0, <2>5 DEF RebootLinks
    <3> QED BY <1>0, <1>1, <1>3, <3>1
  <2>6. \A k \in Link : x \in k => Other(x, k) \in Device
    BY OtherEnd
  <2>7. CASE MayPlumb(a, o, l, o)
    BY <1>0, <1>2, <2>1, <2>2, <2>3, <2>5, <2>6, <2>7 DEF RebootLinks
  <2>8. CASE ~MayPlumb(a, o, l, o)
    <3>1. pc'[a] = "post" /\ links'[a] = links[a] \ {l} /\ cur'[a] = x
      BY <1>0, <2>8
    <3>2. ASSUME NEW k \in Link, x \in k, Done(a, Other(x, k)), k \notin links'[a]
          PROVE  LinkUp(k)'
      BY <1>0, <1>3, <2>3, <2>4, <2>8, <3>1, <3>2
    <3> QED BY <1>0, <1>2, <2>1, <2>2, <2>6, <3>1, <3>2 DEF RebootLinks
  <2> QED BY <2>7, <2>8
<1> QED BY <1>4, <1>5, <1>6

\* A plumber call of a reboot finds its container running, so it cannot raise.
LEMMA RebootPlumber ==
  ASSUME TypeOK, ControlInv, AloneInv, RebootInv, NEW a \in Actor, Rebooting(a),
         pc[a] \in {"plumb_own", "plumb_peer"}
  PROVE  /\ action[a] = "create" /\ link[a] \in Link /\ cur[a] \in link[a]
         /\ Other(cur[a], link[a]) \in link[a] /\ link[a] \subseteq Device
         /\ Done(a, Other(cur[a], link[a]))
         /\ \A d \in link[a] : Acted(a, d) /\ Active(d)
         /\ link[a] \notin VethLink =>
              link[a] \in TapLink /\ tap[link[a]] \in {"host", "container"}
<1> DEFINE l == link[a]
           o == Other(cur[a], link[a])
<1>0. /\ RebootUp(a) /\ action[a] = "create" /\ l \in Link /\ cur[a] \in l /\ Done(a, o)
      /\ cur[a] \notin pend[a] /\ cur[a] \in Device
  BY DEF RebootInv, RebootUp, RebootDown, TypeOK, ControlInv, Plumbing, LinksOf, Working
<1>1. o \in l /\ l = {cur[a], o} /\ o # cur[a] /\ l \subseteq Device
  BY <1>0, OtherEnd
<1>2. \A d \in l : Acted(a, d)
  BY <1>0, <1>1 DEF Acted, Done
<1>3. \A d \in l : Active(d)
  BY <1>0, <1>1, <1>2 DEF RebootUp, Active
<1>4. ASSUME l \notin VethLink PROVE l \in TapLink /\ tap[l] \in {"host", "container"}
  <2>1. PICK v \in l : v \notin Container
    BY <1>0, <1>4 DEF VethLink
  <2> QED BY <1>0, <1>2, <1>4, <2>1 DEF RebootUp, TapLink
<1> QED BY <1>0, <1>1, <1>2, <1>3, <1>4

\* It puts the interface in its place and moves no other.
LEMMA RebootPlumbed ==
  ASSUME TypeOK, NEW l \in Link, NEW x \in l,
         l \notin VethLink => l \in TapLink /\ tap[l] \in {"host", "container"},
         \/ NothingToPlumb(x, l) /\ UNCHANGED network
         \/ ~NothingToPlumb(x, l) /\ MoveInside(x, l)
  PROVE  /\ InPlace(x, l)'
         /\ \A k \in Link, y \in Device : InPlace(y, k) => InPlace(y, k)'
         /\ \A k \in TapLink : tap'[k] \in {tap[k], "container"}
<1>1. CASE NothingToPlumb(x, l) /\ UNCHANGED network
  <2>1. InPlace(x, l)
    BY <1>1 DEF NothingToPlumb, InPlace
  <2> QED BY <1>1, <2>1 DEF InPlace, network
<1>2. CASE MoveInside(x, l) /\ l \in VethLink
  BY <1>2 DEF MoveInside, InPlace
<1>3. CASE MoveInside(x, l) /\ l \notin VethLink
  <2>1. tap' = [tap EXCEPT ![l] = "container"] /\ inside' = inside
    BY <1>3 DEF MoveInside
  <2>2. \A k \in TapLink : tap'[k] \in {tap[k], "container"}
    BY <2>1 DEF TypeOK
  <2>3. tap'[l] = "container"
    BY <1>3, <2>1 DEF TypeOK
  <2>4. \A k \in Link, y \in Device : InPlace(y, k) => InPlace(y, k)'
    BY <2>1, <2>2 DEF InPlace, TapLink
  <2>5. InPlace(x, l)'
    BY <1>3, <2>3 DEF InPlace
  <2> QED BY <2>2, <2>4, <2>5
<1> QED BY <1>1, <1>2, <1>3

\* Plumbing the device's own interface.
LEMMA RebootPlumbOwn ==
  ASSUME TypeOK, ControlInv, AloneInv, RebootInv, NEW a \in Actor, Rebooting(a),
         PlumbOwn(a)
  PROVE  RebootDown(a)' /\ RebootUp(a)' /\ RebootLinks(a)' /\ pc'[a] # "idle"
<1>a. /\ link[a] \in Link /\ cur[a] \in Device /\ Other(cur[a], link[a]) \in Device
  BY RebootPlumber DEF PlumbOwn
<1>b. PICK l \in Link, x \in Device, o \in Device :
        link[a] = l /\ cur[a] = x /\ Other(x, l) = o
  BY <1>a
<1>0. /\ link[a] = l /\ cur[a] = x /\ Other(x, l) = o
      /\ RebootDown(a) /\ RebootUp(a) /\ RebootLinks(a)
      /\ action[a] = "create" /\ l \in Link /\ x \in l /\ o \in l /\ l \subseteq Device
      /\ Done(a, o) /\ (\A d \in l : Acted(a, d) /\ Active(d)) /\ x \in Container
      /\ l \notin VethLink => l \in TapLink /\ tap[l] \in {"host", "container"}
  BY <1>b, RebootPlumber DEF RebootInv, PlumbOwn, ControlInv
<1>1. /\ UNCHANGED <<dom, status, checking, command, scope, action, pend, cur, links, link>>
      /\ pc' = [pc EXCEPT ![a] = "peer"]
      /\ \/ NothingToPlumb(x, l) /\ UNCHANGED <<network, plumbed>>
         \/ /\ ~NothingToPlumb(x, l) /\ MoveInside(x, l)
            /\ plumbed' = [plumbed EXCEPT ![a] = @ \cup {<<x, l>>}]
  BY <1>0 DEF PlumbOwn, Plumb
<1>2. /\ InPlace(x, l)'
      /\ \A k \in Link, y \in Device : InPlace(y, k) => InPlace(y, k)'
      /\ \A k \in TapLink : tap'[k] \in {tap[k], "container"}
  BY <1>0, <1>1, RebootPlumbed
<1>3. \A k \in Link : k \subseteq Device /\ (LinkUp(k) => LinkUp(k)')
  BY <1>2, LinkUpInPlace, LinkUpInPlacePrime, LinkPlumbingAssumption
<1>4. pc'[a] = "peer" /\ pc[a] = "plumb_own"
  BY <1>1 DEF TypeOK, PlumbOwn
<1>5. \A d \in Device : (Acted(a, d)' <=> Acted(a, d)) /\ (Done(a, d)' <=> Done(a, d))
  BY <1>1, <1>4 DEF Acted, Done
<1>6. RebootDown(a)'
  BY <1>0, <1>1, <1>4 DEF RebootDown, Working
<1>7. RebootUp(a)'
  <2>1. \A k \in TapLink : k \subseteq Device
    BY <1>3 DEF TapLink
  <2> QED BY <1>0, <1>1, <1>2, <1>4, <1>5, <2>1 DEF RebootUp, PeerReady
<1>8. RebootLinks(a)'
  <2>1. ASSUME NEW e \in plumbed'[a]
        PROVE  InPlace(e[1], e[2])' /\ \A d \in e[2] : Acted(a, d)'
    <3>1. e \in plumbed[a] \/ e = <<x, l>>
      BY <1>1 DEF TypeOK
    <3>2. CASE e \in plumbed[a]
      BY <1>0, <1>2, <1>3, <1>5, <3>2, LinkPlumbingAssumption
         DEF RebootLinks, TypeOK, Iface
    <3>3. CASE e = <<x, l>>
      <4>1. e[1] = x /\ e[2] = l
        BY <3>3
      <4> QED BY <1>0, <1>2, <1>5, <4>1
    <3> QED BY <3>1, <3>2, <3>3
  <2>2. \A k \in Link : (\A d \in k : Done(a, d)') => LinkUp(k)'
    BY <1>0, <1>3, <1>5 DEF RebootLinks
  <2>3. ASSUME NEW k \in Link, x \in k, Done(a, Other(x, k)), k \notin links[a]
        PROVE  LinkUp(k)'
    BY <1>0, <1>3, <1>4, <2>3 DEF RebootLinks, Plumbing
  <2>4. \A k \in Link : x \in k => Other(x, k) \in Device
    BY OtherEnd
  <2> QED BY <1>0, <1>1, <1>2, <1>4, <1>5, <2>1, <2>2, <2>3, <2>4 DEF RebootLinks
<1> QED BY <1>4, <1>6, <1>7, <1>8

\* Plumbing the interface at the far end, after which the link is connected.
LEMMA RebootPlumbPeer ==
  ASSUME TypeOK, ControlInv, AloneInv, RebootInv, NEW a \in Actor, Rebooting(a),
         PlumbPeer(a)
  PROVE  RebootDown(a)' /\ RebootUp(a)' /\ RebootLinks(a)' /\ pc'[a] # "idle"
<1>a. /\ link[a] \in Link /\ cur[a] \in Device /\ Other(cur[a], link[a]) \in Device
  BY RebootPlumber DEF PlumbPeer
<1>b. PICK l \in Link, x \in Device, o \in Device :
        link[a] = l /\ cur[a] = x /\ Other(x, l) = o
  BY <1>a
<1>0. /\ link[a] = l /\ cur[a] = x /\ Other(x, l) = o
      /\ RebootDown(a) /\ RebootUp(a) /\ RebootLinks(a)
      /\ action[a] = "create" /\ l \in Link /\ x \in l /\ o \in l /\ l \subseteq Device
      /\ Done(a, o) /\ (\A d \in l : Acted(a, d) /\ Active(d)) /\ o \in Container
      /\ l \notin VethLink => l \in TapLink /\ tap[l] \in {"host", "container"}
  BY <1>b, RebootPlumber DEF RebootInv, PlumbPeer, ControlInv
<1>1. /\ UNCHANGED <<dom, status, checking, command, scope, action, pend, cur>>
      /\ pc' = [pc EXCEPT ![a] = "post"]
      /\ links' = [links EXCEPT ![a] = @ \ {l}]
      /\ \/ NothingToPlumb(o, l) /\ UNCHANGED <<network, plumbed>>
         \/ /\ ~NothingToPlumb(o, l) /\ MoveInside(o, l)
            /\ plumbed' = [plumbed EXCEPT ![a] = @ \cup {<<o, l>>}]
  BY <1>0 DEF PlumbPeer, Plumb, LinkDone
<1>2. /\ InPlace(o, l)'
      /\ \A k \in Link, y \in Device : InPlace(y, k) => InPlace(y, k)'
      /\ \A k \in TapLink : tap'[k] \in {tap[k], "container"}
  BY <1>0, <1>1, RebootPlumbed
<1>3. \A k \in Link : k \subseteq Device /\ (LinkUp(k) => LinkUp(k)')
  BY <1>2, LinkUpInPlace, LinkUpInPlacePrime, LinkPlumbingAssumption
<1>4. pc'[a] = "post" /\ pc[a] = "plumb_peer" /\ links'[a] = links[a] \ {l}
  BY <1>1 DEF TypeOK, PlumbPeer
<1>5. \A d \in Device : (Acted(a, d)' <=> Acted(a, d)) /\ (Done(a, d)' <=> Done(a, d))
  BY <1>1, <1>4 DEF Acted, Done
<1>6. RebootDown(a)'
  BY <1>0, <1>1, <1>4 DEF RebootDown, Working
<1>7. RebootUp(a)'
  <2>1. \A k \in TapLink : k \subseteq Device
    BY <1>3 DEF TapLink
  <2> QED BY <1>0, <1>1, <1>2, <1>4, <1>5, <2>1 DEF RebootUp, PeerReady
<1>8. RebootLinks(a)'
  <2>1. ASSUME NEW e \in plumbed'[a]
        PROVE  InPlace(e[1], e[2])' /\ \A d \in e[2] : Acted(a, d)'
    <3>1. e \in plumbed[a] \/ e = <<o, l>>
      BY <1>1 DEF TypeOK
    <3>2. CASE e \in plumbed[a]
      BY <1>0, <1>2, <1>3, <1>5, <3>2, LinkPlumbingAssumption
         DEF RebootLinks, TypeOK, Iface
    <3>3. CASE e = <<o, l>>
      <4>1. e[1] = o /\ e[2] = l
        BY <3>3
      <4> QED BY <1>0, <1>2, <1>5, <4>1
    <3> QED BY <3>1, <3>2, <3>3
  <2>2. \A k \in Link : (\A d \in k : Done(a, d)') => LinkUp(k)'
    BY <1>0, <1>3, <1>5 DEF RebootLinks
  <2>3. ASSUME NEW k \in Link, x \in k, Done(a, Other(x, k)), k \notin links[a]
        PROVE  LinkUp(k)'
    BY <1>0, <1>3, <1>4, <2>3 DEF RebootLinks, Plumbing
  <2>4. LinkUp(l)'
    <3>1. x \in Container => InPlace(x, l)
      BY <1>0, <1>4 DEF RebootLinks
    <3>2. x \in Container => InPlace(x, l)'
      BY <1>0, <1>2, <3>1
    <3>3. l = {x, o}
      BY <1>0, OtherEnd
    <3>4. \A y \in l \cap Container : InPlace(y, l)'
      BY <1>2, <3>2, <3>3
    <3> QED BY <1>0, <3>4, LinkUpInPlacePrime
  <2>5. \A k \in Link : x \in k => Other(x, k) \in Device
    BY OtherEnd
  <2> QED BY <1>0, <1>1, <1>4, <1>5, <2>1, <2>2, <2>3, <2>4, <2>5 DEF RebootLinks
<1> QED BY <1>4, <1>6, <1>7, <1>8

\* The device is done once its status is written.
LEMMA RebootWriteStatus ==
  ASSUME TypeOK, ControlInv, AloneInv, RebootInv, NEW a \in Actor, Rebooting(a),
         WriteStatus(a)
  PROVE  RebootDown(a)' /\ RebootUp(a)' /\ RebootLinks(a)'
<1>0. /\ RebootDown(a) /\ RebootUp(a) /\ RebootLinks(a)
      /\ UNCHANGED <<dom, network, command, scope, action, pend, link, plumbed, checking>>
      /\ pc[a] = "status" /\ pc'[a] = "next" /\ cur'[a] = None
      /\ cur[a] \in Device /\ cur[a] \notin pend[a]
      /\ status' = [status EXCEPT ![cur[a]] =
           DeviceStatusAfter(action[a], cur[a] \in Unmanaged)]
      /\ action[a] = "create" => links[a] = {}
  BY DEF RebootInv, WriteStatus, TypeOK, ControlInv, RebootDown, Working
<1>1. \A d \in Device : /\ Acted(a, d)' <=> Acted(a, d)
                        /\ Done(a, d)' <=> Done(a, d) \/ d = cur[a]
  BY <1>0, LinkPlumbingAssumption DEF Acted, Done
<1>2. \A l \in Link : /\ l \subseteq Device
                      /\ LinkUp(l)' <=> LinkUp(l)
                      /\ \A x \in l : InPlace(x, l)' <=> InPlace(x, l)
  BY <1>0, LinkPlumbingAssumption DEF LinkUp, InPlace, network
<1>3. RebootDown(a)'
  <2>1. action[a] = "destroy" => status'[cur[a]] = "defined"
    BY <1>0 DEF DeviceStatusAfter, ACTION_STATUS_MAP, TypeOK
  <2>2. \A d \in Device : d # cur[a] => status'[d] = status[d]
    BY <1>0 DEF TypeOK
  <2> QED BY <1>0, <1>1, <2>1, <2>2, LinkPlumbingAssumption DEF RebootDown, Working, Active
<1>4. RebootUp(a)'
  <2> SUFFICES ASSUME action[a] = "create" PROVE RebootUp(a)'
    BY <1>0 DEF RebootUp
  <2>1. status'[cur[a]] \in PeerReady
    BY <1>0 DEF DeviceStatusAfter, ACTION_STATUS_MAP, TypeOK, PeerReady
  <2>2. \A d \in Device : d # cur[a] => status'[d] = status[d]
    BY <1>0 DEF TypeOK
  <2>3. \A l \in TapLink : l \subseteq Device
    BY <1>2 DEF TapLink
  <2> QED BY <1>0, <1>1, <2>1, <2>2, <2>3 DEF RebootUp, PeerReady, network
<1>5. RebootLinks(a)'
  <2> SUFFICES ASSUME action[a] = "create" PROVE RebootLinks(a)'
    BY <1>0 DEF RebootLinks
  <2>1. \A e \in plumbed[a] : InPlace(e[1], e[2])' /\ \A d \in e[2] : Acted(a, d)'
    BY <1>0, <1>1, <1>2 DEF RebootLinks, TypeOK, Iface
  <2>2. ASSUME NEW l \in Link, \A d \in l : Done(a, d)' PROVE LinkUp(l)
    <3>1. CASE cur[a] \notin l
      BY <1>0, <1>1, <1>2, <2>2, <3>1 DEF RebootLinks
    <3>2. CASE cur[a] \in l
      <4>1. Done(a, Other(cur[a], l))
        BY <1>1, <2>2, <3>2, OtherEnd
      <4> QED BY <1>0, <3>2, <4>1 DEF RebootLinks
    <3> QED BY <3>1, <3>2
  <2> QED BY <1>0, <1>2, <2>1, <2>2 DEF RebootLinks, Plumbing
<1> QED BY <1>3, <1>4, <1>5

\* Commands stay apart, and the cache is emptied before each create.
LEMMA AloneStep ==
  ASSUME Serial, TypeOK, ControlInv, AloneInv, [Next]_vars
  PROVE  AloneInv'
<1> USE DEF AloneInv
<1>1. ASSUME NEW a \in Actor, NEW c, NEW S, Begin(a, c, S) PROVE AloneInv'
  <2>1. \A b \in Actor : Working(b)' => b = a
    BY <1>1 DEF Begin, TypeOK, Working, Idle
  <2>2. checking' = {} /\ plumbed' = plumbed /\ \A b \in Actor : plumbed[b] = {}
    BY <1>1 DEF Begin, Idle, ControlInv, Working
  <2> QED BY <2>1, <2>2
<1>2. ASSUME NEW a \in Actor, ActorStep(a) PROVE AloneInv'
  <2>1. Working(a) /\ checking' = checking /\ checking = {}
    BY <1>2 DEF ActorStep, NextDevice, NextStep, WaitForShutdown, Unplumb, PreDomainDone,
       DomainAction, CheckOwn, CheckPeer, PlumbOwn, PlumbPeer, PostDomainDone, WriteStatus,
       Working, Idle
  <2>2. \A b \in Actor : b # a =>
          pc'[b] = pc[b] /\ plumbed'[b] = plumbed[b] /\ action'[b] = action[b]
    BY <1>2 DEF ActorStep, NextDevice, NextStep, WaitForShutdown, Unplumb, PreDomainDone,
       DomainAction, CheckOwn, CheckPeer, PlumbOwn, PlumbPeer, PostDomainDone, WriteStatus,
       Plumb, LinkDone, Return, TypeOK
  <2>3. plumbed'[a] # {} => action'[a] = "create"
    <3>1. CASE NextStep(a)
      BY <3>1 DEF NextStep, Return, NextAction, TypeOK
    <3>2. CASE PlumbOwn(a) \/ PlumbPeer(a)
      BY <3>2 DEF PlumbOwn, PlumbPeer, Plumb, Return, ControlInv, Plumbing, TypeOK
    <3>3. CASE \E l \in Link : Unplumb(a, l)
      BY <3>3 DEF Unplumb, TypeOK
    <3>4. CASE UNCHANGED <<action, plumbed>>
      BY <3>4
    <3> QED BY <1>2, <3>1, <3>2, <3>3, <3>4
            DEF ActorStep, NextDevice, WaitForShutdown, PreDomainDone, DomainAction,
                CheckOwn, CheckPeer, PostDomainDone, WriteStatus
  <2> QED BY <2>1, <2>2, <2>3 DEF Working
<1>3. ASSUME NEW d \in Device, PingDevice(d) \/ SyncDevice(d) \/ PowerOff(d) \/ Crash(d)
      PROVE  AloneInv'
  <2>1. UNCHANGED actors /\ (checking' \subseteq checking \/ Idle)
    BY <1>3 DEF PingDevice, SyncDevice, PowerOff, Crash, actors
  <2> QED BY <2>1 DEF actors, Working, Idle
<1>4. CASE UNCHANGED vars
  BY <1>4 DEF vars, actors, Working, Idle
<1> QED BY <1>1, <1>2, <1>3, <1>4 DEF Next

\* What an invocation does to the reboot it runs.
LEMMA RebootActorStep ==
  ASSUME TypeOK, ControlInv, AloneInv, RebootInv, NEW a \in Actor, ActorStep(a)
  PROVE  RebootInv'
<1>1. Working(a)
  BY DEF ActorStep, NextDevice, NextStep, WaitForShutdown, Unplumb, PreDomainDone,
     DomainAction, CheckOwn, CheckPeer, PlumbOwn, PlumbPeer, PostDomainDone, WriteStatus,
     Working
<1>2. \A b \in Actor \ {a} : command'[b] = command[b] /\ scope'[b] = scope[b]
  BY DEF ActorStep, NextDevice, NextStep, WaitForShutdown, Unplumb, PreDomainDone,
     DomainAction, CheckOwn, CheckPeer, PlumbOwn, PlumbPeer, PostDomainDone, WriteStatus,
     Plumb, Return, TypeOK
<1>3. Rebooting(a)' => Rebooting(a)
  BY DEF ActorStep, NextDevice, NextStep, WaitForShutdown, Unplumb, PreDomainDone,
     DomainAction, CheckOwn, CheckPeer, PlumbOwn, PlumbPeer, PostDomainDone, WriteStatus,
     Plumb, Return, TypeOK, Rebooting
<1>4. ASSUME Rebooting(a), Rebooting(a)'
      PROVE  RebootDown(a)' /\ RebootUp(a)' /\ RebootLinks(a)'
  BY <1>4, RebootControl, RebootNextStep, RebootUnplumb, RebootDomainDown, RebootDomainUp,
     RebootCheckOwn, RebootCheckPeer, RebootPlumbOwn, RebootPlumbPeer, RebootWriteStatus
     DEF ActorStep
<1> QED BY <1>1, <1>2, <1>3, <1>4, RebootFrame

\* Every step keeps the reboot invariant.
LEMMA RebootStep ==
  ASSUME Serial, TypeOK, ControlInv, AloneInv, RebootInv, [Next]_vars
  PROVE  RebootInv'
<1>1. ASSUME NEW a \in Actor, NEW c, NEW S, Begin(a, c, S) PROVE RebootInv'
  <2>1. ASSUME NEW b \in Actor, Rebooting(b)' PROVE b = a
    <3>1. b # a => Rebooting(b)
      BY <1>1, <2>1 DEF Begin, Rebooting, TypeOK
    <3>2. b # a => Working(b)
      BY <3>1 DEF RebootInv, RebootDown
    <3> QED BY <1>1, <3>2 DEF Begin, Idle, Working
  <2>2. ASSUME Rebooting(a)' PROVE RebootDown(a)' /\ RebootUp(a)' /\ RebootLinks(a)'
    <3>1. action'[a] = "shutdown" /\ pend'[a] = Device /\ pc'[a] = "next"
      BY <1>1, <2>2 DEF Begin, Rebooting, TypeOK, FirstAction
    <3> QED BY <3>1, LinkPlumbingAssumption
            DEF RebootDown, RebootUp, RebootLinks, Acted, Working
  <2> QED BY <2>1, <2>2 DEF RebootInv
<1>2. ASSUME NEW a \in Actor, ActorStep(a) PROVE RebootInv'
  BY <1>2, RebootActorStep
<1>3. ASSUME NEW d \in Device, PingDevice(d) \/ SyncDevice(d) \/ Crash(d) PROVE RebootInv'
  <2>1. Idle /\ UNCHANGED actors
    BY <1>3 DEF PingDevice, SyncDevice, Crash, AloneInv
  <2> QED BY <2>1 DEF Idle, actors, RebootInv, Rebooting, RebootDown, Working
<1>4. ASSUME NEW d \in Device, PowerOff(d) PROVE RebootInv'
  <2>1. dom[d] = "acpi" /\ UNCHANGED <<status, actors>>
        /\ \A x \in Device : Active(x)' => Active(x)
    BY <1>4 DEF PowerOff, DomainDown, Active, TypeOK
  <2>2. ASSUME NEW a \in Actor, Rebooting(a)
        PROVE  RebootDown(a)' /\ RebootUp(a)' /\ RebootLinks(a)'
    <3>1. RebootDown(a) /\ RebootUp(a)
      BY <2>2 DEF RebootInv
    <3>2. action[a] # "create"
      BY <2>1, <3>1 DEF RebootUp
    <3> QED BY <2>1, <3>1, <3>2, LinkPlumbingAssumption
            DEF RebootDown, RebootUp, RebootLinks, actors, Acted, Done, Working
  <2> QED BY <2>1, <2>2 DEF RebootInv, Rebooting, actors
<1>5. CASE UNCHANGED vars
  BY <1>5 DEF vars, actors, network, RebootInv, Rebooting, RebootDown, RebootUp, RebootLinks,
              Acted, Done, Working, Active, PeerReady, Plumbing, LinkUp, InPlace
<1> QED BY <1>1, <1>2, <1>3, <1>4, <1>5 DEF Next

\* A reboot returns only after its create, with every link connected.
LEMMA RebootReturns ==
  ASSUME Serial, TypeOK, ControlInv, AloneInv, RebootInv, [Next]_vars,
         NEW a \in Actor, Rebooting(a), pc'[a] = "idle"
  PROVE  \A l \in Link : LinkUp(l)
<1>1. Working(a) /\ RebootUp(a) /\ RebootLinks(a)
  BY DEF RebootInv, RebootDown
<1>2. ActorStep(a)
  <2>1. \A b \in Actor, c \in {"start", "stop", "reboot"}, S \in Targets : ~Begin(b, c, S)
    BY <1>1 DEF Begin, Working, Idle
  <2>2. \A d \in Device : ~(PingDevice(d) \/ SyncDevice(d) \/ PowerOff(d) \/ Crash(d))
    BY <1>1 DEF PingDevice, SyncDevice, PowerOff, Crash, actors, Working
  <2>3. ~UNCHANGED vars
    BY <1>1 DEF vars, actors, Working
  <2>4. \A b \in Actor : ActorStep(b) => Working(b)
    BY DEF ActorStep, NextDevice, NextStep, WaitForShutdown, Unplumb, PreDomainDone,
       DomainAction, CheckOwn, CheckPeer, PlumbOwn, PlumbPeer, PostDomainDone, WriteStatus,
       Working
  <2> QED BY <1>1, <2>1, <2>2, <2>3, <2>4 DEF Next, AloneInv
<1>3. NextStep(a)
  <2>1. ~PlumbOwn(a) /\ ~PlumbPeer(a)
    BY RebootPlumbOwn, RebootPlumbPeer
  <2> QED BY <1>1, <1>2, <2>1
       DEF ActorStep, NextDevice, WaitForShutdown, Unplumb, PreDomainDone, DomainAction,
           CheckOwn, CheckPeer, LinkDone, PostDomainDone, WriteStatus, Working, TypeOK
<1>4. action[a] = "create" /\ pend[a] = {} /\ cur[a] = None
  BY <1>1, <1>3 DEF NextStep, NextAction, ControlInv, TypeOK, Rebooting, Working
<1>5. \A d \in Device : Done(a, d)
  BY <1>4, LinkPlumbingAssumption DEF Done
<1> QED BY <1>1, <1>4, <1>5, LinkPlumbingAssumption DEF RebootLinks

\* When commands do not overlap, a reboot of the whole topology never raises and
\* returns with every link connected, whatever crashed, was left half plumbed or
\* was recorded wrongly before it (LibvirtAction.cb_action, ConnectionDocker).
THEOREM RebootRepairs ==
  ASSUME Serial
  PROVE  Spec => RebootHeals
<1>1. Init => AloneInv /\ RebootInv
  BY DEF Init, AloneInv, RebootInv, Rebooting, Working, Idle
<1>2. TypeOK /\ ControlInv /\ AloneInv /\ RebootInv /\ [Next]_vars
      => TypeOK' /\ ControlInv' /\ AloneInv' /\ RebootInv'
  BY TypeStep, AloneStep, RebootStep
<1>3. TypeOK /\ ControlInv /\ AloneInv /\ RebootInv /\ [Next]_vars =>
        [\A a \in Actor :
           /\ command[a] = "reboot"
           /\ scope[a] = Device
           /\ pc'[a] = "idle"
           => \A l \in Link : LinkUp(l)]_vars
  BY RebootReturns DEF Rebooting
<1> QED BY TypeInit, <1>1, <1>2, <1>3, PTL DEF Spec, RebootHeals

------------------------------------------------------------------------------
(* Taps, when commands do not overlap and no domain stops by itself.         *)

\* A tap is in a container that runs, has left one that is about to stop, and
\* containers never linger in a shutdown.
TapInv ==
  /\ \A l \in TapLink :
       /\ tap[l] # "lost"
       /\ tap[l] = "container" => \A c \in l \cap Container : Active(c)
  /\ \A d \in Device : dom[d] = "acpi" => d \notin Container
  /\ UnplumbedInv

\* The container of a tap link is its only one.
LEMMA OneContainer ==
  ASSUME NEW l \in TapLink, NEW c \in l, NEW d \in l, c \in Container, d \in Container
  PROVE  c = d
BY LinkPlumbingAssumption DEF TapLink, VethLink

\* A domain that goes down, its taps having left it if it is a container.
LEMMA TapsAtDown ==
  ASSUME TypeOK, TapInv, NEW d \in Device, DomainDown(d),
         \A l \in TapLink : d \in Container /\ d \in l => tap[l] # "container"
  PROVE  /\ \A l \in TapLink : tap'[l] \in {tap[l], "none"}
         /\ \A l \in TapLink :
              tap'[l] = "container" => \A c \in l \cap Container : Active(c)'
         /\ \A x \in Device : dom'[x] = "acpi" => x \notin Container
<1>1. dom' = [dom EXCEPT ![d] = "shut"]
  BY DEF DomainDown
<1>2. \A l \in TapLink : tap'[l] \in {tap[l], "none"}
  BY DEF DomainDown, NetnsGone, TapsGone
<1>3. ASSUME NEW l \in TapLink, tap'[l] = "container", NEW c \in l \cap Container
      PROVE  Active(c)'
  <2>1. tap[l] = "container" /\ Active(c) /\ c \in Device
    BY <1>2, <1>3, LinkPlumbingAssumption DEF TapInv
  <2>2. c # d
    BY <2>1, <1>3
  <2> QED BY <1>1, <2>1, <2>2 DEF Active, TypeOK
<1> QED BY <1>1, <1>2, <1>3 DEF TapInv, TypeOK

\* The plumber calls.
LEMMA TapsAtPlumb ==
  ASSUME TypeOK, ControlInv, TapInv, NEW a \in Actor, PlumbOwn(a) \/ PlumbPeer(a)
  PROVE  /\ \A l \in TapLink :
              /\ tap'[l] # "lost"
              /\ tap'[l] = "container" => \A c \in l \cap Container : Active(c)'
         /\ dom' = dom /\ action[a] = "create" /\ action'[a] # "shutdown"
<1>1. PICK x \in {cur[a], Other(cur[a], link[a])} :
        /\ x \in Container /\ link[a] \in Link /\ x \in link[a] /\ action[a] = "create"
        /\ dom' = dom /\ action'[a] \in {"create", "none"}
        /\ UNCHANGED network \/ (Active(x) /\ MoveInside(x, link[a]))
  BY OtherEnd DEF PlumbOwn, PlumbPeer, Plumb, Return, ControlInv, TypeOK, LinksOf, Plumbing
<1>2. CASE UNCHANGED network
  BY <1>1, <1>2 DEF network, TapInv, Active
<1>3. CASE Active(x) /\ MoveInside(x, link[a])
  <2>1. ASSUME NEW l \in TapLink
        PROVE  /\ tap'[l] # "lost"
               /\ tap'[l] = "container" => \A c \in l \cap Container : Active(c)
    <3>1. CASE l = link[a]
      <4>1. tap' = [tap EXCEPT ![l] = "container"]
        BY <1>3, <3>1 DEF MoveInside, TapLink
      <4> QED BY <1>1, <1>3, <3>1, <4>1, OneContainer DEF TypeOK
    <3>2. CASE l # link[a]
      <4>1. tap'[l] = tap[l]
        BY <1>3, <3>2 DEF MoveInside, TypeOK
      <4> QED BY <4>1 DEF TapInv
    <3> QED BY <3>1, <3>2
  <2> QED BY <1>1, <2>1 DEF Active
<1> QED BY <1>1, <1>2, <1>3

\* Every step keeps the taps.
LEMMA TapsStep ==
  ASSUME Serial, ~Crashes, TypeOK, ControlInv, AloneInv, TapInv, [Next]_vars
  PROVE  TapInv'
<1> DEFINE TapsRight == \A l \in TapLink :
             /\ tap[l] # "lost"
             /\ tap[l] = "container" => \A c \in l \cap Container : Active(c)
           NoAcpi == \A d \in Device : dom[d] = "acpi" => d \notin Container
<1>1. ASSUME NEW a \in Actor, ActorStep(a) PROVE TapInv'
  <2>1. Working(a)
    BY <1>1 DEF ActorStep, NextDevice, NextStep, WaitForShutdown, Unplumb, PreDomainDone,
       DomainAction, CheckOwn, CheckPeer, PlumbOwn, PlumbPeer, PostDomainDone, WriteStatus,
       Working
  <2>2. ASSUME NEW b \in Actor, b # a PROVE action'[b] # "shutdown"
    <3>1. action[b] = "none"
      BY <2>1, <2>2 DEF AloneInv, ControlInv
    <3> QED BY <1>1, <2>2, <3>1
            DEF ActorStep, NextDevice, NextStep, WaitForShutdown, Unplumb, PreDomainDone,
                DomainAction, CheckOwn, CheckPeer, PlumbOwn, PlumbPeer, PostDomainDone,
                WriteStatus, Plumb, Return, TypeOK
  <2>3. CASE UNCHANGED <<dom, network>>
    <3>1. TapsRight' /\ NoAcpi'
      BY <2>3 DEF TapInv, network, Active
    <3>2. action'[a] = "shutdown" =>
            \A l \in TapLink :
              /\ pc'[a] = "pre" /\ cur'[a] \in l /\ l \notin links'[a] => tap[l] # "container"
              /\ pc'[a] = "domain" /\ cur'[a] \in l => tap[l] # "container"
      <4>1. CASE \E d \in Device : NextDevice(a, d)
        BY <4>1 DEF NextDevice, TypeOK, LinksOf, TapLink
      <4>2. CASE PreDomainDone(a)
        BY <4>2 DEF PreDomainDone, TypeOK, TapInv, UnplumbedInv
      <4>3. CASE \E l \in Link : Unplumb(a, l)
        <5>1. PICK l \in Link : Unplumb(a, l)
          BY <4>3
        <5>2. l \in TapLink => tap[l] # "container"
          <6>1. ASSUME l \in TapLink PROVE tap' = [tap EXCEPT ![l] =
                  IF @ = "container" /\ (\E c \in l \cap Container : Active(c))
                  THEN "host" ELSE @]
            BY <5>1, <6>1 DEF Unplumb, UnplumbTap, TapLink
          <6>2. l \cap Container # {}
            BY LinkPlumbingAssumption
          <6> QED BY <2>3, <6>1, <6>2 DEF TapInv, TypeOK, network
        <5> QED BY <5>1, <5>2 DEF Unplumb, TypeOK, TapInv, UnplumbedInv
      <4>4. CASE pc'[a] \notin {"pre", "domain"}
        BY <4>4
      <4> QED BY <1>1, <4>1, <4>2, <4>3, <4>4
              DEF ActorStep, NextStep, WaitForShutdown, DomainAction, CheckOwn, CheckPeer,
                  PlumbOwn, PlumbPeer, Plumb, Return, LinkDone, PostDomainDone, WriteStatus,
                  TypeOK
    <3> QED BY <2>2, <2>3, <3>1, <3>2 DEF TapInv, UnplumbedInv, network
  <2>4. CASE \E l \in Link : Unplumb(a, l)
    <3>1. PICK l \in Link : Unplumb(a, l)
      BY <2>4
    <3>2. dom' = dom /\ \A k \in TapLink : tap'[k] = tap[k] \/ (k = l /\ tap'[k] = "host")
      BY <3>1 DEF Unplumb, UnplumbVeth, UnplumbTap, TypeOK
    <3>3. l \in TapLink => tap'[l] # "container"
      <4>1. ASSUME l \in TapLink PROVE tap' = [tap EXCEPT ![l] =
              IF @ = "container" /\ (\E c \in l \cap Container : Active(c))
              THEN "host" ELSE @]
        BY <3>1, <4>1 DEF Unplumb, UnplumbTap, TapLink
      <4>2. l \cap Container # {}
        BY LinkPlumbingAssumption
      <4> QED BY <4>1, <4>2 DEF TapInv, TypeOK
    <3>4. TapsRight' /\ NoAcpi'
      BY <3>2 DEF TapInv, Active
    <3> QED BY <2>2, <3>1, <3>2, <3>3, <3>4 DEF Unplumb, TypeOK, TapInv, UnplumbedInv
  <2>5. CASE PlumbOwn(a) \/ PlumbPeer(a)
    BY <2>2, <2>5, TapsAtPlumb DEF TapInv, UnplumbedInv
  <2>6. CASE DomainAction(a)
    <3>1. cur[a] \in Device /\ action[a] \in {"create", "shutdown", "destroy"}
          /\ DomainStep(cur[a], action[a]) /\ pc'[a] \in {"post", "status"}
      BY <2>6 DEF DomainAction, ControlInv, TypeOK, Working
    <3>2. UnplumbedInv'
      BY <2>2, <3>1 DEF UnplumbedInv
    <3>3. CASE DomainDown(cur[a]) /\ (cur[a] \in Container => action[a] = "shutdown")
      BY <2>6, <3>1, <3>2, <3>3, TapsAtDown DEF DomainAction, TapInv, UnplumbedInv
    <3>4. CASE DomainUp(cur[a])
      <4>1. dom' = [dom EXCEPT ![cur[a]] = "running"]
            /\ \A l \in TapLink : tap'[l] \in {tap[l], "host"}
        BY <3>4 DEF DomainUp, TapsCreated, network
      <4>2. TapsRight' /\ NoAcpi'
        BY <3>1, <4>1, LinkPlumbingAssumption DEF TapInv, Active, TypeOK
      <4> QED BY <3>2, <4>2 DEF TapInv
    <3>5. CASE /\ dom' = [dom EXCEPT ![cur[a]] = "acpi"] /\ UNCHANGED network
               /\ cur[a] \notin Container
      <4>1. TapsRight' /\ NoAcpi'
        BY <3>1, <3>5, LinkPlumbingAssumption DEF TapInv, Active, TypeOK, network
      <4> QED BY <3>2, <4>1 DEF TapInv
    <3> QED BY <2>3, <3>1, <3>3, <3>4, <3>5, DomainStepCases
  <2> QED BY <1>1, <2>3, <2>4, <2>5, <2>6
          DEF ActorStep, NextDevice, NextStep, WaitForShutdown, PreDomainDone, CheckOwn,
              CheckPeer, PostDomainDone, WriteStatus
<1>2. ASSUME NEW d \in Device, PowerOff(d) PROVE TapInv'
  <2>1. d \notin Container
    BY <1>2 DEF PowerOff, TapInv
  <2>2. /\ \A l \in TapLink : tap'[l] \in {tap[l], "none"}
        /\ TapsRight' /\ NoAcpi'
    BY <1>2, <2>1, TapsAtDown DEF PowerOff, TapInv
  <2> QED BY <1>2, <2>2 DEF PowerOff, actors, TapInv, UnplumbedInv
<1>3. ASSUME NEW a \in Actor, NEW c, NEW S, Begin(a, c, S) PROVE TapInv'
  <2>1. UnplumbedInv'
    BY <1>3 DEF Begin, Idle, UnplumbedInv, TypeOK
  <2> QED BY <1>3, <2>1 DEF Begin, TapInv, network, Active
<1>4. CASE UNCHANGED vars \/ \E d \in Device : PingDevice(d) \/ SyncDevice(d)
  <2>1. UNCHANGED <<dom, network, actors>>
    BY <1>4 DEF vars, PingDevice, SyncDevice
  <2> QED BY <2>1 DEF TapInv, UnplumbedInv, Active, network, actors
<1> QED BY <1>1, <1>2, <1>3, <1>4 DEF Next, Crash

\* No container takes the tap of a running machine down with it: the shutdown
\* moves the tap out first (destroy_tap_to_container_link).  A container that
\* crashes, or is stopped while another command starts it, does lose its taps.
THEOREM TapsKept ==
  ASSUME Serial, ~Crashes
  PROVE  Spec => []TapNotLost
<1>1. Init => AloneInv /\ TapInv
  BY DEF Init, AloneInv, TapInv, UnplumbedInv, Working, Idle
<1>2. TypeOK /\ ControlInv /\ AloneInv /\ TapInv /\ [Next]_vars
      => TypeOK' /\ ControlInv' /\ AloneInv' /\ TapInv'
  BY TypeStep, AloneStep, TapsStep
<1>3. TapInv => TapNotLost
  BY DEF TapInv, TapNotLost
<1> QED BY TypeInit, <1>1, <1>2, <1>3, PTL DEF Spec

------------------------------------------------------------------------------
(* When operations do not overlap and no domain stops by itself, every link  *)
(* between two devices that are up is connected, for every topology and      *)
(* every sequence of commands.                                               *)

\* The operator waits for each command to return, no domain stops by itself and
\* every synchronisation succeeds.
OneAtATime == Serial /\ ~Crashes /\ SyncResult \subseteq {"ready"}

\* A domain that goes down, its taps having left it if it is a container,
\* disturbs its own links only.
LEMMA DomainDownFrame ==
  ASSUME TypeOK, IfaceInv, NEW d \in Device, DomainDown(d),
         \A l \in TapLink : d \in Container /\ d \in l => tap[l] # "container"
  PROVE  /\ dom' = [dom EXCEPT ![d] = "shut"]
         /\ IfaceInv'
         /\ \A l \in Link, x \in Device :
              d \notin l => (InPlace(x, l)' <=> InPlace(x, l))
<1> USE LinkPlumbingAssumption DEF TypeOK
<1>1. dom' = [dom EXCEPT ![d] = "shut"]
  BY DEF DomainDown
<1>2. CASE d \in Container
  <2>1. NetnsGone(d)
    BY <1>2 DEF DomainDown
  <2>2. tap' = tap
    <3>1. \A l \in TapLink : tap'[l] = tap[l]
      BY <1>2, <2>1 DEF NetnsGone
    <3>2. tap' = [l \in TapLink |-> tap'[l]]
      BY <2>1 DEF NetnsGone
    <3>3. QED
      BY <3>1, <3>2
  <2>3. ASSUME NEW e \in inside'
        PROVE  Active(e[1])' /\ e[2] \in pairs'
    <3>1. /\ e \in inside /\ <<d, e[2]>> \notin inside
          /\ e = <<e[1], e[2]>>
      BY <2>1 DEF NetnsGone, End
    <3>2. e[1] # d /\ e[1] \in Device
      BY <3>1 DEF End
    <3>3. QED
      BY <1>1, <2>1, <3>1, <3>2 DEF NetnsGone, IfaceInv, Active
  <2>4. ASSUME NEW l \in TapLink
        PROVE  /\ tap'[l] # "lost"
               /\ tap'[l] = "container" => \A c \in l \cap Container : Active(c)'
               /\ \A v \in l \ Container : tap'[l] = "none" <=> ~Active(v)'
    <3>1. l \subseteq Device
      BY OtherEnd DEF TapLink
    <3>2. QED
      BY <1>1, <1>2, <2>2, <3>1 DEF IfaceInv, Active
  <2>5. ASSUME NEW l \in Link, NEW x \in Device, d \notin l
        PROVE  InPlace(x, l)' <=> InPlace(x, l)
    <3>1. <<d, l>> \notin inside
      BY <2>5 DEF End
    <3>2. <<x, l>> \in inside' <=> <<x, l>> \in inside
      BY <2>1, <3>1 DEF NetnsGone
    <3>3. QED
      BY <2>2, <3>2 DEF InPlace
  <2>6. IfaceInv'
    BY <2>3, <2>4 DEF IfaceInv
  <2>7. QED
    BY <1>1, <2>5, <2>6
<1>3. CASE d \notin Container
  <2>1. TapsGone(d)
    BY <1>3 DEF DomainDown
  <2>2. ASSUME NEW e \in inside'
        PROVE  Active(e[1])' /\ e[2] \in pairs'
    BY <1>1, <1>3, <2>1 DEF TapsGone, IfaceInv, Active, End
  <2>3. ASSUME NEW l \in TapLink
        PROVE  /\ tap'[l] # "lost"
               /\ tap'[l] = "container" => \A c \in l \cap Container : Active(c)'
               /\ \A v \in l \ Container : tap'[l] = "none" <=> ~Active(v)'
    <3>1. PICK c \in Container : \E e \in Device \ {c} : l = {c, e}
      BY DEF TapLink
    <3>2. CASE d \in l
      BY <1>1, <1>3, <2>1, <3>1, <3>2 DEF TapsGone, Active
    <3>3. CASE d \notin l
      <4>1. tap'[l] = tap[l] /\ \A y \in l : dom'[y] = dom[y]
        BY <1>1, <2>1, <3>1, <3>3 DEF TapsGone
      <4>2. QED
        BY <4>1 DEF IfaceInv, Active
    <3>4. QED
      BY <3>2, <3>3
  <2>4. ASSUME NEW l \in Link, NEW x \in Device, d \notin l
        PROVE  InPlace(x, l)' <=> InPlace(x, l)
    BY <2>1, <2>4 DEF TapsGone, InPlace, TapLink
  <2>5. IfaceInv'
    BY <2>2, <2>3 DEF IfaceInv
  <2>6. QED
    BY <1>1, <2>4, <2>5
<1>4. QED
  BY <1>2, <1>3

\* A domain that comes up brings its taps, which were nowhere.
LEMMA DomainUpFrame ==
  ASSUME TypeOK, IfaceInv, NEW d \in Device, ~Active(d), DomainUp(d)
  PROVE  /\ dom' = [dom EXCEPT ![d] = "running"]
         /\ IfaceInv'
         /\ \A l \in Link, x \in Device :
              d \notin l => (InPlace(x, l)' <=> InPlace(x, l))
         /\ \A l \in Link, x \in Device : InPlace(x, l) => InPlace(x, l)'
<1> USE LinkPlumbingAssumption DEF TypeOK
<1>1. dom' = [dom EXCEPT ![d] = "running"]
  BY DEF DomainUp
<1>2. inside' = inside /\ pairs' = pairs
  BY DEF DomainUp, TapsCreated, network
<1>3. \A e \in inside' : Active(e[1])' /\ e[2] \in pairs'
  BY <1>1, <1>2 DEF IfaceInv, Active, End
<1>4. CASE d \in Container
  <2>1. tap' = tap
    BY <1>4 DEF DomainUp, network
  <2>2. ASSUME NEW l \in TapLink
        PROVE  /\ tap'[l] # "lost"
               /\ tap'[l] = "container" => \A c \in l \cap Container : Active(c)'
               /\ \A v \in l \ Container : tap'[l] = "none" <=> ~Active(v)'
    <3>1. l \subseteq Device
      BY OtherEnd DEF TapLink
    <3>2. QED
      BY <1>1, <1>4, <2>1, <3>1 DEF IfaceInv, Active
  <2>3. IfaceInv'
    BY <1>3, <2>2 DEF IfaceInv
  <2>4. \A l \in Link, x \in Device : InPlace(x, l)' <=> InPlace(x, l)
    BY <1>2, <2>1 DEF InPlace
  <2>5. QED
    BY <1>1, <2>3, <2>4
<1>5. CASE d \notin Container
  <2>1. tap' = [l \in TapLink |-> IF d \in l THEN "host" ELSE tap[l]]
    BY <1>5 DEF DomainUp, TapsCreated
  <2>2. ASSUME NEW l \in TapLink
        PROVE  /\ tap'[l] # "lost"
               /\ tap'[l] = "container" => \A c \in l \cap Container : Active(c)'
               /\ \A v \in l \ Container : tap'[l] = "none" <=> ~Active(v)'
               /\ d \in l => tap[l] = "none"
    <3>1. PICK c \in Container : \E e \in Device \ {c} : l = {c, e}
      BY DEF TapLink
    <3>2. CASE d \in l
      BY <1>1, <1>5, <2>1, <3>1, <3>2 DEF IfaceInv, Active
    <3>3. CASE d \notin l
      <4>1. tap'[l] = tap[l] /\ \A y \in l : dom'[y] = dom[y]
        BY <1>1, <2>1, <3>1, <3>3
      <4>2. QED
        BY <3>3, <4>1 DEF IfaceInv, Active
    <3>4. QED
      BY <3>2, <3>3
  <2>3. IfaceInv'
    BY <1>3, <2>2 DEF IfaceInv
  <2>4. \A l \in Link, x \in Device : InPlace(x, l) => InPlace(x, l)'
    BY <1>2, <2>1, <2>2 DEF InPlace, TapLink
  <2>5. \A l \in Link, x \in Device :
          d \notin l => (InPlace(x, l)' <=> InPlace(x, l))
    BY <1>2, <2>1 DEF InPlace, TapLink
  <2>6. QED
    BY <1>1, <2>3, <2>4, <2>5
<1>6. QED
  BY <1>4, <1>5

\* What a plumber call that does not raise leaves behind.
LEMMA Plumbed ==
  ASSUME TypeOK, IfaceInv, dom' = dom,
         NEW l \in Link, NEW x \in l \cap Container, \A y \in l : Active(y),
         \/ NothingToPlumb(x, l) /\ UNCHANGED network
         \/ ~NothingToPlumb(x, l) /\ MoveInside(x, l)
  PROVE  /\ IfaceInv'
         /\ InPlace(x, l)'
         /\ \A k \in Link, y \in Device : InPlace(y, k) => InPlace(y, k)'
<1> USE LinkPlumbingAssumption DEF TypeOK
<1>1. CASE NothingToPlumb(x, l) /\ UNCHANGED network
  <2>1. IfaceInv' /\ \A k \in Link, y \in Device : InPlace(y, k) => InPlace(y, k)'
    BY <1>1 DEF network, IfaceInv, Active, InPlace
  <2>2. InPlace(x, l)
    <3>1. CASE l \in VethLink
      BY <1>1, <3>1 DEF NothingToPlumb, InPlace
    <3>2. CASE l \notin VethLink
      <4>1. l \in TapLink
        BY <3>2 DEF TapLink
      <4>2. PICK v \in l : v \notin Container
        BY <3>2 DEF VethLink
      <4>3. tap[l] # "host" /\ tap[l] # "lost" /\ tap[l] # "none"
        BY <1>1, <3>2, <4>1, <4>2 DEF NothingToPlumb, IfaceInv
      <4>4. QED
        BY <3>2, <4>1, <4>3 DEF InPlace
    <3>3. QED
      BY <3>1, <3>2
  <2>3. QED
    BY <1>1, <2>1, <2>2 DEF InPlace, network
<1>2. CASE ~NothingToPlumb(x, l) /\ MoveInside(x, l) /\ l \in VethLink
  BY <1>2 DEF MoveInside, IfaceInv, Active, InPlace
<1>3. CASE ~NothingToPlumb(x, l) /\ MoveInside(x, l) /\ l \notin VethLink
  <2>1. /\ l \in TapLink /\ tap[l] = "host"
        /\ tap' = [tap EXCEPT ![l] = "container"]
        /\ pairs' = pairs /\ inside' = inside
    BY <1>3 DEF MoveInside, NothingToPlumb, TapLink
  <2>2. IfaceInv'
    BY <2>1 DEF IfaceInv, Active
  <2>3. QED
    BY <1>3, <2>1, <2>2 DEF InPlace, TapLink
<1>4. QED
  BY <1>1, <1>2, <1>3

\* While a plumber is at work both ends of its link run.
LEMMA BothEndsRun ==
  ASSUME OneAtATime, IInv, NEW a \in Actor, pc[a] \in {"plumb_own", "plumb_peer"}
  PROVE  /\ link[a] \in Link /\ cur[a] \in link[a]
         /\ \A y \in link[a] : Active(y)
<1> USE LinkPlumbingAssumption DEF IInv
<1>1. link[a] \in Link /\ cur[a] \in link[a] /\ cur[a] \in Device
  BY DEF TypeOK, ControlInv, Plumbing, LinksOf
<1>2. Active(cur[a])
  BY DEF DomainInv, Plumbing
<1> DEFINE o == Other(cur[a], link[a])
<1>3. o \in Device /\ o # cur[a] /\ link[a] = {cur[a], o}
  BY <1>1, OtherEnd
<1>4. ~Busy(o)
  BY <1>3 DEF Busy, SerialInv, ControlInv, Working
<1>5. Active(o)
  BY <1>3, <1>4 DEF CheckedInv, StatusInv, Active
<1>6. QED
  BY <1>1, <1>2, <1>3, <1>5

\* The start of a command preserves the invariant.
LEMMA BeginStep ==
  ASSUME OneAtATime, IInv, TypeOK', ControlInv',
         NEW a \in Actor, NEW c \in {"start", "stop", "reboot"},
       NEW S \in Targets, Begin(a, c, S)
  PROVE  IInv'
<1> USE LinkPlumbingAssumption DEF IInv, OneAtATime
<1>1. SerialInv'
  BY DEF Begin, FirstAction, Targets, network, TypeOK, ControlInv,
     SerialInv, Working, Idle, Active
<1>2. CheckedInv'
  BY DEF Begin, FirstAction, Targets, network, TypeOK, ControlInv,
     SerialInv, CheckedInv, Working, Idle
<1>3. StatusInv'
  BY DEF Begin, FirstAction, Targets, network, TypeOK, ControlInv,
     SerialInv, StatusInv, DomainInv, Working, Busy, DestroyComing, Active, PeerReady, Idle, Plumbing
<1>4. DomainInv'
  BY DEF Begin, FirstAction, Targets, network, TypeOK, ControlInv,
     SerialInv, StatusInv, DomainInv, Working, Active, Plumbing, DestroyComing, Idle
<1>5. IfaceInv'
  BY DEF Begin, FirstAction, Targets, network, TypeOK, ControlInv,
     IfaceInv, Active
<1>6. UnplumbedInv'
  BY DEF Begin, FirstAction, Targets, network, TypeOK, ControlInv,
     SerialInv, UnplumbedInv, Working
<1>7. CacheInv'
  BY DEF Begin, FirstAction, Targets, network, TypeOK, ControlInv,
     SerialInv, CacheInv, Working, InPlace, Idle
<1>8. ProgressInv'
  BY DEF Begin, FirstAction, Targets, network, TypeOK, ControlInv,
     SerialInv, CheckedInv, ProgressInv, CacheInv, Working, InPlace, LinkUp, Up, Active, Plumbing, Idle, LinksOf
<1>9. LinksPlumbed'
  BY DEF Begin, FirstAction, Targets, network, TypeOK, ControlInv,
     SerialInv, StatusInv, ProgressInv, LinksPlumbed, Working, LinkUp, Up, Active, Busy, Plumbing, Idle
<1>10. QED
  BY <1>1, <1>2, <1>3, <1>4, <1>5, <1>6, <1>7, <1>8, <1>9

\* Taking the next device preserves the invariant.
LEMMA NextDeviceStep ==
  ASSUME OneAtATime, IInv, TypeOK', ControlInv',
         NEW a \in Actor, NEW d \in Device, NextDevice(a, d)
  PROVE  IInv'
<1> USE LinkPlumbingAssumption DEF IInv, OneAtATime
<1>1. SerialInv'
  BY DEF NextDevice, network, TypeOK, ControlInv,
     SerialInv, Working, Idle, Active
<1>2. CheckedInv'
  BY DEF NextDevice, network, TypeOK, ControlInv,
     SerialInv, CheckedInv, Working, Idle
<1>3. StatusInv'
  BY DEF NextDevice, network, TypeOK, ControlInv,
     SerialInv, StatusInv, DomainInv, Working, Busy, DestroyComing, Active, PeerReady, Idle, Plumbing
<1>4. DomainInv'
  BY DEF NextDevice, network, TypeOK, ControlInv,
     SerialInv, StatusInv, DomainInv, Working, Active, Plumbing, DestroyComing, Idle
<1>5. IfaceInv'
  BY DEF NextDevice, network, TypeOK, ControlInv,
     IfaceInv, Active
<1>6. UnplumbedInv'
  <2>1. ASSUME NEW b \in Actor, action'[b] = "shutdown"
        PROVE  b = a
    BY <2>1 DEF NextDevice, TypeOK, ControlInv, SerialInv, Working
  <2>2. \A l \in TapLink : d \in l => l \in links'[a]
    BY DEF NextDevice, LinksOf, TypeOK, TapLink
  <2>3. cur'[a] = d /\ pc'[a] = "pre"
    BY DEF NextDevice, TypeOK
  <2>4. QED
    BY <2>1, <2>2, <2>3 DEF UnplumbedInv
<1>7. CacheInv'
  BY DEF NextDevice, network, TypeOK, ControlInv,
     SerialInv, CacheInv, Working, InPlace
<1>8. ProgressInv'
  BY DEF NextDevice, network, TypeOK, ControlInv,
     SerialInv, CheckedInv, ProgressInv, CacheInv, Working, InPlace, LinkUp, Up, Active, Plumbing, Idle, LinksOf
<1>9. LinksPlumbed'
  BY DEF NextDevice, network, TypeOK, ControlInv,
     SerialInv, StatusInv, ProgressInv, LinksPlumbed, Working, LinkUp, Up, Active, Busy, Plumbing, Idle
<1>10. QED
  BY <1>1, <1>2, <1>3, <1>4, <1>5, <1>6, <1>7, <1>8, <1>9

\* The next action of a command preserves the invariant.
LEMMA NextStepStep ==
  ASSUME OneAtATime, IInv, TypeOK', ControlInv',
         NEW a \in Actor, NextStep(a)
  PROVE  IInv'
<1> USE LinkPlumbingAssumption DEF IInv, OneAtATime
<1>1. SerialInv'
  BY DEF NextStep, Return, NextAction, network, TypeOK, ControlInv,
     SerialInv, Working, Idle, Active
<1>2. CheckedInv'
  BY DEF NextStep, Return, NextAction, network, TypeOK, ControlInv,
     SerialInv, CheckedInv, Working, Idle
<1>3. StatusInv'
  BY DEF NextStep, Return, NextAction, network, TypeOK, ControlInv,
     SerialInv, StatusInv, DomainInv, Working, Busy, DestroyComing, Active, PeerReady, Idle, Plumbing
<1>4. DomainInv'
  BY DEF NextStep, Return, NextAction, network, TypeOK, ControlInv,
     SerialInv, StatusInv, DomainInv, Working, Active, Plumbing, DestroyComing, Idle
<1>5. IfaceInv'
  BY DEF NextStep, Return, NextAction, network, TypeOK, ControlInv,
     IfaceInv, Active
<1>6. UnplumbedInv'
  BY DEF NextStep, Return, NextAction, network, TypeOK, ControlInv,
     SerialInv, UnplumbedInv, Working
<1>7. CacheInv'
  BY DEF NextStep, Return, NextAction, network, TypeOK, ControlInv,
     SerialInv, CacheInv, Working, InPlace
<1>8. ProgressInv'
  BY DEF NextStep, Return, NextAction, network, TypeOK, ControlInv,
     SerialInv, CheckedInv, ProgressInv, CacheInv, Working, InPlace, LinkUp, Up, Active, Plumbing, Idle, LinksOf
<1>9. LinksPlumbed'
  BY DEF NextStep, Return, NextAction, network, TypeOK, ControlInv,
     SerialInv, StatusInv, ProgressInv, LinksPlumbed, Working, LinkUp, Up, Active, Busy, Plumbing, Idle
<1>10. QED
  BY <1>1, <1>2, <1>3, <1>4, <1>5, <1>6, <1>7, <1>8, <1>9

\* The wait for the guests preserves the invariant.
LEMMA WaitForShutdownStep ==
  ASSUME OneAtATime, IInv, TypeOK', ControlInv',
         NEW a \in Actor, WaitForShutdown(a)
  PROVE  IInv'
<1> USE LinkPlumbingAssumption DEF IInv, OneAtATime
<1>1. SerialInv'
  BY DEF WaitForShutdown, network, TypeOK, ControlInv,
     SerialInv, Working, Idle, Active
<1>2. CheckedInv'
  BY DEF WaitForShutdown, network, TypeOK, ControlInv,
     SerialInv, CheckedInv, Working, Idle
<1>3. StatusInv'
  BY DEF WaitForShutdown, network, TypeOK, ControlInv,
     SerialInv, StatusInv, DomainInv, Working, Busy, DestroyComing, Active, PeerReady, Idle, Plumbing
<1>4. DomainInv'
  BY DEF WaitForShutdown, network, TypeOK, ControlInv,
     SerialInv, StatusInv, DomainInv, Working, Active, Plumbing, DestroyComing, Idle
<1>5. IfaceInv'
  BY DEF WaitForShutdown, network, TypeOK, ControlInv,
     IfaceInv, Active
<1>6. UnplumbedInv'
  BY DEF WaitForShutdown, network, TypeOK, ControlInv,
     SerialInv, UnplumbedInv, Working
<1>7. CacheInv'
  BY DEF WaitForShutdown, network, TypeOK, ControlInv,
     SerialInv, CacheInv, Working, InPlace
<1>8. ProgressInv'
  BY DEF WaitForShutdown, network, TypeOK, ControlInv,
     SerialInv, CheckedInv, ProgressInv, CacheInv, Working, InPlace, LinkUp, Up, Active, Plumbing, Idle, LinksOf
<1>9. LinksPlumbed'
  BY DEF WaitForShutdown, network, TypeOK, ControlInv,
     SerialInv, StatusInv, ProgressInv, LinksPlumbed, Working, LinkUp, Up, Active, Busy, Plumbing, Idle
<1>10. QED
  BY <1>1, <1>2, <1>3, <1>4, <1>5, <1>6, <1>7, <1>8, <1>9

\* Unplumbing a link before a shutdown preserves the invariant.
LEMMA UnplumbStep ==
  ASSUME OneAtATime, IInv, TypeOK', ControlInv',
         NEW a \in Actor, NEW l \in Link, Unplumb(a, l)
  PROVE  IInv'
<1> USE LinkPlumbingAssumption DEF IInv, OneAtATime
<1>1. SerialInv'
  BY DEF Unplumb, network, TypeOK, ControlInv,
     SerialInv, Working, Idle, Active
<1>2. CheckedInv'
  BY DEF Unplumb, network, TypeOK, ControlInv,
     SerialInv, CheckedInv, Working, Idle
<1>3. StatusInv'
  BY DEF Unplumb, network, TypeOK, ControlInv,
     SerialInv, StatusInv, DomainInv, Working, Busy, DestroyComing, Active, PeerReady, Idle, Plumbing
<1>4. DomainInv'
  BY DEF Unplumb, network, TypeOK, ControlInv,
     SerialInv, StatusInv, DomainInv, Working, Active, Plumbing, DestroyComing, Idle
<1>5. IfaceInv'
  <2>1. CASE l \in VethLink
    <3>1. UnplumbVeth(cur[a], l)
      BY <2>1 DEF Unplumb
    <3>2. inside' \subseteq inside /\ dom' = dom /\ tap' = tap
      BY <3>1 DEF UnplumbVeth, Unplumb
    <3>3. ASSUME NEW e \in inside' PROVE e[2] \in pairs'
      <4>1. CASE e[2] # l
        BY <3>1, <3>2, <4>1 DEF UnplumbVeth, IfaceInv
      <4>2. CASE e[2] = l
        <5>1. /\ e = <<e[1], l>> /\ e \in inside
              /\ e[1] = cur[a] \/ e[1] = Other(cur[a], l)
          BY <3>2, <4>2, OtherEnd DEF TypeOK, End, Unplumb, ControlInv, LinksOf
        <5>2. l \in pairs
          BY <5>1 DEF IfaceInv
        <5>3. QED
          BY <3>1, <4>2, <5>1, <5>2 DEF UnplumbVeth
      <4>3. QED
        BY <4>1, <4>2
    <3>4. QED
      BY <3>2, <3>3 DEF IfaceInv, Active
  <2>2. CASE l \notin VethLink
    <3>1. l \in TapLink /\ UnplumbTap(l) /\ dom' = dom
      BY <2>2 DEF Unplumb, TapLink
    <3>2. pairs' = pairs /\ inside' = inside
      BY <3>1 DEF UnplumbTap
    <3>3. \A k \in TapLink :
            \/ tap'[k] = tap[k]
            \/ tap'[k] = "host" /\ tap[k] = "container"
      BY <3>1 DEF UnplumbTap, TypeOK
    <3>4. QED
      BY <3>1, <3>2, <3>3 DEF IfaceInv, Active
  <2>3. QED
    BY <2>1, <2>2
<1>6. UnplumbedInv'
  <2>1. ASSUME NEW b \in Actor, action'[b] = "shutdown" PROVE b = a
    BY <2>1 DEF Unplumb, TypeOK, ControlInv, SerialInv, Working
  <2>2. ASSUME NEW k \in TapLink, cur'[a] \in k, k \notin links'[a]
        PROVE  tap'[k] # "container"
    <3>1. CASE k = l
      <4>1. PICK c \in Container : c \in l
        OBVIOUS
      <4>2. tap[l] = "container" => Active(c)
        BY <3>1, <4>1 DEF IfaceInv
      <4>3. UnplumbTap(l)
        BY <3>1 DEF Unplumb, TapLink
      <4>4. QED
        BY <3>1, <4>1, <4>2, <4>3 DEF UnplumbTap, TypeOK
    <3>2. CASE k # l
      <4>1. cur[a] \in k /\ k \notin links[a] /\ pc[a] = "pre" /\ action[a] = "shutdown"
        BY <2>2, <3>2 DEF Unplumb, TypeOK
      <4>2. tap'[k] = tap[k]
        BY <3>2 DEF Unplumb, UnplumbVeth, UnplumbTap, TypeOK
      <4>3. QED
        BY <4>1, <4>2 DEF UnplumbedInv
    <3>3. QED
      BY <3>1, <3>2
  <2>3. pc'[a] = "pre"
    BY DEF Unplumb
  <2>4. QED
    BY <2>1, <2>2, <2>3 DEF UnplumbedInv
<1>7. CacheInv'
  <2>1. \A b \in Actor : plumbed[b] = {}
    BY DEF Unplumb, TypeOK, ControlInv, SerialInv, CacheInv, Working
  <2>2. \A b \in Actor : plumbed'[b] = {}
    BY <2>1 DEF Unplumb, TypeOK
  <2>3. QED
    BY <2>2 DEF CacheInv
<1>8. ProgressInv'
  BY DEF Unplumb, network, TypeOK, ControlInv,
     SerialInv, CheckedInv, ProgressInv, CacheInv, Working, InPlace, LinkUp, Up, Active, Plumbing, Idle, LinksOf
<1>9. LinksPlumbed'
  <2>1. /\ dom' = dom /\ status' = status /\ cur' = cur
        /\ cur[a] \in l
    BY DEF Unplumb, TypeOK, ControlInv, LinksOf
  <2>2. ASSUME NEW k \in Link, k # l PROVE LinkUp(k)' <=> LinkUp(k)
    BY <2>2 DEF Unplumb, UnplumbVeth, UnplumbTap, LinkUp, TypeOK, TapLink
  <2>3. QED
    BY <2>1, <2>2 DEF LinksPlumbed, Up, Active, Busy
<1>10. QED
  BY <1>1, <1>2, <1>3, <1>4, <1>5, <1>6, <1>7, <1>8, <1>9

\* Passing on to the domain preserves the invariant.
LEMMA PreDomainDoneStep ==
  ASSUME OneAtATime, IInv, TypeOK', ControlInv',
         NEW a \in Actor, PreDomainDone(a)
  PROVE  IInv'
<1> USE LinkPlumbingAssumption DEF IInv, OneAtATime
<1>1. SerialInv'
  BY DEF PreDomainDone, network, TypeOK, ControlInv,
     SerialInv, Working, Idle, Active
<1>2. CheckedInv'
  BY DEF PreDomainDone, network, TypeOK, ControlInv,
     SerialInv, CheckedInv, Working, Idle
<1>3. StatusInv'
  BY DEF PreDomainDone, network, TypeOK, ControlInv,
     SerialInv, StatusInv, DomainInv, Working, Busy, DestroyComing, Active, PeerReady, Idle, Plumbing
<1>4. DomainInv'
  BY DEF PreDomainDone, network, TypeOK, ControlInv,
     SerialInv, StatusInv, DomainInv, Working, Active, Plumbing, DestroyComing, Idle
<1>5. IfaceInv'
  BY DEF PreDomainDone, network, TypeOK, ControlInv,
     IfaceInv, Active
<1>6. UnplumbedInv'
  BY DEF PreDomainDone, network, TypeOK, ControlInv,
     SerialInv, UnplumbedInv, Working
<1>7. CacheInv'
  BY DEF PreDomainDone, network, TypeOK, ControlInv,
     SerialInv, CacheInv, Working, InPlace
<1>8. ProgressInv'
  BY DEF PreDomainDone, network, TypeOK, ControlInv,
     SerialInv, CheckedInv, ProgressInv, CacheInv, Working, InPlace, LinkUp, Up, Active, Plumbing, Idle, LinksOf
<1>9. LinksPlumbed'
  BY DEF PreDomainDone, network, TypeOK, ControlInv,
     SerialInv, StatusInv, ProgressInv, LinksPlumbed, Working, LinkUp, Up, Active, Busy, Plumbing, Idle
<1>10. QED
  BY <1>1, <1>2, <1>3, <1>4, <1>5, <1>6, <1>7, <1>8, <1>9

\* Starting or stopping the domain preserves the invariant.
LEMMA DomainActionStep ==
  ASSUME OneAtATime, IInv, TypeOK', ControlInv',
         NEW a \in Actor, DomainAction(a)
  PROVE  IInv'
<1> USE LinkPlumbingAssumption DEF IInv, OneAtATime
<1>0. PICK d \in Device : d = cur[a]
  BY DEF DomainAction, TypeOK, ControlInv
<1> USE <1>0
<1> DEFINE act == action[a]
<1>a. /\ d \in Device /\ act \in {"create", "shutdown", "destroy"}
      /\ pc[a] = "domain" /\ Working(a) /\ DomainStep(d, act)
      /\ status' = status /\ scope' = scope /\ action' = action
      /\ pend' = pend /\ cur' = cur /\ plumbed' = plumbed
      /\ d \in scope[a] /\ d \notin pend[a]
  BY DEF DomainAction, TypeOK, ControlInv, Working
<1>b. /\ pc' \in [Actor -> PCs] /\ \A b \in Actor : b # a => pc'[b] = pc[b]
      /\ pc'[a] = IF act = "create" THEN "post" ELSE "status"
  BY DEF DomainAction, TypeOK
<1>c. \A b \in Actor : b # a => ~Working(b) /\ action[b] = "none" /\ cur[b] = None
  BY <1>a DEF SerialInv, ControlInv, Working
<1>d. Busy(d) /\ Busy(d)' /\ \A x \in Device : x # d => ~Busy(x) /\ ~Busy(x)'
  BY <1>a, <1>c DEF Busy
<1>e. \A l \in TapLink : d \in Container /\ d \in l /\ act = "shutdown" =>
        tap[l] # "container"
  BY <1>a DEF UnplumbedInv
<1>f. \/ dom' = dom /\ UNCHANGED network /\ ~ActionAllowed(Active(d), act)
      \/ dom' = dom /\ UNCHANGED network /\ act = "destroy" /\ d \in Container
      \/ act = "create" /\ ~Active(d) /\ DomainUp(d)
      \/ act = "shutdown" /\ Active(d) /\ d \in Container /\ DomainDown(d)
      \/ /\ act = "shutdown" /\ Active(d) /\ d \notin Container
         /\ dom' = [dom EXCEPT ![d] = "acpi"] /\ UNCHANGED network
      \/ act = "destroy" /\ Active(d) /\ d \notin Container /\ DomainDown(d)
  BY <1>a, DomainStepCases
<1>g. /\ IfaceInv'
      /\ \A x \in Device : x # d => dom'[x] = dom[x]
      /\ \A l \in Link, x \in Device :
           d \notin l => (InPlace(x, l)' <=> InPlace(x, l))
      /\ act = "create" => \A l \in Link, x \in Device :
                             InPlace(x, l) => InPlace(x, l)'
  <2>1. CASE dom' = dom /\ UNCHANGED network
    BY <2>1 DEF IfaceInv, InPlace, Active, network
  <2>2. CASE act = "create" /\ ~Active(d) /\ DomainUp(d)
    BY <1>a, <2>2, DomainUpFrame DEF TypeOK
  <2>3. CASE act # "create" /\ DomainDown(d) /\ (d \in Container => act = "shutdown")
    BY <1>a, <1>e, <2>3, DomainDownFrame DEF TypeOK
  <2>4. CASE /\ act = "shutdown" /\ Active(d) /\ d \notin Container
             /\ dom' = [dom EXCEPT ![d] = "acpi"] /\ UNCHANGED network
    <3>1. \A x \in Device : Active(x)' <=> Active(x)
      BY <2>4 DEF TypeOK, Active
    <3>2. \A l \in TapLink : l \subseteq Device
      BY OtherEnd DEF TapLink
    <3>3. IfaceInv'
      BY <2>4, <3>1, <3>2 DEF IfaceInv, network, TypeOK, End
    <3>4. QED
      BY <2>4, <3>3 DEF InPlace, network, TypeOK
  <2>5. QED
    BY <1>f, <2>1, <2>2, <2>3, <2>4
<1>h. /\ act = "create" => Active(d)'
      /\ act = "shutdown" => (Active(d)' <=> d \notin Container /\ dom'[d] = "acpi")
      /\ act = "destroy" => ~Active(d)'
      /\ dom'[d] = "acpi" => d \notin Container /\ act = "shutdown"
  <2>1. CASE act = "create"
    <3>1. dom[d] # "acpi"
      BY <1>a, <1>c, <2>1 DEF StatusInv, DestroyComing
    <3>2. ~Active(d) \/ dom' = dom
      BY <1>f, <2>1
    <3>3. DomainUp(d) => dom'[d] = "running"
      BY <1>a DEF DomainUp, TypeOK
    <3>4. QED
      BY <1>f, <2>1, <3>1, <3>2, <3>3 DEF Active, ActionAllowed
  <2>2. CASE act = "shutdown"
    BY <1>a, <1>f, <2>2 DEF Active, ActionAllowed, DomainDown, TypeOK
  <2>3. CASE act = "destroy"
    <3>1. d \in Container => ~Active(d)
      BY <1>a, <2>3 DEF DomainInv
    <3>2. QED
      BY <1>a, <1>f, <2>3, <3>1 DEF Active, ActionAllowed, DomainDown, TypeOK
  <2>4. QED
    BY <1>a, <2>1, <2>2, <2>3
<1>1. SerialInv'
  BY DEF DomainAction, network, TypeOK, ControlInv,
     SerialInv, Working, Idle, Active
<1>2. CheckedInv'
  BY DEF DomainAction, network, TypeOK, ControlInv,
     SerialInv, CheckedInv, Working, Idle
<1>3. StatusInv'
  <2>1. Working(a)'
    BY <1>b DEF Working
  <2>2. ASSUME NEW x \in Device, x # d, NEW b \in Actor, Working(b), DestroyComing(b, x)
        PROVE  Working(a)' /\ DestroyComing(a, x)'
    BY <1>a, <1>c, <2>1, <2>2 DEF DestroyComing
  <2>3. ASSUME NEW x \in Device, x # d
        PROVE  /\ ~Busy(x)' /\ status'[x] \in PeerReady => dom'[x] = "running"
               /\ ~Busy(x)' /\ Active(x)' /\ status'[x] \notin PeerReady =>
                    /\ x \notin Container
                    /\ \E b \in Actor : Working(b)' /\ DestroyComing(b, x)'
               /\ dom'[x] = "acpi" =>
                    /\ x \notin Container
                    /\ \E b \in Actor : Working(b)' /\ DestroyComing(b, x)'
    <3>1. ~Busy(x) /\ dom'[x] = dom[x] /\ status'[x] = status[x]
      BY <1>a, <1>d, <1>g, <2>3
    <3>2. /\ status[x] \in PeerReady => dom[x] = "running"
          /\ Active(x) /\ status[x] \notin PeerReady =>
               /\ x \notin Container
               /\ \E b \in Actor : Working(b) /\ DestroyComing(b, x)
          /\ dom[x] = "acpi" =>
               /\ x \notin Container
               /\ \E b \in Actor : Working(b) /\ DestroyComing(b, x)
      BY <3>1 DEF StatusInv
    <3>3. PeerReady' = PeerReady
      BY DEF PeerReady
    <3>4. QED
      BY <2>2, <2>3, <3>1, <3>2, <3>3 DEF Active
  <2>4. dom'[d] = "acpi" => /\ d \notin Container
                           /\ Working(a)' /\ DestroyComing(a, d)'
    BY <1>a, <1>h, <2>1 DEF DestroyComing
  <2>5. QED
    BY <1>a, <1>d, <2>3, <2>4 DEF StatusInv
<1>4. DomainInv'
  <2>1. /\ pc'[a] \in Plumbing => act = "create"
        /\ pc'[a] = "status" => act # "create"
    BY <1>b DEF Plumbing
  <2>2. ASSUME act = "shutdown", NEW x \in (scope[a] \ pend[a]) \cap Container
        PROVE  ~Active(x)'
    <3>1. CASE x = d
      BY <1>a, <1>h, <2>2, <3>1
    <3>2. CASE x # d
      BY <1>a, <1>g, <2>2, <3>2, LinkPlumbingAssumption DEF DomainInv, Active
    <3>3. QED
      BY <3>1, <3>2
  <2>3. ASSUME act = "destroy", NEW x \in scope[a] \cap Container
        PROVE  ~Active(x)'
    <3>1. CASE x = d
      BY <1>h, <2>3, <3>1
    <3>2. CASE x # d
      BY <1>a, <1>g, <2>3, <3>2, LinkPlumbingAssumption DEF DomainInv, Active
    <3>3. QED
      BY <3>1, <3>2
  <2>4. \A b \in Actor : b # a =>
          /\ pc'[b] \notin Plumbing /\ pc'[b] # "status"
          /\ action'[b] = "none"
    BY <1>a, <1>b, <1>c DEF Working, Plumbing
  <2>5. /\ cur'[a] = d /\ action'[a] = act /\ scope' = scope /\ pend' = pend
        /\ Plumbing' = Plumbing
    BY <1>a DEF Plumbing
  <2>6. QED
    BY <1>a, <1>h, <2>1, <2>2, <2>3, <2>4, <2>5 DEF DomainInv
<1>5. IfaceInv'
  BY <1>g
<1>6. UnplumbedInv'
  BY <1>a, <1>b, <1>c DEF UnplumbedInv
<1>7. CacheInv'
  <2>1. ASSUME NEW b \in Actor, plumbed'[b] # {}
        PROVE  b = a /\ act = "create"
    BY <1>a, <1>c, <2>1 DEF CacheInv
  <2>2. ASSUME act = "create", NEW e \in plumbed[a]
        PROVE  InPlace(e[1], e[2])'
    <3>1. e[1] \in Device /\ e[2] \in Link
      BY LinkPlumbingAssumption DEF TypeOK, Iface
    <3>2. InPlace(e[1], e[2])
      BY DEF CacheInv
    <3>3. QED
      BY <1>g, <2>2, <3>1, <3>2
  <2>3. QED
    BY <1>a, <2>1, <2>2 DEF CacheInv
<1>8. ProgressInv'
  BY DEF DomainAction, network, TypeOK, ControlInv,
     SerialInv, CheckedInv, ProgressInv, CacheInv, Working, InPlace, LinkUp, Up, Active, Plumbing, Idle, LinksOf
<1>9. LinksPlumbed'
  <2>1. ASSUME NEW l \in Link, \A x \in l : Up(x)' /\ ~Busy(x)'
        PROVE  LinkUp(l)'
    <3>1. d \notin l /\ l \subseteq Device
      BY <1>d, <2>1, OtherEnd
    <3>2. \A x \in l : Up(x) /\ ~Busy(x)
      BY <1>a, <1>d, <1>g, <2>1, <3>1 DEF Up, Active, PeerReady
    <3>3. LinkUp(l)
      BY <3>2 DEF LinksPlumbed
    <3>4. QED
      BY <1>g, <3>1, <3>3, LinkUpInPlace, LinkUpInPlacePrime
  <2>2. QED
    BY <2>1 DEF LinksPlumbed
<1>10. QED
  BY <1>1, <1>2, <1>3, <1>4, <1>5, <1>6, <1>7, <1>8, <1>9

\* The status check for the device's own interface preserves the invariant.
LEMMA CheckOwnStep ==
  ASSUME OneAtATime, IInv, TypeOK', ControlInv',
         NEW a \in Actor, NEW l \in Link, CheckOwn(a, l)
  PROVE  IInv'
<1> USE LinkPlumbingAssumption DEF IInv, OneAtATime
<1>1. SerialInv'
  BY DEF CheckOwn, MayPlumb, network, TypeOK, ControlInv,
     SerialInv, Working, Idle, Active
<1>2. CheckedInv'
  BY DEF CheckOwn, MayPlumb, network, TypeOK, ControlInv,
     SerialInv, CheckedInv, Working, Idle
<1>3. StatusInv'
  BY DEF CheckOwn, MayPlumb, network, TypeOK, ControlInv,
     SerialInv, StatusInv, DomainInv, Working, Busy, DestroyComing, Active, PeerReady, Idle, Plumbing
<1>4. DomainInv'
  BY DEF CheckOwn, MayPlumb, network, TypeOK, ControlInv,
     SerialInv, StatusInv, DomainInv, Working, Active, Plumbing, DestroyComing, Idle
<1>5. IfaceInv'
  BY DEF CheckOwn, MayPlumb, network, TypeOK, ControlInv,
     IfaceInv, Active
<1>6. UnplumbedInv'
  BY DEF CheckOwn, MayPlumb, network, TypeOK, ControlInv,
     SerialInv, UnplumbedInv, Working
<1>7. CacheInv'
  BY DEF CheckOwn, MayPlumb, network, TypeOK, ControlInv,
     SerialInv, CacheInv, Working, InPlace
<1>8. ProgressInv'
  BY DEF CheckOwn, MayPlumb, network, TypeOK, ControlInv,
     SerialInv, CheckedInv, ProgressInv, CacheInv, Working, InPlace, LinkUp, Up, Active, Plumbing, Idle, LinksOf
<1>9. LinksPlumbed'
  BY DEF CheckOwn, MayPlumb, network, TypeOK, ControlInv,
     SerialInv, StatusInv, ProgressInv, LinksPlumbed, Working, LinkUp, Up, Active, Busy, Plumbing, Idle
<1>10. QED
  BY <1>1, <1>2, <1>3, <1>4, <1>5, <1>6, <1>7, <1>8, <1>9

\* The status check for the interface at the far end preserves the invariant.
LEMMA CheckPeerStep ==
  ASSUME OneAtATime, IInv, TypeOK', ControlInv',
         NEW a \in Actor, CheckPeer(a)
  PROVE  IInv'
<1> USE LinkPlumbingAssumption DEF IInv, OneAtATime
<1>1. SerialInv'
  BY DEF CheckPeer, MayPlumb, LinkDone, network, TypeOK, ControlInv,
     SerialInv, Working, Idle, Active
<1>2. CheckedInv'
  BY DEF CheckPeer, MayPlumb, LinkDone, network, TypeOK, ControlInv,
     SerialInv, CheckedInv, Working, Idle
<1>3. StatusInv'
  BY DEF CheckPeer, MayPlumb, LinkDone, network, TypeOK, ControlInv,
     SerialInv, StatusInv, DomainInv, Working, Busy, DestroyComing, Active, PeerReady, Idle, Plumbing
<1>4. DomainInv'
  BY DEF CheckPeer, MayPlumb, LinkDone, network, TypeOK, ControlInv,
     SerialInv, StatusInv, DomainInv, Working, Active, Plumbing, DestroyComing, Idle
<1>5. IfaceInv'
  BY DEF CheckPeer, MayPlumb, LinkDone, network, TypeOK, ControlInv,
     IfaceInv, Active
<1>6. UnplumbedInv'
  BY DEF CheckPeer, MayPlumb, LinkDone, network, TypeOK, ControlInv,
     SerialInv, UnplumbedInv, Working
<1>7. CacheInv'
  BY DEF CheckPeer, MayPlumb, LinkDone, network, TypeOK, ControlInv,
     SerialInv, CacheInv, Working, InPlace
<1>8. ProgressInv'
  <2> DEFINE o == Other(cur[a], link[a])
  <2>1. /\ link[a] \in Link /\ cur[a] \in link[a] /\ cur[a] \in Device
        /\ o \in Device /\ o # cur[a] /\ link[a] = {cur[a], o}
    BY OtherEnd DEF CheckPeer, TypeOK, ControlInv, Plumbing, LinksOf
  <2>2. /\ UNCHANGED <<dom, status, pairs, inside, tap, action, cur>>
        /\ \A b \in Actor : b # a => ~Working(b) /\ cur[b] = None
    BY DEF CheckPeer, network, ControlInv, SerialInv, Working
  <2>3. CASE MayPlumb(a, o, link[a], o)
    BY <2>2, <2>3
       DEF CheckPeer, TypeOK, ProgressInv, Up, Active, Working, LinkUp, InPlace, Plumbing
  <2>4. CASE ~MayPlumb(a, o, link[a], o)
    <3>1. LinkDone(a)
      BY <2>4 DEF CheckPeer
    <3>2. Up(o) => LinkUp(link[a])
      <4>1. ASSUME Up(o) PROVE o \in Container => InPlace(o, link[a])
        BY <2>1, <2>4, <4>1 DEF MayPlumb, Up, CacheInv
      <4>2. ASSUME Up(o) PROVE cur[a] \in Container => InPlace(cur[a], link[a])
        BY <2>1, <4>2 DEF CheckPeer, ProgressInv
      <4>3. QED
        BY <2>1, <4>1, <4>2, LinkUpInPlace
    <3>3. pc'[a] = "post" /\ links'[a] = links[a] \ {link[a]}
      BY <3>1 DEF LinkDone, TypeOK
    <3>4. ASSUME NEW l \in Link, cur[a] \in l, Up(Other(cur[a], l)), l \notin links'[a]
          PROVE  LinkUp(l)
      <4>1. CASE l = link[a]
        BY <3>2, <3>4, <4>1
      <4>2. CASE l # link[a]
        BY <3>3, <3>4, <4>2 DEF ProgressInv, CheckPeer, Plumbing
      <4>3. QED
        BY <4>1, <4>2
    <3>5. QED
      BY <2>2, <3>3, <3>4, LinkPlumbingAssumption
         DEF ProgressInv, Up, Active, LinkUp, Plumbing, Other
  <2>5. QED
    BY <2>3, <2>4
<1>9. LinksPlumbed'
  BY DEF CheckPeer, MayPlumb, LinkDone, network, TypeOK, ControlInv,
     SerialInv, StatusInv, ProgressInv, LinksPlumbed, Working, LinkUp, Up, Active, Busy, Plumbing, Idle
<1>10. QED
  BY <1>1, <1>2, <1>3, <1>4, <1>5, <1>6, <1>7, <1>8, <1>9

\* Plumbing the device's own interface preserves the invariant.
LEMMA PlumbOwnStep ==
  ASSUME OneAtATime, IInv, TypeOK', ControlInv',
         NEW a \in Actor, PlumbOwn(a)
  PROVE  IInv'
<1> USE LinkPlumbingAssumption DEF IInv, OneAtATime
<1>0. PICK l \in Link, x \in Container : l = link[a] /\ x = cur[a]
  BY BothEndsRun, OtherEnd DEF PlumbOwn, TypeOK, ControlInv
<1> USE <1>0
<1>a. /\ l \in Link /\ cur[a] \in l /\ x \in l \cap Container
      /\ cur[a] \in Device /\ x \in Device
      /\ \A y \in l : Active(y)
      /\ action[a] = "create" /\ Working(a) /\ pc[a] \in Plumbing
      /\ Plumbing' = Plumbing
  BY BothEndsRun, OtherEnd DEF PlumbOwn, TypeOK, ControlInv, Plumbing, Working
<1>b. /\ UNCHANGED <<dom, status, checking, command, scope, action, pend, cur>>
      /\ \/ NothingToPlumb(x, l) /\ UNCHANGED <<network, plumbed>>
         \/ /\ ~NothingToPlumb(x, l) /\ MoveInside(x, l)
            /\ plumbed' = [plumbed EXCEPT ![a] = @ \cup {<<x, l>>}]
      /\ pc' = [pc EXCEPT ![a] = "peer"] /\ UNCHANGED <<links, link>>
  BY <1>a DEF PlumbOwn, Plumb
<1>c. /\ IfaceInv'
      /\ InPlace(x, l)'
      /\ \A k \in Link, y \in Device : InPlace(y, k) => InPlace(y, k)'
  BY <1>a, <1>b, Plumbed
<1>d. \A k \in Link : LinkUp(k) => LinkUp(k)'
  BY <1>c, LinkUpInPlace, LinkUpInPlacePrime
<1>e. \A b \in Actor : b # a => ~Working(b) /\ action[b] = "none" /\ cur[b] = None
  BY <1>a DEF SerialInv, ControlInv, Working
<1>f. /\ pc' \in [Actor -> PCs] /\ \A b \in Actor : b # a => pc'[b] = pc[b]
      /\ pc'[a] = "peer"
  BY <1>b DEF TypeOK
<1>1. SerialInv'
  BY <1>a, <1>b, <1>e, <1>f DEF SerialInv, Working, Idle, Active
<1>2. CheckedInv'
  BY <1>e, <1>f DEF CheckedInv, Working
<1>3. StatusInv'
  BY <1>a, <1>b, <1>e, <1>f
     DEF StatusInv, Busy, Active, PeerReady, DestroyComing, Working
<1>4. DomainInv'
  BY <1>a, <1>b, <1>e, <1>f DEF DomainInv, Active, Working, Plumbing
<1>5. IfaceInv'
  BY <1>c
<1>6. UnplumbedInv'
  BY <1>a, <1>b, <1>e DEF UnplumbedInv
<1>7. CacheInv'
  <2>1. ASSUME NEW b \in Actor, plumbed'[b] # {}
        PROVE  b = a
    BY <1>b, <1>e, <2>1 DEF CacheInv, TypeOK
  <2>2. ASSUME NEW e \in plumbed'[a]
        PROVE  InPlace(e[1], e[2])'
    <3>1. e \in plumbed[a] \/ e = <<x, l>>
      BY <1>b DEF TypeOK
    <3>2. e \in plumbed[a] => /\ InPlace(e[1], e[2])
                              /\ e[1] \in Device /\ e[2] \in Link
      BY DEF CacheInv, TypeOK, Iface
    <3>3. QED
      BY <1>a, <1>c, <3>1, <3>2
  <2>3. QED
    BY <1>a, <1>b, <2>1, <2>2 DEF CacheInv
<1>8. ProgressInv'
  <2>1. ASSUME NEW k \in Link, cur[a] \in k, Up(Other(cur[a], k)), k \notin links[a]
        PROVE  LinkUp(k)'
    BY <1>a, <1>d, <2>1 DEF ProgressInv
  <2>2. links' = links /\ link' = link /\ cur' = cur
    BY <1>b
  <2>3. \A k \in Link : Up(Other(cur[a], k))' <=> Up(Other(cur[a], k))
    BY <1>b DEF Up, Active, PeerReady
  <2>4. QED
    BY <1>c, <1>e, <1>f, <2>1, <2>2, <2>3 DEF ProgressInv
<1>9. LinksPlumbed'
  BY <1>b, <1>d DEF LinksPlumbed, Up, Active, Busy, PeerReady
<1>10. QED
  BY <1>1, <1>2, <1>3, <1>4, <1>5, <1>6, <1>7, <1>8, <1>9

\* Plumbing the interface at the far end preserves the invariant.
LEMMA PlumbPeerStep ==
  ASSUME OneAtATime, IInv, TypeOK', ControlInv',
         NEW a \in Actor, PlumbPeer(a)
  PROVE  IInv'
<1> USE LinkPlumbingAssumption DEF IInv, OneAtATime
<1>0. PICK l \in Link, x \in Container : l = link[a] /\ x = Other(cur[a], link[a])
  BY BothEndsRun, OtherEnd DEF PlumbPeer, TypeOK, ControlInv
<1> USE <1>0
<1>a. /\ l \in Link /\ cur[a] \in l /\ x \in l \cap Container
      /\ cur[a] \in Device /\ x \in Device
      /\ \A y \in l : Active(y)
      /\ action[a] = "create" /\ Working(a) /\ pc[a] \in Plumbing
      /\ Plumbing' = Plumbing
  BY BothEndsRun, OtherEnd DEF PlumbPeer, TypeOK, ControlInv, Plumbing, Working
<1>b. /\ UNCHANGED <<dom, status, checking, command, scope, action, pend, cur>>
      /\ \/ NothingToPlumb(x, l) /\ UNCHANGED <<network, plumbed>>
         \/ /\ ~NothingToPlumb(x, l) /\ MoveInside(x, l)
            /\ plumbed' = [plumbed EXCEPT ![a] = @ \cup {<<x, l>>}]
      /\ LinkDone(a)
  BY <1>a DEF PlumbPeer, Plumb
<1>c. /\ IfaceInv'
      /\ InPlace(x, l)'
      /\ \A k \in Link, y \in Device : InPlace(y, k) => InPlace(y, k)'
  BY <1>a, <1>b, Plumbed
<1>d. \A k \in Link : LinkUp(k) => LinkUp(k)'
  BY <1>c, LinkUpInPlace, LinkUpInPlacePrime
<1>e. \A b \in Actor : b # a => ~Working(b) /\ action[b] = "none" /\ cur[b] = None
  BY <1>a DEF SerialInv, ControlInv, Working
<1>f. /\ pc' \in [Actor -> PCs] /\ \A b \in Actor : b # a => pc'[b] = pc[b]
      /\ pc'[a] = "post"
  BY <1>b DEF TypeOK, LinkDone
<1>1. SerialInv'
  BY <1>a, <1>b, <1>e, <1>f DEF SerialInv, Working, Idle, Active
<1>2. CheckedInv'
  BY <1>e, <1>f DEF CheckedInv, Working
<1>3. StatusInv'
  BY <1>a, <1>b, <1>e, <1>f
     DEF StatusInv, Busy, Active, PeerReady, DestroyComing, Working
<1>4. DomainInv'
  BY <1>a, <1>b, <1>e, <1>f DEF DomainInv, Active, Working, Plumbing
<1>5. IfaceInv'
  BY <1>c
<1>6. UnplumbedInv'
  BY <1>a, <1>b, <1>e DEF UnplumbedInv
<1>7. CacheInv'
  <2>1. ASSUME NEW b \in Actor, plumbed'[b] # {}
        PROVE  b = a
    BY <1>b, <1>e, <2>1 DEF CacheInv, TypeOK
  <2>2. ASSUME NEW e \in plumbed'[a]
        PROVE  InPlace(e[1], e[2])'
    <3>1. e \in plumbed[a] \/ e = <<x, l>>
      BY <1>b DEF TypeOK
    <3>2. e \in plumbed[a] => /\ InPlace(e[1], e[2])
                              /\ e[1] \in Device /\ e[2] \in Link
      BY DEF CacheInv, TypeOK, Iface
    <3>3. QED
      BY <1>a, <1>c, <3>1, <3>2
  <2>3. QED
    BY <1>a, <1>b, <2>1, <2>2 DEF CacheInv
<1>8. ProgressInv'
  <2>1. LinkUp(l)'
    <3>1. Up(x)
      BY <1>a DEF PlumbPeer, CheckedInv, Up
    <3>2. PICK y \in Device : y = cur[a]
      BY <1>a
    <3>3. l = {y, x} /\ (y \in Container => InPlace(y, l))
      BY <1>a, <3>1, <3>2, OtherEnd DEF PlumbPeer, ProgressInv
    <3>4. y \in Container => InPlace(y, l)'
      BY <1>c, <3>3
    <3>5. \A z \in l \cap Container : InPlace(z, l)'
      BY <1>c, <3>3, <3>4
    <3>6. QED
      BY <3>5, LinkUpInPlacePrime
  <2>2. ASSUME NEW k \in Link, cur[a] \in k, Up(Other(cur[a], k)), k \notin links'[a]
        PROVE  LinkUp(k)'
    <3>1. CASE k = l
      BY <2>1, <3>1
    <3>2. CASE k # l
      <4>1. k \notin links[a]
        BY <1>b, <2>2, <3>2 DEF LinkDone, TypeOK
      <4>2. QED
        BY <1>a, <1>d, <2>2, <4>1 DEF ProgressInv
    <3>3. QED
      BY <3>1, <3>2
  <2>3. \A k \in Link : Up(Other(cur[a], k))' <=> Up(Other(cur[a], k))
    BY <1>b DEF Up, Active, PeerReady
  <2>4. QED
    BY <1>b, <1>e, <1>f, <2>2, <2>3 DEF ProgressInv
<1>9. LinksPlumbed'
  BY <1>b, <1>d DEF LinksPlumbed, Up, Active, Busy, PeerReady
<1>10. QED
  BY <1>1, <1>2, <1>3, <1>4, <1>5, <1>6, <1>7, <1>8, <1>9

\* The end of the plumbing preserves the invariant.
LEMMA PostDomainDoneStep ==
  ASSUME OneAtATime, IInv, TypeOK', ControlInv',
         NEW a \in Actor, PostDomainDone(a)
  PROVE  IInv'
<1> USE LinkPlumbingAssumption DEF IInv, OneAtATime
<1>1. SerialInv'
  BY DEF PostDomainDone, network, TypeOK, ControlInv,
     SerialInv, Working, Idle, Active
<1>2. CheckedInv'
  BY DEF PostDomainDone, network, TypeOK, ControlInv,
     SerialInv, CheckedInv, Working, Idle
<1>3. StatusInv'
  BY DEF PostDomainDone, network, TypeOK, ControlInv,
     SerialInv, StatusInv, DomainInv, Working, Busy, DestroyComing, Active, PeerReady, Idle, Plumbing
<1>4. DomainInv'
  BY DEF PostDomainDone, network, TypeOK, ControlInv,
     SerialInv, StatusInv, DomainInv, Working, Active, Plumbing, DestroyComing, Idle
<1>5. IfaceInv'
  BY DEF PostDomainDone, network, TypeOK, ControlInv,
     IfaceInv, Active
<1>6. UnplumbedInv'
  BY DEF PostDomainDone, network, TypeOK, ControlInv,
     SerialInv, UnplumbedInv, Working
<1>7. CacheInv'
  BY DEF PostDomainDone, network, TypeOK, ControlInv,
     SerialInv, CacheInv, Working, InPlace
<1>8. ProgressInv'
  BY DEF PostDomainDone, network, TypeOK, ControlInv,
     SerialInv, CheckedInv, ProgressInv, CacheInv, Working, InPlace, LinkUp, Up, Active, Plumbing, Idle, LinksOf
<1>9. LinksPlumbed'
  BY DEF PostDomainDone, network, TypeOK, ControlInv,
     SerialInv, StatusInv, ProgressInv, LinksPlumbed, Working, LinkUp, Up, Active, Busy, Plumbing, Idle
<1>10. QED
  BY <1>1, <1>2, <1>3, <1>4, <1>5, <1>6, <1>7, <1>8, <1>9

\* Recording the new status preserves the invariant.
LEMMA WriteStatusStep ==
  ASSUME OneAtATime, IInv, TypeOK', ControlInv',
         NEW a \in Actor, WriteStatus(a)
  PROVE  IInv'
<1> USE LinkPlumbingAssumption DEF IInv, OneAtATime
<1>1. SerialInv'
  BY DEF WriteStatus, DeviceStatusAfter, ACTION_STATUS_MAP, network, TypeOK, ControlInv,
     SerialInv, Working, Idle, Active
<1>2. CheckedInv'
  BY DEF WriteStatus, DeviceStatusAfter, ACTION_STATUS_MAP, network, TypeOK, ControlInv,
     SerialInv, CheckedInv, Working, Idle
<1>3. StatusInv'
  BY DEF WriteStatus, DeviceStatusAfter, ACTION_STATUS_MAP, network, TypeOK, ControlInv,
     SerialInv, StatusInv, DomainInv, Working, Busy, DestroyComing, Active, PeerReady, Idle, Plumbing
<1>4. DomainInv'
  BY DEF WriteStatus, DeviceStatusAfter, ACTION_STATUS_MAP, network, TypeOK, ControlInv,
     SerialInv, StatusInv, DomainInv, Working, Active, Plumbing, DestroyComing, Idle
<1>5. IfaceInv'
  BY DEF WriteStatus, DeviceStatusAfter, ACTION_STATUS_MAP, network, TypeOK, ControlInv,
     IfaceInv, Active
<1>6. UnplumbedInv'
  BY DEF WriteStatus, DeviceStatusAfter, ACTION_STATUS_MAP, network, TypeOK, ControlInv,
     SerialInv, UnplumbedInv, Working
<1>7. CacheInv'
  BY DEF WriteStatus, DeviceStatusAfter, ACTION_STATUS_MAP, network, TypeOK, ControlInv,
     SerialInv, CacheInv, Working, InPlace
<1>8. ProgressInv'
  BY DEF WriteStatus, DeviceStatusAfter, ACTION_STATUS_MAP, network, TypeOK, ControlInv,
     SerialInv, CheckedInv, ProgressInv, CacheInv, Working, InPlace, LinkUp, Up, Active, Plumbing, Idle, LinksOf
<1>9. LinksPlumbed'
  <2>0. PICK d \in Device : d = cur[a]
    BY DEF WriteStatus, TypeOK, ControlInv
  <2> USE <2>0
  <2>1. d \in Device /\ dom' = dom /\ pairs' = pairs /\ inside' = inside /\ tap' = tap
    BY DEF WriteStatus, TypeOK, ControlInv, network
  <2>2. ASSUME NEW x \in Device, x # d
        PROVE  (Up(x)' <=> Up(x)) /\ (Busy(x)' <=> Busy(x))
    BY <2>1, <2>2 DEF WriteStatus, TypeOK, Up, Active, Busy
  <2>3. Up(d)' => action[a] = "create"
    BY DEF WriteStatus, Up, PeerReady, DeviceStatusAfter, ACTION_STATUS_MAP,
           TypeOK, ControlInv, Working
  <2>4. ASSUME NEW l \in Link, \A x \in l : Up(x)' /\ ~Busy(x)'
        PROVE  LinkUp(l)'
    <3>1. l \subseteq Device
      BY OtherEnd
    <3>2. LinkUp(l)' <=> LinkUp(l)
      BY <2>1 DEF LinkUp
    <3>3. CASE d \in l
      <4>1. links[a] = {} /\ pc[a] = "status" /\ action[a] = "create"
        BY <2>3, <2>4, <3>3 DEF WriteStatus, ControlInv
      <4>2. Up(Other(d, l))
        BY <2>2, <2>4, <3>1, <3>3, OtherEnd
      <4>3. QED
        BY <3>2, <3>3, <4>1, <4>2 DEF ProgressInv
    <3>4. CASE d \notin l
      BY <2>2, <2>4, <3>1, <3>2, <3>4 DEF LinksPlumbed
    <3>5. QED
      BY <3>3, <3>4
  <2>5. QED
    BY <2>4 DEF LinksPlumbed
<1>10. QED
  BY <1>1, <1>2, <1>3, <1>4, <1>5, <1>6, <1>7, <1>8, <1>9

\* A ping of the status check preserves the invariant.
LEMMA PingDeviceStep ==
  ASSUME OneAtATime, IInv, TypeOK', ControlInv',
         NEW d \in Device, PingDevice(d)
  PROVE  IInv'
<1> USE LinkPlumbingAssumption DEF IInv, OneAtATime
<1>1. SerialInv'
  BY DEF PingDevice, actors, network, TypeOK, ControlInv,
     SerialInv, Working, Idle, Active
<1>2. CheckedInv'
  BY DEF PingDevice, actors, network, TypeOK, ControlInv,
     SerialInv, CheckedInv, Working, Idle
<1>3. StatusInv'
  BY DEF PingDevice, actors, network, TypeOK, ControlInv,
     SerialInv, StatusInv, DomainInv, Working, Busy, DestroyComing, Active, PeerReady, Idle, Plumbing
<1>4. DomainInv'
  BY DEF PingDevice, actors, network, TypeOK, ControlInv,
     SerialInv, StatusInv, DomainInv, Working, Active, Plumbing, DestroyComing, Idle
<1>5. IfaceInv'
  BY DEF PingDevice, actors, network, TypeOK, ControlInv,
     IfaceInv, Active
<1>6. UnplumbedInv'
  BY DEF PingDevice, actors, network, TypeOK, ControlInv,
     SerialInv, UnplumbedInv, Working
<1>7. CacheInv'
  BY DEF PingDevice, actors, network, TypeOK, ControlInv,
     SerialInv, CacheInv, Working, InPlace
<1>8. ProgressInv'
  BY DEF PingDevice, actors, network, TypeOK, ControlInv,
     SerialInv, CheckedInv, ProgressInv, CacheInv, Working, InPlace, LinkUp, Up, Active, Plumbing, Idle, LinksOf
<1>9. LinksPlumbed'
  BY DEF PingDevice, actors, network, TypeOK, ControlInv,
     SerialInv, StatusInv, ProgressInv, LinksPlumbed, Working, LinkUp, Up, Active, Busy, Plumbing, Idle
<1>10. QED
  BY <1>1, <1>2, <1>3, <1>4, <1>5, <1>6, <1>7, <1>8, <1>9

\* A synchronisation of the status check preserves the invariant.
LEMMA SyncDeviceStep ==
  ASSUME OneAtATime, IInv, TypeOK', ControlInv',
         NEW d \in Device, SyncDevice(d)
  PROVE  IInv'
<1> USE LinkPlumbingAssumption DEF IInv, OneAtATime
<1>1. SerialInv'
  BY DEF SyncDevice, actors, network, TypeOK, ControlInv,
     SerialInv, Working, Idle, Active
<1>2. CheckedInv'
  BY DEF SyncDevice, actors, network, TypeOK, ControlInv,
     SerialInv, CheckedInv, Working, Idle
<1>3. StatusInv'
  BY DEF SyncDevice, actors, network, TypeOK, ControlInv,
     SerialInv, StatusInv, DomainInv, Working, Busy, DestroyComing, Active, PeerReady, Idle, Plumbing
<1>4. DomainInv'
  BY DEF SyncDevice, actors, network, TypeOK, ControlInv,
     SerialInv, StatusInv, DomainInv, Working, Active, Plumbing, DestroyComing, Idle
<1>5. IfaceInv'
  BY DEF SyncDevice, actors, network, TypeOK, ControlInv,
     IfaceInv, Active
<1>6. UnplumbedInv'
  BY DEF SyncDevice, actors, network, TypeOK, ControlInv,
     SerialInv, UnplumbedInv, Working
<1>7. CacheInv'
  BY DEF SyncDevice, actors, network, TypeOK, ControlInv,
     SerialInv, CacheInv, Working, InPlace
<1>8. ProgressInv'
  BY DEF SyncDevice, actors, network, TypeOK, ControlInv,
     SerialInv, CheckedInv, ProgressInv, CacheInv, Working, InPlace, LinkUp, Up, Active, Plumbing, Idle, LinksOf
<1>9. LinksPlumbed'
  BY DEF SyncDevice, actors, network, TypeOK, ControlInv,
     SerialInv, StatusInv, ProgressInv, LinksPlumbed, Working, LinkUp, Up, Active, Busy, Plumbing, Idle
<1>10. QED
  BY <1>1, <1>2, <1>3, <1>4, <1>5, <1>6, <1>7, <1>8, <1>9

\* A guest that obeys the shutdown request preserves the invariant.
LEMMA PowerOffStep ==
  ASSUME OneAtATime, IInv, TypeOK', ControlInv',
         NEW d \in Device, PowerOff(d)
  PROVE  IInv'
<1> USE LinkPlumbingAssumption DEF IInv, OneAtATime
<1>a. PICK a \in Actor : Working(a) /\ DestroyComing(a, d)
  BY DEF PowerOff, StatusInv
<1>b. /\ d \notin Container /\ Active(d) /\ DomainDown(d)
      /\ action[a] \in {"shutdown", "destroy"}
      /\ UNCHANGED <<status, pc, command, scope, action, pend, cur, links, link,
                     plumbed, checking>>
  BY <1>a DEF PowerOff, StatusInv, DestroyComing, actors, Active
<1>c. /\ dom' = [dom EXCEPT ![d] = "shut"]
      /\ IfaceInv'
      /\ \A l \in Link, x \in Device :
           d \notin l => (InPlace(x, l)' <=> InPlace(x, l))
  BY <1>b, DomainDownFrame
<1>d. \A b \in Actor : b # a => ~Working(b) /\ action[b] = "none"
  BY <1>a DEF SerialInv, ControlInv
<1>e. /\ dom'[d] = "shut" /\ \A x \in Device : x # d => dom'[x] = dom[x]
      /\ PeerReady' = PeerReady /\ Plumbing' = Plumbing
  BY <1>c DEF TypeOK, PeerReady, Plumbing
<1>1. SerialInv'
  BY <1>a, <1>b, <1>d DEF SerialInv, Working, Idle
<1>2. CheckedInv'
  BY <1>b DEF CheckedInv, PeerReady
<1>3. StatusInv'
  <2>1. \A x \in Device : /\ Busy(x)' <=> Busy(x)
                          /\ \A b \in Actor : /\ Working(b)' <=> Working(b)
                                            /\ DestroyComing(b, x)' <=> DestroyComing(b, x)
    BY <1>b DEF Busy, Working, DestroyComing
  <2>2. ~Busy(d) => status[d] \notin PeerReady
    BY DEF PowerOff, StatusInv
  <2>3. QED
    BY <1>b, <1>e, <2>1, <2>2 DEF StatusInv, Active
<1>4. DomainInv'
  <2>1. pc[a] \notin Plumbing /\ action[a] # "create"
    BY <1>b DEF ControlInv
  <2>2. pc[a] = "status" => (Active(cur[a])' <=> /\ action[a] = "shutdown"
                                                 /\ cur[a] \notin Container
                                                 /\ dom'[cur[a]] = "acpi")
    <3>1. CASE cur[a] = d
      BY <1>b, <1>e, <3>1 DEF Active
    <3>2. CASE cur[a] # d
      BY <1>b, <1>e, <2>1, <3>2 DEF DomainInv, Active, TypeOK, ControlInv
    <3>3. QED
      BY <3>1, <3>2
  <2>3. \A x \in Container : Active(x)' <=> Active(x)
    BY <1>b, <1>e DEF Active
  <2>4. \A b \in Actor : b # a => pc[b] = "idle"
    BY <1>d DEF Working
  <2>5. QED
    BY <1>b, <1>d, <1>e, <2>1, <2>2, <2>3, <2>4 DEF DomainInv, Plumbing
<1>5. IfaceInv'
  BY <1>c
<1>6. UnplumbedInv'
  <2>1. \A l \in TapLink : tap'[l] = "container" => tap[l] = "container"
    BY <1>b DEF DomainDown, TapsGone
  <2>2. QED
    BY <1>b, <2>1 DEF UnplumbedInv
<1>7. CacheInv'
  BY <1>b, <1>d DEF CacheInv
<1>8. ProgressInv'
  BY <1>b, <1>d, <1>e DEF ProgressInv, ControlInv, Working, Plumbing
<1>9. LinksPlumbed'
  <2>1. ASSUME NEW l \in Link, \A x \in l : Up(x)' /\ ~Busy(x)'
        PROVE  LinkUp(l)'
    <3>1. d \notin l /\ l \subseteq Device
      BY <1>e, <2>1, OtherEnd DEF Up, Active
    <3>2. \A x \in l : Up(x) /\ ~Busy(x)
      BY <1>b, <1>e, <2>1, <3>1 DEF Up, Active, Busy
    <3>3. LinkUp(l)
      BY <3>2 DEF LinksPlumbed
    <3>4. QED
      BY <1>c, <3>1, <3>3, LinkUpInPlace, LinkUpInPlacePrime
  <2>2. QED
    BY <2>1 DEF LinksPlumbed
<1>10. QED
  BY <1>1, <1>2, <1>3, <1>4, <1>5, <1>6, <1>7, <1>8, <1>9

\* The invariant starts out true.
LEMMA IInvInit == OneAtATime /\ Init => IInv
<1> USE LinkPlumbingAssumption
<1> SUFFICES ASSUME OneAtATime, Init PROVE IInv
  OBVIOUS
<1>1. TypeOK /\ ControlInv
  BY TypeInit
<1>2. SerialInv /\ CheckedInv
  BY DEF Init, SerialInv, CheckedInv, Working, Idle
<1>3. StatusInv
  BY DEF Init, StatusInv, PeerReady, Active
<1>4. DomainInv /\ UnplumbedInv /\ CacheInv /\ ProgressInv
  BY DEF Init, DomainInv, UnplumbedInv, CacheInv, ProgressInv, Plumbing
<1>5. IfaceInv
  <2>1. \A l \in Link : l \subseteq Device
    OBVIOUS
  <2>2. QED
    BY <2>1 DEF Init, IfaceInv, Active, TapLink
<1>6. LinksPlumbed
  BY DEF Init, LinksPlumbed, Up, PeerReady
<1>7. QED
  BY <1>1, <1>2, <1>3, <1>4, <1>5, <1>6 DEF IInv

\* Every step preserves it.
LEMMA IInvStep ==
  ASSUME OneAtATime, IInv, [Next]_vars
  PROVE  IInv'
<1>1. TypeOK' /\ ControlInv'
  BY TypeStep DEF IInv
<1>2. ASSUME NEW a \in Actor, ActorStep(a)
      PROVE  IInv'
  BY <1>1, <1>2, NextDeviceStep, NextStepStep, WaitForShutdownStep, UnplumbStep,
     PreDomainDoneStep, DomainActionStep, CheckOwnStep, CheckPeerStep,
     PlumbOwnStep, PlumbPeerStep, PostDomainDoneStep, WriteStatusStep
     DEF ActorStep
<1>3. ASSUME NEW d \in Device, PingDevice(d) \/ SyncDevice(d) \/ PowerOff(d) \/ Crash(d)
      PROVE  IInv'
  BY <1>1, <1>3, PingDeviceStep, SyncDeviceStep, PowerOffStep
     DEF Crash, OneAtATime
<1>4. CASE \E a \in Actor, c \in {"start", "stop", "reboot"}, S \in Targets :
             Begin(a, c, S)
  BY <1>1, <1>4, BeginStep
<1>5. CASE UNCHANGED vars
  <2>1. SerialInv' /\ CheckedInv' /\ StatusInv' /\ DomainInv'
    BY <1>5 DEF IInv, vars, network, actors, SerialInv, CheckedInv, StatusInv,
                DomainInv, Working, Idle, Active, Busy, PeerReady, DestroyComing,
                Plumbing
  <2>2. IfaceInv' /\ UnplumbedInv' /\ CacheInv' /\ ProgressInv' /\ LinksPlumbed'
    BY <1>5 DEF IInv, vars, network, actors, IfaceInv, UnplumbedInv, CacheInv,
                ProgressInv, LinksPlumbed, Active, Busy, Up, PeerReady, LinkUp,
                InPlace, Plumbing
  <2>3. QED
    BY <1>1, <2>1, <2>2 DEF IInv
<1>6. QED
  BY <1>2, <1>3, <1>4, <1>5 DEF Next

\* Links between devices that are up are connected, and no tap is lost, as long
\* as the operator runs one command at a time, nothing crashes and every
\* synchronisation succeeds (ConnectionDocker.create and shutdown).
THEOREM PlumbingCorrect ==
  ASSUME OneAtATime
  PROVE  Spec => [](LinksPlumbed /\ TapNotLost)
<1>1. Init => IInv
  BY IInvInit
<1>2. IInv /\ [Next]_vars => IInv'
  BY IInvStep
<1>3. IInv => LinksPlumbed /\ TapNotLost
  BY DEF IInv, IfaceInv, TapNotLost
<1>4. QED
  BY <1>1, <1>2, <1>3, PTL DEF Spec
==============================================================================
