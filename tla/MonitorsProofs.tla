--------------------------- MODULE MonitorsProofs ----------------------------
(***************************************************************************)
(* Proofs about Monitors, for any number of worker threads and managers,   *)
(* any backlog and any faults.                                             *)
(***************************************************************************)
EXTENDS Monitors, FiniteSetTheorems, TLAPS

\* A manager makes its process, starts it, and ends after it.
ThreadInv ==
  \A m \in Manager :
    /\ process[m] = "none" <=> thread[m] \in {"stored", "ready"}
    /\ process[m] = "made" <=> thread[m] = "made"
    /\ thread[m] = "ended" => process[m] = "exited"

\* Where calls do not overlap: only the monitor in the dictionary has a process,
\* and the call in progress finds there what it has seen.
OrderInv ==
  ~mode.overlap =>
    /\ \A m \in Manager : m # entry => process[m] = "exited"
    /\ \A b, c \in Caller : Active(b) /\ Active(c) => b = c
    /\ \A c \in Caller :
         /\ Active(c) => op[c] # "none"
         /\ pc[c] \in {"check", "create", "store", "launch"} => op[c] = "start"
         /\ Active(c) /\ pc[c] # "launch" => Settled
         /\ pc[c] = "store" => entry = None
         /\ pc[c] \in {"signal", "join", "delete"} => entry # None
         /\ pc[c] = "join" => joined[c] = entry
         /\ pc[c] = "delete" => process[entry] = "exited"

\* Messages that change the operational-status.
Marks == {"offline", "online"}

\* The last mark of q, or else the status, tells whether a device is offline.
Tells(q, status, offline) ==
  /\ \A i \in DOMAIN q :
       q[i] \in Marks /\ (\A j \in DOMAIN q : j > i => q[j] \notin Marks)
         => (q[i] = "offline" <=> offline)
  /\ (\A i \in DOMAIN q : q[i] \notin Marks) => (status = "not-reachable" <=> offline)

\* What the messages of a pinger, in their order, will make of the status is
\* what the pinger has seen.
PingInv ==
  \A m \in Manager :
    /\ thread[m] \in {"stored", "ready", "made"} =>
         queue[m] = <<>> /\ issues[m] = 0 /\ reported[m] = "none"
    /\ Pinger /\ thread[m] = "loop" /\ Alive(m) =>
         Tells(queue[m], reported[m], issues[m] = MaxIssues)

\* The inductive invariant.
MonitorInv == MonitorsTypeOK /\ ThreadInv /\ OrderInv /\ PingInv

USE MonitorsAssumption

------------------------------------------------------------------------------
(* Types.                                                                    *)

LEMMA SequenceSteps ==
  ASSUME NEW q \in Seq(Messages), NEW e \in Messages
  PROVE  /\ q # <<>> => Tail(q) \in Seq(Messages) /\ Head(q) \in Messages
         /\ q \o <<>> \in Seq(Messages)
         /\ q \o <<e>> \in Seq(Messages)
OBVIOUS

\* A call keeps the types.
LEMMA TypeOfCalls ==
  ASSUME MonitorsTypeOK, NEW c \in Caller,
         CallStep(c) \/ \E o \in {"start", "stop"} : Call(c, o)
  PROVE  MonitorsTypeOK'
<1>1. CASE \E o \in {"start", "stop"} : Call(c, o)
  BY <1>1 DEF MonitorsTypeOK, Call, monitorVars, processVars, callVars
<1>2. CASE StartStatus(c)
  BY <1>2 DEF MonitorsTypeOK, StartStatus, ByStatus, Goto, processVars
<1>3. CASE StopStatus(c)
  BY <1>3 DEF MonitorsTypeOK, StopStatus, ByStatus, Goto, Back, processVars
<1>4. CASE Signal(c)
  <2>1. asked' \in [Manager -> BOOLEAN]
    BY <1>4 DEF MonitorsTypeOK, Signal
  <2>2. joined' \in [Caller -> Manager \cup {None}]
    BY <1>4 DEF MonitorsTypeOK, Signal
  <2>3. PICK p \in {"idle", "join", "again"} : Goto(c, p)
    BY <1>4 DEF Signal
  <2>4. UNCHANGED <<mode, entry, thread, process, queue, issues, reported>>
    BY <1>4 DEF Signal
  <2>5. op' \in [Caller -> {"none", "start", "stop"}]
    BY <2>3 DEF Goto, MonitorsTypeOK
  <2>6. pc' = [pc EXCEPT ![c] = p]
    BY <2>3 DEF Goto
  <2> QED BY <2>1, <2>2, <2>4, <2>5, <2>6 DEF MonitorsTypeOK
<1>5. CASE StatusAgain(c)
  BY <1>5 DEF MonitorsTypeOK, StatusAgain, ByStatus, Goto, Back, processVars
<1>6. CASE Join(c)
  BY <1>6 DEF MonitorsTypeOK, Join, Goto, processVars
<1>7. CASE Delete(c)
  BY <1>7 DEF MonitorsTypeOK, Delete, Goto, Back, processVars
<1>8. CASE Construct(c)
  BY <1>8 DEF MonitorsTypeOK, Construct, Goto, processVars
<1>9. CASE Store(c)
  <2>1. PICK m \in Manager : /\ entry'    = m
                             /\ thread'   = [thread EXCEPT ![m] = "stored"]
                             /\ process'  = [process EXCEPT ![m] = "none"]
                             /\ asked'    = [asked EXCEPT ![m] = FALSE]
                             /\ queue'    = [queue EXCEPT ![m] = <<>>]
                             /\ issues'   = [issues EXCEPT ![m] = 0]
                             /\ reported' = [reported EXCEPT ![m] = "none"]
    BY <1>9 DEF Store
  <2> QED BY <1>9, <2>1 DEF MonitorsTypeOK, Store, Goto
<1>10. CASE LaunchThread(c)
  BY <1>10 DEF MonitorsTypeOK, LaunchThread, Goto, processVars
<1> QED BY <1>1, <1>2, <1>3, <1>4, <1>5, <1>6, <1>7, <1>8, <1>9, <1>10 DEF CallStep

\* A step of a manager or of its process keeps the types.
LEMMA TypeOfManagers ==
  ASSUME MonitorsTypeOK, NEW m \in Manager,
         ThreadStep(m) \/ ProcessStep(m) \/ Iterate(m) \/ Killed(m)
  PROVE  MonitorsTypeOK'
<1>0. queue[m] \in Seq(Messages)
  BY DEF MonitorsTypeOK
<1>1. CASE MakeProcess(m)
  BY <1>1 DEF MonitorsTypeOK, MakeProcess, Advance, callVars
<1>2. CASE StartProcess(m)
  BY <1>2 DEF MonitorsTypeOK, StartProcess, Advance, callVars
<1>3. CASE HandleMessage(m)
  <2>1. queue' \in [Manager -> Seq(Messages)]
    BY <1>0, <1>3, SequenceSteps DEF HandleMessage, MonitorsTypeOK
  <2>2. reported' \in [Manager -> {"none", "reachable", "not-reachable"}]
    BY <1>3 DEF HandleMessage, MonitorsTypeOK, Reported
  <2> QED BY <1>3, <2>1, <2>2 DEF MonitorsTypeOK, HandleMessage, Advance, Stopped, callVars
<1>4. CASE Drain(m)
  <2>1. queue' \in [Manager -> Seq(Messages)]
    BY <1>0, <1>4, SequenceSteps DEF Drain, MonitorsTypeOK
  <2> QED BY <1>4, <2>1 DEF MonitorsTypeOK, Drain, Advance, callVars
<1>5. CASE JoinProcess(m)
  BY <1>5 DEF MonitorsTypeOK, JoinProcess, Advance, callVars
<1>6. CASE Result(m)
  <2>1. CASE Missed(m)
    <3>1. queue' \in [Manager -> Seq(Messages)]
      BY <1>0, <2>1, SequenceSteps DEF Missed, Say, MonitorsTypeOK, Messages
    <3>2. issues' \in [Manager -> 0..MaxIssues]
      BY <2>1 DEF Missed, MonitorsTypeOK
    <3>3. process' \in [Manager -> {"none", "made", "running", "busy", "ending", "exited"}]
      BY <1>6 DEF Result, ProcessTo, MonitorsTypeOK
    <3> QED BY <1>6, <3>1, <3>2, <3>3 DEF MonitorsTypeOK, Result, ProcessTo, callVars
  <2>2. CASE Answered(m)
    <3>1. queue' \in [Manager -> Seq(Messages)]
      BY <1>0, <2>2, SequenceSteps DEF Answered, Say, MonitorsTypeOK, Messages
    <3>2. issues' \in [Manager -> 0..MaxIssues]
      BY <2>2 DEF Answered, MonitorsTypeOK
    <3>3. process' \in [Manager -> {"none", "made", "running", "busy", "ending", "exited"}]
      BY <1>6 DEF Result, ProcessTo, MonitorsTypeOK
    <3> QED BY <1>6, <3>1, <3>2, <3>3 DEF MonitorsTypeOK, Result, ProcessTo, callVars
  <2>3. CASE ReadLine(m)
    <3>1. queue' \in [Manager -> Seq(Messages)]
      <4>1. PICK msgs \in {<<>>, <<"line">>} : Say(m, msgs)
        BY <2>3 DEF ReadLine
      <4>2. queue[m] \o msgs \in Seq(Messages)
        BY <1>0, SequenceSteps DEF Messages
      <4> QED BY <4>1, <4>2 DEF Say, MonitorsTypeOK
    <3> QED BY <1>6, <2>3, <3>1 DEF MonitorsTypeOK, Result, ProcessTo, ReadLine, callVars
  <2> QED BY <1>6, <2>1, <2>2, <2>3 DEF Result
<1>7. CASE Leave(m)
  <2>1. queue' \in [Manager -> Seq(Messages)]
    BY <1>0, <1>7, SequenceSteps DEF Leave, Say, MonitorsTypeOK, Messages
  <2> QED BY <1>7, <2>1 DEF MonitorsTypeOK, Leave, ProcessTo, callVars
<1>8. ASSUME Exit(m) \/ Killed(m) PROVE MonitorsTypeOK'
  <2>1. /\ issues' = [issues EXCEPT ![m] = 0] /\ queue' = queue
        /\ process' = [process EXCEPT ![m] = "exited"]
        /\ UNCHANGED <<mode, callVars, entry, thread, asked, reported>>
    BY <1>8 DEF Exit, Killed, ProcessTo
  <2>2. issues' \in [Manager -> 0..MaxIssues]
    BY <2>1 DEF MonitorsTypeOK
  <2> QED BY <2>1, <2>2 DEF MonitorsTypeOK, callVars
<1>9. CASE Iterate(m)
  BY <1>9 DEF MonitorsTypeOK, Iterate, ProcessTo, callVars
<1> QED BY <1>1, <1>2, <1>3, <1>4, <1>5, <1>6, <1>7, <1>8, <1>9 DEF ThreadStep, ProcessStep

------------------------------------------------------------------------------
(* The invariant.                                                            *)

LEMMA InvInit == MonitorsInit => MonitorInv
<1> SUFFICES ASSUME MonitorsInit PROVE MonitorInv
  OBVIOUS
<1>1. MonitorsTypeOK
  <2>1. queue \in [Manager -> Seq(Messages)]
    BY DEF MonitorsInit
  <2> QED BY <2>1 DEF MonitorsInit, MonitorsTypeOK
<1>2. ThreadInv /\ OrderInv /\ PingInv
  BY DEF MonitorsInit, ThreadInv, OrderInv, PingInv, Active, Alive
<1> QED BY <1>1, <1>2 DEF MonitorInv

\* Calls and ThreadInv: only Store and LaunchThread touch a manager.
LEMMA ThreadsAtCalls ==
  ASSUME MonitorsTypeOK, ThreadInv, NEW c \in Caller,
         CallStep(c) \/ \E o \in {"start", "stop"} : Call(c, o)
  PROVE  ThreadInv'
<1>1. CASE Store(c)
  <2>1. PICK m \in Manager : /\ thread'  = [thread EXCEPT ![m] = "stored"]
                             /\ process' = [process EXCEPT ![m] = "none"]
    BY <1>1 DEF Store
  <2> QED BY <2>1 DEF ThreadInv, MonitorsTypeOK
<1>2. CASE LaunchThread(c)
  BY <1>2 DEF LaunchThread, ThreadInv, MonitorsTypeOK, processVars
<1>3. CASE UNCHANGED <<thread, process>>
  BY <1>3 DEF ThreadInv
<1> QED BY <1>1, <1>2, <1>3
        DEF CallStep, Call, StartStatus, StopStatus, Signal, StatusAgain, Join, Delete, Construct,
            processVars

LEMMA ThreadsAtManagers ==
  ASSUME MonitorsTypeOK, ThreadInv, NEW m \in Manager,
         ThreadStep(m) \/ ProcessStep(m) \/ Iterate(m) \/ Killed(m)
  PROVE  ThreadInv'
<1>1. CASE MakeProcess(m)
  BY <1>1 DEF MakeProcess, Advance, ThreadInv, MonitorsTypeOK
<1>1a. CASE StartProcess(m)
  BY <1>1a DEF StartProcess, Advance, ThreadInv, MonitorsTypeOK
<1>2. CASE HandleMessage(m)
  BY <1>2 DEF HandleMessage, Advance, ThreadInv, MonitorsTypeOK
<1>3. CASE Drain(m) \/ JoinProcess(m)
  BY <1>3 DEF Drain, JoinProcess, Advance, ThreadInv, MonitorsTypeOK
<1>4. CASE Result(m) \/ Leave(m)
  BY <1>4 DEF Result, Leave, ProcessTo, ThreadInv, MonitorsTypeOK
<1>5. CASE Exit(m) \/ Killed(m) \/ Iterate(m)
  BY <1>5 DEF Exit, Killed, Iterate, ProcessTo, ThreadInv, MonitorsTypeOK
<1> QED BY <1>1, <1>1a, <1>2, <1>3, <1>4, <1>5 DEF ThreadStep, ProcessStep

\* A call that goes on and changes neither the dictionary nor a process.
LEMMA OrderAtMove ==
  ASSUME MonitorsTypeOK, OrderInv, ~mode.overlap, NEW c \in Caller, Active(c), NEW p, Goto(c, p),
         UNCHANGED <<mode, entry, process>>,
         p \in {"check", "create", "store", "launch"} => op[c] = "start",
         p \in {"idle", "launch"} \/ Settled,
         p = "store" => entry = None,
         p \in {"signal", "join", "delete"} => entry # None,
         p = "join" => joined'[c] = entry,
         p = "delete" => process[entry] = "exited"
  PROVE  OrderInv'
<1>1. \A b \in Caller : b # c => pc[b] = "idle" /\ pc'[b] = "idle"
  BY DEF OrderInv, Active, Goto, MonitorsTypeOK
<1>2. pc'[c] = p /\ op'[c] = (IF p = "idle" THEN "none" ELSE op[c]) /\ op[c] # "none"
  BY DEF OrderInv, Goto, MonitorsTypeOK
<1> QED BY <1>1, <1>2 DEF OrderInv, Active, Settled

\* Where a look at the status leads a call: it never raises.
LEMMA StatusTold ==
  ASSUME MonitorsTypeOK, OrderInv, ~mode.overlap, NEW c \in Caller, Active(c), pc[c] # "launch",
         NEW absent, NEW alive, NEW over, ByStatus(c, absent, alive, over)
  PROVE  /\ Settled
         /\ \/ entry = None /\ Goto(c, absent)
            \/ entry # None /\ Goto(c, alive)
            \/ entry # None /\ process[entry] = "exited" /\ Goto(c, over)
<1>1. Settled
  BY DEF OrderInv
<1>2. CASE entry = None
  BY <1>1, <1>2 DEF ByStatus
<1>3. CASE entry # None
  <2>1. entry \in Manager /\ process[entry] \notin {"none", "made"}
    BY <1>1, <1>3 DEF Settled, MonitorsTypeOK
  <2>2. CASE Alive(entry)
    BY <1>1, <1>3, <2>1, <2>2 DEF ByStatus
  <2>3. CASE ~Alive(entry)
    <3>1. process[entry] = "exited"
      BY <2>1, <2>3 DEF Alive, MonitorsTypeOK
    <3> QED BY <1>1, <1>3, <2>3, <3>1 DEF ByStatus
  <2> QED BY <2>2, <2>3
<1> QED BY <1>2, <1>3

\* The calls and OrderInv.
LEMMA OrderAtCalls ==
  ASSUME MonitorsTypeOK, ThreadInv, OrderInv, NEW c \in Caller,
         CallStep(c) \/ \E o \in {"start", "stop"} : Call(c, o)
  PROVE  OrderInv'
<1>0. mode' = mode
  BY DEF CallStep, Call, StartStatus, StopStatus, Signal, StatusAgain, Join, Delete, Construct,
         Store, LaunchThread
<1> SUFFICES ASSUME ~mode.overlap PROVE OrderInv'
  BY <1>0 DEF OrderInv
<1> USE DEF OrderInv, Active, Settled
<1>1. CASE \E o \in {"start", "stop"} : Call(c, o)
  BY <1>0, <1>1 DEF Call, processVars, MonitorsTypeOK
<1>2. CASE StartStatus(c)
  BY <1>0, <1>2 DEF StartStatus, ByStatus, Goto, processVars, MonitorsTypeOK
<1>3. CASE StopStatus(c)
  <2>1. /\ Active(c) /\ pc[c] # "launch" /\ UNCHANGED <<mode, entry, process>>
        /\ Back(c) = "create" => op[c] = "start"
        /\ Back(c) \in {"create", "idle"}
    BY <1>3 DEF StopStatus, Back, processVars
  <2>2. CASE Pinger
    <3>1. ByStatus(c, Back(c), "signal", "delete")
      BY <1>3, <2>2 DEF StopStatus
    <3> QED BY <2>1, <3>1, StatusTold, OrderAtMove
  <2>3. CASE ~Pinger
    <3>1. ByStatus(c, "again", "signal", "again")
      BY <1>3, <2>3 DEF StopStatus
    <3> QED BY <2>1, <3>1, StatusTold, OrderAtMove
  <2> QED BY <2>2, <2>3
<1>4. CASE Signal(c)
  <2>1. /\ Active(c) /\ pc[c] # "launch" /\ UNCHANGED <<mode, entry, process>>
        /\ entry # None /\ process[entry] # "none"
    BY <1>4 DEF Signal
  <2>2. CASE Pinger
    <3>1. Goto(c, "join") /\ joined'[c] = entry
      BY <1>4, <2>1, <2>2 DEF Signal, MonitorsTypeOK
    <3> QED BY <2>1, <3>1, OrderAtMove
  <2>3. CASE ~Pinger
    <3>1. Goto(c, "again")
      BY <1>4, <2>1, <2>3 DEF Signal
    <3> QED BY <2>1, <3>1, OrderAtMove
  <2> QED BY <2>2, <2>3
<1>5. CASE StatusAgain(c)
  <2>1. /\ Active(c) /\ pc[c] # "launch" /\ UNCHANGED <<mode, entry, process>>
        /\ Back(c) = "create" => op[c] = "start"
        /\ Back(c) \in {"create", "idle"}
        /\ ByStatus(c, Back(c), "join", "delete")
    BY <1>5 DEF StatusAgain, Back, processVars
  <2>2. Goto(c, "join") => joined'[c] = entry
    BY <1>5 DEF StatusAgain, Goto, MonitorsTypeOK
  <2> QED BY <2>1, <2>2, StatusTold, OrderAtMove
<1>6. CASE Join(c)
  BY <1>0, <1>6 DEF Join, Goto, processVars, MonitorsTypeOK, ThreadInv
<1>7. CASE Delete(c)
  BY <1>0, <1>7 DEF Delete, Goto, Back, processVars, MonitorsTypeOK
<1>8. CASE Construct(c)
  <2>1. pc[c] = "create" /\ UNCHANGED <<mode, entry, process>>
    BY <1>8 DEF Construct, processVars
  <2>2. op[c] = "start" /\ Settled
    BY <2>1
  <2>3. CASE Goto(c, "idle")
    BY <2>1, <2>2, <2>3, OrderAtMove
  <2>4. CASE entry = None /\ Goto(c, "store")
    BY <2>1, <2>2, <2>4, OrderAtMove
  <2>5. Goto(c, "idle") \/ (entry = None /\ Goto(c, "store"))
    <3>1. CASE entry = None
      BY <1>8, <3>1 DEF Construct
    <3>2. CASE entry # None
      BY <1>8, <3>2 DEF Construct
    <3> QED BY <3>1, <3>2
  <2> QED BY <2>3, <2>4, <2>5
<1>9. CASE Store(c)
  <2>1. PICK m \in Manager : entry' = m /\ process' = [process EXCEPT ![m] = "none"]
    BY <1>9 DEF Store
  <2> QED BY <1>0, <1>9, <2>1 DEF Store, Goto, MonitorsTypeOK
<1>10. CASE LaunchThread(c)
  BY <1>0, <1>10 DEF LaunchThread, Goto, processVars, MonitorsTypeOK
<1> QED BY <1>1, <1>2, <1>3, <1>4, <1>5, <1>6, <1>7, <1>8, <1>9, <1>10 DEF CallStep

\* Managers and processes and OrderInv: a process that is not there is not made,
\* for its manager is further on.
LEMMA OrderAtManagers ==
  ASSUME MonitorsTypeOK, ThreadInv, OrderInv, NEW m \in Manager,
         ThreadStep(m) \/ ProcessStep(m) \/ Iterate(m) \/ Killed(m)
  PROVE  OrderInv'
<1>0. UNCHANGED <<mode, callVars, entry>>
  BY DEF ThreadStep, ProcessStep, MakeProcess, StartProcess, HandleMessage, Drain, JoinProcess,
         Result, Leave, Exit, Iterate, Killed, ProcessTo
<1>1. \/ process' = process
      \/ /\ process[m] \in {"none", "made"}
         /\ \E p \in {"made", "running"} : process' = [process EXCEPT ![m] = p]
      \/ /\ process[m] \in {"running", "busy", "ending"}
         /\ \E p \in {"running", "busy", "ending", "exited"} :
              process' = [process EXCEPT ![m] = p]
  BY DEF ThreadStep, ProcessStep, MakeProcess, StartProcess, HandleMessage, Drain, JoinProcess,
         Result, Leave, Exit, Iterate, Killed, ProcessTo, Advance, ThreadInv
<1> QED BY <1>0, <1>1 DEF OrderInv, Active, Settled, callVars, MonitorsTypeOK

------------------------------------------------------------------------------
(* The order of the messages.                                                *)

\* The first message is taken and written.
LEMMA TellsAtTail ==
  ASSUME NEW q \in Seq(Messages), q # <<>>, NEW status, NEW offline \in BOOLEAN,
         Tells(q, status, offline)
  PROVE  Tells(Tail(q), CASE Head(q) = "offline" -> "not-reachable"
                          [] Head(q) = "online"  -> "reachable"
                          [] OTHER               -> status, offline)
<1> DEFINE t == Tail(q)
           s == CASE Head(q) = "offline" -> "not-reachable"
                  [] Head(q) = "online"  -> "reachable"
                  [] OTHER               -> status
<1>1. /\ Len(q) \in Nat \ {0} /\ DOMAIN q = 1..Len(q) /\ DOMAIN t = 1..(Len(q) - 1)
      /\ \A i \in 1..(Len(q) - 1) : t[i] = q[i + 1]
      /\ Head(q) = q[1]
  OBVIOUS
<1>2. ASSUME NEW i \in DOMAIN t, t[i] \in Marks,
             \A j \in DOMAIN t : j > i => t[j] \notin Marks
      PROVE  t[i] = "offline" <=> offline
  <2>1. i + 1 \in DOMAIN q /\ q[i + 1] = t[i]
    BY <1>1
  <2>2. ASSUME NEW j \in DOMAIN q, j > i + 1 PROVE q[j] \notin Marks
    <3>1. j - 1 \in DOMAIN t /\ j - 1 > i /\ t[j - 1] = q[(j - 1) + 1] /\ (j - 1) + 1 = j
      BY <1>1, <2>2
    <3> QED BY <1>2, <3>1
  <2> QED BY <1>2, <2>1, <2>2 DEF Tells
<1>3. ASSUME \A i \in DOMAIN t : t[i] \notin Marks
      PROVE  s = "not-reachable" <=> offline
  <2>1. \A j \in DOMAIN q : j > 1 => q[j] \notin Marks
    <3>1. ASSUME NEW j \in DOMAIN q, j > 1 PROVE q[j] \notin Marks
      <4>1. j - 1 \in DOMAIN t /\ t[j - 1] = q[(j - 1) + 1] /\ (j - 1) + 1 = j
        BY <1>1, <3>1
      <4> QED BY <1>3, <4>1
    <3> QED BY <3>1
  <2>2. CASE q[1] \in Marks
    <3>1. 1 \in DOMAIN q
      BY <1>1
    <3>2. q[1] = "offline" <=> offline
      BY <2>1, <2>2, <3>1 DEF Tells
    <3> QED BY <1>1, <2>2, <3>2 DEF Marks
  <2>3. CASE q[1] \notin Marks
    <3>1. \A i \in DOMAIN q : q[i] \notin Marks
      BY <1>1, <2>1, <2>3
    <3>2. status = "not-reachable" <=> offline
      BY <3>1 DEF Tells
    <3> QED BY <1>1, <2>3, <3>2 DEF Marks
  <2> QED BY <2>2, <2>3
<1> HIDE DEF t, s
<1>4. Tells(t, s, offline)
  BY <1>2, <1>3 DEF Tells
<1> QED BY <1>4 DEF t, s

\* A message is sent: a mark that is right, or one that is no mark while
\* nothing changes.
LEMMA TellsAtSend ==
  ASSUME NEW q \in Seq(Messages), NEW e \in Messages, NEW status,
         NEW offline \in BOOLEAN, NEW next \in BOOLEAN,
         Tells(q, status, offline),
         e \in Marks => (e = "offline" <=> next),
         e \notin Marks => (offline <=> next)
  PROVE  Tells(q \o <<e>>, status, next)
<1> DEFINE t == q \o <<e>>
<1>1. /\ Len(q) \in Nat /\ DOMAIN q = 1..Len(q) /\ DOMAIN t = 1..(Len(q) + 1)
      /\ \A i \in 1..Len(q) : t[i] = q[i]
      /\ t[Len(q) + 1] = e
  OBVIOUS
<1> HIDE DEF t
<1>2. ASSUME NEW i \in DOMAIN t, t[i] \in Marks,
             \A j \in DOMAIN t : j > i => t[j] \notin Marks
      PROVE  t[i] = "offline" <=> next
  <2>1. CASE e \in Marks
    <3>1. i = Len(q) + 1
      BY <1>1, <1>2, <2>1
    <3> QED BY <1>1, <2>1, <3>1
  <2>2. CASE e \notin Marks
    <3>1. i \in DOMAIN q /\ t[i] = q[i]
      BY <1>1, <1>2, <2>2
    <3>2. \A j \in DOMAIN q : j > i => q[j] \notin Marks
      BY <1>1, <1>2
    <3> QED BY <1>2, <2>2, <3>1, <3>2 DEF Tells
  <2> QED BY <2>1, <2>2
<1>3. ASSUME \A i \in DOMAIN t : t[i] \notin Marks
      PROVE  status = "not-reachable" <=> next
  <2>1. e \notin Marks
    BY <1>1, <1>3
  <2>2. \A i \in DOMAIN q : q[i] \notin Marks
    BY <1>1, <1>3
  <2> QED BY <2>1, <2>2 DEF Tells
<1>4. Tells(t, status, next)
  BY <1>2, <1>3 DEF Tells
<1> QED BY <1>4 DEF t

\* The calls and PingInv.
LEMMA PingsAtCalls ==
  ASSUME MonitorsTypeOK, ThreadInv, PingInv, NEW c \in Caller,
         CallStep(c) \/ \E o \in {"start", "stop"} : Call(c, o)
  PROVE  PingInv'
<1>1. CASE Store(c)
  <2>1. PICK m \in Manager : /\ thread'   = [thread EXCEPT ![m] = "stored"]
                             /\ process'  = [process EXCEPT ![m] = "none"]
                             /\ queue'    = [queue EXCEPT ![m] = <<>>]
                             /\ issues'   = [issues EXCEPT ![m] = 0]
                             /\ reported' = [reported EXCEPT ![m] = "none"]
                             /\ mode' = mode
    BY <1>1 DEF Store
  <2> QED BY <2>1 DEF PingInv, MonitorsTypeOK, Pinger, Alive
<1>2. CASE LaunchThread(c)
  BY <1>2 DEF LaunchThread, PingInv, MonitorsTypeOK, processVars, Pinger, Alive
<1>3. CASE UNCHANGED <<mode, thread, process, queue, issues, reported>>
  BY <1>3 DEF PingInv, Pinger, Alive
<1> QED BY <1>1, <1>2, <1>3
        DEF CallStep, Call, StartStatus, StopStatus, Signal, StatusAgain, Join, Delete, Construct,
            processVars

\* Only what belongs to m changes.
LEMMA PingsOfOthers ==
  ASSUME MonitorsTypeOK, NEW m \in Manager,
         ThreadStep(m) \/ ProcessStep(m) \/ Iterate(m) \/ Killed(m)
  PROVE  /\ mode' = mode
         /\ \A n \in Manager \ {m} :
              /\ thread'[n] = thread[n] /\ process'[n] = process[n] /\ queue'[n] = queue[n]
              /\ issues'[n] = issues[n] /\ reported'[n] = reported[n]
<1>1. CASE MakeProcess(m) \/ StartProcess(m) \/ JoinProcess(m)
  BY <1>1 DEF MakeProcess, StartProcess, JoinProcess, Advance, MonitorsTypeOK
<1>2. CASE HandleMessage(m) \/ Drain(m)
  BY <1>2 DEF HandleMessage, Drain, Advance, MonitorsTypeOK
<1>3. CASE Result(m)
  BY <1>3 DEF Result, Missed, Answered, ReadLine, Say, ProcessTo, MonitorsTypeOK
<1>4. CASE Leave(m) \/ Exit(m) \/ Iterate(m) \/ Killed(m)
  BY <1>4 DEF Leave, Exit, Iterate, Killed, Say, ProcessTo, MonitorsTypeOK
<1> QED BY <1>1, <1>2, <1>3, <1>4 DEF ThreadStep, ProcessStep


\* Managers and processes and PingInv.
LEMMA PingsAtManagers ==
  ASSUME MonitorsTypeOK, ThreadInv, PingInv, NEW m \in Manager,
         ThreadStep(m) \/ ProcessStep(m) \/ Iterate(m) \/ Killed(m)
  PROVE  PingInv'
<1> DEFINE Fresh == queue[m] = <<>> /\ issues[m] = 0 /\ reported[m] = "none"
           Told  == Tells(queue[m], reported[m], issues[m] = MaxIssues)
<1>1. SUFFICES /\ thread'[m] \in {"stored", "ready", "made"} => Fresh'
               /\ Pinger' /\ thread'[m] = "loop" /\ Alive(m)' => Told'
  <2>1. mode' = mode
    BY PingsOfOthers
  <2>2. ASSUME NEW n \in Manager \ {m}
        PROVE  /\ thread'[n] \in {"stored", "ready", "made"} =>
                     queue'[n] = <<>> /\ issues'[n] = 0 /\ reported'[n] = "none"
               /\ Pinger' /\ thread'[n] = "loop" /\ Alive(n)' =>
                     Tells(queue'[n], reported'[n], issues'[n] = MaxIssues)
    BY <2>1, PingsOfOthers DEF PingInv, Pinger, Alive
  <2> QED BY <2>2 DEF PingInv
<1>2. /\ thread[m] \in {"stored", "ready", "made"} => Fresh
      /\ Pinger /\ thread[m] = "loop" /\ Alive(m) => Told
  BY DEF PingInv
<1>3. queue[m] \in Seq(Messages) /\ issues[m] \in 0..MaxIssues
  BY DEF MonitorsTypeOK
<1> HIDE DEF Fresh, Told
<1>4. CASE MakeProcess(m)
  <2>1. thread[m] = "ready" /\ thread'[m] = "made" /\ UNCHANGED <<queue, issues, reported>>
    BY <1>4 DEF MakeProcess, Advance, MonitorsTypeOK
  <2> QED BY <1>2, <2>1 DEF Fresh
<1>5. CASE StartProcess(m)
  <2>1. thread[m] = "made" /\ thread'[m] = "loop" /\ UNCHANGED <<queue, issues, reported>>
    BY <1>5 DEF StartProcess, Advance, MonitorsTypeOK
  <2>2. queue'[m] = <<>> /\ issues'[m] # MaxIssues /\ reported'[m] = "none"
    BY <1>2, <2>1 DEF Fresh
  <2> QED BY <2>1, <2>2 DEF Told, Tells
<1>6. CASE HandleMessage(m)
  <2>1. /\ thread[m] = "loop" /\ queue[m] # <<>> /\ thread'[m] \in {"loop", "drain"}
        /\ queue'[m] = Tail(queue[m]) /\ UNCHANGED <<mode, process, issues>>
        /\ thread'[m] = "loop" => /\ reported'[m] = Reported(m, Head(queue[m]))
    BY <1>6 DEF HandleMessage, Advance, MonitorsTypeOK
  <2>2. ASSUME Pinger, Alive(m), thread'[m] = "loop" PROVE Told'
    <3>1. Tells(queue[m], reported[m], issues[m] = MaxIssues)
      BY <1>2, <2>1, <2>2 DEF Told
    <3>2. Tells(Tail(queue[m]), Reported(m, Head(queue[m])), issues[m] = MaxIssues)
      BY <1>3, <2>1, <3>1, TellsAtTail DEF Reported
    <3> QED BY <2>1, <2>2, <3>2 DEF Told
  <2> QED BY <2>1, <2>2 DEF Pinger, Alive
<1>7. CASE Drain(m) \/ JoinProcess(m)
  BY <1>7 DEF Drain, JoinProcess, Advance, MonitorsTypeOK
<1>8. CASE Result(m)
  <2>1. /\ process[m] = "busy" /\ process'[m] = "running"
        /\ UNCHANGED <<mode, thread, reported>>
    BY <1>8 DEF Result, ProcessTo, MonitorsTypeOK
  <2>2. thread[m] \notin {"stored", "ready", "made"}
    BY <2>1 DEF ThreadInv
  <2>3. ASSUME Pinger, thread[m] = "loop" PROVE Told'
    <3>1. Tells(queue[m], reported[m], issues[m] = MaxIssues)
      BY <1>2, <2>1, <2>3 DEF Told, Alive
    <3>2. queue[m] \o <<>> = queue[m]
      BY <1>3
    <3>3. CASE Missed(m)
      <4>1. CASE issues[m] = MaxIssues - 1
        <5>1. queue'[m] = queue[m] \o <<"offline">> /\ issues'[m] = MaxIssues
          BY <3>3, <4>1 DEF Missed, Say, MonitorsTypeOK
        <5>2. Tells(queue[m] \o <<"offline">>, reported[m], TRUE)
          BY <1>3, <3>1, TellsAtSend DEF Marks, Messages
        <5> QED BY <2>1, <5>1, <5>2 DEF Told
      <4>2. CASE issues[m] # MaxIssues - 1
        <5>1. queue'[m] = queue[m] /\ (issues'[m] = MaxIssues <=> issues[m] = MaxIssues)
          BY <1>3, <3>2, <3>3, <4>2 DEF Missed, Say, MonitorsTypeOK
        <5> QED BY <2>1, <3>1, <5>1 DEF Told
      <4> QED BY <4>1, <4>2
    <3>4. CASE Answered(m)
      <4>1. issues'[m] = 0 /\ issues'[m] # MaxIssues
        BY <3>4 DEF Answered, MonitorsTypeOK
      <4>2. CASE issues[m] = 0
        <5>1. queue'[m] = queue[m]
          BY <3>2, <3>4, <4>2 DEF Answered, Say, MonitorsTypeOK
        <5> QED BY <2>1, <3>1, <4>1, <4>2, <5>1 DEF Told
      <4>3. CASE issues[m] = MaxIssues
        <5>1. queue'[m] = queue[m] \o <<"online">>
          BY <3>4, <4>3 DEF Answered, Say, MonitorsTypeOK
        <5>2. Tells(queue[m] \o <<"online">>, reported[m], FALSE)
          BY <1>3, <3>1, TellsAtSend DEF Marks, Messages
        <5> QED BY <2>1, <4>1, <5>1, <5>2 DEF Told
      <4>4. CASE issues[m] \notin {0, MaxIssues}
        <5>1. queue'[m] = queue[m] \o <<"warn">>
          BY <3>4, <4>4 DEF Answered, Say, MonitorsTypeOK
        <5>2. Tells(queue[m] \o <<"warn">>, reported[m], FALSE)
          BY <1>3, <3>1, <4>4, TellsAtSend DEF Marks, Messages
        <5> QED BY <2>1, <4>1, <5>1, <5>2 DEF Told
      <4> QED BY <4>2, <4>3, <4>4
    <3> QED BY <1>8, <2>3, <3>3, <3>4 DEF Result
  <2> QED BY <2>1, <2>2, <2>3 DEF Pinger
<1>9. CASE Leave(m)
  <2>1. /\ process[m] \in {"running", "busy"} /\ UNCHANGED <<mode, thread, reported, issues>>
        /\ queue'[m] = queue[m] \o <<"stop">>
    BY <1>9 DEF Leave, ProcessTo, Say, MonitorsTypeOK
  <2>2. thread[m] \notin {"stored", "ready", "made"}
    BY <2>1 DEF ThreadInv
  <2>3. ASSUME Pinger, thread[m] = "loop" PROVE Told'
    <3>1. Tells(queue[m], reported[m], issues[m] = MaxIssues)
      BY <1>2, <2>1, <2>3 DEF Told, Alive
    <3>2. Tells(queue[m] \o <<"stop">>, reported[m], issues[m] = MaxIssues)
      BY <1>3, <3>1, TellsAtSend DEF Marks, Messages
    <3> QED BY <2>1, <3>2 DEF Told
  <2> QED BY <2>1, <2>2, <2>3 DEF Pinger
<1>10. CASE Exit(m) \/ Killed(m)
  <2>1. /\ process[m] \in {"running", "busy", "ending"} /\ thread' = thread
        /\ process'[m] = "exited"
    BY <1>10 DEF Exit, Killed, ProcessTo, MonitorsTypeOK
  <2> QED BY <2>1 DEF ThreadInv, Alive
<1>11. CASE Iterate(m)
  <2>1. /\ process[m] = "running" /\ UNCHANGED <<mode, thread, reported, issues, queue>>
    BY <1>11 DEF Iterate, ProcessTo
  <2>2. thread[m] \notin {"stored", "ready", "made"}
    BY <2>1 DEF ThreadInv
  <2> QED BY <1>2, <2>1, <2>2 DEF Told, Alive, Pinger
<1> QED BY <1>4, <1>5, <1>6, <1>7, <1>8, <1>9, <1>10, <1>11 DEF ThreadStep, ProcessStep

\* A step keeps the invariant.
LEMMA InvStep == MonitorInv /\ [MonitorsNext]_monitorVars => MonitorInv'
<1> SUFFICES ASSUME MonitorInv, [MonitorsNext]_monitorVars PROVE MonitorInv'
  OBVIOUS
<1> USE DEF MonitorInv
<1>1. CASE UNCHANGED monitorVars
  BY <1>1 DEF monitorVars, callVars, processVars, MonitorsTypeOK, ThreadInv, OrderInv, PingInv,
              Active, Settled, Alive, Pinger
<1>2. ASSUME NEW c \in Caller, CallStep(c) \/ \E o \in {"start", "stop"} : Call(c, o)
      PROVE  MonitorInv'
  BY <1>2, TypeOfCalls, ThreadsAtCalls, OrderAtCalls, PingsAtCalls
<1>3. ASSUME NEW m \in Manager, ThreadStep(m) \/ ProcessStep(m) \/ Iterate(m) \/ Killed(m)
      PROVE  MonitorInv'
  BY <1>3, TypeOfManagers, ThreadsAtManagers, OrderAtManagers, PingsAtManagers
<1> QED BY <1>1, <1>2, <1>3 DEF MonitorsNext

\* The inductive invariant holds of the calls, the threads and the processes.
THEOREM InvAlways == MonitorsSpec => []MonitorInv
BY InvInit, InvStep, PTL DEF MonitorsSpec

\* Every variable of the monitors has its type.
THEOREM TypeCorrect == MonitorsSpec => []MonitorsTypeOK
<1>1. MonitorInv => MonitorsTypeOK
  BY DEF MonitorInv
<1> QED BY <1>1, InvAlways, PTL

\* The operational-status that a manager has written once it has read all that its pinger
\* said is that of the pings, also where calls overlap and whatever fails.
THEOREM StatusFollows == MonitorsSpec => []StatusFollowsPings
<1>1. MonitorInv => StatusFollowsPings
  <2> SUFFICES ASSUME MonitorInv, NEW m \in Manager,
                      Pinger, thread[m] = "loop", Alive(m), queue[m] = <<>>
               PROVE  issues[m] = MaxIssues <=> reported[m] = "not-reachable"
    BY DEF StatusFollowsPings
  <2>1. Tells(<<>>, reported[m], issues[m] = MaxIssues)
    BY DEF MonitorInv, PingInv
  <2> QED BY <2>1 DEF Tells
<1> QED BY <1>1, InvAlways, PTL

------------------------------------------------------------------------------
(* The refinement.                                                           *)

PhaseOf(e, p) == CASE e = None                                                -> "off"
                   [] e # None /\ p[e] \in {"none", "made"}                   -> "coming"
                   [] e # None /\ p[e] \in {"running", "busy", "ending"}      -> "on"
                   [] OTHER                                                   -> "over"

LEMMA PhaseIs == Phase = PhaseOf(entry, process) /\ Phase' = PhaseOf(entry', process')
BY DEF Phase, PhaseOf, Settled, Alive

\* If the others have exited, the process of e is the only one there can be.
LEMMA LiveIs ==
  ASSUME NEW e \in Manager \cup {None}, NEW p, \A m \in Manager : m # e => p[m] = "exited"
  PROVE  Cardinality({m \in Manager : p[m] \in {"running", "busy", "ending"}}) =
           IF PhaseOf(e, p) = "on" THEN 1 ELSE 0
<1> DEFINE A == {m \in Manager : p[m] \in {"running", "busy", "ending"}}
<1>1. CASE e # None /\ p[e] \in {"running", "busy", "ending"}
  <2>1. A = {e}
    BY <1>1
  <2> QED BY <1>1, <2>1, FS_Singleton DEF PhaseOf
<1>2. CASE ~(e # None /\ p[e] \in {"running", "busy", "ending"})
  <2>1. A = {}
    BY <1>2
  <2> QED BY <1>2, <2>1, FS_EmptySet DEF PhaseOf
<1> QED BY <1>1, <1>2

\* A call that is the only one.
LEMMA CallIs ==
  ASSUME NEW c \in Caller, NEW at, NEW what, at[c] # "idle",
         \A b \in Caller : b # c => at[b] = "idle"
  PROVE  (IF \E b \in Caller : at[b] # "idle"
          THEN what[CHOOSE b \in Caller : at[b] # "idle"] ELSE "none") = what[c]
<1>1. (CHOOSE b \in Caller : at[b] # "idle") = c
  OBVIOUS
<1> QED BY <1>1

\* What the service sees of a state without overlapping calls.
LEMMA Seen ==
  ASSUME MonitorInv, ~mode.overlap
  PROVE  /\ Cardinality({m \in Manager : Alive(m)}) = IF Phase = "on" THEN 1 ELSE 0
         /\ \A c \in Caller : Active(c) => CurrentCall = op[c]
         /\ (\A c \in Caller : ~Active(c)) => CurrentCall = "none"
<1>1. Cardinality({m \in Manager : Alive(m)}) = IF Phase = "on" THEN 1 ELSE 0
  <2>1. entry \in Manager \cup {None} /\ \A m \in Manager : m # entry => process[m] = "exited"
    BY DEF MonitorInv, OrderInv, MonitorsTypeOK
  <2>2. Cardinality({m \in Manager : process[m] \in {"running", "busy", "ending"}}) =
          IF PhaseOf(entry, process) = "on" THEN 1 ELSE 0
    BY <2>1, LiveIs
  <2> QED BY <2>2, PhaseIs DEF Alive
<1>2. ASSUME NEW c \in Caller, Active(c) PROVE CurrentCall = op[c]
  <2>1. \A b \in Caller : b # c => pc[b] = "idle"
    BY <1>2 DEF MonitorInv, OrderInv, Active
  <2>2. pc[c] # "idle"
    BY <1>2 DEF Active
  <2> QED BY <2>1, <2>2, CallIs DEF CurrentCall, Active
<1>3. (\A c \in Caller : ~Active(c)) => CurrentCall = "none"
  BY DEF CurrentCall, Active
<1> QED BY <1>1, <1>2, <1>3

\* The same of the next state.
LEMMA SeenNext ==
  ASSUME MonitorInv', ~mode'.overlap
  PROVE  /\ Cardinality({m \in Manager : Alive(m)})' = IF Phase' = "on" THEN 1 ELSE 0
         /\ \A c \in Caller : Active(c)' => CurrentCall' = op'[c]
         /\ (\A c \in Caller : ~Active(c)') => CurrentCall' = "none"
<1>1. Cardinality({m \in Manager : Alive(m)})' = IF Phase' = "on" THEN 1 ELSE 0
  <2>1. entry' \in Manager \cup {None} /\ \A m \in Manager : m # entry' => process'[m] = "exited"
    BY DEF MonitorInv, OrderInv, MonitorsTypeOK
  <2>2. Cardinality({m \in Manager : process'[m] \in {"running", "busy", "ending"}}) =
          IF PhaseOf(entry', process') = "on" THEN 1 ELSE 0
    BY <2>1, LiveIs
  <2> QED BY <2>2, PhaseIs DEF Alive
<1>2. ASSUME NEW c \in Caller, Active(c)' PROVE CurrentCall' = op'[c]
  <2>1. \A b \in Caller : b # c => pc'[b] = "idle"
    BY <1>2 DEF MonitorInv, OrderInv, Active
  <2>2. pc'[c] # "idle"
    BY <1>2 DEF Active
  <2> QED BY <2>1, <2>2, CallIs DEF CurrentCall, Active
<1>3. (\A c \in Caller : ~Active(c)') => CurrentCall' = "none"
  BY DEF CurrentCall, Active
<1> QED BY <1>1, <1>2, <1>3

\* A call that goes on, or returns, and leaves dictionary and processes.
LEMMA MoveIs ==
  ASSUME MonitorInv, MonitorInv', ~mode.overlap, mode' = mode,
         NEW c \in Caller, Active(c), NEW p, Goto(c, p), UNCHANGED <<entry, process>>
  PROVE  /\ Phase' = Phase
         /\ CurrentCall = op[c] /\ op[c] # "none"
         /\ CurrentCall' = IF p = "idle" THEN "none" ELSE op[c]
<1>1. Phase' = Phase
  BY PhaseIs
<1>2. CurrentCall = op[c] /\ op[c] # "none"
  BY Seen DEF MonitorInv, OrderInv
<1>3. \A b \in Caller : b # c => pc'[b] = "idle"
  BY DEF MonitorInv, OrderInv, Active, Goto, MonitorsTypeOK
<1>4. pc'[c] = p /\ op'[c] = (IF p = "idle" THEN "none" ELSE op[c])
  BY DEF Goto, MonitorInv, MonitorsTypeOK
<1>5. CASE p = "idle"
  BY <1>1, <1>2, <1>3, <1>4, <1>5, SeenNext DEF Active
<1>6. CASE p # "idle"
  BY <1>1, <1>2, <1>4, <1>6, SeenNext DEF Active
<1> QED BY <1>5, <1>6

ServiceView == <<Phase, CurrentCall, Cardinality({m \in Manager : Alive(m)})>>

\* A step of the service, in terms of what it sees.
ServiceSteps ==
  \/ UNCHANGED ServiceView
  \/ /\ CurrentCall = "none" /\ Phase # "coming" /\ CurrentCall' \in {"start", "stop"}
     /\ Phase' = Phase
  \/ /\ CurrentCall = "start" /\ Phase = "off" /\ Phase' = "coming"
     /\ CurrentCall' = CurrentCall
  \/ Phase = "coming" /\ Phase' = "on" /\ CurrentCall' = CurrentCall
  \/ Phase = "on" /\ Phase' = "over" /\ CurrentCall' = CurrentCall
  \/ /\ Phase = "over" /\ CurrentCall # "none" /\ Phase' = "off"
     /\ CurrentCall' = IF CurrentCall = "stop" THEN "none" ELSE CurrentCall
  \/ /\ CurrentCall # "none" /\ (CurrentCall = "stop" => Phase = "off")
     /\ CurrentCall' = "none" /\ Phase' = Phase

\* The calls are steps of the service.
LEMMA CallsServe ==
  ASSUME MonitorInv, MonitorInv', ~mode.overlap, mode' = mode, NEW c \in Caller,
         CallStep(c) \/ \E o \in {"start", "stop"} : Call(c, o)
  PROVE  ServiceSteps
<1>0. /\ Cardinality({m \in Manager : Alive(m)}) = IF Phase = "on" THEN 1 ELSE 0
      /\ Cardinality({m \in Manager : Alive(m)})' = IF Phase' = "on" THEN 1 ELSE 0
  BY Seen, SeenNext
<1>1. CASE \E o \in {"start", "stop"} : Call(c, o)
  <2>1. PICK o \in {"start", "stop"} : Call(c, o)
    BY <1>1
  <2>2. CurrentCall = "none" /\ Settled /\ Phase' = Phase
    BY <2>1, Seen, PhaseIs DEF Call, processVars
  <2>3. CurrentCall' = o
    <3>1. pc'[c] # "idle" /\ op'[c] = o
      BY <2>1 DEF Call, MonitorInv, MonitorsTypeOK
    <3> QED BY <3>1, SeenNext DEF Active
  <2>4. Phase # "coming"
    BY <2>2 DEF Phase
  <2> QED BY <2>2, <2>3, <2>4 DEF ServiceSteps
<1>2. ASSUME Active(c), UNCHANGED <<entry, process>>, NEW p, Goto(c, p),
             p = "idle" => op[c] = "start" \/ entry = None
      PROVE  ServiceSteps
  <2>1. entry = None => Phase = "off"
    BY DEF Phase
  <2> QED BY <1>0, <1>2, <2>1, MoveIs DEF ServiceSteps, ServiceView
<1>3. CASE StartStatus(c)
  <2>1. pc[c] = "check" /\ ByStatus(c, "create", "create", "status")
        /\ UNCHANGED <<entry, process>>
    BY <1>3 DEF StartStatus, processVars
  <2>2. PICK p \in {"create", "status"} : Goto(c, p)
    BY <2>1, StatusTold DEF MonitorInv, Active
  <2> QED BY <1>2, <2>1, <2>2 DEF Active
<1>4. CASE StopStatus(c)
  <2>1. Active(c) /\ pc[c] # "launch" /\ UNCHANGED <<entry, process>>
    BY <1>4 DEF StopStatus, Active, processVars
  <2>2. PICK p : Goto(c, p) /\ (p = "idle" => entry = None)
    <3>1. CASE Pinger
      <4>1. ByStatus(c, Back(c), "signal", "delete")
        BY <1>4, <3>1 DEF StopStatus
      <4> QED BY <2>1, <4>1, StatusTold DEF MonitorInv
    <3>2. CASE ~Pinger
      <4>1. ByStatus(c, "again", "signal", "again")
        BY <1>4, <3>2 DEF StopStatus
      <4> QED BY <2>1, <4>1, StatusTold DEF MonitorInv
    <3> QED BY <3>1, <3>2
  <2> QED BY <1>2, <2>1, <2>2
<1>5. CASE Signal(c)
  <2>1. pc[c] = "signal" /\ UNCHANGED <<entry, process>>
    BY <1>5 DEF Signal
  <2>2. entry # None /\ process[entry] # "none"
    BY <2>1 DEF MonitorInv, OrderInv, Active, Settled
  <2>3. PICK p \in {"join", "again"} : Goto(c, p)
    BY <1>5, <2>2 DEF Signal
  <2> QED BY <1>2, <2>1, <2>3 DEF Active
<1>6. CASE StatusAgain(c)
  <2>1. /\ Active(c) /\ pc[c] # "launch" /\ UNCHANGED <<entry, process>>
        /\ ByStatus(c, Back(c), "join", "delete")
    BY <1>6 DEF StatusAgain, Active, processVars
  <2>2. PICK p : Goto(c, p) /\ (p = "idle" => entry = None)
    BY <2>1, StatusTold DEF MonitorInv
  <2> QED BY <1>2, <2>1, <2>2
<1>7. CASE Join(c)
  <2>1. Active(c) /\ UNCHANGED <<entry, process>> /\ Goto(c, "delete")
    BY <1>7 DEF Join, Active, processVars
  <2> QED BY <1>2, <2>1
<1>8. CASE Delete(c)
  <2>1. /\ pc[c] = "delete" /\ entry # None /\ entry' = None /\ process' = process
        /\ process[entry] = "exited"
        /\ Goto(c, Back(c))
    BY <1>8 DEF Delete, MonitorInv, OrderInv, processVars
  <2>2. Phase = "over" /\ Phase' = "off"
    BY <2>1, PhaseIs DEF PhaseOf
  <2>3. CurrentCall = op[c] /\ op[c] \in {"start", "stop"}
    BY <2>1, Seen DEF Active, MonitorInv, OrderInv, MonitorsTypeOK
  <2>4. CurrentCall' = IF op[c] = "stop" THEN "none" ELSE op[c]
    <3>1. \A b \in Caller : b # c => pc'[b] = "idle"
      BY <2>1 DEF MonitorInv, OrderInv, Active, Goto, MonitorsTypeOK
    <3>2. CASE op[c] = "stop"
      <4>1. pc'[c] = "idle"
        BY <2>1, <3>2 DEF Back, Goto, MonitorInv, MonitorsTypeOK
      <4> QED BY <3>1, <3>2, <4>1, SeenNext DEF Active
    <3>3. CASE op[c] = "start"
      <4>1. pc'[c] = "create" /\ op'[c] = op[c]
        BY <2>1, <3>3 DEF Back, Goto, MonitorInv, MonitorsTypeOK
      <4> QED BY <3>3, <4>1, SeenNext DEF Active
    <3> QED BY <2>3, <3>2, <3>3
  <2> QED BY <2>2, <2>3, <2>4 DEF ServiceSteps
<1>9. CASE Construct(c)
  <2>1. pc[c] = "create" /\ UNCHANGED <<entry, process>>
    BY <1>9 DEF Construct, processVars
  <2>2. op[c] = "start"
    BY <2>1 DEF MonitorInv, OrderInv, Active
  <2>3. PICK p : Goto(c, p)
    BY <1>9 DEF Construct
  <2> QED BY <1>2, <2>1, <2>2, <2>3 DEF Active
<1>10. CASE Store(c)
  <2>1. PICK m \in Manager : entry' = m /\ process' = [process EXCEPT ![m] = "none"]
    BY <1>10 DEF Store
  <2>2. pc[c] = "store" /\ entry = None /\ op[c] = "start"
    BY <1>10 DEF Store, MonitorInv, OrderInv, Active
  <2>3. Phase = "off" /\ Phase' = "coming"
    BY <2>1, <2>2, PhaseIs DEF PhaseOf, MonitorInv, MonitorsTypeOK
  <2>4. pc'[c] = "launch" /\ op'[c] = "start"
    BY <1>10, <2>2 DEF Store, Goto, MonitorInv, MonitorsTypeOK
  <2>5. CurrentCall = "start" /\ CurrentCall' = "start"
    BY <2>2, <2>4, Seen, SeenNext DEF Active
  <2> QED BY <2>3, <2>5 DEF ServiceSteps
<1>11. CASE LaunchThread(c)
  <2>1. pc[c] = "launch" /\ UNCHANGED <<entry, process>> /\ Goto(c, "idle")
    BY <1>11 DEF LaunchThread, processVars
  <2>2. op[c] = "start"
    BY <2>1 DEF MonitorInv, OrderInv, Active
  <2> QED BY <1>2, <2>1, <2>2 DEF Active
<1> QED BY <1>1, <1>3, <1>4, <1>5, <1>6, <1>7, <1>8, <1>9, <1>10, <1>11 DEF CallStep

\* Managers and processes are steps of the service.
LEMMA ManagersServe ==
  ASSUME MonitorInv, MonitorInv', ~mode.overlap, mode' = mode, NEW m \in Manager,
         ThreadStep(m) \/ ProcessStep(m) \/ Iterate(m) \/ Killed(m)
  PROVE  ServiceSteps
<1>1. UNCHANGED <<callVars, entry>>
  BY DEF ThreadStep, ProcessStep, MakeProcess, StartProcess, HandleMessage, Drain, JoinProcess,
         Result, Leave, Exit, Iterate, Killed, ProcessTo
<1>2. CurrentCall' = CurrentCall
  BY <1>1 DEF CurrentCall, Active, callVars
<1>3. \/ process' = process
      \/ process[m] = "none" /\ process' = [process EXCEPT ![m] = "made"]
      \/ process[m] = "made" /\ process' = [process EXCEPT ![m] = "running"]
      \/ /\ process[m] \in {"running", "busy", "ending"}
         /\ \E p \in {"running", "busy", "ending", "exited"} :
              process' = [process EXCEPT ![m] = p]
  BY DEF ThreadStep, ProcessStep, MakeProcess, StartProcess, HandleMessage, Drain, JoinProcess,
         Result, Leave, Exit, Iterate, Killed, ProcessTo, Advance, ThreadInv, MonitorInv
<1>4. process' # process => entry = m
  BY <1>3 DEF MonitorInv, OrderInv
<1>5. \/ Phase' = Phase
      \/ Phase = "coming" /\ Phase' = "on"
      \/ Phase = "on" /\ Phase' = "over"
  BY <1>1, <1>3, <1>4, PhaseIs DEF PhaseOf, MonitorInv, MonitorsTypeOK
<1>6. Phase' = Phase => UNCHANGED ServiceView
  BY <1>2, Seen, SeenNext DEF ServiceView
<1> QED BY <1>2, <1>5, <1>6 DEF ServiceSteps

ServiceNextOf == [Service!ServiceNext]_(Service!serviceVars)

LEMMA StepServes == MonitorInv /\ MonitorInv' /\ [MonitorsNext]_monitorVars => ServiceNextOf
<1> SUFFICES ASSUME MonitorInv, MonitorInv', [MonitorsNext]_monitorVars PROVE ServiceNextOf
  OBVIOUS
<1>0. mode' = mode
  <2>1. ASSUME NEW c \in Caller, CallStep(c) \/ \E o \in {"start", "stop"} : Call(c, o)
        PROVE  mode' = mode
    BY <2>1 DEF CallStep, Call, StartStatus, StopStatus, Signal, StatusAgain, Join, Delete, Construct,
         Store, LaunchThread
  <2> QED BY <2>1, PingsOfOthers DEF MonitorsNext, monitorVars, MonitorInv
<1>1. CASE mode.overlap
  BY <1>0, <1>1 DEF ServiceNextOf, Service!serviceVars
<1>2. CASE ~mode.overlap
  <2>1. ServiceSteps
    <3>1. CASE UNCHANGED monitorVars
      BY <3>1 DEF monitorVars, callVars, processVars, ServiceSteps, ServiceView, Phase, CurrentCall,
                  Alive, Active, Settled
    <3> QED BY <1>0, <1>2, <3>1, CallsServe, ManagersServe DEF MonitorsNext
  <2>2. /\ Cardinality({m \in Manager : Alive(m)}) = IF Phase = "on" THEN 1 ELSE 0
        /\ Cardinality({m \in Manager : Alive(m)})' = IF Phase' = "on" THEN 1 ELSE 0
    BY <1>0, <1>2, Seen, SeenNext
  <2> QED BY <1>0, <1>2, <2>1, <2>2
          DEF ServiceNextOf, ServiceSteps, ServiceView, Service!serviceVars, Service!ServiceNext,
              Service!Call, Service!Create, Service!Appear, Service!End, Service!Forget,
              Service!Return
<1> QED BY <1>1, <1>2

\* Calls that do not overlap see one process at most, that a start has made, and none when a
\* stop has returned: the threads, the processes and their queues implement MonitorService.
THEOREM Serves == MonitorsSpec => OneProcess
<1>1. MonitorsInit => Service!ServiceInit
  <2> SUFFICES ASSUME MonitorsInit PROVE Service!ServiceInit
    OBVIOUS
  <2>1. MonitorInv
    BY InvInit
  <2>2. Phase = "off" /\ \A c \in Caller : ~Active(c)
    BY DEF MonitorsInit, Phase, Active
  <2> QED BY <2>1, <2>2, Seen DEF Service!ServiceInit
<1>2. MonitorInv /\ MonitorInv' /\ [MonitorsNext]_monitorVars =>
        [Service!ServiceNext]_(Service!serviceVars)
  BY StepServes DEF ServiceNextOf
<1> QED BY <1>1, <1>2, InvAlways, PTL DEF MonitorsSpec, OneProcess, Service!ServiceSpec
==============================================================================
