------------------------------ MODULE Monitors -------------------------------
(***************************************************************************)
(* A monitor of one topology or of one device: the calls that start and    *)
(* stop it, its manager thread, and the process that pings a device or     *)
(* reads its console (monitor/operational_status.py, console_activity.py,  *)
(* pinger.py, console.py).                                                 *)
(*                                                                         *)
(* Calls run in worker threads of NSO and share the dictionary of managers *)
(* without a lock.  A test whether the name is in the dictionary and the   *)
(* lookup that follows it are one step.  The status action only reads and  *)
(* is left out.                                                            *)
(***************************************************************************)
EXTENDS Naturals, Sequences, FiniteSets

CONSTANTS Manager,     \* manager threads that may exist at once
          None,
          Caller,      \* worker threads
          Modes,       \* the kinds of monitors, whether calls overlap, what may fail
          MaxIssues,   \* lost answers after which a device is offline
          MaxBacklog,  \* bound: messages a process of each kind has not delivered
          Capacity     \* messages that fit into the pipe of a queue

Kinds  == {"pinger", "console"}
Faults == {"construct", "write", "process", "kill"}

ASSUME MonitorsAssumption ==
  /\ None \notin Manager
  /\ Modes \subseteq [kind: Kinds, overlap: BOOLEAN, faults: SUBSET Faults]
  /\ MaxIssues \in Nat \ {0, 1} /\ Capacity \in Nat
  /\ MaxBacklog \in [Kinds -> Nat]

VARIABLES
  mode,       \* the kind of monitor, whether calls overlap, and what may fail
  pc, op,     \* of a call: where it is, and whether it is a start or a stop
  joined,     \* of a call: the manager it joins
  entry,      \* the manager in the dictionary
  thread,     \* of a manager: where it is
  process,    \* of a manager: the state of its process
  asked,      \* of a process: its stop_event
  queue,      \* of a process: its messages
  issues,     \* of a pinger: pings lost in a row
  reported    \* of a manager: the operational-status it has written last

callVars    == <<pc, op, joined>>
processVars == <<process, asked, queue, issues>>
monitorVars == <<mode, callVars, entry, thread, processVars, reported>>

Messages == {"stop", "line", "offline", "online", "warn"}

\* Every variable has its type.
MonitorsTypeOK ==
  /\ mode \in Modes
  /\ pc \in [Caller -> {"idle", "check", "status", "signal", "again", "join", "delete",
                        "create", "store", "launch"}]
  /\ op \in [Caller -> {"none", "start", "stop"}]
  /\ joined \in [Caller -> Manager \cup {None}]
  /\ entry \in Manager \cup {None}
  /\ thread \in [Manager -> {"stored", "ready", "made", "loop", "drain", "join", "ended"}]
  /\ process \in [Manager -> {"none", "made", "running", "busy", "ending", "exited"}]
  /\ asked \in [Manager -> BOOLEAN]
  /\ queue \in [Manager -> Seq(Messages)]
  /\ issues \in [Manager -> 0..MaxIssues]
  /\ reported \in [Manager -> {"none", "reachable", "not-reachable"}]

Pinger == mode.kind = "pinger"

\* is_alive(): get_status says 'running'.
Alive(m) == process[m] \in {"running", "busy", "ending"}

------------------------------------------------------------------------------
(* Calls.                                                                    *)

Active(c) == pc[c] # "idle"

\* A manager that nobody refers to, so that its name can be used again.
Free(m) ==
  /\ m # entry /\ thread[m] \in {"stored", "ended"}
  /\ \A c \in Caller : joined[c] # m

\* The monitor that was started last has its process.
Settled == entry # None => process[entry] \notin {"none", "made"}

\* Where calls do not overlap, they also wait for the process to be there.
\* Bound: there is a manager for each start in progress.
Call(c, o) ==
  /\ ~Active(c)
  /\ mode.overlap \/ (Settled /\ \A b \in Caller : ~Active(b))
  /\ o = "start" =>
       Cardinality({m \in Manager : Free(m)}) >
         Cardinality({b \in Caller : Active(b) /\ op[b] = "start"})
  /\ pc' = [pc EXCEPT ![c] = IF o = "start" THEN "check" ELSE "status"]
  /\ op' = [op EXCEPT ![c] = o]
  /\ UNCHANGED <<mode, joined, entry, thread, processVars, reported>>

Goto(c, p) ==
  /\ pc' = [pc EXCEPT ![c] = p]
  /\ op' = [op EXCEPT ![c] = IF p = "idle" THEN "none" ELSE @]

\* A call to stop returns to start_pinger, or to the operator.
Back(c) == IF op[c] = "start" THEN "create" ELSE "idle"

\* Get the status of the monitor, which raises while it has no process; then
\* go on at one of three places.
ByStatus(c, absent, alive, over) ==
  Goto(c, CASE entry = None                              -> absent
            [] entry # None /\ process[entry] = "none"  -> "idle"
            [] entry # None /\ Alive(entry)             -> alive
            [] OTHER                                     -> over)

StartStatus(c) ==
  /\ pc[c] = "check"
  /\ ByStatus(c, "create", "create", "status")
  /\ UNCHANGED <<mode, joined, entry, thread, processVars, reported>>

\* The first test of stop: one that finds no process goes on to the next, of
\* which a pinger has none.
StopStatus(c) ==
  /\ pc[c] = "status"
  /\ IF Pinger THEN ByStatus(c, Back(c), "signal", "delete")
               ELSE ByStatus(c, "again", "signal", "again")
  /\ UNCHANGED <<mode, joined, entry, thread, processVars, reported>>

\* Set the stop_event.  A pinger is then joined, a console looked up again.
Signal(c) ==
  /\ pc[c] = "signal"
  /\ IF entry = None \/ process[entry] = "none"
     THEN Goto(c, "idle") /\ UNCHANGED <<asked, joined>>
     ELSE /\ asked' = [asked EXCEPT ![entry] = TRUE]
          /\ Goto(c, IF Pinger THEN "join" ELSE "again")
          /\ joined' = IF Pinger THEN [joined EXCEPT ![c] = entry] ELSE joined
  /\ UNCHANGED <<mode, entry, thread, process, queue, issues, reported>>

\* _join_console.
StatusAgain(c) ==
  /\ pc[c] = "again"
  /\ ByStatus(c, Back(c), "join", "delete")
  /\ joined' = [joined EXCEPT ![c] = IF pc'[c] = "join" THEN entry ELSE None]
  /\ UNCHANGED <<mode, entry, thread, processVars, reported>>

\* Mutant: the manager is not joined.
Join_NoWait(c) ==
  /\ pc[c] = "join"
  /\ Goto(c, "delete")
  /\ joined' = [joined EXCEPT ![c] = None]
  /\ UNCHANGED <<mode, entry, thread, processVars, reported>>

Join(c) ==
  /\ pc[c] = "join" /\ thread[joined[c]] = "ended"
  /\ Goto(c, "delete")
  /\ joined' = [joined EXCEPT ![c] = None]
  /\ UNCHANGED <<mode, entry, thread, processVars, reported>>

\* Deleting what is no longer there raises.
Delete(c) ==
  /\ pc[c] = "delete"
  /\ entry' = None
  /\ Goto(c, IF entry = None THEN "idle" ELSE Back(c))
  /\ UNCHANGED <<mode, joined, thread, processVars, reported>>

\* The second test of start; then the constructor of the manager, which raises
\* if it cannot read the topology.
Construct(c) ==
  /\ pc[c] = "create"
  /\ \/ Goto(c, IF entry = None THEN "store" ELSE "idle")
     \/ entry = None /\ "construct" \in mode.faults /\ Goto(c, "idle")
  /\ UNCHANGED <<mode, joined, entry, thread, processVars, reported>>

Store(c) ==
  /\ pc[c] = "store"
  /\ \E n \in Manager : Free(n)   \* bound
  /\ LET m == CHOOSE n \in Manager : Free(n)
     IN /\ entry'    = m
        /\ thread'   = [thread EXCEPT ![m] = "stored"]
        /\ process'  = [process EXCEPT ![m] = "none"]
        /\ asked'    = [asked EXCEPT ![m] = FALSE]
        /\ queue'    = [queue EXCEPT ![m] = <<>>]
        /\ issues'   = [issues EXCEPT ![m] = 0]
        /\ reported' = [reported EXCEPT ![m] = "none"]
  /\ Goto(c, "launch")
  /\ UNCHANGED <<mode, joined>>

\* Start the manager that is in the dictionary; one that was started raises.
LaunchThread(c) ==
  /\ pc[c] = "launch"
  /\ thread' = [m \in Manager |->
                  IF m = entry /\ thread[m] = "stored" THEN "ready" ELSE thread[m]]
  /\ Goto(c, "idle")
  /\ UNCHANGED <<mode, joined, entry, processVars, reported>>

CallStep(c) ==
  \/ StartStatus(c) \/ StopStatus(c) \/ Signal(c) \/ StatusAgain(c) \/ Join(c)
  \/ Delete(c) \/ Construct(c) \/ Store(c) \/ LaunchThread(c)

------------------------------------------------------------------------------
(* The manager thread.                                                       *)

Advance(m, from, to) == thread[m] = from /\ thread' = [thread EXCEPT ![m] = to]

\* Pinger(..), Console(..).
MakeProcess(m) ==
  /\ Advance(m, "ready", "made")
  /\ process' = [process EXCEPT ![m] = "made"]
  /\ UNCHANGED <<mode, callVars, entry, asked, queue, issues, reported>>

StartProcess(m) ==
  /\ Advance(m, "made", "loop")
  /\ process' = [process EXCEPT ![m] = "running"]
  /\ UNCHANGED <<mode, callVars, entry, asked, queue, issues, reported>>

\* What a message makes of operational-status.
Reported(m, msg) ==
  CASE msg = "offline" -> "not-reachable"
    [] msg = "online"  -> "reachable"
    [] OTHER           -> reported[m]

\* Mutant: the process of a manager that raises is not stopped.
Stopped_Left(m) == asked

Stopped(m) == [asked EXCEPT ![m] = TRUE]

\* Take a message, and write it to the database; or end at the last message,
\* or when the writing raises.
HandleMessage(m) ==
  /\ thread[m] = "loop" /\ queue[m] # <<>>
  /\ queue' = [queue EXCEPT ![m] = Tail(@)]
  /\ \/ /\ Head(queue[m]) = "stop"
        /\ Advance(m, "loop", "drain")
        /\ UNCHANGED <<asked, reported>>
     \/ /\ Head(queue[m]) # "stop"
        /\ reported' = [reported EXCEPT ![m] = Reported(m, Head(queue[m]))]
        /\ UNCHANGED <<asked, thread>>
     \/ /\ Head(queue[m]) # "stop" /\ "write" \in mode.faults
        /\ asked' = Stopped(m)
        /\ Advance(m, "loop", "drain")
        /\ UNCHANGED reported
  /\ UNCHANGED <<mode, callVars, entry, process, issues>>

\* The manager of a console takes one more message, if there is one.
Drain(m) ==
  /\ Advance(m, "drain", "join")
  /\ queue' = [queue EXCEPT ![m] = IF Pinger \/ @ = <<>> THEN @ ELSE Tail(@)]
  /\ UNCHANGED <<mode, callVars, entry, process, asked, issues, reported>>

\* The thread ends.  Nothing reads its queue, its stop_event, or what it has
\* reported any more.
JoinProcess(m) ==
  /\ process[m] = "exited"
  /\ Advance(m, "join", "ended")
  /\ queue'    = [queue EXCEPT ![m] = <<>>]
  /\ asked'    = [asked EXCEPT ![m] = FALSE]
  /\ reported' = [reported EXCEPT ![m] = "none"]
  /\ UNCHANGED <<mode, callVars, entry, process, issues>>

ThreadStep(m) ==
  MakeProcess(m) \/ StartProcess(m) \/ HandleMessage(m) \/ Drain(m) \/ JoinProcess(m)

------------------------------------------------------------------------------
(* The process.                                                              *)

ProcessTo(m, from, to) ==
  /\ process[m] \in from
  /\ process' = [process EXCEPT ![m] = to]
  /\ UNCHANGED <<mode, callVars, entry, thread, asked, reported>>

\* The next round of the loop: ping, or read a line.
Iterate(m) ==
  /\ ~asked[m] /\ Len(queue[m]) < MaxBacklog[mode.kind]
  /\ ProcessTo(m, {"running"}, "busy")
  /\ UNCHANGED <<queue, issues>>

Say(m, msgs) == queue' = [queue EXCEPT ![m] = @ \o msgs]

\* _process_result of a ping that was not answered.
Missed(m) ==
  /\ Say(m, IF issues[m] = MaxIssues - 1 THEN <<"offline">> ELSE <<>>)
  /\ issues' = [issues EXCEPT ![m] = IF @ < MaxIssues THEN @ + 1 ELSE @]

\* Mutant: a device must miss one ping more to be online again.
Answered_Late(m) ==
  /\ Say(m, CASE issues[m] = 0        -> <<>>
              [] issues[m] > MaxIssues -> <<"online">>
              [] OTHER                 -> <<"warn">>)
  /\ issues' = [issues EXCEPT ![m] = 0]

\* _process_result of a ping that was answered.
Answered(m) ==
  /\ Say(m, CASE issues[m] = 0         -> <<>>
              [] issues[m] = MaxIssues -> <<"online">>
              [] OTHER                 -> <<"warn">>)
  /\ issues' = [issues EXCEPT ![m] = 0]

\* A line of the console, or none before the timeout or the connection ended.
ReadLine(m) == (\E msgs \in {<<>>, <<"line">>} : Say(m, msgs)) /\ UNCHANGED issues

Result(m) ==
  /\ ProcessTo(m, {"busy"}, "running")
  /\ IF Pinger THEN Missed(m) \/ Answered(m) ELSE ReadLine(m)

\* The stop_event is set, or an exception was raised; the finally clause tells
\* the manager.
Leave(m) ==
  /\ \/ asked[m] /\ ProcessTo(m, {"running"}, "ending")
     \/ "process" \in mode.faults /\ ProcessTo(m, {"busy"}, "ending")
  /\ Say(m, <<"stop">>)
  /\ UNCHANGED issues

\* The process ends when the pipe holds what the manager has not read yet.
Exit(m) ==
  /\ Len(queue[m]) =< Capacity
  /\ ProcessTo(m, {"ending"}, "exited")
  /\ issues' = [issues EXCEPT ![m] = 0]
  /\ UNCHANGED queue

Killed(m) ==
  /\ "kill" \in mode.faults
  /\ ProcessTo(m, {"running", "busy", "ending"}, "exited")
  /\ issues' = [issues EXCEPT ![m] = 0]
  /\ UNCHANGED queue

ProcessStep(m) == Result(m) \/ Leave(m) \/ Exit(m)

------------------------------------------------------------------------------

MonitorsInit ==
  /\ mode \in Modes
  /\ pc = [c \in Caller |-> "idle"] /\ op = [c \in Caller |-> "none"]
  /\ joined = [c \in Caller |-> None]
  /\ entry = None
  /\ thread = [m \in Manager |-> "ended"] /\ process = [m \in Manager |-> "exited"]
  /\ asked = [m \in Manager |-> FALSE] /\ queue = [m \in Manager |-> <<>>]
  /\ issues = [m \in Manager |-> 0] /\ reported = [m \in Manager |-> "none"]

MonitorsNext ==
  \/ \E c \in Caller : CallStep(c) \/ \E o \in {"start", "stop"} : Call(c, o)
  \/ \E m \in Manager : ThreadStep(m) \/ ProcessStep(m) \/ Iterate(m) \/ Killed(m)

\* Threads and processes are scheduled, database writes return or raise, and a
\* ping or a read of the console ends by its timeout.
MonitorsFairness ==
  /\ \A c \in Caller : WF_monitorVars(CallStep(c))
  /\ \A m \in Manager : WF_monitorVars(ThreadStep(m)) /\ WF_monitorVars(ProcessStep(m))

MonitorsSpec == MonitorsInit /\ [][MonitorsNext]_monitorVars /\ MonitorsFairness

------------------------------------------------------------------------------
(* Properties.                                                               *)

\* The call in progress, as MonitorService has it.
CurrentCall == IF \E c \in Caller : Active(c)
               THEN op[CHOOSE c \in Caller : Active(c)] ELSE "none"

Phase == CASE entry = None                           -> "off"
           [] entry # None /\ ~Settled               -> "coming"
           [] entry # None /\ Settled /\ Alive(entry) -> "on"
           [] OTHER                                  -> "over"

\* Nothing is promised of calls that overlap.
Service == INSTANCE MonitorService WITH
  phase <- IF mode.overlap THEN "off" ELSE Phase,
  call  <- IF mode.overlap THEN "none" ELSE CurrentCall,
  live  <- IF mode.overlap THEN 0 ELSE Cardinality({m \in Manager : Alive(m)})

\* Calls that do not overlap never leave a second process, one that nobody
\* started or one that was stopped.
OneProcess == Service!ServiceSpec

\* Every call returns: a stop is not left waiting for a manager that waits for
\* a process that waits for its messages to be read.  A process that is killed
\* leaves no last message, and its manager, joined, would wait for it.
CallsReturn ==
  \A c \in Caller : (Active(c) /\ "kill" \notin mode.faults) ~> ~Active(c)

\* When a pinger that runs has nothing to tell, the operational-status its manager has
\* written is that of a device which missed as many pings as it takes, if the
\* device did.
StatusFollowsPings ==
  \A m \in Manager :
    Pinger /\ thread[m] = "loop" /\ Alive(m) /\ queue[m] = <<>>
      => (issues[m] = MaxIssues <=> reported[m] = "not-reachable")
==============================================================================
