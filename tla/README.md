# Verification of the NSO topology manager

The repository is an NSO package that builds virtual network topologies: an
operator describes devices, links and networks in YANG; Python actions turn
them into libvirt domains, docker containers, libvirt networks, veth pairs and
taps; a periodic check brings the devices into NSO; a React application shows
and edits the result. The TLA+ modules in this directory model its control
logic, TLC checks them on small instances, and TLAPS proves the main results
for instances of any size.

Paths below are relative to `src/packages/`; `virt/` and `monitor/` are the
directories of `topology/python/`.

## 1. The system

| Component | State | Operations | Talks to |
|---|---|---|---|
| Topology actions (`virt/virt_topology.py`, `virt_base.py`, `domain*.py`) | provisioning-status of every device and of the topology, in NSO; the domains on the hypervisors; per invocation a `Topology` object with caches | `define`, `start`, `stop`, `undefine`, `reboot`, `hard-reset`, for one device or all | everything below, in `_device_action` |
| Status check (`virt/topology_status.py`) | the scheduler task; `device_states` of one check | `check-topology-status`: ping, synchronise, reboot on a silent console, record | the actions (it calls `reboot`), NSO devices, the console monitor |
| Link plumbing (`virt/connection_docker.py`) | veth pairs, taps, namespaces; `_plumbed_link_interfaces` per invocation | connect and disconnect the two ends of a link | reads the status of the device at the other end |
| Libvirt networks (`virt/connection_libvirt.py`) | the networks on each hypervisor; a cache per invocation | define, create, destroy, undefine a shared network | reads the statuses of the devices that share it |
| Connection manager (`virt/connection.py`) | for each interface: transport, peer, tunnel, names | computed once per invocation | used by both of the above |
| Docker hypervisor (`virt/hypervisor_docker.py`, `domain_docker.py`) | containers, their docker networks, interface classification | create, start, stop, remove | link plumbing |
| VXR simulator (`virt/domain_vxr.py`, `hypervisor_vxr.py`) | a process on the hypervisor, a starter thread | start, stop, collect taps | link plumbing |
| Volumes, day-0, templates (`virt/volume.py`, `ssh.py`, `template.py`) | a cached list of volumes | clone, upload, delete | hypervisors |
| Operational state monitor (`monitor/pinger.py`, `operational_status.py`) | a pinger process per topology, a queue, a manager thread, a dictionary of monitors | start, stop, status | writes operational-status |
| Console activity monitor (`monitor/console.py`, `console_activity.py`) | a logger process per device, a queue, a manager thread | start, stop; last activity | started and stopped by the actions, read by the check |
| Device name provider (`topology-data-provider`) | a MAAPI socket per transaction | get, get-next, finish | NSO |
| Nano services (`managed-topology-nano-plan.yang`) | plan states | call the actions in order | the actions |
| UI: JSON-RPC transactions (`api/index.js`, `data.js`, `features/nso`) | the cached list of server transactions, one pending `new_trans`, the flags of the header | every request finds or opens a transaction; commit, revert | NSO JSON-RPC |
| UI: cache (`api/query.js`, `comet.js`, `data.js`) | cached query results, subscriptions, the comet loop | query, notification, optimistic update, expiry, logout | NSO JSON-RPC |
| UI: terminals (`features/terminal`, `telnet-proxy.mjs`) | open consoles, a web socket and a telnet session each, the line that is edited | open, type, close, lose | the console monitor |
| UI: canvas (`features/topology`) | selection, drag, links, layout | draw, move and delete links; move icons, zoom, resize | transactions and cache |
| UI: menu and overlay (`features/menu`, `nso`, `common`) | open panes, highlighted icons, overlay, panels that move | toggle, create, delete, leave | transactions and cache |
| UI: configuration viewer (`features/config`) | the text of a device configuration | fetch, indent, highlight | `get-device-configuration` |

In the table UI is `topology-ui/src/webui/src`.

What is hard in it. Every action runs in an NSO worker thread and **nothing
serialises the actions**, nor the check, which runs for minutes beside them.
They communicate through status leaves that are written last, in transactions
of their own, so that every decision that reads a status of *another* device is
taken on data that may be out of date. Several of these decisions are of the
"last one turns off the light" kind: a link is plumbed by whichever end comes up
last, a network is created for the first machine and destroyed with the last, a
veth pair is deleted by the end that leaves last. Any call may raise, and then
the action ends where it is, its statuses not written. Guests may or may not
obey a shutdown within its minute; containers and machines stop by themselves.

In the UI a single thread interleaves handlers, answers, notifications,
animation frames and timers. Answers come in any order; what a handler read
before an `await` may be stale after it; and several components share one
transaction, one cache and one overlay without knowing of each other.

What makes each component correct:

- plumbing: two devices that are up are connected; no tap of a running machine
  is destroyed; no pair is left over; a reboot repairs everything;
- statuses: they say what is true when nothing is in progress; a topology
  recorded as ready is ready; the check goes on until it is; it never starts what
  was stopped; everything returns;
- networks: active before and while any machine in it runs, gone after the last;
- connection manager: both ends of a link agree on the transport, and two
  interfaces never share a name, a port or a VNI;
- monitors: a monitor can always be stopped, its process does not outlive it,
  the reported status is that of the device;
- transactions: all edits the user commits or reverts are in the one transaction
  the header acts on, and each is acted on once;
- cache: when nothing is on its way it holds what the server has, and no
  subscription is left behind;
- terminals: a console and the logger of a device never read it at once, the
  logger comes back, what is shown is what the device has;
- canvas: the links are those the user has drawn, an icon is drawn where it was
  dropped;
- menu: what is open and highlighted exists; the overlay is there while needed.

`PROJECT.json` lists every component with its status, and the hazards of this
code at the line where each bites, with the properties that watch it.

## 2. Modules

| Module | Role |
|---|---|
| `VirtActions` | the tables all Python models share: the actions of each command, when an action applies to a domain, which status it leaves |
| `LinkPlumbing` | direct links of containers under `start`, `stop`, `reboot` |
| `TopologyLifecycle` | all commands on libvirt machines, the statuses, the periodic check |
| `NetworkLifecycle` | the libvirt networks the machines share |
| `EditSession` | abstract: what the header of the UI promises about edits |
| `JsonRpcTransactions` | the transactions that hold the edits; implements `EditSession` |
| `CometCache` | a cached list and how it follows the server |
| `Terminals` | consoles, web sockets, telnet sessions and console loggers |
| `MonitorService` | abstract: what a monitor promises to those who start and stop it |
| `Monitors` | pingers and console loggers: calls, manager threads, processes and their queues; implements `MonitorService` |
| `TerminalLine` | the line at the cursor of a console |
| `CanvasGestures` | selection, drags and links on the canvas |
| `LayoutGeometry`, `ConnectionLine` | where icons are drawn, how the line of a link turns |
| `ServiceMenu` | panes, highlighted icons, overlay |
| `PanelAnimation` | accordions and lists that defer their changes |
| `ConfigText` | the configuration, indented and highlighted |
| `LinkPlumbingProofs`, `TopologyLifecycleProofs`, `NetworkLifecycleProofs`, `JsonRpcTransactionsProofs`, `CometCacheProofs`, `TerminalsProofs`, `MonitorsProofs` | theorems about the module they are named after |
| `ViewsProofs` | theorems about `CanvasGestures`, `LayoutGeometry`, `ServiceMenu`, `PanelAnimation`, `ConnectionLine`, `ConfigText` and `TerminalLine`, and about their composition `MCViews` |
| `MCLinkPlumbing`, `MCTopologyLifecycle`, `MCNetworkLifecycle`, `MCJsonRpcTransactions`, `MCCometCache`, `MCTerminals`, `MCViews` | instances for TLC; `MCTerminals` composes `Terminals` and `Monitors`, `MCViews` the views, which share no state |

A definition named `X_Y` beside a definition `X` is a faulty variant of it (the
mutants of `PROJECT.json`); no specification uses it.

### LinkPlumbing

State: `dom`, the domains; `status`, the provisioning-status leaves; `pairs`,
`inside`, `tap`, what the kernels hold; one record of control per invocation
(`pc`, `command`, `scope`, `action`, `pend`, `cur`, `links`, `link`) and its
`_plumbed_link_interfaces` (`plumbed`); `checking`, what the status check has
pinged and not yet written.

| Action | Code |
|---|---|
| `Begin`, `NextStep`, `Return` | `LibvirtAction.cb_action`, `run_action` |
| `NextDevice` | the two loops of `Topology.action`: machines, then containers |
| `Unplumb` | `process_device_connections('shutdown', .., 'pre-domain')` for one link: `destroy_container_to_container_link`, `destroy_tap_to_container_link` |
| `DomainAction` | `DomainDocker._action`, `DomainLibvirt._action`, and what the kernel does to the interfaces |
| `CheckOwn`, `CheckPeer` | `_plumb_direct_link_interface` up to the plumber call, for the own interface and the one at the other end (`is_link_dest`) |
| `PlumbOwn`, `PlumbPeer` | the plumber call: nothing to do, done, or raised |
| `WriteStatus` | `update_device_status_after_action` |
| `PingDevice`, `SyncDevice` | the check's ping and the status it writes later |
| `PowerOff`, `Crash` | guests that obey, domains that stop |

The reading of the other end's status, the plumbing and the writing of the own
status are three steps: the window between them is what the module is about.
The shell commands of one plumber call are one step. `operational-status`,
volumes and networks play no part in plumbing and are left out.

### TopologyLifecycle

State: `dom` (absent, shut, booting, up, or `acpi`: asked to shut down), `nso`
(onboarded devices), `console` (running loggers), the status leaves `status`,
`oper`, `topo`, the scheduler task `scheduled`; per invocation the control and
`known`, the cache of domains; of the check `todo`, `states`
(`device_states`), `reach` (`reachable_devices`), `cdev`, `result`.

`OperatorCommand`, `ProcessDevice`, `DomainVanished`, `WriteStatus`,
`ShutdownDone`, `WaitForShutdown`, `ActionDone` and `Schedule` are the steps of
`cb_action`; `SkipDevice`, `SkipLocked`, `DeviceMissing`, `PingDevice`,
`PingAnswered`, `PingUnanswered`, `ConsoleReboot`, `RebootReturns`, `ScanDone`,
`SyncFrom`, `WriteSync`, `Conclude` those of `TopologyStatus.check`. The reboot
the check makes is an invocation like any other (`Rebooter`), and the check
waits for it. Exceptions are steps that end the invocation or the check
(`DomainVanished`, `DeviceMissing`).

Abstractions: the order in which devices are processed is arbitrary; the time
a console has been silent is a choice; the SSH host keys are not modelled.

### NetworkLifecycle

State: `dom`, `net` (each network on each hypervisor: absent, inactive,
active), `status`, the control of each invocation and `known`, its
`libvirt.networks`. `CheckNetwork` is `network_action_allowed` for one network
of the current device, `ActOnNetwork` the call `LibvirtNetwork.define` or
`_action` makes on one hypervisor, `DomainAction` the domain between the two
passes, with libvirt's refusal to start a domain whose networks are not active.
A link network lives on the hypervisor of its devices, a topology network on
all of them (`HostsOf`). The statuses one decision reads are read in one step.
The networks a machine has to itself (`DomainNetworks`) and geneve interfaces
are left out.

### MonitorService and Monitors

`operational_status.py` and `console_activity.py` have the same shape: an action
that starts a monitor puts a manager thread into a dictionary; the thread makes
a process (`pinger.py`, `console.py`), takes its messages and writes them to the
database; stopping sets an event that ends the process, which tells the manager.
`Monitors` is one model of both, for one name of the dictionary; `mode.kind`
says which of the two it is.

State: `entry`, the dictionary; per call `pc`, `op` and the manager it joins
(`joined`); per manager `thread`, `process`, `asked` (the `stop_event`),
`queue`, `issues` (of a pinger) and `reported` (the operational-status).

| Action | Code |
|---|---|
| `Call` | `cb_action` with `start` or `stop`; `stop()` of the action class is a stop for each name |
| `StartStatus`, `Construct`, `Store`, `LaunchThread` | `start_pinger`, `start_console` |
| `StopStatus`, `Signal`, `StatusAgain`, `Join`, `Delete` | `stop_pinger`; `_stop_console` and `_join_console` |
| `MakeProcess`, `StartProcess`, `HandleMessage`, `Drain`, `JoinProcess` | `run` of the manager |
| `Iterate`, `Result`, `Leave`, `Exit`, `Killed` | the process; `Missed` and `Answered` are `_process_result` |

A pinger pings one device; what it does for one does not depend on the others.
A test whether a name is in the dictionary and the lookup after it are one step;
the status action only reads, and the log of events is only written, so both are
left out. `faults` says what may go wrong: the constructor of the manager
(`construct`), a write to the database (`write`), the process (`process`), or
that the process is killed and says nothing (`kill`). That a process does not end
before its messages are in the pipe of its queue, which holds `Capacity`, is how
Python's multiprocessing queues work (external).

`MonitorService` has the phase of the monitor, the call in progress and the
number of processes. `OneProcess` is the refinement: the call is that of the one
worker thread which is active, the phase is read off the dictionary and the
process in it, and the processes are counted over all managers, also those no
longer in the dictionary. Nothing is promised of calls that overlap.

### EditSession and JsonRpcTransactions

`EditSession` has three variables: the fate of each edit, the operation of the
header in progress, and the edits it covers. It says that an operation acts
once, on every edit accepted before it was pressed, and that no edit leaves the
session otherwise. It does not know of transactions.

`JsonRpcTransactions` has the server's open transactions (`open`), the browser's
cached list of them (`trans`, `cached`, `subscribed`, `fetch`), the shared
`pendingTrans`, the state of every request (`req`), the two flags of `nsoSlice`,
and where the user is. `GetTransaction` is `getTransaction` from its first await
to its second, `ReceiveNewTrans` what follows `new_trans`, `Serve..` the server,
`Receive..` what the browser does with an answer (`queryFn`, `onQueryStarted`,
`transformErrorResponse`), `BeginGesture`, `Defaults`, `EndGesture` the handlers
that send several requests, `Press` the header, `Unload` and `Load` a change of
page. JavaScript is run to the next await: `Internal` says that a continuation is
due, and nothing comes from outside before it.

`SessionSpec` is the refinement: `fate` and `covered` as they are (without the
edits of action forms, which have transactions of their own), `operation` from
the state of the two requests. `covered` is a history variable that says what
the operation owes to the user; no action of the code reads it.

`EditDuring = {}` and `Mixing = FALSE` are assumptions on the user: no edit is
begun while a commit or revert is in flight (the overlay is there to prevent
that), and none while a query waits for a new transaction, for the edit would
then be sent in a read transaction and be refused.

### CometCache

One cached list stands for all. `stored` and `queue` are the server's, `data`,
`entry`, `fetch`, `subscription`, `comet`, `unsubscribes` the browser's.
`ReceiveComet` is `processCometUpdates`, with the cache entry expiring after it
was last shown (`Expire`, `Forget`), `ReceiveEdit` the `onQueryStarted` of
`setValue`, `create` and `deletePath`, `Logout` that of `UserMenu`. The
history variable `raced` records that a query, a notification and an edit have
crossed: the code orders none of them, and `CacheFollows` is what it keeps
otherwise.

### Terminals and TerminalLine

`Terminals`: `terminalToggled` and `hideConsoleViewer` are the reducers with the
effects of the render that follows, `ServeAction` the start and stop of the
console logger, `Connect`, `SocketClosed` the web socket in `Terminal.jsx`,
`TelnetConnect`, `TelnetShell`, `PipelinesEnd`, `ConnectionClosed`, `handleExit`
the proxy. That actions on one device are served in the order they were sent is
an assumption on NSO.

`TerminalLine`: `handleKeyDown` and its callees on one side, the line editor of
the device (external) on the other, `ReceiveMessage` what the browser makes of
an echo. `guessed` records that a key was pressed whose effect the browser
cannot know before its echo.

### Views

`CanvasGestures`: react-dnd gives begin, hover, drop and end; what a handler defers
to the next animation frame is a step (`AnimationFrame`). Edits of links are answered in any
order. `LayoutGeometry`: the computation of `LayoutContext` and the icon's
`restrictPos`, `pxToPc` and back, with integers in place of floating-point
numbers (percentages in 1/1000, coordinates in 1/10000, rounded down), so
`RedrawnWhereDropped` allows for one pixel. `ConnectionLine`: the angle of a line
with the one correction by a full turn. `ServiceMenu`: one pane per level is
open; `toggle`, `deleteNode`, `create` and their answers. `PanelAnimation`: the
accordion's two frames, transition and listener; timers that nothing cancels.
`ConfigText`: the document is a grammar read one line ahead (`NextLines`), the
calls of `processBlock` are a stack (`frames`), so that every document up to
`MaxDepth` is rendered in each of the four formats.

### History variables and assumptions

Where the code leaves an order open on purpose or by omission, a history variable
(`raced`, `menuRaced`, `guessed`, `wound`, `quick`, `refetched`, `ragged`) records that the case
has happened, named after it, and the properties say what holds otherwise. Each
is set where two concrete steps cross and nowhere else; nothing but properties
and bounds reads it.

### Assumptions on the operator

`Serial = TRUE` says that the operator waits for everything in progress, the
check included, before giving a command; `Careful = TRUE` that a command is
given where it applies (nobody starts what is not defined or undefines what
runs). The code enforces neither, and says nothing about either. They are constants,
so that a run shows what holds with them and another what happens without.

## 3. Runs

Passing:

| Run | Instance | Shows |
|---|---|---|
| `plumbing_serial` | `c2 -- c1 -- v1`, `c2` unmanaged; two invocations, serial | `LinksPlumbed`, `TapNotLost` |
| `plumbing_crash` | the same, any domain may stop between commands, synchronisations fail | `NoLeakedPair`; `RebootHeals`: a reboot of the whole topology never raises and leaves every link connected, whatever happened before |
| `lifecycle_serial` | three machines: one unmanaged, one that obeys shutdown, one with a console monitor; all commands, forced or not, for one or all | `StatusTruthful`, `ReadyTopology`, `NoResurrection` |
| `lifecycle_live` | three machines, one locked, one that may be rebooted by the check; whole-topology commands | `CheckedUntilReady`, `EventuallyReady` |
| `lifecycle_overlap` | one machine, an invocation, the check and its reboot, overlapping | `InvocationsReturn`, also when the domain disappears |
| `networks_serial` | three machines on two hypervisors, a topology network on both and a link network; define, start and undefine may fail half way | `NetworksServe`, `NetworksReady`, `NetworksReleased` |
| `ui_transactions` | three sessions: a new item with an invalid default and a deletion that may be refused, a form of an action, a service created by a button; a transaction may be left over from before | `SessionSpec`, `TransactionsKnown`, `ButtonsTruthful`, `FormsComplete`, `CommitEnds` |
| `ui_cache` | a list of two entries, two changes by others, one edit, shown twice | `CacheFollows`, `NoForeignDeletion`, `SubscriptionsReleased` |
| `ui_terminals` | two devices, two web sockets, four toggles; besides, two worker threads that start and stop a monitor: pingers whose calls overlap, and pingers and console loggers whose calls do not, with all faults but `kill` or, for a logger, with that alone | consoles: `ConsoleExclusive`, `LoggerRestored`, `TelnetEnds`; monitors: `OneProcess`, `CallsReturn`, `StatusFollowsPings` |
| `ui_views` | each view by itself | canvas: `NoParallelLinks`, `LinksAsMeant`, `PreviewTruthful`, `DragLeavesNoTrace`; layout: `RedrawnWhereDropped`, `ShortestRotation`; menu: `OpenPanesExist`, `HighlightsFollowService`, `OverlayShields`; configuration: `ConfigShown`; console line: `ShownAsOnDevice`; panels: `PanelsSettle`; and the types of all of them |

Disagreements between the code and what it says of itself; TLC finds each
property violated:

| Run | What happens |
|---|---|
| `plumbing_lost_wakeup` | Two starts overlap, one per container. Each reads the other's status before it is written, each leaves the link to the other, nobody plumbs it. |
| `networks_unmanaged` | A running device without a NED has status `unmanaged`, which `network_action_allowed` takes for stopped: its network is destroyed under it. |

More can be seen by changing a constant of a configuration:

- `plumbing_serial` with `SyncResult = {"ready", "sync-error"}` breaks
  `LinksPlumbed`: a running container whose synchronisation failed counts as down.
- `plumbing_serial` with `Serial = FALSE` breaks `TapNotLost`: a machine is started
  while the container at the other end is between its unplumbing and `docker
  stop`; the tap moves in and is destroyed with the namespace.
- `lifecycle_serial` with `Graceful = Consoled` breaks `NoResurrection`: a machine
  that obeyed the shutdown is not destroyed, so its logger is never stopped, and
  the next check starts the machine again. `NothingResurrected` (section 4)
  shows that this is the only way.
- `lifecycle_serial` with `Serial = FALSE` breaks `StatusTruthful` (a check that
  overlaps a stop records a stopped device as ready), and so does a locked
  device (the check takes it for ready unseen).
- `lifecycle_live` with single devices as `Target` breaks `CheckedUntilReady` (a
  start of one device never schedules the check) and, once one is undefined,
  `EventuallyReady` (every check raises `KeyError` on it).
- `networks_serial` with `"shutdown"` in `Failing` breaks `NetworksReady`: a device
  left in status `stopping` keeps its neighbours from creating their network.
- `ui_terminals` without the condition `mode.overlap` in the refinement breaks
  `OneProcess`: two starts that overlap leave two processes, one of which nobody
  can stop; a start or stop right after a start raises, for there is no process
  yet. Console loggers whose calls overlap break `CallsReturn`: `_join_console`
  looks the manager up again and may find a new one, which was not asked to stop.
- `ui_terminals` with `"kill"` and without the exception made for it in
  `CallsReturn` breaks it: a process that is killed leaves no `stop` in its queue,
  its manager waits for one for ever, and so does a call that joins the manager.
- `ui_terminals` with `Capacity = 1` breaks `CallsReturn`: after a write that raised
  the manager of a console takes only one more message, and the process does not
  end while there are more of them than the pipe holds.
- `ui_transactions` with `Refused = {"apply"}` breaks `ButtonsTruthful`: after a commit
  refused for another reason than validation the buttons do not come back.
- `ui_transactions` with `Mixing = TRUE`, with `"apply"` or `"revert"` in
  `EditDuring`, or with `Refused = {"revert"}` breaks `SessionSpec`,
  `TransactionsKnown` and `ButtonsTruthful`: an edit shares the transaction of a
  query, is sent on a transaction that is being closed, or opens a second one.
- `ui_transactions` with the session `{newItem, fillIn}` and `MaxTh = 4` breaks
  `TransactionsKnown`: a revert pressed while the values of a form are sent finds no
  transaction and has `get_trans` asked again; its answer, given before the new
  item's transaction was opened, replaces the list that transaction was added to, and
  the next edit opens a second one. With a form that stays on the page
  (`leaves |-> "never"`, which no form in the code does) `ButtonsTruthful` breaks: the
  transaction of the form enables the buttons.

### Bounds

The Python models are finite without artificial bounds: there are no counters and no
unbounded queues, and invocations return to a single idle state, so the runs
explore histories of any length. The bounds are the sizes of the sets.
A decision of the plumbing involves the two ends of one link; a third device and
a second link show what work on one link does to the neighbour, and the chain
has both kinds of link. In the lifecycle the
devices only meet in the topology's status and in the check, where "some ready,
some not, some failed" needs three. For networks the interesting counts of
*other* members are none, one and several. Two invocations suffice for the races
found; three would add no pair of conflicting steps. More is covered by the
theorems.

Bounds in the UI models, each a constant and a guard of one action:

| Bound | What it cuts | Why it is enough |
|---|---|---|
| `MaxTh`, `MaxVisits` (transactions) | transactions opened; loads of the page | one left over, one for reading, one for writing; a page that is left and one that is returned to |
| `MaxChanges`, `MaxVisits` (cache) | changes by others; times the list is shown | a deletion and a creation of the same entry in one batch or in two; shown, forgotten, shown again |
| `MaxConnections`, `MaxToggles` | web sockets; toggles of consoles | one open per device, or two of one; open, switch, close, open again. The theorems are for any value |
| `Manager`, `MaxBacklog`, `Capacity` | managers of one name; messages not yet read; messages a pipe holds | one that ends while the next begins; a line while another waits, and the last message. The theorems are for any value |
| `MaxIssues` | pings lost until a device is offline (3 in the code) | with 2 there are all three cases: none, some, enough. The theorems are for any value |
| `MaxDrags` | drags | one that changes links and one while it is unanswered. The theorems are for any value |
| `MaxDeletes`, `MaxCreates` | unanswered requests of the menu | one deletion, for the handlers are independent of each other; two creations, so that a form can be submitted again. The theorems are for any value |
| `MaxLine`, `MaxAhead` | characters on the line; keys not echoed | a cursor at either end and in the middle; an arrow before and after another key |
| `MaxDepth` | nesting of the configuration | blocks that end one and several levels at once |
| `MaxDeferred` | callbacks and timers that wait | two toggles within a frame |
| `MaxDrops` | icons dropped | one per view |

`CHECK_DEADLOCK` is off in the `ui_` runs: a user may stop, and does at the bounds.
It is on in all others.

### Fairness

`FairSpec` of `TopologyLifecycle` assumes: weak fairness of every invocation's
steps and of the check's (threads are scheduled, calls to libvirt, to NSO and to
devices return or raise, a ping has a timeout); weak fairness of booting and of
a guest that accepted a shutdown; strong fairness of `StartCheck` while the
scheduler task exists: the scheduler runs the check every two minutes for
ever, so it is not kept out by commands given in between. Nothing is assumed of the operator. In `lifecycle_live`
synchronisations succeed (`SyncFails = FALSE`): one that fails for ever keeps a
device from being ready, as it should.

`JsonRpcTransactions` assumes weak fairness of the server and of each
continuation, so that every request is answered; of the user nothing, in
particular not that a page is left. `CometCache`: of the server, of the answers
and of the end of a logout, not of expiry. `Terminals`: of the proxy's steps,
the browser's and of the actions served; nothing makes the user close a console.
`MonitorsFairness`: worker threads, managers and processes run, writes to the
database return or raise, a ping and a read of the console end by their
timeouts; that a process goes on to its next round (`Iterate`), is killed, or that
anyone calls is not assumed. The views check no liveness.

## 4. Theorems

Of `LinkPlumbing`, for all sets of devices, containers, links and invocations:

- `TypeCorrect`: `Spec => []TypeOK`, also when invocations overlap and domains crash.
- `PairsNotLeaked`: `Spec => []NoLeakedPair`, under no hypothesis at all. `PairInv`
  says where the ends of a pair are: one in a container has its container running
  and its pair, and every pair has an end in a container.
- `TapsKept`: `Spec => []TapNotLost` under `Serial` and no crashes, whatever
  synchronisations report. `TapInv` needs only the statement that taps have left
  a container before it stops.
- `RebootRepairs`: `Spec => RebootHeals` under `Serial` alone. `RebootInv` starts
  from nothing (domains may have crashed, statuses may be wrong): it says that
  after the destroys no domain runs and the cache is empty, and that the
  creates, in their order, then find every other end as its status says. That no
  plumber call can raise in a reboot is a lemma of its own
  (`RebootPlumbOwn`, `RebootPlumbPeer`).
- `PlumbingCorrect`: `Spec => [](LinksPlumbed /\ TapNotLost)` under `OneAtATime`:
  `Serial`, no crashes, synchronisations that succeed. These are exactly the
  hypotheses the runs and remarks of section 3 show to be necessary.

Neither property of the last theorem is inductive. That a link is plumbed when its second device
comes up rests on the statuses being true, which rests on where each invocation
is; that no tap is lost rests on every tap having left a container
before it stops. `IInv` adds to the two properties:
`SerialInv` (one operation at a time), `ControlInv` (where it can be in its
loops), `CheckedInv` (the status read is still valid at the plumber call),
`StatusInv` (a status that says up is true, and a running device has one unless
its destroy is still to come), `DomainInv` (what the domain step achieved),
`IfaceInv` (interfaces need their domains), `UnplumbedInv` (taps have left
before the stop), `CacheInv` (the cache tells the truth and is empty before a
create) and `ProgressInv` (links already processed are connected).
`IInvInit`, one lemma per action (`BeginStep` .. `WriteStatusStep`, ..) and
`IInvStep` establish it. Lemmas that several steps share
(`DomainDownFrame`, `DomainUpFrame`, `LinkUpInPlace`, `BothEndsRun`) are stated
once.

Of `NetworkLifecycle` (`NetworkLifecycleProofs`), for all sets of machines,
networks, hypervisors and invocations, wherever calls fail:

- `TypeCorrect`: `Spec => []TypeOK`, also when invocations overlap.
- `NetworksKept`: `Spec => []NetworksServe` under `OneAtATime`: `Serial`,
  `Careful`, and no unmanaged machine in a network, the hypothesis that
  `networks_unmanaged` shows to be necessary.
- `NetworksGone`: `Spec => NetworksReleased` under `Serial` and `LinksLocal`: both
  ends of a link that has a network of its own are on one hypervisor. A link
  between hypervisors is given a network too if bridges are not used
  (`need_bridge_networking`); its destroy runs on the host of the machine at
  hand only, so the one of the machine that stops first would stay.
- `NetworksUpFirst`: `Spec => []NetworksReady` under `Orderly`: `Serial`, `Careful`,
  `LinksLocal`, and no shutdown or destroy call that raises. A machine whose
  destroy raised stays recorded as stopping, which keeps its networks active but
  does not count for a start.

A network may only be destroyed when no member runs, and the decision asks the
statuses of the other members. So the invariant `ServeInv` says, besides where
the invocation is (`ControlInv`, `Alone`): a machine that runs is recorded as
started, ready, sync-error or stopping, unless its own start is still to be
recorded (`StatusInv`); the decision stands while it is carried out
(`DecidedInv`); the machine the destroy is about was stopped before
(`StoppedInv`). `CacheInv` (what is cached exists) is needed for `StatusInv`:
were a call to a network to raise after a machine started, the start would
never be recorded. `DestroySafe` puts these together.

`NetworksGone` is about the end of a command and needs to know what was done on the
way: `ReleasingInv` says of each network that it is released once the last of its
members has been processed, for which the others must by then be recorded as
stopped or gone (`WrittenInv`), the cache exact (`KnownInv`) and networks exist
only where a member has them made (`PlacedInv`). `NetworksUpFirst` is about a
network that a machine leaves to others: `UpInv` says that a machine recorded as
up has all its networks, `DefinedInv` and `GoneInv` that one that is defined finds
them defined, `StoppingInv` that the status that counts for neither is only met
within a stop, and `PassInv` what the action has already done to the networks
behind it.

Of `TopologyLifecycle` (`TopologyLifecycleProofs`), for all sets of devices and
invocations:

- `TypeCorrect`: `Spec => []TypeOK`, also when everything overlaps.
- `TopologyReady`: `Spec => []ReadyTopology`, under `OneAtATime`: `Serial` and
  `Careful`.
- `StatusesTrue`: `Spec => []StatusTruthful`, if besides no device is locked: the check
  takes a southbound-locked one for ready without a ping.
- `NothingResurrected`: `Spec => NoResurrection`, under `OneAtATime` and if no guest
  with a console monitor obeys shutdown requests.
- `NotForgotten`: `Spec => []CheckedUntilReady`, if besides commands are for the whole
  topology (`Target \subseteq {None}`): a start of a single device schedules
  nothing, see section 3. Any devices may be locked or unmanaged, and
  synchronisations may fail for ever.

The properties only speak of the moments between commands. `IInv` says what
holds within one: for each device whether the invocation in progress has it
still before it, at hand, behind it, or leaves it alone (`DeviceInv`), with the
states of its domain that this allows (`Before`, `After`); and the invocation
finds the domains it has cached (`KnownInv`), so that it does not raise. An action ends where the
next one of its command begins (`AfterBefore`), and with a status that is true
(`AfterTruth`). Of the check it says that the devices it has pinged run and are
not ready (`ReachInv`), which is why a topology that was ready stays so; that it
has seen every device it concludes about (`SeenInv`); and that the device it
reboots is none of those (`AtInv`). `AloneInv` keeps the check's own reboot apart. `LoggerInv` is
a second, smaller invariant, which needs no `Serial`. `ScheduleInv` builds on both:
the check itself reboots a device, which leaves it started, and writes
sync-error; that it is scheduled at that moment follows from the device being
found up and not ready, hence recorded as started or sync-error already
(`RunsPending`). Without `LoggerInv` it could reboot one that was stopped, after the
check was taken off the schedule.

Of `JsonRpcTransactions` (`JsonRpcTransactionsProofs`), for any number of edits,
gestures, scenarios, transactions and visits of the page:

- `Implements`: `Spec => SessionSpec`, the refinement of `EditSession`;
- `KnownTransactions`: `Spec => []TransactionsKnown`, `TruthfulButtons`:
  `Spec => []ButtonsTruthful`, `CompleteForms`: `Spec => FormsComplete`;
- `TypeCorrect`: `Spec => []TypeOK`.

All are under `Considerate`: `EditDuring = {}`, `Mixing = FALSE`, operations that are
refused only if the validation fails, gestures of one session that do not set
the same thing twice, and sessions that either edit the configuration (`Edit`) or
fill in forms of actions, each of which leaves the page (`Fill`). Section 3 shows
that all but the condition on the gestures are necessary; that one says that an
edit is one event. The constants of `ui_transactions` satisfy them: its sessions
are of both kinds.

The invariant `IInv` has a case for each kind of session.

While the configuration is edited (`EditingInv`, with `NoForms`),
that an operation acts on every edit it covers cannot be seen from the
operation alone: the transaction it finds must hold them all, so there may be no
other (`OpenInv`), the cached list must tell the truth about it while requests
and answers are on their way (`CacheInv`, `KnownInv`), a second one must not be
opened meanwhile (`PendingInv`: a write transaction is asked for only when there
is none and the list is known), and nothing may be sent on it once it is being
ended (`OperationInv`). That no edit awaits a transaction while a query does
(`GestureInv`) has to be kept until the defaults of a new item are set, which is
why it speaks of what a gesture has still to send. `FlagInv` relates the
buttons to the cache, `FateInv` each edit to its request and gesture,
`CoveredInv` the edits covered to the operation, `AwayInv` says that a page that
is left leaves nothing behind. There is one lemma per action
(`ServeEditStep`, `ReceiveEndStep`, ..).

While forms are filled in (`FillingInv`), any number of transactions of actions may
be open, and the only one that takes edits of the configuration (`Main`) is one an
earlier page left, which is empty. The buttons may then be enabled for the
transaction of a form, so an operation can find nothing to commit or revert
and ends without an answer; `FillFlagInv` confines this to a page on which a form is
being filled in, and `FormsInv` says that such a page is left. A cached list is right
about `Main` even if `get_trans` is asked again while a form waits
(`FillCacheInv`: it is asked again only when `Main` is empty, and `FillKnownInv`). The
lemmas are named `Fill..`, one per action.

The refinement has one lemma per action that is not a stutter
(`ServeEditDecides`, `PressPresses`, `ServeEndActs`, `ReceiveEndFinishes`,
`UnloadLeaves`), from what both cases share (`EitherWay`); `Rest` says what both know when
nothing is in flight.

Of `CometCache` (`CometCacheProofs`), for any number of entries, values, edits and
changes of others, from the assumption that an entry is in the list once:

- `CacheIsServer`: `Spec => []CacheFollows`;
- `NothingForeign`: `Spec => NoForeignDeletion`.

`CacheInv` holds until something crosses or the user logs out. Where the list
does not show what is stored of an entry, a notification or the answer of an
edit is on its way that mentions it (`DataInv`), and the last one to mention it
says what is stored (`QueueInv`, `BatchInv`); so the list is right once it has
been applied. That has to survive the queue being cut into batches: what a
batch says last need not be so while there is more in the queue, but what it
deletes is then created there, which is why an item may go from the list of an
entry that is still stored. `InTurn` says that a deletion is followed by a
creation, so a batch without both applies at most one deletion to an entry, and
`updateQueryData` is never told to remove an item that is not there (it would
remove the last one of the list). `EditsInv` says that nothing else is on its
way to an entry while an edit of it is. `Lifecycle` relates the entry, its
subscription and what the server knows of it: a list that is loaded is
subscribed to, once the subscription is known. Lists are reasoned about by what
they show of each entry (`Shows`): one lemma for each thing `updateQueryData` does
(`CreatedList`, `AssignedList`, `RemovedList`), one for the answer of a query
(`AnswerShows`) and one for a batch (`BatchEffects`).

Of `Terminals` (`TerminalsProofs`), for any number of devices, web sockets and
toggles: `ConsoleInvariant`, from which follow `Exclusive`
(`Spec => []ConsoleExclusive`) and `Restored` (`Spec => []LoggerRestored`). The
invariant says which request of a device is the last one queued
(`RequestInv`), for whatever is queued before it the logger ends as that one
says; and that a console has a web socket only after its stop was answered (`MountInv`). It uses
the assumption that the requests of one device are served in order.

Of `TerminalLine` (`ViewsProofs`), for any set of characters, any history
of the device, any length of its line and any number of keys typed ahead:

- `LineShown`: `LineSpec => []ShownAsOnDevice`.

What is shown and what the device has agree only when every echo has arrived, so
`LineInvariant` says how they come together: there is a sequence `D` of lines of
the device, one before each message under way, of which the browser shows the
first and the device has the last, and each message is the echo of one key that
leads from one to the next (`Traces`). The keys that are not echoed are arrows
of one direction first, as many as the browser counts, then others, and a line is
recalled only before any (`KeysInOrder`); that is what `MayGoLeft` and the guesses keep.
What a message comes to, byte by byte, is shown with the states between its
bytes (`MessageIs`): `Redraws` for the text that is written out and
moved back over, then one lemma per key (`CharIsShown`, `LeftIsShown`, ..). The
assumption on `Chars` only says that a character is not the name of a key or of a
control byte.

Of `Monitors` (`MonitorsProofs`), for any number of worker threads and managers,
any backlog and limit of lost pings, and whatever fails:

- `Serves`: `MonitorsSpec => OneProcess`, the refinement of `MonitorService`;
- `StatusFollows`: `MonitorsSpec => []StatusFollowsPings`, also when calls overlap;
- `TypeCorrect`: `MonitorsSpec => []MonitorsTypeOK`.

`MonitorInv` says that a manager makes its process, starts it and ends after it
(`ThreadInv`); that, where calls do not overlap, all managers but the one in the
dictionary are without a process, and that what the call in progress has seen
still holds (`OrderInv`); and that the last message which changes the status, or
else the status as written, is what the pinger has counted (`PingInv`). The
last part needs two lemmas about sequences, `TellsAtTail` for a message that is
taken and `TellsAtSend` for one that is sent. For the refinement, `CallsServe` and
`ManagersServe` give the step of the service for each step of a call and of a
manager or process; `LiveIs` counts the processes.

Of `CanvasGestures` (`ViewsProofs`), for any number of devices, drags and
unanswered requests: `GestureInvariant`, from which follow `NoParallel`
(`Spec => []NoParallelLinks`) and `LinksMeant` (`Spec => []LinksAsMeant`). The invariant relates the
answered links, the unanswered requests and what the user has drawn, and says
where a drag in progress may have come from.

`PreviewTrue` (`Spec => []PreviewTruthful`) and `NoTraceOfDrags`
(`Spec => DragLeavesNoTrace`) follow from a second one, `TraceInv`: the icon that is
marked is the one that `canDrop` accepts now, although it was computed when the
pointer moved and links may have been answered since (`MarkInv`, lemma
`HoverMarks`); and what a drag will select again is what was selected before
its first frame (`ReselectInv`), which needs that an icon and a link are never
selected together (`SelectionInv`).

Of the other views (`ViewsProofs` too), for all values of their constants that meet
the named assumptions:

- `MenuTypes`, `MenuPanesExist` (`[]OpenPanesExist`), `MenuHighlights`
  (`[]HighlightsFollowService`) and `MenuShielded` (`[]OverlayShields`), from
  `MenuInv`. What the highlights are has to be said of any selection of panes
  (`IconsOf`), since a toggle, an answer and a deletion each recompute them from a
  different one; of the overlay, that a form that is creating is open
  (`FormInv`). The proof of `MenuShielded` failed at a form that is submitted
  again while it creates its item: the first answer closes it and hides the
  overlay, the second one, or its failure, finds no form to close. The model had
  bounded that away with one creation at a time; it now allows two, names the
  race `"twice"`, and the property excepts it.
- `LinesTurnLeast` (`[]ShortestRotation`): the angle that is kept is a whole turn
  away from the one of the icons and between -180 and 540, from where one
  correction is enough (`RotationInv`, lemma `ShortestTurns`).
- `PanelsSettled` (`[]PanelsSettle`): for each state of an accordion which callbacks
  can be waiting (`AccordionInv`), and that a list which is not as it should be
  has a timer that will make it so (`MeasureInv`, `OverlayInv`). That the timer
  that is due is never one that undoes this needs lemmas about the queue
  (`DueFirst`, `WithoutKeeps`).
- `ConfigurationShown` (`[]ConfigShown`), for documents of any depth and any leading
  space that grows with it. `processBlock` tells from indentation alone what a
  line belongs to, so the invariant `TextInv` has to say, for each format, that
  what `pretty` remembers is the depth of what was read (`DocumentInv`, lemmas
  `PrettyIs` and `LeadingGrows`), that the line ahead is indented as it is deep
  (`AheadInv`), and how many calls are left for it (`BlocksInv`): the call it
  belongs to is among them and has kept, or been told, whom the nearest
  backpointer names. That no call ends too early, and none too late, is
  `EndedBelow`.
- `LayoutTypes` (`[]LayoutTypeOK`) and `IconsStay` (`[]RedrawnWhereDropped`). The invariant
  `DropsInv` says of an icon that was dropped, and whose requests were not refused
  or mixed up, that the two coordinates which are stored or still on their way
  would be drawn within a pixel of that place in the view it was dropped in; so
  the layout is defined for any view (`StartIn`, `LengthIn`) and agrees with the
  module's in the current one (`LayoutNow`). The pixel itself is `PixelReturns`: of
  the coordinate, the percentage and the pixel each is rounded, and the first is
  clamped; products are bounded one by one (`ProductGrows`) until what is left is
  linear. It needs that a container is wider than its icons (the YANG model
  allows narrower ones, for which a coordinate would be divided by zero or by a
  negative width) and that the canvas has at most `Widest` pixels: on a much
  wider one the two decimals of the percentage are more than a pixel apart.

Of the composition `MCViews` (`ViewsProofs`):

- `ViewsAreViews`: `Spec` implies the specification of each view;
- `ViewsTypes` (`[]ViewsTypeOK`), from `CanvasTypes`, `MenuTypes`, `ConfigurationTypes`,
  `LineTyping`, `LayoutTypes` and the invariants of the other two;
- `ViewsCorrect`: the properties above, of the composition.

The types hold also where the other properties make an exception. In a
configuration with a line without text `TextInv` says nothing any more; that no
more than `MaxDepth + 2` calls of `processBlock` are open then follows from what they
are indented by, each deeper than the one before (`CliInv`). After the browser had
to guess at the console, `LineInv` says little; that the counts of arrows stay
within what was typed follows from a message never raising them, whatever its
bytes (`MessageType`, from `ReceivedType` for one byte).

Only model-checked: that `CometCache` leaves no subscription behind. Liveness (`EventuallyReady`, `InvocationsReturn`,
`CommitEnds`, `SubscriptionsReleased`, `TelnetEnds`, `CallsReturn`) stays with TLC: proving it
needs ENABLED, which this prover does not reason about. What a fold over a sequence
computes would need induction with an operator as parameter, which is out of
reach too; so the messages of `TerminalLine` and the answers and batches of
`CometCache` are recursive functions, of which the least index at which they
could differ is enough; so are the edges of the containers in `LayoutGeometry`.

## 5. Not modelled, and why

- **VXR simulator** (`domain_vxr.py`, `hypervisor_vxr.py`): a thread that waits for
  the simulator's interfaces races with `stop`; the simulator is a library that is
  not part of the repository, and what it does when it is stopped while it
  starts cannot be read from this code.
- **Monitors**: the events a pinger logs and the `clear` action, which deletes them.
- **Connection manager, overlay and bridge links, own networks of machines**:
  names, ports and VNIs are string formatting computed once per invocation;
  geneve interfaces are created and deleted by one device and share nothing.
- **Docker hypervisor**: start and stop of a container are in `LinkPlumbing`; the
  rest creates and removes containers under the same status rules.
- **Nano services and the device name provider**: plan states of YANG, and one
  MAAPI socket per transaction.
- **Volumes, day-0, templates, scripts, device types, service registration, YANG**: data
  and text, no state that interleaves.
- **UI**: rendering, styles, icons, buttons, language grammars of the
  highlighter, selectors, and requests that hold no transaction.
