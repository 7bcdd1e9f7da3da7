----------------------------- MODULE VirtActions -----------------------------
(***************************************************************************)
(* What every libvirt action of the topology package shares                *)
(* (virt/virt_topology.py, virt/virt_base.py, virt/topology_status.py):    *)
(* the commands an operator or a callback may invoke, the actions each one *)
(* runs over the devices, which action applies to a domain in which state, *)
(* and the provisioning status an action leaves behind.                    *)
(***************************************************************************)

\* The device actions: the names _device_action passes to the builders.
Actions == {"define", "create", "shutdown", "destroy", "undefine"}

\* The values of the provisioning-status leaf.
ProvisioningStatus ==
  {"undefined", "defined", "started", "stopping", "ready", "sync-error",
   "unmanaged"}

ACTION_STATUS_MAP ==
  [define   |-> "defined",
   create   |-> "started",
   shutdown |-> "stopping",
   destroy  |-> "defined",
   undefine |-> "undefined"]

\* The status update_device_status_after_action writes: a device without a
\* NED is never synchronised, so its start ends in a status of its own.
DeviceStatusAfter(action, unmanaged) ==
  IF unmanaged /\ action = "create" THEN "unmanaged"
                                    ELSE ACTION_STATUS_MAP[action]

\* Mutant: a domain that did not obey the shutdown is not destroyed.
ActionAllowed_NoDestroy(active, action) ==
  \/ active /\ action = "shutdown"
  \/ ~active /\ action \in {"create", "undefine"}

\* VirtBase._action_allowed: stop what runs, start or remove what does not.
ActionAllowed(active, action) ==
  \/ active /\ action \in {"shutdown", "destroy"}
  \/ ~active /\ action \in {"create", "undefine"}

Commands == {"define", "start", "stop", "undefine", "reboot", "hard-reset"}

\* LibvirtAction.cb_action: the first action a command runs ...
FirstAction(command) ==
  CASE command = "define"                           -> "define"
    [] command = "start"                            -> "create"
    [] command = "undefine"                         -> "undefine"
    [] command \in {"stop", "reboot", "hard-reset"} -> "shutdown"

\* ... and the one that follows each, "none" after the last.  A stop is a
\* shutdown, a wait and a destroy; a reboot is a stop and a start; a hard
\* reset undefines and defines the domains again in between.
NextAction(command, action) ==
  CASE action = "shutdown"                              -> "destroy"
    [] action = "destroy" /\ command = "reboot"         -> "create"
    [] action = "destroy" /\ command = "hard-reset"     -> "undefine"
    [] action = "undefine" /\ command = "hard-reset"    -> "define"
    [] action = "define" /\ command = "hard-reset"      -> "create"
    [] OTHER                                            -> "none"
==============================================================================
