------------------------- MODULE MCTopologyLifecycle -------------------------
(***************************************************************************)
(* Instances of TopologyLifecycle: two or three machines, which may be       *)
(* unmanaged, locked, or obey shutdown requests.                           *)
(***************************************************************************)
EXTENDS TopologyLifecycle, TLC

CONSTANTS d1, d2, d3
==============================================================================
