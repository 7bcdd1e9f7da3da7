-------------------------- MODULE MCNetworkLifecycle --------------------------
(***************************************************************************)
(* Three machines on two hypervisors: all share a network of the topology, *)
(* two on the same hypervisor are also connected by a link network.        *)
(***************************************************************************)
EXTENDS NetworkLifecycle

CONSTANTS d1, d2, d3, lan, link, h1, h2

MCMembers == [n \in Network |-> IF n = link THEN {d1, d2} ELSE Device]

MCHost == [d \in Device |-> IF d = d3 THEN h2 ELSE h1]
==============================================================================
