--------------------------- MODULE MCLinkPlumbing ----------------------------
(***************************************************************************)
(* Instances of LinkPlumbing: a chain of two containers and a machine, and *)
(* its veth pair on its own.                                               *)
(***************************************************************************)
EXTENDS LinkPlumbing

CONSTANTS c1, c2, v1

\* c2 -- c1 -- v1: a veth pair and a tap.
MCChain == {{c1, c2}, {c1, v1}}

MCVeth == {{c1, c2}}
==============================================================================
