---------------------------- MODULE MCCometCache ----------------------------
(***************************************************************************)
(* A list of two entries.                                                  *)
(***************************************************************************)
EXTENDS CometCache

CONSTANTS k1, k2

MCKeypaths == <<k1, k2>>
==============================================================================
