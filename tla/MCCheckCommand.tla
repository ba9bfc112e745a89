--------------------------- MODULE MCCheckCommand ---------------------------
(***************************************************************************)
(* CheckCommand for TLC.  It has no constants: every combination of        *)
(* outcomes and deadlines of the nine probes is explored.                  *)
(***************************************************************************)
EXTENDS CheckCommand
=============================================================================
