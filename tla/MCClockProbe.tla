---------------------------- MODULE MCClockProbe ----------------------------
(***************************************************************************)
(* An instance of ClockProbe for TLC: thirds of a second, clocks up to 13        *)
(* seconds off either way, and answers up to three seconds late.            *)
(***************************************************************************)
EXTENDS ClockProbe
=============================================================================
