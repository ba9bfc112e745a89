-------------------------- MODULE MCReportService ---------------------------
(***************************************************************************)
(* Instances of ReportService for TLC.  Requests are interchangeable, and  *)
(* no property names one, so the safety runs take them up to symmetry.     *)
(***************************************************************************)
EXTENDS ReportService, TLC

Symmetry == Permutations(Request)
=============================================================================
