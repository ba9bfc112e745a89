--------------------------- MODULE MCHistoryStore ---------------------------
(***************************************************************************)
(* Instances of HistoryStore for TLC: enough runs to evict twice, and a    *)
(* fault to spare after the first.                                         *)
(***************************************************************************)
EXTENDS HistoryStore
=============================================================================
