------------------------- MODULE MCRequestPipeline -------------------------
(***************************************************************************)
(* Instances of RequestPipeline for TLC: two clients, an infrastructure    *)
(* path, which is public, and one of the API.                              *)
(***************************************************************************)
EXTENDS RequestPipeline, TLC

MCPath == {"/healthz", "/api/v1/report"}
MCPublicPath == {"/healthz"}

Interchangeable == Permutations(Client) \cup Permutations(Request) \cup Permutations(Bucket)

\* Only the limiter looks at the time: the other layers neither read nor
\* write what Background changes, so their steps can be taken before it.
TimeWaits ==
    limiterVars' # limiterVars /\ requestVars' = requestVars =>
        \A r \in Request : pc[r] \in {"away", "allow", "done", "panicked"}
=============================================================================
