---------------------------- MODULE AtomicReport ----------------------------
(***************************************************************************)
(* What the cached report promises its callers: a request is answered in   *)
(* one step, either from a report that is still valid, or with a newer     *)
(* report that replaces it for the next TTL ticks.  Unless it is forced, a *)
(* request never replaces a report that is still valid.                    *)
(***************************************************************************)
EXTENDS ProbeResults

CONSTANTS Request, TTL

VARIABLES
    now,
    item,     \* the published report and when it expires
    asked,    \* per request: "no", "cached" or "forced"
    answer    \* per request: the report it is answered with

vars == <<now, item, asked, answer>>

Init ==
    /\ now = 0
    /\ item = [data |-> NoReport, expiresAt |-> 0]
    /\ asked = [r \in Request |-> "no"]
    /\ answer = [r \in Request |-> NoReport]

Valid == now < item.expiresAt

Waiting(r) == asked[r] # "no" /\ answer[r] = NoReport

Ask(r) ==
    /\ asked[r] = "no"
    /\ \E how \in {"cached", "forced"} : asked' = [asked EXCEPT ![r] = how]
    /\ UNCHANGED <<now, item, answer>>

Serve(r) ==
    /\ Waiting(r)
    /\ asked[r] = "cached"
    /\ Valid
    /\ answer' = [answer EXCEPT ![r] = item.data]
    /\ UNCHANGED <<now, item, asked>>

Refresh(r) ==
    /\ Waiting(r)
    /\ asked[r] = "forced" \/ ~ Valid
    /\ item'.data.startedAt > item.data.startedAt
    /\ item'.expiresAt = now + TTL
    /\ answer' = [answer EXCEPT ![r] = item'.data]
    /\ UNCHANGED <<now, asked>>

Advance ==
    /\ now' > now
    /\ UNCHANGED <<item, asked, answer>>

Next == Advance \/ \E r \in Request : Ask(r) \/ Serve(r) \/ Refresh(r)

Spec == Init /\ [][Next]_vars
=============================================================================
