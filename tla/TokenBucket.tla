---------------------------- MODULE TokenBucket ----------------------------
(***************************************************************************)
(* What a client of the rate limiter is promised: one bucket that exists   *)
(* for ever, holds Burst tokens at most and is refilled while time passes. *)
(* A request is granted exactly when its client's bucket holds a token at  *)
(* the moment of the decision.  Nothing is looked up, kept or pruned.      *)
(* Levels are counted in units: a token is Cost of them, a tick adds       *)
(* Refill, so that fractions of a token exist as in golang.org/x/time/rate.*)
(***************************************************************************)
EXTENDS Naturals

CONSTANTS Client, Request, Nobody, Burst, Cost, Refill

VARIABLES
    credit,     \* units in each client's bucket
    asked,      \* per request: the client it came from, Nobody before it asked
    verdict     \* per request: "pending", "granted" or "refused"

vars == <<credit, asked, verdict>>

Cap == Burst * Cost

Least(a, b) == IF a <= b THEN a ELSE b

Init ==
    /\ credit = [c \in Client |-> Cap]
    /\ asked = [r \in Request |-> Nobody]
    /\ verdict = [r \in Request |-> "pending"]

Ask(r, c) ==
    /\ asked[r] = Nobody
    /\ asked' = [asked EXCEPT ![r] = c]
    /\ UNCHANGED <<credit, verdict>>

Grant(r) ==
    /\ asked[r] # Nobody
    /\ verdict[r] = "pending"
    /\ credit[asked[r]] >= Cost
    /\ credit' = [credit EXCEPT ![asked[r]] = @ - Cost]
    /\ verdict' = [verdict EXCEPT ![r] = "granted"]
    /\ UNCHANGED asked

Refuse(r) ==
    /\ asked[r] # Nobody
    /\ verdict[r] = "pending"
    /\ credit[asked[r]] < Cost
    /\ verdict' = [verdict EXCEPT ![r] = "refused"]
    /\ UNCHANGED <<credit, asked>>

Elapse ==
    /\ credit' = [c \in Client |-> Least(Cap, credit[c] + Refill)]
    /\ UNCHANGED <<asked, verdict>>

Next ==
    \/ \E r \in Request : (\E c \in Client : Ask(r, c)) \/ Grant(r) \/ Refuse(r)
    \/ Elapse

Spec == Init /\ [][Next]_vars
=============================================================================
