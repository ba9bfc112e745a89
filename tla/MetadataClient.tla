--------------------------- MODULE MetadataClient ---------------------------
(***************************************************************************)
(* The IMDSv2 client (pkg/metadata/client.go) under concurrent callers:    *)
(* the probes of a refresh and the /info handlers share one client, its    *)
(* session token and the mutex that guards it.                             *)
(*                                                                         *)
(* The metadata service is modelled as the client sees it: it issues       *)
(* tokens that it accepts for TTL ticks from when it issued them, it may   *)
(* revoke all of them (a restart), and its answers take time, which is why *)
(* the client believes in a token a little longer than the service does.   *)
(***************************************************************************)
EXTENDS Naturals, Sequences

CONSTANTS
    Caller,         \* the goroutines that call get
    Nobody,         \* tokenMu is free
    TTL,            \* ttlSeconds
    HTTPTimeout,    \* httpClient.Timeout
    MaxClock,       \* bound: the clock stops there
    MaxRevocations, \* bound: how often the service forgets its tokens
    MaxFailures     \* bound: HTTP calls that fail

ASSUME NobodyAssumption == Nobody \notin Caller
ASSUME TimesAssumption == TTL \in Nat \ {0} /\ HTTPTimeout \in Nat
\* A token lives longer than its PUT and the GET after it may take: by default
\* six hours against two seconds each.
ASSUME LifetimeAssumption == 2 * HTTPTimeout < TTL + 2
ASSUME BoundsAssumption ==
    MaxClock \in Nat /\ MaxRevocations \in Nat /\ MaxFailures \in Nat

VARIABLES
    now,
    pc,          \* per caller: the statement it is about to execute
    attempt,     \* per caller: 1, or 2 once it was refused
    sent,        \* per caller: the token it sends, 0 before it has one
    since,       \* per caller: when its HTTP call began
    tokenMu,     \* owner of the mutex, or Nobody
    token,       \* c.token; 0 stands for ""
    tokenExpiry, \* c.tokenExpiry
    deadline,    \* the service: when it stops accepting each token it issued
    revocations, \* the service: how often it revoked them all
    failures,    \* bound counter
    arrival      \* history variable: the revocations when the caller arrived

vars == <<now, pc, attempt, sent, since, tokenMu, token, tokenExpiry,
          deadline, revocations, failures, arrival>>

Control == {"idle", "token", "put", "reply", "get", "invalidate",
            "ok", "unauthorized", "error"}

Init ==
    /\ now = 0
    /\ pc = [c \in Caller |-> "idle"]
    /\ attempt = [c \in Caller |-> 1]
    /\ sent = [c \in Caller |-> 0]
    /\ since = [c \in Caller |-> 0]
    /\ tokenMu = Nobody
    /\ token = 0
    /\ tokenExpiry = 0
    /\ deadline = << >>
    /\ revocations = 0
    /\ failures = 0
    /\ arrival = [c \in Caller |-> 0]

\* The service accepts the token.
Accepted(t) == t \in DOMAIN deadline /\ now < deadline[t]

\* The client has a token it has no reason to doubt.
TokenCached == token # 0 /\ now < tokenExpiry

\* The HTTP call is within the client's timeout.
InTime(c) == now < since[c] + HTTPTimeout

----------------------------------------------------------------------------
\* get is called.
Arrive(c) ==
    /\ pc[c] = "idle"
    /\ pc' = [pc EXCEPT ![c] = "token"]
    /\ arrival' = [arrival EXCEPT ![c] = revocations]
    /\ UNCHANGED <<now, attempt, sent, since, tokenMu, token, tokenExpiry,
                   deadline, revocations, failures>>

\* sessionToken finds a cached token: lock, look and unlock are one step.
TakeCached(c) ==
    /\ pc[c] = "token"
    /\ tokenMu = Nobody
    /\ TokenCached
    /\ sent' = [sent EXCEPT ![c] = token]
    /\ since' = [since EXCEPT ![c] = now]
    /\ pc' = [pc EXCEPT ![c] = "get"]
    /\ UNCHANGED <<now, attempt, tokenMu, token, tokenExpiry, deadline,
                   revocations, failures, arrival>>

\* Mutant: the PUT is made without the mutex.
OwnerDuringPut_Released(c) == Nobody

\* sessionToken keeps the mutex while fetchTokenLocked waits for the service.
OwnerDuringPut(c) == c

StartFetch(c) ==
    /\ pc[c] = "token"
    /\ tokenMu = Nobody
    /\ ~ TokenCached
    /\ tokenMu' = OwnerDuringPut(c)
    /\ since' = [since EXCEPT ![c] = now]
    /\ pc' = [pc EXCEPT ![c] = "put"]
    /\ UNCHANGED <<now, attempt, sent, token, tokenExpiry, deadline,
                   revocations, failures, arrival>>

\* The service handles the PUT: the lifetime of the new token begins.
IssueToken(c) ==
    /\ pc[c] = "put"
    /\ InTime(c)
    /\ deadline' = Append(deadline, now + TTL)
    /\ sent' = [sent EXCEPT ![c] = Len(deadline) + 1]
    /\ pc' = [pc EXCEPT ![c] = "reply"]
    /\ UNCHANGED <<now, attempt, since, tokenMu, token, tokenExpiry,
                   revocations, failures, arrival>>

\* The answer arrives: the token is cached from now on, and used for the GET.
StoreToken(c) ==
    /\ pc[c] = "reply"
    /\ InTime(c)
    /\ token' = sent[c]
    /\ tokenExpiry' = now + TTL
    /\ tokenMu' = Nobody
    /\ since' = [since EXCEPT ![c] = now]
    /\ pc' = [pc EXCEPT ![c] = "get"]
    /\ UNCHANGED <<now, attempt, sent, deadline, revocations, failures, arrival>>

\* Mutant: the deferred Unlock is missing on the error path.
OwnerAfterFailedPut_Kept == tokenMu

OwnerAfterFailedPut == Nobody

\* The PUT is lost, refused or late.
FetchFails(c) ==
    /\ pc[c] \in {"put", "reply"}
    /\ failures < MaxFailures \/ ~ InTime(c)
    /\ failures' = IF InTime(c) THEN failures + 1 ELSE failures
    /\ tokenMu' = OwnerAfterFailedPut
    /\ pc' = [pc EXCEPT ![c] = "error"]
    /\ UNCHANGED <<now, attempt, sent, since, token, tokenExpiry, deadline,
                   revocations, arrival>>

\* The service answers the GET.
GetAccepted(c) ==
    /\ pc[c] = "get"
    /\ InTime(c)
    /\ Accepted(sent[c])
    /\ pc' = [pc EXCEPT ![c] = "ok"]
    /\ UNCHANGED <<now, attempt, sent, since, tokenMu, token, tokenExpiry,
                   deadline, revocations, failures, arrival>>

\* Mutant: every 401 is retried.
MayRetry_Always(c) == TRUE

\* The first 401 is the occasion for a new token, the second is the result.
MayRetry(c) == attempt[c] = 1

GetRefused(c) ==
    /\ pc[c] = "get"
    /\ InTime(c)
    /\ ~ Accepted(sent[c])
    /\ pc' = [pc EXCEPT ![c] = IF MayRetry(c) THEN "invalidate" ELSE "unauthorized"]
    /\ UNCHANGED <<now, attempt, sent, since, tokenMu, token, tokenExpiry,
                   deadline, revocations, failures, arrival>>

GetFails(c) ==
    /\ pc[c] = "get"
    /\ failures < MaxFailures \/ ~ InTime(c)
    /\ failures' = IF InTime(c) THEN failures + 1 ELSE failures
    /\ pc' = [pc EXCEPT ![c] = "error"]
    /\ UNCHANGED <<now, attempt, sent, since, tokenMu, token, tokenExpiry,
                   deadline, revocations, arrival>>

\* Mutant: the refused token stays in the cache.
TokenAfterRefusal_Kept == token

TokenAfterRefusal == 0

\* invalidateToken: whatever token is cached by now is dropped.
InvalidateToken(c) ==
    /\ pc[c] = "invalidate"
    /\ tokenMu = Nobody
    /\ token' = TokenAfterRefusal
    /\ tokenExpiry' = IF token' = 0 THEN 0 ELSE tokenExpiry
    /\ attempt' = [attempt EXCEPT ![c] = @ + 1]
    /\ pc' = [pc EXCEPT ![c] = "token"]
    /\ UNCHANGED <<now, sent, since, tokenMu, deadline, revocations, failures, arrival>>

----------------------------------------------------------------------------
\* The service restarts and forgets every token it issued.
Revoke ==
    /\ revocations < MaxRevocations
    /\ deadline # << >>
    /\ revocations' = revocations + 1
    /\ deadline' = [t \in DOMAIN deadline |-> 0]
    /\ UNCHANGED <<now, pc, attempt, sent, since, tokenMu, token, tokenExpiry,
                   failures, arrival>>

\* A goroutine that only has to take the mutex, or is past its timeout, moves
\* before the clock does.
Prompt(c) ==
    \/ pc[c] \in {"token", "invalidate"} /\ tokenMu = Nobody
    \/ pc[c] \in {"put", "reply", "get"} /\ ~ InTime(c)

Tick ==
    /\ now < MaxClock
    /\ \A c \in Caller : ~ Prompt(c)
    /\ now' = now + 1
    /\ UNCHANGED <<pc, attempt, sent, since, tokenMu, token, tokenExpiry,
                   deadline, revocations, failures, arrival>>

\* The statements a caller executes once it has called get.
Proceed(c) ==
    \/ TakeCached(c) \/ StartFetch(c) \/ IssueToken(c) \/ StoreToken(c) \/ FetchFails(c)
    \/ GetAccepted(c) \/ GetRefused(c) \/ GetFails(c) \/ InvalidateToken(c)

Next == Revoke \/ Tick \/ \E c \in Caller : Arrive(c) \/ Proceed(c)

\* Goroutines run, and an HTTP call ends by its timeout at the latest.  The
\* mutex is fair enough that nobody waits for ever: each caller locks it at
\* most three times.
Fairness == \A c \in Caller : WF_vars(Proceed(c))

Spec == Init /\ [][Next]_vars /\ Fairness

----------------------------------------------------------------------------
\* Everything has its type; a token the client holds was issued, and a call
\* makes at most two attempts.
TypeOK ==
    /\ now \in Nat
    /\ pc \in [Caller -> Control]
    /\ attempt \in [Caller -> 1..2]
    /\ sent \in [Caller -> 0..Len(deadline)]
    /\ since \in [Caller -> Nat]
    /\ tokenMu \in Caller \cup {Nobody}
    /\ token \in 0..Len(deadline)
    /\ tokenExpiry \in Nat
    /\ deadline \in Seq(Nat)
    /\ revocations \in Nat /\ failures \in Nat
    /\ arrival \in [Caller -> Nat]

\* "transparently re-negotiating the session token when it is expired or
\* rejected" (client.go:148-149): a caller sees a 401 only when the service
\* revoked its tokens during the call.  Expiry alone never reaches it, although
\* the client's idea of the expiry lags and other callers drop and fetch tokens,
\* provided a token outlives the two HTTP calls that fetch and use it.
RefusedOnlyIfRevoked ==
    \A c \in Caller : pc[c] = "unauthorized" => revocations > arrival[c]

Fetching(c) == pc[c] \in {"put", "reply"}

\* One token is negotiated at a time, and none while the client still has one:
\* callers that find no token do not stampede the service.
OneFetchAtATime ==
    \A c \in Caller : Fetching(c) =>
        /\ ~ TokenCached
        /\ \A d \in Caller : Fetching(d) => d = c

\* Every call comes back, though others fail while they hold the mutex.
CallReturns ==
    \A c \in Caller : pc[c] = "token" ~> pc[c] \in {"ok", "unauthorized", "error"}

----------------------------------------------------------------------------
\* The inductive invariant: the owner of tokenMu is the caller whose PUT is
\* under way, and nobody makes one while a token is cached.
MutexInv == \A c \in Caller : Fetching(c) <=> tokenMu = c

NoTokenInv == (\E c \in Caller : Fetching(c)) => ~ TokenCached

\* Only a first attempt is retried.
RetryInv == \A c \in Caller : pc[c] \in {"idle", "invalidate"} => attempt[c] = 1

IInv == TypeOK /\ RetryInv /\ MutexInv /\ NoTokenInv

\* The strengthening for RefusedOnlyIfRevoked.  A caller that once had the
\* mutex finds no PUT under way that is older than its call: the tokens it
\* meets from then on were issued during the call, and stored by the time it
\* takes one.
Entered(c) == pc[c] \notin {"idle", "token"} \/ attempt[c] = 2

Undisturbed(c) == revocations = arrival[c]

ArrivalInv == \A c \in Caller : arrival[c] <= revocations

ReplyInv ==
    \A d \in Caller : pc[d] = "reply" =>
        /\ sent[d] # 0
        /\ \A c \in Caller :
              Entered(c) /\ Undisturbed(c) => deadline[sent[d]] >= since[d] + TTL

CachedInv ==
    \A c \in Caller :
        pc[c] = "token" /\ attempt[c] = 2 /\ Undisturbed(c) /\ TokenCached =>
            deadline[token] >= now + HTTPTimeout

SentInv ==
    \A c \in Caller :
        pc[c] = "get" /\ attempt[c] = 2 /\ Undisturbed(c) =>
            sent[c] # 0 /\ deadline[sent[c]] >= since[c] + HTTPTimeout

SinceInv == \A c \in Caller : since[c] <= now

FreshInv == SinceInv /\ ArrivalInv /\ ReplyInv /\ CachedInv /\ SentInv /\ RefusedOnlyIfRevoked
=============================================================================
