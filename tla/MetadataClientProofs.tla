------------------------ MODULE MetadataClientProofs ------------------------
(***************************************************************************)
(* Proofs about MetadataClient: type correctness, that tokens are          *)
(* negotiated one at a time, and that a caller is refused only if the      *)
(* service revoked its tokens, for any number of callers and lifetimes.    *)
(***************************************************************************)
EXTENDS MetadataClient, TLAPS

\* The type invariant holds initially ...
LEMMA InitTypeOK == Init => TypeOK
  BY DEF Init, TypeOK, Control

\* ... and every step preserves it.
LEMMA NextTypeOK == TypeOK /\ RetryInv /\ [Next]_vars => TypeOK'
<1> SUFFICES ASSUME TypeOK, RetryInv, [Next]_vars PROVE TypeOK'
  OBVIOUS
<1> USE DEF TypeOK, Control
<1>1. ASSUME NEW c \in Caller, Arrive(c) PROVE TypeOK'
  BY <1>1 DEF Arrive
<1>2. ASSUME NEW c \in Caller, TakeCached(c) PROVE TypeOK'
  BY <1>2 DEF TakeCached
<1>3. ASSUME NEW c \in Caller, StartFetch(c) PROVE TypeOK'
  BY <1>3 DEF StartFetch, OwnerDuringPut
<1>4. ASSUME NEW c \in Caller, IssueToken(c) PROVE TypeOK'
  <2>1. now + TTL \in Nat
    BY TimesAssumption
  <2>2. deadline' \in Seq(Nat) /\ Len(deadline') = Len(deadline) + 1
    BY <1>4, <2>1 DEF IssueToken
  <2>3. 0..Len(deadline) \subseteq 0..Len(deadline') /\ Len(deadline) + 1 \in 0..Len(deadline')
    BY <2>2
  <2>4. sent' \in [Caller -> 0..Len(deadline')] /\ token' \in 0..Len(deadline')
    BY <1>4, <2>3 DEF IssueToken
  <2> QED
    BY <1>4, <2>2, <2>4 DEF IssueToken
<1>5. ASSUME NEW c \in Caller, StoreToken(c) PROVE TypeOK'
  BY <1>5, TimesAssumption DEF StoreToken
<1>6. ASSUME NEW c \in Caller, FetchFails(c) PROVE TypeOK'
  BY <1>6 DEF FetchFails, OwnerAfterFailedPut
<1>7. ASSUME NEW c \in Caller, GetAccepted(c) PROVE TypeOK'
  BY <1>7 DEF GetAccepted
<1>8. ASSUME NEW c \in Caller, GetRefused(c) PROVE TypeOK'
  BY <1>8 DEF GetRefused
<1>9. ASSUME NEW c \in Caller, GetFails(c) PROVE TypeOK'
  BY <1>9 DEF GetFails
<1>10. ASSUME NEW c \in Caller, InvalidateToken(c) PROVE TypeOK'
  <2>1. 0 \in 0..Len(deadline)
    OBVIOUS
  <2> QED
    BY <1>10, <2>1 DEF InvalidateToken, TokenAfterRefusal, RetryInv
<1>11. CASE Revoke
  <2>1. deadline' \in Seq(Nat) /\ Len(deadline') = Len(deadline)
    BY <1>11 DEF Revoke
  <2> QED
    BY <1>11, <2>1 DEF Revoke
<1>12. CASE Tick
  BY <1>12 DEF Tick
<1>13. CASE UNCHANGED vars
  BY <1>13 DEF vars
<1> QED
  BY <1>1, <1>2, <1>3, <1>4, <1>5, <1>6, <1>7, <1>8, <1>9, <1>10, <1>11, <1>12, <1>13
  DEF Next, Proceed

\* A caller is on its way to invalidateToken only after its first GET.
LEMMA NextRetryInv == TypeOK /\ RetryInv /\ [Next]_vars => RetryInv'
<1> SUFFICES ASSUME TypeOK, RetryInv, [Next]_vars PROVE RetryInv'
  OBVIOUS
<1> USE DEF TypeOK, RetryInv
<1>1. ASSUME NEW c \in Caller, GetRefused(c) PROVE RetryInv'
  BY <1>1 DEF GetRefused, MayRetry
<1>2. ASSUME NEW c \in Caller, InvalidateToken(c) PROVE RetryInv'
  BY <1>2 DEF InvalidateToken
<1>3. ASSUME NEW c \in Caller, Arrive(c) \/ TakeCached(c) \/ StartFetch(c) \/ IssueToken(c)
      PROVE  RetryInv'
  BY <1>3 DEF Arrive, TakeCached, StartFetch, IssueToken
<1>4. ASSUME NEW c \in Caller, StoreToken(c) \/ FetchFails(c) \/ GetAccepted(c) \/ GetFails(c)
      PROVE  RetryInv'
  BY <1>4 DEF StoreToken, FetchFails, GetAccepted, GetFails
<1>5. CASE Revoke \/ Tick \/ UNCHANGED vars
  BY <1>5 DEF Revoke, Tick, vars
<1> QED
  BY <1>1, <1>2, <1>3, <1>4, <1>5 DEF Next, Proceed

\* Only the owner of the mutex has a PUT under way: it is taken with the mutex
\* and given back with it, on the error path too.
LEMMA NextMutexInv == TypeOK /\ MutexInv /\ [Next]_vars => MutexInv'
<1> SUFFICES ASSUME TypeOK, MutexInv, [Next]_vars PROVE MutexInv'
  OBVIOUS
<1> USE NobodyAssumption DEF TypeOK, MutexInv, Fetching
<1>1. ASSUME NEW c \in Caller, StartFetch(c) PROVE MutexInv'
  BY <1>1 DEF StartFetch, OwnerDuringPut
<1>2. ASSUME NEW c \in Caller, IssueToken(c) PROVE MutexInv'
  BY <1>2 DEF IssueToken
<1>3. ASSUME NEW c \in Caller, StoreToken(c) PROVE MutexInv'
  BY <1>3 DEF StoreToken
<1>4. ASSUME NEW c \in Caller, FetchFails(c) PROVE MutexInv'
  BY <1>4 DEF FetchFails, OwnerAfterFailedPut
<1>5. ASSUME NEW c \in Caller, Arrive(c) \/ TakeCached(c) \/ InvalidateToken(c)
      PROVE  MutexInv'
  BY <1>5 DEF Arrive, TakeCached, InvalidateToken
<1>6. ASSUME NEW c \in Caller, GetAccepted(c) \/ GetRefused(c) \/ GetFails(c)
      PROVE  MutexInv'
  BY <1>6 DEF GetAccepted, GetRefused, GetFails
<1>7. CASE Revoke \/ Tick \/ UNCHANGED vars
  BY <1>7 DEF Revoke, Tick, vars
<1> QED
  BY <1>1, <1>2, <1>3, <1>4, <1>5, <1>6, <1>7 DEF Next, Proceed

\* A PUT starts only without a cached token, and a token is cached only where
\* a PUT ends.
LEMMA NextNoTokenInv == TypeOK /\ MutexInv /\ NoTokenInv /\ [Next]_vars => NoTokenInv'
<1> SUFFICES ASSUME TypeOK, MutexInv, NoTokenInv, [Next]_vars PROVE NoTokenInv'
  OBVIOUS
<1> USE NobodyAssumption DEF TypeOK, MutexInv, NoTokenInv, Fetching, TokenCached
<1>1. ASSUME NEW c \in Caller, StartFetch(c) PROVE NoTokenInv'
  BY <1>1 DEF StartFetch
<1>2. ASSUME NEW c \in Caller, IssueToken(c) PROVE NoTokenInv'
  BY <1>2 DEF IssueToken
<1>3. ASSUME NEW c \in Caller, StoreToken(c) PROVE NoTokenInv'
  BY <1>3 DEF StoreToken
<1>4. ASSUME NEW c \in Caller, FetchFails(c) PROVE NoTokenInv'
  BY <1>4 DEF FetchFails
<1>5. ASSUME NEW c \in Caller, Arrive(c) \/ TakeCached(c) \/ InvalidateToken(c)
      PROVE  NoTokenInv'
  BY <1>5 DEF Arrive, TakeCached, InvalidateToken, TokenAfterRefusal
<1>6. ASSUME NEW c \in Caller, GetAccepted(c) \/ GetRefused(c) \/ GetFails(c)
      PROVE  NoTokenInv'
  BY <1>6 DEF GetAccepted, GetRefused, GetFails
<1>7. CASE Tick
  BY <1>7 DEF Tick
<1>8. CASE Revoke \/ UNCHANGED vars
  BY <1>8 DEF Revoke, vars
<1> QED
  BY <1>1, <1>2, <1>3, <1>4, <1>5, <1>6, <1>7, <1>8 DEF Next, Proceed

\* No call began in the future, and no caller arrived after more revocations
\* than there were.
LEMMA NextPastInv ==
  TypeOK /\ SinceInv /\ ArrivalInv /\ [Next]_vars => SinceInv' /\ ArrivalInv'
<1> SUFFICES ASSUME TypeOK, SinceInv, ArrivalInv, [Next]_vars PROVE SinceInv' /\ ArrivalInv'
  OBVIOUS
<1> USE DEF TypeOK, SinceInv, ArrivalInv
<1>1. ASSUME NEW c \in Caller, Arrive(c) PROVE SinceInv' /\ ArrivalInv'
  BY <1>1 DEF Arrive
<1>2. ASSUME NEW c \in Caller, TakeCached(c) \/ StartFetch(c) \/ StoreToken(c)
      PROVE  SinceInv' /\ ArrivalInv'
  <2>1. since' = [since EXCEPT ![c] = now] /\ UNCHANGED <<now, arrival, revocations>>
    BY <1>2 DEF TakeCached, StartFetch, StoreToken
  <2>2. \A d \in Caller : since'[d] = since[d] \/ since'[d] = now
    BY <2>1
  <2> QED
    BY <2>1, <2>2
<1>3. ASSUME NEW c \in Caller, GetRefused(c) \/ InvalidateToken(c) \/ IssueToken(c)
      PROVE  SinceInv' /\ ArrivalInv'
  BY <1>3 DEF GetRefused, InvalidateToken, IssueToken
<1>4. ASSUME NEW c \in Caller, FetchFails(c) \/ GetAccepted(c) \/ GetFails(c)
      PROVE  SinceInv' /\ ArrivalInv'
  BY <1>4 DEF FetchFails, GetAccepted, GetFails
<1>5. CASE Revoke
  BY <1>5 DEF Revoke
<1>6. CASE Tick
  BY <1>6 DEF Tick
<1>7. CASE UNCHANGED vars
  BY <1>7 DEF vars
<1> QED
  BY <1>1, <1>2, <1>3, <1>4, <1>5, <1>6, <1>7 DEF Next, Proceed

\* A caller gets past the mutex only while no PUT is under way, so the answer
\* it may see pending later is to a PUT made during its call.
LEMMA NextReplyInv ==
  IInv /\ SinceInv /\ ArrivalInv /\ ReplyInv /\ [Next]_vars => ReplyInv'
<1> SUFFICES ASSUME IInv, SinceInv, ArrivalInv, ReplyInv, [Next]_vars PROVE ReplyInv'
  OBVIOUS
<1> USE NobodyAssumption, TimesAssumption DEF IInv, TypeOK, ReplyInv, Entered, Undisturbed
<1>1. ASSUME NEW c \in Caller, Arrive(c) PROVE ReplyInv'
  <2>1. pc' = [pc EXCEPT ![c] = "token"] /\ attempt[c] = 1
    BY <1>1 DEF Arrive, RetryInv
  <2>2. ~ Entered(c)' /\ UNCHANGED <<sent, since, deadline, revocations, attempt>>
    BY <1>1, <2>1 DEF Arrive
  <2>3. \A d \in Caller : d # c => pc'[d] = pc[d] /\ arrival'[d] = arrival[d]
    BY <1>1 DEF Arrive
  <2>4. \A d \in Caller : pc'[d] = "reply" => d # c
    BY <2>1
  <2>5. ASSUME NEW d \in Caller, Entered(d)', Undisturbed(d)'
        PROVE  Entered(d) /\ Undisturbed(d)
    <3>1. d # c
      BY <2>2, <2>5
    <3> QED
      BY <2>2, <2>3, <2>5, <3>1
  <2>6. ASSUME NEW d \in Caller, pc'[d] = "reply"
        PROVE  pc[d] = "reply" /\ sent'[d] = sent[d] /\ since'[d] = since[d]
    BY <2>2, <2>3, <2>4, <2>6
  <2> QED
    BY <2>2, <2>5, <2>6
<1>2. ASSUME NEW c \in Caller, TakeCached(c) \/ StartFetch(c) \/ InvalidateToken(c)
      PROVE  ReplyInv'
  <2>1. \A d \in Caller : pc'[d] # "reply"
    BY <1>2 DEF TakeCached, StartFetch, InvalidateToken, MutexInv, Fetching
  <2> QED
    BY <2>1
<1>3. ASSUME NEW c \in Caller, IssueToken(c) PROVE ReplyInv'
  <2>1. \A d \in Caller : pc'[d] = "reply" => d = c
    BY <1>3 DEF IssueToken, MutexInv, Fetching
  <2>2. sent'[c] = Len(deadline) + 1 /\ deadline' = Append(deadline, now + TTL)
    BY <1>3 DEF IssueToken
  <2>3. deadline'[sent'[c]] = now + TTL
    BY <2>2
  <2>4. since'[c] = since[c] /\ since[c] <= now /\ since[c] \in Nat
    BY <1>3 DEF IssueToken, SinceInv
  <2>5. deadline'[sent'[c]] >= since'[c] + TTL
    BY <2>3, <2>4
  <2>6. sent'[c] # 0
    BY <2>2
  <2> QED
    BY <2>1, <2>5, <2>6
<1>4. ASSUME NEW c \in Caller, StoreToken(c) PROVE ReplyInv'
  BY <1>4 DEF StoreToken, MutexInv, Fetching
<1>5. ASSUME NEW c \in Caller, FetchFails(c) PROVE ReplyInv'
  BY <1>5 DEF FetchFails
<1>6. ASSUME NEW c \in Caller, GetAccepted(c) \/ GetRefused(c) \/ GetFails(c)
      PROVE  ReplyInv'
  BY <1>6 DEF GetAccepted, GetRefused, GetFails
<1>7. CASE Revoke
  BY <1>7 DEF Revoke, ArrivalInv
<1>8. CASE Tick \/ UNCHANGED vars
  BY <1>8 DEF Tick, vars
<1> QED
  BY <1>1, <1>2, <1>3, <1>4, <1>5, <1>6, <1>7, <1>8 DEF Next, Proceed

\* The token that a PUT just brought back outlives the GET that follows: the
\* lifetimes assumed of the two services come in here, and only here.
LEMMA StoredOutlives ==
  ASSUME IInv, ReplyInv, NEW c \in Caller, StoreToken(c),
         NEW d \in Caller, Entered(d), Undisturbed(d)
  PROVE  sent[c] # 0 /\ deadline[sent[c]] >= now + HTTPTimeout
<1>1. TypeOK
  BY DEF IInv
<1>2. sent[c] # 0 /\ deadline[sent[c]] >= since[c] + TTL
  BY DEF StoreToken, ReplyInv
<1>3. sent[c] \in 0..Len(deadline) /\ deadline \in Seq(Nat)
  BY <1>1 DEF TypeOK
<1>4. sent[c] \in 1..Len(deadline)
  BY <1>2, <1>3
<1>5. deadline[sent[c]] \in Nat
  BY <1>3, <1>4
<1>6. now < since[c] + HTTPTimeout
  BY DEF StoreToken, InTime
<1>7. since[c] \in Nat /\ now \in Nat
  BY <1>1 DEF TypeOK
<1>8. now + HTTPTimeout <= since[c] + TTL
  BY <1>6, <1>7, TimesAssumption, LifetimeAssumption
<1>9. since[c] + TTL \in Nat /\ now + HTTPTimeout \in Nat
  BY <1>7, TimesAssumption
<1> QED
  BY <1>2, <1>5, <1>8, <1>9

\* A caller that comes back for its second token finds none cached, or one
\* that outlives its GET: the clock waits for it, unless a PUT is under way.
LEMMA NextCachedInv ==
  IInv /\ ArrivalInv /\ ReplyInv /\ CachedInv /\ [Next]_vars => CachedInv'
<1> SUFFICES ASSUME IInv, ArrivalInv, ReplyInv, CachedInv, [Next]_vars PROVE CachedInv'
  OBVIOUS
<1> USE TimesAssumption DEF IInv, TypeOK, CachedInv, Undisturbed, TokenCached
<1>1. ASSUME NEW c \in Caller, Arrive(c) PROVE CachedInv'
  BY <1>1 DEF Arrive, RetryInv
<1>2. ASSUME NEW c \in Caller, TakeCached(c) \/ StartFetch(c) \/ FetchFails(c)
      PROVE  CachedInv'
  BY <1>2 DEF TakeCached, StartFetch, FetchFails
<1>3. ASSUME NEW c \in Caller, IssueToken(c) PROVE CachedInv'
  <2>1. deadline' = Append(deadline, now + TTL)
    BY <1>3 DEF IssueToken
  <2>2. \A t \in 1..Len(deadline) : deadline'[t] = deadline[t]
    BY <2>1
  <2>3. token # 0 => token \in 1..Len(deadline)
    OBVIOUS
  <2> QED
    BY <1>3, <2>2, <2>3 DEF IssueToken
<1>4. ASSUME NEW c \in Caller, StoreToken(c) PROVE CachedInv'
  <2> SUFFICES ASSUME NEW d \in Caller,
                      (pc[d] = "token" /\ attempt[d] = 2 /\ Undisturbed(d) /\ TokenCached)'
               PROVE  (deadline[token] >= now + HTTPTimeout)'
    OBVIOUS
  <2>1. Entered(d) /\ Undisturbed(d)
    BY <1>4 DEF StoreToken, Entered
  <2>2. deadline[sent[c]] >= now + HTTPTimeout
    BY <1>4, <2>1, StoredOutlives
  <2> QED
    BY <1>4, <2>2 DEF StoreToken
<1>5. ASSUME NEW c \in Caller, GetAccepted(c) \/ GetRefused(c) \/ GetFails(c)
      PROVE  CachedInv'
  BY <1>5 DEF GetAccepted, GetRefused, GetFails
<1>6. ASSUME NEW c \in Caller, InvalidateToken(c) PROVE CachedInv'
  BY <1>6 DEF InvalidateToken, TokenAfterRefusal
<1>7. CASE Revoke
  BY <1>7 DEF Revoke, ArrivalInv
<1>8. CASE Tick
  <2> SUFFICES ASSUME NEW d \in Caller, pc[d] = "token", TokenCached' PROVE FALSE
    BY <1>8 DEF Tick
  <2>1. tokenMu # Nobody
    BY <1>8 DEF Tick, Prompt
  <2>2. ~ TokenCached
    BY <2>1 DEF MutexInv, NoTokenInv
  <2> QED
    BY <1>8, <2>2 DEF Tick
<1>9. CASE UNCHANGED vars
  BY <1>9 DEF vars
<1> QED
  BY <1>1, <1>2, <1>3, <1>4, <1>5, <1>6, <1>7, <1>8, <1>9 DEF Next, Proceed

\* The token of a second GET outlives it, whether it came from the cache or
\* from a PUT of the caller's own.
LEMMA NextSentInv ==
  IInv /\ ArrivalInv /\ ReplyInv /\ CachedInv /\ SentInv /\ [Next]_vars => SentInv'
<1> SUFFICES ASSUME IInv, ArrivalInv, ReplyInv, CachedInv, SentInv, [Next]_vars
             PROVE  SentInv'
  OBVIOUS
<1> USE TimesAssumption DEF IInv, TypeOK, SentInv, Undisturbed
<1>1. ASSUME NEW c \in Caller, TakeCached(c) PROVE SentInv'
  BY <1>1 DEF TakeCached, CachedInv, TokenCached
<1>2. ASSUME NEW c \in Caller, IssueToken(c) PROVE SentInv'
  <2>1. deadline' = Append(deadline, now + TTL)
    BY <1>2 DEF IssueToken
  <2>2. \A t \in 1..Len(deadline) : deadline'[t] = deadline[t]
    BY <2>1
  <2>3. \A d \in Caller : sent[d] # 0 => sent[d] \in 1..Len(deadline)
    OBVIOUS
  <2> QED
    BY <1>2, <2>2, <2>3 DEF IssueToken
<1>3. ASSUME NEW c \in Caller, StoreToken(c) PROVE SentInv'
  <2>1. Entered(c) /\ Undisturbed(c) => sent[c] # 0 /\ deadline[sent[c]] >= now + HTTPTimeout
    BY <1>3, StoredOutlives
  <2>2. Entered(c)
    BY <1>3 DEF StoreToken, Entered
  <2> QED
    BY <1>3, <2>1, <2>2 DEF StoreToken
<1>4. ASSUME NEW c \in Caller, Arrive(c) \/ StartFetch(c) \/ FetchFails(c) \/ InvalidateToken(c)
      PROVE  SentInv'
  BY <1>4 DEF Arrive, StartFetch, FetchFails, InvalidateToken
<1>5. ASSUME NEW c \in Caller, GetAccepted(c) \/ GetRefused(c) \/ GetFails(c)
      PROVE  SentInv'
  BY <1>5 DEF GetAccepted, GetRefused, GetFails
<1>6. CASE Revoke
  BY <1>6 DEF Revoke, ArrivalInv
<1>7. CASE Tick \/ UNCHANGED vars
  BY <1>7 DEF Tick, vars
<1> QED
  BY <1>1, <1>2, <1>3, <1>4, <1>5, <1>6, <1>7 DEF Next, Proceed

\* The service refuses a second GET only if it revoked its tokens meanwhile.
LEMMA NextRefused ==
  IInv /\ ArrivalInv /\ SentInv /\ RefusedOnlyIfRevoked /\ [Next]_vars => RefusedOnlyIfRevoked'
<1> SUFFICES ASSUME IInv, ArrivalInv, SentInv, RefusedOnlyIfRevoked, [Next]_vars
             PROVE  RefusedOnlyIfRevoked'
  OBVIOUS
<1> USE TimesAssumption DEF IInv, TypeOK, RefusedOnlyIfRevoked
<1>1. ASSUME NEW c \in Caller, GetRefused(c) PROVE RefusedOnlyIfRevoked'
  <2>1. CASE attempt[c] = 1
    BY <1>1, <2>1 DEF GetRefused, MayRetry
  <2>2. CASE attempt[c] = 2
    <3>1. ~ Undisturbed(c)
      <4> SUFFICES ASSUME Undisturbed(c) PROVE FALSE
        OBVIOUS
      <4>1. sent[c] # 0 /\ deadline[sent[c]] >= since[c] + HTTPTimeout
        BY <1>1, <2>2 DEF GetRefused, SentInv
      <4>2. sent[c] \in 1..Len(deadline) /\ deadline[sent[c]] \in Nat /\ since[c] \in Nat
        BY <4>1
      <4>3. now < deadline[sent[c]]
        BY <1>1, <4>1, <4>2 DEF GetRefused, InTime
      <4>4. sent[c] \in DOMAIN deadline
        BY <4>2
      <4> QED
        BY <1>1, <4>3, <4>4 DEF GetRefused, Accepted
    <3>2. revocations > arrival[c]
      BY <3>1 DEF Undisturbed, ArrivalInv
    <3> QED
      BY <1>1, <3>2 DEF GetRefused
  <2> QED
    BY <2>1, <2>2
<1>2. ASSUME NEW c \in Caller, Arrive(c) \/ TakeCached(c) \/ StartFetch(c) \/ IssueToken(c)
      PROVE  RefusedOnlyIfRevoked'
  BY <1>2 DEF Arrive, TakeCached, StartFetch, IssueToken
<1>3. ASSUME NEW c \in Caller, StoreToken(c) \/ FetchFails(c) \/ GetAccepted(c) \/ GetFails(c)
      PROVE  RefusedOnlyIfRevoked'
  BY <1>3 DEF StoreToken, FetchFails, GetAccepted, GetFails
<1>4. ASSUME NEW c \in Caller, InvalidateToken(c) PROVE RefusedOnlyIfRevoked'
  BY <1>4 DEF InvalidateToken
<1>5. CASE Revoke \/ Tick \/ UNCHANGED vars
  BY <1>5 DEF Revoke, Tick, vars
<1> QED
  BY <1>1, <1>2, <1>3, <1>4, <1>5 DEF Next, Proceed

\* The inductive invariant holds of every behaviour.
THEOREM Invariance == Spec => []IInv
<1>1. Init => IInv
  BY InitTypeOK, NobodyAssumption
  DEF Init, IInv, RetryInv, MutexInv, NoTokenInv, Fetching
<1>2. IInv /\ [Next]_vars => IInv'
  BY NextTypeOK, NextRetryInv, NextMutexInv, NextNoTokenInv DEF IInv
<1> QED
  BY <1>1, <1>2, PTL DEF Spec

\* Every variable keeps its type, and the client holds only issued tokens.
THEOREM TypeCorrect == Spec => []TypeOK
<1>1. IInv => TypeOK
  BY DEF IInv
<1> QED
  BY <1>1, Invariance, PTL

\* Callers never stampede the metadata service: one PUT at a time, and none
\* while a token is cached (sessionToken, client.go:195-203).
THEOREM SingleFetch == Spec => []OneFetchAtATime
<1>1. IInv => OneFetchAtATime
  BY DEF IInv, MutexInv, NoTokenInv, OneFetchAtATime
<1> QED
  BY <1>1, Invariance, PTL

\* A caller sees a 401 only when the service revoked its tokens during the call
\* ("transparently re-negotiating", client.go:148-149): expiry alone, the
\* client's idea of it and the other callers' fetches never reach it.
THEOREM RefusalMeansRevocation == Spec => []RefusedOnlyIfRevoked
<1>1. Init => FreshInv
  BY DEF Init, FreshInv, SinceInv, ArrivalInv, ReplyInv, CachedInv, SentInv, RefusedOnlyIfRevoked
<1>2. IInv /\ FreshInv /\ [Next]_vars => FreshInv'
  <2>1. IInv => TypeOK
    BY DEF IInv
  <2> QED
    BY <2>1, NextPastInv, NextReplyInv, NextCachedInv, NextSentInv, NextRefused DEF FreshInv
<1>3. FreshInv => RefusedOnlyIfRevoked
  BY DEF FreshInv
<1> QED
  BY <1>1, <1>2, <1>3, Invariance, PTL DEF Spec
=============================================================================
