------------------------ MODULE ProxyReputationProofs ------------------------
(*************************************************************************)
(* What get_proxy_result caches and answers is what the provider said,   *)
(* and no older than the time to live, for any number of calls and       *)
(* addresses, any time to live and any clock.                            *)
(*************************************************************************)
EXTENDS ProxyReputation, TLAPS

---------------------------------------------------------------------------
(* The inductive invariant: what a call knows, and since when it was true. *)

\* The history of opinions is up to date.
OpinionsCurrent == \A ip \in Ips : <<now, opinion[ip]>> \in opinions[ip]

\* A call looked at the clock before now, and what it is about to write was
\* held after it looked.
AnswersHeld ==
  \A r \in Requests :
    /\ call[r].checked_at <= now
    /\ pc[r] = "writing" =>
         /\ call[r].fact # "unknown"
         /\ HeldSince(call[r].ip, call[r].fact, call[r].checked_at)

FreshInv == TypeOK /\ OpinionsCurrent /\ AnswersHeld /\ EntriesAreAnswers /\ AnswersAreFresh

---------------------------------------------------------------------------
\* What was held since a time was held since any earlier one.
LEMMA HeldEarlier ==
  ASSUME NEW ip, NEW fact, NEW t \in Int, NEW s \in Int, s <= t, HeldSince(ip, fact, t)
  PROVE  HeldSince(ip, fact, s)
BY ReputationAssumption DEF HeldSince, Times

\* The history only grows, so what was held remains so.
LEMMA HeldForEver ==
  ASSUME NEW ip \in Ips, NEW fact, NEW t \in Int,
         opinions[ip] \subseteq opinions'[ip], HeldSince(ip, fact, t)
  PROVE  HeldSince(ip, fact, t)'
BY DEF HeldSince

\* No step forgets what a provider has said (opinions).
LEMMA HistoryGrows ==
  ASSUME TypeOK, [Next]_vars
  PROVE  \A ip \in Ips : opinions[ip] \subseteq opinions'[ip]
BY DEF TypeOK, Next, vars, Tick, ChangeOpinion, Ask, Step, CacheHit, CacheMiss,
       ProviderAnswers, ProviderFails, WriteCache, WriteFails

---------------------------------------------------------------------------
LEMMA InitFresh == Init => FreshInv
<1> SUFFICES ASSUME Init PROVE FreshInv
  OBVIOUS
<1> USE ReputationAssumption
<1>1. TypeOK
  <2>1. opinions \in [Ips -> SUBSET (Times \X Facts)]
    BY DEF Init, Times, Facts
  <2>2. call \in [Requests -> Call]
    BY DEF Init, Call, Times, Facts
  <2> QED
    BY <2>1, <2>2 DEF Init, TypeOK, Times, Steps
<1>2. OpinionsCurrent /\ AnswersHeld /\ EntriesAreAnswers /\ AnswersAreFresh
  BY DEF Init, OpinionsCurrent, AnswersHeld, EntriesAreAnswers, AnswersAreFresh
<1> QED
  BY <1>1, <1>2 DEF FreshInv

\* Times and facts stay in their ranges; an entry expires within the bound.
LEMMA StepTypes == TypeOK /\ AnswersHeld /\ [Next]_vars => TypeOK'
<1> SUFFICES ASSUME TypeOK, AnswersHeld, [Next]_vars PROVE TypeOK'
  OBVIOUS
<1> USE ReputationAssumption
<1>1. CASE Tick
  <2>1. now + 1 \in Times /\ now + 1 \in Nat
    BY <1>1 DEF TypeOK, Tick, Times
  <2>2. ASSUME NEW ip \in Ips
        PROVE  opinions[ip] \cup {<<now + 1, opinion[ip]>>} \in SUBSET (Times \X Facts)
    BY <2>1 DEF TypeOK
  <2> QED
    BY <1>1, <2>1, <2>2 DEF TypeOK, Tick
<1>2. CASE \E ip \in Ips : ChangeOpinion(ip)
  <2> PICK ip \in Ips : ChangeOpinion(ip)
    BY <1>2
  <2> PICK fact \in Facts :
        /\ opinion' = [opinion EXCEPT ![ip] = fact]
        /\ opinions' = [opinions EXCEPT ![ip] = @ \cup {<<now, fact>>}]
    BY DEF ChangeOpinion
  <2>1. opinions[ip] \cup {<<now, fact>>} \in SUBSET (Times \X Facts)
    BY DEF TypeOK
  <2> QED
    BY <2>1 DEF TypeOK, ChangeOpinion
<1>3. ASSUME NEW r \in Requests, Ask(r) PROVE TypeOK'
  BY <1>3 DEF TypeOK, Ask, Goto, Call, Steps, Times
<1>4. ASSUME NEW r \in Requests, Step(r) PROVE TypeOK'
  <2> call[r] \in Call /\ call[r].ip \in Ips /\ call[r].checked_at \in Times
    BY DEF TypeOK, Call
  <2>1. CASE CacheHit(r)
    <3>1. cache[call[r].ip].fact \in Facts
      BY <2>1 DEF TypeOK, CacheHit, Cached, Reputation
    <3> QED
      BY <2>1, <3>1 DEF TypeOK, CacheHit, Answer, Goto, Call, Steps
  <2>2. CASE CacheMiss(r)
    BY <2>2 DEF TypeOK, CacheMiss, Goto, Steps
  <2>3. CASE ProviderAnswers(r)
    BY <2>3 DEF TypeOK, ProviderAnswers, Goto, Call, Steps
  <2>4. CASE ProviderFails(r)
    BY <2>4 DEF TypeOK, ProviderFails, Answer, Goto, Call, Steps
  <2>5. CASE WriteCache(r)
    <3>1. call[r].fact \in Facts /\ call[r].checked_at + Ttl \in 0..(MaxTime + Ttl) =>
            Entry(r) \in Reputation
      BY DEF Entry, Reputation, Times
    <3>2. call[r].fact \in Facts
      BY <2>5 DEF WriteCache, AnswersHeld, TypeOK, Call
    <3>3. call[r].checked_at + Ttl \in 0..(MaxTime + Ttl)
      BY DEF Times
    <3> QED
      BY <2>5, <3>1, <3>2, <3>3 DEF TypeOK, WriteCache, Goto, Steps
  <2>6. CASE WriteFails(r)
    BY <2>6 DEF TypeOK, WriteFails, Goto, Steps
  <2> QED
    BY <1>4, <2>1, <2>2, <2>3, <2>4, <2>5, <2>6 DEF Step
<1> QED
  BY <1>1, <1>2, <1>3, <1>4 DEF Next, vars, TypeOK

---------------------------------------------------------------------------
\* What is said of the calls and the table still holds when only the history
\* of opinions and the clock move on.
LEMMA MovingOn ==
  ASSUME TypeOK, AnswersHeld, EntriesAreAnswers, AnswersAreFresh, now' \in Times,
         now <= now', UNCHANGED <<cache, pc, call>>,
         \A ip \in Ips : opinions[ip] \subseteq opinions'[ip]
  PROVE  AnswersHeld' /\ EntriesAreAnswers' /\ AnswersAreFresh'
<1> USE ReputationAssumption
<1> call \in [Requests -> Call] /\ cache \in [Ips -> Reputation \cup {NoRow}]
  BY DEF TypeOK
<1>1. AnswersHeld'
  <2> SUFFICES ASSUME NEW r \in Requests
               PROVE  /\ call[r].checked_at <= now'
                      /\ pc[r] = "writing" =>
                           /\ call[r].fact # "unknown"
                           /\ HeldSince(call[r].ip, call[r].fact, call[r].checked_at)'
    BY DEF AnswersHeld
  <2> call[r].ip \in Ips /\ call[r].checked_at \in Times
    BY DEF Call
  <2>1. call[r].checked_at <= now'
    BY DEF AnswersHeld, TypeOK, Times
  <2>2. ASSUME pc[r] = "writing"
        PROVE  /\ call[r].fact # "unknown"
               /\ HeldSince(call[r].ip, call[r].fact, call[r].checked_at)'
    BY <2>2 DEF AnswersHeld, HeldSince
  <2> QED
    BY <2>1, <2>2
<1>2. EntriesAreAnswers'
  BY DEF EntriesAreAnswers, HeldSince
<1>3. AnswersAreFresh'
  <2> SUFFICES ASSUME NEW r \in Requests, pc[r] = "answered", call[r].fact # "unknown"
               PROVE  HeldSince(call[r].ip, call[r].fact, call[r].checked_at - Ttl + 1)'
    BY DEF AnswersAreFresh
  <2> call[r].ip \in Ips
    BY DEF Call
  <2> QED
    BY DEF AnswersAreFresh, HeldSince
<1> QED
  BY <1>1, <1>2, <1>3

\* Steps of one call leave what is said of the others alone.
LEMMA OneCallMoves ==
  ASSUME TypeOK, AnswersHeld, AnswersAreFresh, NEW r \in Requests,
         UNCHANGED <<now, opinions>>,
         \A q \in Requests \ {r} : pc'[q] = pc[q] /\ call'[q] = call[q],
         call'[r].checked_at <= now,
         pc'[r] = "writing" =>
           /\ call'[r].fact # "unknown"
           /\ HeldSince(call'[r].ip, call'[r].fact, call'[r].checked_at),
         pc'[r] = "answered" /\ call'[r].fact # "unknown" =>
           HeldSince(call'[r].ip, call'[r].fact, call'[r].checked_at - Ttl + 1)
  PROVE  AnswersHeld' /\ AnswersAreFresh'
<1>1. AnswersHeld'
  BY DEF AnswersHeld, HeldSince
<1>2. AnswersAreFresh'
  BY DEF AnswersAreFresh, HeldSince
<1> QED
  BY <1>1, <1>2

\* One case for each action of a call, none of which moves clock or history.
LEMMA StepKeeps ==
  ASSUME FreshInv, NEW r \in Requests, Ask(r) \/ Step(r)
  PROVE  OpinionsCurrent' /\ AnswersHeld' /\ EntriesAreAnswers' /\ AnswersAreFresh'
<1> USE ReputationAssumption DEF FreshInv
<1> call[r] \in Call /\ call[r].ip \in Ips /\ call[r].checked_at \in Int
  BY DEF TypeOK, Call, Times
<1> call[r].checked_at <= now /\ now \in Int
  BY DEF AnswersHeld, TypeOK, Times
<1> DEFINE ip == call[r].ip
           at == call[r].checked_at
<1>1. OpinionsCurrent'
  BY DEF OpinionsCurrent, Ask, Step, CacheHit, CacheMiss, ProviderAnswers,
         ProviderFails, WriteCache, WriteFails
<1>2. CASE Ask(r)
  <2>1. AnswersHeld' /\ AnswersAreFresh'
    BY <1>2, OneCallMoves DEF TypeOK, Ask, Goto
  <2> QED
    BY <1>1, <1>2, <2>1 DEF Ask, EntriesAreAnswers, HeldSince
<1>3. CASE CacheHit(r)
  <2>1. cache[ip] \in Reputation /\ cache[ip].expires_at \in Int /\ cache[ip].expires_at > at
    BY <1>3 DEF TypeOK, CacheHit, Cached, Reputation
  <2>2. HeldSince(ip, cache[ip].fact, cache[ip].expires_at - Ttl)
    BY <1>3 DEF CacheHit, Cached, EntriesAreAnswers
  <2>3. HeldSince(ip, cache[ip].fact, at - Ttl + 1)
    BY <2>1, <2>2, HeldEarlier
  <2>4. /\ call' = [call EXCEPT ![r].fact = cache[ip].fact, ![r].source = "cache"]
        /\ pc' = [pc EXCEPT ![r] = "answered"]
    BY <1>3 DEF CacheHit, Answer, Goto
  <2>5. AnswersHeld' /\ AnswersAreFresh'
    BY <1>3, <2>3, <2>4, OneCallMoves DEF TypeOK, Call, CacheHit
  <2> QED
    BY <1>1, <1>3, <2>5 DEF CacheHit, EntriesAreAnswers, HeldSince
<1>4. CASE CacheMiss(r)
  <2>1. AnswersHeld' /\ AnswersAreFresh'
    BY <1>4, OneCallMoves DEF TypeOK, CacheMiss, Goto
  <2> QED
    BY <1>1, <1>4, <2>1 DEF CacheMiss, EntriesAreAnswers, HeldSince
<1>5. CASE ProviderAnswers(r)
  <2>1. HeldSince(ip, opinion[ip], at)
    BY DEF OpinionsCurrent, HeldSince, TypeOK
  <2>2. opinion[ip] # "unknown"
    BY DEF TypeOK, Facts
  <2>3. /\ call' = [call EXCEPT ![r].fact = opinion[ip], ![r].source = "maxmind"]
        /\ pc' = [pc EXCEPT ![r] = "writing"]
    BY <1>5 DEF ProviderAnswers, Goto
  <2>4. AnswersHeld' /\ AnswersAreFresh'
    BY <1>5, <2>1, <2>2, <2>3, OneCallMoves DEF TypeOK, Call, ProviderAnswers
  <2> QED
    BY <1>1, <1>5, <2>4 DEF ProviderAnswers, EntriesAreAnswers, HeldSince
<1>6. CASE ProviderFails(r)
  <2>1. AnswersHeld' /\ AnswersAreFresh'
    BY <1>6, OneCallMoves DEF TypeOK, Call, ProviderFails, Answer, Goto
  <2> QED
    BY <1>1, <1>6, <2>1 DEF ProviderFails, EntriesAreAnswers, HeldSince
<1>7. CASE WriteCache(r) \/ WriteFails(r)
  <2>1. call[r].fact # "unknown" /\ HeldSince(ip, call[r].fact, at)
    BY <1>7 DEF AnswersHeld, WriteCache, WriteFails
  <2>2. HeldSince(ip, call[r].fact, at - Ttl + 1)
    BY <2>1, HeldEarlier
  <2>3. AnswersHeld' /\ AnswersAreFresh'
    BY <1>7, <2>2, OneCallMoves DEF TypeOK, WriteCache, WriteFails, Goto
  <2>4. CASE WriteCache(r)
    <3>1. cache' = [cache EXCEPT ![ip] = Entry(r)]
      BY <2>4 DEF WriteCache
    <3>2. Entry(r).fact = call[r].fact /\ Entry(r).expires_at - Ttl = at
      BY DEF Entry
    <3>3. EntriesAreAnswers'
      BY <2>1, <2>4, <3>1, <3>2 DEF EntriesAreAnswers, HeldSince, WriteCache, TypeOK
    <3> QED
      BY <1>1, <2>3, <3>3
  <2> QED
    BY <1>1, <1>7, <2>3, <2>4 DEF WriteFails, EntriesAreAnswers, HeldSince
<1> QED
  BY <1>2, <1>3, <1>4, <1>5, <1>6, <1>7 DEF Step

LEMMA StepFresh == FreshInv /\ [Next]_vars => FreshInv'
<1> SUFFICES ASSUME FreshInv, [Next]_vars PROVE FreshInv'
  OBVIOUS
<1>1. TypeOK'
  BY StepTypes DEF FreshInv
<1>2. \A ip \in Ips : opinions[ip] \subseteq opinions'[ip]
  BY HistoryGrows DEF FreshInv
<1>3. CASE Tick
  <2>1. OpinionsCurrent'
    BY <1>3 DEF Tick, OpinionsCurrent, FreshInv, TypeOK
  <2> QED
    BY <1>1, <1>2, <1>3, <2>1, MovingOn DEF Tick, FreshInv, TypeOK, Times
<1>4. CASE \E ip \in Ips : ChangeOpinion(ip)
  <2>1. OpinionsCurrent'
    BY <1>4 DEF ChangeOpinion, OpinionsCurrent, FreshInv, TypeOK
  <2> QED
    BY <1>1, <1>2, <1>4, <2>1, MovingOn DEF ChangeOpinion, FreshInv, TypeOK, Times
<1>5. CASE \E r \in Requests : Ask(r) \/ Step(r)
  BY <1>1, <1>5, StepKeeps DEF FreshInv
<1>6. CASE UNCHANGED vars
  BY <1>1, <1>6 DEF FreshInv, vars, OpinionsCurrent, AnswersHeld, EntriesAreAnswers,
                    AnswersAreFresh, HeldSince
<1> QED
  BY <1>3, <1>4, <1>5, <1>6 DEF Next

LEMMA FreshAlways == Spec => []FreshInv
BY InitFresh, StepFresh, PTL DEF Spec

\* Type correctness of the cache, its calls and their histories (TypeOK).
THEOREM TypeCorrectness == Spec => []TypeOK
<1>1. FreshInv => TypeOK
  BY DEF FreshInv
<1> QED
  BY FreshAlways, <1>1, PTL

\* get_proxy_result never caches a failure, and no entry outlives, by more than
\* the time to live, the moment the provider held it.
THEOREM EntriesAreTrue == Spec => []EntriesAreAnswers
<1>1. FreshInv => EntriesAreAnswers
  BY DEF FreshInv
<1> QED
  BY FreshAlways, <1>1, PTL

\* get_proxy_result never answers what the provider ceased to hold a time to live
\* before the call, although a slow call may overwrite a newer entry.
THEOREM AnswersStayFresh == Spec => []AnswersAreFresh
<1>1. FreshInv => AnswersAreFresh
  BY DEF FreshInv
<1> QED
  BY FreshAlways, <1>1, PTL

===========================================================================
