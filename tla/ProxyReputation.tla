-------------------------- MODULE ProxyReputation --------------------------
(*************************************************************************)
(* get_proxy_result of app/services/proxy.py as the redirect calls it:   *)
(* the table ip_reputation caches what a paid provider says of an        *)
(* address, for a while.  Calls overlap, the provider changes its mind,  *)
(* is slow or fails, and so may the reads and writes of the table.       *)
(*************************************************************************)
EXTENDS Integers

CONSTANTS
  Ips,
  Requests,  \* the calls of one behaviour
  Ttl,       \* ip_reputation_ttl_hours
  MaxTime,   \* bound of the clock
  NoRow

ASSUME ReputationAssumption ==
  /\ Ttl \in Nat \ {0}
  /\ MaxTime \in Nat
  /\ NoRow \notin [fact : {"proxy", "clean"}, checked_at : 0..MaxTime,
                   expires_at : 0..(MaxTime + Ttl)]

Facts == {"proxy", "clean"}
Times == 0..MaxTime
Reputation == [fact : Facts, checked_at : Times, expires_at : 0..(MaxTime + Ttl)]

VARIABLES
  now,
  opinions,  \* what the provider held of an address, and when
  opinion,   \* what it holds
  cache,     \* ip_reputation
  pc,
  call       \* address and time of a call, and what it knows

vars == <<now, opinions, opinion, cache, pc, call>>

Steps == {"idle", "reading", "asking", "writing", "answered"}
Call == [ip : Ips, checked_at : Times, fact : Facts \cup {"unknown"},
         source : {"none", "cache", "maxmind"}]

TypeOK ==
  /\ now \in Times
  /\ opinions \in [Ips -> SUBSET (Times \X Facts)]
  /\ opinion \in [Ips -> Facts]
  /\ cache \in [Ips -> Reputation \cup {NoRow}]
  /\ pc \in [Requests -> Steps]
  /\ call \in [Requests -> Call]

Init ==
  /\ now = 0
  /\ opinion \in [Ips -> Facts]
  /\ opinions = [ip \in Ips |-> {<<0, opinion[ip]>>}]
  /\ cache = [ip \in Ips |-> NoRow]
  /\ pc = [r \in Requests |-> "idle"]
  /\ \E ip \in Ips :
       call = [r \in Requests |-> [ip |-> ip, checked_at |-> 0,
                                   fact |-> "unknown", source |-> "none"]]

---------------------------------------------------------------------------
Tick ==
  /\ now < MaxTime
  /\ now' = now + 1
  /\ opinions' = [ip \in Ips |-> opinions[ip] \cup {<<now + 1, opinion[ip]>>}]
  /\ UNCHANGED <<opinion, cache, pc, call>>

\* The provider learns something about an address.
ChangeOpinion(ip) ==
  /\ \E fact \in Facts \ {opinion[ip]} :
       /\ opinion' = [opinion EXCEPT ![ip] = fact]
       /\ opinions' = [opinions EXCEPT ![ip] = @ \cup {<<now, fact>>}]
  /\ UNCHANGED <<now, cache, pc, call>>

---------------------------------------------------------------------------
Goto(r, step) == pc' = [pc EXCEPT ![r] = step]

Answer(r, fact, source) ==
  /\ call' = [call EXCEPT ![r].fact = fact, ![r].source = source]
  /\ Goto(r, "answered")

\* The clock is read once, before anything else.  (A call that was answered
\* makes room for the next.)
Ask(r) ==
  /\ pc[r] \in {"idle", "answered"}
  /\ \E ip \in Ips :
       call' = [call EXCEPT ![r] = [ip |-> ip, checked_at |-> now,
                                    fact |-> "unknown", source |-> "none"]]
  /\ Goto(r, "reading")
  /\ UNCHANGED <<now, opinions, opinion, cache>>

\* The row the cache query finds.
Cached(r) ==
  LET row == cache[call[r].ip] IN
    row # NoRow /\ row.expires_at > call[r].checked_at

CacheHit(r) ==
  /\ pc[r] = "reading"
  /\ Cached(r)
  /\ Answer(r, cache[call[r].ip].fact, "cache")
  /\ UNCHANGED <<now, opinions, opinion, cache>>

\* Faulty variant: a row that has expired is no miss.
CacheMissAbsent(r) ==
  /\ pc[r] = "reading"
  /\ cache[call[r].ip] = NoRow
  /\ Goto(r, "asking")
  /\ UNCHANGED <<now, opinions, opinion, cache, call>>

\* No row, or the read failed.
CacheMiss(r) ==
  /\ pc[r] = "reading"
  /\ Goto(r, "asking")
  /\ UNCHANGED <<now, opinions, opinion, cache, call>>

ProviderAnswers(r) ==
  /\ pc[r] = "asking"
  /\ call' = [call EXCEPT ![r].fact = opinion[call[r].ip], ![r].source = "maxmind"]
  /\ Goto(r, "writing")
  /\ UNCHANGED <<now, opinions, opinion, cache>>

\* Faulty variant: an address nobody could say anything about is clean.
FailureIsClean(r) ==
  /\ pc[r] = "asking"
  /\ call' = [call EXCEPT ![r].fact = "clean", ![r].source = "maxmind"]
  /\ Goto(r, "writing")
  /\ UNCHANGED <<now, opinions, opinion, cache>>

\* A timeout, an error, or a response without the fact.
ProviderFails(r) ==
  /\ pc[r] = "asking"
  /\ Answer(r, "unknown", "none")
  /\ UNCHANGED <<now, opinions, opinion, cache>>

\* Faulty variant: an entry lasts from when it is written.
EntryFromNow(r) ==
  [fact |-> call[r].fact, checked_at |-> call[r].checked_at, expires_at |-> now + Ttl]

\* reputation_values
Entry(r) ==
  [fact |-> call[r].fact, checked_at |-> call[r].checked_at,
   expires_at |-> call[r].checked_at + Ttl]

\* The upsert replaces whatever row there is by now.
WriteCache(r) ==
  /\ pc[r] = "writing"
  /\ cache' = [cache EXCEPT ![call[r].ip] = Entry(r)]
  /\ Goto(r, "answered")
  /\ UNCHANGED <<now, opinions, opinion, call>>

WriteFails(r) ==
  /\ pc[r] = "writing"
  /\ Goto(r, "answered")
  /\ UNCHANGED <<now, opinions, opinion, cache, call>>

Step(r) ==
  \/ CacheHit(r) \/ CacheMiss(r) \/ ProviderAnswers(r) \/ ProviderFails(r)
  \/ WriteCache(r) \/ WriteFails(r)

Next ==
  \/ Tick
  \/ \E ip \in Ips : ChangeOpinion(ip)
  \/ \E r \in Requests : Ask(r) \/ Step(r)

Spec == Init /\ [][Next]_vars

FairSpec == Spec /\ \A r \in Requests : WF_vars(Step(r))

---------------------------------------------------------------------------
\* The provider held this of the address at some time from a time on.
HeldSince(ip, fact, time) == \E t \in Times : t >= time /\ <<t, fact>> \in opinions[ip]

\* What is cached is what the provider said, never a failure, and it expires
\* no later than Ttl after the last moment the provider held it, however late and
\* in whatever order entries were written.
EntriesAreAnswers ==
  \A ip \in Ips : cache[ip] # NoRow =>
    HeldSince(ip, cache[ip].fact, cache[ip].expires_at - Ttl)

\* Who is told that an address is a proxy, or is not, is told what the provider
\* held less than Ttl before the call, or later.
AnswersAreFresh ==
  \A r \in Requests : pc[r] = "answered" /\ call[r].fact # "unknown" =>
    HeldSince(call[r].ip, call[r].fact, call[r].checked_at - Ttl + 1)

\* A lookup ends, whatever the provider and the table do.
EveryLookupAnswered == \A r \in Requests : pc[r] = "reading" ~> pc[r] = "answered"

===========================================================================
