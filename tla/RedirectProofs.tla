--------------------------- MODULE RedirectProofs ---------------------------
(*************************************************************************)
(* Theorems about Redirect, for any links, rules, visitors and number of *)
(* calls: why a visitor is turned away, when an address is looked up,    *)
(* where visitors go, and what the log says of it for ever.              *)
(*************************************************************************)
EXTENDS Redirect, TLAPS

AfterLink == {"targets", "policy", "blacklist", "deciding", "choosing", "logging",
              "redirected", "unavailable"}
AfterTargets == AfterLink \ {"targets"}
AfterChoice == {"logging", "redirected", "unavailable"}

\* What a call carries at each step.
Carries(r) ==
  /\ pc[r] # "idle" => visit[r] \in Visit
  /\ pc[r] \in AfterLink => visit[r].link \in Links /\ visit[r].note \in Notes
  /\ pc[r] \notin AfterChoice \cup {"idle"} => visit[r].target = Unknown
  /\ pc[r] \in {"host", "link", "targets"} => visit[r].targets = {}
  /\ pc[r] # "idle" /\ ~Decided(r) => ~visit[r].asked /\ visit[r].fact = "unknown"

\* The decision is the one that the facts in hand call for.
Judged(r) ==
  Decided(r) => /\ visit[r].reason = Reason(r, visit[r].fact)
                /\ visit[r].asked <=> Wanted(r)

\* The destination is one of those that may be chosen.
Chosen(r) ==
  /\ pc[r] \in AfterChoice =>
       IF visit[r].target = Unknown THEN Choices(r) = {} ELSE visit[r].target \in Choices(r)
  /\ pc[r] = "redirected" => visit[r].target # Unknown
  /\ pc[r] = "unavailable" => visit[r].target = Unknown

\* What the statements that read a link saw either is still there or is gone,
\* although they saw it at different times.
Knows(r) ==
  pc[r] \in AfterLink =>
    /\ ~Exists(visit[r].link) => visit[r].link \in gone
    /\ \A t \in visit[r].targets : t.id \in Present \cup gone
    /\ (\E c \in Contents : c.note = visit[r].note) =>
         /\ link[visit[r].link] \in Contents \cup {Unknown}
         /\ pc[r] \in AfterTargets =>
              visit[r].link \in gone \/ Usable(visit[r].targets, "allowed") # {}

VisitInv(r) == Carries(r) /\ Judged(r) /\ Chosen(r) /\ Knows(r)

\* The row of r in the log, as long as nothing it refers to is deleted.
Remembered(r) ==
  [Snapshot(r) EXCEPT !.link = IF @ \in gone THEN Unknown ELSE @,
                      !.target = IF @ \in gone THEN Unknown ELSE @]

LoggedTruly(r) ==
  /\ logs[r] # Unknown => Served(r) /\ logs[r] = Remembered(r)
  /\ Served(r) /\ logs[r] = Unknown =>
       \/ visit[r].failed
       \/ visit[r].link \in gone
       \/ visit[r].target # Unknown /\ visit[r].target.id \in gone

\* Identifiers are not used again, and a destination is of one link.
RowsInv ==
  /\ \A l \in Links : Exists(l) => l \notin gone
  /\ \A l \in Links : Ids(Row(l)) \cap gone = {}
  /\ \A l, m \in Links : l # m => Ids(Row(l)) \cap Ids(Row(m)) = {}

RedirectInv ==
  /\ TypeOK
  /\ RowsInv
  /\ \A r \in Requests : VisitInv(r) /\ LoggedTruly(r)

---------------------------------------------------------------------------
(* The decision.                                                           *)

\* evaluate_access names the first of the reasons against a visitor.
LEMMA FirstReason ==
  ASSUME NEW v, v.reason = evaluate_access(v.policy, v.visitor, v.listed, v.fact)
  PROVE  IF v.reason = "none" THEN Against(v) = {}
         ELSE \E i \in 1..6 :
                /\ v.reason = Precedence[i]
                /\ Precedence[i] \in Against(v)
                /\ \A j \in 1..(i - 1) : Precedence[j] \notin Against(v)
<1> DEFINE bot == v.policy.block_bot /\ IsBot(v.visitor)
           proxy == v.policy.block_proxy /\ (IsBot(v.visitor) \/ v.fact = "proxy")
           country == Excludes(v.policy.country_mode, v.visitor.country \in v.policy.countries)
           platform == Excludes(v.policy.platform_mode, v.visitor.platform \in v.policy.platforms)
           referer == Excludes(v.policy.referer_mode,
                               RefererMatches(v.visitor.referer, v.policy.patterns))
<1>1. v.reason = IF v.listed THEN "ip" ELSE IF bot THEN "bot" ELSE IF proxy THEN "proxy"
                 ELSE IF country THEN "country" ELSE IF platform THEN "platform"
                 ELSE IF referer THEN "referer" ELSE "none"
  BY DEF evaluate_access, ProxyBlocked
<1>2. Against(v) = {reason \in Reasons :
        \/ reason = "ip" /\ v.listed
        \/ reason = "bot" /\ bot
        \/ reason = "proxy" /\ proxy
        \/ reason = "country" /\ country
        \/ reason = "platform" /\ platform
        \/ reason = "referer" /\ referer}
  BY DEF Against
<1> HIDE DEF bot, proxy, country, platform, referer
<1>3. /\ Precedence[1] = "ip" /\ Precedence[2] = "bot" /\ Precedence[3] = "proxy"
      /\ Precedence[4] = "country" /\ Precedence[5] = "platform" /\ Precedence[6] = "referer"
  BY DEF Precedence
<1>4. /\ "ip" \in Against(v) <=> v.listed
      /\ "bot" \in Against(v) <=> bot
      /\ "proxy" \in Against(v) <=> proxy
      /\ "country" \in Against(v) <=> country
      /\ "platform" \in Against(v) <=> platform
      /\ "referer" \in Against(v) <=> referer
  BY <1>2 DEF Reasons
<1> DEFINE FirstIs(i) ==
             /\ v.reason = Precedence[i]
             /\ Precedence[i] \in Against(v)
             /\ \A j \in 1..(i - 1) : Precedence[j] \notin Against(v)
<1>5. CASE v.reason = "none"
  <2>1. Against(v) = {}  BY <1>1, <1>2, <1>5
  <2> QED  BY <1>5, <2>1
<1>6. CASE v.reason # "none"
  <2>1. /\ \A j \in 1..(1 - 1) : FALSE
        /\ \A j \in 1..(2 - 1) : j = 1
        /\ \A j \in 1..(3 - 1) : j \in {1, 2}
        /\ \A j \in 1..(4 - 1) : j \in {1, 2, 3}
        /\ \A j \in 1..(5 - 1) : j \in {1, 2, 3, 4}
        /\ \A j \in 1..(6 - 1) : j \in {1, 2, 3, 4, 5}
    OBVIOUS
  <2>2. v.reason = "ip" => FirstIs(1)  BY <1>1, <1>3, <1>4, <2>1
  <2>3. v.reason = "bot" => FirstIs(2)  BY <1>1, <1>3, <1>4, <2>1
  <2>4. v.reason = "proxy" => FirstIs(3)  BY <1>1, <1>3, <1>4, <2>1
  <2>5. v.reason = "country" => FirstIs(4)  BY <1>1, <1>3, <1>4, <2>1
  <2>6. v.reason = "platform" => FirstIs(5)  BY <1>1, <1>3, <1>4, <2>1
  <2>7. v.reason = "referer" => FirstIs(6)  BY <1>1, <1>3, <1>4, <2>1
  <2>8. v.reason \in {"ip", "bot", "proxy", "country", "platform", "referer"}
    BY <1>1, <1>6
  <2>9. 1 \in 1..6 /\ 2 \in 1..6 /\ 3 \in 1..6 /\ 4 \in 1..6 /\ 5 \in 1..6 /\ 6 \in 1..6
    OBVIOUS
  <2> HIDE DEF FirstIs
  <2>10. \E i \in 1..6 : FirstIs(i)
    BY <2>2, <2>3, <2>4, <2>5, <2>6, <2>7, <2>8, <2>9
  <2> QED  BY <1>6, <2>10 DEF FirstIs
<1> QED  BY <1>5, <1>6

\* The reputation of an address can change the decision exactly when
\* decide_access asks for it.
LEMMA LookupMatters ==
  ASSUME NEW policy, NEW visitor, NEW onList, visitor.ip # Unknown
  PROVE  LookupWanted(policy, visitor, onList)
           <=> evaluate_access(policy, visitor, onList, "proxy")
                 # evaluate_access(policy, visitor, onList, "clean")
<1> DEFINE country == Excludes(policy.country_mode, visitor.country \in policy.countries)
           platform == Excludes(policy.platform_mode, visitor.platform \in policy.platforms)
           referer == Excludes(policy.referer_mode, RefererMatches(visitor.referer, policy.patterns))
           others == IF country THEN "country" ELSE IF platform THEN "platform"
                     ELSE IF referer THEN "referer" ELSE "none"
<1>1. \A fact : evaluate_access(policy, visitor, onList, fact) =
        IF onList THEN "ip" ELSE IF IsBot(visitor) /\ policy.block_bot THEN "bot"
        ELSE IF policy.block_proxy /\ (IsBot(visitor) \/ fact = "proxy") THEN "proxy"
        ELSE others
  BY DEF evaluate_access, ProxyBlocked
<1>2. others \in {"country", "platform", "referer", "none"}  OBVIOUS
<1> HIDE DEF others
<1> QED  BY <1>1, <1>2 DEF LookupWanted

\* choose_target returns nothing only if there is nothing to return.
LEMMA ChoicesAreUsable ==
  ASSUME NEW rows \in SUBSET Destination, NEW result
  PROVE  /\ choose_target(rows, result) \subseteq Usable(rows, result)
         /\ choose_target(rows, result) = {} => Usable(rows, result) = {}
         /\ \A t \in choose_target(rows, result) :
              t.weight = 0 => \A u \in Usable(rows, result) : u.weight = 0
<1>1. \A t \in Usable(rows, result) : t.weight \in 0..1
  BY DEF Usable, Destination
<1> QED  BY <1>1 DEF choose_target

LEMMA InitRedirectInv == Init => RedirectInv
<1> SUFFICES ASSUME Init  PROVE RedirectInv  OBVIOUS
<1>1. PICK l \in Links, c \in Old : link = [m \in Links |-> IF m = l THEN c ELSE Unknown]
  BY DEF Init
<1>2. TypeOK  BY <1>1 DEF Init, TypeOK, Steps
<1>3. RowsInv
  BY <1>1 DEF Init, RowsInv, Row, Exists, Ids
<1>4. ASSUME NEW r \in Requests  PROVE VisitInv(r) /\ LoggedTruly(r)
  <2>1. pc[r] = "idle" /\ logs[r] = Unknown  BY DEF Init
  <2> QED
    BY <2>1 DEF VisitInv, LoggedTruly, Carries, Judged, Chosen, Knows, Decided, Served,
                AfterLink, AfterChoice
<1> QED  BY <1>2, <1>3, <1>4 DEF RedirectInv

---------------------------------------------------------------------------
(* Steps of a call.                                                        *)

\* Nothing changes for the calls that do not take the step.
LEMMA OthersKeep ==
  ASSUME RedirectInv, NEW q \in Requests, UNCHANGED tables,
         pc'[q] = pc[q], visit'[q] = visit[q], logs'[q] = logs[q]
  PROVE  VisitInv(q)' /\ LoggedTruly(q)'
<1>1. VisitInv(q) /\ LoggedTruly(q)  BY DEF RedirectInv
<1>2. VisitInv(q)'
  BY <1>1 DEF VisitInv, Carries, Judged, Chosen, Knows, Decided, Wanted, Reason,
              Choices, tables, Exists, Present, Row, Ids
<1>3. LoggedTruly(q)'
  <2>1. gone' = gone  BY DEF tables
  <2>2. Snapshot(q)' = Snapshot(q)  BY DEF Snapshot
  <2>3. Remembered(q)' = Remembered(q)  BY <2>1, <2>2 DEF Remembered
  <2> QED  BY <1>1, <2>1, <2>3 DEF LoggedTruly, Served
<1> QED  BY <1>2, <1>3

\* A step of r that reads: only the place and the visit of r change, and what
\* was logged stays.
LEMMA ReadingKeeps ==
  ASSUME RedirectInv, NEW r \in Requests, UNCHANGED <<tables, logs>>,
         NEW step \in Steps \ {"redirected", "unavailable"}, NEW new \in Visit \cup {Unknown},
         ~Served(r), pc' = [pc EXCEPT ![r] = step], visit' = [visit EXCEPT ![r] = new],
         VisitInv(r)'
  PROVE  RedirectInv'
<1>1. TypeOK' /\ pc'[r] = step
  BY DEF RedirectInv, TypeOK, tables
<1>2. RowsInv'
  BY DEF RedirectInv, RowsInv, tables, Row, Exists, Ids
<1>3. ASSUME NEW q \in Requests, q # r  PROVE VisitInv(q)' /\ LoggedTruly(q)'
  <2>1. pc'[q] = pc[q] /\ visit'[q] = visit[q] /\ logs'[q] = logs[q]
    BY <1>3 DEF RedirectInv, TypeOK
  <2> QED  BY <2>1, OthersKeep
<1>4. LoggedTruly(r)'
  <2>1. logs[r] = Unknown  BY DEF RedirectInv, LoggedTruly
  <2> QED  BY <1>1, <2>1 DEF LoggedTruly, Served
<1> QED  BY <1>1, <1>2, <1>3, <1>4 DEF RedirectInv

LEMMA NoRulesIsAPolicy == NoRules \in Policy
BY DEF NoRules, Policy, Modes

\* What is known of a call that is under way.
LEMMA UnderWay ==
  ASSUME RedirectInv, NEW r \in Requests, pc[r] # "idle"
  PROVE  /\ visit[r] \in Visit
         /\ pc[r] \notin AfterChoice => visit[r].target = Unknown
         /\ pc[r] \in {"host", "link", "targets"} => visit[r].targets = {}
         /\ ~Decided(r) => ~visit[r].asked /\ visit[r].fact = "unknown"
         /\ visit = [visit EXCEPT ![r] = visit[r]]
<1>1. visit \in [Requests -> Visit \cup {Unknown}]  BY DEF RedirectInv, TypeOK
<1>2. Carries(r)  BY DEF RedirectInv, VisitInv
<1> QED  BY <1>1, <1>2 DEF Carries

LEMMA ArriveStep ==
  ASSUME RedirectInv, NEW r \in Requests, Arrive(r)
  PROVE  RedirectInv'
<1>1. PICK v \in Visitors, d \in Domains, c \in Codes :
        visit' = [visit EXCEPT ![r] =
          [visitor |-> v, domain |-> d, code |-> c, link |-> Unknown, note |-> Unknown,
           targets |-> {}, policy |-> NoRules, listed |-> FALSE,
           asked |-> FALSE, fact |-> "unknown", reason |-> "none",
           target |-> Unknown, failed |-> FALSE]]
  BY DEF Arrive
<1> DEFINE new == [visitor |-> v, domain |-> d, code |-> c, link |-> Unknown, note |-> Unknown,
                   targets |-> {}, policy |-> NoRules, listed |-> FALSE,
                   asked |-> FALSE, fact |-> "unknown", reason |-> "none",
                   target |-> Unknown, failed |-> FALSE]
<1>2. v \in Visitor  BY RedirectAssumption
<1>3. new \in Visit  BY <1>2, NoRulesIsAPolicy DEF Visit, ProxyFacts, Reasons
<1>4. new.target = Unknown /\ new.targets = {} /\ ~new.asked /\ new.fact = "unknown"
  OBVIOUS
<1> HIDE DEF new
<1>5. /\ pc[r] = "idle" /\ pc' = [pc EXCEPT ![r] = "host"]
      /\ visit' = [visit EXCEPT ![r] = new] /\ UNCHANGED <<tables, logs>>
  BY <1>1 DEF Arrive, Goto, Reads, new
<1>6. pc'[r] = "host" /\ visit'[r] = new  BY <1>5 DEF RedirectInv, TypeOK
<1>7. VisitInv(r)'
  BY <1>3, <1>4, <1>6 DEF VisitInv, Carries, Judged, Chosen, Knows, Decided, AfterLink, AfterChoice
<1> QED  BY <1>3, <1>5, <1>7, ReadingKeeps DEF Served, Steps, Answers

\* The call has not read its link: nothing changes but its place.
LEMMA HostStep ==
  ASSUME RedirectInv, NEW r \in Requests,
         UnknownHost(r) \/ ResolveHost(r) \/ UnknownLink(r)
  PROVE  RedirectInv'
<1>1. PICK step \in {"link", "not_found"} : pc' = [pc EXCEPT ![r] = step]
  BY DEF UnknownHost, ResolveHost, UnknownLink, NotFound, Goto
<1>2. /\ pc[r] \in {"host", "link"} /\ visit' = visit /\ UNCHANGED <<tables, logs>>
  BY DEF UnknownHost, ResolveHost, UnknownLink, NotFound, Reads
<1>3. /\ visit[r] \in Visit /\ visit[r].target = Unknown
      /\ visit[r].targets = {} /\ ~visit[r].asked /\ visit[r].fact = "unknown"
      /\ visit' = [visit EXCEPT ![r] = visit[r]]
  BY <1>2, UnderWay DEF AfterChoice, Decided
<1>4. pc'[r] = step /\ visit'[r] = visit[r]  BY <1>1, <1>2 DEF RedirectInv, TypeOK
<1>5. VisitInv(r)'
  BY <1>3, <1>4 DEF VisitInv, Carries, Judged, Chosen, Knows, Decided, AfterLink, AfterChoice
<1> QED  BY <1>1, <1>2, <1>3, <1>5, ReadingKeeps DEF Served, Steps, Answers

LEMMA ReadLinkStep ==
  ASSUME RedirectInv, NEW r \in Requests, ReadLink(r)
  PROVE  RedirectInv'
<1>1. pc[r] = "link" /\ pc' = [pc EXCEPT ![r] = "targets"] /\ UNCHANGED <<tables, logs>>
  BY DEF ReadLink, Goto, Reads
<1>2. PICK l \in Found(r) : visit' = [visit EXCEPT ![r].link = l, ![r].note = link[l].note]
  BY DEF ReadLink
<1> DEFINE new == [visit[r] EXCEPT !.link = l, !.note = link[l].note]
<1>3. /\ visit[r] \in Visit /\ visit[r].target = Unknown
      /\ visit[r].targets = {} /\ ~visit[r].asked /\ visit[r].fact = "unknown"
  BY <1>1, UnderWay DEF AfterChoice, Decided
<1>4. l \in Links /\ link[l] \in Contents \cup Old /\ Exists(l)
  BY DEF Found, Exists, RedirectInv, TypeOK
<1>5. link[l].note \in Notes  BY <1>4, RedirectAssumption DEF Content
<1>6. visit' = [visit EXCEPT ![r] = new]  BY <1>2 DEF RedirectInv, TypeOK
<1>7. /\ new \in Visit /\ new.target = Unknown /\ new.targets = {}
      /\ ~new.asked /\ new.fact = "unknown"
      /\ new.link = l /\ new.note = link[l].note
  BY <1>3, <1>4, <1>5 DEF Visit
<1> HIDE DEF new
<1>8. pc'[r] = "targets" /\ visit'[r] = new /\ link' = link /\ gone' = gone
  BY <1>1, <1>6 DEF RedirectInv, TypeOK, tables
<1>9. VisitInv(r)'
  <2>1. Carries(r)'
    BY <1>4, <1>5, <1>7, <1>8 DEF Carries, AfterLink, AfterChoice
  <2>2. Judged(r)' /\ Chosen(r)'
    BY <1>8 DEF Judged, Chosen, Decided, AfterChoice
  <2>3. ASSUME NEW c \in Contents, c.note = new.note  PROVE link[l] = c
    BY <1>4, <1>7, <2>3, RedirectAssumption
  <2>4. Knows(r)'
    BY <1>4, <1>7, <1>8, <2>3 DEF Knows, AfterTargets, Exists
  <2> QED  BY <2>1, <2>2, <2>4 DEF VisitInv
<1> QED  BY <1>1, <1>6, <1>7, <1>9, ReadingKeeps DEF Served, Steps, Answers

LEMMA ReadTargetsStep ==
  ASSUME RedirectInv, NEW r \in Requests, ReadTargets(r)
  PROVE  RedirectInv'
<1>1. pc[r] = "targets" /\ pc' = [pc EXCEPT ![r] = "policy"] /\ UNCHANGED <<tables, logs>>
  BY DEF ReadTargets, Goto, Reads
<1> DEFINE l == visit[r].link
           new == [visit[r] EXCEPT !.targets = Row(l)]
<1>2. /\ visit[r] \in Visit /\ visit[r].target = Unknown
      /\ ~visit[r].asked /\ visit[r].fact = "unknown"
  BY <1>1, UnderWay DEF AfterChoice, Decided
<1>3. l \in Links /\ visit[r].note \in Notes /\ Knows(r)
  BY <1>1 DEF RedirectInv, VisitInv, Carries, AfterLink
<1>4. Row(l) \in SUBSET Destination
  BY <1>3, RedirectAssumption DEF Row, Exists, RedirectInv, TypeOK, Content
<1>5. visit' = [visit EXCEPT ![r] = new]  BY DEF ReadTargets, RedirectInv, TypeOK
<1>6. /\ new \in Visit /\ new.target = Unknown /\ new.targets = Row(l)
      /\ ~new.asked /\ new.fact = "unknown"
      /\ new.link = visit[r].link /\ new.note = visit[r].note
  BY <1>2, <1>4 DEF Visit
<1>7. pc'[r] = "policy" /\ visit'[r] = new /\ link' = link /\ gone' = gone
  BY <1>1, <1>5 DEF RedirectInv, TypeOK, tables
<1>8. VisitInv(r)'
  <2> HIDE DEF new
  <2>1. Carries(r)'
    BY <1>3, <1>6, <1>7 DEF Carries, AfterLink, AfterChoice
  <2>2. Judged(r)' /\ Chosen(r)'
    BY <1>7 DEF Judged, Chosen, Decided, AfterChoice
  <2>3. \A t \in Row(l) : t.id \in Present
    BY <1>3 DEF Present, Ids
  <2>4. ASSUME NEW c \in Contents, c.note = visit[r].note
        PROVE  /\ link[l] \in Contents \cup {Unknown}
               /\ l \in gone \/ Usable(Row(l), "allowed") # {}
    <3>1. link[l] \in Contents \cup {Unknown}
      BY <1>1, <1>3, <2>4 DEF Knows, AfterLink
    <3>2. CASE Exists(l)
      BY <3>1, <3>2, RedirectAssumption DEF Row, Exists
    <3>3. CASE ~Exists(l)
      BY <1>1, <1>3, <3>1, <3>3 DEF Knows, AfterLink
    <3> QED  BY <3>2, <3>3
  <2>5. Present' = Present  BY <1>7 DEF Present, Row, Exists, Ids
  <2>6. ~Exists(l) => l \in gone  BY <1>1, <1>3 DEF Knows, AfterLink
  <2> HIDE DEF l
  <2>7. Knows(r)'
    BY <1>3, <1>6, <1>7, <2>3, <2>4, <2>5, <2>6 DEF Knows, Exists, l
  <2> QED  BY <2>1, <2>2, <2>7 DEF VisitInv
<1> QED  BY <1>1, <1>5, <1>6, <1>8, ReadingKeeps DEF Served, Steps, Answers

\* Whatever else the call reads, what it knows of its link stays.
LEMMA StillKnows ==
  ASSUME NEW r \in Requests, Knows(r), UNCHANGED tables,
         pc[r] \in AfterTargets, pc'[r] \in AfterTargets,
         visit'[r].link = visit[r].link, visit'[r].note = visit[r].note,
         visit'[r].targets = visit[r].targets
  PROVE  Knows(r)'
BY DEF Knows, tables, Exists, Present, Row, Ids, AfterTargets

\* The policy and the blacklist.
LEMMA ReadRulesStep ==
  ASSUME RedirectInv, NEW r \in Requests, ReadPolicy(r) \/ ReadBlacklist(r)
  PROVE  RedirectInv'
<1>1. PICK new \in Visit :
        /\ visit' = [visit EXCEPT ![r] = new]
        /\ \E policy \in Policy, onList \in BOOLEAN :
             new = [visit[r] EXCEPT !.policy = policy, !.listed = onList]
  <2>1. visit[r] \in Visit  BY UnderWay DEF ReadPolicy, ReadBlacklist
  <2>2. visit \in [Requests -> Visit \cup {Unknown}]  BY DEF RedirectInv, TypeOK
  <2>3. ASSUME NEW policy \in Policy, NEW onList \in BOOLEAN
        PROVE  [visit[r] EXCEPT !.policy = policy, !.listed = onList] \in Visit
    BY <2>1 DEF Visit
  <2>4. CASE ReadPolicy(r)
    <3> DEFINE l == visit[r].link
               policy == IF Exists(l) /\ link[l].policy # Unknown THEN link[l].policy ELSE NoRules
    <3>1. l \in Links  BY <2>4 DEF ReadPolicy, RedirectInv, VisitInv, Carries, AfterLink
    <3>2. Exists(l) => link[l] \in Content
      BY <3>1, RedirectAssumption DEF Exists, RedirectInv, TypeOK
    <3>3. policy \in Policy  BY <3>2, NoRulesIsAPolicy DEF Content
    <3>4. visit' = [visit EXCEPT ![r].policy = policy]  BY <2>4 DEF ReadPolicy
    <3> HIDE DEF policy
    <3>5. visit' = [visit EXCEPT ![r] =
                      [visit[r] EXCEPT !.policy = policy, !.listed = visit[r].listed]]
      BY <2>1, <2>2, <3>4 DEF Visit
    <3>6. visit[r].listed \in BOOLEAN  BY <2>1 DEF Visit
    <3> QED  BY <2>3, <3>3, <3>5, <3>6
  <2>5. CASE ReadBlacklist(r)
    <3> DEFINE onList == visit[r].visitor.ip \in listed
    <3>1. visit' = [visit EXCEPT ![r].listed = onList]  BY <2>5 DEF ReadBlacklist
    <3>2. onList \in BOOLEAN  OBVIOUS
    <3> HIDE DEF onList
    <3>3. visit' = [visit EXCEPT ![r] =
                      [visit[r] EXCEPT !.policy = visit[r].policy, !.listed = onList]]
      BY <2>1, <2>2, <3>1 DEF Visit
    <3>4. visit[r].policy \in Policy  BY <2>1 DEF Visit
    <3> QED  BY <2>3, <3>2, <3>3, <3>4
  <2> QED  BY <2>4, <2>5
<1>2. PICK step \in {"blacklist", "deciding"} : pc' = [pc EXCEPT ![r] = step]
  BY DEF ReadPolicy, ReadBlacklist, Goto
<1>3. pc[r] \in {"policy", "blacklist"} /\ UNCHANGED <<tables, logs>>
  BY DEF ReadPolicy, ReadBlacklist, Reads
<1>4. /\ visit[r] \in Visit /\ visit[r].target = Unknown
      /\ ~visit[r].asked /\ visit[r].fact = "unknown"
  BY <1>3, UnderWay DEF AfterChoice, Decided
<1>5. /\ new.link = visit[r].link /\ new.note = visit[r].note
      /\ new.targets = visit[r].targets /\ new.target = visit[r].target
      /\ new.asked = visit[r].asked /\ new.fact = visit[r].fact
  BY <1>1, <1>4 DEF Visit
<1>6. pc'[r] = step /\ visit'[r] = new
  BY <1>1, <1>2 DEF RedirectInv, TypeOK
<1>7. VisitInv(r)'
  <2>1. Carries(r) /\ Knows(r)  BY DEF RedirectInv, VisitInv
  <2>2. Carries(r)'
    BY <1>2, <1>3, <1>4, <1>5, <1>6, <2>1 DEF Carries, AfterLink, AfterChoice, Decided
  <2>3. Judged(r)' /\ Chosen(r)'
    BY <1>6 DEF Judged, Chosen, Decided, AfterChoice
  <2>4. Knows(r)'
    BY <1>3, <1>5, <1>6, <2>1, StillKnows DEF AfterTargets, AfterLink
  <2> QED  BY <2>2, <2>3, <2>4 DEF VisitInv
<1> QED  BY <1>1, <1>2, <1>3, <1>7, ReadingKeeps DEF Served, Steps, Answers

LEMMA DecideStep ==
  ASSUME RedirectInv, NEW r \in Requests, Decide(r) \/ Lookup(r)
  PROVE  RedirectInv'
<1>1. /\ pc[r] = "deciding" /\ pc' = [pc EXCEPT ![r] = "choosing"]
      /\ UNCHANGED <<tables, logs>>
  BY DEF Decide, Lookup, Goto, Reads
<1>2. /\ visit[r] \in Visit /\ visit[r].target = Unknown
      /\ ~visit[r].asked /\ visit[r].fact = "unknown"
  BY <1>1, UnderWay DEF AfterChoice, Decided
<1>3. visit \in [Requests -> Visit \cup {Unknown}]  BY DEF RedirectInv, TypeOK
<1>4. PICK asked \in BOOLEAN, fact \in ProxyFacts :
        /\ asked <=> Wanted(r)
        /\ visit' = [visit EXCEPT ![r] =
             [visit[r] EXCEPT !.asked = asked, !.fact = fact, !.reason = Reason(r, fact)]]
  <2>1. CASE Decide(r)
    <3>1. visit' = [visit EXCEPT ![r] =
             [visit[r] EXCEPT !.asked = visit[r].asked, !.fact = visit[r].fact,
                              !.reason = Reason(r, visit[r].fact)]]
      BY <1>2, <1>3, <2>1 DEF Decide, Visit
    <3>2. visit[r].asked \in BOOLEAN /\ visit[r].fact \in ProxyFacts  BY <1>2 DEF Visit
    <3> QED  BY <1>2, <2>1, <3>1, <3>2 DEF Decide
  <2>2. CASE Lookup(r)
    <3>1. PICK fact \in ProxyFacts :
            visit' = [visit EXCEPT ![r].asked = TRUE, ![r].fact = fact,
                                   ![r].reason = Reason(r, fact)]
      BY <2>2 DEF Lookup
    <3>2. visit' = [visit EXCEPT ![r] =
             [visit[r] EXCEPT !.asked = TRUE, !.fact = fact, !.reason = Reason(r, fact)]]
      BY <1>2, <1>3, <3>1
    <3> QED  BY <2>2, <3>2 DEF Lookup
  <2> QED  BY <2>1, <2>2
<1> DEFINE new == [visit[r] EXCEPT !.asked = asked, !.fact = fact, !.reason = Reason(r, fact)]
<1>5. Reason(r, fact) \in Reasons  BY DEF Reason, evaluate_access, Reasons
<1>6. /\ new \in Visit
      /\ new.link = visit[r].link /\ new.note = visit[r].note
      /\ new.targets = visit[r].targets /\ new.target = visit[r].target
      /\ new.policy = visit[r].policy /\ new.visitor = visit[r].visitor
      /\ new.listed = visit[r].listed
      /\ new.asked = asked /\ new.fact = fact /\ new.reason = Reason(r, fact)
  BY <1>2, <1>5 DEF Visit
<1>7. visit' = [visit EXCEPT ![r] = new]  BY <1>4
<1> HIDE DEF new
<1>8. pc'[r] = "choosing" /\ visit'[r] = new
  BY <1>1, <1>7 DEF RedirectInv, TypeOK
<1>9. VisitInv(r)'
  <2>1. Carries(r) /\ Knows(r)  BY DEF RedirectInv, VisitInv
  <2>2. Carries(r)'
    BY <1>1, <1>2, <1>6, <1>8, <2>1 DEF Carries, AfterLink, AfterChoice, Decided
  <2>3. Judged(r)'
    BY <1>4, <1>6, <1>8 DEF Judged, Reason, Wanted
  <2>4. Chosen(r)'  BY <1>8 DEF Chosen, AfterChoice
  <2>5. Knows(r)'
    BY <1>1, <1>6, <1>8, <2>1, StillKnows DEF AfterTargets, AfterLink
  <2> QED  BY <2>2, <2>3, <2>4, <2>5 DEF VisitInv
<1> QED  BY <1>1, <1>6, <1>7, <1>9, ReadingKeeps DEF Served, Steps, Answers

LEMMA ChooseStep ==
  ASSUME RedirectInv, NEW r \in Requests, ChooseTarget(r) \/ NoTarget(r)
  PROVE  RedirectInv'
<1>1. /\ pc[r] = "choosing" /\ pc' = [pc EXCEPT ![r] = "logging"]
      /\ UNCHANGED <<tables, logs>>
  BY DEF ChooseTarget, NoTarget, Goto, Reads
<1>2. visit[r] \in Visit /\ visit[r].target = Unknown
  BY <1>1, UnderWay DEF AfterChoice
<1>3. visit \in [Requests -> Visit \cup {Unknown}]  BY DEF RedirectInv, TypeOK
<1>4. Choices(r) \subseteq Destination
  BY <1>2 DEF Choices, choose_target, Usable, Visit
<1>5. PICK t \in Destination \cup {Unknown} :
        /\ IF t = Unknown THEN Choices(r) = {} ELSE t \in Choices(r)
        /\ visit' = [visit EXCEPT ![r] = [visit[r] EXCEPT !.target = t]]
  <2>1. CASE ChooseTarget(r)
    BY <1>2, <1>3, <1>4, <2>1, RedirectAssumption DEF ChooseTarget
  <2>2. CASE NoTarget(r)
    BY <1>2, <1>3, <2>2 DEF NoTarget, Visit
  <2> QED  BY <2>1, <2>2
<1> DEFINE new == [visit[r] EXCEPT !.target = t]
<1>6. /\ new \in Visit
      /\ new.link = visit[r].link /\ new.note = visit[r].note
      /\ new.targets = visit[r].targets /\ new.target = t
      /\ new.policy = visit[r].policy /\ new.visitor = visit[r].visitor
      /\ new.listed = visit[r].listed
      /\ new.asked = visit[r].asked /\ new.fact = visit[r].fact
      /\ new.reason = visit[r].reason
  BY <1>2 DEF Visit
<1>7. visit' = [visit EXCEPT ![r] = new]  BY <1>5
<1> HIDE DEF new
<1>8. pc'[r] = "logging" /\ visit'[r] = new
  BY <1>1, <1>7 DEF RedirectInv, TypeOK
<1>9. VisitInv(r)'
  <2>1. VisitInv(r)  BY DEF RedirectInv
  <2>2. Carries(r)'
    BY <1>1, <1>2, <1>6, <1>8, <2>1 DEF VisitInv, Carries, AfterLink, AfterChoice, Decided
  <2>3. Judged(r)'
    BY <1>1, <1>6, <1>8, <2>1 DEF VisitInv, Judged, Decided, Reason, Wanted
  <2>4. Chosen(r)'  BY <1>5, <1>6, <1>8 DEF Chosen, Choices
  <2>5. Knows(r)'
    BY <1>1, <1>6, <1>8, <2>1, StillKnows DEF VisitInv, AfterTargets, AfterLink
  <2> QED  BY <2>2, <2>3, <2>4, <2>5 DEF VisitInv
<1> QED  BY <1>1, <1>6, <1>7, <1>9, ReadingKeeps DEF Served, Steps, Answers

\* The row of a visit is one of the log.
LEMMA SnapshotIsARow ==
  ASSUME RedirectInv, NEW r \in Requests, pc[r] = "logging"
  PROVE  Snapshot(r) \in LogRow
<1>1. visit[r] \in Visit  BY UnderWay
<1>2. visit[r].link \in Links /\ visit[r].note \in Notes
  BY DEF RedirectInv, VisitInv, Carries, AfterLink
<1>3. visit[r].target # Unknown => visit[r].target.id \in Targets /\ visit[r].target.url \in Urls
  BY <1>1 DEF Visit, Destination
<1>4. ResultOf(visit[r].reason) \in {"allowed", "blocked"}  BY DEF ResultOf
<1>5. visit[r].domain \in Domains /\ visit[r].reason \in Reasons  BY <1>1 DEF Visit
<1> QED  BY <1>2, <1>3, <1>4, <1>5 DEF Snapshot, LogRow

\* What can be referred to is not gone, what cannot is.
LEMMA RefersUnlessGone ==
  ASSUME RedirectInv, NEW r \in Requests, pc[r] = "logging"
  PROVE  /\ Refers(r) => /\ visit[r].link \notin gone
                         /\ visit[r].target # Unknown => visit[r].target.id \notin gone
         /\ ~Refers(r) => \/ visit[r].link \in gone
                          \/ visit[r].target # Unknown /\ visit[r].target.id \in gone
<1>1. Knows(r) /\ Carries(r) /\ Chosen(r) /\ RowsInv  BY DEF RedirectInv, VisitInv
<1>2. visit[r].link \in Links  BY <1>1 DEF Carries, AfterLink
<1>3. \A id \in Present : id \notin gone  BY <1>1 DEF RowsInv, Present
<1>4. visit[r].target # Unknown => visit[r].target \in visit[r].targets
  BY <1>1 DEF Chosen, AfterChoice, Choices, choose_target, Usable
<1>5. \A t \in visit[r].targets : t.id \in Present \cup gone
  BY <1>1 DEF Knows, AfterLink
<1>6. Exists(visit[r].link) <=> visit[r].link \notin gone
  BY <1>1, <1>2 DEF Knows, AfterLink, RowsInv
<1> QED  BY <1>3, <1>4, <1>5, <1>6 DEF Refers

LEMMA AnswerStep ==
  ASSUME RedirectInv, NEW r \in Requests, WriteLog(r) \/ LogRefused(r) \/ LogFails(r)
  PROVE  RedirectInv'
<1>1. pc[r] = "logging" /\ UNCHANGED tables /\ Answer(r)
  BY DEF WriteLog, LogRefused, LogFails
<1> DEFINE step == IF visit[r].target = Unknown THEN "unavailable" ELSE "redirected"
<1>2. pc' = [pc EXCEPT ![r] = step]  BY <1>1 DEF Answer, Goto
<1>3. step \in {"unavailable", "redirected"}  OBVIOUS
<1>4. visit[r] \in Visit /\ visit = [visit EXCEPT ![r] = visit[r]]  BY <1>1, UnderWay
<1>5. /\ visit \in [Requests -> Visit \cup {Unknown}]
      /\ logs \in [Requests -> LogRow \cup {Unknown}]
      /\ pc \in [Requests -> Steps]
  BY DEF RedirectInv, TypeOK
<1>6. PICK new \in Visit :
        /\ visit' = [visit EXCEPT ![r] = new]
        /\ \E failed \in BOOLEAN : new = [visit[r] EXCEPT !.failed = failed]
        /\ IF WriteLog(r) \/ LogRefused(r) THEN new = visit[r] ELSE new.failed
  <2>1. CASE ~(WriteLog(r) \/ LogRefused(r))
    <3> DEFINE new == [visit[r] EXCEPT !.failed = TRUE]
    <3>1. visit' = [visit EXCEPT ![r] = new]  BY <1>4, <1>5, <2>1 DEF LogFails
    <3>2. new \in Visit /\ new.failed  BY <1>4 DEF Visit
    <3> QED  BY <2>1, <3>1, <3>2
  <2>2. CASE WriteLog(r) \/ LogRefused(r)
    <3>1. visit' = visit  BY <2>2 DEF WriteLog, LogRefused
    <3>2. visit[r] = [visit[r] EXCEPT !.failed = visit[r].failed] /\ visit[r].failed \in BOOLEAN
      BY <1>4 DEF Visit
    <3> QED  BY <1>4, <2>2, <3>1, <3>2
  <2> QED  BY <2>1, <2>2
<1>7. /\ new.link = visit[r].link /\ new.note = visit[r].note
      /\ new.targets = visit[r].targets /\ new.target = visit[r].target
      /\ new.policy = visit[r].policy /\ new.visitor = visit[r].visitor
      /\ new.listed = visit[r].listed
      /\ new.asked = visit[r].asked /\ new.fact = visit[r].fact
      /\ new.reason = visit[r].reason
  BY <1>4, <1>6 DEF Visit
<1> HIDE DEF step
<1>8. pc'[r] = step /\ visit'[r] = new  BY <1>2, <1>5, <1>6
<1>9. /\ logs[r] = Unknown
      /\ logs' = [logs EXCEPT ![r] = IF WriteLog(r) THEN Snapshot(r) ELSE Unknown]
  <2>1. logs[r] = Unknown  BY <1>1 DEF RedirectInv, LoggedTruly, Served
  <2>2. CASE WriteLog(r)  BY <2>1, <2>2 DEF WriteLog
  <2>3. CASE ~WriteLog(r)
    <3>1. logs' = logs  BY <2>3 DEF LogRefused, LogFails
    <3> QED  BY <1>5, <2>1, <2>3, <3>1
  <2> QED  BY <2>2, <2>3
<1>10. TypeOK'
  <2>1. Snapshot(r) \in LogRow  BY <1>1, SnapshotIsARow
  <2>2. logs' \in [Requests -> LogRow \cup {Unknown}]
    BY <1>5, <1>9, <2>1
  <2>3. pc' \in [Requests -> Steps]
    BY <1>2, <1>3, <1>5 DEF Steps, Answers
  <2>4. visit' \in [Requests -> Visit \cup {Unknown}]  BY <1>5, <1>6
  <2> QED  BY <1>1, <2>2, <2>3, <2>4 DEF RedirectInv, TypeOK, tables
<1>11. RowsInv'
  BY <1>1 DEF RedirectInv, RowsInv, tables, Row, Exists, Ids
<1>12. ASSUME NEW q \in Requests, q # r  PROVE VisitInv(q)' /\ LoggedTruly(q)'
  <2>1. pc'[q] = pc[q] /\ visit'[q] = visit[q] /\ logs'[q] = logs[q]
    BY <1>2, <1>5, <1>6, <1>9, <1>12
  <2> QED  BY <1>1, <2>1, OthersKeep
<1>13. VisitInv(r)'
  <2>1. VisitInv(r)  BY DEF RedirectInv
  <2>2. Carries(r)'
    BY <1>1, <1>3, <1>6, <1>7, <1>8, <2>1 DEF VisitInv, Carries, AfterLink, AfterChoice, Decided
  <2>3. Judged(r)'
    BY <1>1, <1>7, <1>8, <2>1 DEF VisitInv, Judged, Decided, Reason, Wanted
  <2>4. Chosen(r)'
    BY <1>1, <1>7, <1>8, <2>1 DEF VisitInv, Chosen, Choices, AfterChoice, step
  <2>5. Knows(r)'
    BY <1>1, <1>3, <1>7, <1>8, <2>1, StillKnows DEF VisitInv, AfterTargets, AfterLink
  <2> QED  BY <2>2, <2>3, <2>4, <2>5 DEF VisitInv
<1>14. LoggedTruly(r)'
  <2>1. Served(r)' /\ gone' = gone  BY <1>1, <1>3, <1>8 DEF Served, tables
  <2>2. CASE WriteLog(r)
    <3>1. new = visit[r]  BY <1>6, <2>2
    <3>2. Snapshot(r)' = Snapshot(r)  BY <1>8, <3>1 DEF Snapshot
    <3>3. logs'[r] = Snapshot(r)  BY <1>5, <1>9, <2>2
    <3>4. Snapshot(r) \in LogRow  BY <1>1, SnapshotIsARow
    <3>5. Snapshot(r).link \notin gone /\ Snapshot(r).target \notin gone
      <4>1. Refers(r)  BY <2>2 DEF WriteLog
      <4>2. gone \subseteq Links \cup Targets  BY DEF RedirectInv, TypeOK
      <4>3. Unknown \notin gone  BY <4>2, RedirectAssumption
      <4> QED  BY <1>1, <4>1, <4>3, RefersUnlessGone DEF Snapshot
    <3>6. Remembered(r)' = Snapshot(r)
      BY <2>1, <3>2, <3>4, <3>5 DEF Remembered, LogRow
    <3> QED  BY <2>1, <3>3, <3>4, <3>6, NoLogRow DEF LoggedTruly
  <2>3. CASE LogRefused(r) /\ ~WriteLog(r)
    BY <1>1, <1>5, <1>7, <1>8, <1>9, <2>1, <2>3, RefersUnlessGone DEF LoggedTruly, LogRefused
  <2>4. CASE ~(WriteLog(r) \/ LogRefused(r))
    BY <1>5, <1>6, <1>8, <1>9, <2>1, <2>4 DEF LoggedTruly
  <2> QED  BY <2>2, <2>3, <2>4
<1> QED  BY <1>10, <1>11, <1>12, <1>13, <1>14 DEF RedirectInv

---------------------------------------------------------------------------
(* What other handlers commit.                                             *)

\* The identifiers of the destinations of a content.
IdsOf(c) == IF c = Unknown THEN {} ELSE Ids(c.targets)

\* The log keeps its rows and says of each visit what it said, whatever is
\* removed.
LEMMA LogStaysTrue ==
  ASSUME RedirectInv, NEW removed, gone' = gone \cup removed, LogFollows(removed),
         UNCHANGED <<pc, visit>>, NEW r \in Requests
  PROVE  /\ LoggedTruly(r)'
         /\ logs'[r] \in LogRow \cup {Unknown}
         /\ logs[r] # Unknown => logs'[r] # Unknown
<1>1. LoggedTruly(r) /\ logs[r] \in LogRow \cup {Unknown}
  BY DEF RedirectInv, TypeOK
<1>2. Snapshot(r)' = Snapshot(r) /\ Served(r)' = Served(r)  BY DEF Snapshot, Served
<1>3. logs'[r] = IF logs[r] = Unknown THEN Unknown
                 ELSE [logs[r] EXCEPT !.link = IF @ \in removed THEN Unknown ELSE @,
                                      !.target = IF @ \in removed THEN Unknown ELSE @]
  BY DEF LogFollows
<1>4. CASE logs[r] = Unknown
  BY <1>1, <1>2, <1>3, <1>4 DEF LoggedTruly
<1>5. CASE logs[r] # Unknown
  <2> DEFINE said == Snapshot(r)
             one == IF said.link \in gone THEN Unknown ELSE said.link
             two == IF said.target \in gone THEN Unknown ELSE said.target
             one2 == IF one \in removed THEN Unknown ELSE one
             two2 == IF two \in removed THEN Unknown ELSE two
  <2>1. logs[r] = [said EXCEPT !.link = one, !.target = two] /\ Served(r)
    BY <1>1, <1>5 DEF LoggedTruly, Remembered
  <2>2. logs[r] \in LogRow  BY <1>1, <1>5
  <2>3. said = [link |-> said.link, domain |-> said.domain, target |-> said.target,
                note |-> said.note, url |-> said.url, result |-> said.result,
                reason |-> said.reason]
    BY DEF Snapshot
  <2>4. logs[r].link = one /\ logs[r].target = two
    <3> HIDE DEF said, one, two
    <3> QED  BY <2>1, <2>3
  <2>5. logs'[r] = [logs[r] EXCEPT !.link = one2, !.target = two2]
    BY <1>3, <1>5, <2>4
  <2>6. logs'[r] \in LogRow
    <3>1. one2 \in {one, Unknown} /\ two2 \in {two, Unknown}  OBVIOUS
    <3>2. one \in Links \cup {Unknown} /\ two \in Targets \cup {Unknown}
      BY <2>2, <2>4 DEF LogRow
    <3> HIDE DEF one, two, one2, two2
    <3> QED  BY <2>2, <2>5, <3>1, <3>2 DEF LogRow
  <2>7. logs'[r] = [said EXCEPT !.link = one2, !.target = two2]
    <3> HIDE DEF said, one, two, one2, two2
    <3> QED  BY <2>1, <2>3, <2>5
  <2>8. /\ one2 = IF said.link \in gone \cup removed THEN Unknown ELSE said.link
        /\ two2 = IF said.target \in gone \cup removed THEN Unknown ELSE said.target
    <3> HIDE DEF said
    <3> QED  OBVIOUS
  <2>9. Remembered(r)' = [said EXCEPT !.link = one2, !.target = two2]
    <3>1. Remembered(r)' =
            [said EXCEPT !.link = IF @ \in gone' THEN Unknown ELSE @,
                         !.target = IF @ \in gone' THEN Unknown ELSE @]
      BY <1>2, Zenon DEF Remembered
    <3> HIDE DEF said, one2, two2
    <3> QED  BY <2>8, <3>1
  <2> QED  BY <1>2, <1>5, <2>1, <2>6, <2>7, <2>9, NoLogRow DEF LoggedTruly
<1> QED  BY <1>4, <1>5

\* One link becomes what new says, and what it loses is gone.
LEMMA LinkChangeKeeps ==
  ASSUME RedirectInv, NEW l \in Links, NEW new \in Contents \cup {Unknown},
         NEW removed \in SUBSET (Links \cup Targets),
         link' = [link EXCEPT ![l] = new], gone' = gone \cup removed, LogFollows(removed),
         UNCHANGED <<open, listed, pc, visit>>,
         new = Unknown => l \in removed,
         new # Unknown => l \notin gone \cup removed,
         \A m \in Links \ {l} : m \notin removed,
         IdsOf(link[l]) \subseteq IdsOf(new) \cup removed,
         IdsOf(new) \cap (gone \cup removed) = {},
         \A m \in Links \ {l} : IdsOf(link[m]) \cap (removed \cup IdsOf(new)) = {}
  PROVE  RedirectInv'
<1>1. TypeOK /\ RowsInv  BY DEF RedirectInv
<1>2. link'[l] = new /\ \A m \in Links \ {l} : link'[m] = link[m]
  BY <1>1 DEF TypeOK
<1>3. /\ \A m \in Links : Ids(Row(m)) = IdsOf(link[m])
      /\ \A m \in Links : Ids(Row(m)') = IdsOf(link'[m])
  BY DEF Row, Exists, Ids, IdsOf
<1>4. TypeOK'
  <2>1. link' \in [Links -> Contents \cup Old \cup {Unknown}]  BY <1>1 DEF TypeOK
  <2>2. gone' \subseteq Links \cup Targets  BY <1>1 DEF TypeOK
  <2>3. logs' \in [Requests -> LogRow \cup {Unknown}]
    <3>1. \A r \in Requests : logs'[r] \in LogRow \cup {Unknown}  BY LogStaysTrue
    <3>2. logs' = [r \in Requests |-> logs'[r]]  BY DEF LogFollows
    <3> QED  BY <3>1, <3>2
  <2> QED  BY <1>1, <2>1, <2>2, <2>3 DEF TypeOK
<1>5. RowsInv'
  <2>1. ASSUME NEW m \in Links, link'[m] # Unknown  PROVE m \notin gone'
    BY <1>1, <1>2, <2>1 DEF RowsInv, Exists
  <2>2. ASSUME NEW m \in Links  PROVE IdsOf(link'[m]) \cap gone' = {}
    BY <1>1, <1>2, <1>3 DEF RowsInv
  <2>3. ASSUME NEW m \in Links, NEW k \in Links, m # k
        PROVE  IdsOf(link'[m]) \cap IdsOf(link'[k]) = {}
    <3>1. IdsOf(link[m]) \cap IdsOf(link[k]) = {}  BY <1>1, <1>3, <2>3 DEF RowsInv
    <3>2. CASE m = l  BY <1>2, <2>3, <3>2
    <3>3. CASE k = l  BY <1>2, <2>3, <3>3
    <3>4. CASE m # l /\ k # l  BY <1>2, <3>1, <3>4
    <3> QED  BY <3>2, <3>3, <3>4
  <2> QED  BY <1>3, <2>1, <2>2, <2>3 DEF RowsInv, Exists
<1>6. ASSUME NEW r \in Requests  PROVE VisitInv(r)' /\ LoggedTruly(r)'
  <2>1. VisitInv(r)  BY DEF RedirectInv
  <2>2. Carries(r)' /\ Judged(r)' /\ Chosen(r)'
    BY <2>1 DEF VisitInv, Carries, Judged, Chosen, Decided, Wanted, Reason, Choices
  <2>3. Knows(r)'
    <3>1. CASE pc[r] \notin AfterLink  BY <3>1 DEF Knows
    <3>2. CASE pc[r] \in AfterLink
      <4>1. visit[r].link \in Links /\ Knows(r)  BY <2>1, <3>2 DEF VisitInv, Carries
      <4>2. link'[visit[r].link] = Unknown => visit[r].link \in gone'
        BY <1>2, <3>2, <4>1 DEF Knows, Exists
      <4>3. Present \subseteq Present' \cup gone'
        <5>1. Present' = UNION {IdsOf(link'[m]) : m \in Links}  BY <1>3 DEF Present
        <5>2. Present = UNION {IdsOf(link[m]) : m \in Links}  BY <1>3 DEF Present
        <5> QED  BY <1>2, <5>1, <5>2
      <4>4. \A t \in visit[r].targets : t.id \in Present' \cup gone'
        BY <3>2, <4>1, <4>3 DEF Knows
      <4>5. link[visit[r].link] \in Contents \cup {Unknown}
              => link'[visit[r].link] \in Contents \cup {Unknown}
        BY <1>2, <4>1
      <4>6. (\E c \in Contents : c.note = visit[r].note) =>
              /\ link'[visit[r].link] \in Contents \cup {Unknown}
              /\ pc[r] \in AfterTargets =>
                   visit[r].link \in gone' \/ Usable(visit[r].targets, "allowed") # {}
        BY <3>2, <4>1, <4>5 DEF Knows
      <4> QED  BY <4>2, <4>4, <4>6 DEF Knows, Exists
    <3> QED  BY <3>1, <3>2
  <2>4. LoggedTruly(r)'  BY LogStaysTrue
  <2> QED  BY <2>2, <2>3, <2>4 DEF VisitInv
<1> QED  BY <1>4, <1>5, <1>6 DEF RedirectInv

LEMMA IdsAreTargets ==
  ASSUME RedirectInv, NEW m \in Links
  PROVE  /\ IdsOf(link[m]) = Ids(Row(m)) /\ IdsOf(link[m]) \subseteq Targets
         /\ link[m] # Unknown => m \notin gone
         /\ IdsOf(link[m]) \cap gone = {}
         /\ \A k \in Links \ {m} : IdsOf(link[m]) \cap IdsOf(link[k]) = {}
<1>1. \A k \in Links : IdsOf(link[k]) = Ids(Row(k))
  BY DEF IdsOf, Ids, Row, Exists
<1>2. link[m] # Unknown => link[m].targets \subseteq Destination
  BY RedirectAssumption DEF RedirectInv, TypeOK, Content
<1>3. IdsOf(link[m]) \subseteq Targets  BY <1>2 DEF IdsOf, Ids, Destination
<1> QED  BY <1>1, <1>3 DEF RedirectInv, RowsInv, Exists

LEMMA WriteLinkStep ==
  ASSUME RedirectInv, NEW l \in Links, NEW c \in Contents, WriteLink(l, c)
  PROVE  RedirectInv'
<1> DEFINE removed == Ids(Row(l)) \ Ids(c.targets)
<1>1. /\ l \notin gone /\ Ids(c.targets) \cap gone = {}
      /\ link' = [link EXCEPT ![l] = c] /\ gone' = gone \cup removed /\ LogFollows(removed)
      /\ UNCHANGED <<open, listed, pc, visit>>
  BY DEF WriteLink
<1>2. c # Unknown /\ IdsOf(c) = Ids(c.targets)  BY RedirectAssumption DEF IdsOf
<1>3. \A m \in Links \ {l} : Exists(m) => Ids(link[m].targets) \cap Ids(c.targets) = {}
  BY DEF WriteLink
<1>4. \A m \in Links \ {l} : IdsOf(link[m]) \cap IdsOf(c) = {}
  BY <1>2, <1>3 DEF IdsOf, Exists
<1>5. removed = IdsOf(link[l]) \ IdsOf(c) /\ removed \subseteq Targets
  BY <1>2, IdsAreTargets
<1>6. \A m \in Links : m \notin removed  BY <1>5, RedirectAssumption
<1>7. \A m \in Links \ {l} : IdsOf(link[m]) \cap removed = {}  BY <1>5, IdsAreTargets
<1> HIDE DEF removed
<1>8. /\ removed \in SUBSET (Links \cup Targets)
      /\ IdsOf(link[l]) \subseteq IdsOf(c) \cup removed
      /\ IdsOf(c) \cap (gone \cup removed) = {}
      /\ \A m \in Links \ {l} : IdsOf(link[m]) \cap (removed \cup IdsOf(c)) = {}
      /\ l \notin gone \cup removed /\ c \in Contents \cup {Unknown}
      /\ \A m \in Links \ {l} : m \notin removed
  BY <1>1, <1>2, <1>4, <1>5, <1>6, <1>7
<1> QED  BY <1>1, <1>2, <1>8, LinkChangeKeeps

LEMMA DeleteLinkStep ==
  ASSUME RedirectInv, NEW l \in Links, DeleteLink(l)
  PROVE  RedirectInv'
<1> DEFINE removed == {l} \cup Ids(Row(l))
<1>1. /\ link' = [link EXCEPT ![l] = Unknown] /\ gone' = gone \cup removed
      /\ LogFollows(removed) /\ UNCHANGED <<open, listed, pc, visit>>
  BY DEF DeleteLink
<1>2. IdsOf(Unknown) = {}  BY DEF IdsOf
<1>3. removed = {l} \cup IdsOf(link[l]) /\ IdsOf(link[l]) \subseteq Targets
  BY IdsAreTargets
<1>4. \A m \in Links \ {l} : m \notin removed  BY <1>3, RedirectAssumption
<1>5. \A m \in Links \ {l} : IdsOf(link[m]) \cap removed = {}
  BY <1>3, IdsAreTargets, RedirectAssumption
<1> HIDE DEF removed
<1>6. /\ removed \in SUBSET (Links \cup Targets) /\ l \in removed
      /\ IdsOf(link[l]) \subseteq IdsOf(Unknown) \cup removed
      /\ IdsOf(Unknown) \cap (gone \cup removed) = {}
      /\ \A m \in Links \ {l} : IdsOf(link[m]) \cap (removed \cup IdsOf(Unknown)) = {}
      /\ Unknown \in Contents \cup {Unknown}
  BY <1>2, <1>3, <1>5
<1> QED  BY <1>1, <1>4, <1>6, LinkChangeKeeps

\* A domain or the blacklist changes, or nothing does.
LEMMA ElsewhereStep ==
  ASSUME RedirectInv, UNCHANGED <<link, gone, pc, visit, logs>>,
         open' \in [Domains -> BOOLEAN], listed' \subseteq Ips
  PROVE  RedirectInv'
<1>1. TypeOK'  BY DEF RedirectInv, TypeOK
<1>2. RowsInv'  BY DEF RedirectInv, RowsInv, Row, Exists, Ids
<1>3. ASSUME NEW r \in Requests  PROVE VisitInv(r)' /\ LoggedTruly(r)'
  <2>1. VisitInv(r) /\ LoggedTruly(r)  BY DEF RedirectInv
  <2>2. VisitInv(r)'
    BY <2>1 DEF VisitInv, Carries, Judged, Chosen, Knows, Decided, Wanted, Reason,
                Choices, Exists, Present, Row, Ids
  <2>3. Remembered(r)' = Remembered(r)  BY DEF Remembered, Snapshot
  <2> QED  BY <2>1, <2>2, <2>3 DEF LoggedTruly, Served
<1> QED  BY <1>1, <1>2, <1>3 DEF RedirectInv

LEMMA NextRedirectInv == RedirectInv /\ [Next]_vars => RedirectInv'
<1> SUFFICES ASSUME RedirectInv, [Next]_vars  PROVE RedirectInv'  OBVIOUS
<1>1. open \in [Domains -> BOOLEAN] /\ listed \subseteq Ips  BY DEF RedirectInv, TypeOK
<1>2. ASSUME NEW r \in Requests, Arrive(r) \/ Step(r)  PROVE RedirectInv'
  BY <1>2, ArriveStep, HostStep, ReadLinkStep, ReadTargetsStep, ReadRulesStep, DecideStep,
     ChooseStep, AnswerStep DEF Step
<1>3. ASSUME NEW l \in Links, DeleteLink(l) \/ \E c \in Contents : WriteLink(l, c)
      PROVE  RedirectInv'
  BY <1>3, DeleteLinkStep, WriteLinkStep
<1>4. ASSUME NEW d \in Domains, ToggleDomain(d)  PROVE RedirectInv'
  BY <1>1, <1>4, ElsewhereStep DEF ToggleDomain
<1>5. ASSUME NEW ip \in Ips, ChangeListed(ip)  PROVE RedirectInv'
  BY <1>1, <1>5, ElsewhereStep DEF ChangeListed
<1>6. CASE UNCHANGED vars  BY <1>1, <1>6, ElsewhereStep DEF vars
<1> QED  BY <1>2, <1>3, <1>4, <1>5, <1>6 DEF Next

LEMMA RedirectInvariant == Spec => []RedirectInv
BY InitRedirectInv, NextRedirectInv, PTL DEF Spec

---------------------------------------------------------------------------
(* What follows for every visit.                                           *)

LEMMA InvPrimaryReason == RedirectInv => PrimaryReason
<1> SUFFICES ASSUME RedirectInv, NEW r \in Requests, Decided(r)
             PROVE  IF visit[r].reason = "none" THEN Against(visit[r]) = {}
                    ELSE \E i \in 1..6 :
                           /\ visit[r].reason = Precedence[i]
                           /\ Precedence[i] \in Against(visit[r])
                           /\ \A j \in 1..(i - 1) : Precedence[j] \notin Against(visit[r])
  BY DEF PrimaryReason
<1> DEFINE v == visit[r]
<1>1. v.reason = evaluate_access(v.policy, v.visitor, v.listed, v.fact)
  BY DEF RedirectInv, VisitInv, Judged, Reason
<1> QED  BY <1>1, FirstReason

LEMMA InvAskedWhenItMatters == RedirectInv => AskedWhenItMatters
<1> SUFFICES ASSUME RedirectInv, NEW r \in Requests, Decided(r), Provider,
                    visit[r].visitor.ip # Unknown
             PROVE  visit[r].asked <=> Reason(r, "proxy") # Reason(r, "clean")
  BY DEF AskedWhenItMatters
<1>1. visit[r].asked <=> LookupWanted(visit[r].policy, visit[r].visitor, visit[r].listed)
  BY DEF RedirectInv, VisitInv, Judged, Wanted
<1> QED  BY <1>1, LookupMatters DEF Reason

LEMMA InvRightDestination == RedirectInv => RightDestination
<1> SUFFICES ASSUME RedirectInv, NEW r \in Requests
             PROVE  LET v == visit[r] IN
                    /\ pc[r] = "redirected" =>
                         /\ v.target \in Usable(v.targets, ResultOf(v.reason))
                         /\ v.target.weight = 0 =>
                              \A t \in Usable(v.targets, ResultOf(v.reason)) : t.weight = 0
                    /\ pc[r] = "unavailable" =>
                         /\ Usable(v.targets, ResultOf(v.reason)) = {}
                         /\ v.reason = "none" =>
                              \A c \in Contents : c.note = v.note => link[v.link] # c
  BY DEF RightDestination
<1> DEFINE v == visit[r]
           result == ResultOf(v.reason)
<1>1. VisitInv(r)  BY DEF RedirectInv
<1>2. pc[r] \in AfterChoice => v.targets \in SUBSET Destination
  BY <1>1 DEF VisitInv, Carries, AfterChoice, Visit
<1>3. pc[r] = "redirected" => v.target \in choose_target(v.targets, result)
  BY <1>1 DEF VisitInv, Chosen, AfterChoice, Choices
<1>4. pc[r] = "unavailable" => choose_target(v.targets, result) = {}
  BY <1>1 DEF VisitInv, Chosen, AfterChoice, Choices
<1>5. ASSUME pc[r] = "unavailable", v.reason = "none", NEW c \in Contents, c.note = v.note
      PROVE  link[v.link] # c
  <2>1. Usable(v.targets, "allowed") = {}
    BY <1>2, <1>4, <1>5, ChoicesAreUsable DEF AfterChoice, ResultOf
  <2>2. v.link \in gone /\ v.link \in Links
    BY <1>1, <1>5, <2>1 DEF VisitInv, Knows, Carries, AfterLink, AfterTargets
  <2>3. link[v.link] = Unknown  BY <2>2 DEF RedirectInv, RowsInv, Exists
  <2> QED  BY <2>3, RedirectAssumption
<1> HIDE DEF result
<1>6. pc[r] = "redirected" =>
        /\ v.target \in Usable(v.targets, result)
        /\ v.target.weight = 0 => \A t \in Usable(v.targets, result) : t.weight = 0
  BY <1>2, <1>3, ChoicesAreUsable DEF AfterChoice
<1>7. pc[r] = "unavailable" => Usable(v.targets, result) = {}
  BY <1>2, <1>4, ChoicesAreUsable DEF AfterChoice
<1> QED  BY <1>5, <1>6, <1>7 DEF result

LEMMA InvLogIsTrue == RedirectInv => LogIsTrue
<1> SUFFICES ASSUME RedirectInv  PROVE LogIsTrue  OBVIOUS
<1>1. LogsAreHistory
  BY DEF RedirectInv, LoggedTruly, Remembered, LogsAreHistory
<1>2. UnloggedExplained
  <2> SUFFICES ASSUME NEW r \in Requests, Served(r), logs[r] = Unknown, ~visit[r].failed
               PROVE  ({visit[r].link} \cup Ids({visit[r].target} \ {Unknown})) \cap gone # {}
    BY DEF UnloggedExplained
  <2>1. \/ visit[r].link \in gone
        \/ visit[r].target # Unknown /\ visit[r].target.id \in gone
    BY DEF RedirectInv, LoggedTruly
  <2>2. visit[r].target # Unknown => visit[r].target.id \in Ids({visit[r].target} \ {Unknown})
    BY DEF Ids
  <2> QED  BY <2>1, <2>2
<1> QED  BY <1>1, <1>2 DEF LogIsTrue, RedirectInv

\* The first thing against a visitor, in the documented order, is the reason
\* evaluate_access and decide_access settle on, whatever the provider says.
THEOREM VisitorsGetThePrimaryReason == Spec => []PrimaryReason
BY RedirectInvariant, InvPrimaryReason, PTL

\* decide_access asks for the reputation of an address exactly when the answer
\* can change the decision.
THEOREM LookupsAreMadeWhenTheyMatter == Spec => []AskedWhenItMatters
BY RedirectInvariant, InvAskedWhenItMatters, PTL

\* Visitors reach an active destination of their class, and an error only where
\* there is none, whatever happens to the link between the statements of GET
\* /{short_code} that read it.
THEOREM VisitorsReachTheRightDestination == Spec => []RightDestination
BY RedirectInvariant, InvRightDestination, PTL

\* What write_access_log stored stays true of the visit, and every gap in the
\* log has its cause.
THEOREM TheLogIsTrue == Spec => []LogIsTrue
BY RedirectInvariant, InvLogIsTrue, PTL

\* No step of a visit and no change of a link removes a row of the log.
THEOREM TheLogSurvives == Spec => LogsSurvive
<1> DEFINE Kept == \A r \in Requests : logs[r] # Unknown => logs'[r] # Unknown
<1>1. RedirectInv /\ [Next]_vars => [Kept]_vars
  <2> SUFFICES ASSUME RedirectInv, [Next]_vars, NEW r \in Requests, logs[r] # Unknown
               PROVE  logs'[r] # Unknown
    OBVIOUS
  <2>1. logs[r] \in LogRow /\ Served(r)  BY DEF RedirectInv, TypeOK, LoggedTruly
  <2>2. ASSUME NEW q \in Requests, Arrive(q) \/ Step(q)  PROVE logs'[r] # Unknown
    <3>1. CASE WriteLog(q)
      <4>1. q # r  BY <2>1, <3>1 DEF WriteLog, Served
      <4> QED  BY <3>1, <4>1 DEF WriteLog, RedirectInv, TypeOK
    <3>2. CASE ~WriteLog(q)
      BY <2>2, <3>2 DEF Step, Arrive, UnknownHost, ResolveHost, UnknownLink, NotFound, ReadLink,
                        ReadTargets, ReadPolicy, ReadBlacklist, Decide, Lookup, ChooseTarget,
                        NoTarget, LogRefused, LogFails, Reads
    <3> QED  BY <3>1, <3>2
  <2>3. ASSUME NEW l \in Links, NEW c \in Contents, WriteLink(l, c)  PROVE logs'[r] # Unknown
    BY <2>3, LogStaysTrue DEF WriteLink
  <2>4. ASSUME NEW l \in Links, DeleteLink(l)  PROVE logs'[r] # Unknown
    BY <2>4, LogStaysTrue DEF DeleteLink
  <2>5. ASSUME \/ \E d \in Domains : ToggleDomain(d)
               \/ \E ip \in Ips : ChangeListed(ip)
               \/ UNCHANGED vars
        PROVE  logs'[r] # Unknown
    BY <2>5 DEF ToggleDomain, ChangeListed, vars
  <2> QED  BY <2>2, <2>3, <2>4, <2>5 DEF Next
<1>2. Spec => [][Kept]_vars  BY <1>1, RedirectInvariant, PTL DEF Spec
<1> QED  BY <1>2 DEF LogsSurvive
=============================================================================
