------------------------------ MODULE Redirect ------------------------------
(*************************************************************************)
(* GET /{short_code} of app/api/redirect.py, statement by statement,     *)
(* while links, domains and the blacklist change, and the access log it  *)
(* leaves (app/services/access_log.py).                                  *)
(*                                                                       *)
(* A link with its destinations and its policy is written by one         *)
(* transaction (module ShortLinks): here it changes in one step.  The    *)
(* redirect reads it with three statements, and each sees what is        *)
(* committed when it starts (READ COMMITTED).                            *)
(*************************************************************************)
EXTENDS AccessPolicy, FiniteSets

CONSTANTS
  Links, Domains, Codes,
  Contents,    \* what a link is written as
  Old,         \* contents a link may have before the first write
  Visitors,    \* who calls
  Requests,    \* the calls of one behaviour
  Changing,    \* bound: notes of links around which anything changes meanwhile
  Provider,    \* whether a reputation provider is configured
  Notes        \* what the short_links rows say

\* One aggregate.  Every content has its own note, so that the rest of it can be
\* told from the short_links row.
Content == [domain : Domains, code : Codes, active : BOOLEAN, note : Notes,
            targets : SUBSET Destination, policy : Policy \cup {Unknown}]

ASSUME RedirectAssumption ==
  /\ Contents \cup Old \subseteq Content
  /\ \A c, d \in Contents \cup Old : c.note = d.note => c = d
  /\ \A c \in Contents \cup Old : \A t, u \in c.targets : t.id = u.id => t = u
  \* require_active_allowed_destination, and a policy is always written
  /\ \A c \in Contents : c.policy # Unknown /\ Usable(c.targets, "allowed") # {}
  /\ Visitors \subseteq Visitor
  /\ Changing \subseteq Notes
  /\ Provider \in BOOLEAN
  /\ Unknown \notin Contents \cup Old \cup Links \cup Targets \cup Urls
  \* rows of two tables have identifiers of their own
  /\ Links \cap Targets = {}
  /\ Unknown \notin Destination \cup Policy

VARIABLES
  link,      \* the contents of the links that exist
  gone,      \* links and destinations that were deleted
  open,      \* domains.is_active
  listed,    \* ip_blacklist
  pc,        \* where a call is, or how it was answered
  visit,     \* who calls, what the call has read and decided
  logs       \* the access_logs row of a call, if it has one

tables == <<link, gone, open, listed>>
vars == <<link, gone, open, listed, pc, visit, logs>>

Answers == {"not_found", "redirected", "unavailable"}
Steps == {"idle", "host", "link", "targets", "policy", "blacklist", "deciding",
          "choosing", "logging"} \cup Answers

Visit == [visitor : Visitor, domain : Domains, code : Codes,
          link : Links \cup {Unknown}, note : Notes \cup {Unknown}, targets : SUBSET Destination,
          policy : Policy, listed : BOOLEAN,
          asked : BOOLEAN, fact : ProxyFacts, reason : Reasons,
          target : Destination \cup {Unknown}, failed : BOOLEAN]

LogRow == [link : Links \cup {Unknown}, domain : Domains,
           target : Targets \cup {Unknown}, note : Notes, url : Urls \cup {Unknown},
           result : {"allowed", "blocked", "error"}, reason : Reasons \cup {"other"}]

ASSUME NoLogRow == Unknown \notin LogRow

TypeOK ==
  /\ link \in [Links -> Contents \cup Old \cup {Unknown}]
  /\ gone \subseteq Links \cup Targets
  /\ open \in [Domains -> BOOLEAN]
  /\ listed \subseteq Ips
  /\ pc \in [Requests -> Steps]
  /\ visit \in [Requests -> Visit \cup {Unknown}]
  /\ logs \in [Requests -> LogRow \cup {Unknown}]

Exists(l) == link[l] # Unknown
Row(l) == IF Exists(l) THEN link[l].targets ELSE {}
Ids(rows) == {t.id : t \in rows}
Present == UNION {Ids(Row(l)) : l \in Links}

Init ==
  /\ \E l \in Links, c \in Old : link = [m \in Links |-> IF m = l THEN c ELSE Unknown]
  /\ gone = {}
  /\ open = [d \in Domains |-> TRUE]
  /\ listed \in SUBSET Ips
  /\ pc = [r \in Requests |-> "idle"]
  /\ visit = [r \in Requests |-> Unknown]
  /\ logs = [r \in Requests |-> Unknown]

---------------------------------------------------------------------------
(* What other handlers commit meanwhile.                                   *)

Unsettled == \A l \in Links : Exists(l) => link[l].note \in Changing

\* Faulty variant: the reference to a destination stays when it is deleted.
LogKeepsTarget(removed) ==
  logs' = [r \in Requests |->
    IF logs[r] = Unknown THEN Unknown
    ELSE [logs[r] EXCEPT !.link = IF @ \in removed THEN Unknown ELSE @]]

\* Faulty variant: ON DELETE CASCADE.
LogCascades(removed) ==
  logs' = [r \in Requests |->
    IF logs[r] # Unknown /\ {logs[r].link, logs[r].target} \cap removed # {}
      THEN Unknown ELSE logs[r]]

\* A log row may refer to a link or a destination only while it exists.
LogFollows(removed) ==
  logs' = [r \in Requests |->
    IF logs[r] = Unknown THEN Unknown
    ELSE [logs[r] EXCEPT !.link = IF @ \in removed THEN Unknown ELSE @,
                         !.target = IF @ \in removed THEN Unknown ELSE @]]

\* POST or PUT /api/short-links: identifiers are not used again, and a code
\* belongs to one link of a domain.
WriteLink(l, c) ==
  /\ Unsettled
  /\ l \notin gone
  /\ open[c.domain]
  /\ Exists(l) => link[l].domain = c.domain
  /\ \A m \in Links \ {l} : Exists(m) =>
       /\ <<link[m].domain, link[m].code>> # <<c.domain, c.code>>
       /\ Ids(link[m].targets) \cap Ids(c.targets) = {}
  /\ Ids(c.targets) \cap gone = {}
  /\ link' = [link EXCEPT ![l] = c]
  /\ LET removed == Ids(Row(l)) \ Ids(c.targets) IN
       gone' = gone \cup removed /\ LogFollows(removed)
  /\ UNCHANGED <<open, listed, pc, visit>>

\* DELETE /api/short-links/{id}
DeleteLink(l) ==
  /\ Unsettled
  /\ Exists(l)
  /\ open[link[l].domain]
  /\ link' = [link EXCEPT ![l] = Unknown]
  /\ LET removed == {l} \cup Ids(Row(l)) IN
       gone' = gone \cup removed /\ LogFollows(removed)
  /\ UNCHANGED <<open, listed, pc, visit>>

\* PUT or DELETE /api/domains/{id}; a domain is never removed.
ToggleDomain(d) ==
  /\ Unsettled
  /\ open' = [open EXCEPT ![d] = ~@]
  /\ UNCHANGED <<link, gone, listed, pc, visit, logs>>

\* POST, DELETE or PUT /api/security/ip-blacklist: an address is added, removed,
\* or becomes another.
ChangeListed(ip) ==
  /\ Unsettled
  /\ listed' \in {listed \cup {ip}, listed \ {ip}} \cup
                 {(listed \ {ip}) \cup {new} : new \in IF ip \in listed THEN Ips ELSE {}}
  /\ UNCHANGED <<link, gone, open, pc, visit, logs>>

---------------------------------------------------------------------------
Goto(r, step) == pc' = [pc EXCEPT ![r] = step]
Reads(r) == UNCHANGED <<tables, logs>>

Arrive(r) ==
  /\ pc[r] = "idle"
  /\ \E v \in Visitors, d \in Domains, c \in Codes :
       visit' = [visit EXCEPT ![r] =
         [visitor |-> v, domain |-> d, code |-> c, link |-> Unknown, note |-> Unknown,
          targets |-> {}, policy |-> NoRules, listed |-> FALSE,
          asked |-> FALSE, fact |-> "unknown", reason |-> "none",
          target |-> Unknown, failed |-> FALSE]]
  /\ Goto(r, "host")
  /\ Reads(r)

NotFound(r) == Goto(r, "not_found") /\ Reads(r) /\ UNCHANGED visit

UnknownHost(r) ==
  /\ pc[r] = "host"
  /\ ~open[visit[r].domain]
  /\ NotFound(r)

ResolveHost(r) ==
  /\ pc[r] = "host"
  /\ open[visit[r].domain]
  /\ Goto(r, "link")
  /\ Reads(r)
  /\ UNCHANGED visit

\* The active links of the domain with the code; there is at most one.
Found(r) ==
  {l \in Links : Exists(l) /\ link[l].active /\ link[l].domain = visit[r].domain
                           /\ link[l].code = visit[r].code}

UnknownLink(r) ==
  /\ pc[r] = "link"
  /\ Found(r) = {}
  /\ NotFound(r)

ReadLink(r) ==
  /\ pc[r] = "link"
  /\ \E l \in Found(r) :
       visit' = [visit EXCEPT ![r].link = l, ![r].note = link[l].note]
  /\ Goto(r, "targets")
  /\ Reads(r)

\* The two selectinload statements.
ReadTargets(r) ==
  /\ pc[r] = "targets"
  /\ visit' = [visit EXCEPT ![r].targets = Row(visit[r].link)]
  /\ Goto(r, "policy")
  /\ Reads(r)

ReadPolicy(r) ==
  /\ pc[r] = "policy"
  /\ LET l == visit[r].link IN
       visit' = [visit EXCEPT ![r].policy =
         IF Exists(l) /\ link[l].policy # Unknown THEN link[l].policy ELSE NoRules]
  /\ Goto(r, "blacklist")
  /\ Reads(r)

ReadBlacklist(r) ==
  /\ pc[r] = "blacklist"
  /\ visit' = [visit EXCEPT ![r].listed = visit[r].visitor.ip \in listed]
  /\ Goto(r, "deciding")
  /\ Reads(r)

---------------------------------------------------------------------------
(* decide_access, then choose_target.                                      *)

Wanted(r) == Provider /\ LookupWanted(visit[r].policy, visit[r].visitor, visit[r].listed)

Reason(r, fact) ==
  evaluate_access(visit[r].policy, visit[r].visitor, visit[r].listed, fact)

Decide(r) ==
  /\ pc[r] = "deciding"
  /\ ~Wanted(r)
  /\ visit' = [visit EXCEPT ![r].reason = Reason(r, "unknown")]
  /\ Goto(r, "choosing")
  /\ Reads(r)

\* Faulty variant: no timeout, and the provider stays silent.
LookupSilent(r) ==
  /\ pc[r] = "deciding"
  /\ Wanted(r)
  /\ \E fact \in {} :
       visit' = [visit EXCEPT ![r].asked = TRUE, ![r].fact = fact]
  /\ Goto(r, "choosing")
  /\ Reads(r)

\* get_proxy_result: a cached or fresh answer, or none.
Lookup(r) ==
  /\ pc[r] = "deciding"
  /\ Wanted(r)
  /\ \E fact \in ProxyFacts :
       visit' = [visit EXCEPT ![r].asked = TRUE, ![r].fact = fact,
                              ![r].reason = Reason(r, fact)]
  /\ Goto(r, "choosing")
  /\ Reads(r)

Choices(r) == choose_target(visit[r].targets, ResultOf(visit[r].reason))

ChooseTarget(r) ==
  /\ pc[r] = "choosing"
  /\ \E t \in Choices(r) : visit' = [visit EXCEPT ![r].target = t]
  /\ Goto(r, "logging")
  /\ Reads(r)

NoTarget(r) ==
  /\ pc[r] = "choosing"
  /\ Choices(r) = {}
  /\ Goto(r, "logging")
  /\ Reads(r)
  /\ UNCHANGED visit

---------------------------------------------------------------------------
(* write_access_log, whose failures are swallowed, and the answer.         *)

\* _snapshot
Snapshot(r) ==
  LET v == visit[r]
      none == v.target = Unknown
  IN [link |-> v.link, domain |-> v.domain,
      target |-> IF none THEN Unknown ELSE v.target.id,
      note |-> v.note,
      url |-> IF none THEN Unknown ELSE v.target.url,
      result |-> IF none THEN "error" ELSE ResultOf(v.reason),
      reason |-> IF none THEN "other" ELSE v.reason]

\* The foreign keys of the row hold.
Refers(r) ==
  /\ Exists(visit[r].link)
  /\ visit[r].target # Unknown => visit[r].target.id \in Present

Answer(r) ==
  Goto(r, IF visit[r].target = Unknown THEN "unavailable" ELSE "redirected")

WriteLog(r) ==
  /\ pc[r] = "logging"
  /\ Refers(r)
  /\ logs' = [logs EXCEPT ![r] = Snapshot(r)]
  /\ Answer(r)
  /\ UNCHANGED <<tables, visit>>

LogRefused(r) ==
  /\ pc[r] = "logging"
  /\ ~Refers(r)
  /\ Answer(r)
  /\ UNCHANGED <<tables, visit, logs>>

\* The database fails instead.
LogFails(r) ==
  /\ pc[r] = "logging"
  /\ visit' = [visit EXCEPT ![r].failed = TRUE]
  /\ Answer(r)
  /\ UNCHANGED <<tables, logs>>

---------------------------------------------------------------------------
Step(r) ==
  \/ UnknownHost(r) \/ ResolveHost(r) \/ UnknownLink(r) \/ ReadLink(r)
  \/ ReadTargets(r) \/ ReadPolicy(r) \/ ReadBlacklist(r)
  \/ Decide(r) \/ Lookup(r) \/ ChooseTarget(r) \/ NoTarget(r)
  \/ WriteLog(r) \/ LogRefused(r) \/ LogFails(r)

Next ==
  \/ \E r \in Requests : Arrive(r) \/ Step(r)
  \/ \E l \in Links : DeleteLink(l) \/ \E c \in Contents : WriteLink(l, c)
  \/ \E d \in Domains : ToggleDomain(d)
  \/ \E ip \in Ips : ChangeListed(ip)

Spec == Init /\ [][Next]_vars

FairSpec == Spec /\ \A r \in Requests : WF_vars(Step(r))

---------------------------------------------------------------------------
Decided(r) == pc[r] \in {"choosing", "logging", "redirected", "unavailable"}
Served(r) == pc[r] \in {"redirected", "unavailable"}

\* The order of the redirect flow in the design.
Precedence == <<"ip", "bot", "proxy", "country", "platform", "referer">>

\* What there is against the visitor of v, in no order.
Against(v) ==
  {reason \in Reasons :
    \/ reason = "ip" /\ v.listed
    \/ reason = "bot" /\ v.policy.block_bot /\ IsBot(v.visitor)
    \/ reason = "proxy" /\ v.policy.block_proxy /\ (IsBot(v.visitor) \/ v.fact = "proxy")
    \/ reason = "country" /\ Excludes(v.policy.country_mode, v.visitor.country \in v.policy.countries)
    \/ reason = "platform" /\ Excludes(v.policy.platform_mode, v.visitor.platform \in v.policy.platforms)
    \/ reason = "referer" /\ Excludes(v.policy.referer_mode,
                                     RefererMatches(v.visitor.referer, v.policy.patterns))}

\* The first thing against a visitor, in the documented order, is the reason,
\* although the reputation of an address is only asked for in a second round;
\* an unknown reputation is nothing against anybody (fails open).
PrimaryReason ==
  \A r \in Requests : Decided(r) =>
    IF visit[r].reason = "none" THEN Against(visit[r]) = {}
    ELSE \E i \in 1..6 :
           /\ visit[r].reason = Precedence[i]
           /\ Precedence[i] \in Against(visit[r])
           /\ \A j \in 1..(i - 1) : Precedence[j] \notin Against(visit[r])

\* A lookup, which is paid for, is made exactly when its outcome can change the
\* decision.
AskedWhenItMatters ==
  \A r \in Requests : Decided(r) /\ Provider /\ visit[r].visitor.ip # Unknown =>
    (visit[r].asked <=> Reason(r, "proxy") # Reason(r, "clean"))

\* Visitors reach active destinations of the class of the decision, those
\* without weight only when there are no others; they get an error only when
\* the class is empty, which it never is for allowed visitors of a written link
\* that is still what it was when they came.
RightDestination ==
  \A r \in Requests :
    LET v == visit[r] IN
    /\ pc[r] = "redirected" =>
         /\ v.target \in Usable(v.targets, ResultOf(v.reason))
         /\ v.target.weight = 0 =>
              \A t \in Usable(v.targets, ResultOf(v.reason)) : t.weight = 0
    /\ pc[r] = "unavailable" =>
         /\ Usable(v.targets, ResultOf(v.reason)) = {}
         /\ v.reason = "none" =>
              \A c \in Contents : c.note = v.note => link[v.link] # c

\* The log says for ever what the visitor got; only references to rows that
\* were deleted since are lost.
LogsAreHistory ==
  \A r \in Requests : logs[r] # Unknown =>
    LET said == Snapshot(r) IN
    /\ Served(r)
    /\ logs[r] = [said EXCEPT !.link = IF @ \in gone THEN Unknown ELSE @,
                              !.target = IF @ \in gone THEN Unknown ELSE @]

\* A row of the log is never removed.
LogsSurvive == [][\A r \in Requests : logs[r] # Unknown => logs'[r] # Unknown]_vars

\* A visit that is not in the log was served while the database failed, or
\* while its link or destination was deleted.
UnloggedExplained ==
  \A r \in Requests : Served(r) /\ logs[r] = Unknown =>
    visit[r].failed \/ ({visit[r].link} \cup Ids({visit[r].target} \ {Unknown})) \cap gone # {}

\* The log is true to what visitors got, in what it says and in what it lacks.
LogIsTrue ==
  /\ TypeOK
  /\ LogsAreHistory
  /\ UnloggedExplained

\* Every visit is answered: the lookup has a timeout and the log cannot fail it.
EveryVisitAnswered == \A r \in Requests : pc[r] # "idle" ~> pc[r] \in Answers

===========================================================================
