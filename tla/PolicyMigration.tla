--------------------------- MODULE PolicyMigration ---------------------------
(*************************************************************************)
(* The ordered rules of the previous version, their conversion to one    *)
(* policy per link (app/services/policy_migration.py), and the two       *)
(* programs that convert every link: scripts/check_policy_migration.py,  *)
(* which only reports, and the upgrade of the schema, which writes the   *)
(* policies and drops the rules in one transaction.  Both read the rules *)
(* link by link while administrators of the previous version, until it   *)
(* is stopped, go on changing them.                                      *)
(*************************************************************************)
EXTENDS AccessPolicy

CONSTANTS
  Links,
  Programs,   \* "upgrade", and "check" where the script runs
  Odd,        \* a country or platform that has no normal form
  LegacyLinks,  \* the [default, rules] that the previous version may hold
  Edited,     \* bound: what links are changed to
  Starts      \* bound: the rules of the links, and how often they are changed

LEGACY_PLATFORM_MAP ==
  [mobile |-> "smartphone", pc |-> "desktop", tablet |-> "tablet", other |-> "other"]

\* A listed value, which may be padded with blanks.  Capital letters are left out: both versions fold them.
CountryEntry == [value : Countries \cup {Odd}, padded : BOOLEAN]
PlatformEntry == [value : DOMAIN LEGACY_PLATFORM_MAP \cup {Odd}, padded : BOOLEAN]

\* A row of access_rules; "referer" says that the pattern is not empty.
Rule == [action : {"allow", "deny"}, countries : SUBSET CountryEntry,
         platforms : SUBSET PlatformEntry, referer : BOOLEAN,
         allow_proxy : BOOLEAN, allow_bot : BOOLEAN, active : BOOLEAN]

\* The rules of a link are listed in their order of priority and id.
LegacyLink == [default : {"allow", "deny"}, rules : Seq(Rule)]

ASSUME MigrationAssumption ==
  /\ "upgrade" \in Programs /\ Programs \subseteq {"check", "upgrade"}
  /\ \A link \in LegacyLinks : link \in LegacyLink
  /\ Edited \subseteq LegacyLinks
  /\ \A start \in Starts : start.legacy \in [Links -> LegacyLinks] /\ start.edits \in Nat
  /\ {LEGACY_PLATFORM_MAP[name] : name \in DOMAIN LEGACY_PLATFORM_MAP} \subseteq Platforms
  /\ Unknown \notin Policy

---------------------------------------------------------------------------
(* What the rules decide (the evaluator kept in tests/test_policy_migration.py). *)

NamesCountry(entry, visitor) == ~entry.padded /\ entry.value = visitor.country

NamesPlatform(entry, visitor) ==
  /\ ~entry.padded
  /\ entry.value \in DOMAIN LEGACY_PLATFORM_MAP
  /\ LEGACY_PLATFORM_MAP[entry.value] = visitor.platform

Applies(rule, visitor, fact) ==
  /\ rule.active
  /\ rule.countries # {} => \E entry \in rule.countries : NamesCountry(entry, visitor)
  /\ IF IsBot(visitor)
       THEN rule.allow_bot
       ELSE rule.platforms # {} => \E entry \in rule.platforms : NamesPlatform(entry, visitor)
  /\ fact = "proxy" => rule.allow_proxy

\* The first rule that applies decides, the default if none does.
legacy_decision(link, visitor, fact) ==
  IF \E i \in DOMAIN link.rules :
       /\ Applies(link.rules[i], visitor, fact)
       /\ \A j \in 1..(i - 1) : ~Applies(link.rules[j], visitor, fact)
       /\ link.rules[i].action # link.default
    THEN IF link.default = "allow" THEN "deny" ELSE "allow"
    ELSE link.default

\* What the policy that replaces them decides.
new_decision(policy, visitor, fact) ==
  IF evaluate_access(IF policy = Unknown THEN NoRules ELSE policy, visitor, FALSE, fact) = "none"
    THEN "allow" ELSE "deny"

---------------------------------------------------------------------------
(* The conversion.                                                          *)

Normalizable(rule) ==
  \A entry \in rule.countries \cup rule.platforms : entry.value # Odd

\* Faulty variant: bots are thought to be subject to a list of platforms.
BotsAsPlatforms(rule, default) ==
  /\ {default, rule.action} = {"allow", "deny"}
  /\ Normalizable(rule)
  /\ ~rule.referer
  /\ rule.countries = {} \/ rule.platforms = {}
  /\ (rule.allow_proxy /\ rule.allow_bot) \/ rule.action = "allow"
  /\ ~rule.allow_proxy => ~rule.allow_bot
  /\ rule.countries = {} /\ rule.platforms = {} => rule.action = "allow"

\* A single rule is converted if a policy can say the same of every visitor.
IsOneException(rule, default) ==
  /\ {default, rule.action} = {"allow", "deny"}
  /\ Normalizable(rule)
  /\ ~rule.referer
  /\ rule.countries = {} \/ rule.platforms = {}
  /\ (rule.allow_proxy /\ rule.allow_bot) \/ rule.action = "allow"
  /\ rule.platforms # {} => rule.action = "allow" /\ ~rule.allow_bot
  /\ ~rule.allow_proxy => ~rule.allow_bot
  /\ rule.countries = {} /\ rule.platforms = {} => rule.action = "allow"

ActiveRules(link) == {i \in DOMAIN link.rules : link.rules[i].active}

Convertible(link) ==
  LET active == ActiveRules(link) IN
    \/ active = {} /\ link.default = "allow"
    \/ \E i \in active : active = {i} /\ IsOneException(link.rules[i], link.default)

ConvertedPolicy(rule) ==
  LET mode == IF rule.action = "allow" THEN "allow" ELSE "block"
      countries == {entry.value : entry \in rule.countries}
      platforms == {LEGACY_PLATFORM_MAP[entry.value] : entry \in rule.platforms}
  IN [country_mode |-> IF countries = {} THEN "off" ELSE mode, countries |-> countries,
      platform_mode |-> IF platforms = {} THEN "off" ELSE mode, platforms |-> platforms,
      referer_mode |-> "off", patterns |-> {},
      block_proxy |-> ~rule.allow_proxy, block_bot |-> ~rule.allow_bot]

\* The policy of a convertible link; none for a rule without any condition.
convert_legacy_policy(link) ==
  IF ActiveRules(link) = {} THEN Unknown
  ELSE LET rule == link.rules[CHOOSE i \in ActiveRules(link) : TRUE] IN
         IF rule.countries = {} /\ rule.platforms = {} /\ rule.allow_proxy /\ rule.allow_bot
           THEN Unknown
           ELSE ConvertedPolicy(rule)

---------------------------------------------------------------------------
VARIABLES
  legacy,     \* link -> its default and rules; the last ones, once dropped
  frozen,     \* the previous version has been stopped
  policies,   \* link_policies: link -> policy, Unknown without a row
  upgraded,   \* the schema is the new one
  edits,      \* how often rules will still be changed
  pc,         \* program -> "idle", "reading", "passed" or "failed"
  defaults,   \* program -> link -> the default it has listed
  todo,       \* program -> links whose rules it has not read yet
  converted,  \* program -> link -> the policy it made of what it read
  failures,   \* program -> links it could not convert
  dirty       \* program -> whether rules were changed since it began

vars == <<legacy, frozen, policies, upgraded, edits, pc, defaults, todo, converted,
          failures, dirty>>

NoPolicies == [link \in Links |-> Unknown]
Defaults == [link \in Links |-> legacy[link].default]

\* Types; among them, that a converted policy is one that the service itself
\* would accept.
TypeOK ==
  /\ legacy \in [Links -> LegacyLinks]
  /\ frozen \in BOOLEAN /\ upgraded \in BOOLEAN
  /\ edits \in Nat
  /\ pc \in [Programs -> {"idle", "reading", "passed", "failed"}]
  /\ defaults \in [Programs -> [Links -> {"allow", "deny"}]]
  /\ todo \in [Programs -> SUBSET Links]
  /\ failures \in [Programs -> SUBSET Links]
  /\ dirty \in [Programs -> BOOLEAN]
  /\ policies \in [Links -> Policy \cup {Unknown}]
  /\ converted \in [Programs -> [Links -> Policy \cup {Unknown}]]

Init ==
  /\ \E start \in Starts : legacy = start.legacy /\ edits = start.edits
  /\ frozen = FALSE /\ upgraded = FALSE
  /\ policies = NoPolicies
  /\ pc = [program \in Programs |-> "idle"]
  /\ defaults = [program \in Programs |-> Defaults]
  /\ todo = [program \in Programs |-> {}]
  /\ converted = [program \in Programs |-> NoPolicies]
  /\ failures = [program \in Programs |-> {}]
  /\ dirty = [program \in Programs |-> FALSE]

---------------------------------------------------------------------------
\* An administrator of the previous version, or the operator by SQL, changes
\* the rules of a link.
Edit ==
  /\ ~frozen /\ ~upgraded /\ edits > 0
  /\ \E link \in Links, new \in Edited : legacy' = [legacy EXCEPT ![link] = new]
  /\ edits' = edits - 1
  /\ dirty' = [program \in Programs |-> TRUE]
  /\ UNCHANGED <<frozen, policies, upgraded, pc, defaults, todo, converted, failures>>

\* The previous version is stopped before the upgrade, and started again only
\* when the upgrade has failed.
Freeze ==
  /\ ~upgraded /\ pc["upgrade"] # "reading"
  /\ frozen' = ~frozen
  /\ UNCHANGED <<legacy, policies, upgraded, edits, pc, defaults, todo, converted, failures, dirty>>

\* SELECT id, default_action FROM short_links.
ReadLinks(program) ==
  /\ pc[program] # "reading" /\ ~upgraded
  /\ program = "upgrade" => frozen
  /\ pc' = [pc EXCEPT ![program] = "reading"]
  /\ defaults' = [defaults EXCEPT ![program] = Defaults]
  /\ todo' = [todo EXCEPT ![program] = Links]
  /\ converted' = [converted EXCEPT ![program] = NoPolicies]
  /\ failures' = [failures EXCEPT ![program] = {}]
  /\ dirty' = [dirty EXCEPT ![program] = FALSE]
  /\ UNCHANGED <<legacy, frozen, policies, upgraded, edits>>

\* What a program knows of a link once it has read its rules.
Found(program, link) == [default |-> defaults[program][link], rules |-> legacy[link].rules]

\* Faulty variant: the first failure ends the search.
ConvertUntilFailure(program, link) ==
  /\ pc[program] = "reading" /\ link \in todo[program] /\ ~upgraded
  /\ IF Convertible(Found(program, link))
       THEN /\ converted' =
                 [converted EXCEPT ![program][link] = convert_legacy_policy(Found(program, link))]
            /\ todo' = [todo EXCEPT ![program] = @ \ {link}]
            /\ UNCHANGED failures
       ELSE /\ failures' = [failures EXCEPT ![program] = @ \cup {link}]
            /\ todo' = [todo EXCEPT ![program] = {}]
            /\ UNCHANGED converted
  /\ UNCHANGED <<legacy, frozen, policies, upgraded, edits, pc, defaults, dirty>>

\* SELECT ... FROM access_rules WHERE short_link_id = :link_id, and the
\* conversion of what it returns.
Convert(program, link) ==
  /\ pc[program] = "reading" /\ link \in todo[program] /\ ~upgraded
  /\ IF Convertible(Found(program, link))
       THEN /\ converted' =
                 [converted EXCEPT ![program][link] = convert_legacy_policy(Found(program, link))]
            /\ UNCHANGED failures
       ELSE /\ failures' = [failures EXCEPT ![program] = @ \cup {link}]
            /\ UNCHANGED converted
  /\ todo' = [todo EXCEPT ![program] = @ \ {link}]
  /\ UNCHANGED <<legacy, frozen, policies, upgraded, edits, pc, defaults, dirty>>

\* The script reports, or the upgrade raises, all failures together.
Report(program) ==
  /\ pc[program] = "reading" /\ todo[program] = {}
  /\ program = "upgrade" => failures[program] # {}
  /\ pc' = [pc EXCEPT ![program] = IF failures[program] = {} THEN "passed" ELSE "failed"]
  /\ UNCHANGED <<legacy, frozen, policies, upgraded, edits, defaults, todo, converted, failures, dirty>>

\* The policies are inserted, the rules dropped and the transaction committed.
CommitUpgrade ==
  /\ pc["upgrade"] = "reading" /\ todo["upgrade"] = {}
  /\ failures["upgrade"] = {}
  /\ policies' = converted["upgrade"]
  /\ upgraded' = TRUE
  /\ pc' = [pc EXCEPT !["upgrade"] = "passed"]
  /\ UNCHANGED <<legacy, frozen, edits, defaults, todo, converted, failures, dirty>>

\* A program dies; the transaction of the upgrade is rolled back.  The script
\* also dies when it finds the columns that it reads gone.
Die(program) ==
  /\ pc[program] = "reading"
  /\ pc' = [pc EXCEPT ![program] = "idle"]
  /\ UNCHANGED <<legacy, frozen, policies, upgraded, edits, defaults, todo, converted, failures, dirty>>

Next ==
  \/ Edit \/ Freeze \/ CommitUpgrade
  \/ \E program \in Programs :
       \/ ReadLinks(program) \/ Report(program) \/ Die(program)
       \/ \E link \in Links : Convert(program, link)

Spec == Init /\ [][Next]_vars

---------------------------------------------------------------------------
(* Properties.                                                              *)

Padded(link) ==
  \E i \in DOMAIN link.rules :
    \E entry \in link.rules[i].countries \cup link.rules[i].platforms : entry.padded

\* After the upgrade every visitor of every link is let in or turned away as
\* the rules would have done, whatever is known of the visitor's address.  Not
\* so for values with blanks around them, which the rules never matched and the
\* conversion strips.
DecidesAsBefore ==
  upgraded => \A link \in Links, visitor \in Visitor, fact \in ProxyFacts :
    Padded(legacy[link]) \/ new_decision(policies[link], visitor, fact) = legacy_decision(legacy[link], visitor, fact)

\* A check or an upgrade that ends while nobody has changed the rules since it
\* began has found all the links that cannot be converted, and no other: so an
\* upgrade after a clean check and no change is not refused.
ReportIsComplete ==
  \A program \in Programs :
    pc[program] \in {"passed", "failed"} /\ ~dirty[program] =>
      failures[program] = {link \in Links : ~Convertible(legacy[link])}

===========================================================================
