------------------------ MODULE PolicyMigrationProofs ------------------------
(*************************************************************************)
(* Proofs about PolicyMigration, for any links, rules, countries and     *)
(* visitors: an upgrade changes nobody's access, of the links whose      *)
(* listed values are not surrounded by blanks.                           *)
(*************************************************************************)
EXTENDS PolicyMigration, TLAPS

\* What an upgrade knows while it runs, and what it leaves.
UpgradeInv ==
  /\ TypeOK
  /\ pc["upgrade"] = "reading" =>
       /\ frozen /\ ~upgraded
       /\ \A link \in Links :
            /\ defaults["upgrade"][link] = legacy[link].default
            /\ link \in todo["upgrade"] \/ link \in failures["upgrade"]
                 \/ /\ Convertible(legacy[link])
                    /\ converted["upgrade"][link] = convert_legacy_policy(legacy[link])
  /\ upgraded => \A link \in Links :
       /\ Convertible(legacy[link])
       /\ policies[link] = convert_legacy_policy(legacy[link])

---------------------------------------------------------------------------
(* The conversion.                                                          *)

LEMMA OneActiveRule ==
  ASSUME NEW link \in LegacyLink, Convertible(link), ActiveRules(link) # {}
  PROVE  \E i \in DOMAIN link.rules :
           /\ ActiveRules(link) = {i}
           /\ link.rules[i] \in Rule
           /\ IsOneException(link.rules[i], link.default)
           /\ (CHOOSE j \in ActiveRules(link) : TRUE) = i
<1>1. PICK i \in ActiveRules(link) :
        ActiveRules(link) = {i} /\ IsOneException(link.rules[i], link.default)
  BY DEF Convertible
<1>2. i \in DOMAIN link.rules  BY DEF ActiveRules
<1>3. link.rules[i] \in Rule  BY <1>2 DEF LegacyLink
<1>4. (CHOOSE j \in {i} : TRUE) = i  OBVIOUS
<1> QED  BY <1>1, <1>2, <1>3, <1>4

\* With one active rule, the rules decide as that rule does.
LEMMA OneRuleDecides ==
  ASSUME NEW link \in LegacyLink, NEW i \in DOMAIN link.rules, ActiveRules(link) = {i},
         NEW visitor, NEW fact
  PROVE  legacy_decision(link, visitor, fact) =
           IF Applies(link.rules[i], visitor, fact) /\ link.rules[i].action # link.default
             THEN IF link.default = "allow" THEN "deny" ELSE "allow"
             ELSE link.default
<1>1. \A j \in DOMAIN link.rules : Applies(link.rules[j], visitor, fact) => j = i
  BY DEF ActiveRules, Applies
<1>2. link.rules \in Seq(Rule)  BY DEF LegacyLink
<1>3. DOMAIN link.rules = 1..Len(link.rules) /\ Len(link.rules) \in Nat  BY <1>2
<1>4. i \in Int /\ \A j \in 1..(i - 1) : j \in DOMAIN link.rules /\ j # i  BY <1>3
<1>5. \A j \in 1..(i - 1) : ~Applies(link.rules[j], visitor, fact)  BY <1>1, <1>4
<1> QED  BY <1>1, <1>5 DEF legacy_decision

\* Without active rules the default decides.
LEMMA NoRuleDecides ==
  ASSUME NEW link, ActiveRules(link) = {}, NEW visitor, NEW fact
  PROVE  legacy_decision(link, visitor, fact) = link.default
BY DEF ActiveRules, Applies, legacy_decision

\* A list of values names a visitor before and after the conversion alike.
LEMMA ListsAgree ==
  ASSUME NEW rule \in Rule, Normalizable(rule), NEW visitor,
         \A entry \in rule.countries \cup rule.platforms : ~entry.padded
  PROVE  /\ (visitor.country \in ConvertedPolicy(rule).countries)
              <=> \E entry \in rule.countries : NamesCountry(entry, visitor)
         /\ (visitor.platform \in ConvertedPolicy(rule).platforms)
              <=> \E entry \in rule.platforms : NamesPlatform(entry, visitor)
         /\ \A entry \in rule.platforms : LEGACY_PLATFORM_MAP[entry.value] # "bot"
<1>1. \A entry \in rule.countries : entry.padded = FALSE /\ entry.value \in Countries
  BY DEF Rule, CountryEntry, Normalizable
<1>2. \A entry \in rule.platforms :
        /\ entry.padded = FALSE
        /\ entry.value \in DOMAIN LEGACY_PLATFORM_MAP
  BY DEF Rule, PlatformEntry, Normalizable
<1>3. /\ ConvertedPolicy(rule).countries = {entry.value : entry \in rule.countries}
      /\ ConvertedPolicy(rule).platforms = {LEGACY_PLATFORM_MAP[entry.value] : entry \in rule.platforms}
  BY DEF ConvertedPolicy
<1>4. \A entry \in rule.platforms : LEGACY_PLATFORM_MAP[entry.value] # "bot"
  BY <1>2 DEF LEGACY_PLATFORM_MAP
<1> QED  BY <1>1, <1>2, <1>3, <1>4 DEF NamesCountry, NamesPlatform

\* What a converted rule becomes is a policy.
LEMMA ConvertedIsPolicy ==
  ASSUME NEW rule \in Rule, Normalizable(rule)
  PROVE  ConvertedPolicy(rule) \in Policy
<1> DEFINE policy == ConvertedPolicy(rule)
<1>1. policy.countries \in SUBSET Countries
  BY DEF Rule, CountryEntry, Normalizable, ConvertedPolicy
<1>2. \A entry \in rule.platforms : LEGACY_PLATFORM_MAP[entry.value] \in Platforms
  BY MigrationAssumption DEF Rule, PlatformEntry, Normalizable
<1>3. policy.platforms \in SUBSET Platforms
  BY <1>2 DEF ConvertedPolicy
<1>4. policy.block_proxy \in BOOLEAN /\ policy.block_bot \in BOOLEAN
  BY DEF Rule, ConvertedPolicy
<1>5. /\ policy.country_mode \in Modes /\ (policy.country_mode = "allow" => policy.countries # {})
      /\ policy.platform_mode \in Modes /\ (policy.platform_mode = "allow" => policy.platforms # {})
      /\ policy.referer_mode = "off" /\ policy.patterns = {}
  BY DEF ConvertedPolicy, Modes
<1>6. policy = [country_mode |-> policy.country_mode, countries |-> policy.countries,
                platform_mode |-> policy.platform_mode, platforms |-> policy.platforms,
                referer_mode |-> "off", patterns |-> {},
                block_proxy |-> policy.block_proxy, block_bot |-> policy.block_bot]
  BY DEF ConvertedPolicy
<1> HIDE DEF policy
<1>7. policy \in Policy
  BY <1>1, <1>3, <1>4, <1>5, <1>6 DEF Policy, Modes
<1> QED  BY <1>7 DEF policy

\* A converted rule decides as its policy.
LEMMA ExceptionIsExact ==
  ASSUME NEW rule \in Rule, NEW default \in {"allow", "deny"}, rule.active,
         \A entry \in rule.countries \cup rule.platforms : ~entry.padded,
         IsOneException(rule, default),
         NEW visitor \in Visitor, NEW fact \in ProxyFacts
  PROVE  (evaluate_access(ConvertedPolicy(rule), visitor, FALSE, fact) = "none")
           <=> (Applies(rule, visitor, fact) <=> rule.action = "allow")
<1> DEFINE policy == ConvertedPolicy(rule)
           named(values) == visitor.country \in values
           listedCountry == \E entry \in rule.countries : NamesCountry(entry, visitor)
           listedPlatform == \E entry \in rule.platforms : NamesPlatform(entry, visitor)
<1>1. /\ rule.action \in {"allow", "deny"}
      /\ rule.allow_proxy \in BOOLEAN /\ rule.allow_bot \in BOOLEAN
  BY DEF Rule
<1>2. /\ (visitor.country \in policy.countries) <=> listedCountry
      /\ (visitor.platform \in policy.platforms) <=> listedPlatform
      /\ IsBot(visitor) => ~listedPlatform
  <2>1. Normalizable(rule)  BY DEF IsOneException
  <2>2. IsBot(visitor) => ~listedPlatform
    BY <2>1, ListsAgree DEF IsBot, NamesPlatform
  <2> QED  BY <2>1, <2>2, ListsAgree
<1>3. /\ policy.country_mode = IF rule.countries = {} THEN "off"
                               ELSE IF rule.action = "allow" THEN "allow" ELSE "block"
      /\ policy.platform_mode = IF rule.platforms = {} THEN "off"
                                ELSE IF rule.action = "allow" THEN "allow" ELSE "block"
      /\ policy.referer_mode = "off"
      /\ policy.block_proxy = ~rule.allow_proxy
      /\ policy.block_bot = ~rule.allow_bot
  BY DEF ConvertedPolicy
<1>4. Excludes(policy.country_mode, visitor.country \in policy.countries)
        <=> rule.countries # {} /\ (listedCountry <=> rule.action # "allow")
  BY <1>1, <1>2, <1>3 DEF Excludes
<1>5. Excludes(policy.platform_mode, visitor.platform \in policy.platforms)
        <=> rule.platforms # {} /\ (listedPlatform <=> rule.action # "allow")
  BY <1>1, <1>2, <1>3 DEF Excludes
<1>6. ~Excludes(policy.referer_mode, RefererMatches(visitor.referer, policy.patterns))
  BY <1>3 DEF Excludes
<1>7. ProxyBlocked(policy, visitor, fact) <=> ~rule.allow_proxy /\ (IsBot(visitor) \/ fact = "proxy")
  BY <1>1, <1>3 DEF ProxyBlocked
<1>8. (evaluate_access(policy, visitor, FALSE, fact) = "none")
        <=> /\ ~(IsBot(visitor) /\ ~rule.allow_bot)
            /\ ~(~rule.allow_proxy /\ (IsBot(visitor) \/ fact = "proxy"))
            /\ ~(rule.countries # {} /\ (listedCountry <=> rule.action # "allow"))
            /\ ~(rule.platforms # {} /\ (listedPlatform <=> rule.action # "allow"))
  BY <1>3, <1>4, <1>5, <1>6, <1>7 DEF evaluate_access
<1>9. Applies(rule, visitor, fact)
        <=> /\ rule.countries # {} => listedCountry
            /\ IsBot(visitor) => rule.allow_bot
            /\ ~IsBot(visitor) => (rule.platforms # {} => listedPlatform)
            /\ fact = "proxy" => rule.allow_proxy
  BY DEF Applies
<1>10. /\ rule.countries = {} \/ rule.platforms = {}
       /\ (rule.allow_proxy /\ rule.allow_bot) \/ rule.action = "allow"
       /\ rule.platforms # {} => rule.action = "allow" /\ ~rule.allow_bot
       /\ ~rule.allow_proxy => ~rule.allow_bot
       /\ rule.countries = {} /\ rule.platforms = {} => rule.action = "allow"
  BY DEF IsOneException
<1> HIDE DEF policy, listedCountry, listedPlatform
<1>11. CASE rule.action = "allow"
  <2>1. (evaluate_access(policy, visitor, FALSE, fact) = "none") <=> Applies(rule, visitor, fact)
    BY <1>2, <1>8, <1>9, <1>10, <1>11
  <2> QED  BY <2>1, <1>11 DEF policy
<1>12. CASE rule.action # "allow"
  <2>1. (evaluate_access(policy, visitor, FALSE, fact) = "none") <=> ~Applies(rule, visitor, fact)
    BY <1>2, <1>8, <1>9, <1>10, <1>12
  <2> QED  BY <2>1, <1>12 DEF policy
<1> QED  BY <1>11, <1>12

\* Every converted link decides as its rules did (convert_legacy_policy).
LEMMA ConversionIsExact ==
  ASSUME NEW link \in LegacyLink, Convertible(link), ~Padded(link),
         NEW visitor \in Visitor, NEW fact \in ProxyFacts
  PROVE  new_decision(convert_legacy_policy(link), visitor, fact)
           = legacy_decision(link, visitor, fact)
<1> DEFINE policy == convert_legacy_policy(link)
<1>1. evaluate_access(NoRules, visitor, FALSE, fact) = "none"
  BY DEF evaluate_access, NoRules, Excludes, ProxyBlocked
<1>2. link.default \in {"allow", "deny"}  BY DEF LegacyLink
<1>3. CASE ActiveRules(link) = {}
  <2>1. policy = Unknown  BY <1>3 DEF convert_legacy_policy
  <2>2. link.default = "allow"  BY <1>3 DEF Convertible
  <2>3. new_decision(policy, visitor, fact) = "allow"  BY <1>1, <2>1 DEF new_decision
  <2>4. legacy_decision(link, visitor, fact) = link.default  BY <1>3, NoRuleDecides
  <2> QED  BY <2>2, <2>3, <2>4
<1>4. CASE ActiveRules(link) # {}
  <2>1. PICK i \in DOMAIN link.rules :
          /\ ActiveRules(link) = {i}
          /\ link.rules[i] \in Rule
          /\ IsOneException(link.rules[i], link.default)
          /\ (CHOOSE j \in ActiveRules(link) : TRUE) = i
    BY <1>4, OneActiveRule
  <2> DEFINE rule == link.rules[i]
  <2>2. /\ rule.active
        /\ \A entry \in rule.countries \cup rule.platforms : ~entry.padded
    BY <2>1 DEF ActiveRules, Padded
  <2>3. rule.action \in {"allow", "deny"} /\ rule.action # link.default
    BY <2>1, <1>2 DEF IsOneException, Rule
  <2>4. legacy_decision(link, visitor, fact) = "allow"
          <=> (Applies(rule, visitor, fact) <=> rule.action = "allow")
    BY <1>2, <2>1, <2>3, OneRuleDecides
  <2>5. legacy_decision(link, visitor, fact) \in {"allow", "deny"}
    BY <1>2, <2>1, OneRuleDecides
  <2>6. CASE rule.countries = {} /\ rule.platforms = {} /\ rule.allow_proxy /\ rule.allow_bot
    <3>1. policy = Unknown  BY <1>4, <2>1, <2>6 DEF convert_legacy_policy
    <3>2. rule.action = "allow"  BY <2>1, <2>6 DEF IsOneException
    <3>3. Applies(rule, visitor, fact)  BY <2>2, <2>6 DEF Applies
    <3>4. new_decision(policy, visitor, fact) = "allow"  BY <1>1, <3>1 DEF new_decision
    <3> QED  BY <2>4, <3>2, <3>3, <3>4
  <2>7. CASE ~(rule.countries = {} /\ rule.platforms = {} /\ rule.allow_proxy /\ rule.allow_bot)
    <3>1. policy = ConvertedPolicy(rule)  BY <1>4, <2>1, <2>7 DEF convert_legacy_policy
    <3>2. (IF policy = Unknown THEN NoRules ELSE policy) = policy \/ policy = Unknown  OBVIOUS
    <3>3. (evaluate_access(ConvertedPolicy(rule), visitor, FALSE, fact) = "none")
            <=> (Applies(rule, visitor, fact) <=> rule.action = "allow")
      BY <1>2, <2>1, <2>2, ExceptionIsExact
    <3>4. ConvertedPolicy(rule) # Unknown
      BY <2>1, ConvertedIsPolicy, MigrationAssumption DEF IsOneException
    <3> QED  BY <2>4, <2>5, <3>1, <3>3, <3>4 DEF new_decision
  <2> QED  BY <2>6, <2>7
<1> QED  BY <1>3, <1>4

\* What a convertible link gets is a policy or none.
LEMMA ConversionIsPolicy ==
  ASSUME NEW link \in LegacyLink, Convertible(link)
  PROVE  convert_legacy_policy(link) \in Policy \cup {Unknown}
BY OneActiveRule, ConvertedIsPolicy DEF convert_legacy_policy, IsOneException

---------------------------------------------------------------------------
(* The upgrade.                                                             *)

LEMMA InitUpgradeInv == Init => UpgradeInv
<1> SUFFICES ASSUME Init  PROVE UpgradeInv  OBVIOUS
<1> USE MigrationAssumption
<1>1. \A link \in Links : legacy[link].default \in {"allow", "deny"}
  BY DEF Init, LegacyLink
<1>2. Defaults \in [Links -> {"allow", "deny"}]  BY <1>1 DEF Defaults
<1>3. NoPolicies \in [Links -> Policy \cup {Unknown}]  BY DEF NoPolicies
<1>4. TypeOK
  <2>1. /\ defaults \in [Programs -> [Links -> {"allow", "deny"}]]
        /\ converted \in [Programs -> [Links -> Policy \cup {Unknown}]]
        /\ policies \in [Links -> Policy \cup {Unknown}]
    BY <1>2, <1>3 DEF Init
  <2>2. edits \in Nat /\ legacy \in [Links -> LegacyLinks]  BY DEF Init
  <2>3. /\ pc \in [Programs -> {"idle", "reading", "passed", "failed"}]
        /\ todo \in [Programs -> SUBSET Links]
        /\ failures \in [Programs -> SUBSET Links]
        /\ dirty \in [Programs -> BOOLEAN]
    BY DEF Init
  <2> QED  BY <2>1, <2>2, <2>3 DEF Init, TypeOK
<1>5. pc["upgrade"] = "idle" /\ ~upgraded  BY DEF Init
<1> QED  BY <1>4, <1>5 DEF UpgradeInv

LEMMA NextUpgradeInv == UpgradeInv /\ [Next]_vars => UpgradeInv'
<1> SUFFICES ASSUME UpgradeInv, [Next]_vars  PROVE UpgradeInv'  OBVIOUS
<1> USE MigrationAssumption
<1>0. \A link \in Links :
        /\ legacy[link] \in LegacyLink
        /\ legacy[link].default \in {"allow", "deny"}
        /\ legacy[link] = [default |-> legacy[link].default, rules |-> legacy[link].rules]
  BY DEF UpgradeInv, TypeOK, LegacyLink
<1>1. CASE Edit
  BY <1>1 DEF Edit, UpgradeInv, TypeOK
<1>2. CASE Freeze
  BY <1>2 DEF Freeze, UpgradeInv, TypeOK
<1>3. ASSUME NEW program \in Programs, ReadLinks(program)  PROVE UpgradeInv'
  <2>1. Defaults \in [Links -> {"allow", "deny"}]  BY <1>0 DEF Defaults
  <2> QED  BY <1>3, <2>1 DEF ReadLinks, UpgradeInv, TypeOK, Defaults, NoPolicies
<1>4. ASSUME NEW program \in Programs, NEW link \in Links, Convert(program, link)
      PROVE UpgradeInv'
  <2>0. Convertible(Found(program, link))
          => convert_legacy_policy(Found(program, link)) \in Policy \cup {Unknown}
    <3>1. Found(program, link) \in LegacyLink
      BY <1>0 DEF Found, LegacyLink, UpgradeInv, TypeOK
    <3> QED  BY <3>1, ConversionIsPolicy
  <2>1. CASE program = "upgrade"
    <3>1. defaults["upgrade"][link] = legacy[link].default  BY <1>4, <2>1 DEF Convert, UpgradeInv, TypeOK
    <3>2. Found(program, link) = legacy[link]  BY <1>0, <2>1, <3>1 DEF Found
    <3>3. CASE Convertible(legacy[link])
      BY <1>4, <2>0, <2>1, <3>2, <3>3 DEF Convert, UpgradeInv, TypeOK
    <3>4. CASE ~Convertible(legacy[link])
      BY <1>4, <2>0, <2>1, <3>2, <3>4 DEF Convert, UpgradeInv, TypeOK
    <3> QED  BY <3>3, <3>4
  <2>2. CASE program # "upgrade"
    <3>1. CASE Convertible(Found(program, link))
      BY <1>4, <2>0, <2>2, <3>1 DEF Convert, UpgradeInv, TypeOK
    <3>2. CASE ~Convertible(Found(program, link))
      BY <1>4, <2>0, <2>2, <3>2 DEF Convert, UpgradeInv, TypeOK
    <3> QED  BY <3>1, <3>2
  <2> QED  BY <2>1, <2>2
<1>5. ASSUME NEW program \in Programs, Report(program)  PROVE UpgradeInv'
  BY <1>5 DEF Report, UpgradeInv, TypeOK
<1>6. CASE CommitUpgrade
  BY <1>6 DEF CommitUpgrade, UpgradeInv, TypeOK
<1>7. ASSUME NEW program \in Programs, Die(program)  PROVE UpgradeInv'
  BY <1>7 DEF Die, UpgradeInv, TypeOK
<1>8. CASE UNCHANGED vars
  BY <1>8 DEF vars, UpgradeInv, TypeOK
<1> QED  BY <1>1, <1>2, <1>3, <1>4, <1>5, <1>6, <1>7, <1>8 DEF Next

\* What an upgrade has written decides as the rules did.
LEMMA InvDecidesAsBefore ==
  ASSUME UpgradeInv  PROVE DecidesAsBefore
<1> SUFFICES ASSUME upgraded, NEW link \in Links, ~Padded(legacy[link]),
                    NEW visitor \in Visitor, NEW fact \in ProxyFacts
             PROVE new_decision(policies[link], visitor, fact)
                     = legacy_decision(legacy[link], visitor, fact)
  BY DEF DecidesAsBefore
<1>1. Convertible(legacy[link]) /\ policies[link] = convert_legacy_policy(legacy[link])
  BY DEF UpgradeInv
<1>2. legacy[link] \in LegacyLink  BY MigrationAssumption DEF UpgradeInv, TypeOK
<1> QED  BY <1>1, <1>2, ConversionIsExact

\* For any number of links and any rules, whoever changes them and however
\* often a program dies: an upgrade that is committed lets in exactly the
\* visitors that the rules let in, of links without values in blanks.
THEOREM UpgradeChangesNobodysAccess == Spec => []DecidesAsBefore
<1>1. Init => UpgradeInv  BY InitUpgradeInv
<1>2. UpgradeInv /\ [Next]_vars => UpgradeInv'  BY NextUpgradeInv
<1>3. UpgradeInv => DecidesAsBefore  BY InvDecidesAsBefore
<1> QED  BY <1>1, <1>2, <1>3, PTL DEF Spec

\* Every policy that is written is one that the service itself would accept.
THEOREM TypeCorrectness == Spec => []TypeOK
<1>1. Init => UpgradeInv  BY InitUpgradeInv
<1>2. UpgradeInv /\ [Next]_vars => UpgradeInv'  BY NextUpgradeInv
<1>3. UpgradeInv => TypeOK  BY DEF UpgradeInv
<1> QED  BY <1>1, <1>2, <1>3, PTL DEF Spec

---------------------------------------------------------------------------
(* The reports.                                                             *)

\* While nobody changes the rules, a program's failures are the links it has
\* read that cannot be converted.  An edit makes every run of a program dirty,
\* those that have ended included, so nothing is claimed of these.
ReportInv ==
  \A program \in Programs : pc[program] # "idle" /\ ~dirty[program] =>
    /\ \A link \in Links :
         /\ defaults[program][link] = legacy[link].default
         /\ link \in failures[program]
              <=> link \notin todo[program] /\ ~Convertible(legacy[link])
    /\ pc[program] # "reading" => todo[program] = {}

\* A link is judged as a whole: what Found puts together is the link itself.
LEMMA FoundIsLink ==
  ASSUME TypeOK, NEW program \in Programs, NEW link \in Links,
         defaults[program][link] = legacy[link].default
  PROVE  Found(program, link) = legacy[link]
<1>1. legacy[link] \in LegacyLink  BY MigrationAssumption DEF TypeOK
<1>2. legacy[link] = [default |-> legacy[link].default, rules |-> legacy[link].rules]
  BY <1>1 DEF LegacyLink
<1> QED  BY <1>2 DEF Found

LEMMA InitReportInv == Init => ReportInv
BY DEF Init, ReportInv

LEMMA NextReportInv == TypeOK /\ ReportInv /\ [Next]_vars => ReportInv'
<1> SUFFICES ASSUME TypeOK, ReportInv, [Next]_vars  PROVE ReportInv'  OBVIOUS
<1>1. CASE Edit
  BY <1>1 DEF Edit, ReportInv
<1>2. CASE Freeze
  BY <1>2 DEF Freeze, ReportInv
<1>3. ASSUME NEW program \in Programs, ReadLinks(program)  PROVE ReportInv'
  BY <1>3 DEF ReadLinks, ReportInv, TypeOK, Defaults
<1>4. ASSUME NEW program \in Programs, NEW link \in Links, Convert(program, link)
      PROVE ReportInv'
  <2>1. ~dirty[program] => Found(program, link) = legacy[link]
    BY <1>4, FoundIsLink DEF Convert, ReportInv
  <2>2. CASE Convertible(Found(program, link))
    BY <1>4, <2>1, <2>2 DEF Convert, ReportInv, TypeOK
  <2>3. CASE ~Convertible(Found(program, link))
    BY <1>4, <2>1, <2>3 DEF Convert, ReportInv, TypeOK
  <2> QED  BY <2>2, <2>3
<1>5. ASSUME NEW program \in Programs, Report(program)  PROVE ReportInv'
  BY <1>5 DEF Report, ReportInv, TypeOK
<1>6. CASE CommitUpgrade
  BY <1>6, MigrationAssumption DEF CommitUpgrade, ReportInv, TypeOK
<1>7. ASSUME NEW program \in Programs, Die(program)  PROVE ReportInv'
  BY <1>7 DEF Die, ReportInv, TypeOK
<1>8. CASE UNCHANGED vars
  BY <1>8 DEF vars, ReportInv
<1> QED  BY <1>1, <1>2, <1>3, <1>4, <1>5, <1>6, <1>7, <1>8 DEF Next

LEMMA InvReportIsComplete ==
  ASSUME TypeOK, ReportInv  PROVE ReportIsComplete
<1> SUFFICES ASSUME NEW program \in Programs, pc[program] \in {"passed", "failed"},
                    ~dirty[program]
             PROVE failures[program] = {link \in Links : ~Convertible(legacy[link])}
  BY DEF ReportIsComplete
<1>1. pc[program] # "idle" /\ todo[program] = {}  BY DEF ReportInv
<1>2. failures[program] \subseteq Links  BY DEF TypeOK
<1> QED  BY <1>1, <1>2 DEF ReportInv

\* However the reads of a program, the edits of administrators and the deaths
\* of the programs interleave: a check or an upgrade that ends while nobody has
\* changed the rules since it began reports the links that cannot be converted,
\* all of them and no other (check_policy_migration and
\* _preflight_and_copy_policies, which collect their failures).
THEOREM ReportsAreComplete == Spec => []ReportIsComplete
<1>1. TypeOK /\ ReportInv => ReportIsComplete  BY InvReportIsComplete
<1> QED  BY <1>1, TypeCorrectness, InitReportInv, NextReportInv, PTL DEF Spec

=============================================================================
