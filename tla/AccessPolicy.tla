---------------------------- MODULE AccessPolicy ----------------------------
(*************************************************************************)
(* Which visitors a link policy turns away: evaluate_access and          *)
(* decide_access of app/services/access.py, and the choice of a          *)
(* destination, choose_target of app/services/redirect.py.               *)
(*************************************************************************)
EXTENDS Integers, Sequences

CONSTANTS
  Ips, Countries, Platforms,
  Hosts,     \* names, as sequences of labels
  Targets,   \* identifiers of destination rows
  Urls,
  Unknown    \* no address, country, Referer, policy or destination

Modes == {"off", "allow", "block"}
Pattern == [wildcard : BOOLEAN, name : Hosts]

\* The policy an administrator writes; an allowlist is not empty
\* (allow_modes_need_values).
Policy == {p \in [country_mode : Modes, countries : SUBSET Countries,
                  platform_mode : Modes, platforms : SUBSET Platforms,
                  referer_mode : Modes, patterns : SUBSET Pattern,
                  block_proxy : BOOLEAN, block_bot : BOOLEAN] :
             /\ p.country_mode = "allow" => p.countries # {}
             /\ p.platform_mode = "allow" => p.platforms # {}
             /\ p.referer_mode = "allow" => p.patterns # {}}

\* What an absent policy row stands for.
NoRules == [country_mode |-> "off", countries |-> {},
            platform_mode |-> "off", platforms |-> {},
            referer_mode |-> "off", patterns |-> {},
            block_proxy |-> FALSE, block_bot |-> FALSE]

\* What extract_request_metadata finds out about a visitor; the country is that
\* of the address.
Visitor == {v \in [ip : Ips \cup {Unknown}, country : Countries \cup {Unknown},
                   platform : Platforms, referer : Hosts \cup {Unknown}] :
              v.ip = Unknown => v.country = Unknown}

\* parse_user_agent gives bots a platform of their own.
IsBot(visitor) == visitor.platform = "bot"

\* What is known of the address: "unknown" is no row, a failed lookup, or none.
ProxyFacts == {"proxy", "clean", "unknown"}

---------------------------------------------------------------------------
\* A wildcard stands for one or more further labels.
Matches(host, pattern) ==
  LET extra == Len(host) - Len(pattern.name) IN
    IF pattern.wildcard
      THEN extra > 0 /\ SubSeq(host, extra + 1, Len(host)) = pattern.name
      ELSE host = pattern.name

RefererMatches(host, patterns) ==
  host # Unknown /\ \E pattern \in patterns : Matches(host, pattern)

\* A list in allow mode excludes what it does not name, in block mode what it
\* names.
Excludes(mode, named) ==
  (mode = "allow" /\ ~named) \/ (mode = "block" /\ named)

ProxyBlocked(policy, visitor, fact) ==
  policy.block_proxy /\ (IsBot(visitor) \/ fact = "proxy")

\* Faulty variant: the country is looked at before the proxy.
evaluate_country_first(policy, visitor, listed, fact) ==
  IF listed THEN "ip"
  ELSE IF IsBot(visitor) /\ policy.block_bot THEN "bot"
  ELSE IF Excludes(policy.country_mode, visitor.country \in policy.countries) THEN "country"
  ELSE IF ProxyBlocked(policy, visitor, fact) THEN "proxy"
  ELSE IF Excludes(policy.platform_mode, visitor.platform \in policy.platforms) THEN "platform"
  ELSE IF Excludes(policy.referer_mode, RefererMatches(visitor.referer, policy.patterns)) THEN "referer"
  ELSE "none"

\* The reason to block the visitor, or "none".
evaluate_access(policy, visitor, listed, fact) ==
  IF listed THEN "ip"
  ELSE IF IsBot(visitor) /\ policy.block_bot THEN "bot"
  ELSE IF ProxyBlocked(policy, visitor, fact) THEN "proxy"
  ELSE IF Excludes(policy.country_mode, visitor.country \in policy.countries) THEN "country"
  ELSE IF Excludes(policy.platform_mode, visitor.platform \in policy.platforms) THEN "platform"
  ELSE IF Excludes(policy.referer_mode, RefererMatches(visitor.referer, policy.patterns)) THEN "referer"
  ELSE "none"

Reasons == {"ip", "bot", "proxy", "country", "platform", "referer", "none"}

\* Faulty variant: any reason to block saves the lookup.
LookupWantedIfAllowed(policy, visitor, listed) ==
  /\ evaluate_access(policy, visitor, listed, "unknown") = "none"
  /\ policy.block_proxy
  /\ visitor.ip # Unknown

\* decide_access asks for the reputation of the address unless what is known
\* without it comes first in the order.
LookupWanted(policy, visitor, listed) ==
  /\ evaluate_access(policy, visitor, listed, "unknown") \notin {"ip", "bot", "proxy"}
  /\ policy.block_proxy
  /\ visitor.ip # Unknown

---------------------------------------------------------------------------
\* A destination row; of the weight only whether it is positive matters to
\* what can be chosen.
Destination == [id : Targets, url : Urls, type : {"allowed", "blocked"},
                active : BOOLEAN, weight : 0..1]

ResultOf(reason) == IF reason = "none" THEN "allowed" ELSE "blocked"

Usable(rows, result) == {t \in rows : t.active /\ t.type = result}

\* Faulty variant: a row without weight can be drawn next to others.
choose_any_target(rows, result) == Usable(rows, result)

\* The destinations choose_target can return; rows without weight only when
\* there are no others.
choose_target(rows, result) ==
  LET usable == Usable(rows, result)
      weighted == {t \in usable : t.weight > 0}
  IN IF weighted = {} THEN usable ELSE weighted

===========================================================================
