-------------------------- MODULE MCPolicyMigration --------------------------
(* Small instances of PolicyMigration for TLC. *)
EXTENDS PolicyMigration

CONSTANTS ip1, l1, l2

AllPlatforms == {"desktop", "smartphone", "tablet", "other", "bot"}
Plain(values) == [value : values, padded : {FALSE}]
Anything(countries, platforms) ==
  [action : {"allow", "deny"}, countries : SUBSET countries, platforms : SUBSET platforms,
   referer : BOOLEAN, allow_proxy : BOOLEAN, allow_bot : BOOLEAN, active : BOOLEAN]

NoConditions ==
  [action |-> "allow", countries |-> {}, platforms |-> {}, referer |-> FALSE,
   allow_proxy |-> TRUE, allow_bot |-> TRUE, active |-> TRUE]
Chinese(blank) ==
  [NoConditions EXCEPT !.countries = {[value |-> "CN", padded |-> blank]}, !.allow_bot = FALSE]
Phones ==
  [NoConditions EXCEPT !.platforms = {[value |-> "mobile", padded |-> FALSE]}, !.allow_bot = FALSE]
Disabled == [NoConditions EXCEPT !.active = FALSE]
NoChinese == [Chinese(FALSE) EXCEPT !.action = "deny", !.allow_bot = TRUE]

---------------------------------------------------------------------------
(* Every single rule, and pairs of rules of which one may be disabled.      *)

EveryLink ==
  [default : {"allow", "deny"},
   rules : {<<>>} \cup {<<r>> : r \in Anything(Plain({"CN", "US", Odd}), Plain({"mobile", "pc", Odd}))}
             \cup {<<r, s>> : r, s \in {NoConditions, Disabled, Chinese(FALSE), NoChinese, Phones}}]

---------------------------------------------------------------------------
(* Links that are changed while they are looked at; a value of one of them  *)
(* has a blank in front of it.                                              *)

FewLinks ==
  {[default |-> "allow", rules |-> <<>>], [default |-> "deny", rules |-> <<>>],
   [default |-> "deny", rules |-> <<Chinese(FALSE)>>], [default |-> "deny", rules |-> <<Chinese(TRUE)>>],
   [default |-> "allow", rules |-> <<NoChinese>>]}

EveryOrFewLinks == EveryLink \cup FewLinks

NoRule == [default |-> "allow", rules |-> <<>>]

MCStarts ==
  {[legacy |-> [link \in Links |-> IF link = l1 THEN one ELSE NoRule], edits |-> 0] :
     one \in EveryLink}
  \cup [legacy : [Links -> FewLinks], edits : {2}]

===========================================================================
