----------------------------- MODULE MCRedirect -----------------------------
(* Small instances of Redirect for TLC. *)
EXTENDS Redirect

CONSTANTS l1, d1, k1, k2, t1, t2, t3, u1, u2, ip1, n0, n1, n2, n3

Base == <<"partner", "example">>
Sub == <<"shop", "partner", "example">>
MCHosts == {Base, Sub}

Wild == [wildcard |-> TRUE, name |-> Base]
Exact == [wildcard |-> FALSE, name |-> Base]

D(t, u, kind, active, w) == [id |-> t, url |-> u, type |-> kind, active |-> active, weight |-> w]
C(n, code, rows, p) ==
  [domain |-> d1, code |-> code, active |-> TRUE, note |-> n, targets |-> rows, policy |-> p]

---------------------------------------------------------------------------
(* Every combination of rules against every kind of visitor, on a link that *)
(* does not change.  The note of a content is its policy.                   *)

AllRules ==
  {p \in [country_mode : Modes, countries : {{"CN"}},
          platform_mode : Modes, platforms : {{"desktop"}},
          referer_mode : Modes, patterns : {{Wild}, {Exact}},
          block_proxy : BOOLEAN, block_bot : BOOLEAN] : TRUE}

EveryVisitor ==
  {v \in [ip : {ip1, Unknown}, country : {"CN", Unknown}, platform : {"desktop", "bot"},
          referer : MCHosts \cup {Unknown}] : v \in Visitor}

BothClasses ==
  {D(t1, u1, "allowed", TRUE, 1), D(t2, u2, "allowed", TRUE, 0), D(t3, u2, "blocked", TRUE, 0)}

RuledContents == {C(p, k1, BothClasses, p) : p \in AllRules}

---------------------------------------------------------------------------
(* A link that is replaced, renamed and deleted while it is visited.        *)

Strict == [NoRules EXCEPT !.country_mode = "block", !.countries = {"CN"}]
Guarded == [NoRules EXCEPT !.block_proxy = TRUE]

Legacy == {C(n0, k1, {D(t1, u1, "allowed", TRUE, 1)}, Unknown)}

Rewrites ==
  {C(n1, k1, {D(t1, u2, "allowed", TRUE, 1), D(t2, u1, "blocked", TRUE, 1)}, Guarded),
   C(n2, k1, {D(t3, u1, "allowed", TRUE, 0), D(t2, u2, "blocked", FALSE, 1)}, Strict),
   C(n3, k2, {D(t3, u2, "allowed", TRUE, 1)}, NoRules)}

AnyContents == RuledContents \cup Legacy

MCNotes == AllRules \cup {n0, n1, n2, n3}

===========================================================================
