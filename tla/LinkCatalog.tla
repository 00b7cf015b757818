---------------------------- MODULE LinkCatalog ----------------------------
(*************************************************************************)
(* What app/api/short_links.py promises: a short link is one object.  It *)
(* is created, replaced and deleted as a whole, and within a domain its  *)
(* code is its own.                                                      *)
(*************************************************************************)
EXTENDS FiniteSets

CONSTANTS
  Links,     \* identifiers of short links
  Domains,
  Codes,     \* short codes
  Targets,   \* identifiers of destination rows
  Marks,     \* contents: what one body says of note, destinations and policy
  NoLink     \* the value of a link that does not exist

\* policy is FALSE only for a link that had no rule before the migration.
Link == [domain : Domains, code : Codes, mark : Marks,
         targets : (SUBSET Targets) \ {{}}, policy : BOOLEAN]

VARIABLE catalog

TypeOK == catalog \in [Links -> Link \cup {NoLink}]

Present == {l \in Links : catalog[l] # NoLink}

\* Another link of the domain has the code.
Taken(l, d, c) ==
  \E m \in Present \ {l} : catalog[m].domain = d /\ catalog[m].code = c

\* A destination row belongs to one link.
Used(l) == UNION {catalog[m].targets : m \in Present \ {l}}

Start == {f \in [Links -> Link \cup {NoLink}] :
            \A l, m \in Links : l # m /\ f[l] # NoLink /\ f[m] # NoLink =>
              /\ <<f[l].domain, f[l].code>> # <<f[m].domain, f[m].code>>
              /\ f[l].targets \cap f[m].targets = {}}

Init == catalog \in Start

\* What l becomes is a whole link, whose code and destinations are its own,
\* and no other link changes.
Written(l) ==
  LET w == catalog'[l] IN
    /\ w \in Link
    /\ w.policy
    /\ ~Taken(l, w.domain, w.code)
    /\ w.targets \cap Used(l) = {}
    /\ \A m \in Links \ {l} : catalog'[m] = catalog[m]

Create(l) == catalog[l] = NoLink /\ Written(l)

\* A replacement keeps the domain.
Replace(l) ==
  /\ catalog[l] # NoLink
  /\ catalog'[l] # NoLink
  /\ catalog'[l].domain = catalog[l].domain
  /\ Written(l)

Delete(l) ==
  /\ catalog[l] # NoLink
  /\ catalog'[l] = NoLink
  /\ \A m \in Links \ {l} : catalog'[m] = catalog[m]

Next == \E l \in Links : Create(l) \/ Replace(l) \/ Delete(l)

Spec == Init /\ [][Next]_catalog

===========================================================================
