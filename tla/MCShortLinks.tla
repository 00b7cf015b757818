-------------------------- MODULE MCShortLinks --------------------------
(* Small instances of ShortLinks for TLC. *)
EXTENDS ShortLinks, TLC

CONSTANTS d1, d2, c1, c2, l1, t1, m0, m1, m2

TwoLinks ==
  [links |-> l1 :> [domain |-> d1, code |-> c1, mark |-> m0] @@
             [l \in Links \ {l1} |-> NoLink],
   targets |-> t1 :> [link |-> l1, mark |-> m0] @@
               [t \in Targets \ {t1} |-> NoTarget],
   policies |-> [l \in Links |-> NoMark]]

OneLink == {TwoLinks}

B(d, a, m, k, f) == [domain |-> d, alias |-> a, mark |-> m, keep |-> k, fresh |-> f]

\* The last body is for another domain; it would take over a code there.
WriteBodies == {B(d1, c2, m1, {}, 1), B(d1, NoCode, m2, {t1}, 0), B(d2, c1, m2, {}, 1)}

===========================================================================
