-------------------------- MODULE MCOffsetPaging --------------------------
(*************************************************************************)
(* Four items, two of one instant; as short links, two of each domain.   *)
(*************************************************************************)
EXTENDS OffsetPaging

MCItems == 1..4
MCCreated == <<2, 1, 2, 3>>
MCDomainOf == <<1, 2, 2, 1>>

===========================================================================
