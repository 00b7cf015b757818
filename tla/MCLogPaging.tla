---------------------------- MODULE MCLogPaging ----------------------------
(*************************************************************************)
(* Four rows: two of one instant, an older and a newer one; ids in       *)
(* another order than times.                                             *)
(*************************************************************************)
EXTENDS LogPaging

CONSTANTS l1, l2

MCRows == 1..4
MCAt == <<2, 3, 2, 1>>
MCLinks == {l1, l2}
MCLinkOf == <<l1, l1, l1, l2>>

===========================================================================
