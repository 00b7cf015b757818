---------------------------- MODULE MCDashboard ----------------------------
(*************************************************************************)
(* Two links: one that gave its first code to the other, and a row older *)
(* than links. Days of two instants, the zone half a day ahead of UTC.   *)
(*************************************************************************)
EXTENDS Dashboard

MCRows == 1..6
MCAt == <<1, 3, 2, 3, 4, 2>>
MCResult == <<"blocked", "blocked", "allowed", "allowed", "error", "allowed">>
MCLinkOf == <<NoLink, 11, 11, 12, 11, 12>>
MCCodeOf == <<NoCode, 21, 22, 21, 22, 21>>
MCRefererOf == <<31, 31, 32, 33, 34, NoReferer>>
MCLinks == {11, 12}
MCCodes == {21, 22}

===========================================================================
