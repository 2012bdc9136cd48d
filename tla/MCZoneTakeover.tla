--------------------------- MODULE MCZoneTakeover ---------------------------
(* A web address, an old mail host and a mail host that is also desired.   *)
EXTENDS ZoneTakeover

MCValue == {"web", "mxOld", "mx"}
MCWeb == {"web"}
MCDesired == {"mx"}
=============================================================================
