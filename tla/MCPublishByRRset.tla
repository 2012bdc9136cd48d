--------------------------- MODULE MCPublishByRRset ---------------------------
(* One desired SPF policy, an older one and the desired one in capitals; a *)
(* verification token in the same RRset; and an MX RRset of its own.       *)
EXTENDS PublishByRRset

MCValue == {"spf", "SPF", "spfOld", "token", "mx", "mxOld"}
MCDesired == {"spf", "mx"}
MCSlotOf == [v \in MCValue |-> CASE v \in {"spf", "SPF", "spfOld"} -> "TXT spf"
                                 [] v = "token" -> "TXT other"
                                 [] OTHER -> "MX"]
MCClassOf == [v \in MCValue |-> IF v = "SPF" THEN "spf" ELSE v]
MCSetOf == [v \in MCValue |-> IF v \in {"mx", "mxOld"} THEN "MX" ELSE "TXT"]
=============================================================================
