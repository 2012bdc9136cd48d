---------------------------- MODULE MCPublishById ----------------------------
(* Two MX hosts and one SPF policy are desired.  The MX slot may also hold *)
(* a stale host, the SPF slot the same policy in capitals, and a web       *)
(* server's address lies outside the mail set.                             *)
EXTENDS PublishById

MCValue == {"mxA", "mxB", "mxOld", "spf", "SPF", "web"}
MCDesired == {"mxA", "mxB", "spf"}
MCSlotOf == [v \in MCValue |-> CASE v \in {"mxA", "mxB", "mxOld"} -> "MX"
                                 [] v \in {"spf", "SPF"} -> "TXT spf"
                                 [] OTHER -> "A www"]
MCClassOf == [v \in MCValue |-> IF v = "SPF" THEN "spf" ELSE v]

(* Two processes at once: one MX host and one SPF policy are desired.      *)
RaceValue == {"mxA", "mxOld", "spf", "SPF", "web"}
RaceDesired == {"mxA", "spf"}
RaceSlotOf == [v \in RaceValue |-> MCSlotOf[v]]
RaceClassOf == [v \in RaceValue |-> MCClassOf[v]]

=============================================================================
