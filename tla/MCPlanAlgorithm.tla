--------------------------- MODULE MCPlanAlgorithm ---------------------------
(* One slot with two desired and two undesired values, two of the four of  *)
(* the same content, and one foreign value.                                *)
EXTENDS PlanAlgorithm

MCValue == {"mxA", "mxB", "MXB", "mxOld", "spf", "web"}
MCDesired == {"mxA", "mxB", "spf"}
MCSlotOf == [v \in MCValue |-> CASE v = "spf" -> "TXT spf"
                                 [] v = "web" -> "A www"
                                 [] OTHER -> "MX"]
MCClassOf == [v \in MCValue |-> IF v = "MXB" THEN "mxB" ELSE v]
=============================================================================
