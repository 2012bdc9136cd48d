------------------------------- MODULE MailZone -------------------------------
(***************************************************************************)
(* What `mailadmin dns publish` promises about a zone while it runs and    *)
(* when it is interrupted, without saying how: the desired records are     *)
(* approached and never moved away from.                                   *)
(***************************************************************************)
EXTENDS ZonePlan

VARIABLES
    right,      \* the desired values live in the zone
    wrong,      \* the live records of managed slots nobody desires
    foreign     \* the live records of all other slots

zoneVars == <<right, wrong, foreign>>

Occupied(s) ==
    \/ \E d \in right : SlotOf[d] = s
    \/ \E r \in wrong : SlotOf[r.val] = s

Init == right \subseteq Desired

(* Publishing never takes a desired value away, never puts an undesired    *)
(* record in, never leaves a slot without any record, and never touches a  *)
(* record of another slot.                                                 *)
Improve ==
    /\ right \subseteq right' /\ right' \subseteq Desired
    /\ wrong' \subseteq wrong
    /\ \A s \in Managed : Occupied(s) => Occupied(s)'
    /\ UNCHANGED foreign

(* Everybody else keeps out of the managed slots.                          *)
Others == UNCHANGED <<right, wrong>>

Spec == Init /\ [][Improve \/ Others]_zoneVars

=============================================================================
