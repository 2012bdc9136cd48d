----------------------------- MODULE Executable -----------------------------
(***************************************************************************)
(* What mailadmin update promises of the installed program: it is replaced *)
(* "atomically" (selfupdate.go:171-174), by a file that was published,     *)
(* never by a part of one or by anything else.                             *)
(***************************************************************************)
VARIABLES
    exe,       \* the file installed
    published  \* every binary published so far

vars == <<exe, published>>

Init == exe \in published

Publish == published \subseteq published' /\ UNCHANGED exe
Replace == exe' \in published /\ UNCHANGED published

Next == Publish \/ Replace

Spec == Init /\ [][Next]_vars

=============================================================================
