---------------------------- MODULE PlanAlgorithm ----------------------------
(***************************************************************************)
(* Plan and reconcileSlot of internal/dnsprovider/provider.go on lists, as *)
(* the code computes them: one step is one iteration of one of its loops.  *)
(* ZonePlan's Plans describes the same plans without an order; here the    *)
(* two are compared for every order in which a provider may list a zone.   *)
(*                                                                         *)
(* The changes a slot yields are kept as a set: Reconcile goes through     *)
(* them by kind, and nothing depends on their order within a kind.  A loop *)
(* over the records of one slot goes over the whole list and passes by the *)
(* others, and what is used and met is kept for all slots together, which  *)
(* share no record.                                                        *)
(***************************************************************************)
EXTENDS ZonePlan, SequencesExt

CONSTANTS
    Id,         \* the ids a provider may give its records
    MaxLive     \* bound: records in the zone

ASSUME PlanAssumption ==
    /\ IsFiniteSet(Desired)
    /\ MaxLive \in Nat

VARIABLES
    list,     \* the live records as the provider listed them
    want,     \* the desired values in the order of DesiredMailRecords
    group,    \* the desired record whose slot is, or is to be, reconciled
    pass,     \* the loop that runs: over the slots, or one of reconcileSlot's
    at,       \* the index reconcileSlot's loop has come to
    plan      \* [used, met, changes]: the live indices used, the desired
              \* indices met, and the changes so far

planVars == <<list, want, group, pass, at, plan>>

Unchanged(d, r) == [op |-> "unchanged", to |-> d, cur |-> r]
EditOf(d, r) == [op |-> "edit", to |-> d, cur |-> r]
AddOf(d) == [op |-> "add", to |-> d]
DeleteOf(r) == [op |-> "delete", cur |-> r]

NoChanges == [used |-> {}, met |-> {}, changes |-> {}]

(* groupByIdentity and desiredOf: the live and desired indices of a slot.  *)
LiveOf(l, s) == {i \in DOMAIN l : SlotOf[l[i].val] = s}
DesiredOf(w, s) == {j \in DOMAIN w : SlotOf[w[j]] = s}

First(I) == CHOOSE i \in I : \A j \in I : i <= j

(* A bug Keep might have: the exact matches are not looked for.            *)
KeepNothing(l, w, s, st, j) == st

(* 1) Exact content matches stay unchanged.                                *)
Keep(l, w, s, st, j) ==
    LET same == {i \in LiveOf(l, s) \ st.used : SameContent(l[i].val, w[j])}
    IN IF j \notin DesiredOf(w, s) \/ same = {} THEN st
       ELSE [used    |-> st.used \union {First(same)},
             met     |-> st.met \union {j},
             changes |-> st.changes \union {Unchanged(w[j], l[First(same)])}]

(* A bug Reuse might have: the record it edits is not marked used.         *)
ReuseForever(l, w, s, st, j) ==
    LET free == LiveOf(l, s) \ st.used
        change == IF free = {} THEN AddOf(w[j]) ELSE EditOf(w[j], l[First(free)])
    IN IF j \notin DesiredOf(w, s) \ st.met THEN st
       ELSE [st EXCEPT !.changes = @ \union {change}]

(* 2) A desired record not met takes a leftover live one or is added.      *)
Reuse(l, w, s, st, j) ==
    LET free == LiveOf(l, s) \ st.used
    IN CASE j \notin DesiredOf(w, s) \ st.met -> st
         [] j \in DesiredOf(w, s) \ st.met /\ free # {} ->
              [st EXCEPT !.used = @ \union {First(free)},
                         !.changes = @ \union {EditOf(w[j], l[First(free)])}]
         [] OTHER -> [st EXCEPT !.changes = @ \union {AddOf(w[j])}]

(* 3) What is still unused is superfluous.                                 *)
Drop(l, s, st, i) ==
    IF i \notin LiveOf(l, s) \ st.used THEN st
    ELSE [st EXCEPT !.changes = @ \union {DeleteOf(l[i])}]

(* groupOrder: a slot's turn comes with the first desired record in it.    *)
Seen(w, g) == \E h \in 1 .. g - 1 : SlotOf[w[h]] = SlotOf[w[g]]

(* The mutating changes of a plan as the sets PublishById works through.   *)
AsSets(changes) ==
    LET Of(op) == {c \in changes : c.op = op}
    IN [add  |-> {c.to : c \in Of("add")},
        edit |-> {[cur |-> c.cur, to |-> c.to] : c \in Of("edit")},
        del  |-> {c.cur : c \in Of("delete")}]

-----------------------------------------------------------------------------
(* The lists a provider may answer: no id occurs twice.                    *)
Listings ==
    {l \in UNION {[1 .. n -> [id : Id, val : Value]] : n \in 0 .. MaxLive} :
        \A i, k \in DOMAIN l : l[i].id = l[k].id => i = k}

(* The orders of the desired values.                                       *)
Orders ==
    {w \in [1 .. Cardinality(Desired) -> Desired] :
        /\ \A j, k \in DOMAIN w : w[j] = w[k] => j = k
        /\ \A d \in Desired : \E j \in DOMAIN w : w[j] = d}

Init ==
    /\ list \in Listings
    /\ want \in Orders
    /\ group = 1
    /\ pass = "group"
    /\ at = 1
    /\ plan = NoChanges

slot == SlotOf[want[group]]

(* Plan's loop: a slot already reconciled is passed by.                    *)
SkipGroup ==
    /\ pass = "group" /\ group \in DOMAIN want /\ Seen(want, group)
    /\ group' = group + 1
    /\ UNCHANGED <<list, want, pass, at, plan>>

OpenGroup ==
    /\ pass = "group" /\ group \in DOMAIN want /\ ~Seen(want, group)
    /\ pass' = "keep"
    /\ at' = 1
    /\ UNCHANGED <<list, want, group, plan>>

Return ==
    /\ pass = "group" /\ group \notin DOMAIN want
    /\ pass' = "done"
    /\ UNCHANGED <<list, want, group, at, plan>>

(* One iteration of reconcileSlot's loops, and the end of each.            *)
Iterate(over, st) ==
    /\ at \in DOMAIN over
    /\ plan' = st
    /\ at' = at + 1
    /\ UNCHANGED <<list, want, group, pass>>

EndLoop(over, next) ==
    /\ at \notin DOMAIN over
    /\ pass' = next
    /\ at' = 1
    /\ UNCHANGED <<list, want, plan>>

KeepLoop ==
    /\ pass = "keep"
    /\ \/ Iterate(want, Keep(list, want, slot, plan, at))
       \/ EndLoop(want, "reuse") /\ UNCHANGED group

ReuseLoop ==
    /\ pass = "reuse"
    /\ \/ Iterate(want, Reuse(list, want, slot, plan, at))
       \/ EndLoop(want, "drop") /\ UNCHANGED group

DropLoop ==
    /\ pass = "drop"
    /\ \/ Iterate(list, Drop(list, slot, plan, at))
       \/ EndLoop(list, "group") /\ group' = group + 1

Next == SkipGroup \/ OpenGroup \/ Return \/ KeepLoop \/ ReuseLoop \/ DropLoop

Spec == Init /\ [][Next]_planVars

(* The same loops run to their end: the changes of a list and an order.    *)
Plan(l, w) ==
    LET SlotPlan(st, s) ==
            LET kept   == FoldLeftDomain(LAMBDA t, j : Keep(l, w, s, t, j), st, w)
                reused == FoldLeftDomain(LAMBDA t, j : Reuse(l, w, s, t, j), kept, w)
            IN FoldLeftDomain(LAMBDA t, i : Drop(l, s, t, i), reused, l)
    IN FoldLeftDomain(LAMBDA st, g : IF Seen(w, g) THEN st
                                     ELSE SlotPlan(st, SlotOf[w[g]]),
                      NoChanges, w).changes

-----------------------------------------------------------------------------
(* What the loops of reconcileSlot compute for a list is one of the plans  *)
(* ZonePlan allows for its records: provider.go:165-170 as a definition.   *)
PlanSound == pass = "done" => AsSets(plan.changes) \in Plans(ToSet(list))

(* ...and every plan ZonePlan allows is the plan of some order of the list *)
(* and of the desired records, so that the state machines built on Plans   *)
(* show nothing the code cannot do.                                        *)
PlanComplete ==
    pass = "done" =>
        /\ plan.changes = Plan(list, want)
        /\ Plans(ToSet(list)) \subseteq
              {AsSets(Plan(l, w)) : l \in SetToSeqs(ToSet(list)),
                                    w \in SetToSeqs(Desired)}

=============================================================================
