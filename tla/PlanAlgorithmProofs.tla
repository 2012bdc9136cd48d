-------------------------- MODULE PlanAlgorithmProofs --------------------------
(***************************************************************************)
(* The loops of reconcileSlot compute one of the plans ZonePlan describes, *)
(* for any zone, desired set and order of the lists: the invariant says,   *)
(* at every iteration, what the changes so far have paired.                *)
(***************************************************************************)
EXTENDS PlanAlgorithm, FiniteSetTheorems, SequenceTheorems, TLAPS

(* The changes so far, by indices.                                         *)
Kept(j, i) == Unchanged(want[j], list[i]) \in plan.changes
Edited(j, i) == EditOf(want[j], list[i]) \in plan.changes
Paired(j, i) == Kept(j, i) \/ Edited(j, i)
Added(j) == AddOf(want[j]) \in plan.changes
Dropped(i) == DeleteOf(list[i]) \in plan.changes

(* The slots that are reconciled, and the one that is being reconciled.    *)
Finished(s) == \E h \in 1 .. group - 1 : SlotOf[want[h]] = s
Open(s) == pass \in {"keep", "reuse", "drop"} /\ s = slot

(* What the three loops have left behind.                                  *)
Looked(j) ==
    \/ Finished(SlotOf[want[j]])
    \/ Open(SlotOf[want[j]]) /\ (pass = "keep" => j < at)
Settled(j) ==
    \/ Finished(SlotOf[want[j]])
    \/ Open(SlotOf[want[j]]) /\ pass # "keep" /\ (pass = "reuse" => j < at)
Cleared(i) ==
    \/ Finished(SlotOf[list[i].val])
    \/ Open(SlotOf[list[i].val]) /\ pass = "drop" /\ i < at

(* The changes there can be between the two lists.                         *)
Changes ==
    {Unchanged(want[j], list[i]) : j \in DOMAIN want, i \in DOMAIN list}
    \union {EditOf(want[j], list[i]) : j \in DOMAIN want, i \in DOMAIN list}
    \union {AddOf(want[j]) : j \in DOMAIN want}
    \union {DeleteOf(list[i]) : i \in DOMAIN list}

TypeOK ==
    /\ list \in Listings
    /\ want \in Orders
    /\ group \in 1 .. Len(want) + 1
    /\ pass \in {"group", "keep", "reuse", "drop", "done"}
    /\ at \in Nat \ {0}
    /\ plan \in [used : SUBSET DOMAIN list, met : SUBSET DOMAIN want,
                 changes : SUBSET Changes]

(* The slot whose loops run comes up for the first time; the outer loop    *)
(* ends behind the last desired record.                                    *)
Turn ==
    /\ pass \in {"keep", "reuse", "drop"} =>
          group \in DOMAIN want /\ ~Seen(want, group)
    /\ pass = "done" => group = Len(want) + 1

(* A kept record has the content asked for, and an edited one the slot; a  *)
(* value that is kept or edited into a record is not added.                *)
Pairing ==
    \A j \in DOMAIN want :
        /\ j \in plan.met <=> \E i \in DOMAIN list : Kept(j, i)
        /\ Added(j) => /\ j \notin plan.met
                       /\ Settled(j)
                       /\ LiveOf(list, SlotOf[want[j]]) \subseteq plan.used
                       /\ \A i \in DOMAIN list : ~Edited(j, i)
        /\ \A i \in DOMAIN list :
              /\ Kept(j, i) => SameContent(list[i].val, want[j]) /\ Looked(j)
              /\ Edited(j, i) => /\ SlotOf[list[i].val] = SlotOf[want[j]]
                                 /\ j \notin plan.met
                                 /\ Settled(j)

(* A record is used for one value, and a value has one record.             *)
OneToOne ==
    /\ \A i \in DOMAIN list :
          i \in plan.used <=> \E j \in DOMAIN want : Paired(j, i)
    /\ \A j, h \in DOMAIN want : \A i, k \in DOMAIN list :
          Paired(j, i) /\ Paired(h, k) => (j = h <=> i = k)

(* A value that the first loop passed by without a match has none, and the *)
(* other two loops leave no value and no record of the slot undecided.     *)
Decided ==
    /\ \A j \in DOMAIN want :
          /\ Looked(j) /\ j \notin plan.met =>
                \A i \in DOMAIN list : ~SameContent(list[i].val, want[j])
          /\ Settled(j) => \/ Added(j)
                           \/ \E i \in DOMAIN list : Paired(j, i)
    /\ \A i \in DOMAIN list :
          /\ Cleared(i) => i \in plan.used \/ Dropped(i)
          /\ Dropped(i) => i \notin plan.used /\ Cleared(i)

PlanInv == TypeOK /\ Turn /\ Pairing /\ OneToOne /\ Decided

-----------------------------------------------------------------------------
(* Facts about the operators the loops are built from.                     *)

LEMMA ChangesDiffer ==
    \A d, e, r, q :
        /\ Unchanged(d, r) = Unchanged(e, q) <=> d = e /\ r = q
        /\ EditOf(d, r) = EditOf(e, q) <=> d = e /\ r = q
        /\ AddOf(d) = AddOf(e) <=> d = e
        /\ DeleteOf(r) = DeleteOf(q) <=> r = q
        /\ Unchanged(d, r) # EditOf(e, q)
        /\ Unchanged(d, r) # AddOf(e)
        /\ Unchanged(d, r) # DeleteOf(q)
        /\ EditOf(d, r) # AddOf(e)
        /\ EditOf(d, r) # DeleteOf(q)
        /\ AddOf(d) # DeleteOf(q)
  <1> TAKE d, e, r, q
  <1>1. /\ Unchanged(d, r).op = "unchanged"
        /\ EditOf(e, q).op = "edit" /\ EditOf(d, r).op = "edit"
        /\ AddOf(e).op = "add" /\ AddOf(d).op = "add"
        /\ DeleteOf(q).op = "delete"
    BY DEF Unchanged, EditOf, AddOf, DeleteOf
  <1>2. Unchanged(d, r) = Unchanged(e, q) <=> d = e /\ r = q
    BY DEF Unchanged
  <1>3. EditOf(d, r) = EditOf(e, q) <=> d = e /\ r = q
    BY DEF EditOf
  <1>4. AddOf(d) = AddOf(e) <=> d = e
    BY DEF AddOf
  <1>5. DeleteOf(r) = DeleteOf(q) <=> r = q
    BY DEF DeleteOf
  <1> HIDE DEF Unchanged, EditOf, AddOf, DeleteOf
  <1> QED
    BY <1>1, <1>2, <1>3, <1>4, <1>5, Zenon

(* A non-empty set of numbers has a first.                                 *)
LEMMA FirstIsLeast ==
    ASSUME NEW I \in SUBSET Nat, I # {}
    PROVE  First(I) \in I
  <1>1. PICK i \in I : \A j \in I : <<j, i>> \notin OpToRel(<, Nat)
    BY NatLessThanWellFounded, WFMin
  <1>2. \A j \in I : ~(j < i)
    BY <1>1 DEF OpToRel
  <1>3. \A j \in I : i <= j
    BY <1>2
  <1> QED
    BY <1>1, <1>3 DEF First

(* No record and no value comes twice in the lists the loops go over, and  *)
(* what has the same content lies in the same slot.                        *)
LEMMA Lists ==
    ASSUME TypeOK
    PROVE  /\ Len(list) \in Nat /\ DOMAIN list = 1 .. Len(list)
           /\ Len(want) \in Nat /\ DOMAIN want = 1 .. Len(want)
           /\ \A i \in DOMAIN list : list[i].val \in Value
           /\ \A j \in DOMAIN want : want[j] \in Desired /\ want[j] \in Value
           /\ \A i, k \in DOMAIN list : list[i] = list[k] => i = k
           /\ \A j, h \in DOMAIN want : want[j] = want[h] => j = h
           /\ \A d \in Desired : \E j \in DOMAIN want : want[j] = d
           /\ \A i \in DOMAIN list : \A j \in DOMAIN want :
                 SameContent(list[i].val, want[j]) =>
                    SlotOf[list[i].val] = SlotOf[want[j]]
           /\ \A i \in DOMAIN list : \A j, h \in DOMAIN want :
                 SameContent(list[i].val, want[j]) /\ SameContent(list[i].val, want[h])
                    => j = h
  <1>1. PICK n \in 0 .. MaxLive : list \in [1 .. n -> [id : Id, val : Value]]
    BY DEF TypeOK, Listings
  <1>2. n \in Nat /\ Len(list) = n /\ DOMAIN list = 1 .. n
    <2>1. n \in Nat
      BY PlanAssumption DEF PlanAssumption
    <2>2. list \in Seq([id : Id, val : Value])
      BY <1>1, <2>1, SeqDef
    <2> QED
      BY <1>1, <2>1, <2>2
  <1>3. Cardinality(Desired) \in Nat
    BY PlanAssumption, FS_CardinalityType DEF PlanAssumption
  <1>4. Len(want) = Cardinality(Desired) /\ DOMAIN want = 1 .. Cardinality(Desired)
    <2>1. want \in [1 .. Cardinality(Desired) -> Desired]
      BY DEF TypeOK, Orders
    <2>2. want \in Seq(Desired)
      BY <1>3, <2>1, SeqDef
    <2> QED
      BY <1>3, <2>1, <2>2
  <1>5. /\ \A i, k \in DOMAIN list : list[i] = list[k] => i = k
        /\ \A j, h \in DOMAIN want : want[j] = want[h] => j = h
        /\ \A d \in Desired : \E j \in DOMAIN want : want[j] = d
    BY DEF TypeOK, Listings, Orders
  <1>6. /\ \A i \in DOMAIN list : list[i].val \in Value
        /\ \A j \in DOMAIN want : want[j] \in Desired /\ want[j] \in Value
    BY <1>1, <1>2, <1>4, ZoneAssumption DEF ZoneAssumption, TypeOK, Orders
  <1> QED
    BY <1>2, <1>3, <1>4, <1>5, <1>6, ZoneAssumption DEF ZoneAssumption, SameContent

-----------------------------------------------------------------------------
(* What a step that leaves the changes alone, or moves no loop's cursor    *)
(* past anything, leaves of the invariant.                                 *)
Decisions == Pairing /\ OneToOne /\ Decided

LEMMA NothingDecided ==
    ASSUME PlanInv, UNCHANGED <<list, want, plan>>,
           \A j \in DOMAIN want : (Looked(j)' <=> Looked(j)) /\ (Settled(j)' <=> Settled(j)),
           \A i \in DOMAIN list : Cleared(i)' <=> Cleared(i)
    PROVE  Decisions'
  <1>1. \A j, i : /\ Kept(j, i)' <=> Kept(j, i)
                  /\ Edited(j, i)' <=> Edited(j, i)
                  /\ Added(j)' <=> Added(j)
                  /\ Dropped(i)' <=> Dropped(i)
                  /\ Paired(j, i)' <=> Paired(j, i)
    BY DEF Kept, Edited, Added, Dropped, Paired
  <1> QED
    BY <1>1 DEF PlanInv, Decisions, Pairing, OneToOne, Decided, LiveOf, SameContent

(* The first loop comes to a desired value.                                *)
LEMMA KeepCursor ==
    ASSUME PlanInv, pass = "keep", at \in DOMAIN want, at' = at + 1,
           UNCHANGED <<list, want, group, pass>>
    PROVE  /\ \A j \in DOMAIN want :
                 /\ Looked(j)' <=> Looked(j) \/ (j = at /\ SlotOf[want[j]] = slot)
                 /\ Settled(j)' <=> Settled(j)
                 /\ SlotOf[want[j]] = slot => ~Settled(j)
           /\ \A i \in DOMAIN list : /\ Cleared(i)' <=> Cleared(i)
                                     /\ SlotOf[list[i].val] = slot => ~Cleared(i)
           /\ SlotOf[want[at]] = slot => ~Looked(at)
  <1>1. ~Finished(slot)
    BY DEF PlanInv, Turn, Seen, Finished, slot
  <1>2. slot' = slot /\ \A s : Finished(s)' <=> Finished(s)
    BY DEF slot, Finished
  <1>3. DOMAIN want \subseteq Nat
    BY Lists DEF PlanInv
  <1> HIDE DEF Finished, slot
  <1> QED
    BY <1>1, <1>2, <1>3 DEF Looked, Settled, Cleared, Open

LEMMA KeepIteration ==
    ASSUME PlanInv, pass = "keep", Iterate(want, Keep(list, want, slot, plan, at))
    PROVE  PlanInv'
  <1> DEFINE same == {i \in LiveOf(list, slot) \ plan.used :
                         SameContent(list[i].val, want[at])}
             i0 == First(same)
  <1>1. /\ at \in DOMAIN want /\ at' = at + 1
        /\ plan' = Keep(list, want, slot, plan, at)
        /\ UNCHANGED <<list, want, group, pass>>
    BY DEF Iterate
  <1>2. /\ DOMAIN want \subseteq Nat
        /\ DOMAIN list \subseteq Nat
        /\ \A i \in DOMAIN list : \A j \in DOMAIN want :
              SameContent(list[i].val, want[j]) => SlotOf[list[i].val] = SlotOf[want[j]]
        /\ \A i \in DOMAIN list : \A j, h \in DOMAIN want :
              SameContent(list[i].val, want[j]) /\ SameContent(list[i].val, want[h])
                 => j = h
        /\ \A i, k \in DOMAIN list : list[i] = list[k] => i = k
        /\ \A j, h \in DOMAIN want : want[j] = want[h] => j = h
    BY Lists DEF PlanInv
  <1>3. /\ \A j \in DOMAIN want :
              /\ Looked(j)' <=> Looked(j) \/ (j = at /\ SlotOf[want[j]] = slot)
              /\ Settled(j)' <=> Settled(j)
              /\ SlotOf[want[j]] = slot => ~Settled(j)
        /\ \A i \in DOMAIN list : /\ Cleared(i)' <=> Cleared(i)
                                  /\ SlotOf[list[i].val] = slot => ~Cleared(i)
        /\ SlotOf[want[at]] = slot => ~Looked(at)
    BY <1>1, KeepCursor
  <1>4. Turn'
    BY <1>1 DEF PlanInv, Turn, Seen
  <1>5. CASE at \notin DesiredOf(want, slot)
    <2>1. plan' = plan
      BY <1>1, <1>5 DEF Keep
    <2>2. SlotOf[want[at]] # slot
      BY <1>1, <1>5 DEF DesiredOf
    <2>3. Decisions'
      BY <1>1, <1>3, <2>1, <2>2, NothingDecided
    <2> QED
      BY <1>1, <1>2, <1>4, <2>1, <2>3 DEF PlanInv, Decisions, TypeOK, Changes
  <1>6. CASE at \in DesiredOf(want, slot) /\ same = {}
    <2>1. plan' = plan /\ SlotOf[want[at]] = slot
      BY <1>1, <1>6 DEF Keep, DesiredOf
    <2>2. ASSUME NEW i \in DOMAIN list, SameContent(list[i].val, want[at])
          PROVE  at \in plan.met
      <3>1. SlotOf[list[i].val] = slot /\ i \in plan.used
        BY <1>1, <1>2, <1>6, <2>1, <2>2 DEF LiveOf
      <3>2. PICK h \in DOMAIN want : Paired(h, i)
        BY <3>1 DEF PlanInv, OneToOne
      <3>3. ~Edited(h, i)
        BY <1>3, <3>1 DEF PlanInv, Pairing
      <3> QED
        BY <1>1, <1>2, <2>2, <3>2, <3>3 DEF PlanInv, Pairing, Paired
    <2>3. \A j, i : /\ Kept(j, i)' <=> Kept(j, i)
                    /\ Edited(j, i)' <=> Edited(j, i)
                    /\ Added(j)' <=> Added(j)
                    /\ Dropped(i)' <=> Dropped(i)
                    /\ Paired(j, i)' <=> Paired(j, i)
      BY <1>1, <2>1 DEF Kept, Edited, Added, Dropped, Paired
    <2>4. Pairing'
      BY <1>1, <1>3, <2>1, <2>3 DEF PlanInv, Pairing, LiveOf, SameContent
    <2>5. OneToOne'
      BY <1>1, <2>1, <2>3 DEF PlanInv, OneToOne
    <2>6. Decided'
      BY <1>1, <1>3, <2>1, <2>2, <2>3 DEF PlanInv, Decided, SameContent
    <2> QED
      BY <1>1, <1>2, <1>4, <2>1, <2>4, <2>5, <2>6 DEF PlanInv, TypeOK, Changes
  <1>7. CASE at \in DesiredOf(want, slot) /\ same # {}
    <2>1. /\ plan' = [used    |-> plan.used \union {i0},
                      met     |-> plan.met \union {at},
                      changes |-> plan.changes \union {Unchanged(want[at], list[i0])}]
          /\ SlotOf[want[at]] = slot
      BY <1>1, <1>7 DEF Keep, DesiredOf
    <2>2. same \in SUBSET Nat
      BY <1>2 DEF LiveOf
    <2>3. i0 \in same
      BY <1>7, <2>2, FirstIsLeast
    <2>4. /\ i0 \in DOMAIN list /\ i0 \notin plan.used
          /\ SlotOf[list[i0].val] = slot /\ SameContent(list[i0].val, want[at])
      BY <2>3 DEF LiveOf
    <2> HIDE DEF same, i0
    <2>5. /\ \A j \in DOMAIN want : \A i \in DOMAIN list :
                /\ Kept(j, i)' <=> Kept(j, i) \/ (j = at /\ i = i0)
                /\ Edited(j, i)' <=> Edited(j, i)
          /\ \A j \in DOMAIN want : Added(j)' <=> Added(j)
          /\ \A i \in DOMAIN list : Dropped(i)' <=> Dropped(i)
      BY <1>1, <1>2, <2>1, <2>4, ChangesDiffer DEF Kept, Edited, Added, Dropped
    <2>6. at \notin plan.met /\ \A i \in DOMAIN list : ~Paired(at, i)
      BY <1>1, <1>3, <2>1 DEF PlanInv, Pairing, Paired
    <2>7. \A j \in DOMAIN want : ~Paired(j, i0)
      BY <2>4 DEF PlanInv, OneToOne
    <2>8. plan'.used = plan.used \union {i0} /\ plan'.met = plan.met \union {at}
      BY <2>1
    <2>9. Pairing'
      <3> SUFFICES ASSUME NEW j \in DOMAIN want
                   PROVE  /\ j \in plan'.met <=> \E i \in DOMAIN list : Kept(j, i)'
                          /\ Added(j)' => /\ j \notin plan'.met
                                          /\ Settled(j)'
                                          /\ LiveOf(list, SlotOf[want[j]])
                                                \subseteq plan'.used
                                          /\ \A i \in DOMAIN list : ~Edited(j, i)'
                          /\ \A i \in DOMAIN list :
                               /\ Kept(j, i)' => /\ SameContent(list[i].val, want[j])
                                                 /\ Looked(j)'
                               /\ Edited(j, i)' =>
                                    /\ SlotOf[list[i].val] = SlotOf[want[j]]
                                    /\ j \notin plan'.met
                                    /\ Settled(j)'
        BY <1>1 DEF Pairing
      <3>1. j \in plan'.met <=> \E i \in DOMAIN list : Kept(j, i)'
        BY <2>4, <2>5, <2>8 DEF PlanInv, Pairing
      <3>2. Added(j)' => /\ j \notin plan'.met
                         /\ Settled(j)'
                         /\ LiveOf(list, SlotOf[want[j]]) \subseteq plan'.used
                         /\ \A i \in DOMAIN list : ~Edited(j, i)'
        BY <1>3, <2>1, <2>5, <2>8 DEF PlanInv, Pairing
      <3>3. ASSUME NEW i \in DOMAIN list
            PROVE  /\ Kept(j, i)' => SameContent(list[i].val, want[j]) /\ Looked(j)'
                   /\ Edited(j, i)' => /\ SlotOf[list[i].val] = SlotOf[want[j]]
                                       /\ j \notin plan'.met
                                       /\ Settled(j)'
        BY <1>3, <2>1, <2>4, <2>5, <2>8 DEF PlanInv, Pairing
      <3> QED
        BY <3>1, <3>2, <3>3
    <2>10. OneToOne'
      <3>1. \A j \in DOMAIN want : \A i \in DOMAIN list :
               Paired(j, i)' <=> Paired(j, i) \/ (j = at /\ i = i0)
        BY <2>5 DEF Paired
      <3> QED
        BY <1>1, <2>4, <2>6, <2>7, <2>8, <3>1 DEF PlanInv, OneToOne
    <2>11. Decided'
      <3>1. \A j \in DOMAIN want : \A i \in DOMAIN list : Paired(j, i) => Paired(j, i)'
        BY <2>5 DEF Paired
      <3>2. \A i \in DOMAIN list : Dropped(i)' => i \notin plan'.used /\ Cleared(i)'
        BY <1>3, <2>4, <2>5, <2>8 DEF PlanInv, Decided
      <3> QED
        BY <1>1, <1>3, <2>5, <2>8, <3>1, <3>2 DEF PlanInv, Decided, SameContent
    <2>12. TypeOK'
      BY <1>1, <1>2, <2>1, <2>4 DEF PlanInv, TypeOK, Changes
    <2> QED
      BY <1>4, <2>9, <2>10, <2>11, <2>12 DEF PlanInv
  <1> QED
    BY <1>5, <1>6, <1>7

-----------------------------------------------------------------------------
(* The second loop comes to a desired value.                               *)
LEMMA ReuseCursor ==
    ASSUME PlanInv, pass = "reuse", at \in DOMAIN want, at' = at + 1,
           UNCHANGED <<list, want, group, pass>>
    PROVE  /\ \A j \in DOMAIN want :
                 /\ Looked(j)' <=> Looked(j)
                 /\ Settled(j)' <=> Settled(j) \/ (j = at /\ SlotOf[want[j]] = slot)
           /\ \A i \in DOMAIN list : /\ Cleared(i)' <=> Cleared(i)
                                     /\ SlotOf[list[i].val] = slot => ~Cleared(i)
           /\ SlotOf[want[at]] = slot => Looked(at) /\ ~Settled(at)
  <1>1. ~Finished(slot)
    BY DEF PlanInv, Turn, Seen, Finished, slot
  <1>2. slot' = slot /\ \A s : Finished(s)' <=> Finished(s)
    BY DEF slot, Finished
  <1>3. DOMAIN want \subseteq Nat
    BY Lists DEF PlanInv
  <1> HIDE DEF Finished, slot
  <1> QED
    BY <1>1, <1>2, <1>3 DEF Looked, Settled, Cleared, Open

LEMMA ReuseIteration ==
    ASSUME PlanInv, pass = "reuse", Iterate(want, Reuse(list, want, slot, plan, at))
    PROVE  PlanInv'
  <1> DEFINE free == LiveOf(list, slot) \ plan.used
             i0 == First(free)
             turn == at \in DesiredOf(want, slot) \ plan.met
  <1>1. /\ at \in DOMAIN want /\ at' = at + 1
        /\ plan' = Reuse(list, want, slot, plan, at)
        /\ UNCHANGED <<list, want, group, pass>>
    BY DEF Iterate
  <1>2. /\ DOMAIN want \subseteq Nat
        /\ DOMAIN list \subseteq Nat
        /\ \A i, k \in DOMAIN list : list[i] = list[k] => i = k
        /\ \A j, h \in DOMAIN want : want[j] = want[h] => j = h
    BY Lists DEF PlanInv
  <1>3. /\ \A j \in DOMAIN want :
              /\ Looked(j)' <=> Looked(j)
              /\ Settled(j)' <=> Settled(j) \/ (j = at /\ SlotOf[want[j]] = slot)
        /\ \A i \in DOMAIN list : /\ Cleared(i)' <=> Cleared(i)
                                  /\ SlotOf[list[i].val] = slot => ~Cleared(i)
        /\ SlotOf[want[at]] = slot => Looked(at) /\ ~Settled(at)
    BY <1>1, ReuseCursor
  <1>4. Turn'
    BY <1>1 DEF PlanInv, Turn, Seen
  <1>5. CASE ~turn
    <2>1. plan' = plan
      BY <1>1, <1>5 DEF Reuse
    <2>2. SlotOf[want[at]] # slot \/ at \in plan.met
      BY <1>1, <1>5 DEF DesiredOf
    <2>3. \A j, i : /\ Kept(j, i)' <=> Kept(j, i)
                    /\ Edited(j, i)' <=> Edited(j, i)
                    /\ Added(j)' <=> Added(j)
                    /\ Dropped(i)' <=> Dropped(i)
                    /\ Paired(j, i)' <=> Paired(j, i)
      BY <1>1, <2>1 DEF Kept, Edited, Added, Dropped, Paired
    <2>4. Pairing'
      BY <1>1, <1>3, <2>1, <2>3 DEF PlanInv, Pairing, LiveOf, SameContent
    <2>5. OneToOne'
      BY <1>1, <2>1, <2>3 DEF PlanInv, OneToOne
    <2>6. at \in plan.met => \E i \in DOMAIN list : Paired(at, i)
      BY <1>1 DEF PlanInv, Pairing, Paired
    <2>7. Decided'
      BY <1>1, <1>3, <2>1, <2>2, <2>3, <2>6 DEF PlanInv, Decided, SameContent
    <2> QED
      BY <1>1, <1>2, <1>4, <2>1, <2>4, <2>5, <2>7 DEF PlanInv, TypeOK, Changes
  <1>6. CASE turn /\ free # {}
    <2>1. /\ plan' = [plan EXCEPT !.used = @ \union {i0},
                         !.changes = @ \union {EditOf(want[at], list[i0])}]
          /\ SlotOf[want[at]] = slot /\ at \notin plan.met
      BY <1>1, <1>6 DEF Reuse, DesiredOf
    <2>2. i0 \in free
      BY <1>2, <1>6, FirstIsLeast DEF LiveOf
    <2>3. i0 \in DOMAIN list /\ i0 \notin plan.used /\ SlotOf[list[i0].val] = slot
      BY <2>2 DEF LiveOf
    <2> HIDE DEF free, i0, turn
    <2>4. /\ plan'.used = plan.used \union {i0} /\ plan'.met = plan.met
          /\ plan'.changes = plan.changes \union {EditOf(want[at], list[i0])}
      BY <2>1 DEF PlanInv, TypeOK
    <2>5. /\ \A j \in DOMAIN want : \A i \in DOMAIN list :
                /\ Kept(j, i)' <=> Kept(j, i)
                /\ Edited(j, i)' <=> Edited(j, i) \/ (j = at /\ i = i0)
          /\ \A j \in DOMAIN want : Added(j)' <=> Added(j)
          /\ \A i \in DOMAIN list : Dropped(i)' <=> Dropped(i)
      BY <1>1, <1>2, <2>3, <2>4, ChangesDiffer DEF Kept, Edited, Added, Dropped
    <2>6. ~Added(at) /\ \A i \in DOMAIN list : ~Paired(at, i)
      BY <1>1, <1>3, <2>1 DEF PlanInv, Pairing, Paired
    <2>7. \A j \in DOMAIN want : ~Paired(j, i0)
      BY <2>3 DEF PlanInv, OneToOne
    <2>8. Pairing'
      <3> SUFFICES ASSUME NEW j \in DOMAIN want
                   PROVE  /\ j \in plan'.met <=> \E i \in DOMAIN list : Kept(j, i)'
                          /\ Added(j)' => /\ j \notin plan'.met
                                          /\ Settled(j)'
                                          /\ LiveOf(list, SlotOf[want[j]])
                                                \subseteq plan'.used
                                          /\ \A i \in DOMAIN list : ~Edited(j, i)'
                          /\ \A i \in DOMAIN list :
                               /\ Kept(j, i)' => /\ SameContent(list[i].val, want[j])
                                                 /\ Looked(j)'
                               /\ Edited(j, i)' =>
                                    /\ SlotOf[list[i].val] = SlotOf[want[j]]
                                    /\ j \notin plan'.met
                                    /\ Settled(j)'
        BY <1>1 DEF Pairing
      <3>1. j \in plan'.met <=> \E i \in DOMAIN list : Kept(j, i)'
        BY <2>4, <2>5 DEF PlanInv, Pairing
      <3>2. Added(j)' => /\ j \notin plan'.met
                         /\ Settled(j)'
                         /\ LiveOf(list, SlotOf[want[j]]) \subseteq plan'.used
                         /\ \A i \in DOMAIN list : ~Edited(j, i)'
        BY <1>3, <2>4, <2>5, <2>6 DEF PlanInv, Pairing
      <3>3. ASSUME NEW i \in DOMAIN list
            PROVE  /\ Kept(j, i)' => SameContent(list[i].val, want[j]) /\ Looked(j)'
                   /\ Edited(j, i)' => /\ SlotOf[list[i].val] = SlotOf[want[j]]
                                       /\ j \notin plan'.met
                                       /\ Settled(j)'
        BY <1>3, <2>1, <2>3, <2>4, <2>5 DEF PlanInv, Pairing
      <3> QED
        BY <3>1, <3>2, <3>3
    <2>9. OneToOne'
      <3>1. \A j \in DOMAIN want : \A i \in DOMAIN list :
               Paired(j, i)' <=> Paired(j, i) \/ (j = at /\ i = i0)
        BY <2>5 DEF Paired
      <3> QED
        BY <1>1, <2>3, <2>4, <2>6, <2>7, <3>1 DEF PlanInv, OneToOne
    <2>10. Decided'
      <3>1. /\ \A j \in DOMAIN want : \A i \in DOMAIN list : Paired(j, i) => Paired(j, i)'
            /\ \A j \in DOMAIN want : j = at => \E i \in DOMAIN list : Paired(j, i)'
        BY <1>1, <2>3, <2>5 DEF Paired
      <3>2. \A i \in DOMAIN list : Dropped(i)' => i \notin plan'.used /\ Cleared(i)'
        BY <1>3, <2>3, <2>4, <2>5 DEF PlanInv, Decided
      <3>3. \A j \in DOMAIN want :
               Settled(j)' => Added(j)' \/ \E i \in DOMAIN list : Paired(j, i)'
        BY <1>3, <2>5, <3>1 DEF PlanInv, Decided
      <3> QED
        BY <1>1, <1>3, <2>4, <2>5, <3>2, <3>3 DEF PlanInv, Decided, SameContent
    <2>11. TypeOK'
      <3>1. plan' = [used    |-> plan.used \union {i0},
                     met     |-> plan.met,
                     changes |-> plan.changes \union {EditOf(want[at], list[i0])}]
        BY <2>1 DEF PlanInv, TypeOK
      <3> QED
        BY <1>1, <1>2, <2>3, <3>1 DEF PlanInv, TypeOK, Changes
    <2> QED
      BY <1>4, <2>8, <2>9, <2>10, <2>11 DEF PlanInv
  <1>7. CASE turn /\ free = {}
    <2>1. /\ plan' = [plan EXCEPT !.changes = @ \union {AddOf(want[at])}]
          /\ SlotOf[want[at]] = slot /\ at \notin plan.met
      BY <1>1, <1>7 DEF Reuse, DesiredOf
    <2>2. LiveOf(list, slot) \subseteq plan.used
      BY <1>7
    <2> HIDE DEF free, i0, turn
    <2>3. /\ plan'.used = plan.used /\ plan'.met = plan.met
          /\ plan'.changes = plan.changes \union {AddOf(want[at])}
      BY <2>1 DEF PlanInv, TypeOK
    <2>4. /\ \A j \in DOMAIN want : \A i \in DOMAIN list :
                /\ Kept(j, i)' <=> Kept(j, i)
                /\ Edited(j, i)' <=> Edited(j, i)
                /\ Paired(j, i)' <=> Paired(j, i)
          /\ \A j \in DOMAIN want : Added(j)' <=> Added(j) \/ j = at
          /\ \A i \in DOMAIN list : Dropped(i)' <=> Dropped(i)
      BY <1>1, <1>2, <2>3, ChangesDiffer DEF Kept, Edited, Added, Dropped, Paired
    <2>5. \A i \in DOMAIN list : ~Edited(at, i)
      BY <1>1, <1>3, <2>1 DEF PlanInv, Pairing
    <2>6. Pairing'
      BY <1>1, <1>3, <2>1, <2>2, <2>3, <2>4, <2>5
      DEF PlanInv, Pairing, LiveOf, SameContent
    <2>7. OneToOne'
      BY <1>1, <2>3, <2>4 DEF PlanInv, OneToOne
    <2>8. Decided'
      BY <1>1, <1>3, <2>3, <2>4 DEF PlanInv, Decided, SameContent
    <2>9. TypeOK'
      BY <1>1, <1>2, <2>1 DEF PlanInv, TypeOK, Changes
    <2> QED
      BY <1>4, <2>6, <2>7, <2>8, <2>9 DEF PlanInv
  <1> QED
    BY <1>5, <1>6, <1>7

-----------------------------------------------------------------------------
(* The third loop comes to a live record.                                  *)
LEMMA DropIteration ==
    ASSUME PlanInv, pass = "drop", Iterate(list, Drop(list, slot, plan, at))
    PROVE  PlanInv'
  <1>1. /\ at \in DOMAIN list /\ at' = at + 1
        /\ plan' = Drop(list, slot, plan, at)
        /\ UNCHANGED <<list, want, group, pass>>
    BY DEF Iterate
  <1>2. /\ DOMAIN want \subseteq Nat
        /\ DOMAIN list \subseteq Nat
        /\ \A i, k \in DOMAIN list : list[i] = list[k] => i = k
        /\ \A j, h \in DOMAIN want : want[j] = want[h] => j = h
    BY Lists DEF PlanInv
  <1>3. /\ \A j \in DOMAIN want : (Looked(j)' <=> Looked(j)) /\ (Settled(j)' <=> Settled(j))
        /\ \A i \in DOMAIN list :
              Cleared(i)' <=> Cleared(i) \/ (i = at /\ SlotOf[list[i].val] = slot)
    <2>1. slot' = slot /\ \A s : Finished(s)' <=> Finished(s)
      BY <1>1 DEF slot, Finished
    <2> HIDE DEF Finished, slot
    <2> QED
      BY <1>1, <1>2, <2>1 DEF Looked, Settled, Cleared, Open
  <1>4. Turn'
    BY <1>1 DEF PlanInv, Turn, Seen
  <1>5. CASE at \notin LiveOf(list, slot) \ plan.used
    <2>1. plan' = plan /\ (SlotOf[list[at].val] # slot \/ at \in plan.used)
      BY <1>1, <1>5 DEF Drop, LiveOf
    <2>2. \A j, i : /\ Kept(j, i)' <=> Kept(j, i)
                    /\ Edited(j, i)' <=> Edited(j, i)
                    /\ Added(j)' <=> Added(j)
                    /\ Dropped(i)' <=> Dropped(i)
                    /\ Paired(j, i)' <=> Paired(j, i)
      BY <1>1, <2>1 DEF Kept, Edited, Added, Dropped, Paired
    <2>3. Pairing'
      BY <1>1, <1>3, <2>1, <2>2 DEF PlanInv, Pairing, LiveOf, SameContent
    <2>4. OneToOne'
      BY <1>1, <2>1, <2>2 DEF PlanInv, OneToOne
    <2>5. Decided'
      BY <1>1, <1>3, <2>1, <2>2 DEF PlanInv, Decided, SameContent
    <2> QED
      BY <1>1, <1>2, <1>4, <2>1, <2>3, <2>4, <2>5 DEF PlanInv, TypeOK, Changes
  <1>6. CASE at \in LiveOf(list, slot) \ plan.used
    <2>1. /\ plan' = [plan EXCEPT !.changes = @ \union {DeleteOf(list[at])}]
          /\ SlotOf[list[at].val] = slot /\ at \notin plan.used
      BY <1>1, <1>6 DEF Drop, LiveOf
    <2>2. /\ plan'.used = plan.used /\ plan'.met = plan.met
          /\ plan'.changes = plan.changes \union {DeleteOf(list[at])}
      BY <2>1 DEF PlanInv, TypeOK
    <2>3. /\ \A j \in DOMAIN want : \A i \in DOMAIN list :
                /\ Kept(j, i)' <=> Kept(j, i)
                /\ Edited(j, i)' <=> Edited(j, i)
                /\ Paired(j, i)' <=> Paired(j, i)
          /\ \A j \in DOMAIN want : Added(j)' <=> Added(j)
          /\ \A i \in DOMAIN list : Dropped(i)' <=> Dropped(i) \/ i = at
      BY <1>1, <1>2, <2>2, ChangesDiffer DEF Kept, Edited, Added, Dropped, Paired
    <2>4. Pairing'
      BY <1>1, <1>3, <2>2, <2>3 DEF PlanInv, Pairing, LiveOf, SameContent
    <2>5. OneToOne'
      BY <1>1, <2>2, <2>3 DEF PlanInv, OneToOne
    <2>6. Decided'
      BY <1>1, <1>3, <2>1, <2>2, <2>3 DEF PlanInv, Decided, SameContent
    <2>7. TypeOK'
      BY <1>1, <1>2, <2>1 DEF PlanInv, TypeOK, Changes
    <2> QED
      BY <1>4, <2>4, <2>5, <2>6, <2>7 DEF PlanInv
  <1> QED
    BY <1>5, <1>6

(* One loop ends and the next begins, or a slot is finished.               *)
LEMMA LoopEnds ==
    ASSUME PlanInv,
           \/ pass = "keep" /\ EndLoop(want, "reuse") /\ UNCHANGED group
           \/ pass = "reuse" /\ EndLoop(want, "drop") /\ UNCHANGED group
           \/ pass = "drop" /\ EndLoop(list, "group") /\ group' = group + 1
    PROVE  PlanInv'
  <1>1. /\ at' = 1 /\ UNCHANGED <<list, want, plan>>
        /\ \/ pass = "keep" /\ pass' = "reuse" /\ at \notin DOMAIN want /\ group' = group
           \/ pass = "reuse" /\ pass' = "drop" /\ at \notin DOMAIN want /\ group' = group
           \/ /\ pass = "drop" /\ pass' = "group" /\ at \notin DOMAIN list
              /\ group' = group + 1
    BY DEF EndLoop
  <1>2. /\ \A j \in DOMAIN want : j \in Nat \ {0} /\ (at \notin DOMAIN want => j < at)
        /\ \A i \in DOMAIN list : i \in Nat \ {0} /\ (at \notin DOMAIN list => i < at)
        /\ group \in Nat \ {0} /\ group \in DOMAIN want /\ Len(want) \in Nat
        /\ DOMAIN want = 1 .. Len(want)
    BY <1>1, Lists DEF PlanInv, TypeOK, Turn
  <1>3. CASE pass \in {"keep", "reuse"}
    <2>1. slot' = slot /\ \A s : Finished(s)' <=> Finished(s)
      BY <1>1, <1>3 DEF slot, Finished
    <2>2. /\ \A j \in DOMAIN want :
                (Looked(j)' <=> Looked(j)) /\ (Settled(j)' <=> Settled(j))
          /\ \A i \in DOMAIN list : Cleared(i)' <=> Cleared(i)
      <3> HIDE DEF Finished, slot
      <3> QED
        BY <1>1, <1>2, <1>3, <2>1 DEF Looked, Settled, Cleared, Open
    <2>3. Decisions'
      BY <1>1, <2>2, NothingDecided
    <2>4. Turn'
      BY <1>1, <1>3 DEF PlanInv, Turn, Seen
    <2>5. TypeOK'
      BY <1>1, <1>3 DEF PlanInv, TypeOK, Changes
    <2> QED
      BY <2>3, <2>4, <2>5 DEF PlanInv, Decisions
  <1>4. CASE pass = "drop"
    <2>1. \A s : Finished(s)' <=> Finished(s) \/ s = slot
      <3>1. group' = group + 1 /\ want' = want
        BY <1>1, <1>4
      <3>2. 1 .. group' - 1 = (1 .. group - 1) \union {group}
        BY <1>2, <3>1
      <3> QED
        BY <3>1, <3>2 DEF Finished, slot
    <2>2. /\ \A j \in DOMAIN want :
                (Looked(j)' <=> Looked(j)) /\ (Settled(j)' <=> Settled(j))
          /\ \A i \in DOMAIN list : Cleared(i)' <=> Cleared(i)
      <3> HIDE DEF Finished, slot
      <3> QED
        BY <1>1, <1>2, <1>4, <2>1 DEF Looked, Settled, Cleared, Open
    <2>3. Decisions'
      BY <1>1, <2>2, NothingDecided
    <2>4. Turn'
      BY <1>1, <1>4 DEF Turn
    <2>5. TypeOK'
      BY <1>1, <1>2, <1>4 DEF PlanInv, TypeOK, Changes
    <2> QED
      BY <2>3, <2>4, <2>5 DEF PlanInv, Decisions
  <1> QED
    BY <1>1, <1>3, <1>4

(* A slot's turn comes, or has come before; all slots are through.         *)
LEMMA NextGroup ==
    ASSUME PlanInv, SkipGroup \/ OpenGroup \/ Return
    PROVE  PlanInv'
  <1>1. /\ UNCHANGED <<list, want, plan>> /\ pass = "group"
        /\ \/ /\ pass' = "group" /\ group' = group + 1 /\ at' = at
              /\ group \in DOMAIN want /\ Seen(want, group)
           \/ /\ pass' = "keep" /\ group' = group /\ at' = 1
              /\ group \in DOMAIN want /\ ~Seen(want, group)
           \/ pass' = "done" /\ group' = group /\ at' = at /\ group \notin DOMAIN want
    BY DEF SkipGroup, OpenGroup, Return
  <1>2. /\ \A j \in DOMAIN want : j \in Nat \ {0}
        /\ \A i \in DOMAIN list : i \in Nat \ {0}
        /\ DOMAIN want = 1 .. Len(want) /\ Len(want) \in Nat
        /\ group \in 1 .. Len(want) + 1
    BY Lists DEF PlanInv, TypeOK
  <1>3. \A s : Finished(s)' <=> Finished(s)
    <2>1. CASE group' = group
      BY <1>1, <2>1 DEF Finished
    <2>2. CASE group' = group + 1
      <3>1. 1 .. group' - 1 = (1 .. group - 1) \union {group}
        BY <1>2, <2>2
      <3>2. Seen(want, group)
        BY <1>1, <1>2, <2>2
      <3> QED
        BY <1>1, <3>1, <3>2 DEF Finished, Seen
    <2> QED
      BY <1>1, <2>1, <2>2
  <1>4. /\ \A j \in DOMAIN want : (Looked(j)' <=> Looked(j)) /\ (Settled(j)' <=> Settled(j))
        /\ \A i \in DOMAIN list : Cleared(i)' <=> Cleared(i)
    <2> HIDE DEF Finished, slot
    <2> QED
      BY <1>1, <1>2, <1>3 DEF Looked, Settled, Cleared, Open
  <1>5. Decisions'
    BY <1>1, <1>4, NothingDecided
  <1>6. Turn'
    BY <1>1, <1>2 DEF Turn, Seen
  <1>7. TypeOK'
    BY <1>1, <1>2 DEF PlanInv, TypeOK, Changes
  <1> QED
    BY <1>5, <1>6, <1>7 DEF PlanInv, Decisions

LEMMA NothingPlanned == Init => PlanInv
  <1> SUFFICES ASSUME Init PROVE PlanInv
    OBVIOUS
  <1>1. TypeOK
    <2>1. Cardinality(Desired) \in Nat
      BY PlanAssumption, FS_CardinalityType DEF PlanAssumption
    <2>2. want \in Seq(Desired)
      BY <2>1, SeqDef DEF Init, Orders
    <2> QED
      BY <2>2 DEF Init, TypeOK, NoChanges
  <1>2. \A j, i : ~Kept(j, i) /\ ~Edited(j, i) /\ ~Added(j) /\ ~Dropped(i) /\ ~Paired(j, i)
    BY DEF Init, NoChanges, Kept, Edited, Added, Dropped, Paired
  <1>3. /\ \A j \in DOMAIN want : ~Looked(j) /\ ~Settled(j)
        /\ \A i \in DOMAIN list : ~Cleared(i)
    BY DEF Init, Looked, Settled, Cleared, Finished, Open
  <1> QED
    BY <1>1, <1>2, <1>3 DEF Init, PlanInv, Turn, Pairing, OneToOne, Decided, NoChanges

LEMMA PlanInvKept == PlanInv /\ [Next]_planVars => PlanInv'
  <1> SUFFICES ASSUME PlanInv, [Next]_planVars PROVE PlanInv'
    OBVIOUS
  <1>1. CASE SkipGroup \/ OpenGroup \/ Return
    BY <1>1, NextGroup
  <1>2. CASE KeepLoop
    BY <1>2, KeepIteration, LoopEnds DEF KeepLoop
  <1>3. CASE ReuseLoop
    BY <1>3, ReuseIteration, LoopEnds DEF ReuseLoop
  <1>4. CASE DropLoop
    BY <1>4, DropIteration, LoopEnds DEF DropLoop
  <1>5. CASE UNCHANGED planVars
    <2>1. Decisions'
      <3>1. /\ \A j \in DOMAIN want :
                  (Looked(j)' <=> Looked(j)) /\ (Settled(j)' <=> Settled(j))
            /\ \A i \in DOMAIN list : Cleared(i)' <=> Cleared(i)
        BY <1>5 DEF planVars, Looked, Settled, Cleared, Finished, Open, slot
      <3> QED
        BY <1>5, <3>1, NothingDecided DEF planVars
    <2> QED
      BY <1>5, <2>1 DEF planVars, PlanInv, Decisions, TypeOK, Changes, Turn, Seen
  <1> QED
    BY <1>1, <1>2, <1>3, <1>4, <1>5 DEF Next

-----------------------------------------------------------------------------
(* When all slots are through, the pairs are a placement and the changes   *)
(* are those of it.                                                        *)
LEMMA AllDecided ==
    ASSUME PlanInv, pass = "done"
    PROVE  /\ \A j \in DOMAIN want : Looked(j) /\ Settled(j)
           /\ \A i \in DOMAIN list :
                 SlotOf[list[i].val] \in Managed <=> Cleared(i)
  <1>1. \A j \in DOMAIN want : Finished(SlotOf[want[j]])
    BY Lists DEF PlanInv, Turn, Finished
  <1>2. \A s : Finished(s) => \E j \in DOMAIN want : SlotOf[want[j]] = s
    BY Lists DEF PlanInv, Turn, Finished
  <1>3. \A d \in Desired : \E j \in DOMAIN want : want[j] = d
    BY Lists DEF PlanInv
  <1>4. \A j \in DOMAIN want : want[j] \in Desired
    BY Lists DEF PlanInv
  <1> HIDE DEF Finished
  <1>5. \A j \in DOMAIN want : Looked(j) /\ Settled(j)
    BY <1>1 DEF Looked, Settled
  <1>6. ASSUME NEW i \in DOMAIN list
        PROVE  SlotOf[list[i].val] \in Managed <=> Cleared(i)
    <2>1. Cleared(i) <=> Finished(SlotOf[list[i].val])
      BY DEF Cleared, Open
    <2> QED
      BY <1>1, <1>2, <1>3, <1>4, <2>1 DEF Managed
  <1> QED
    BY <1>5, <1>6

LEMMA PairsArePlaced ==
    ASSUME PlanInv, pass = "done"
    PROVE  \E c \in Placements(ToSet(list)) :
              /\ \A d \in Desired :
                    d \in DOMAIN c <=>
                       \E j \in DOMAIN want, i \in DOMAIN list :
                          want[j] = d /\ Paired(j, i)
              /\ \A j \in DOMAIN want, i \in DOMAIN list :
                    Paired(j, i) => c[want[j]] = list[i]
  <1> DEFINE Holds(d, r) == \E j \in DOMAIN want, i \in DOMAIN list :
                               want[j] = d /\ list[i] = r /\ Paired(j, i)
             D == {d \in Desired : \E r \in ToSet(list) : Holds(d, r)}
             c == [d \in D |-> CHOOSE r \in ToSet(list) : Holds(d, r)]
  <1>1. /\ \A i \in DOMAIN list : list[i] \in ToSet(list) /\ list[i].val \in Value
        /\ \A r \in ToSet(list) : \E i \in DOMAIN list : r = list[i]
        /\ \A j \in DOMAIN want : want[j] \in Desired
        /\ \A i, k \in DOMAIN list : list[i] = list[k] => i = k
        /\ \A j, h \in DOMAIN want : want[j] = want[h] => j = h
        /\ \A d \in Desired : \E j \in DOMAIN want : want[j] = d
        /\ \A i \in DOMAIN list : \A j \in DOMAIN want :
              SameContent(list[i].val, want[j]) => SlotOf[list[i].val] = SlotOf[want[j]]
    BY Lists DEF PlanInv, ToSet
  <1>2. \A d, r, q : Holds(d, r) /\ Holds(d, q) => r = q
    BY <1>1 DEF PlanInv, OneToOne
  <1>3. \A j \in DOMAIN want, i \in DOMAIN list : Paired(j, i) => Holds(want[j], list[i])
    OBVIOUS
  <1>4. \A d \in D : c[d] \in ToSet(list) /\ Holds(d, c[d])
    <2> HIDE DEF Holds
    <2> QED
      OBVIOUS
  <1>5. \A j \in DOMAIN want, i \in DOMAIN list :
           Paired(j, i) => want[j] \in D /\ c[want[j]] = list[i]
    <2>1. \A j \in DOMAIN want, i \in DOMAIN list : Paired(j, i) => want[j] \in D
      BY <1>1, <1>3
    <2> HIDE DEF c, D, Holds
    <2> QED
      BY <1>1, <1>2, <1>3, <1>4, <2>1
  <1>6. DOMAIN c = D /\ D \subseteq Desired
    OBVIOUS
  <1>7. \A d \in D : \E j \in DOMAIN want, i \in DOMAIN list :
           want[j] = d /\ c[d] = list[i] /\ Paired(j, i)
    <2> HIDE DEF c, D
    <2> QED
      BY <1>4
  <1>8. \A d \in Desired :
           d \in D <=> \E j \in DOMAIN want, i \in DOMAIN list : want[j] = d /\ Paired(j, i)
    BY <1>5, <1>7
  <1>9. \A j \in DOMAIN want, i \in DOMAIN list :
           Paired(j, i) => SlotOf[list[i].val] = SlotOf[want[j]]
    BY <1>1 DEF PlanInv, Pairing, Paired
  <1>10. c \in [D -> ManagedPart(ToSet(list))]
    <2>1. \A d \in D : c[d] \in ManagedPart(ToSet(list))
      <3> HIDE DEF c, D
      <3> QED
        BY <1>1, <1>7, <1>9 DEF ManagedPart, Managed
    <2> QED
      BY <2>1
  <1> HIDE DEF c, D, Holds
  <1>11. \A d, e \in DOMAIN c : c[d] = c[e] => d = e
    BY <1>1, <1>6, <1>7 DEF PlanInv, OneToOne
  <1>12. \A d \in DOMAIN c : SlotOf[c[d].val] = SlotOf[d]
    BY <1>6, <1>7, <1>9
  <1>13. ASSUME NEW d \in Desired, NEW r \in ToSet(list), SameContent(r.val, d)
         PROVE  d \in DOMAIN c /\ SameContent(c[d].val, d)
    <2>1. PICK j \in DOMAIN want : want[j] = d
      BY <1>1
    <2>2. j \in plan.met
      BY <1>1, <1>13, <2>1, AllDecided DEF PlanInv, Decided
    <2>3. PICK i \in DOMAIN list : Kept(j, i)
      BY <2>2 DEF PlanInv, Pairing
    <2> QED
      BY <1>5, <1>6, <2>1, <2>3 DEF PlanInv, Pairing, Paired
  <1>14. ASSUME NEW d \in Desired \ DOMAIN c, NEW r \in InSlot(ToSet(list), SlotOf[d])
         PROVE  \E e \in DOMAIN c : c[e] = r
    <2>1. PICK j \in DOMAIN want : want[j] = d
      BY <1>1
    <2>2. PICK i \in DOMAIN list : r = list[i] /\ SlotOf[list[i].val] = SlotOf[want[j]]
      BY <1>1, <2>1 DEF InSlot
    <2>3. Added(j)
      BY <1>6, <1>8, <1>14, <2>1, AllDecided DEF PlanInv, Decided
    <2>4. i \in plan.used
      BY <2>2, <2>3 DEF PlanInv, Pairing, LiveOf
    <2>5. PICK h \in DOMAIN want : Paired(h, i)
      BY <2>4 DEF PlanInv, OneToOne
    <2> QED
      BY <1>5, <1>6, <2>2, <2>5
  <1>15. IsPlacement(ToSet(list), c)
    BY <1>11, <1>12, <1>13, <1>14 DEF IsPlacement
  <1>16. c \in Placements(ToSet(list))
    BY <1>6, <1>10, <1>15 DEF Placements
  <1> QED
    BY <1>5, <1>6, <1>8, <1>16

(* The sets of a plan, by its elements.                                    *)
LEMMA SetsOfChanges ==
    ASSUME PlanInv
    PROVE  /\ AsSets(plan.changes).add = {want[j] : j \in {h \in DOMAIN want : Added(h)}}
           /\ \A x : x \in AsSets(plan.changes).edit <=>
                 \E j \in DOMAIN want, i \in DOMAIN list :
                    Edited(j, i) /\ x = [cur |-> list[i], to |-> want[j]]
           /\ AsSets(plan.changes).del = {list[i] : i \in {k \in DOMAIN list : Dropped(k)}}
  <1> DEFINE C == plan.changes
  <1>1. C \subseteq Changes
    BY DEF PlanInv, TypeOK
  <1>2. /\ \A x \in C : x.op = "add" => \E j \in DOMAIN want : x = AddOf(want[j])
        /\ \A x \in C : x.op = "edit" => \E j \in DOMAIN want, i \in DOMAIN list :
                                           x = EditOf(want[j], list[i])
        /\ \A x \in C : x.op = "delete" => \E i \in DOMAIN list : x = DeleteOf(list[i])
    BY <1>1 DEF Changes, Unchanged, EditOf, AddOf, DeleteOf
  <1>3. /\ \A d : AddOf(d).op = "add" /\ AddOf(d).to = d
        /\ \A r : DeleteOf(r).op = "delete" /\ DeleteOf(r).cur = r
        /\ \A d, r : EditOf(d, r).op = "edit" /\ EditOf(d, r).to = d /\ EditOf(d, r).cur = r
    BY DEF EditOf, AddOf, DeleteOf
  <1>4. AsSets(C) = [add  |-> {x.to : x \in {y \in C : y.op = "add"}},
                     edit |-> {[cur |-> x.cur, to |-> x.to] : x \in {y \in C : y.op = "edit"}},
                     del  |-> {x.cur : x \in {y \in C : y.op = "delete"}}]
    BY DEF AsSets
  <1> HIDE DEF C
  <1>5. AsSets(C).add = {want[j] : j \in {h \in DOMAIN want : Added(h)}}
    <2>1. AsSets(C).add = {x.to : x \in {y \in C : y.op = "add"}}
      BY <1>4
    <2> QED
      BY <1>2, <1>3, <2>1 DEF Added, C
  <1>6. AsSets(C).del = {list[i] : i \in {k \in DOMAIN list : Dropped(k)}}
    <2>1. AsSets(C).del = {x.cur : x \in {y \in C : y.op = "delete"}}
      BY <1>4
    <2> QED
      BY <1>2, <1>3, <2>1 DEF Dropped, C
  <1>7. \A x : x \in AsSets(C).edit <=>
           \E j \in DOMAIN want, i \in DOMAIN list :
              Edited(j, i) /\ x = [cur |-> list[i], to |-> want[j]]
    <2>1. AsSets(C).edit = {[cur |-> x.cur, to |-> x.to] : x \in {y \in C : y.op = "edit"}}
      BY <1>4
    <2> QED
      BY <1>2, <1>3, <2>1 DEF Edited, C
  <1> QED
    BY <1>5, <1>6, <1>7 DEF C

LEMMA ChangesArePlanned ==
    ASSUME PlanInv, pass = "done"
    PROVE  AsSets(plan.changes) \in Plans(ToSet(list))
  <1> DEFINE live == ToSet(list)
             P == AsSets(plan.changes)
  <1>1. PICK c \in Placements(live) :
           /\ \A d \in Desired :
                 d \in DOMAIN c <=>
                    \E j \in DOMAIN want, i \in DOMAIN list : want[j] = d /\ Paired(j, i)
           /\ \A j \in DOMAIN want, i \in DOMAIN list : Paired(j, i) => c[want[j]] = list[i]
    BY PairsArePlaced
  <1>2. DOMAIN c \subseteq Desired
    BY <1>1 DEF Placements
  <1>3. /\ \A i \in DOMAIN list : list[i] \in live
        /\ \A r \in live : \E i \in DOMAIN list : r = list[i]
        /\ \A j \in DOMAIN want : want[j] \in Desired
        /\ \A i, k \in DOMAIN list : list[i] = list[k] => i = k
        /\ \A j, h \in DOMAIN want : want[j] = want[h] => j = h
        /\ \A d \in Desired : \E j \in DOMAIN want : want[j] = d
    BY Lists DEF PlanInv, ToSet
  <1> HIDE DEF live
  <1>4. P.add = Desired \ DOMAIN c
    <2>1. \A j \in DOMAIN want : Added(j) <=> \A i \in DOMAIN list : ~Paired(j, i)
      BY AllDecided DEF PlanInv, Pairing, Decided, Paired
    <2> QED
      BY <1>1, <1>2, <1>3, <2>1, SetsOfChanges
  <1>5. P.edit = {[cur |-> c[d], to |-> d] :
                    d \in {e \in DOMAIN c : ~SameContent(c[e].val, e)}}
    <2>1. ASSUME NEW j \in DOMAIN want, NEW i \in DOMAIN list, Paired(j, i)
          PROVE  Edited(j, i) <=> ~SameContent(list[i].val, want[j])
      <3>1. Kept(j, i) => SameContent(list[i].val, want[j])
        BY DEF PlanInv, Pairing
      <3>2. Edited(j, i) => ~SameContent(list[i].val, want[j])
        BY AllDecided DEF PlanInv, Pairing, Decided
      <3> QED
        BY <2>1, <3>1, <3>2 DEF Paired
    <2>2. ASSUME NEW j \in DOMAIN want, NEW i \in DOMAIN list, Edited(j, i)
          PROVE  /\ want[j] \in DOMAIN c /\ c[want[j]] = list[i]
                 /\ ~SameContent(c[want[j]].val, want[j])
      BY <1>1, <1>3, <2>1, <2>2 DEF Paired
    <2>3. ASSUME NEW d \in DOMAIN c, ~SameContent(c[d].val, d)
          PROVE  \E j \in DOMAIN want, i \in DOMAIN list :
                    Edited(j, i) /\ c[d] = list[i] /\ d = want[j]
      BY <1>1, <1>2, <2>1, <2>3
    <2>4. \A x : x \in P.edit <=>
             \E j \in DOMAIN want, i \in DOMAIN list :
                Edited(j, i) /\ x = [cur |-> list[i], to |-> want[j]]
      BY SetsOfChanges
    <2> HIDE DEF P
    <2> QED
      BY <2>2, <2>3, <2>4
  <1>6. P.del = {r \in ManagedPart(live) : \A d \in DOMAIN c : c[d] # r}
    <2>1. \A i \in DOMAIN list :
             i \in plan.used <=> \E d \in DOMAIN c : c[d] = list[i]
      BY <1>1, <1>2, <1>3 DEF PlanInv, OneToOne
    <2>2. \A i \in DOMAIN list :
             Dropped(i) <=> i \notin plan.used /\ SlotOf[list[i].val] \in Managed
      BY AllDecided DEF PlanInv, Decided
    <2>3. P.del = {list[i] : i \in {k \in DOMAIN list : Dropped(k)}}
      BY SetsOfChanges
    <2> HIDE DEF P
    <2> QED
      BY <1>3, <2>1, <2>2, <2>3 DEF ManagedPart
  <1>7. P = ChangesOf(live, c)
    <2>1. P = [add |-> P.add, edit |-> P.edit, del |-> P.del]
      BY DEF AsSets
    <2> HIDE DEF P
    <2> QED
      BY <1>4, <1>5, <1>6, <2>1 DEF ChangesOf
  <1> QED
    BY <1>1, <1>7 DEF Plans, live

(* Whatever zone a provider lists, in whatever order, and whatever is      *)
(* desired: what the three loops compute is a plan as ZonePlan describes   *)
(* it, the one the publish modules build on (provider.go:171-235).         *)
THEOREM PlanIsSound == Spec => []PlanSound
  <1>1. PlanInv => PlanSound
    BY ChangesArePlanned DEF PlanSound
  <1> QED
    BY <1>1, NothingPlanned, PlanInvKept, PTL DEF Spec

=============================================================================
