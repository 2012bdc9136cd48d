-------------------------- MODULE PublishByIdProofs --------------------------
(***************************************************************************)
(* Theorems about `mailadmin dns publish` on providers with record ids,    *)
(* for any set of values, slots and desired records, any number of         *)
(* processes, and any bounds.                                              *)
(***************************************************************************)
EXTENDS PublishById, TLAPS

-----------------------------------------------------------------------------
(* Plans.  These lemmas do not mention the state machine.                  *)

(* A plan comes from a placement.                                          *)
LEMMA PlanOrigin ==
    ASSUME NEW live, NEW plan \in Plans(live)
    PROVE  \E D \in SUBSET Desired : \E c \in [D -> ManagedPart(live)] :
              IsPlacement(live, c) /\ plan = ChangesOf(live, c)
  BY DEF Plans, Placements

(* A plan touches live records of managed slots only, and edits a record   *)
(* into a value of its own slot.                                           *)
LEMMA PlanTyped ==
    ASSUME NEW live, live \subseteq Record, NEW plan \in Plans(live)
    PROVE  /\ plan \in Plan
           /\ Touched(plan) \subseteq live
           /\ \A e \in plan.edit : SlotOf[e.cur.val] = SlotOf[e.to]
  <1>0. PICK D \in SUBSET Desired : \E c \in [D -> ManagedPart(live)] :
            IsPlacement(live, c) /\ plan = ChangesOf(live, c)
    BY PlanOrigin
  <1>1. PICK c \in [D -> ManagedPart(live)] :
            IsPlacement(live, c) /\ plan = ChangesOf(live, c)
    BY <1>0
  <1>2. ManagedPart(live) \subseteq MailRecord /\ ManagedPart(live) \subseteq live
    BY DEF ManagedPart, MailRecord
  <1>3. \A d \in DOMAIN c : d \in Desired /\ c[d] \in ManagedPart(live)
    BY <1>1
  <1>4. plan.add \subseteq Desired /\ plan.del \subseteq ManagedPart(live)
    BY <1>1 DEF ChangesOf
  <1>5. plan.edit \subseteq [cur : ManagedPart(live), to : Desired]
    BY <1>1, <1>3 DEF ChangesOf
  <1>6. \A e \in plan.edit : SlotOf[e.cur.val] = SlotOf[e.to]
    BY <1>1 DEF ChangesOf, IsPlacement
  <1>7. plan \in Plan
    BY <1>1, <1>2, <1>4, <1>5 DEF ChangesOf, Plan
  <1> QED
    BY <1>2, <1>4, <1>5, <1>6, <1>7 DEF Touched

(* The two desired values of the same content are one.                     *)
LEMMA DesiredDistinct ==
    ASSUME NEW d \in Desired, NEW e \in Desired, ClassOf[d] = ClassOf[e]
    PROVE  d = e
  BY ZoneAssumption

(* Once everything of a fitting plan is done, the zone is exact.           *)
LEMMA NothingLeft ==
    ASSUME NEW live, Fits(live, NothingToDo)
    PROVE  Exact(live)
  <1>1. Touched(NothingToDo) = {} /\ Wanted(NothingToDo) = {}
    BY DEF Touched, Wanted, NothingToDo
  <1>2. Settled(live, NothingToDo) = ManagedPart(live)
    BY <1>1 DEF Settled
  <1> QED
    BY <1>1, <1>2 DEF Fits, Exact, ManagedPart

(* A plan that fits an exact zone is empty.                                *)
LEMMA ExactNeedsNothing ==
    ASSUME NEW live, NEW plan \in Plan, Fits(live, plan), Exact(live)
    PROVE  plan.add = {} /\ plan.edit = {} /\ plan.del = {}
  <1>1. Wanted(plan) \subseteq Desired
    BY DEF Plan, Wanted
  <1>2. Wanted(plan) = {}
    BY <1>1 DEF Fits, Exact
  <1>3. plan.add = {} /\ plan.edit = {}
    BY <1>2 DEF Wanted
  <1>4. ASSUME NEW r \in plan.del PROVE FALSE
    <2>1. r \in ManagedPart(live) /\ r \in Touched(plan)
      BY DEF Fits, Touched, Plan, MailRecord, ManagedPart
    <2>2. PICK d \in Desired : SameContent(r.val, d)
      BY <2>1 DEF Exact
    <2>3. PICK q \in Settled(live, plan) : SameContent(q.val, d)
      BY <1>2 DEF Fits
    <2>4. q \in ManagedPart(live) /\ q # r
      BY <2>1, <2>3 DEF Settled
    <2> QED
      BY <2>1, <2>2, <2>3, <2>4 DEF Exact, SameContent
  <1> QED
    BY <1>3, <1>4

(* A plan fits the zone it was made for.                                   *)
LEMMA FitsWhenListed ==
    ASSUME NEW live, live \subseteq Record, NEW plan \in Plans(live)
    PROVE  Fits(live, plan)
  <1>0. PICK D \in SUBSET Desired : \E c \in [D -> ManagedPart(live)] :
            IsPlacement(live, c) /\ plan = ChangesOf(live, c)
    BY PlanOrigin
  <1>1. PICK c \in [D -> ManagedPart(live)] :
            IsPlacement(live, c) /\ plan = ChangesOf(live, c)
    BY <1>0
  <1>2. \A e \in plan.edit : /\ e.to \in D /\ e.cur = c[e.to]
                            /\ ~SameContent(c[e.to].val, e.to)
    BY <1>1 DEF ChangesOf
  <1>3. \A d \in D : ~SameContent(c[d].val, d) =>
            \E e \in plan.edit : e.cur = c[d] /\ e.to = d
    <2> SUFFICES ASSUME NEW d \in D, ~SameContent(c[d].val, d)
                 PROVE  \E e \in plan.edit : e.cur = c[d] /\ e.to = d
      OBVIOUS
    <2>1. [cur |-> c[d], to |-> d] \in plan.edit
      BY <1>1 DEF ChangesOf
    <2> QED
      BY <2>1
  <1>4. plan.add = Desired \ D
    BY <1>1 DEF ChangesOf
  <1>5. plan.del = {r \in ManagedPart(live) : \A d \in D : c[d] # r}
    BY <1>1 DEF ChangesOf
  <1>6. \A d, e \in D : c[d] = c[e] => d = e
    BY <1>1 DEF IsPlacement
  <1>7. \A d \in Desired : \A r \in live :
            SameContent(r.val, d) => d \in D /\ SameContent(c[d].val, d)
    BY <1>1 DEF IsPlacement
  <1>8. Touched(plan) \subseteq live
    BY PlanTyped
  <1>9. \A e \in plan.edit : e.cur \notin plan.del /\ e.to \notin plan.add
    BY <1>2, <1>4, <1>5
  <1>10. \A e, f \in plan.edit : e.cur = f.cur \/ e.to = f.to => e = f
    BY <1>1, <1>2, <1>6 DEF ChangesOf
  <1>11. \A d \in Wanted(plan) : \A r \in live : ~SameContent(r.val, d)
    BY <1>2, <1>4, <1>7 DEF Wanted
  <1>12. ASSUME NEW d \in Desired \ Wanted(plan)
         PROVE  \E r \in Settled(live, plan) : SameContent(r.val, d)
    <2>1. d \in D /\ c[d] \in ManagedPart(live)
      BY <1>4 DEF Wanted
    <2>2. SameContent(c[d].val, d)
      BY <1>3, <2>1 DEF Wanted
    <2>3. c[d] \notin plan.del
      BY <1>5, <2>1
    <2>4. \A e \in plan.edit : e.cur # c[d]
      BY <1>2, <1>6, <2>1 DEF Wanted
    <2> QED
      BY <2>1, <2>2, <2>3, <2>4 DEF Settled, Touched
  <1>13. ASSUME NEW r \in Settled(live, plan)
         PROVE  \E d \in D : r = c[d] /\ SameContent(r.val, d)
    <2>1. PICK d \in D : r = c[d]
      BY <1>5 DEF Settled, Touched
    <2>2. SameContent(r.val, d)
      BY <1>3, <2>1 DEF Settled, Touched
    <2> QED
      BY <2>1, <2>2
  <1>14. \A r, q \in Settled(live, plan) : SameContent(r.val, q.val) => r = q
    BY <1>13, DesiredDistinct DEF SameContent
  <1> QED
    BY <1>8, <1>9, <1>10, <1>11, <1>12, <1>13, <1>14 DEF Fits

-----------------------------------------------------------------------------
(* Carrying out one change of a fitting plan leaves a fitting plan.        *)

LEMMA FitsAfterAdd ==
    ASSUME NEW live, live \subseteq Record, NEW plan \in Plan,
           Fits(live, plan), NEW d \in plan.add,
           NEW r \in Record, r.val = d, r \notin live
    PROVE  Fits(live \union {r}, [plan EXCEPT !.add = @ \ {d}])
  <1> DEFINE after == live \union {r}
             rest == [plan EXCEPT !.add = @ \ {d}]
  <1>1. /\ rest.add = plan.add \ {d}
        /\ rest.edit = plan.edit
        /\ rest.del = plan.del
    BY DEF Plan
  <1>2. d \in Desired /\ SlotOf[d] \in Managed
    BY DEF Plan, Managed
  <1>3. Touched(rest) = Touched(plan)
    BY <1>1 DEF Touched
  <1>4. Wanted(rest) = Wanted(plan) \ {d}
    BY <1>1 DEF Wanted, Fits
  <1>5. r \notin Touched(plan)
    BY DEF Fits
  <1>6. Settled(after, rest) = Settled(live, plan) \union {r}
    BY <1>2, <1>3, <1>5 DEF Settled, ManagedPart
  <1>7. d \in Wanted(plan) /\ Wanted(plan) \subseteq Desired
    BY DEF Wanted, Plan
  <1>8. \A q \in live : ~SameContent(q.val, d)
    BY <1>7 DEF Fits
  <1>9. \A w \in Wanted(rest) : \A q \in after : ~SameContent(q.val, w)
    BY <1>2, <1>4, <1>7, DesiredDistinct DEF Fits, SameContent
  <1>10. \A w \in Desired \ Wanted(rest) :
            \E q \in Settled(after, rest) : SameContent(q.val, w)
    BY <1>4, <1>6 DEF Fits, SameContent
  <1>11. \A q \in Settled(after, rest) : \E w \in Desired : SameContent(q.val, w)
    BY <1>2, <1>6 DEF Fits, SameContent
  <1>12. \A p, q \in Settled(after, rest) : SameContent(p.val, q.val) => p = q
    <2>1. \A q \in Settled(live, plan) : ~SameContent(q.val, r.val)
      BY <1>8 DEF Settled, ManagedPart
    <2> QED
      BY <1>6, <2>1 DEF Fits, SameContent
  <1>13. Touched(rest) \subseteq after
    BY <1>3 DEF Fits
  <1>14. /\ \A e \in rest.edit : e.cur \notin rest.del /\ e.to \notin rest.add
         /\ \A e, f \in rest.edit : e.cur = f.cur \/ e.to = f.to => e = f
    BY <1>1 DEF Fits
  <1> QED
    BY <1>9, <1>10, <1>11, <1>12, <1>13, <1>14 DEF Fits

LEMMA FitsAfterEdit ==
    ASSUME NEW live, live \subseteq Record, NEW plan \in Plan,
           Fits(live, plan), NEW e \in plan.edit,
           NEW r \in Record, r.val = e.to, r \notin live
    PROVE  Fits((live \ {e.cur}) \union {r}, [plan EXCEPT !.edit = @ \ {e}])
  <1> DEFINE after == (live \ {e.cur}) \union {r}
             rest == [plan EXCEPT !.edit = @ \ {e}]
  <1>1. /\ rest.add = plan.add
        /\ rest.edit = plan.edit \ {e}
        /\ rest.del = plan.del
    BY DEF Plan
  <1>2. e.to \in Desired /\ SlotOf[e.to] \in Managed
    BY DEF Plan, Managed
  <1>3. Touched(rest) = Touched(plan) \ {e.cur}
    BY <1>1 DEF Touched, Fits
  <1>4. Wanted(rest) = Wanted(plan) \ {e.to}
    BY <1>1 DEF Wanted, Fits
  <1>5. r \notin Touched(plan) /\ e.cur \in Touched(plan)
    BY DEF Fits, Touched
  <1>6. Settled(after, rest) = Settled(live, plan) \union {r}
    BY <1>2, <1>3, <1>5 DEF Settled, ManagedPart
  <1>7. e.to \in Wanted(plan) /\ Wanted(plan) \subseteq Desired
    BY DEF Wanted, Plan
  <1>8. \A q \in live : ~SameContent(q.val, e.to)
    BY <1>7 DEF Fits
  <1>9. \A w \in Wanted(rest) : \A q \in after : ~SameContent(q.val, w)
    BY <1>2, <1>4, <1>7, DesiredDistinct DEF Fits, SameContent
  <1>10. \A w \in Desired \ Wanted(rest) :
            \E q \in Settled(after, rest) : SameContent(q.val, w)
    BY <1>4, <1>6 DEF Fits, SameContent
  <1>11. \A q \in Settled(after, rest) : \E w \in Desired : SameContent(q.val, w)
    BY <1>2, <1>6 DEF Fits, SameContent
  <1>12. \A p, q \in Settled(after, rest) : SameContent(p.val, q.val) => p = q
    <2>1. \A q \in Settled(live, plan) : ~SameContent(q.val, r.val)
      BY <1>8 DEF Settled, ManagedPart
    <2> QED
      BY <1>6, <2>1 DEF Fits, SameContent
  <1>13. Touched(rest) \subseteq after
    BY <1>3 DEF Fits
  <1>14. /\ \A f \in rest.edit : f.cur \notin rest.del /\ f.to \notin rest.add
         /\ \A f, g \in rest.edit : f.cur = g.cur \/ f.to = g.to => f = g
    BY <1>1 DEF Fits
  <1> QED
    BY <1>9, <1>10, <1>11, <1>12, <1>13, <1>14 DEF Fits

LEMMA FitsAfterDelete ==
    ASSUME NEW live, live \subseteq Record, NEW plan \in Plan,
           Fits(live, plan), NEW r \in plan.del
    PROVE  Fits(live \ {r}, [plan EXCEPT !.del = @ \ {r}])
  <1> DEFINE after == live \ {r}
             rest == [plan EXCEPT !.del = @ \ {r}]
  <1>1. /\ rest.add = plan.add
        /\ rest.edit = plan.edit
        /\ rest.del = plan.del \ {r}
    BY DEF Plan
  <1>2. Touched(rest) = Touched(plan) \ {r} /\ r \in Touched(plan)
    BY <1>1 DEF Touched, Fits
  <1>3. Wanted(rest) = Wanted(plan)
    BY <1>1 DEF Wanted
  <1>4. Settled(after, rest) = Settled(live, plan)
    BY <1>2 DEF Settled, ManagedPart
  <1> QED
    BY <1>1, <1>2, <1>3, <1>4 DEF Fits

(* Records of other slots do not matter to a plan.                         *)
LEMMA FitsWhateverIsForeign ==
    ASSUME NEW live, live \subseteq Record, NEW plan \in Plan,
           Fits(live, plan), NEW after, after \subseteq Record,
           ManagedPart(after) = ManagedPart(live)
    PROVE  Fits(after, plan)
  <1>1. Settled(after, plan) = Settled(live, plan)
    BY DEF Settled
  <1>2. Touched(plan) \subseteq ManagedPart(live)
    BY DEF Fits, Touched, Plan, ManagedPart, MailRecord
  <1>3. Wanted(plan) \subseteq Desired
    BY DEF Wanted, Plan
  <1>4. ASSUME NEW d \in Wanted(plan), NEW r \in after
        PROVE  ~SameContent(r.val, d)
    <2>1. CASE r \in ManagedPart(after)
      BY <2>1 DEF Fits, ManagedPart
    <2>2. CASE SlotOf[r.val] \notin Managed
      BY <1>3, <2>2, ZoneAssumption DEF SameContent, Managed, Record
    <2> QED
      BY <2>1, <2>2 DEF ManagedPart
  <1> QED
    BY <1>1, <1>2, <1>4 DEF Fits, ManagedPart

-----------------------------------------------------------------------------
(* Type correctness.                                                       *)

LEMMA NothingIsAPlan == NothingToDo \in Plan
  BY DEF NothingToDo, Plan

LEMMA InitTyped == Init => TypeOK
  <1> SUFFICES ASSUME Init PROVE TypeOK
    OBVIOUS
  <1>1. PICK ids \in SUBSET (0 .. FirstId - 1) : \E content \in [ids -> Value] :
            zone = {[id |-> i, val |-> content[i]] : i \in ids}
    BY DEF Init
  <1>2. zone \subseteq Record
    BY <1>1 DEF Record
  <1> QED
    BY <1>2, NothingIsAPlan, BoundsAssumption DEF Init, TypeOK

(* What a provider call may change, whichever way it ends.                 *)
LEMMA CallTyped ==
    ASSUME TypeOK, NEW p \in Publisher, NEW change \in Change,
           NEW after \in SUBSET Record, NEW rest \in Plan,
           Call(p, change, after, rest)
    PROVE  TypeOK'
  <1>1. zone' \subseteq Record /\ nextId' \in Nat
    BY DEF Call, Takes, TypeOK
  <1>2. /\ pc' \in [Publisher -> {"idle", "apply", "done", "failed"}]
        /\ todo' \in [Publisher -> Plan]
    BY NothingIsAPlan DEF Call, Takes, Abort, TypeOK
  <1>3. /\ applied' \in [Publisher -> SUBSET Change]
        /\ changed' \in [Publisher -> SUBSET Change]
        /\ audit' \in [Publisher -> SUBSET SUBSET Change]
    BY DEF Call, Takes, Abort, TypeOK
  <1>4. overtaken' \in [Publisher -> BOOLEAN]
    BY DEF Call, Takes, Abort, TypeOK
  <1>5. faults' \in 0 .. MaxFaults /\ writes' \in 0 .. MaxForeign
    BY BoundsAssumption DEF Call, Takes, Abort, TypeOK
  <1> QED
    BY <1>1, <1>2, <1>3, <1>4, <1>5 DEF TypeOK

LEMMA RefusedTyped ==
    ASSUME TypeOK, NEW p \in Publisher, Refused(p)
    PROVE  TypeOK'
  BY NothingIsAPlan DEF TypeOK, Refused, Abort

(* Each write is a refused call or a call that leaves records and a plan.  *)
LEMMA WriteIsACall ==
    ASSUME TypeOK, NEW p \in Publisher, Write(p)
    PROVE  \/ Refused(p)
           \/ \E change \in Change : \E after \in SUBSET Record :
                 \E rest \in Plan : Call(p, change, after, rest)
  <1>1. todo[p] \in Plan /\ zone \subseteq Record /\ nextId \in Nat
    BY DEF TypeOK
  <1>2. CASE Add(p)
    <2>1. PICK d \in todo[p].add :
             IF nextId < MaxId
             THEN Call(p, [op |-> "add", id |-> 0, val |-> d],
                       zone \union {[id |-> nextId, val |-> d]},
                       [todo[p] EXCEPT !.add = @ \ {d}])
             ELSE Refused(p)
      BY <1>2 DEF Add
    <2>2. d \in Value
      BY <1>1, ZoneAssumption DEF Plan
    <2>3. [op |-> "add", id |-> 0, val |-> d] \in Change
      BY <2>2 DEF Change
    <2>4. zone \union {[id |-> nextId, val |-> d]} \in SUBSET Record
      BY <1>1, <2>2 DEF Record
    <2>5. [todo[p] EXCEPT !.add = @ \ {d}] \in Plan
      BY <1>1 DEF Plan
    <2> QED
      BY <2>1, <2>3, <2>4, <2>5
  <1>3. CASE Edit(p)
    <2>1. PICK e \in todo[p].edit :
             IF HasId(e.cur.id)
             THEN Call(p, [op |-> "edit", id |-> e.cur.id, val |-> e.to],
                       {r \in zone : r.id # e.cur.id}
                           \union {[id |-> e.cur.id, val |-> e.to]},
                       [todo[p] EXCEPT !.edit = @ \ {e}])
             ELSE Refused(p)
      BY <1>3 DEF Edit
    <2>2. e.cur.id \in Nat /\ e.to \in Value
      BY <1>1, ZoneAssumption DEF Plan, MailRecord, Record
    <2>3. [op |-> "edit", id |-> e.cur.id, val |-> e.to] \in Change
      BY <2>2 DEF Change
    <2>4. {r \in zone : r.id # e.cur.id}
             \union {[id |-> e.cur.id, val |-> e.to]} \in SUBSET Record
      BY <1>1, <2>2 DEF Record
    <2>5. [todo[p] EXCEPT !.edit = @ \ {e}] \in Plan
      BY <1>1 DEF Plan
    <2> QED
      BY <2>1, <2>3, <2>4, <2>5
  <1>4. CASE Delete(p)
    <2>1. PICK r \in todo[p].del :
             IF HasId(r.id)
             THEN Call(p, [op |-> "delete", id |-> r.id, val |-> r.val],
                       {q \in zone : q.id # r.id},
                       [todo[p] EXCEPT !.del = @ \ {r}])
             ELSE Refused(p)
      BY <1>4 DEF Delete
    <2>2. r.id \in Nat /\ r.val \in Value
      BY <1>1 DEF Plan, MailRecord, Record
    <2>3. [op |-> "delete", id |-> r.id, val |-> r.val] \in Change
      BY <2>2 DEF Change
    <2>4. {q \in zone : q.id # r.id} \in SUBSET Record
      BY <1>1
    <2>5. [todo[p] EXCEPT !.del = @ \ {r}] \in Plan
      BY <1>1 DEF Plan
    <2> QED
      BY <2>1, <2>3, <2>4, <2>5
  <1> QED
    BY <1>2, <1>3, <1>4 DEF Write

LEMMA StepTyped == TypeOK /\ [Next]_vars => TypeOK'
  <1> SUFFICES ASSUME TypeOK, [Next]_vars PROVE TypeOK'
    OBVIOUS
  <1>1. ASSUME NEW p \in Publisher, List(p) PROVE TypeOK'
    <2>1. PICK plan \in Plans(zone) : todo' = [todo EXCEPT ![p] = plan]
      BY <1>1 DEF List
    <2>2. plan \in Plan
      BY PlanTyped DEF TypeOK
    <2> QED
      BY <1>1, <2>1, <2>2 DEF List, TypeOK
  <1>2. ASSUME NEW p \in Publisher, Write(p) PROVE TypeOK'
    BY <1>2, WriteIsACall, CallTyped, RefusedTyped
  <1>3. ASSUME NEW p \in Publisher, Audit(p) PROVE TypeOK'
    BY <1>3 DEF Audit, Recorded, TypeOK
  <1>4. ASSUME NEW p \in Publisher, Trouble(p) PROVE TypeOK'
    <2>1. CASE ListFails(p)
      BY <2>1, BoundsAssumption DEF ListFails, TypeOK
    <2>2. CASE AuditFails(p)
      BY <2>2, BoundsAssumption, NothingIsAPlan DEF AuditFails, Recorded, Abort, TypeOK
    <2>3. CASE Crash(p)
      BY <2>3, BoundsAssumption, NothingIsAPlan DEF Crash, TypeOK
    <2> QED
      BY <1>4, <2>1, <2>2, <2>3 DEF Trouble
  <1>5. CASE OthersWrite
    <2>1. zone' \subseteq Record /\ nextId' \in Nat
      BY <1>5 DEF OthersWrite, TypeOK, Record
    <2>2. writes' \in 0 .. MaxForeign
      BY <1>5, BoundsAssumption DEF OthersWrite, TypeOK
    <2> QED
      BY <1>5, <2>1, <2>2 DEF OthersWrite, TypeOK
  <1>6. CASE UNCHANGED vars
    BY <1>6 DEF vars, TypeOK
  <1> QED
    BY <1>1, <1>2, <1>3, <1>4, <1>5, <1>6 DEF Next, Publish

(* Every variable keeps its type; in particular no process ever plans to   *)
(* edit or delete a record of a slot the desired set does not name         *)
(* (provider.go:170).                                                      *)
THEOREM TypeCorrect == Spec => []TypeOK
  BY InitTyped, StepTyped, PTL DEF Spec

-----------------------------------------------------------------------------
(* What a write may do to the zone, and to anybody's plan.                 *)

Adds == \E d \in Desired : /\ zone' = zone \union {[id |-> nextId, val |-> d]}
                           /\ nextId' = nextId + 1
Edits(p) == /\ nextId' = nextId
            /\ \E e \in todo[p].edit :
                  /\ HasId(e.cur.id)
                  /\ zone' = {r \in zone : r.id # e.cur.id}
                               \union {[id |-> e.cur.id, val |-> e.to]}
Deletes(p) == /\ nextId' = nextId
              /\ \E r \in todo[p].del : /\ HasId(r.id)
                                        /\ zone' = {q \in zone : q.id # r.id}
Misses == UNCHANGED <<zone, nextId>>

LEMMA WriteMoves ==
    ASSUME TypeOK, NEW p \in Publisher, Write(p)
    PROVE  Adds \/ Edits(p) \/ Deletes(p) \/ Misses
  <1>1. todo[p] \in Plan
    BY DEF TypeOK
  <1>2. CASE Add(p)
    BY <1>1, <1>2 DEF Add, Call, Takes, Refused, Adds, Misses, Plan
  <1>3. CASE Edit(p)
    BY <1>3 DEF Edit, Call, Takes, Refused, Edits, Misses
  <1>4. CASE Delete(p)
    BY <1>4 DEF Delete, Call, Takes, Refused, Deletes, Misses
  <1> QED
    BY <1>2, <1>3, <1>4 DEF Write

(* A write leaves less of the writer's plan, and nobody else's changes.    *)
LEMMA WriteShrinksPlans ==
    ASSUME TypeOK, NEW p \in Publisher, Write(p), NEW q \in Publisher
    PROVE  /\ Touched(todo'[q]) \subseteq Touched(todo[q])
           /\ todo'[q].edit \subseteq todo[q].edit
  <1>1. todo[p] \in Plan /\ todo \in [Publisher -> Plan]
    BY DEF TypeOK
  <1>2. ASSUME todo' = [todo EXCEPT ![p] = NothingToDo]
        PROVE  /\ Touched(todo'[q]) \subseteq Touched(todo[q])
               /\ todo'[q].edit \subseteq todo[q].edit
    BY <1>1, <1>2 DEF Touched, NothingToDo
  <1>3. ASSUME NEW rest \in Plan, todo' = [todo EXCEPT ![p] = rest],
               rest.edit \subseteq todo[p].edit, rest.del \subseteq todo[p].del
        PROVE  /\ Touched(todo'[q]) \subseteq Touched(todo[q])
               /\ todo'[q].edit \subseteq todo[q].edit
    BY <1>1, <1>3 DEF Touched
  <1>4. CASE Add(p)
    <2>1. PICK d \in todo[p].add :
             IF nextId < MaxId
             THEN Call(p, [op |-> "add", id |-> 0, val |-> d],
                       zone \union {[id |-> nextId, val |-> d]},
                       [todo[p] EXCEPT !.add = @ \ {d}])
             ELSE Refused(p)
      BY <1>4 DEF Add
    <2> DEFINE rest == [todo[p] EXCEPT !.add = @ \ {d}]
    <2>2. rest \in Plan /\ rest.edit = todo[p].edit /\ rest.del = todo[p].del
      BY <1>1 DEF Plan
    <2>3. todo' = [todo EXCEPT ![p] = NothingToDo] \/ todo' = [todo EXCEPT ![p] = rest]
      BY <2>1 DEF Call, Refused, Abort
    <2> HIDE DEF rest
    <2> QED
      BY <1>2, <1>3, <2>2, <2>3
  <1>5. CASE Edit(p)
    <2>1. PICK e \in todo[p].edit :
             IF HasId(e.cur.id)
             THEN Call(p, [op |-> "edit", id |-> e.cur.id, val |-> e.to],
                       {r \in zone : r.id # e.cur.id}
                           \union {[id |-> e.cur.id, val |-> e.to]},
                       [todo[p] EXCEPT !.edit = @ \ {e}])
             ELSE Refused(p)
      BY <1>5 DEF Edit
    <2> DEFINE rest == [todo[p] EXCEPT !.edit = @ \ {e}]
    <2>2. /\ rest \in Plan
          /\ rest.edit \subseteq todo[p].edit /\ rest.del = todo[p].del
      BY <1>1 DEF Plan
    <2>3. todo' = [todo EXCEPT ![p] = NothingToDo] \/ todo' = [todo EXCEPT ![p] = rest]
      BY <2>1 DEF Call, Refused, Abort
    <2> HIDE DEF rest
    <2> QED
      BY <1>2, <1>3, <2>2, <2>3
  <1>6. CASE Delete(p)
    <2>1. PICK r \in todo[p].del :
             IF HasId(r.id)
             THEN Call(p, [op |-> "delete", id |-> r.id, val |-> r.val],
                       {x \in zone : x.id # r.id},
                       [todo[p] EXCEPT !.del = @ \ {r}])
             ELSE Refused(p)
      BY <1>6 DEF Delete
    <2> DEFINE rest == [todo[p] EXCEPT !.del = @ \ {r}]
    <2>2. /\ rest \in Plan
          /\ rest.edit = todo[p].edit /\ rest.del \subseteq todo[p].del
      BY <1>1 DEF Plan
    <2>3. todo' = [todo EXCEPT ![p] = NothingToDo] \/ todo' = [todo EXCEPT ![p] = rest]
      BY <2>1 DEF Call, Refused, Abort
    <2> HIDE DEF rest
    <2> QED
      BY <1>2, <1>3, <2>2, <2>3
  <1> QED
    BY <1>4, <1>5, <1>6 DEF Write

(* Every other step but List keeps each plan or drops it, and none of them *)
(* but OthersWrite touches the zone.                                       *)
LEMMA OtherStepsKeepPlans ==
    ASSUME TypeOK, NEW p \in Publisher, Audit(p) \/ Trouble(p), NEW q \in Publisher
    PROVE  /\ UNCHANGED <<zone, nextId>>
           /\ todo'[q] = todo[q] \/ todo'[q] = NothingToDo
  BY DEF Audit, Trouble, ListFails, AuditFails, Recorded, Crash, Abort, TypeOK

LEMMA NothingTouched == Touched(NothingToDo) = {} /\ NothingToDo.edit = {}
  BY DEF Touched, NothingToDo

(* List replaces one plan by one for the zone as it is.                    *)
LEMMA ListPlans ==
    ASSUME TypeOK, NEW p \in Publisher, List(p), NEW q \in Publisher
    PROVE  /\ UNCHANGED <<zone, nextId>>
           /\ todo'[q] = todo[q] \/ (q = p /\ todo'[q] \in Plans(zone))
  BY DEF List, TypeOK

-----------------------------------------------------------------------------
(* The inductive invariant, conjunct by conjunct.                          *)

LEMMA IdsFreshStep ==
    ASSUME TypeOK, IdsFresh, [Next]_vars
    PROVE  IdsFresh'
  <1> USE DEF IdsFresh
  <1>0. zone \subseteq Record /\ nextId \in Nat
    BY DEF TypeOK
  <1>1. ASSUME NEW p \in Publisher, List(p) PROVE IdsFresh'
    <2>1. ASSUME NEW q \in Publisher, NEW r \in Touched(todo'[q])
          PROVE  r.id < nextId'
      BY <1>0, <1>1, <2>1, ListPlans, PlanTyped
    <2>2. UNCHANGED <<zone, nextId>>
      BY <1>1 DEF List
    <2> QED
      BY <2>1, <2>2
  <1>2. ASSUME NEW p \in Publisher, Write(p) PROVE IdsFresh'
    <2>1. todo[p] \in Plan
      BY DEF TypeOK
    <2>2. nextId' >= nextId
      BY <1>0, <1>2, WriteMoves DEF Adds, Edits, Deletes, Misses
    <2>3. ASSUME NEW q \in Publisher, NEW r \in Touched(todo'[q])
          PROVE  r.id < nextId'
      <3>1. todo[q] \in Plan
        BY DEF TypeOK
      <3>2. r \in Touched(todo[q]) /\ r.id \in Nat
        BY <1>2, <2>3, <3>1, WriteShrinksPlans DEF Touched, Plan, MailRecord, Record
      <3>3. nextId' \in Nat
        BY <1>0, <1>2, WriteMoves DEF Adds, Edits, Deletes, Misses
      <3> QED
        BY <1>0, <2>2, <3>2, <3>3
    <2>4. /\ \A r \in zone' : r.id < nextId'
          /\ \A r, q \in zone' : r.id = q.id => r = q
      <3>1. CASE Adds
        BY <1>0, <3>1 DEF Adds, Record
      <3>2. CASE Edits(p)
        BY <1>0, <2>1, <3>2 DEF Edits, HasId, Record
      <3>3. CASE Deletes(p)
        BY <1>0, <3>3 DEF Deletes
      <3>4. CASE Misses
        BY <3>4 DEF Misses
      <3> QED
        BY <1>2, <3>1, <3>2, <3>3, <3>4, WriteMoves
    <2> QED
      BY <2>3, <2>4
  <1>3. ASSUME NEW p \in Publisher, Audit(p) \/ Trouble(p) PROVE IdsFresh'
    <2>1. ASSUME NEW q \in Publisher, NEW r \in Touched(todo'[q])
          PROVE  r.id < nextId'
      BY <1>3, <2>1, OtherStepsKeepPlans, NothingTouched
    <2>2. UNCHANGED <<zone, nextId>>
      BY <1>3, OtherStepsKeepPlans
    <2> QED
      BY <2>1, <2>2
  <1>4. CASE OthersWrite
    <2>1. UNCHANGED todo /\ nextId' \in {nextId, nextId + 1}
      BY <1>4 DEF OthersWrite
    <2>2. ASSUME NEW q \in Publisher, NEW r \in Touched(todo[q])
          PROVE  r.id < nextId'
      <3>1. r.id \in Nat
        BY <2>2 DEF TypeOK, Touched, Plan, MailRecord, Record
      <3> QED
        BY <1>0, <2>1, <2>2, <3>1
    <2>3. /\ \A r \in zone' : r.id < nextId'
          /\ \A r, q \in zone' : r.id = q.id => r = q
      BY <1>0, <1>4 DEF OthersWrite, Record
    <2> QED
      BY <2>1, <2>2, <2>3
  <1>5. CASE UNCHANGED vars
    BY <1>5 DEF vars
  <1> QED
    BY <1>1, <1>2, <1>3, <1>4, <1>5 DEF Next, Publish

LEMMA PlannedStayInSlotStep ==
    ASSUME TypeOK, IdsFresh, PlannedStayInSlot, [Next]_vars
    PROVE  PlannedStayInSlot'
  <1> USE DEF PlannedStayInSlot
  <1>0. zone \subseteq Record /\ nextId \in Nat
    BY DEF TypeOK
  <1>1. ASSUME NEW p \in Publisher, List(p) PROVE PlannedStayInSlot'
    <2>1. ASSUME NEW q \in Publisher
          PROVE  /\ \A r \in Touched(todo'[q]) : \A x \in zone :
                       x.id = r.id => SlotOf[x.val] = SlotOf[r.val]
                 /\ \A e \in todo'[q].edit : SlotOf[e.cur.val] = SlotOf[e.to]
      <3>1. CASE todo'[q] = todo[q]
        BY <3>1
      <3>2. CASE todo'[q] \in Plans(zone)
        BY <1>0, <3>2, PlanTyped DEF IdsFresh
      <3> QED
        BY <1>1, <3>1, <3>2, ListPlans
    <2>2. UNCHANGED zone
      BY <1>1 DEF List
    <2> QED
      BY <2>1, <2>2
  <1>2. ASSUME NEW p \in Publisher, Write(p) PROVE PlannedStayInSlot'
    <2>1. ASSUME NEW q \in Publisher, NEW r \in Touched(todo[q]), NEW x \in zone',
                 x.id = r.id
          PROVE  SlotOf[x.val] = SlotOf[r.val]
      <3>1. r.id < nextId /\ r.id \in Nat
        BY DEF IdsFresh, TypeOK, Touched, Plan, MailRecord, Record
      <3>2. CASE Adds
        BY <1>0, <2>1, <3>1, <3>2 DEF Adds
      <3>3. CASE Edits(p)
        <4>1. PICK e \in todo[p].edit :
                 /\ HasId(e.cur.id)
                 /\ zone' = {y \in zone : y.id # e.cur.id}
                              \union {[id |-> e.cur.id, val |-> e.to]}
          BY <3>3 DEF Edits
        <4>2. CASE x \in zone
          BY <2>1, <4>2
        <4>3. CASE x = [id |-> e.cur.id, val |-> e.to]
          <5>1. PICK y \in zone : y.id = e.cur.id
            BY <4>1 DEF HasId
          <5>2. e.cur \in Touched(todo[p])
            BY DEF Touched
          <5>3. SlotOf[y.val] = SlotOf[e.cur.val] /\ SlotOf[e.cur.val] = SlotOf[e.to]
            BY <5>1, <5>2
          <5>4. SlotOf[y.val] = SlotOf[r.val]
            BY <2>1, <4>3, <5>1
          <5> QED
            BY <4>3, <5>3, <5>4
        <4> QED
          BY <4>1, <4>2, <4>3
      <3>4. CASE Deletes(p) \/ Misses
        BY <2>1, <3>4 DEF Deletes, Misses
      <3> QED
        BY <1>2, <3>2, <3>3, <3>4, WriteMoves
    <2> QED
      BY <1>2, <2>1, WriteShrinksPlans
  <1>3. ASSUME NEW p \in Publisher, Audit(p) \/ Trouble(p)
        PROVE  PlannedStayInSlot'
    <2>1. UNCHANGED zone
      BY <1>3, OtherStepsKeepPlans
    <2>2. \A q \in Publisher : todo'[q] = todo[q] \/ todo'[q] = NothingToDo
      BY <1>3, OtherStepsKeepPlans
    <2> QED
      BY <2>1, <2>2, NothingTouched
  <1>4. CASE OthersWrite
    <2>1. UNCHANGED todo
      BY <1>4 DEF OthersWrite
    <2>2. ASSUME NEW q \in Publisher, NEW r \in Touched(todo[q]), NEW x \in zone',
                 x.id = r.id
          PROVE  x \in zone
      <3>1. r.id < nextId /\ r.id \in Nat
        BY DEF IdsFresh, TypeOK, Touched, Plan, MailRecord, Record
      <3> QED
        BY <1>0, <1>4, <2>2, <3>1 DEF OthersWrite
    <2> QED
      BY <2>1, <2>2
  <1>5. CASE UNCHANGED vars
    BY <1>5 DEF vars
  <1> QED
    BY <1>1, <1>2, <1>3, <1>4, <1>5 DEF Next, Publish

(* A provider call either ends p's run, or carries out one change of p's   *)
(* plan; and what it does to the zone overtakes everybody else.            *)
LEMMA CallCases ==
    ASSUME TypeOK, NEW p \in Publisher, NEW change, NEW after, NEW rest,
           Call(p, change, after, rest)
    PROVE  /\ \/ pc'[p] = "failed"
              \/ /\ zone' = after
                 /\ todo'[p] = rest
                 /\ UNCHANGED <<pc, overtaken[p]>>
           /\ \A q \in Publisher \ {p} :
                 /\ todo'[q] = todo[q]
                 /\ pc'[q] = pc[q]
                 /\ overtaken'[q] \/ (UNCHANGED <<zone, overtaken[q]>>)
  BY DEF Call, Takes, Abort, TypeOK

(* The zone of an undisturbed writer after its own successful write.       *)
LEMMA WriterStillFits ==
    ASSUME TypeOK, IdsFresh, NEW p \in Publisher, Fits(zone, todo[p]),
           Write(p), pc'[p] = "apply"
    PROVE  Fits(zone', todo'[p])
  <1>0. zone \subseteq Record /\ todo[p] \in Plan /\ nextId \in Nat
    BY DEF TypeOK
  <1>1. CASE Add(p)
    <2>1. PICK d \in todo[p].add :
             IF nextId < MaxId
             THEN Call(p, [op |-> "add", id |-> 0, val |-> d],
                       zone \union {[id |-> nextId, val |-> d]},
                       [todo[p] EXCEPT !.add = @ \ {d}])
             ELSE Refused(p)
      BY <1>1 DEF Add
    <2>2. /\ zone' = zone \union {[id |-> nextId, val |-> d]}
          /\ todo'[p] = [todo[p] EXCEPT !.add = @ \ {d}]
      BY <2>1 DEF Call, Takes, Abort, Refused, TypeOK
    <2>3. [id |-> nextId, val |-> d] \in Record
      BY <1>0, ZoneAssumption DEF Plan, Record
    <2>4. [id |-> nextId, val |-> d] \notin zone
      BY <1>0 DEF IdsFresh
    <2>5. Fits(zone \union {[id |-> nextId, val |-> d]},
               [todo[p] EXCEPT !.add = @ \ {d}])
      BY <1>0, <2>3, <2>4, FitsAfterAdd
    <2> QED
      BY <2>2, <2>5
  <1>2. CASE Edit(p)
    <2>1. PICK e \in todo[p].edit :
             IF HasId(e.cur.id)
             THEN Call(p, [op |-> "edit", id |-> e.cur.id, val |-> e.to],
                       {r \in zone : r.id # e.cur.id}
                           \union {[id |-> e.cur.id, val |-> e.to]},
                       [todo[p] EXCEPT !.edit = @ \ {e}])
             ELSE Refused(p)
      BY <1>2 DEF Edit
    <2> DEFINE r == [id |-> e.cur.id, val |-> e.to]
    <2>2. /\ zone' = {q \in zone : q.id # e.cur.id} \union {r}
          /\ todo'[p] = [todo[p] EXCEPT !.edit = @ \ {e}]
      BY <2>1 DEF Call, Takes, Abort, Refused, TypeOK
    <2>3. e.cur \in zone
      BY DEF Fits, Touched
    <2>4. {q \in zone : q.id # e.cur.id} = zone \ {e.cur}
      BY <2>3 DEF IdsFresh
    <2>5. r \in Record /\ r.val = e.to
      BY <1>0, ZoneAssumption DEF Plan, MailRecord, Record
    <2>6. r \notin zone
      BY <2>5 DEF Fits, Wanted, SameContent
    <2> HIDE DEF r
    <2>7. Fits((zone \ {e.cur}) \union {r}, [todo[p] EXCEPT !.edit = @ \ {e}])
      BY <1>0, <2>5, <2>6, FitsAfterEdit
    <2>8. zone' = (zone \ {e.cur}) \union {r}
      BY <2>2, <2>4
    <2> QED
      BY <2>2, <2>7, <2>8
  <1>3. CASE Delete(p)
    <2>1. PICK r \in todo[p].del :
             IF HasId(r.id)
             THEN Call(p, [op |-> "delete", id |-> r.id, val |-> r.val],
                       {q \in zone : q.id # r.id},
                       [todo[p] EXCEPT !.del = @ \ {r}])
             ELSE Refused(p)
      BY <1>3 DEF Delete
    <2>2. /\ zone' = {q \in zone : q.id # r.id}
          /\ todo'[p] = [todo[p] EXCEPT !.del = @ \ {r}]
      BY <2>1 DEF Call, Takes, Abort, Refused, TypeOK
    <2>3. r \in zone
      BY DEF Fits, Touched
    <2>4. {q \in zone : q.id # r.id} = zone \ {r}
      BY <2>3 DEF IdsFresh
    <2>5. Fits(zone \ {r}, [todo[p] EXCEPT !.del = @ \ {r}])
      BY <1>0, FitsAfterDelete
    <2> QED
      BY <2>2, <2>4, <2>5
  <1> QED
    BY <1>1, <1>2, <1>3 DEF Write

(* What a write means to the plans of the processes that do not write.     *)
LEMMA WriteOvertakes ==
    ASSUME TypeOK, NEW p \in Publisher, Write(p)
    PROVE  /\ pc[p] = "apply"
           /\ overtaken'[p] = overtaken[p]
           /\ \A q \in Publisher \ {p} :
                 /\ todo'[q] = todo[q]
                 /\ pc'[q] = pc[q]
                 /\ overtaken'[q] \/ (UNCHANGED <<zone, overtaken[q]>>)
  <1>1. pc[p] = "apply"
    BY DEF Write, Add, Edit, Delete
  <1>2. CASE Refused(p)
    BY <1>1, <1>2 DEF Refused, Abort, TypeOK
  <1>3. ASSUME NEW change, NEW after, NEW rest, Call(p, change, after, rest)
        PROVE  /\ overtaken'[p] = overtaken[p]
               /\ \A q \in Publisher \ {p} :
                     /\ todo'[q] = todo[q]
                     /\ pc'[q] = pc[q]
                     /\ overtaken'[q] \/ (UNCHANGED <<zone, overtaken[q]>>)
    <2>1. overtaken'[p] = overtaken[p]
      BY <1>3 DEF Call, Takes, Abort, TypeOK
    <2> QED
      BY <1>3, <2>1, CallCases
  <1> QED
    BY <1>1, <1>2, <1>3, WriteIsACall

LEMMA OthersKeepManaged ==
    ASSUME OthersWrite
    PROVE  ManagedPart(zone') = ManagedPart(zone)
  BY DEF OthersWrite, ForeignPart, ManagedPart

LEMMA UndisturbedPlansFitStep ==
    ASSUME IInv, TypeOK', [Next]_vars
    PROVE  UndisturbedPlansFit'
  <1> USE DEF UndisturbedPlansFit
  <1>0. TypeOK /\ IdsFresh /\ UndisturbedPlansFit
    BY DEF IInv
  <1>1. ASSUME NEW p \in Publisher, List(p) PROVE UndisturbedPlansFit'
    <2>1. ASSUME NEW q \in Publisher, pc'[q] = "apply", ~overtaken'[q]
          PROVE  Fits(zone', todo'[q])
      <3>1. UNCHANGED zone /\ zone \subseteq Record
        BY <1>0, <1>1 DEF List, TypeOK
      <3>2. CASE q = p
        BY <1>0, <1>1, <3>1, <3>2, FitsWhenListed DEF List, TypeOK
      <3>3. CASE q # p
        BY <1>0, <1>1, <2>1, <3>1, <3>3 DEF List, TypeOK
      <3> QED
        BY <3>2, <3>3
    <2> QED
      BY <2>1
  <1>2. ASSUME NEW p \in Publisher, Write(p) PROVE UndisturbedPlansFit'
    <2>1. ASSUME NEW q \in Publisher, pc'[q] = "apply", ~overtaken'[q]
          PROVE  Fits(zone', todo'[q])
      <3>1. CASE q = p
        BY <1>0, <1>2, <2>1, <3>1, WriteOvertakes, WriterStillFits
      <3>2. CASE q # p
        BY <1>0, <1>2, <2>1, <3>2, WriteOvertakes
      <3> QED
        BY <3>1, <3>2
    <2> QED
      BY <2>1
  <1>3. ASSUME NEW p \in Publisher, Audit(p) \/ Trouble(p)
        PROVE  UndisturbedPlansFit'
    <2>1. /\ pc'[p] # "apply"
          /\ UNCHANGED <<zone, overtaken>>
          /\ \A q \in Publisher \ {p} : todo'[q] = todo[q] /\ pc'[q] = pc[q]
      BY <1>0, <1>3
         DEF Audit, Trouble, ListFails, AuditFails, Recorded, Crash, Abort, TypeOK
    <2> QED
      BY <1>0, <2>1
  <1>4. CASE OthersWrite
    <2>1. UNCHANGED <<pc, todo, overtaken>>
      BY <1>4 DEF OthersWrite
    <2>2. zone \subseteq Record /\ zone' \subseteq Record
      BY <1>0 DEF TypeOK
    <2>3. ASSUME NEW q \in Publisher, Fits(zone, todo[q])
          PROVE  Fits(zone', todo[q])
      BY <1>0, <1>4, <2>2, <2>3, OthersKeepManaged, FitsWhateverIsForeign DEF TypeOK
    <2> QED
      BY <1>0, <2>1, <2>3
  <1>5. CASE UNCHANGED vars
    BY <1>0, <1>5 DEF vars
  <1> QED
    BY <1>1, <1>2, <1>3, <1>4, <1>5 DEF Next, Publish

LEMMA InitInvariant == Init => IInv
  <1> SUFFICES ASSUME Init PROVE IInv
    OBVIOUS
  <1>1. \A p \in Publisher : todo[p] = NothingToDo /\ pc[p] = "idle"
    BY DEF Init
  <1>2. IdsFresh
    <2>1. PICK ids \in SUBSET (0 .. FirstId - 1) : \E content \in [ids -> Value] :
              zone = {[id |-> i, val |-> content[i]] : i \in ids}
      BY DEF Init
    <2>2. \A r \in zone : r.id < nextId
      BY <2>1, BoundsAssumption DEF Init
    <2>3. \A r, q \in zone : r.id = q.id => r = q
      BY <2>1
    <2> QED
      BY <1>1, <2>2, <2>3, NothingTouched DEF IdsFresh
  <1>3. PlannedStayInSlot /\ UndisturbedPlansFit
    BY <1>1, NothingTouched DEF PlannedStayInSlot, UndisturbedPlansFit
  <1> QED
    BY <1>2, <1>3, InitTyped DEF IInv

LEMMA StepInvariant == IInv /\ [Next]_vars => IInv'
  BY StepTyped, IdsFreshStep, PlannedStayInSlotStep, UndisturbedPlansFitStep DEF IInv

(* The inductive invariant: record ids stay unique and fresh, whatever a   *)
(* process plans to touch stays in the slot it was seen in, and the rest   *)
(* of a plan nobody overtook fits the zone (provider.go:263-301).          *)
THEOREM InvariantHolds == Spec => []IInv
  BY InitInvariant, StepInvariant, PTL DEF Spec

-----------------------------------------------------------------------------
(* What follows from the inductive invariant.                              *)

LEMMA ForeignStep ==
    ASSUME IInv, NEW p \in Publisher, Write(p)
    PROVE  ForeignPart(zone') = ForeignPart(zone)
  <1>0. /\ TypeOK /\ IdsFresh /\ PlannedStayInSlot /\ todo[p] \in Plan
    BY DEF IInv, TypeOK
  <1>1. CASE Adds
    BY <1>1 DEF Adds, ForeignPart, ManagedPart, Managed
  <1>2. CASE Edits(p)
    <2>1. PICK e \in todo[p].edit :
             zone' = {r \in zone : r.id # e.cur.id}
                       \union {[id |-> e.cur.id, val |-> e.to]}
      BY <1>2 DEF Edits
    <2>2. SlotOf[e.to] \in Managed
      BY <1>0 DEF Plan, Managed
    <2>3. \A r \in zone : r.id = e.cur.id => SlotOf[r.val] \in Managed
      BY <1>0, <2>2 DEF PlannedStayInSlot, Touched
    <2> QED
      BY <2>1, <2>2, <2>3 DEF ForeignPart, ManagedPart
  <1>3. CASE Deletes(p)
    <2>1. PICK r \in todo[p].del : zone' = {q \in zone : q.id # r.id}
      BY <1>3 DEF Deletes
    <2>2. \A q \in zone : q.id = r.id => SlotOf[q.val] \in Managed
      BY <1>0 DEF PlannedStayInSlot, Touched, Plan, MailRecord
    <2> QED
      BY <2>1, <2>2 DEF ForeignPart, ManagedPart
  <1>4. CASE Misses
    BY <1>4 DEF Misses
  <1> QED
    BY <1>0, <1>1, <1>2, <1>3, <1>4, WriteMoves

(* No publish, however stale its list and whoever else publishes, touches  *)
(* a record of a slot the desired set does not name (provider.go:170).     *)
THEOREM ForeignIsUntouched == Spec => ForeignUntouched
  <1>1. IInv /\ [Next]_vars =>
          [(\E p \in Publisher : Write(p)) =>
              ForeignPart(zone') = ForeignPart(zone)]_vars
    BY ForeignStep
  <1> QED
    BY <1>1, InvariantHolds, PTL DEF Spec, ForeignUntouched

LEMMA NeverEmptiedStep ==
    ASSUME IInv, NEW p \in Publisher, Undisturbed(p), Write(p),
           NEW s \in Managed, InSlot(zone, s) # {}
    PROVE  InSlot(zone', s) # {}
  <1>0. /\ TypeOK /\ IdsFresh /\ PlannedStayInSlot
        /\ zone \subseteq Record /\ todo[p] \in Plan
    BY DEF IInv, TypeOK
  <1>1. Fits(zone, todo[p])
    BY WriteOvertakes, <1>0 DEF IInv, UndisturbedPlansFit, Undisturbed
  <1>2. CASE Adds \/ Misses
    BY <1>2 DEF Adds, Misses, InSlot
  <1>3. CASE Edits(p)
    <2>1. PICK e \in todo[p].edit :
             zone' = {r \in zone : r.id # e.cur.id}
                       \union {[id |-> e.cur.id, val |-> e.to]}
      BY <1>3 DEF Edits
    <2>2. \A r \in zone : r.id = e.cur.id => SlotOf[r.val] = SlotOf[e.to]
      BY <1>0 DEF PlannedStayInSlot, Touched
    <2>3. PICK r \in zone : SlotOf[r.val] = s
      BY DEF InSlot
    <2>4. CASE r.id = e.cur.id
      <3>1. [id |-> e.cur.id, val |-> e.to] \in zone'
        BY <2>1
      <3> QED
        BY <2>2, <2>3, <2>4, <3>1 DEF InSlot
    <2>5. CASE r.id # e.cur.id
      BY <2>1, <2>3, <2>5 DEF InSlot
    <2> QED
      BY <2>4, <2>5
  <1>4. CASE Delete(p) /\ Deletes(p)
    <2>1. Wanted(todo[p]) = {}
      BY <1>4 DEF Delete, Wanted
    <2>2. PICK r \in todo[p].del : zone' = {q \in zone : q.id # r.id}
      BY <1>4 DEF Deletes
    <2>3. PICK d \in Desired : SlotOf[d] = s
      BY DEF Managed
    <2>4. PICK q \in Settled(zone, todo[p]) : SameContent(q.val, d)
      BY <1>1, <2>1 DEF Fits
    <2>5. q \in zone /\ SlotOf[q.val] = s
      BY <1>0, <2>3, <2>4, ZoneAssumption
         DEF Settled, ManagedPart, SameContent, Record
    <2>6. r \in zone /\ q # r
      BY <1>1, <2>4 DEF Settled, Touched, Fits
    <2>7. q \in zone'
      BY <1>0, <2>2, <2>5, <2>6 DEF IdsFresh
    <2> QED
      BY <2>5, <2>7 DEF InSlot
  <1>5. Deletes(p) => Delete(p) \/ Adds \/ Edits(p) \/ Misses
    BY <1>0 DEF Write, Add, Edit, Call, Takes, Refused, Adds, Edits, Misses, Plan
  <1> QED
    BY <1>0, <1>2, <1>3, <1>4, <1>5, WriteMoves

(* An undisturbed publish never empties a slot that held a record, whether *)
(* its calls succeed, fail or lose their answer (provider.go:262).         *)
THEOREM SlotsAreNeverEmptied == Spec => SlotsNeverEmptied
  <1>1. IInv /\ [Next]_vars =>
          [\A p \in Publisher :
              Undisturbed(p) /\ Write(p) =>
                 \A s \in Managed :
                    InSlot(zone, s) # {} => InSlot(zone', s) # {}]_vars
    BY NeverEmptiedStep
  <1> QED
    BY <1>1, InvariantHolds, PTL DEF Spec, SlotsNeverEmptied

LEMMA ExactStep ==
    ASSUME IInv, NEW p \in Publisher, Exact(zone), Undisturbed(p), Write(p)
    PROVE  zone' = zone
  <1>0. TypeOK /\ todo[p] \in Plan
    BY DEF IInv, TypeOK
  <1>1. Fits(zone, todo[p])
    BY WriteOvertakes, <1>0 DEF IInv, UndisturbedPlansFit, Undisturbed
  <1>2. todo[p].add = {} /\ todo[p].edit = {} /\ todo[p].del = {}
    BY <1>0, <1>1, ExactNeedsNothing
  <1> QED
    BY <1>2 DEF Write, Add, Edit, Delete

(* Publishing an exact zone again writes nothing to it.                    *)
THEOREM ExactStaysUntouched == Spec => ExactZoneIsLeftAlone
  <1>1. IInv /\ [Next]_vars =>
          [\A p \in Publisher :
              Exact(zone) /\ Undisturbed(p) /\ Write(p) => zone' = zone]_vars
    BY ExactStep
  <1> QED
    BY <1>1, InvariantHolds, PTL DEF Spec, ExactZoneIsLeftAlone

(* Exactness is about managed slots only.                                  *)
LEMMA ExactWhateverIsForeign ==
    ASSUME NEW live, live \subseteq Record, Exact(live), NEW after,
           ManagedPart(after) = ManagedPart(live)
    PROVE  Exact(after)
  <1>1. ASSUME NEW d \in Desired PROVE \E r \in after : SameContent(r.val, d)
    <2>1. PICK r \in live : SameContent(r.val, d)
      BY DEF Exact
    <2>2. r \in ManagedPart(live)
      BY <2>1, ZoneAssumption DEF SameContent, Managed, ManagedPart, Record
    <2> QED
      BY <2>1, <2>2 DEF ManagedPart
  <1> QED
    BY <1>1 DEF Exact

LEMMA ExactOnSuccessStep ==
    ASSUME IInv, ExactOnSuccess, [Next]_vars
    PROVE  ExactOnSuccess'
  <1> USE DEF ExactOnSuccess, Undisturbed
  <1>0. TypeOK /\ UndisturbedPlansFit
    BY DEF IInv
  <1>1. ASSUME NEW p \in Publisher, List(p) \/ Trouble(p)
        PROVE  ExactOnSuccess'
    <2>1. /\ pc'[p] # "done"
          /\ UNCHANGED zone
          /\ \A q \in Publisher \ {p} : UNCHANGED <<pc[q], overtaken[q]>>
      BY <1>0, <1>1
         DEF List, Trouble, ListFails, AuditFails, Crash, Abort, TypeOK
    <2> QED
      BY <2>1
  <1>2. ASSUME NEW p \in Publisher, Write(p) PROVE ExactOnSuccess'
    <2>1. pc'[p] # "done"
      <3>1. CASE Refused(p)
        BY <1>0, <3>1 DEF Refused, Abort, TypeOK
      <3>2. ASSUME NEW change, NEW after, NEW rest, Call(p, change, after, rest)
            PROVE  pc'[p] # "done"
        BY <1>0, <1>2, <3>2, CallCases, WriteOvertakes
      <3> QED
        BY <1>0, <1>2, <3>1, <3>2, WriteIsACall
    <2> QED
      BY <1>0, <1>2, <2>1, WriteOvertakes
  <1>3. ASSUME NEW p \in Publisher, Audit(p) PROVE ExactOnSuccess'
    <2>1. UNCHANGED <<zone, overtaken>>
      BY <1>3 DEF Audit
    <2>2. \A q \in Publisher \ {p} : UNCHANGED pc[q]
      BY <1>0, <1>3 DEF Audit, TypeOK
    <2>3. ~overtaken[p] => Exact(zone)
      BY <1>0, <1>3, NothingLeft DEF Audit, UndisturbedPlansFit
    <2> QED
      BY <2>1, <2>2, <2>3
  <1>4. CASE OthersWrite
    BY <1>0, <1>4, OthersKeepManaged, ExactWhateverIsForeign DEF OthersWrite, TypeOK
  <1>5. CASE UNCHANGED vars
    BY <1>5 DEF vars
  <1> QED
    BY <1>1, <1>2, <1>3, <1>4, <1>5 DEF Next, Publish

(* A publish that reports success and was not overtaken has left exactly   *)
(* the desired records in every managed slot (provider.go:165-170).        *)
THEOREM SuccessIsExact == Spec => []ExactOnSuccess
  <1>1. Init => ExactOnSuccess
    BY DEF Init, ExactOnSuccess
  <1>2. IInv /\ ExactOnSuccess /\ [Next]_vars => ExactOnSuccess'
    BY ExactOnSuccessStep
  <1> QED
    BY <1>1, <1>2, InvariantHolds, PTL DEF Spec

-----------------------------------------------------------------------------
(* The audit log.  Until its row is written a run has counted exactly what *)
(* it changed; one that did not succeed has that row or none.              *)
AuditInv ==
    \A p \in Publisher :
        /\ pc[p] = "apply" => applied[p] = changed[p] /\ audit[p] = {}
        /\ pc[p] = "done" => audit[p] = {changed[p]}
        /\ pc[p] \in {"idle", "failed"} => audit[p] \subseteq {changed[p]}

LEMMA AuditStep ==
    ASSUME TypeOK, AuditInv, [Next]_vars
    PROVE  AuditInv'
  <1> USE DEF AuditInv
  <1>1. ASSUME NEW p \in Publisher, List(p) PROVE AuditInv'
    BY <1>1 DEF List, TypeOK
  <1>2. ASSUME NEW p \in Publisher, Write(p) PROVE AuditInv'
    <2>1. pc[p] = "apply"
      BY <1>2, WriteOvertakes
    <2>2. CASE Refused(p)
      BY <2>1, <2>2 DEF Refused, Abort, TypeOK
    <2>3. ASSUME NEW change, NEW after, NEW rest, Call(p, change, after, rest)
          PROVE  AuditInv'
      <3>1. /\ UNCHANGED audit
            /\ \A q \in Publisher \ {p} : UNCHANGED <<pc[q], applied[q], changed[q]>>
        BY <2>3 DEF Call, Takes, Abort, TypeOK
      <3>2. \/ pc'[p] = "failed"
            \/ /\ pc'[p] = "apply"
               /\ applied'[p] = applied[p] \union {change}
               /\ changed'[p] = changed[p] \union {change}
        BY <2>1, <2>3 DEF Call, Takes, Abort, TypeOK
      <3> QED
        BY <2>1, <3>1, <3>2
    <2> QED
      BY <1>2, <2>2, <2>3, WriteIsACall
  <1>3. ASSUME NEW p \in Publisher, Audit(p) PROVE AuditInv'
    BY <1>3 DEF Audit, Recorded, TypeOK
  <1>4. ASSUME NEW p \in Publisher, Trouble(p) PROVE AuditInv'
    BY <1>4 DEF Trouble, ListFails, AuditFails, Recorded, Crash, Abort, TypeOK
  <1>5. CASE OthersWrite \/ UNCHANGED vars
    BY <1>5 DEF OthersWrite, vars
  <1> QED
    BY <1>1, <1>2, <1>3, <1>4, <1>5 DEF Next, Publish

(* The audit row of a publish lists exactly what the publish changed at    *)
(* the provider, and a run that reports success has one (dns.go:806-810).  *)
THEOREM AuditIsTruthful == Spec => []AuditTruthful
  <1>1. Init => AuditInv
    BY DEF Init, AuditInv
  <1>2. TypeOK /\ AuditInv /\ [Next]_vars => AuditInv'
    BY AuditStep
  <1>3. TypeOK /\ AuditInv => AuditTruthful
    BY DEF TypeOK, AuditInv, AuditTruthful
  <1> QED
    BY <1>1, <1>2, <1>3, TypeCorrect, PTL DEF Spec

-----------------------------------------------------------------------------
(* One process on its own implements MailZone.                             *)

Alone == \A p, q \in Publisher : p = q
NeverOvertaken == \A p \in Publisher : Undisturbed(p)

LEMMA NeverOvertakenStep ==
    ASSUME Alone, TypeOK, NeverOvertaken, [Next]_vars
    PROVE  NeverOvertaken'
  <1> USE DEF NeverOvertaken, Undisturbed
  <1>1. ASSUME NEW p \in Publisher, List(p) \/ Audit(p) \/ Trouble(p)
        PROVE  NeverOvertaken'
    BY <1>1 DEF List, Audit, Trouble, ListFails, AuditFails, Crash, Abort, TypeOK
  <1>2. ASSUME NEW p \in Publisher, Write(p) PROVE NeverOvertaken'
    <2>1. overtaken'[p] = overtaken[p]
      BY <1>2, WriteOvertakes
    <2> QED
      BY <2>1 DEF Alone
  <1>3. CASE OthersWrite \/ UNCHANGED vars
    BY <1>3 DEF OthersWrite, vars
  <1> QED
    BY <1>1, <1>2, <1>3 DEF Next, Publish

(* A slot is occupied in MailZone's eyes when it holds a live record.      *)
LEMMA OccupiedMeansHeld ==
    ASSUME NEW live, live \subseteq Record, NEW s \in Managed
    PROVE  InSlot(live, s) # {} <=>
              \/ \E d \in Desired : /\ \E r \in live : SameContent(r.val, d)
                                    /\ SlotOf[d] = s
              \/ \E r \in ManagedPart(live) :
                    /\ \A d \in Desired : ~SameContent(r.val, d)
                    /\ SlotOf[r.val] = s
  <1>1. \A r \in live : \A d \in Desired :
            SameContent(r.val, d) => SlotOf[r.val] = SlotOf[d]
    BY ZoneAssumption DEF SameContent, Record
  <1> QED
    BY <1>1 DEF InSlot, ManagedPart

(* A write keeps what is right and brings in nothing wrong.                *)
LEMMA WriteImproves ==
    ASSUME IInv, NEW p \in Publisher, Undisturbed(p), Write(p)
    PROVE  Right \subseteq Right' /\ Wrong' \subseteq Wrong
  <1>0. /\ TypeOK /\ IdsFresh /\ zone \subseteq Record /\ todo[p] \in Plan
    BY DEF IInv, TypeOK
  <1>1. Fits(zone, todo[p])
    BY WriteOvertakes, <1>0 DEF IInv, UndisturbedPlansFit, Undisturbed
  <1>2. ASSUME NEW d \in Right
        PROVE  \E q \in zone : q \notin Touched(todo[p]) /\ SameContent(q.val, d)
    <2>1. d \in Desired \ Wanted(todo[p])
      BY <1>1 DEF Right, Fits
    <2> QED
      BY <1>1, <2>1 DEF Fits, Settled, ManagedPart
  <1>3. \A r \in Touched(todo[p]) : r \in zone
    BY <1>1 DEF Fits
  <1>4. \A q \in zone : q \notin Touched(todo[p]) => q \in zone'
    <2>1. CASE Adds \/ Misses
      BY <2>1 DEF Adds, Misses
    <2>2. CASE Edits(p)
      <3>1. PICK e \in todo[p].edit :
               zone' = {r \in zone : r.id # e.cur.id}
                         \union {[id |-> e.cur.id, val |-> e.to]}
        BY <2>2 DEF Edits
      <3>2. e.cur \in Touched(todo[p])
        BY DEF Touched
      <3> QED
        BY <1>0, <1>3, <3>1, <3>2 DEF IdsFresh
    <2>3. CASE Deletes(p)
      <3>1. PICK r \in todo[p].del : zone' = {q \in zone : q.id # r.id}
        BY <2>3 DEF Deletes
      <3>2. r \in Touched(todo[p])
        BY DEF Touched
      <3> QED
        BY <1>0, <1>3, <3>1, <3>2 DEF IdsFresh
    <2> QED
      BY <1>0, <2>1, <2>2, <2>3, WriteMoves
  <1>5. \A r \in zone' : r \in zone \/ r.val \in Desired
    BY <1>0, WriteMoves DEF Adds, Edits, Deletes, Misses, Plan
  <1>6. Right \subseteq Right'
    BY <1>2, <1>4 DEF Right
  <1>7. Wrong' \subseteq Wrong
    BY <1>5 DEF Wrong, ManagedPart, SameContent
  <1> QED
    BY <1>6, <1>7

LEMMA WriteIsImprove ==
    ASSUME IInv, TypeOK', NEW p \in Publisher, Undisturbed(p), Write(p)
    PROVE  Abstract!Improve
  <1>1. Right \subseteq Right' /\ Right' \subseteq Desired /\ Wrong' \subseteq Wrong
    BY WriteImproves DEF Right
  <1>2. ForeignPart(zone') = ForeignPart(zone)
    BY ForeignStep
  <1>3. \A s \in Managed : InSlot(zone, s) # {} => InSlot(zone', s) # {}
    BY NeverEmptiedStep
  <1>4. zone \subseteq Record /\ zone' \subseteq Record
    BY DEF IInv, TypeOK
  <1>5. \A s \in Managed : Abstract!Occupied(s) <=> InSlot(zone, s) # {}
    BY <1>4, OccupiedMeansHeld DEF Abstract!Occupied, Right, Wrong
  <1>6. \A s \in Managed : Abstract!Occupied(s)' <=> InSlot(zone', s) # {}
    BY <1>4, OccupiedMeansHeld DEF Abstract!Occupied, Right, Wrong
  <1>7. \A s \in Managed : Abstract!Occupied(s) => Abstract!Occupied(s)'
    BY <1>3, <1>5, <1>6
  <1> QED
    BY <1>1, <1>2, <1>7 DEF Abstract!Improve, Abstract!Managed, Managed

(* Others stay out of managed slots, and so do they in MailZone.           *)
LEMMA OthersAreOthers ==
    ASSUME TypeOK, OthersWrite
    PROVE  Abstract!Others
  <1>1. ManagedPart(zone') = ManagedPart(zone)
    BY OthersKeepManaged
  <1>2. zone \subseteq Record /\ zone' \subseteq Record
    BY DEF OthersWrite, TypeOK, Record
  <1>3. Wrong' = Wrong
    BY <1>1 DEF Wrong
  <1>4. ASSUME NEW d \in Desired
        PROVE  (\E r \in zone' : SameContent(r.val, d))
                  <=> (\E r \in zone : SameContent(r.val, d))
    <2>1. \A r \in zone \union zone' :
             SameContent(r.val, d) => SlotOf[r.val] \in Managed
      BY <1>2, ZoneAssumption DEF SameContent, Managed, Record
    <2> QED
      BY <1>1, <2>1 DEF ManagedPart
  <1>5. Right' = Right
    BY <1>4 DEF Right
  <1> QED
    BY <1>3, <1>5 DEF Abstract!Others

LEMMA StepRefines ==
    ASSUME IInv, TypeOK', NeverOvertaken, [Next]_vars
    PROVE  [Abstract!Improve \/ Abstract!Others]_(Abstract!zoneVars)
  <1>0. TypeOK
    BY DEF IInv
  <1>1. ASSUME UNCHANGED zone
        PROVE  UNCHANGED Abstract!zoneVars
    BY <1>1 DEF Abstract!zoneVars, Right, Wrong
  <1>2. ASSUME NEW p \in Publisher, List(p) \/ Audit(p) \/ Trouble(p)
        PROVE  UNCHANGED zone
    BY <1>0, <1>2, OtherStepsKeepPlans DEF List
  <1>3. ASSUME NEW p \in Publisher, Write(p)
        PROVE  Abstract!Improve
    BY <1>3, WriteIsImprove DEF NeverOvertaken
  <1>4. CASE OthersWrite
    BY <1>0, <1>4, OthersAreOthers
  <1>5. CASE UNCHANGED vars
    BY <1>1, <1>5 DEF vars
  <1> QED
    BY <1>1, <1>2, <1>3, <1>4, <1>5 DEF Next, Publish

(* A single publishing process, whatever fails and however often it is     *)
(* run again, only ever moves the zone towards the desired record-set.     *)
THEOREM PublishImplementsMailZone ==
    ASSUME Alone
    PROVE  Spec => ImplementsMailZone
  <1>1. Init => NeverOvertaken /\ Abstract!Init
    BY DEF Init, NeverOvertaken, Undisturbed, Abstract!Init, Right
  <1>2. TypeOK /\ NeverOvertaken /\ [Next]_vars => NeverOvertaken'
    BY NeverOvertakenStep
  <1>3. IInv /\ TypeOK' /\ NeverOvertaken /\ [Next]_vars
            => [Abstract!Improve \/ Abstract!Others]_(Abstract!zoneVars)
    BY StepRefines
  <1> QED
    BY <1>1, <1>2, <1>3, TypeCorrect, InvariantHolds, PTL
       DEF Spec, ImplementsMailZone, Abstract!Spec

=============================================================================
