------------------------ MODULE PublishByRRsetProofs ------------------------
(***************************************************************************)
(* Theorems about `mailadmin dns publish` on providers that store whole    *)
(* RRsets, for any values, slots, RRsets and desired records, any number   *)
(* of processes, and any bounds.                                           *)
(***************************************************************************)
EXTENDS PublishByRRset, TLAPS

-----------------------------------------------------------------------------
(* Types.                                                                  *)

(* What ListRecords reports of a value of a managed slot, and plans that   *)
(* touch nothing else and edit within a slot.                              *)
MailRecord == {[id |-> v, val |-> v] : v \in {w \in Value : SlotOf[w] \in Managed}}
MailEdit == {e \in [cur : MailRecord, to : Desired] : SlotOf[e.cur.val] = SlotOf[e.to]}
Plan == [add : SUBSET Desired, edit : SUBSET MailEdit, del : SUBSET MailRecord]

Call == [step : {"write", "create"}, set : {SetOf[v] : v \in Value},
         values : SUBSET Value, tries : 1 .. MaxAttempts, rest : Plan]

(* A call is under way only while the plan is applied, and its copy holds  *)
(* values of its RRset alone.                                              *)
CallOK(p) ==
    call[p] # NoCall =>
        pc[p] = "apply" /\ \A v \in call[p].values : SetOf[v] = call[p].set

TypeInv ==
    /\ backend \in Backends
    /\ zone \subseteq Value
    /\ disabled \subseteq Value \ zone
    /\ pc \in [Publisher -> {"idle", "apply", "done", "failed"}]
    /\ todo \in [Publisher -> Plan]
    /\ call \in [Publisher -> Call \union {NoCall}]
    /\ \A p \in Publisher : CallOK(p)
    /\ overtaken \in [Publisher -> BOOLEAN]
    /\ raced \in [Publisher -> BOOLEAN]
    /\ faults \in 0 .. MaxFaults
    /\ writes \in 0 .. MaxForeign

LEMMA NothingIsAPlan == NothingToDo \in Plan
  BY DEF NothingToDo, Plan

LEMMA NoCallIsNone == NoCall \notin Call /\ \A c \in Call : c.step # "none"
  BY DEF NoCall, Call

LEMMA MailRecordIsItsValue ==
    ASSUME NEW r \in MailRecord
    PROVE  /\ r.val \in Value /\ SlotOf[r.val] \in Managed
           /\ r = [id |-> r.val, val |-> r.val]
  BY DEF MailRecord

(* A plan for a zone is typed, and touches only what is there.             *)
LEMMA PlanTyped ==
    ASSUME NEW plan \in Plans(Live), zone \subseteq Value
    PROVE  plan \in Plan
  <1>1. PICK D \in SUBSET Desired : \E c \in [D -> ManagedPart(Live)] :
            IsPlacement(Live, c) /\ plan = ChangesOf(Live, c)
    BY DEF Plans, Placements
  <1>2. PICK c \in [D -> ManagedPart(Live)] :
            IsPlacement(Live, c) /\ plan = ChangesOf(Live, c)
    BY <1>1
  <1>3. ManagedPart(Live) \subseteq MailRecord
    BY DEF ManagedPart, MailRecord, Live
  <1>4. plan.add \subseteq Desired /\ plan.del \subseteq MailRecord
    BY <1>2, <1>3 DEF ChangesOf
  <1>5. plan.edit \subseteq MailEdit
    BY <1>2, <1>3 DEF ChangesOf, MailEdit, IsPlacement
  <1> QED
    BY <1>2, <1>4, <1>5 DEF ChangesOf, Plan

(* The invariant says all that TypeOK does.                                *)
LEMMA TypeInvIsTypeOK == TypeInv => TypeOK
  <1> SUFFICES ASSUME TypeInv PROVE TypeOK
    OBVIOUS
  <1>1. ASSUME NEW p \in Publisher
        PROVE  /\ todo[p].add \subseteq Desired
               /\ \A r \in todo[p].del : SlotOf[r.val] \in Managed
               /\ \A e \in todo[p].edit : SlotOf[e.cur.val] = SlotOf[e.to]
    BY MailRecordIsItsValue DEF TypeInv, Plan, MailEdit
  <1>2. ASSUME NEW p \in Publisher, call[p] # NoCall
        PROVE  /\ pc[p] = "apply"
               /\ call[p].tries \in 1 .. MaxAttempts
               /\ \A v \in call[p].values : SetOf[v] = call[p].set
    BY <1>2 DEF TypeInv, CallOK, Call
  <1> QED
    BY <1>1, <1>2 DEF TypeInv, TypeOK

LEMMA InitTyped == Init => TypeInv
  BY RRsetAssumption, NothingIsAPlan DEF Init, TypeInv, CallOK

-----------------------------------------------------------------------------
(* The steps, each by what it does to the call and to the zone.            *)

(* Reading the RRset of v leaves a copy of that RRset, changed at v only.  *)
LEMMA CopyTyped ==
    ASSUME TypeInv, NEW v \in Value, NEW w
    PROVE  /\ Stored(SetOf[v]) \subseteq Value
           /\ RemoveValue(Stored(SetOf[v]), w) \subseteq Stored(SetOf[v])
           /\ \A S \in SUBSET Stored(SetOf[v]) :
                 Upsert(S, v) \subseteq Value /\ \A u \in Upsert(S, v) : SetOf[u] = SetOf[v]
  BY DEF TypeInv, Stored, RemoveValue, Upsert

LEMMA ReadsTyped ==
    ASSUME TypeInv, NEW p \in Publisher, pc[p] = "apply", NEW v \in Value,
           NEW values \in SUBSET Value, \A u \in values : SetOf[u] = SetOf[v],
           NEW rest \in Plan, Reads(p, v, values, rest)
    PROVE  TypeInv'
  <1>1. 1 \in 1 .. MaxAttempts
    BY RRsetAssumption
  <1>2. [step |-> "write", set |-> SetOf[v], values |-> values, tries |-> 1,
         rest |-> rest] \in Call
    BY <1>1 DEF Call
  <1>3. call' \in [Publisher -> Call \union {NoCall}]
    BY <1>2 DEF Reads, TypeInv
  <1>4. \A q \in Publisher : CallOK(q)'
    BY DEF Reads, TypeInv, CallOK
  <1> QED
    BY <1>3, <1>4 DEF Reads, TypeInv

LEMMA ReadToAddTyped ==
    ASSUME TypeInv, NEW p \in Publisher, ReadToAdd(p)
    PROVE  TypeInv'
  <1>1. PICK d \in todo[p].add :
            Reads(p, d, Upsert(Stored(SetOf[d]), d), [todo[p] EXCEPT !.add = @ \ {d}])
    BY DEF ReadToAdd
  <1>2. todo[p] \in Plan /\ d \in Desired /\ d \in Value
    BY ZoneAssumption DEF TypeInv, Plan
  <1>3. [todo[p] EXCEPT !.add = @ \ {d}] \in Plan
    BY <1>2 DEF Plan
  <1> QED
    BY <1>1, <1>2, <1>3, CopyTyped, ReadsTyped DEF ReadToAdd

LEMMA ReadToEditTyped ==
    ASSUME TypeInv, NEW p \in Publisher, ReadToEdit(p)
    PROVE  TypeInv'
  <1>1. PICK e \in todo[p].edit :
            Reads(p, e.to, Upsert(RemoveValue(Stored(SetOf[e.to]), e.cur.val), e.to),
                  [todo[p] EXCEPT !.edit = @ \ {e}])
    BY DEF ReadToEdit
  <1>2. todo[p] \in Plan /\ e \in MailEdit
    BY DEF TypeInv, Plan
  <1>3. e.to \in Value
    BY <1>2, ZoneAssumption DEF MailEdit
  <1>4. [todo[p] EXCEPT !.edit = @ \ {e}] \in Plan
    BY <1>2 DEF Plan
  <1> QED
    BY <1>1, <1>3, <1>4, CopyTyped, ReadsTyped DEF ReadToEdit

LEMMA ReadToRemoveTyped ==
    ASSUME TypeInv, NEW p \in Publisher, ReadToRemove(p)
    PROVE  TypeInv'
  <1>1. PICK r \in todo[p].del :
            Reads(p, r.val, RemoveValue(Stored(SetOf[r.val]), r.val),
                  [todo[p] EXCEPT !.del = @ \ {r}])
    BY DEF ReadToRemove
  <1>2. todo[p] \in Plan /\ r \in MailRecord
    BY DEF TypeInv, Plan
  <1>3. r.val \in Value
    BY <1>2, MailRecordIsItsValue
  <1>4. [todo[p] EXCEPT !.del = @ \ {r}] \in Plan
    BY <1>2 DEF Plan
  <1>5. \A u \in RemoveValue(Stored(SetOf[r.val]), r.val) : u \in Value /\ SetOf[u] = SetOf[r.val]
    BY <1>3, CopyTyped DEF Stored
  <1> QED
    BY <1>1, <1>3, <1>4, <1>5, ReadsTyped DEF ReadToRemove

LEMMA ListTyped ==
    ASSUME TypeInv, NEW p \in Publisher, List(p)
    PROVE  TypeInv'
  <1>1. PICK plan \in Plans(Live) : todo' = [todo EXCEPT ![p] = plan]
    BY DEF List
  <1>2. plan \in Plan
    BY PlanTyped DEF TypeInv
  <1>3. todo' \in [Publisher -> Plan]
    BY <1>1, <1>2 DEF TypeInv
  <1>4. \A q \in Publisher : CallOK(q)'
    BY DEF List, TypeInv, CallOK
  <1> QED
    BY <1>3, <1>4 DEF List, TypeInv

(* What the provider does with a write: it takes the copy or leaves the    *)
(* zone as it is.                                                          *)
LEMMA EffectTyped ==
    ASSUME TypeInv, NEW p \in Publisher, call[p] # NoCall, Takes(p) \/ NoEffect
    PROVE  /\ zone' \subseteq Value
           /\ disabled' \subseteq Value \ zone'
           /\ overtaken' \in [Publisher -> BOOLEAN]
           /\ raced' \in [Publisher -> BOOLEAN]
  <1>1. call[p] \in Call /\ CallOK(p)
    BY DEF TypeInv
  <1>2. CASE NoEffect
    BY <1>2 DEF NoEffect, TypeInv
  <1>3. CASE Takes(p)
    <2>1. zone' \subseteq Value /\ disabled' \subseteq Value
      BY <1>1, <1>3 DEF Takes, TypeInv, Call
    <2>2. \A v \in disabled' : v \notin zone'
      BY <1>1, <1>3 DEF Takes, TypeInv, CallOK
    <2> QED
      BY <1>3, <2>1, <2>2 DEF Takes, TypeInv
  <1> QED
    BY <1>2, <1>3

LEMMA WriteSetTyped ==
    ASSUME TypeInv, NEW p \in Publisher, WriteSet(p)
    PROVE  TypeInv'
  <1>1. call[p] \in Call
    BY DEF TypeInv, WriteSet
  <1>2. call[p].rest \in Plan
    BY <1>1 DEF Call
  <1>3. \A q \in Publisher : CallOK(q)'
    BY DEF WriteSet, TypeInv, CallOK
  <1> QED
    BY <1>2, <1>3, EffectTyped DEF WriteSet, TypeInv

LEMMA AbortTyped ==
    ASSUME TypeInv, NEW p \in Publisher, Abort(p)
    PROVE  /\ pc' \in [Publisher -> {"idle", "apply", "done", "failed"}]
           /\ todo' \in [Publisher -> Plan]
           /\ call' \in [Publisher -> Call \union {NoCall}]
           /\ \A q \in Publisher : CallOK(q)'
  BY NothingIsAPlan DEF Abort, TypeInv, CallOK

LEMMA BadAnswerTyped ==
    ASSUME TypeInv, NEW p \in Publisher, BadAnswer(p)
    PROVE  TypeInv'
  <1>1. call[p] \in Call /\ call[p] # NoCall
    BY DEF TypeInv, BadAnswer
  <1>2. faults' \in 0 .. MaxFaults
    BY RRsetAssumption DEF TypeInv, BadAnswer
  <1>3. CASE /\ Retries(p)
             /\ call' = [call EXCEPT ![p].tries = @ + 1]
             /\ UNCHANGED <<pc, todo>>
    <2>1. call[p].tries + 1 \in 1 .. MaxAttempts
      BY <1>1, <1>3, RRsetAssumption DEF Retries, Call
    <2>2. [call[p] EXCEPT !.tries = @ + 1] \in Call
      BY <1>1, <2>1 DEF Call
    <2>3. call' \in [Publisher -> Call \union {NoCall}]
      BY <1>3, <2>2 DEF TypeInv
    <2>4. \A q \in Publisher : call'[q] # NoCall =>
              call[q] # NoCall /\ call'[q].set = call[q].set /\ call'[q].values = call[q].values
      BY <1>1, <1>3 DEF TypeInv, Call
    <2>5. \A q \in Publisher : CallOK(q)'
      BY <1>3, <2>4 DEF TypeInv, CallOK
    <2> QED
      BY <1>1, <1>2, <1>3, <2>3, <2>5, EffectTyped DEF BadAnswer, TypeInv
  <1>4. CASE Abort(p)
    BY <1>1, <1>2, <1>4, AbortTyped, EffectTyped DEF BadAnswer, TypeInv
  <1> QED
    BY <1>3, <1>4 DEF BadAnswer

LEMMA CreateInsteadTyped ==
    ASSUME TypeInv, NEW p \in Publisher, CreateInstead(p)
    PROVE  TypeInv'
  <1>1. call[p] \in Call /\ call[p] # NoCall /\ 1 \in 1 .. MaxAttempts
    BY RRsetAssumption DEF TypeInv, CreateInstead
  <1>2. [call[p] EXCEPT !.step = "create", !.tries = 1] \in Call
    BY <1>1 DEF Call
  <1>3. call' = [call EXCEPT ![p] = [call[p] EXCEPT !.step = "create", !.tries = 1]]
    BY <1>1 DEF CreateInstead, TypeInv
  <1>4. call' \in [Publisher -> Call \union {NoCall}]
    BY <1>2, <1>3 DEF TypeInv
  <1>5. \A q \in Publisher : call'[q] # NoCall =>
            call[q] # NoCall /\ call'[q].set = call[q].set /\ call'[q].values = call[q].values
    BY <1>1, <1>3 DEF TypeInv, Call
  <1>6. \A q \in Publisher : CallOK(q)'
    BY <1>5 DEF CreateInstead, TypeInv, CallOK
  <1> QED
    BY <1>4, <1>6 DEF CreateInstead, NoEffect, TypeInv

LEMMA OtherStepsTyped ==
    ASSUME TypeInv, NEW p \in Publisher,
           CreateRefused(p) \/ ReadFails(p) \/ Finish(p) \/ Crash(p)
    PROVE  TypeInv'
  <1>1. CASE CreateRefused(p)
    BY <1>1, AbortTyped DEF CreateRefused, NoEffect, TypeInv
  <1>2. CASE ReadFails(p)
    BY <1>2, AbortTyped, RRsetAssumption DEF ReadFails, NoEffect, TypeInv
  <1>3. CASE Finish(p)
    BY <1>3 DEF Finish, NoEffect, TypeInv, CallOK
  <1>4. CASE Crash(p)
    BY <1>4, NothingIsAPlan, RRsetAssumption DEF Crash, NoEffect, TypeInv, CallOK
  <1> QED
    BY <1>1, <1>2, <1>3, <1>4

LEMMA OthersWriteTyped == TypeInv /\ OthersWrite => TypeInv'
  <1> SUFFICES ASSUME TypeInv, OthersWrite PROVE TypeInv'
    OBVIOUS
  <1>1. \A q \in Publisher : CallOK(q)'
    BY DEF OthersWrite, TypeInv, CallOK
  <1>2. zone' \subseteq Value /\ disabled' \subseteq Value \ zone'
    BY DEF OthersWrite, TypeInv
  <1>3. writes' \in 0 .. MaxForeign
    BY RRsetAssumption DEF OthersWrite, TypeInv
  <1>4. raced' \in [Publisher -> BOOLEAN]
    BY DEF OthersWrite, TypeInv
  <1> QED
    BY <1>1, <1>2, <1>3, <1>4 DEF OthersWrite, TypeInv

LEMMA StepTyped == TypeInv /\ [Next]_vars => TypeInv'
  <1> SUFFICES ASSUME TypeInv, [Next]_vars PROVE TypeInv'
    OBVIOUS
  <1>1. CASE UNCHANGED vars
    BY <1>1 DEF vars, TypeInv, CallOK
  <1>2. ASSUME NEW p \in Publisher, Publish(p) \/ Trouble(p) PROVE TypeInv'
    BY <1>2, ListTyped, ReadToAddTyped, ReadToEditTyped, ReadToRemoveTyped, WriteSetTyped,
       CreateInsteadTyped, BadAnswerTyped, OtherStepsTyped DEF Publish, Trouble
  <1> QED
    BY <1>1, <1>2, OthersWriteTyped DEF Next

LEMMA TypeInvHolds == Spec => []TypeInv
  BY InitTyped, StepTyped, PTL DEF Spec

(* Every variable keeps its type: a call under way belongs to a process    *)
(* that applies a plan, its copy to one RRset, and no plan names a record  *)
(* of a slot outside the mail set.                                         *)
THEOREM TypeCorrect == Spec => []TypeOK
  BY TypeInvHolds, TypeInvIsTypeOK, PTL

-----------------------------------------------------------------------------
(* Foreign values.                                                         *)

Foreign == {v \in Value : SlotOf[v] \notin Managed}

(* As long as nobody raced it, the copy of a call holds the same foreign   *)
(* values as the zone has in that RRset; and none is switched off.         *)
CopiesForeign(p) ==
    call[p] # NoCall /\ ~raced[p] =>
        \A v \in Foreign :
            v \in call[p].values <=> v \in zone /\ SetOf[v] = call[p].set

ForeignInv ==
    /\ disabled \intersect Foreign = {}
    /\ \A p \in Publisher : CopiesForeign(p)

(* Values of one content are of one slot, so changing the copy at a value  *)
(* of a managed slot leaves its foreign values alone.                      *)
LEMMA ChangesKeepForeign ==
    ASSUME NEW S, S \subseteq Value, NEW v \in Value, SlotOf[v] \in Managed
    PROVE  /\ RemoveValue(S, v) \intersect Foreign = S \intersect Foreign
           /\ Upsert(S, v) \intersect Foreign = S \intersect Foreign
  BY ZoneAssumption DEF RemoveValue, Upsert, SameContent, Foreign

LEMMA DesiredIsManaged == \A d \in Desired : d \in Value /\ SlotOf[d] \in Managed
  BY ZoneAssumption DEF Managed

LEMMA ReadsCopyForeign ==
    ASSUME TypeInv, ForeignInv, NEW p \in Publisher, NEW v, NEW values, NEW rest,
           values \intersect Foreign = Stored(SetOf[v]) \intersect Foreign,
           Reads(p, v, values, rest)
    PROVE  ForeignInv'
  <1>1. /\ call'[p].set = SetOf[v] /\ call'[p].values = values
        /\ \A q \in Publisher \ {p} : call'[q] = call[q] /\ raced'[q] = raced[q]
    BY DEF Reads, TypeInv
  <1>2. \A u \in Foreign : u \in values <=> u \in zone /\ SetOf[u] = SetOf[v]
    BY DEF ForeignInv, Stored, Foreign
  <1>3. UNCHANGED <<zone, disabled>>
    BY DEF Reads
  <1>4. \A q \in Publisher : CopiesForeign(q)'
    BY <1>1, <1>2, <1>3 DEF ForeignInv, CopiesForeign
  <1> QED
    BY <1>3, <1>4 DEF ForeignInv

LEMMA ReadStepsCopyForeign ==
    ASSUME TypeInv, ForeignInv, NEW p \in Publisher,
           ReadToAdd(p) \/ ReadToEdit(p) \/ ReadToRemove(p)
    PROVE  ForeignInv'
  <1>0. todo[p] \in Plan /\ \A k : Stored(k) \subseteq Value
    BY DEF TypeInv, Stored
  <1>1. CASE ReadToAdd(p)
    <2>1. PICK d \in todo[p].add :
              Reads(p, d, Upsert(Stored(SetOf[d]), d), [todo[p] EXCEPT !.add = @ \ {d}])
      BY <1>1 DEF ReadToAdd
    <2>2. d \in Desired
      BY <1>0 DEF Plan
    <2> QED
      BY <1>0, <2>1, <2>2, DesiredIsManaged, ChangesKeepForeign, ReadsCopyForeign
  <1>2. CASE ReadToEdit(p)
    <2>1. PICK e \in todo[p].edit :
              Reads(p, e.to, Upsert(RemoveValue(Stored(SetOf[e.to]), e.cur.val), e.to),
                    [todo[p] EXCEPT !.edit = @ \ {e}])
      BY <1>2 DEF ReadToEdit
    <2>2. e.to \in Desired /\ e.cur \in MailRecord
      BY <1>0 DEF Plan, MailEdit
    <2>3. RemoveValue(Stored(SetOf[e.to]), e.cur.val) \subseteq Value
      BY <1>0 DEF RemoveValue
    <2>4. /\ e.to \in Value /\ SlotOf[e.to] \in Managed
          /\ e.cur.val \in Value /\ SlotOf[e.cur.val] \in Managed
      BY <2>2, MailRecordIsItsValue, DesiredIsManaged
    <2>5. RemoveValue(Stored(SetOf[e.to]), e.cur.val) \intersect Foreign
              = Stored(SetOf[e.to]) \intersect Foreign
      BY <1>0, <2>4, ChangesKeepForeign
    <2>6. Upsert(RemoveValue(Stored(SetOf[e.to]), e.cur.val), e.to) \intersect Foreign
              = RemoveValue(Stored(SetOf[e.to]), e.cur.val) \intersect Foreign
      BY <2>3, <2>4, ChangesKeepForeign
    <2> QED
      BY <2>1, <2>5, <2>6, ReadsCopyForeign
  <1>3. CASE ReadToRemove(p)
    <2>1. PICK r \in todo[p].del :
              Reads(p, r.val, RemoveValue(Stored(SetOf[r.val]), r.val),
                    [todo[p] EXCEPT !.del = @ \ {r}])
      BY <1>3 DEF ReadToRemove
    <2>2. r \in MailRecord
      BY <1>0 DEF Plan
    <2>3. r.val \in Value /\ SlotOf[r.val] \in Managed
      BY <2>2, MailRecordIsItsValue
    <2>4. RemoveValue(Stored(SetOf[r.val]), r.val) \intersect Foreign
              = Stored(SetOf[r.val]) \intersect Foreign
      BY <1>0, <2>3, ChangesKeepForeign
    <2> QED
      BY <2>1, <2>4, ReadsCopyForeign
  <1> QED
    BY <1>1, <1>2, <1>3

(* A write that is taken leaves the foreign values as they are, unless it  *)
(* was raced.                                                              *)
LEMMA TakesKeepsForeign ==
    ASSUME TypeInv, ForeignInv, NEW p \in Publisher, call[p] # NoCall, Takes(p) \/ NoEffect,
           ~raced[p]
    PROVE  zone' \intersect Foreign = zone \intersect Foreign
  <1>1. call[p] \in Call /\ CallOK(p) /\ CopiesForeign(p)
    BY DEF TypeInv, ForeignInv
  <1> QED
    BY <1>1 DEF Takes, NoEffect, CallOK, CopiesForeign

(* The calls of the others stay faithful copies, or are raced now.         *)
LEMMA TakesKeepsCopies ==
    ASSUME TypeInv, ForeignInv, NEW p \in Publisher, call[p] # NoCall, Takes(p) \/ NoEffect,
           NEW q \in Publisher, call'[q] # NoCall => call[q] # NoCall,
           call'[q] # NoCall =>
               call'[q].set = call[q].set /\ call'[q].values = call[q].values
    PROVE  CopiesForeign(q)'
  <1>1. CallOK(p) /\ CopiesForeign(q)
    BY DEF TypeInv, ForeignInv
  <1>2. CASE NoEffect
    BY <1>1, <1>2 DEF NoEffect, CopiesForeign
  <1>3. CASE Takes(p) /\ q = p
    BY <1>1, <1>3 DEF Takes, CopiesForeign, CallOK, TypeInv
  <1>4. CASE Takes(p) /\ q # p /\ call[q].set = call[p].set
    BY <1>4 DEF Takes, CopiesForeign, TypeInv
  <1>5. CASE Takes(p) /\ q # p /\ call[q].set # call[p].set
    BY <1>1, <1>5 DEF Takes, CopiesForeign, CallOK, TypeInv
  <1> QED
    BY <1>2, <1>3, <1>4, <1>5

LEMMA TakesKeepsDisabled ==
    ASSUME ForeignInv, NEW p \in Publisher, Takes(p) \/ NoEffect
    PROVE  disabled' \intersect Foreign = {}
  BY DEF ForeignInv, Takes, NoEffect

LEMMA WritesCopyForeign ==
    ASSUME TypeInv, ForeignInv, NEW p \in Publisher, WriteSet(p) \/ BadAnswer(p)
    PROVE  ForeignInv'
  <1>1. call[p] \in Call /\ call[p] # NoCall /\ (Takes(p) \/ NoEffect)
    BY DEF WriteSet, BadAnswer, TypeInv
  <1>2. \/ call' = [call EXCEPT ![p] = NoCall]
        \/ call' = [call EXCEPT ![p].tries = @ + 1]
    BY DEF WriteSet, BadAnswer, Abort
  <1>3. \A q \in Publisher : call'[q] # NoCall =>
            /\ call[q] # NoCall
            /\ call'[q].set = call[q].set /\ call'[q].values = call[q].values
    BY <1>1, <1>2 DEF TypeInv, Call
  <1>4. \A q \in Publisher : CopiesForeign(q)'
    BY <1>1, <1>3, TakesKeepsCopies
  <1> QED
    BY <1>1, <1>4, TakesKeepsDisabled DEF ForeignInv

LEMMA OtherStepsCopyForeign ==
    ASSUME TypeInv, ForeignInv, NEW p \in Publisher,
           List(p) \/ CreateInstead(p) \/ CreateRefused(p) \/ ReadFails(p) \/ Finish(p) \/ Crash(p)
    PROVE  ForeignInv'
  <1>1. UNCHANGED <<zone, disabled, raced>>
    BY DEF List, CreateInstead, CreateRefused, ReadFails, Finish, Crash, NoEffect
  <1>2. \A q \in Publisher : call'[q] # NoCall =>
            /\ call[q] # NoCall
            /\ call'[q].set = call[q].set /\ call'[q].values = call[q].values
    <2>1. CASE CreateInstead(p)
      <3>1. call[p] \in Call /\ call[p] # NoCall
        BY <2>1 DEF CreateInstead, TypeInv
      <3> QED
        BY <2>1, <3>1 DEF CreateInstead, TypeInv, Call
    <2>2. CASE ~CreateInstead(p)
      BY <2>2 DEF List, CreateRefused, ReadFails, Finish, Crash, Abort, TypeInv
    <2> QED
      BY <2>1, <2>2
  <1>3. \A q \in Publisher : CopiesForeign(q)'
    BY <1>1, <1>2 DEF ForeignInv, CopiesForeign
  <1> QED
    BY <1>1, <1>3 DEF ForeignInv

LEMMA OthersWriteCopyForeign == TypeInv /\ ForeignInv /\ OthersWrite => ForeignInv'
  <1> SUFFICES ASSUME TypeInv, ForeignInv, OthersWrite PROVE ForeignInv'
    OBVIOUS
  <1>1. PICK v \in Value :
          /\ zone' = IF v \in zone THEN zone \ {v} ELSE zone \union {v}
          /\ raced' = [p \in Publisher |->
                          raced[p] \/ (call[p] # NoCall /\ call[p].set = SetOf[v])]
    BY DEF OthersWrite
  <1>2. ASSUME NEW p \in Publisher PROVE CopiesForeign(p)'
    <2>1. raced'[p] <=> raced[p] \/ (call[p] # NoCall /\ call[p].set = SetOf[v])
      BY <1>1
    <2>2. \A u \in Foreign : u # v => (u \in zone' <=> u \in zone)
      BY <1>1
    <2>3. UNCHANGED call
      BY DEF OthersWrite
    <2>4. CASE call[p] # NoCall /\ ~raced'[p]
      <3>1. SetOf[v] # call[p].set /\ ~raced[p]
        BY <2>1, <2>4
      <3>2. v \notin call[p].values
        BY <2>4, <3>1 DEF TypeInv, CallOK
      <3>3. ASSUME NEW u \in Foreign
            PROVE  u \in call[p].values <=> u \in zone' /\ SetOf[u] = call[p].set
        BY <2>2, <2>4, <3>1, <3>2 DEF ForeignInv, CopiesForeign
      <3> QED
        BY <2>3, <3>3 DEF CopiesForeign
    <2> QED
      BY <2>3, <2>4 DEF CopiesForeign
  <1> QED
    BY <1>2 DEF ForeignInv, OthersWrite

LEMMA ForeignInvStep == TypeInv /\ ForeignInv /\ [Next]_vars => ForeignInv'
  <1> SUFFICES ASSUME TypeInv, ForeignInv, [Next]_vars PROVE ForeignInv'
    OBVIOUS
  <1>1. CASE UNCHANGED vars
    BY <1>1 DEF vars, ForeignInv, CopiesForeign
  <1>2. ASSUME NEW p \in Publisher, Publish(p) \/ Trouble(p) PROVE ForeignInv'
    BY <1>2, ReadStepsCopyForeign, WritesCopyForeign, OtherStepsCopyForeign DEF Publish, Trouble
  <1> QED
    BY <1>1, <1>2, OthersWriteCopyForeign DEF Next

LEMMA ForeignPartIsForeign ==
    ASSUME zone \subseteq Value, zone' \subseteq Value,
           zone' \intersect Foreign = zone \intersect Foreign
    PROVE  ForeignPart(Live') = ForeignPart(Live)
  <1>1. ForeignPart(Live) = {[id |-> v, val |-> v] : v \in zone \intersect Foreign}
    BY DEF ForeignPart, ManagedPart, Live, Foreign
  <1>2. ForeignPart(Live') = {[id |-> v, val |-> v] : v \in zone' \intersect Foreign}
    BY DEF ForeignPart, ManagedPart, Live, Foreign
  <1> QED
    BY <1>1, <1>2

(* Where nothing but values of managed slots may be switched off: a write  *)
(* of a publish, repeated or not and whatever becomes of its answer,       *)
(* changes a foreign value only if somebody wrote the same RRset after the *)
(* publish had read it.                                                    *)
THEOREM ForeignIsKeptUnlessRacing ==
    ASSUME \A v \in Disabled : SlotOf[v] \in Managed
    PROVE  Spec => ForeignKeptUnlessRacing
  <1> DEFINE Kept == \A p \in Publisher : Writing(p) /\ ~raced[p] =>
                        ForeignPart(Live') = ForeignPart(Live)
  <1>1. Init => ForeignInv
    BY DEF Init, ForeignInv, Foreign, CopiesForeign
  <1>2. TypeInv /\ ForeignInv /\ TypeInv' /\ [Next]_vars => [Kept]_vars
    <2> SUFFICES ASSUME TypeInv, ForeignInv, TypeInv', NEW p \in Publisher, Writing(p), ~raced[p]
                 PROVE  ForeignPart(Live') = ForeignPart(Live)
      OBVIOUS
    <2>1. call[p] # NoCall /\ (Takes(p) \/ NoEffect)
      BY DEF Writing, WriteSet, BadAnswer
    <2>2. zone' \intersect Foreign = zone \intersect Foreign
      BY <2>1, TakesKeepsForeign
    <2> QED
      BY <2>2, ForeignPartIsForeign DEF TypeInv
  <1> QED
    BY <1>1, <1>2, ForeignInvStep, TypeInvHolds, PTL DEF Spec, ForeignKeptUnlessRacing

-----------------------------------------------------------------------------
(* Plans and the zones they fit.  These lemmas do not mention the steps.   *)

MailOf(Z) == {v \in Z : SlotOf[v] \in Managed}
Touched(plan) == {e.cur.val : e \in plan.edit} \union {r.val : r \in plan.del}
Wanted(plan) == plan.add \union {e.to : e \in plan.edit}

(* No content of a managed slot is spelled in two ways.                    *)
OneSpelling(Z) == \A v, w \in MailOf(Z) : SameContent(v, w) => v = w

(* The plan leads from zone Z to the desired values: what it touches is    *)
(* there, what it wants is not, and what it leaves alone are the other     *)
(* desired values.                                                         *)
Fits(Z, plan) ==
    /\ Touched(plan) \subseteq Z
    /\ \A e \in plan.edit : e.to \notin plan.add /\ \A r \in plan.del : r.val # e.cur.val
    /\ \A e, f \in plan.edit : e.cur = f.cur \/ e.to = f.to => e = f
    /\ \A d \in Wanted(plan) : \A v \in Z : ~SameContent(v, d)
    /\ \A d \in Desired \ Wanted(plan) : \E v \in Z \ Touched(plan) : SameContent(v, d)
    /\ \A v \in MailOf(Z) \ Touched(plan) :
          \E d \in Desired \ Wanted(plan) : SameContent(v, d)

Holds(Z, s) == \E v \in Z : SlotOf[v] = s

(* From Y to Z no managed slot is emptied, no desired value goes and no    *)
(* undesired one comes in.                                                 *)
Improves(Y, Z) ==
    /\ \A s \in Managed : Holds(Y, s) => Holds(Z, s)
    /\ \A d \in Desired : ContainsValue(Y, d) => ContainsValue(Z, d)
    /\ MailOf(Z) \subseteq Y \union Desired

LEMMA StayingImproves ==
    ASSUME NEW Z
    PROVE  Improves(Z, Z)
  BY DEF Improves, MailOf

(* The desired values that are there are not touched.                      *)
LEMMA DesiredUntouched ==
    ASSUME NEW Z, NEW plan \in Plan, Fits(Z, plan), NEW d \in Desired, ContainsValue(Z, d)
    PROVE  \E v \in Z \ Touched(plan) : SameContent(v, d)
  BY DEF Fits, ContainsValue

(* A plan fits the zone it was made for.                                   *)
LEMMA FitsWhenListed ==
    ASSUME NEW plan \in Plans(Live), zone \subseteq Value
    PROVE  Fits(zone, plan)
  <1>1. PICK D \in SUBSET Desired : \E c \in [D -> ManagedPart(Live)] :
            IsPlacement(Live, c) /\ plan = ChangesOf(Live, c)
    BY DEF Plans, Placements
  <1>2. PICK c \in [D -> ManagedPart(Live)] :
            IsPlacement(Live, c) /\ plan = ChangesOf(Live, c)
    BY <1>1
  <1>3. \A r \in ManagedPart(Live) :
            r.val \in zone /\ SlotOf[r.val] \in Managed /\ r = [id |-> r.val, val |-> r.val]
    BY DEF ManagedPart, Live
  <1>4. \A v \in MailOf(zone) : [id |-> v, val |-> v] \in ManagedPart(Live)
    BY DEF MailOf, ManagedPart, Live
  <1>5. \A d, e \in D : c[d] = c[e] => d = e
    BY <1>2 DEF IsPlacement
  <1>6. \A d \in Desired : \A v \in zone :
            SameContent(v, d) => d \in D /\ SameContent(c[d].val, d)
    <2> SUFFICES ASSUME NEW d \in Desired, NEW v \in zone, SameContent(v, d)
                 PROVE  d \in D /\ SameContent(c[d].val, d)
      OBVIOUS
    <2>1. [id |-> v, val |-> v] \in Live /\ SameContent([id |-> v, val |-> v].val, d)
      BY DEF Live
    <2> QED
      BY <1>2, <2>1 DEF IsPlacement
  <1>7. /\ plan.add = Desired \ D
        /\ plan.del = {r \in ManagedPart(Live) : \A d \in D : c[d] # r}
        /\ \A e \in plan.edit : e.to \in D /\ e.cur = c[e.to] /\ ~SameContent(c[e.to].val, e.to)
        /\ \A e \in plan.edit : e = [cur |-> c[e.to], to |-> e.to]
    BY <1>2 DEF ChangesOf
  <1>8. \A d \in D : ~SameContent(c[d].val, d) => \E e \in plan.edit : e.cur = c[d] /\ e.to = d
    <2> SUFFICES ASSUME NEW d \in D, ~SameContent(c[d].val, d)
                 PROVE  \E e \in plan.edit : e.cur = c[d] /\ e.to = d
      OBVIOUS
    <2>1. [cur |-> c[d], to |-> d] \in plan.edit
      BY <1>2 DEF ChangesOf
    <2> QED
      BY <2>1
  <1>9. \A d, e \in D : c[d].val = c[e].val => d = e
    BY <1>2, <1>3, <1>5
  <1>10. Touched(plan) \subseteq zone
    BY <1>2, <1>3, <1>7 DEF Touched
  <1>11. \A e \in plan.edit : e.to \notin plan.add /\ \A r \in plan.del : r.val # e.cur.val
    BY <1>2, <1>3, <1>7
  <1>12. \A e, f \in plan.edit : e.cur = f.cur \/ e.to = f.to => e = f
    BY <1>5, <1>7
  <1>13. \A d \in Wanted(plan) : \A v \in zone : ~SameContent(v, d)
    BY <1>6, <1>7 DEF Wanted
  <1>14. ASSUME NEW d \in Desired \ Wanted(plan)
         PROVE  \E v \in zone \ Touched(plan) : SameContent(v, d)
    <2>1. d \in D /\ SameContent(c[d].val, d) /\ c[d].val \in zone
      BY <1>2, <1>3, <1>7, <1>8 DEF Wanted
    <2>2. \A e \in plan.edit : e.cur.val # c[d].val
      BY <1>7, <1>9, <2>1
    <2>3. \A r \in plan.del : r.val # c[d].val
      BY <1>2, <1>3, <1>7, <2>1
    <2> QED
      BY <2>1, <2>2, <2>3 DEF Touched
  <1>15. ASSUME NEW v \in MailOf(zone) \ Touched(plan)
         PROVE  \E d \in Desired \ Wanted(plan) : SameContent(v, d)
    <2>1. [id |-> v, val |-> v] \in ManagedPart(Live) /\ [id |-> v, val |-> v] \notin plan.del
      BY <1>4 DEF Touched
    <2>2. PICK d \in D : c[d] = [id |-> v, val |-> v]
      BY <1>7, <2>1
    <2>3. c[d].val = v
      BY <2>2
    <2>4. SameContent(v, d)
      BY <1>8, <2>3 DEF Touched
    <2>5. d \notin Wanted(plan)
      BY <1>13, <2>4 DEF MailOf
    <2> QED
      BY <2>4, <2>5
  <1> QED
    BY <1>10, <1>11, <1>12, <1>13, <1>14, <1>15 DEF Fits

(* A value removed from a zone of one spelling goes alone.                 *)
LEMMA RemovesOne ==
    ASSUME NEW Z, Z \subseteq Value, OneSpelling(Z), NEW v \in MailOf(Z)
    PROVE  RemoveValue(Z, v) = Z \ {v}
  BY ZoneAssumption DEF RemoveValue, OneSpelling, MailOf, SameContent

LEMMA UpsertsNew ==
    ASSUME NEW Z, NEW d, \A v \in Z : ~SameContent(v, d)
    PROVE  Upsert(Z, d) = Z \union {d}
  BY DEF Upsert, ContainsValue

LEMMA DesiredDiffer ==
    ASSUME NEW d \in Desired, NEW e \in Desired, d # e
    PROVE  ~SameContent(d, e)
  BY ZoneAssumption DEF SameContent

(* Each change, carried out on a zone the plan fits, leaves a zone that    *)
(* the rest of the plan fits, and empties no managed slot.                 *)
LEMMA FitsAfterAdd ==
    ASSUME NEW Z, Z \subseteq Value, NEW plan \in Plan, Fits(Z, plan), NEW d \in plan.add,
           NEW rest, rest = [plan EXCEPT !.add = @ \ {d}]
    PROVE  Fits(Z \union {d}, rest)
  <1>1. /\ rest.add = plan.add \ {d} /\ rest.edit = plan.edit /\ rest.del = plan.del
        /\ plan.add \subseteq Desired /\ plan.edit \subseteq MailEdit
    BY DEF Plan
  <1>2. Touched(rest) = Touched(plan) /\ Wanted(rest) = Wanted(plan) \ {d}
    BY <1>1 DEF Touched, Wanted, Fits
  <1>3. d \in Desired /\ d \in Wanted(plan) /\ SameContent(d, d)
    BY <1>1 DEF Wanted, SameContent
  <1>4. d \notin Z /\ Wanted(plan) \subseteq Desired
    BY <1>1, <1>3 DEF Wanted, MailEdit, Fits
  <1>5. ASSUME NEW e \in Wanted(rest), NEW v \in Z \union {d}
        PROVE  ~SameContent(v, e)
    BY <1>2, <1>3, <1>4, DesiredDiffer DEF Fits
  <1>6. \A e \in Desired \ Wanted(rest) :
            \E v \in (Z \union {d}) \ Touched(rest) : SameContent(v, e)
    BY <1>2, <1>3, <1>4 DEF Fits
  <1>7. \A v \in MailOf(Z \union {d}) \ Touched(rest) :
            \E e \in Desired \ Wanted(rest) : SameContent(v, e)
    BY <1>2, <1>3 DEF Fits, MailOf
  <1>8. /\ Touched(rest) \subseteq Z \union {d}
        /\ \A e \in rest.edit : e.to \notin rest.add /\ \A r \in rest.del : r.val # e.cur.val
        /\ \A e, f \in rest.edit : e.cur = f.cur \/ e.to = f.to => e = f
    BY <1>1, <1>2 DEF Fits
  <1> QED
    BY <1>5, <1>6, <1>7, <1>8 DEF Fits

LEMMA FitsAfterEdit ==
    ASSUME NEW Z, Z \subseteq Value, NEW plan \in Plan, Fits(Z, plan), NEW e \in plan.edit,
           NEW rest, rest = [plan EXCEPT !.edit = @ \ {e}],
           NEW new, new = (Z \ {e.cur.val}) \union {e.to}
    PROVE  Fits(new, rest)
  <1>1. /\ rest.add = plan.add /\ rest.edit = plan.edit \ {e} /\ rest.del = plan.del
        /\ plan.add \subseteq Desired /\ plan.edit \subseteq MailEdit /\ plan.del \subseteq MailRecord
    BY DEF Plan
  <1>2. \A f \in plan.edit : f.cur \in MailRecord /\ f.to \in Desired
    BY <1>1 DEF MailEdit
  <1>3. \A f \in plan.edit : f.cur.val = e.cur.val => f = e
    BY <1>2, MailRecordIsItsValue DEF Fits
  <1>4. Touched(rest) = Touched(plan) \ {e.cur.val}
    BY <1>1, <1>3 DEF Touched, Fits
  <1>5. Wanted(rest) = Wanted(plan) \ {e.to}
    BY <1>1 DEF Wanted, Fits
  <1>6. e.to \in Desired /\ e.to \in Wanted(plan) /\ SameContent(e.to, e.to)
    BY <1>2 DEF Wanted, SameContent
  <1>7. Wanted(plan) \subseteq Desired /\ e.cur.val \in Touched(plan) /\ e.to \notin Z
    BY <1>1, <1>2, <1>6 DEF Wanted, Touched, Fits
  <1>8. ASSUME NEW d \in Wanted(rest), NEW v \in new PROVE ~SameContent(v, d)
    <2>1. CASE v = e.to
      BY <1>5, <1>6, <1>7, <2>1, DesiredDiffer
    <2>2. CASE v \in Z
      BY <1>5, <2>2 DEF Fits
    <2> QED
      BY <2>1, <2>2
  <1>9. ASSUME NEW d \in Desired \ Wanted(rest)
        PROVE  \E v \in new \ Touched(rest) : SameContent(v, d)
    <2>1. CASE d = e.to
      <3>1. e.to \notin Touched(rest)
        BY <1>4, <1>7 DEF Fits
      <3> QED
        BY <1>6, <2>1, <3>1
    <2>2. CASE d # e.to
      <3>1. PICK v \in Z \ Touched(plan) : SameContent(v, d)
        BY <1>5, <2>2 DEF Fits
      <3> QED
        BY <1>4, <1>7, <3>1
    <2> QED
      BY <2>1, <2>2
  <1>10. ASSUME NEW v \in MailOf(new) \ Touched(rest)
         PROVE  \E d \in Desired \ Wanted(rest) : SameContent(v, d)
    <2>1. CASE v = e.to
      BY <1>5, <1>6, <2>1
    <2>2. CASE v # e.to
      <3>1. v \in MailOf(Z) \ Touched(plan)
        BY <1>4, <2>2 DEF MailOf
      <3> QED
        BY <1>5, <3>1 DEF Fits
    <2> QED
      BY <2>1, <2>2
  <1>11. Touched(rest) \subseteq new
    BY <1>4 DEF Fits
  <1>12. /\ \A f \in rest.edit : f.to \notin rest.add /\ \A r \in rest.del : r.val # f.cur.val
         /\ \A f, g \in rest.edit : f.cur = g.cur \/ f.to = g.to => f = g
    BY <1>1 DEF Fits
  <1> QED
    BY <1>8, <1>9, <1>10, <1>11, <1>12 DEF Fits

LEMMA FitsAfterDelete ==
    ASSUME NEW Z, Z \subseteq Value, NEW plan \in Plan, Fits(Z, plan), NEW r \in plan.del,
           NEW rest, rest = [plan EXCEPT !.del = @ \ {r}]
    PROVE  Fits(Z \ {r.val}, rest)
  <1>1. /\ rest.add = plan.add /\ rest.edit = plan.edit /\ rest.del = plan.del \ {r}
        /\ plan.del \subseteq MailRecord
    BY DEF Plan
  <1>2. \A q \in plan.del : q.val = r.val => q = r
    BY <1>1, MailRecordIsItsValue
  <1>3. Touched(rest) = Touched(plan) \ {r.val} /\ Wanted(rest) = Wanted(plan)
    BY <1>1, <1>2 DEF Touched, Wanted, Fits
  <1>4. r.val \in Touched(plan)
    BY DEF Touched
  <1>5. \A d \in Desired \ Wanted(rest) :
            \E v \in (Z \ {r.val}) \ Touched(rest) : SameContent(v, d)
    BY <1>3, <1>4 DEF Fits
  <1>6. \A v \in MailOf(Z \ {r.val}) \ Touched(rest) :
            \E d \in Desired \ Wanted(rest) : SameContent(v, d)
    BY <1>3 DEF Fits, MailOf
  <1>7. /\ Touched(rest) \subseteq Z \ {r.val}
        /\ \A d \in Wanted(rest) : \A v \in Z \ {r.val} : ~SameContent(v, d)
    BY <1>3 DEF Fits
  <1>8. /\ \A e \in rest.edit : e.to \notin rest.add /\ \A q \in rest.del : q.val # e.cur.val
        /\ \A e, f \in rest.edit : e.cur = f.cur \/ e.to = f.to => e = f
    BY <1>1 DEF Fits
  <1> QED
    BY <1>5, <1>6, <1>7, <1>8 DEF Fits

LEMMA DeleteImproves ==
    ASSUME NEW Z, Z \subseteq Value, NEW plan \in Plan, Fits(Z, plan), NEW r \in plan.del,
           plan.add = {}, plan.edit = {}
    PROVE  Improves(Z, Z \ {r.val})
  <1>1. Wanted(plan) = {} /\ r.val \in Touched(plan)
    BY DEF Wanted, Touched
  <1>2. ASSUME NEW d \in Desired
        PROVE  \E v \in Z \ {r.val} : SameContent(v, d)
    BY <1>1 DEF Fits
  <1>3. ASSUME NEW s \in Managed
        PROVE  Holds(Z \ {r.val}, s)
    <2>1. PICK d \in Desired : SlotOf[d] = s
      BY DEF Managed
    <2>2. PICK v \in Z \ {r.val} : SameContent(v, d)
      BY <1>2
    <2> QED
      BY <2>1, <2>2, ZoneAssumption DEF Holds, SameContent
  <1> QED
    BY <1>2, <1>3 DEF Improves, ContainsValue, MailOf

(* When nothing is left to do, the zone is exact.                          *)
LEMMA NothingLeft ==
    ASSUME zone \subseteq Value, OneSpelling(zone), Fits(zone, NothingToDo)
    PROVE  Exact(Live)
  <1>1. Touched(NothingToDo) = {} /\ Wanted(NothingToDo) = {}
    BY DEF Touched, Wanted, NothingToDo
  <1>2. ASSUME NEW d \in Desired PROVE \E r \in Live : SameContent(r.val, d)
    <2>1. PICK v \in zone : SameContent(v, d)
      BY <1>1 DEF Fits
    <2>2. [id |-> v, val |-> v] \in Live /\ [id |-> v, val |-> v].val = v
      BY DEF Live
    <2> QED
      BY <2>1, <2>2
  <1>3. \A r \in ManagedPart(Live) : r.val \in MailOf(zone) /\ r = [id |-> r.val, val |-> r.val]
    BY DEF ManagedPart, Live, MailOf
  <1>4. \A r \in ManagedPart(Live) : \E d \in Desired : SameContent(r.val, d)
    BY <1>1, <1>3 DEF Fits
  <1>5. \A r, q \in ManagedPart(Live) : SameContent(r.val, q.val) => r = q
    BY <1>3 DEF OneSpelling
  <1> QED
    BY <1>2, <1>4, <1>5 DEF Exact

-----------------------------------------------------------------------------
(* One publish at a time, on a zone of one spelling with nothing switched  *)
(* off.                                                                    *)

SpeltInv ==
    /\ disabled = {}
    /\ OneSpelling(zone)
    /\ \A p \in Publisher : call[p] # NoCall => OneSpelling(call[p].values)

(* The zone once the call of p has been carried out.                       *)
After(p) == {v \in zone : SetOf[v] # call[p].set} \union call[p].values

(* A publish nobody has overtaken: between two calls its plan fits the     *)
(* zone; within one, what is left of the plan fits the zone the call will  *)
(* leave, and that zone is an improvement.  When it is done, the empty     *)
(* plan fits.                                                              *)
OnTrack(p) ==
    ~overtaken[p] =>
        /\ pc[p] = "apply" /\ call[p] = NoCall => Fits(zone, todo[p])
        /\ call[p] # NoCall =>
              /\ Fits(After(p), call[p].rest)
              /\ Improves(zone, After(p))
        /\ pc[p] = "done" => Fits(zone, NothingToDo)

TrackInv == SpeltInv /\ \A p \in Publisher : OnTrack(p)

LEMMA StoredIsServed ==
    ASSUME TypeInv, SpeltInv, NEW k
    PROVE  /\ Stored(k) = {v \in zone : SetOf[v] = k}
           /\ Stored(k) \subseteq Value
           /\ OneSpelling(Stored(k))
  BY DEF TypeInv, SpeltInv, Stored, OneSpelling, MailOf

LEMMA UpsertSpelt ==
    ASSUME NEW Z, OneSpelling(Z), NEW d
    PROVE  OneSpelling(Upsert(Z, d))
  <1>1. CASE ContainsValue(Z, d)
    BY <1>1 DEF Upsert
  <1>2. CASE ~ContainsValue(Z, d)
    <2>1. Upsert(Z, d) = Z \union {d} /\ \A v \in Z : ~SameContent(v, d)
      BY <1>2 DEF Upsert, ContainsValue
    <2> QED
      BY <2>1 DEF OneSpelling, MailOf, SameContent
  <1> QED
    BY <1>1, <1>2

LEMMA RemoveSpelt ==
    ASSUME NEW Z, OneSpelling(Z), NEW d
    PROVE  OneSpelling(RemoveValue(Z, d))
  BY DEF RemoveValue, OneSpelling, MailOf

(* A copy of one spelling put into a zone of one spelling.                 *)
LEMMA TakesSpelt ==
    ASSUME TypeInv, SpeltInv, NEW p \in Publisher, call[p] # NoCall
    PROVE  OneSpelling(After(p))
  <1>1. After(p) \subseteq Value /\ \A v \in call[p].values : SetOf[v] = call[p].set
    BY DEF TypeInv, CallOK, Call, After
  <1>2. \A v, w \in Value : SameContent(v, w) => SetOf[v] = SetOf[w]
    BY ZoneAssumption, RRsetAssumption DEF SameContent
  <1>3. OneSpelling(zone) /\ OneSpelling(call[p].values)
    BY DEF SpeltInv
  <1> SUFFICES ASSUME NEW v \in MailOf(After(p)), NEW w \in MailOf(After(p)), SameContent(v, w)
               PROVE  v = w
    BY DEF OneSpelling
  <1>4. v \in Value /\ w \in Value /\ SetOf[v] = SetOf[w]
    BY <1>1, <1>2 DEF MailOf
  <1>5. CASE v \in call[p].values
    <2>1. w \in call[p].values
      BY <1>1, <1>4, <1>5 DEF MailOf, After
    <2> QED
      BY <1>3, <1>5, <2>1 DEF OneSpelling, MailOf
  <1>6. CASE v \notin call[p].values
    <2>1. v \in zone /\ SetOf[v] # call[p].set
      BY <1>6 DEF MailOf, After
    <2>2. w \in zone
      BY <1>1, <1>4, <2>1 DEF MailOf, After
    <2> QED
      BY <1>3, <2>1, <2>2 DEF OneSpelling, MailOf
  <1> QED
    BY <1>5, <1>6

(* Only the values of managed slots count.                                 *)
LEMMA FitsTheMailPart ==
    ASSUME NEW Y, NEW Z, Y \subseteq Value, Z \subseteq Value, MailOf(Y) = MailOf(Z),
           NEW plan \in Plan, Fits(Z, plan)
    PROVE  Fits(Y, plan)
  <1>1. Touched(plan) \subseteq {v \in Value : SlotOf[v] \in Managed}
    BY MailRecordIsItsValue DEF Touched, Plan, MailEdit
  <1>2. Wanted(plan) \subseteq Desired
    BY DEF Wanted, Plan, MailEdit
  <1>3. \A v \in Value : \A d \in Desired : SameContent(v, d) => SlotOf[v] \in Managed
    BY ZoneAssumption DEF SameContent, Managed
  <1>4. \A v \in Value : SlotOf[v] \in Managed => (v \in Y <=> v \in Z)
    BY DEF MailOf
  <1>5. Touched(plan) \subseteq Y
    BY <1>1, <1>4 DEF Fits
  <1>6. \A d \in Wanted(plan) : \A v \in Y : ~SameContent(v, d)
    BY <1>2, <1>3, <1>4 DEF Fits
  <1>7. \A d \in Desired \ Wanted(plan) : \E v \in Y \ Touched(plan) : SameContent(v, d)
    BY <1>3, <1>4 DEF Fits
  <1>8. \A v \in MailOf(Y) \ Touched(plan) : \E d \in Desired \ Wanted(plan) : SameContent(v, d)
    BY DEF Fits
  <1> QED
    BY <1>5, <1>6, <1>7, <1>8 DEF Fits

LEMMA ImprovesTheMailPart ==
    ASSUME NEW Y, NEW Z, NEW Y1, NEW Z1, MailOf(Y) = MailOf(Y1), MailOf(Z) = MailOf(Z1),
           Y \subseteq Value, Z \subseteq Value, Y1 \subseteq Value, Z1 \subseteq Value,
           Improves(Y, Z)
    PROVE  Improves(Y1, Z1)
  <1>1. \A v \in Value : \A d \in Desired : SameContent(v, d) => SlotOf[v] \in Managed
    BY ZoneAssumption DEF SameContent, Managed
  <1>2. \A v \in Value : SlotOf[v] \in Managed => (v \in Y <=> v \in Y1) /\ (v \in Z <=> v \in Z1)
    BY DEF MailOf
  <1>3. \A s \in Managed : Holds(Y1, s) => Holds(Z1, s)
    BY <1>2 DEF Improves, Holds
  <1>4. \A d \in Desired : ContainsValue(Y1, d) => ContainsValue(Z1, d)
    BY <1>1, <1>2 DEF Improves, ContainsValue
  <1>5. MailOf(Z1) \subseteq Y1 \union Desired
    BY <1>2 DEF Improves, MailOf
  <1> QED
    BY <1>3, <1>4, <1>5 DEF Improves

(* A read leaves everything but the call as it was.                        *)
LEMMA ReadsKeepTrack ==
    ASSUME TypeInv, TrackInv, NEW p \in Publisher, pc[p] = "apply", call[p] = NoCall,
           NEW v \in Value, NEW values, NEW rest,
           Reads(p, v, values, rest), OneSpelling(values),
           NEW Z, ~overtaken[p] => Z = {u \in zone : SetOf[u] # SetOf[v]} \union values,
           ~overtaken[p] => Fits(Z, rest) /\ Improves(zone, Z)
    PROVE  TrackInv'
  <1>1. /\ call'[p] = [step |-> "write", set |-> SetOf[v], values |-> values, tries |-> 1,
                       rest |-> rest]
        /\ \A q \in Publisher \ {p} : call'[q] = call[q]
        /\ UNCHANGED <<zone, disabled, pc, todo, overtaken>>
    BY DEF Reads, TypeInv
  <1>2. call'[p] # NoCall /\ call'[p].values = values /\ call'[p].set = SetOf[v]
        /\ call'[p].rest = rest
    BY <1>1 DEF NoCall
  <1>3. SpeltInv'
    BY <1>1, <1>2 DEF TrackInv, SpeltInv
  <1>4. ASSUME ~overtaken[p] PROVE After(p)' = Z
    BY <1>1, <1>2, <1>4 DEF After
  <1>5. OnTrack(p)'
    BY <1>1, <1>2, <1>4 DEF OnTrack
  <1>6. ASSUME NEW q \in Publisher, q # p PROVE OnTrack(q)'
    <2>1. After(q)' = After(q)
      BY <1>1, <1>6 DEF After
    <2> QED
      BY <1>1, <1>6, <2>1 DEF TrackInv, OnTrack
  <1> QED
    BY <1>3, <1>5, <1>6 DEF TrackInv

LEMMA AddKeepsTrack ==
    ASSUME TypeInv, TrackInv, NEW p \in Publisher, ReadToAdd(p)
    PROVE  TrackInv'
  <1>1. PICK d \in todo[p].add :
            Reads(p, d, Upsert(Stored(SetOf[d]), d), [todo[p] EXCEPT !.add = @ \ {d}])
    BY DEF ReadToAdd
  <1> DEFINE rest == [todo[p] EXCEPT !.add = @ \ {d}]
             values == Upsert(Stored(SetOf[d]), d)
             Z == zone \union {d}
  <1>2. todo[p] \in Plan /\ d \in Desired /\ d \in Value /\ zone \subseteq Value
    BY ZoneAssumption DEF TypeInv, Plan
  <1>3. OneSpelling(values)
    BY StoredIsServed, UpsertSpelt DEF TrackInv
  <1>4. ASSUME ~overtaken[p]
        PROVE  /\ Z = {u \in zone : SetOf[u] # SetOf[d]} \union values
               /\ Fits(Z, rest)
               /\ Improves(zone, Z)
    <2>1. Fits(zone, todo[p])
      BY <1>4 DEF TrackInv, OnTrack, ReadToAdd
    <2>2. \A v \in zone : ~SameContent(v, d)
      BY <2>1 DEF Fits, Wanted
    <2>3. values = Stored(SetOf[d]) \union {d}
      BY <2>2, StoredIsServed, UpsertsNew DEF TrackInv
    <2>4. Z = {u \in zone : SetOf[u] # SetOf[d]} \union values
      BY <2>3, StoredIsServed DEF TrackInv
    <2>5. Improves(zone, Z)
      BY <1>2 DEF Improves, Holds, ContainsValue, MailOf
    <2> QED
      BY <1>2, <2>1, <2>4, <2>5, FitsAfterAdd
  <1> HIDE DEF rest, values, Z
  <1> QED
    BY <1>1, <1>2, <1>3, <1>4, ReadsKeepTrack DEF ReadToAdd, rest, values

LEMMA EditKeepsTrack ==
    ASSUME TypeInv, TrackInv, NEW p \in Publisher, ReadToEdit(p)
    PROVE  TrackInv'
  <1>1. PICK e \in todo[p].edit :
            Reads(p, e.to, Upsert(RemoveValue(Stored(SetOf[e.to]), e.cur.val), e.to),
                  [todo[p] EXCEPT !.edit = @ \ {e}])
    BY DEF ReadToEdit
  <1> DEFINE rest == [todo[p] EXCEPT !.edit = @ \ {e}]
             values == Upsert(RemoveValue(Stored(SetOf[e.to]), e.cur.val), e.to)
             Z == (zone \ {e.cur.val}) \union {e.to}
  <1>2. todo[p] \in Plan /\ e \in MailEdit /\ zone \subseteq Value
    BY DEF TypeInv, Plan
  <1>3. /\ e.to \in Value /\ e.to \in Desired /\ SlotOf[e.cur.val] = SlotOf[e.to]
        /\ e.cur.val \in Value /\ SlotOf[e.cur.val] \in Managed
    BY <1>2, MailRecordIsItsValue, ZoneAssumption DEF MailEdit
  <1>4. SetOf[e.cur.val] = SetOf[e.to]
    BY <1>3, RRsetAssumption
  <1>5. OneSpelling(values)
    BY StoredIsServed, UpsertSpelt, RemoveSpelt DEF TrackInv
  <1>6. ASSUME ~overtaken[p]
        PROVE  /\ Z = {u \in zone : SetOf[u] # SetOf[e.to]} \union values
               /\ Fits(Z, rest)
               /\ Improves(zone, Z)
    <2>1. Fits(zone, todo[p])
      BY <1>6 DEF TrackInv, OnTrack, ReadToEdit
    <2>2. e.cur.val \in zone /\ \A v \in zone : ~SameContent(v, e.to)
      BY <2>1 DEF Fits, Wanted, Touched
    <2>3. e.cur.val \in MailOf(Stored(SetOf[e.to]))
      BY <1>3, <1>4, <2>2, StoredIsServed DEF TrackInv, MailOf
    <2>4. RemoveValue(Stored(SetOf[e.to]), e.cur.val) = Stored(SetOf[e.to]) \ {e.cur.val}
      BY <2>3, StoredIsServed, RemovesOne DEF TrackInv
    <2>5. values = (Stored(SetOf[e.to]) \ {e.cur.val}) \union {e.to}
      BY <2>2, <2>4, StoredIsServed, UpsertsNew DEF TrackInv
    <2>6. Z = {u \in zone : SetOf[u] # SetOf[e.to]} \union values
      BY <1>4, <2>5, StoredIsServed DEF TrackInv
    <2>7. Improves(zone, Z)
      <3>1. \A s \in Managed : Holds(zone, s) => Holds(Z, s)
        BY <1>3 DEF Holds
      <3>2. e.cur.val \in Touched(todo[p])
        BY DEF Touched
      <3>3. \A d \in Desired : ContainsValue(zone, d) => ContainsValue(Z, d)
        BY <1>2, <2>1, <3>2, DesiredUntouched DEF ContainsValue
      <3> QED
        BY <1>3, <3>1, <3>3 DEF Improves, MailOf
    <2>8. Fits(Z, rest)
      BY <1>2, <2>1, FitsAfterEdit
    <2> QED
      BY <2>6, <2>7, <2>8
  <1> HIDE DEF rest, values, Z
  <1> QED
    BY <1>1, <1>3, <1>5, <1>6, ReadsKeepTrack DEF ReadToEdit, rest, values

LEMMA RemoveKeepsTrack ==
    ASSUME TypeInv, TrackInv, NEW p \in Publisher, ReadToRemove(p)
    PROVE  TrackInv'
  <1>1. PICK r \in todo[p].del :
            Reads(p, r.val, RemoveValue(Stored(SetOf[r.val]), r.val),
                  [todo[p] EXCEPT !.del = @ \ {r}])
    BY DEF ReadToRemove
  <1> DEFINE rest == [todo[p] EXCEPT !.del = @ \ {r}]
             values == RemoveValue(Stored(SetOf[r.val]), r.val)
             Z == zone \ {r.val}
  <1>2. todo[p] \in Plan /\ r \in MailRecord /\ zone \subseteq Value
    BY DEF TypeInv, Plan
  <1>3. r.val \in Value /\ SlotOf[r.val] \in Managed
    BY <1>2, MailRecordIsItsValue
  <1>4. OneSpelling(values)
    BY StoredIsServed, RemoveSpelt DEF TrackInv
  <1>5. ASSUME ~overtaken[p]
        PROVE  /\ Z = {u \in zone : SetOf[u] # SetOf[r.val]} \union values
               /\ Fits(Z, rest)
               /\ Improves(zone, Z)
    <2>1. Fits(zone, todo[p])
      BY <1>5 DEF TrackInv, OnTrack, ReadToRemove
    <2>2. r.val \in MailOf(Stored(SetOf[r.val]))
      BY <1>3, <2>1, StoredIsServed DEF TrackInv, MailOf, Fits, Touched
    <2>3. values = Stored(SetOf[r.val]) \ {r.val}
      BY <2>2, StoredIsServed, RemovesOne DEF TrackInv
    <2>4. Z = {u \in zone : SetOf[u] # SetOf[r.val]} \union values
      BY <2>3, StoredIsServed DEF TrackInv
    <2>5. Improves(zone, Z)
      BY <1>2, <2>1, DeleteImproves DEF ReadToRemove
    <2>6. Fits(Z, rest)
      BY <1>2, <2>1, FitsAfterDelete
    <2> QED
      BY <2>4, <2>5, <2>6
  <1> HIDE DEF rest, values, Z
  <1> QED
    BY <1>1, <1>3, <1>4, <1>5, ReadsKeepTrack DEF ReadToRemove, rest, values

LEMMA ListKeepsTrack ==
    ASSUME TypeInv, TrackInv, NEW p \in Publisher, List(p)
    PROVE  TrackInv'
  <1>1. PICK plan \in Plans(Live) : todo' = [todo EXCEPT ![p] = plan]
    BY DEF List
  <1>2. Fits(zone, plan)
    BY <1>1, FitsWhenListed DEF TypeInv
  <1>3. call[p] = NoCall
    BY DEF List, TypeInv, CallOK
  <1>4. SpeltInv'
    BY DEF List, TrackInv, SpeltInv
  <1>5. OnTrack(p)'
    BY <1>1, <1>2, <1>3 DEF List, OnTrack, TypeInv
  <1>6. ASSUME NEW q \in Publisher, q # p PROVE OnTrack(q)'
    <2>1. After(q)' = After(q)
      BY DEF List, After
    <2> QED
      BY <1>6, <2>1 DEF List, TrackInv, OnTrack, TypeInv
  <1> QED
    BY <1>4, <1>5, <1>6 DEF TrackInv

(* A step of p with a call under way: the provider takes the copy or not,  *)
(* and the call ends, is given up, or goes on with the same copy.          *)
LEMMA CallStepKeepsTrack ==
    ASSUME TypeInv, TrackInv, NEW p \in Publisher, call[p] # NoCall, Takes(p) \/ NoEffect,
           pc' \in [Publisher -> {"idle", "apply", "done", "failed"}],
           call' \in [Publisher -> Call \union {NoCall}],
           \A q \in Publisher \ {p} : call'[q] = call[q] /\ pc'[q] = pc[q] /\ todo'[q] = todo[q],
           \/ pc'[p] \in {"idle", "failed"} /\ call'[p] = NoCall
           \/ pc'[p] = pc[p] /\ call'[p] # NoCall /\ call'[p].values = call[p].values
              /\ call'[p].set = call[p].set /\ call'[p].rest = call[p].rest
           \/ Takes(p) /\ pc'[p] = pc[p] /\ call'[p] = NoCall /\ todo'[p] = call[p].rest
    PROVE  TrackInv'
  <1>1. pc[p] = "apply" /\ \A v \in call[p].values : SetOf[v] = call[p].set
    BY DEF TypeInv, CallOK
  <1>2. disabled' = {} /\ OneSpelling(zone')
    BY TakesSpelt DEF Takes, NoEffect, TrackInv, SpeltInv, After
  <1>3. SpeltInv'
    BY <1>2 DEF TrackInv, SpeltInv
  <1>4. ASSUME NEW q \in Publisher, q # p PROVE OnTrack(q)'
    <2>1. CASE Takes(p)
      BY <1>4, <2>1 DEF Takes, OnTrack
    <2>2. CASE NoEffect
      <3>1. After(q)' = After(q)
        BY <1>4, <2>2 DEF NoEffect, After
      <3> QED
        BY <1>4, <2>2, <3>1 DEF NoEffect, TrackInv, OnTrack
    <2> QED
      BY <2>1, <2>2
  <1>5. ASSUME ~overtaken'[p] PROVE ~overtaken[p]
    BY <1>5 DEF Takes, NoEffect, TypeInv
  <1>6. ASSUME ~overtaken[p]
        PROVE  /\ Fits(After(p), call[p].rest)
               /\ Improves(zone, After(p))
    BY <1>6 DEF TrackInv, OnTrack
  <1>7. ASSUME Takes(p) PROVE zone' = After(p)
    BY <1>7 DEF Takes, After
  <1>8. CASE pc'[p] \in {"idle", "failed"} /\ call'[p] = NoCall
    BY <1>3, <1>4, <1>8 DEF TrackInv, OnTrack
  <1>9. CASE pc'[p] = pc[p] /\ call'[p] # NoCall /\ call'[p].values = call[p].values
             /\ call'[p].set = call[p].set /\ call'[p].rest = call[p].rest
    <2>1. After(p)' = After(p)
      BY <1>1, <1>7, <1>9 DEF After, NoEffect
    <2>2. zone' = zone \/ zone' = After(p)
      BY <1>7 DEF NoEffect
    <2>3. OnTrack(p)'
      BY <1>1, <1>5, <1>6, <1>9, <2>1, <2>2, StayingImproves DEF OnTrack
    <2> QED
      BY <1>3, <1>4, <2>3 DEF TrackInv
  <1>10. CASE Takes(p) /\ pc'[p] = pc[p] /\ call'[p] = NoCall /\ todo'[p] = call[p].rest
    <2>1. OnTrack(p)'
      BY <1>1, <1>5, <1>6, <1>7, <1>10 DEF OnTrack
    <2> QED
      BY <1>3, <1>4, <2>1 DEF TrackInv
  <1> QED
    BY <1>8, <1>9, <1>10

LEMMA CallStepsKeepTrack ==
    ASSUME TypeInv, TypeInv', TrackInv, NEW p \in Publisher, call[p] # NoCall,
           WriteSet(p) \/ CreateInstead(p) \/ CreateRefused(p) \/ BadAnswer(p) \/ Crash(p)
    PROVE  TrackInv'
  <1>1. call[p] \in Call
    BY DEF TypeInv
  <1>2. /\ pc' \in [Publisher -> {"idle", "apply", "done", "failed"}]
        /\ call' \in [Publisher -> Call \union {NoCall}]
    BY DEF TypeInv
  <1>3. \A q \in Publisher \ {p} : call'[q] = call[q] /\ pc'[q] = pc[q] /\ todo'[q] = todo[q]
    BY DEF TypeInv, WriteSet, CreateInstead, CreateRefused, BadAnswer, Crash, Abort
  <1>4. CASE WriteSet(p)
    <2>1. Takes(p) /\ pc'[p] = pc[p] /\ call'[p] = NoCall /\ todo'[p] = call[p].rest
      BY <1>4 DEF WriteSet, TypeInv
    <2> QED
      BY <1>2, <1>3, <2>1, CallStepKeepsTrack
  <1>5. CASE CreateInstead(p)
    <2>0. call'[p] = [call[p] EXCEPT !.step = "create", !.tries = 1]
      BY <1>1, <1>5 DEF CreateInstead, TypeInv
    <2>1. /\ call'[p].values = call[p].values /\ call'[p].step = "create"
          /\ call'[p].set = call[p].set /\ call'[p].rest = call[p].rest
      BY <1>1, <2>0 DEF Call
    <2>2. call'[p] # NoCall
      BY <2>1 DEF NoCall
    <2>3. pc'[p] = pc[p] /\ NoEffect
      BY <1>5 DEF CreateInstead
    <2> QED
      BY <1>2, <1>3, <2>1, <2>2, <2>3, CallStepKeepsTrack
  <1>6. CASE Abort(p)
    <2>1. pc'[p] = "failed" /\ call'[p] = NoCall
      BY <1>6 DEF Abort, TypeInv
    <2>2. Takes(p) \/ NoEffect
      BY <1>6 DEF WriteSet, CreateInstead, CreateRefused, BadAnswer, Crash
    <2> QED
      BY <1>2, <1>3, <2>1, <2>2, CallStepKeepsTrack
  <1>7. CASE BadAnswer(p) /\ call' = [call EXCEPT ![p].tries = @ + 1] /\ UNCHANGED <<pc, todo>>
    <2>0. call'[p] = [call[p] EXCEPT !.tries = @ + 1]
      BY <1>1, <1>7 DEF TypeInv
    <2>1. /\ call'[p].values = call[p].values /\ call'[p].step = call[p].step
          /\ call'[p].set = call[p].set /\ call'[p].rest = call[p].rest
      BY <1>1, <2>0 DEF Call
    <2>2. call'[p] # NoCall /\ pc'[p] = pc[p] /\ (Takes(p) \/ NoEffect)
      BY <1>1, <1>7, <2>1 DEF BadAnswer, NoCall, Call
    <2> QED
      BY <1>2, <1>3, <2>1, <2>2, CallStepKeepsTrack
  <1>8. CASE Crash(p)
    <2>1. pc'[p] = "idle" /\ call'[p] = NoCall /\ NoEffect
      BY <1>8 DEF Crash, TypeInv
    <2> QED
      BY <1>2, <1>3, <2>1, CallStepKeepsTrack
  <1> QED
    BY <1>4, <1>5, <1>6, <1>7, <1>8 DEF CreateRefused, BadAnswer

LEMMA IdleStepsKeepTrack ==
    ASSUME TypeInv, TrackInv, NEW p \in Publisher, call[p] = NoCall,
           ReadFails(p) \/ Finish(p) \/ Crash(p)
    PROVE  TrackInv'
  <1>1. /\ UNCHANGED <<zone, disabled, overtaken>>
        /\ call' = call
    BY DEF ReadFails, Finish, Crash, Abort, NoEffect, TypeInv
  <1>2. \A q \in Publisher \ {p} : pc'[q] = pc[q] /\ todo'[q] = todo[q]
    BY DEF ReadFails, Finish, Crash, Abort, TypeInv
  <1>3. \A q \in Publisher : After(q)' = After(q)
    BY <1>1 DEF After
  <1>4. SpeltInv'
    BY <1>1 DEF TrackInv, SpeltInv
  <1>5. ASSUME NEW q \in Publisher, q # p PROVE OnTrack(q)'
    BY <1>1, <1>2, <1>3, <1>5 DEF TrackInv, OnTrack
  <1>6. pc'[p] \in {"failed", "idle"} \/ (Finish(p) /\ pc'[p] = "done")
    BY DEF ReadFails, Finish, Crash, Abort, TypeInv
  <1>7. OnTrack(p)'
    BY <1>1, <1>3, <1>6 DEF TrackInv, OnTrack, Finish
  <1> QED
    BY <1>4, <1>5, <1>7 DEF TrackInv

LEMMA OthersKeepTrack == TypeInv /\ TypeInv' /\ TrackInv /\ OthersWrite => TrackInv'
  <1> SUFFICES ASSUME TypeInv, TypeInv', TrackInv, OthersWrite PROVE TrackInv'
    OBVIOUS
  <1>1. PICK v \in Value :
          /\ SlotOf[v] \notin Managed
          /\ zone' = IF v \in zone THEN zone \ {v} ELSE zone \union {v}
    BY DEF OthersWrite
  <1>2. MailOf(zone') = MailOf(zone) /\ zone \subseteq Value /\ zone' \subseteq Value
    BY <1>1 DEF MailOf, TypeInv
  <1>3. SpeltInv'
    BY <1>2 DEF OthersWrite, TrackInv, SpeltInv, OneSpelling
  <1>4. ASSUME NEW q \in Publisher PROVE OnTrack(q)'
    <2>1. UNCHANGED <<pc, todo, call, overtaken>>
      BY DEF OthersWrite
    <2>2. CASE call[q] # NoCall
      <3>1. call[q].rest \in Plan /\ After(q) \subseteq Value /\ After(q)' \subseteq Value
        BY <1>2, <2>1, <2>2 DEF TypeInv, Call, After
      <3>2. MailOf(After(q)') = MailOf(After(q))
        BY <1>1, <2>1 DEF MailOf, After
      <3>3. pc[q] = "apply"
        BY <2>2 DEF TypeInv, CallOK
      <3>4. CASE ~overtaken[q]
        <4>1. Fits(After(q), call[q].rest)
          BY <2>2, <3>4 DEF TrackInv, OnTrack
        <4>2. Fits(After(q)', call'[q].rest)
          BY <2>1, <3>1, <3>2, <4>1, FitsTheMailPart
        <4>3. Improves(zone, After(q))
          BY <2>2, <3>4 DEF TrackInv, OnTrack
        <4>4. Improves(zone', After(q)')
          BY <1>2, <3>1, <3>2, <4>3, ImprovesTheMailPart
        <4> QED
          BY <2>1, <2>2, <3>3, <4>2, <4>4 DEF OnTrack
      <3> QED
        BY <2>1, <3>4 DEF OnTrack
    <2>3. CASE call[q] = NoCall
      <3>1. todo[q] \in Plan
        BY DEF TypeInv
      <3> QED
        BY <1>2, <2>1, <2>3, <3>1, NothingIsAPlan, FitsTheMailPart DEF TrackInv, OnTrack
    <2> QED
      BY <2>2, <2>3
  <1> QED
    BY <1>3, <1>4 DEF TrackInv

LEMMA TrackStep == TypeInv /\ TypeInv' /\ TrackInv /\ [Next]_vars => TrackInv'
  <1> SUFFICES ASSUME TypeInv, TypeInv', TrackInv, [Next]_vars PROVE TrackInv'
    OBVIOUS
  <1>1. CASE UNCHANGED vars
    <2>1. \A q \in Publisher : After(q)' = After(q)
      BY <1>1 DEF vars, After
    <2> QED
      BY <1>1, <2>1 DEF vars, TrackInv, SpeltInv, OnTrack
  <1>2. ASSUME NEW p \in Publisher, Publish(p) \/ Trouble(p) PROVE TrackInv'
    <2>1. CASE List(p) \/ ReadToAdd(p) \/ ReadToEdit(p) \/ ReadToRemove(p)
      BY <2>1, ListKeepsTrack, AddKeepsTrack, EditKeepsTrack, RemoveKeepsTrack
    <2>2. CASE call[p] # NoCall
      BY <1>2, <2>1, <2>2, CallStepsKeepTrack DEF Publish, Trouble, Finish, ReadFails
    <2>3. CASE call[p] = NoCall
      BY <1>2, <2>1, <2>3, IdleStepsKeepTrack
         DEF Publish, Trouble, WriteSet, CreateInstead, CreateRefused, BadAnswer
    <2> QED
      BY <2>2, <2>3
  <1> QED
    BY <1>1, <1>2, OthersKeepTrack DEF Next

LEMMA TrackInvHolds ==
    ASSUME ~TwoSpellings, Disabled = {}
    PROVE  Spec => []TrackInv
  <1>1. Init => TrackInv
    BY DEF Init, TrackInv, SpeltInv, OneSpelling, MailOf, OnTrack
  <1> QED
    BY <1>1, TrackStep, TypeInvHolds, PTL DEF Spec

(* Where no zone spells one content in two ways and nothing is switched    *)
(* off: a publish nobody else's publish overlaps ends in success only with *)
(* every managed slot exactly as desired, through whatever repeated writes *)
(* and foreign changes.  Both hypotheses are needed: without either the    *)
(* runs rrset_two_spellings and rrset_disabled find a counterexample.      *)
THEOREM SuccessIsExact ==
    ASSUME ~TwoSpellings, Disabled = {}
    PROVE  Spec => []ExactOnSuccess
  <1>1. TypeInv /\ TrackInv => ExactOnSuccess
    BY NothingLeft DEF TypeInv, TrackInv, SpeltInv, OnTrack, ExactOnSuccess, Undisturbed
  <1> QED
    BY <1>1, TypeInvHolds, TrackInvHolds, PTL

(* Under the same hypotheses no write of such a publish, repeated or not,  *)
(* empties a managed slot that holds a record.                             *)
THEOREM SlotsStayServed ==
    ASSUME ~TwoSpellings, Disabled = {}
    PROVE  Spec => SlotsNeverEmptied
  <1> DEFINE Kept == \A p \in Publisher : Writing(p) /\ Undisturbed(p) =>
                        \A s \in Managed : InSlot(Live, s) # {} => InSlot(Live', s) # {}
  <1>1. TrackInv /\ [Next]_vars => [Kept]_vars
    <2> SUFFICES ASSUME TrackInv, NEW p \in Publisher, Writing(p), Undisturbed(p),
                        NEW s \in Managed, InSlot(Live, s) # {}
                 PROVE  InSlot(Live', s) # {}
      OBVIOUS
    <2>1. Holds(zone, s)
      BY DEF InSlot, Live, Holds
    <2>2. call[p] # NoCall /\ (Takes(p) \/ NoEffect)
      BY DEF Writing, WriteSet, BadAnswer
    <2>3. Holds(After(p), s)
      BY <2>1, <2>2 DEF TrackInv, OnTrack, Undisturbed, Improves
    <2>4. Holds(zone', s)
      BY <2>1, <2>2, <2>3 DEF Takes, NoEffect, After
    <2>5. PICK v \in zone' : SlotOf[v] = s
      BY <2>4 DEF Holds
    <2>6. [id |-> v, val |-> v] \in InSlot(Live', s)
      BY <2>5 DEF InSlot, Live
    <2> QED
      BY <2>6
  <1> QED
    BY <1>1, TrackInvHolds, PTL DEF Spec, SlotsNeverEmptied

-----------------------------------------------------------------------------
(* What is done to the zone is MailZone.                                   *)
LEMMA WriteOnTrack ==
    ASSUME TrackInv, NEW p \in Publisher, Writing(p), Undisturbed(p)
    PROVE  Improves(zone, zone')
  <1>1. call[p] # NoCall /\ (Takes(p) \/ NoEffect)
    BY DEF Writing, WriteSet, BadAnswer
  <1>2. Improves(zone, After(p))
    BY <1>1 DEF TrackInv, OnTrack, Undisturbed
  <1>3. zone' = After(p) \/ zone' = zone
    BY <1>1 DEF Takes, NoEffect, After
  <1> QED
    BY <1>2, <1>3, StayingImproves

LEMMA RecordsAreValues ==
    ASSUME NEW Z, NEW live, live = {[id |-> v, val |-> v] : v \in Z}
    PROVE  /\ \A r \in ManagedPart(live) :
                 r.val \in MailOf(Z) /\ r = [id |-> r.val, val |-> r.val]
           /\ \A v \in MailOf(Z) :
                 [id |-> v, val |-> v] \in ManagedPart(live) /\ [id |-> v, val |-> v].val = v
  BY DEF ManagedPart, MailOf

LEMMA OccupiedMeansHeld ==
    ASSUME NEW Z, Z \subseteq Value, NEW s \in Managed,
           NEW live, live = {[id |-> v, val |-> v] : v \in Z}
    PROVE  Holds(Z, s) <=>
              \/ \E d \in {e \in Desired : ContainsValue(Z, e)} : SlotOf[d] = s
              \/ \E r \in {q \in ManagedPart(live) : ~ContainsValue(Desired, q.val)} :
                    SlotOf[r.val] = s
  <1>1. ASSUME NEW d \in Desired, ContainsValue(Z, d), SlotOf[d] = s PROVE Holds(Z, s)
    BY <1>1, ZoneAssumption DEF ContainsValue, SameContent, Holds
  <1>2. ASSUME NEW r \in ManagedPart(live), SlotOf[r.val] = s PROVE Holds(Z, s)
    BY <1>2, RecordsAreValues DEF MailOf, Holds
  <1>3. ASSUME NEW v \in Z, SlotOf[v] = s, ContainsValue(Desired, v)
        PROVE  \E d \in Desired : ContainsValue(Z, d) /\ SlotOf[d] = s
    BY <1>3, ZoneAssumption DEF ContainsValue, SameContent
  <1>4. ASSUME NEW v \in Z, SlotOf[v] = s, ~ContainsValue(Desired, v)
        PROVE  \E r \in ManagedPart(live) : ~ContainsValue(Desired, r.val) /\ SlotOf[r.val] = s
    <2>1. [id |-> v, val |-> v] \in ManagedPart(live) /\ [id |-> v, val |-> v].val = v
      BY <1>4, RecordsAreValues DEF MailOf
    <2> QED
      BY <1>4, <2>1
  <1> QED
    BY <1>1, <1>2, <1>3, <1>4 DEF Holds

LEMMA ImprovesIsImprove ==
    ASSUME zone \subseteq Value, zone' \subseteq Value, Improves(zone, zone')
    PROVE  Abstract!Improve
  <1>1. Right \subseteq Right' /\ Right' \subseteq Desired
    BY DEF Improves, Right
  <1>2. ASSUME NEW r \in Wrong' PROVE r \in Wrong
    <2>1. r \in ManagedPart(Live') /\ ~ContainsValue(Desired, r.val)
      BY <1>2 DEF Wrong
    <2>2. r.val \in MailOf(zone') /\ r = [id |-> r.val, val |-> r.val]
      BY <2>1, RecordsAreValues DEF Live
    <2>3. r.val \notin Desired
      BY <2>1 DEF ContainsValue, SameContent
    <2>4. r.val \in MailOf(zone)
      BY <2>2, <2>3 DEF Improves, MailOf
    <2>5. r \in ManagedPart(Live)
      BY <2>2, <2>4, RecordsAreValues DEF Live
    <2> QED
      BY <2>1, <2>5 DEF Wrong
  <1>3. \A s \in Managed : Abstract!Occupied(s) <=> Holds(zone, s)
    BY OccupiedMeansHeld DEF Abstract!Occupied, Right, Wrong, Live
  <1>4. \A s \in Managed : Abstract!Occupied(s)' <=> Holds(zone', s)
    BY OccupiedMeansHeld DEF Abstract!Occupied, Right, Wrong, Live
  <1>5. \A s \in Managed : Abstract!Occupied(s) => Abstract!Occupied(s)'
    BY <1>3, <1>4 DEF Improves
  <1> QED
    BY <1>1, <1>2, <1>5 DEF Abstract!Improve, Abstract!Managed, Managed

(* Under the hypotheses of SuccessIsExact every write of a publish nobody  *)
(* else's publish overlaps is a step of MailZone: it takes no desired      *)
(* value away, brings no undesired one back and empties no slot, also when *)
(* it is repeated or its answer is lost.                                   *)
THEOREM WritesOnlyImprove ==
    ASSUME ~TwoSpellings, Disabled = {}
    PROVE  Spec => WritesImprove
  <1>1. TypeInv /\ TypeInv' /\ TrackInv /\ [Next]_vars
          => [\A p \in Publisher : Writing(p) /\ Undisturbed(p) => Abstract!Improve]_vars
    BY WriteOnTrack, ImprovesIsImprove DEF TypeInv
  <1> QED
    BY <1>1, TypeInvHolds, TrackInvHolds, PTL DEF Spec, WritesImprove

-----------------------------------------------------------------------------
(* With a single process nobody is overtaken.                              *)
Alone == \A p, q \in Publisher : p = q
NeverOvertaken == \A p \in Publisher : Undisturbed(p)

LEMMA NeverOvertakenStep ==
    ASSUME Alone, TypeInv, NeverOvertaken, [Next]_vars
    PROVE  NeverOvertaken'
  <1>1. ASSUME NEW p \in Publisher, Takes(p) PROVE NeverOvertaken'
    BY <1>1 DEF Takes, Alone, NeverOvertaken, Undisturbed
  <1>2. ASSUME NEW p \in Publisher, List(p) PROVE NeverOvertaken'
    BY <1>2 DEF List, TypeInv, NeverOvertaken, Undisturbed
  <1>3. CASE UNCHANGED overtaken
    BY <1>3 DEF NeverOvertaken, Undisturbed
  <1> QED
    BY <1>1, <1>2, <1>3 DEF Next, vars, Publish, Trouble, ReadToAdd, ReadToEdit, ReadToRemove,
       Reads, WriteSet, CreateInstead, CreateRefused, Finish, BadAnswer, ReadFails, Crash,
       NoEffect, OthersWrite

LEMMA OthersAreOthers ==
    ASSUME TypeInv, TypeInv', OthersWrite
    PROVE  Abstract!Others
  <1>1. MailOf(zone') = MailOf(zone)
    BY DEF OthersWrite, MailOf
  <1>2. ManagedPart(Live') = ManagedPart(Live)
    BY <1>1, RecordsAreValues DEF Live
  <1>3. Wrong' = Wrong
    BY <1>2 DEF Wrong
  <1>4. \A v \in Value : \A d \in Desired : SameContent(v, d) => SlotOf[v] \in Managed
    BY ZoneAssumption DEF SameContent, Managed
  <1>5. ASSUME NEW d \in Desired PROVE ContainsValue(zone', d) <=> ContainsValue(zone, d)
    BY <1>1, <1>4 DEF ContainsValue, MailOf, TypeInv
  <1>6. Right' = Right
    BY <1>5 DEF Right
  <1> QED
    BY <1>3, <1>6 DEF Abstract!Others

LEMMA StepRefines ==
    ASSUME TypeInv, TypeInv', TrackInv, NeverOvertaken, [Next]_vars
    PROVE  [Abstract!Improve \/ Abstract!Others]_(Abstract!zoneVars)
  <1>1. ASSUME UNCHANGED zone PROVE UNCHANGED Abstract!zoneVars
    BY <1>1 DEF Abstract!zoneVars, Right, Wrong, Live
  <1>2. ASSUME NEW p \in Publisher, Writing(p) PROVE Abstract!Improve
    BY <1>2, WriteOnTrack, ImprovesIsImprove DEF TypeInv, NeverOvertaken
  <1>3. ASSUME NEW p \in Publisher, Publish(p) \/ Trouble(p), ~Writing(p) PROVE UNCHANGED zone
    BY <1>3 DEF Publish, Trouble, Writing, List, ReadToAdd, ReadToEdit, ReadToRemove, Reads,
       CreateInstead, CreateRefused, Finish, ReadFails, Crash, NoEffect
  <1>4. CASE OthersWrite
    BY <1>4, OthersAreOthers
  <1>5. CASE UNCHANGED vars
    BY <1>1, <1>5 DEF vars
  <1> QED
    BY <1>1, <1>2, <1>3, <1>4, <1>5 DEF Next

(* A single publishing process, whatever fails, is repeated or is run      *)
(* again, only ever moves the mail records towards the desired ones.       *)
THEOREM PublishImplementsMailZone ==
    ASSUME Alone, ~TwoSpellings, Disabled = {}
    PROVE  Spec => ImplementsMailZone
  <1>1. Init => NeverOvertaken /\ Abstract!Init
    BY DEF Init, NeverOvertaken, Undisturbed, Abstract!Init, Right
  <1>2. TypeInv /\ NeverOvertaken /\ [Next]_vars => NeverOvertaken'
    BY NeverOvertakenStep
  <1>3. TypeInv /\ TypeInv' /\ TrackInv /\ NeverOvertaken /\ [Next]_vars
            => [Abstract!Improve \/ Abstract!Others]_(Abstract!zoneVars)
    BY StepRefines
  <1> QED
    BY <1>1, <1>2, <1>3, TypeInvHolds, TrackInvHolds, PTL
       DEF Spec, ImplementsMailZone, Abstract!Spec

=============================================================================
