----------------------------- MODULE PublishById -----------------------------
(***************************************************************************)
(* `mailadmin dns publish` against a provider that gives each record an id *)
(* (Njalla, Cloudflare, INWX): dnsPublish and Reconcile.                   *)
(*                                                                         *)
(* Several processes may publish the same domain at once, the provider's   *)
(* calls fail (without effect, or after taking effect, as a timeout does), *)
(* a process dies between two calls, and somebody else (an ACME client,    *)
(* the registrar's web panel) edits records of slots the mail set does not *)
(* manage.                                                                 *)
(***************************************************************************)
EXTENDS ZonePlan

CONSTANTS
    Publisher,    \* the mailadmin processes that publish the domain
    FirstId,      \* bound: the zone starts with ids below FirstId
    MaxFaults,    \* bound: failed calls and crashes in a behaviour
    MaxForeign,   \* bound: writes by others in a behaviour
    MaxId         \* bound: ids the provider hands out before it refuses adds

ASSUME BoundsAssumption ==
    /\ FirstId \in Nat
    /\ MaxFaults \in Nat
    /\ MaxForeign \in Nat
    /\ MaxId \in Nat

VARIABLES
    zone,         \* the provider's records, a set of [id, val]
    nextId,       \* the next id the provider will hand out
    pc,           \* pc[p]: where process p is
    todo,         \* todo[p]: the changes of p's plan not applied yet
    applied,      \* applied[p]: the changes p's run counts as applied
    audit,        \* audit[p]: the audit_log rows p's current run wrote
    changed,      \* history: the changes p's run really made to the zone
    overtaken,    \* history: another process wrote since p listed the zone
    faults,       \* calls failed and processes crashed so far
    writes        \* records written by others so far

vars == <<zone, nextId, pc, todo, applied, audit, changed, overtaken,
          faults, writes>>

Record == [id : Nat, val : Value]
Change == [op : {"add", "edit", "delete"}, id : Nat, val : Value]
MailRecord == {r \in Record : SlotOf[r.val] \in Managed}
Plan == [add  : SUBSET Desired,
         edit : SUBSET [cur : MailRecord, to : Desired],
         del  : SUBSET MailRecord]

TypeOK ==
    /\ zone \subseteq Record
    /\ nextId \in Nat
    /\ pc \in [Publisher -> {"idle", "apply", "done", "failed"}]
    /\ todo \in [Publisher -> Plan]
    /\ applied \in [Publisher -> SUBSET Change]
    /\ audit \in [Publisher -> SUBSET SUBSET Change]
    /\ changed \in [Publisher -> SUBSET Change]
    /\ overtaken \in [Publisher -> BOOLEAN]
    /\ faults \in 0 .. MaxFaults
    /\ writes \in 0 .. MaxForeign

(* Any zone of records with distinct ids, and nobody publishing.           *)
Init ==
    /\ \E ids \in SUBSET (0 .. FirstId - 1) : \E content \in [ids -> Value] :
          zone = {[id |-> i, val |-> content[i]] : i \in ids}
    /\ nextId = FirstId
    /\ pc = [p \in Publisher |-> "idle"]
    /\ todo = [p \in Publisher |-> NothingToDo]
    /\ applied = [p \in Publisher |-> {}]
    /\ audit = [p \in Publisher |-> {}]
    /\ changed = [p \in Publisher |-> {}]
    /\ overtaken = [p \in Publisher |-> FALSE]
    /\ faults = 0
    /\ writes = 0

-----------------------------------------------------------------------------
(* Reconcile lists the zone once and plans on that copy.  A process that   *)
(* is done, has failed or died may be started again by the operator.       *)

List(p) ==
    /\ pc[p] # "apply"
    /\ \E plan \in Plans(zone) : todo' = [todo EXCEPT ![p] = plan]
    /\ pc' = [pc EXCEPT ![p] = "apply"]
    /\ applied' = [applied EXCEPT ![p] = {}]
    /\ audit' = [audit EXCEPT ![p] = {}]
    /\ changed' = [changed EXCEPT ![p] = {}]
    /\ overtaken' = [overtaken EXCEPT ![p] = FALSE]
    /\ UNCHANGED <<zone, nextId, faults, writes>>

ListFails(p) ==
    /\ pc[p] # "apply"
    /\ faults < MaxFaults
    /\ faults' = faults + 1
    /\ pc' = [pc EXCEPT ![p] = "failed"]
    /\ applied' = [applied EXCEPT ![p] = {}]
    /\ audit' = [audit EXCEPT ![p] = {}]
    /\ changed' = [changed EXCEPT ![p] = {}]
    /\ UNCHANGED <<zone, nextId, todo, overtaken, writes>>

(* A write that reached the provider: the zone becomes `after'.            *)
Takes(p, change, after) ==
    /\ zone' = after
    /\ nextId' = IF change.op = "add" THEN nextId + 1 ELSE nextId
    /\ changed' = [changed EXCEPT ![p] = @ \union {change}]
    /\ overtaken' = [q \in Publisher |-> overtaken[q] \/ q # p]

(* The first error ends the run; Reconcile's remaining changes are dropped.*)
Abort(p) ==
    /\ pc' = [pc EXCEPT ![p] = "failed"]
    /\ todo' = [todo EXCEPT ![p] = NothingToDo]
    /\ UNCHANGED <<applied, writes>>

(* A bug Call might have: an error is logged and the loop goes on.         *)
CallIgnoringErrors(p, change, after, rest) ==
    /\ todo' = [todo EXCEPT ![p] = rest]
    /\ applied' = [applied EXCEPT ![p] = @ \union {change}]
    /\ \/ /\ Takes(p, change, after)
          /\ UNCHANGED faults
       \/ /\ faults < MaxFaults
          /\ faults' = faults + 1
          /\ UNCHANGED <<zone, nextId, changed, overtaken>>
    /\ UNCHANGED <<pc, audit, writes>>

(* One API call of Reconcile's apply loop: it succeeds, it fails without   *)
(* effect, or it takes effect and its answer is lost.                      *)
Call(p, change, after, rest) ==
    \/ /\ Takes(p, change, after)
       /\ todo' = [todo EXCEPT ![p] = rest]
       /\ applied' = [applied EXCEPT ![p] = @ \union {change}]
       /\ UNCHANGED <<pc, audit, faults, writes>>
    \/ /\ faults < MaxFaults
       /\ faults' = faults + 1
       /\ Abort(p)
       /\ UNCHANGED <<zone, nextId, changed, overtaken, audit>>
    \/ /\ faults < MaxFaults
       /\ faults' = faults + 1
       /\ Takes(p, change, after)
       /\ Abort(p)
       /\ UNCHANGED audit

(* The provider refuses the call: it no longer has the id, or the zone may *)
(* not hold more records.                                                  *)
Refused(p) ==
    /\ Abort(p)
    /\ UNCHANGED <<zone, nextId, changed, overtaken, audit, faults>>

HasId(id) == \E r \in zone : r.id = id

(* All adds come first, then all edits, then all deletes.                  *)
Add(p) ==
    /\ pc[p] = "apply"
    /\ \E d \in todo[p].add :
          IF nextId < MaxId
          THEN Call(p, [op |-> "add", id |-> 0, val |-> d],
                    zone \union {[id |-> nextId, val |-> d]},
                    [todo[p] EXCEPT !.add = @ \ {d}])
          ELSE Refused(p)

Edit(p) ==
    /\ pc[p] = "apply"
    /\ todo[p].add = {}
    /\ \E e \in todo[p].edit :
          IF HasId(e.cur.id)
          THEN Call(p, [op |-> "edit", id |-> e.cur.id, val |-> e.to],
                    {r \in zone : r.id # e.cur.id}
                        \union {[id |-> e.cur.id, val |-> e.to]},
                    [todo[p] EXCEPT !.edit = @ \ {e}])
          ELSE Refused(p)

Delete(p) ==
    /\ pc[p] = "apply"
    /\ todo[p].add = {} /\ todo[p].edit = {}
    /\ \E r \in todo[p].del :
          IF HasId(r.id)
          THEN Call(p, [op |-> "delete", id |-> r.id, val |-> r.val],
                    {q \in zone : q.id # r.id},
                    [todo[p] EXCEPT !.del = @ \ {r}])
          ELSE Refused(p)

(* dnsPublish records what Reconcile applied, then reports success; when   *)
(* the database answers the insert of the row with an error, or its answer *)
(* is lost, the command fails.                                             *)
Recorded(p) == [audit EXCEPT ![p] = @ \union {applied[p]}]

Audit(p) ==
    /\ pc[p] = "apply"
    /\ todo[p] = NothingToDo
    /\ audit' = Recorded(p)
    /\ pc' = [pc EXCEPT ![p] = "done"]
    /\ UNCHANGED <<zone, nextId, todo, applied, changed, overtaken, faults,
                   writes>>

AuditFails(p) ==
    /\ pc[p] = "apply"
    /\ todo[p] = NothingToDo
    /\ faults < MaxFaults
    /\ faults' = faults + 1
    /\ audit' \in {audit, Recorded(p)}
    /\ Abort(p)
    /\ UNCHANGED <<zone, nextId, changed, overtaken>>

(* The process is killed between two calls.                                *)
Crash(p) ==
    /\ pc[p] = "apply"
    /\ faults < MaxFaults
    /\ faults' = faults + 1
    /\ pc' = [pc EXCEPT ![p] = "idle"]
    /\ todo' = [todo EXCEPT ![p] = NothingToDo]
    /\ UNCHANGED <<zone, nextId, applied, audit, changed, overtaken, writes>>

(* Somebody else adds or removes a record of a slot the mail set does not  *)
(* name.                                                                   *)
OthersWrite ==
    /\ writes < MaxForeign
    /\ writes' = writes + 1
    /\ \/ /\ nextId < MaxId
          /\ \E v \in Value : /\ SlotOf[v] \notin Managed
                             /\ zone' = zone \union {[id |-> nextId, val |-> v]}
          /\ nextId' = nextId + 1
       \/ /\ \E r \in ForeignPart(zone) : zone' = zone \ {r}
          /\ UNCHANGED nextId
    /\ UNCHANGED <<pc, todo, applied, audit, changed, overtaken, faults>>

Write(p) == Add(p) \/ Edit(p) \/ Delete(p)
Publish(p) == List(p) \/ Write(p) \/ Audit(p)
Trouble(p) == ListFails(p) \/ AuditFails(p) \/ Crash(p)

Next ==
    \/ \E p \in Publisher : Publish(p) \/ Trouble(p)
    \/ OthersWrite

(* A started command runs on, and an operator whose publish failed runs it *)
(* again.  Faults are never obliged to happen, nor are writes by others.   *)
Spec == Init /\ [][Next]_vars /\ \A p \in Publisher : WF_vars(Publish(p))

-----------------------------------------------------------------------------
(* The inductive invariant.  Ids identify records and are never reused; an *)
(* id somebody plans to edit or delete stays in the slot it was seen in,   *)
(* or vanishes.                                                            *)
Touched(plan) == plan.del \union {e.cur : e \in plan.edit}

IdsFresh ==
    /\ \A r \in zone : r.id < nextId
    /\ \A r, q \in zone : r.id = q.id => r = q
    /\ \A p \in Publisher : \A r \in Touched(todo[p]) : r.id < nextId

PlannedStayInSlot ==
    \A p \in Publisher :
        /\ \A r \in Touched(todo[p]) : \A q \in zone :
              q.id = r.id => SlotOf[q.val] = SlotOf[r.val]
        /\ \A e \in todo[p].edit : SlotOf[e.cur.val] = SlotOf[e.to]

(* While a process is undisturbed the rest of its plan fits the zone: what *)
(* it does not plan to touch is exactly the desired values it no longer    *)
(* has to bring in, once each.                                             *)
Wanted(plan) == plan.add \union {e.to : e \in plan.edit}
Settled(live, plan) == ManagedPart(live) \ Touched(plan)

Fits(live, plan) ==
    /\ Touched(plan) \subseteq live
    /\ \A e \in plan.edit : e.cur \notin plan.del /\ e.to \notin plan.add
    /\ \A e, f \in plan.edit : e.cur = f.cur \/ e.to = f.to => e = f
    /\ \A d \in Wanted(plan) : \A r \in live : ~SameContent(r.val, d)
    /\ \A d \in Desired \ Wanted(plan) :
          \E r \in Settled(live, plan) : SameContent(r.val, d)
    /\ \A r \in Settled(live, plan) : \E d \in Desired : SameContent(r.val, d)
    /\ \A r, q \in Settled(live, plan) : SameContent(r.val, q.val) => r = q

UndisturbedPlansFit ==
    \A p \in Publisher : pc[p] = "apply" /\ ~overtaken[p] => Fits(zone, todo[p])

IInv == TypeOK /\ IdsFresh /\ PlannedStayInSlot /\ UndisturbedPlansFit

-----------------------------------------------------------------------------
(* A process is on its own while nobody else has written since its list.   *)
Undisturbed(p) == ~overtaken[p]

(* No step of an undisturbed publish empties a slot that held a record:    *)
(* Reconcile deletes last "so a slot is never briefly empty"               *)
(* (provider.go:262), whatever fails or dies in between.                   *)
SlotsNeverEmptied ==
    [][\A p \in Publisher :
          Undisturbed(p) /\ Write(p) =>
              \A s \in Managed :
                  InSlot(zone, s) # {} => InSlot(zone', s) # {}]_vars

(* A publish that reports success has left every managed slot holding      *)
(* exactly the desired records (provider.go:165-170), unless another       *)
(* process wrote in between: edits, leftovers and duplicates included.     *)
ExactOnSuccess ==
    \A p \in Publisher : pc[p] = "done" /\ Undisturbed(p) => Exact(zone)

(* Slots the desired set does not name are untouched (provider.go:170): no *)
(* step of any publish adds, edits or removes a foreign record, however    *)
(* stale the list it planned on and whoever else publishes.                *)
ForeignUntouched ==
    [][(\E p \in Publisher : Write(p)) =>
          ForeignPart(zone') = ForeignPart(zone)]_vars

(* Publishing again is idempotent: once the managed slots are exact an     *)
(* undisturbed publish changes nothing, not even a provider id.            *)
ExactZoneIsLeftAlone ==
    [][\A p \in Publisher :
          Exact(zone) /\ Undisturbed(p) /\ Write(p) => zone' = zone]_vars

(* A run that reports success wrote one audit row, and every row, of a     *)
(* failed run too, lists exactly the changes the run made at the provider. *)
AuditTruthful ==
    \A p \in Publisher :
        /\ pc[p] = "done" => audit[p] = {changed[p]}
        /\ \A row \in audit[p] : row = changed[p]

(* "Every mutation is recorded" (README.md:42): no run ends with changes   *)
(* the provider has confirmed and no audit row.                            *)
EveryMutationAudited ==
    \A p \in Publisher :
        pc[p] \in {"done", "failed"} /\ applied[p] # {} => audit[p] # {}

(* Seen from outside, one process publishing is MailZone: the desired      *)
(* records come in and the undesired go out, and no failure, crash or      *)
(* re-run ever moves the zone the other way.                               *)
Right == {d \in Desired : \E r \in zone : SameContent(r.val, d)}
Wrong == {r \in ManagedPart(zone) : \A d \in Desired : ~SameContent(r.val, d)}

Abstract == INSTANCE MailZone WITH right <- Right, wrong <- Wrong,
                                   foreign <- ForeignPart(zone)
ImplementsMailZone == Abstract!Spec

(* Failures stop, the operator re-runs: the zone converges to the desired  *)
(* set and stays there.                                                    *)
Converges == <>[]Exact(zone)

=============================================================================
