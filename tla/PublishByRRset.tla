---------------------------- MODULE PublishByRRset ----------------------------
(***************************************************************************)
(* `mailadmin dns publish` against a provider that stores whole RRsets:    *)
(* deSEC, Servercow and servfail.network.  Such a provider has no record   *)
(* ids.  A record is its value, and AddRecord, EditRecord and RemoveRecord *)
(* each read the RRset of the value, change one value in the copy, and     *)
(* write the whole copy back; deSEC's client repeats a write that was      *)
(* answered 429, 502, 503 or 504.                                          *)
(*                                                                         *)
(* An RRset is coarser than a slot: the SPF policy and a site verification *)
(* token at the same name are two slots and one RRset.                     *)
(***************************************************************************)
EXTENDS ZonePlan

CONSTANTS
    SetOf,         \* SetOf[v]: the RRset (name and type) of value v
    Backends,      \* the backends considered
    Publisher,     \* the mailadmin processes that publish the domain
    TwoSpellings,  \* may the zone start with two spellings of one content?
    Disabled,      \* values the zone may start with switched off
    MaxAttempts,   \* desecMaxAttempts
    MaxFaults,     \* bound: bad answers and crashes in a behaviour
    MaxForeign     \* bound: writes by others in a behaviour

ASSUME RRsetAssumption ==
    /\ \A v, w \in Value : SlotOf[v] = SlotOf[w] => SetOf[v] = SetOf[w]
    /\ Backends \subseteq {"desec", "servercow", "servfail"}
    /\ TwoSpellings \in BOOLEAN
    /\ Disabled \subseteq Value
    /\ MaxAttempts \in Nat \ {0}
    /\ MaxFaults \in Nat
    /\ MaxForeign \in Nat

VARIABLES
    backend,      \* the domain's provider
    zone,         \* the values the provider serves
    disabled,     \* values it keeps but does not serve (PowerDNS only)
    pc,           \* pc[p]: where process p is
    todo,         \* todo[p]: the changes of p's plan not applied yet
    call,         \* call[p]: the read-modify-write p is in the middle of
    overtaken,    \* history: another process wrote since p listed the zone
    raced,        \* history: somebody wrote p's RRset since p read it
    faults,       \* bad answers and crashes so far
    writes        \* values written by others so far

vars == <<backend, zone, disabled, pc, todo, call, overtaken, raced, faults,
          writes>>

(* The records ListRecords reports: the id encodes the value (rrID).       *)
Live == {[id |-> v, val |-> v] : v \in zone}
Stored(k) == {v \in zone \union disabled : SetOf[v] = k}

NoCall == [step |-> "none"]
TypeOK ==
    /\ backend \in Backends
    /\ zone \subseteq Value
    /\ disabled \subseteq Value \ zone
    /\ pc \in [Publisher -> {"idle", "apply", "done", "failed"}]
    /\ \A p \in Publisher :
          /\ todo[p].add \subseteq Desired
          /\ \A r \in todo[p].del : SlotOf[r.val] \in Managed
          /\ \A e \in todo[p].edit : SlotOf[e.cur.val] = SlotOf[e.to]
          /\ call[p] # NoCall =>
                /\ pc[p] = "apply"
                /\ call[p].tries \in 1 .. MaxAttempts
                /\ \A v \in call[p].values : SetOf[v] = call[p].set
    /\ overtaken \in [Publisher -> BOOLEAN]
    /\ raced \in [Publisher -> BOOLEAN]
    /\ faults \in 0 .. MaxFaults
    /\ writes \in 0 .. MaxForeign

Init ==
    /\ backend \in Backends
    /\ zone \in SUBSET Value
    /\ TwoSpellings \/ \A v, w \in zone : SameContent(v, w) => v = w
    /\ disabled \in SUBSET (IF backend = "servfail" THEN Disabled \ zone ELSE {})
    /\ pc = [p \in Publisher |-> "idle"]
    /\ todo = [p \in Publisher |-> NothingToDo]
    /\ call = [p \in Publisher |-> NoCall]
    /\ overtaken = [p \in Publisher |-> FALSE]
    /\ raced = [p \in Publisher |-> FALSE]
    /\ faults = 0
    /\ writes = 0

-----------------------------------------------------------------------------
List(p) ==
    /\ pc[p] # "apply"
    /\ \E plan \in Plans(Live) : todo' = [todo EXCEPT ![p] = plan]
    /\ pc' = [pc EXCEPT ![p] = "apply"]
    /\ overtaken' = [overtaken EXCEPT ![p] = FALSE]
    /\ UNCHANGED <<backend, zone, disabled, call, raced, faults, writes>>

(* Bugs RemoveValue and Upsert might have: a value is compared in another  *)
(* notation and never found; all values of the slot are taken for it;      *)
(* append's result is dropped; the RRset is written with the new value     *)
(* alone.                                                                  *)
RemoveNever(values, v) == values
RemoveInSlot(values, v) == {w \in values : SlotOf[w] # SlotOf[v]}
UpsertLost(values, v) == values
UpsertAlone(values, v) == {v}

(* removeValue and containsValue compare values as strings.EqualFold does: *)
(* letter case is ignored, so one removal can take several values away.    *)
RemoveValue(values, v) == {w \in values : ~SameContent(w, v)}
ContainsValue(values, v) == \E w \in values : SameContent(w, v)
Upsert(values, v) == IF ContainsValue(values, v) THEN values ELSE values \union {v}

(* The read half of AddRecord, EditRecord or RemoveRecord.  Adds come      *)
(* first, then edits, then deletes.  The copy read includes values the     *)
(* provider has switched off.                                              *)
Reads(p, v, values, rest) ==
    /\ call' = [call EXCEPT ![p] = [step |-> "write", set |-> SetOf[v],
                                    values |-> values, tries |-> 1,
                                    rest |-> rest]]
    /\ raced' = [raced EXCEPT ![p] = FALSE]
    /\ UNCHANGED <<backend, zone, disabled, pc, todo, overtaken, faults, writes>>

ReadToAdd(p) ==
    /\ pc[p] = "apply" /\ call[p] = NoCall
    /\ \E d \in todo[p].add :
          Reads(p, d, Upsert(Stored(SetOf[d]), d),
                [todo[p] EXCEPT !.add = @ \ {d}])

ReadToEdit(p) ==
    /\ pc[p] = "apply" /\ call[p] = NoCall
    /\ todo[p].add = {}
    /\ \E e \in todo[p].edit :
          Reads(p, e.to,
                Upsert(RemoveValue(Stored(SetOf[e.to]), e.cur.val), e.to),
                [todo[p] EXCEPT !.edit = @ \ {e}])

ReadToRemove(p) ==
    /\ pc[p] = "apply" /\ call[p] = NoCall
    /\ todo[p].add = {} /\ todo[p].edit = {}
    /\ \E r \in todo[p].del :
          Reads(p, r.val, RemoveValue(Stored(SetOf[r.val]), r.val),
                [todo[p] EXCEPT !.del = @ \ {r}])

(* The whole RRset becomes the copy; nothing in it is switched off.        *)
Takes(p) ==
    LET k == call[p].set IN
    /\ zone' = {v \in zone : SetOf[v] # k} \union call[p].values
    /\ disabled' = {v \in disabled : SetOf[v] # k}
    /\ overtaken' = [q \in Publisher |-> overtaken[q] \/ q # p]
    /\ raced' = [q \in Publisher |->
                    raced[q] \/ (q # p /\ call[q] # NoCall /\ call[q].set = k)]

NoEffect == UNCHANGED <<zone, disabled, overtaken, raced>>

Abort(p) ==
    /\ pc' = [pc EXCEPT ![p] = "failed"]
    /\ todo' = [todo EXCEPT ![p] = NothingToDo]
    /\ call' = [call EXCEPT ![p] = NoCall]

(* deSEC answers 404 to a PUT of an RRset it does not have, and an error   *)
(* to a POST of one it has; the other two create and replace alike.        *)
Missing(p) ==
    /\ backend = "desec" /\ call[p].step = "write"
    /\ call[p].values # {} /\ Stored(call[p].set) = {}
Conflict(p) == call[p].step = "create" /\ Stored(call[p].set) # {}

WriteSet(p) ==
    /\ call[p] # NoCall
    /\ ~Missing(p) /\ ~Conflict(p)
    /\ Takes(p)
    /\ todo' = [todo EXCEPT ![p] = call[p].rest]
    /\ call' = [call EXCEPT ![p] = NoCall]
    /\ UNCHANGED <<backend, pc, faults, writes>>

CreateInstead(p) ==
    /\ call[p] # NoCall
    /\ Missing(p)
    /\ call' = [call EXCEPT ![p].step = "create", ![p].tries = 1]
    /\ NoEffect
    /\ UNCHANGED <<backend, pc, todo, faults, writes>>

CreateRefused(p) ==
    /\ call[p] # NoCall
    /\ Conflict(p)
    /\ Abort(p)
    /\ NoEffect
    /\ UNCHANGED <<backend, faults, writes>>

(* deSEC's client tries a write again, up to desecMaxAttempts times.       *)
RetriesOnceMore(p) == backend = "desec" /\ call[p].tries <= MaxAttempts  \* a bug
Retries(p) == backend = "desec" /\ call[p].tries < MaxAttempts

(* A bad answer to a write that may or may not have been carried out.  A   *)
(* retry repeats the copy it has; without one the publish fails.           *)
BadAnswer(p) ==
    /\ call[p] # NoCall
    /\ ~Missing(p) /\ ~Conflict(p)
    /\ faults < MaxFaults
    /\ faults' = faults + 1
    /\ Takes(p) \/ NoEffect
    /\ \/ /\ Retries(p)
          /\ call' = [call EXCEPT ![p].tries = @ + 1]
          /\ UNCHANGED <<pc, todo>>
       \/ Abort(p)
    /\ UNCHANGED <<backend, writes>>

(* The list or the read half of a call fails.                              *)
ReadFails(p) ==
    /\ call[p] = NoCall
    /\ faults < MaxFaults
    /\ faults' = faults + 1
    /\ Abort(p)
    /\ NoEffect
    /\ UNCHANGED <<backend, writes>>

Finish(p) ==
    /\ pc[p] = "apply" /\ call[p] = NoCall
    /\ todo[p] = NothingToDo
    /\ pc' = [pc EXCEPT ![p] = "done"]
    /\ NoEffect
    /\ UNCHANGED <<backend, todo, call, faults, writes>>

Crash(p) ==
    /\ pc[p] = "apply"
    /\ faults < MaxFaults
    /\ faults' = faults + 1
    /\ pc' = [pc EXCEPT ![p] = "idle"]
    /\ todo' = [todo EXCEPT ![p] = NothingToDo]
    /\ call' = [call EXCEPT ![p] = NoCall]
    /\ NoEffect
    /\ UNCHANGED <<backend, writes>>

(* Somebody else adds or removes a value of a slot outside the mail set.   *)
OthersWrite ==
    /\ writes < MaxForeign
    /\ writes' = writes + 1
    /\ \E v \in Value :
          /\ SlotOf[v] \notin Managed /\ v \notin disabled
          /\ zone' = IF v \in zone THEN zone \ {v} ELSE zone \union {v}
          /\ raced' = [p \in Publisher |->
                          raced[p] \/ (call[p] # NoCall /\ call[p].set = SetOf[v])]
    /\ UNCHANGED <<backend, disabled, pc, todo, call, overtaken, faults>>

Publish(p) ==
    \/ List(p) \/ ReadToAdd(p) \/ ReadToEdit(p) \/ ReadToRemove(p)
    \/ WriteSet(p) \/ CreateInstead(p) \/ CreateRefused(p) \/ Finish(p)
Trouble(p) == BadAnswer(p) \/ ReadFails(p) \/ Crash(p)

Next ==
    \/ \E p \in Publisher : Publish(p) \/ Trouble(p)
    \/ OthersWrite

Spec == Init /\ [][Next]_vars /\ \A p \in Publisher : WF_vars(Publish(p))

-----------------------------------------------------------------------------
Undisturbed(p) == ~overtaken[p]

(* The steps at which the provider carries out a write of p.               *)
Writing(p) == WriteSet(p) \/ BadAnswer(p)

(* "Slots not present in desired are untouched" (provider.go:170), in as   *)
(* far as the read-modify-write allows: a write, repeated or not, takes    *)
(* away or brings back a foreign value only if somebody changed the same   *)
(* RRset after the publish had read it.                                    *)
ForeignKeptUnlessRacing ==
    [][\A p \in Publisher : Writing(p) /\ ~raced[p] =>
          ForeignPart(Live') = ForeignPart(Live)]_vars

(* A slot that holds a record is never emptied (provider.go:262) by a      *)
(* publish nobody else's publish overlaps.                                 *)
SlotsNeverEmptied ==
    [][\A p \in Publisher : Writing(p) /\ Undisturbed(p) =>
          \A s \in Managed : InSlot(Live, s) # {} => InSlot(Live', s) # {}]_vars

(* A publish that reports success leaves every managed slot with exactly   *)
(* the desired records (provider.go:165-170).                              *)
ExactOnSuccess ==
    \A p \in Publisher : pc[p] = "done" /\ Undisturbed(p) => Exact(Live)

(* As for providers with ids, what a publish does to the mail records is   *)
(* MailZone: the desired values come in and the undesired go out, never    *)
(* the other way.  Foreign records are left out here: a raced write may    *)
(* change both at once, and ForeignKeptUnlessRacing is about them.         *)
Right == {d \in Desired : ContainsValue(zone, d)}
Wrong == {r \in ManagedPart(Live) : ~ContainsValue(Desired, r.val)}

Abstract == INSTANCE MailZone WITH right <- Right, wrong <- Wrong, foreign <- {}

(* Every write of a publish nobody else's publish overlaps is a step of    *)
(* MailZone, be it late, repeated, or the last before a crash; and where   *)
(* a single process publishes, so is all that happens.                     *)
WritesImprove ==
    [][\A p \in Publisher : Writing(p) /\ Undisturbed(p) => Abstract!Improve]_vars
ImplementsMailZone == Abstract!Spec

(* The failures stop and the operator re-runs: the zone settles on the     *)
(* desired set, whatever half-done or repeated writes came before.         *)
Converges == <>[]Exact(Live)

=============================================================================
