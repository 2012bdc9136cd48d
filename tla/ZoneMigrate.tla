----------------------------- MODULE ZoneMigrate -----------------------------
(***************************************************************************)
(* Moving a zone to another provider (dns migrate), removing what the mail *)
(* set does not manage (dns check, the offer to delete) and publishing the *)
(* TLSA record (dns publish --dane): internal/cli/dns.go with zone.go and  *)
(* discover.go of internal/dnsprovider.                                    *)
(*                                                                         *)
(* A record value is [type, name, content, port]; port stands for the      *)
(* priority, weight and port of MX and SRV records, and contents are in    *)
(* the normal form normContent gives them.  A call to the target provider  *)
(* is one step here; what the RRset providers do inside a call is in       *)
(* PublishByRRset.  Commands of several processes interleave, calls fail   *)
(* with or without effect, processes die, operators decline, and somebody  *)
(* edits the zone in the provider's own interface.                         *)
(***************************************************************************)
EXTENDS Naturals, FiniteSets

CONSTANTS
    Process,      \* the mailadmin processes
    SourceZone,   \* the zone to copy
    Transferable, \* the record types rrToRecord knows
    Probed,       \* the queries of Discover: pairs of a name and a type
    TargetZones,  \* the zones the target may hold at first
    Desired,      \* the values DesiredMailRecords asks for
    SchemeOf,     \* SchemeOf[c]: the policy scheme of TXT content c
    EditTo,       \* the values somebody else may turn a record into
    Tlsa,         \* the TLSA value of the installed certificate
    Command,      \* Command[p]: the commands given in process p, as records
    MaxCommands,  \* bound: commands started, reruns aside
    MaxFaults     \* bound: failed calls, lost queries, crashes, declined
                  \* questions, and edits by somebody else

ASSUME ZoneMigrateAssumption ==
    /\ {MaxCommands, MaxFaults} \subseteq Nat
    /\ IsFiniteSet(Process) /\ \A Z \in TargetZones : IsFiniteSet(Z)

VARIABLES
    kind,      \* "id" or "rrset": how the target names its records
    exists,    \* does the zone exist at the target?
    zone,      \* the records at the target: [id, val]
    provider,  \* the domain's dns_provider: "old" or "target"
    pc,        \* pc[p]: what process p does next
    order,     \* order[p]: its command
    pulled,    \* pulled[p]: the values the source returned
    list,      \* list[p]: the records it listed at the target
    todo,      \* todo[p]: the values to copy or the records to remove
    did,       \* did[p]: the values created, skipped and failed; audit row?
    overtaken, \* history: has somebody else written since p started?
    lost,      \* history: did the resolver leave a query of p unanswered?
    started, faults     \* how often so far

target == <<kind, exists, zone, provider>>
memory == <<pulled, list, todo, did>>
process == <<pc, order, memory>>
vars == <<target, process, overtaken, lost, started, faults>>

Delegation == {"NS", "SOA"}
Undone == [created |-> {}, skipped |-> {}, failed |-> {}, logged |-> FALSE]

(* Record.identity: with the scheme, for TXT.                              *)
Slot(v) ==
    <<v.type, v.name, IF v.type = "TXT" THEN SchemeOf[v.content] ELSE "">>

(* What Migrate and Discover take for the same record.                     *)
Key(v) == <<Slot(v), v.content>>

Values(records) == {r.val : r \in records}

-----------------------------------------------------------------------------
(* The sources.                                                            *)

(* keepRR and rrToRecord: unknown types, generated records and the apex NS *)
(* are left out.                                                           *)
Usable(v) ==
    /\ v.type \in Transferable
    /\ v.type = "NS" => v.name # "@"

PullAXFR == {v \in SourceZone : Usable(v)}
ParseZonefile == {v \in SourceZone : Usable(v)}

(* A recursive resolver: a name's own records, the wildcard's when it has  *)
(* none, and what a CNAME within the zone leads to.                        *)
Own(name, t) == {v \in SourceZone : v.name = name /\ v.type \in {t, "CNAME"}}
Direct(name, t) ==
    IF \E v \in SourceZone : v.name = name THEN Own(name, t)
    ELSE {[v EXCEPT !.name = name] : v \in Own("*", t)}

Resolve(name, t) ==
    LET hop == Direct(name, t)
    IN hop \union UNION {Direct(v.content, t) : v \in {w \in hop : w.type = "CNAME"}}

Answer(name, t) == {v \in Resolve(name, t) : Usable(v)}

(* The label nobody has, asked for each type.                              *)
Probe == "zzq9x7-mailadmin-wildcard-probe"
ProbeTypes == {"A", "AAAA", "CNAME", "MX", "TXT", "SRV", "CAA"}
WildValues(t, unanswered) ==
    IF t \in ProbeTypes /\ <<Probe, t>> \notin unanswered
    THEN {v.content : v \in Answer(Probe, t)} ELSE {}

Discover(unanswered) ==
    (UNION {{v \in Answer(q[1], q[2]) :
               v.name = "@" \/ v.content \notin WildValues(q[2], unanswered)} :
             q \in Probed \ unanswered})
    \union
    (UNION {{[type |-> t, name |-> "*", content |-> c, port |-> 0] :
               c \in WildValues(t, unanswered)} : t \in {"A", "AAAA", "CAA"}})

Queries == Probed \union {<<Probe, t>> : t \in ProbeTypes}

(* splitDelegation.                                                        *)
Copied(values) == {v \in values : v.type \notin Delegation}

-----------------------------------------------------------------------------
Init ==
    /\ kind \in {"id", "rrset"}
    /\ \E Z \in TargetZones :
          LET number == CHOOSE f \in [Z -> 1 .. Cardinality(Z)] :
                            \A v, w \in Z : f[v] = f[w] => v = w
          IN zone = {[id |-> IF kind = "id" THEN <<number[v]>> ELSE <<v>>,
                      val |-> v] : v \in Z}
    /\ exists \in BOOLEAN /\ (kind = "id" \/ zone # {} => exists)
    /\ provider = "old"
    /\ pc = [p \in Process |-> "idle"]
    /\ order = [p \in Process |-> [op |-> "none"]]
    /\ pulled = [p \in Process |-> {}]
    /\ list = [p \in Process |-> {}]
    /\ todo = [p \in Process |-> {}]
    /\ did = [p \in Process |-> Undone]
    /\ overtaken = [p \in Process |-> FALSE]
    /\ lost = [p \in Process |-> FALSE]
    /\ started = 0 /\ faults = 0

Fault == faults < MaxFaults /\ faults' = faults + 1
NoFault == UNCHANGED faults
Others(p) == [q \in Process |-> overtaken[q] \/ q # p]
Noted(p) == overtaken' = IF zone' = zone THEN overtaken ELSE Others(p)
Goto(p, next) == pc' = [pc EXCEPT ![p] = next]
Fail(p) ==
    /\ Goto(p, "failed")
    /\ pulled' = [pulled EXCEPT ![p] = {}]
    /\ list' = [list EXCEPT ![p] = {}]
    /\ todo' = [todo EXCEPT ![p] = {}]
    /\ did' = [did EXCEPT ![p] = Undone]

(* The ids of a provider are never used again: a new one is one that no    *)
(* record has and nobody remembers.                                        *)
Known == {r.id : r \in zone \union UNION {list[p] : p \in Process}}
NewId(v) ==
    IF kind = "rrset" THEN <<v>>
    ELSE LET free == {i \in 1 .. Cardinality(Known) + 1 : <<i>> \notin Known}
         IN <<CHOOSE i \in free : \A j \in free : i <= j>>
Added(v) ==
    IF kind = "rrset" /\ v \in Values(zone) THEN zone
    ELSE zone \union {[id |-> NewId(v), val |-> v]}
Removed(r) == {s \in zone : s.id # r.id}

(* dns migrate reads its source before anything else; a dry run stops      *)
(* there, and so does a source with nothing to copy.                       *)
Pull(p, c) ==
    \/ /\ c.how = "axfr" /\ pulled' = [pulled EXCEPT ![p] = PullAXFR]
       /\ lost' = [lost EXCEPT ![p] = FALSE] /\ NoFault
    \/ /\ c.how = "zonefile" /\ pulled' = [pulled EXCEPT ![p] = ParseZonefile]
       /\ lost' = [lost EXCEPT ![p] = FALSE] /\ NoFault
    \/ /\ c.how = "from" /\ pulled' = [pulled EXCEPT ![p] = SourceZone]
       /\ lost' = [lost EXCEPT ![p] = FALSE] /\ NoFault
    \/ /\ c.how = "probe" /\ pulled' = [pulled EXCEPT ![p] = Discover({})]
       /\ lost' = [lost EXCEPT ![p] = FALSE] /\ NoFault
    \/ /\ c.how = "probe" /\ Fault
       /\ \E q \in Queries : pulled' = [pulled EXCEPT ![p] = Discover({q})]
       /\ lost' = [lost EXCEPT ![p] = TRUE]

Rerun(p) ==
    \/ pc[p] = "failed"
    \/ pc[p] = "done" /\ order[p].op = "migrate" /\ did[p].failed # {}

Begin(p, c, first) ==
    /\ order' = [order EXCEPT ![p] = c]
    /\ did' = [did EXCEPT ![p] = Undone]
    /\ list' = [list EXCEPT ![p] = {}]
    /\ overtaken' = [overtaken EXCEPT ![p] = FALSE]
    /\ Goto(p, first)
    /\ UNCHANGED target

StartMigrate(p, c) ==
    /\ c.op = "migrate"
    /\ c.create => kind = "rrset"
    /\ Pull(p, c)
    /\ Copied(pulled'[p]) # {}
    /\ todo' = [todo EXCEPT ![p] = Copied(pulled'[p])]
    /\ Begin(p, c, CASE c.create -> "create"
                     [] c.clean /\ ~c.create -> "ask-clean"
                     [] OTHER -> "ask-copy")

(* dns check --registrar lists the zone and shows what Stale returns.      *)
StartCheck(p, c) ==
    /\ c.op = "check"
    /\ exists
    /\ Begin(p, c, "list-stale")
    /\ todo' = [todo EXCEPT ![p] = {}]
    /\ UNCHANGED <<pulled, lost>> /\ NoFault

StartPublishDANE(p, c) ==
    /\ c.op = "dane"
    /\ exists
    /\ Begin(p, c, "ask-dane")
    /\ todo' = [todo EXCEPT ![p] = {}]
    /\ UNCHANGED <<pulled, lost>> /\ NoFault

StartWith(p, c) == StartMigrate(p, c) \/ StartCheck(p, c) \/ StartPublishDANE(p, c)

Start(p) ==
    /\ pc[p] \in {"idle", "done"} /\ ~Rerun(p)
    /\ started < MaxCommands
    /\ started' = started + 1
    /\ \E c \in Command[p] : StartWith(p, c)

(* The operator tries again what failed or died.                           *)
Again(p) ==
    /\ Rerun(p)
    /\ StartWith(p, order[p])
    /\ UNCHANGED started

-----------------------------------------------------------------------------
(* A bug EnsureZone might have: a zone that is there is an error.          *)
EnsureNewZone(p) ==
    LET next == IF order[p].clean THEN "ask-clean" ELSE "ask-copy"
    IN /\ pc[p] = "create"
       /\ \/ ~exists /\ exists' = TRUE /\ NoFault /\ Goto(p, next) /\ UNCHANGED memory
          \/ exists /\ UNCHANGED exists /\ NoFault /\ Fail(p)
          \/ exists' \in {exists, TRUE} /\ Fault /\ Fail(p)
       /\ UNCHANGED <<kind, zone, provider, order, overtaken, lost, started>>

(* EnsureZone: a zone that is there is fine.                               *)
EnsureZone(p) ==
    LET next == IF order[p].clean THEN "ask-clean" ELSE "ask-copy"
    IN /\ pc[p] = "create"
       /\ \/ exists' = TRUE /\ NoFault /\ Goto(p, next) /\ UNCHANGED memory
          \/ exists' \in {exists, TRUE} /\ Fault /\ Fail(p)
       /\ UNCHANGED <<kind, zone, provider, order, overtaken, lost, started>>

(* The questions a command asks, and what follows a yes.                   *)
Question == [clean |-> "ask-clean", copy |-> "ask-copy", prune |-> "ask-prune",
             dane |-> "ask-dane", switch |-> "ask-switch"]
Yes == [clean |-> "list-clean", copy |-> "list-copy", prune |-> "prune",
        dane |-> "add-dane", switch |-> "switch"]

Accept(p, q) ==
    /\ pc[p] = Question[q]
    /\ Goto(p, Yes[q])
    /\ UNCHANGED <<target, order, memory, overtaken, lost, started, faults>>

(* A migration whose copy is declined has cleaned the target by then.      *)
Decline(p, q) ==
    /\ pc[p] = Question[q]
    /\ Fault
    /\ IF q = "switch" THEN Goto(p, "done") /\ UNCHANGED memory ELSE Fail(p)
    /\ UNCHANGED <<target, order, overtaken, lost, started>>

(* ListRecords at the target, kept as far as the command needs it.  A zone *)
(* that does not exist is an error.                                        *)
ListAs(p, records, next) ==
    /\ \/ /\ exists /\ NoFault
          /\ list' = [list EXCEPT ![p] = records] /\ Goto(p, next)
          /\ UNCHANGED <<pulled, todo, did>>
       \/ (IF exists THEN Fault ELSE NoFault) /\ Fail(p)
    /\ UNCHANGED <<target, order, overtaken, lost, started>>

(* A bug dnsMigrateClean might have: it takes delegation records as well.  *)
CleanEverything(p) == pc[p] = "list-clean" /\ ListAs(p, zone, "clean")

(* dnsMigrateClean: everything but NS and SOA.                             *)
ListForClean(p) ==
    /\ pc[p] = "list-clean"
    /\ ListAs(p, {r \in zone : r.val.type \notin Delegation}, "clean")

ListForCopy(p) == pc[p] = "list-copy" /\ ListAs(p, zone, "copy")

(* A bug Stale might have: it returns the managed records as well.         *)
StaleOrNot(live) == live

Stale(live) == {r \in live : Slot(r.val) \notin {Slot(d) : d \in Desired}}

ListForCheck(p) ==
    LET stale == Stale(zone)
    IN /\ pc[p] = "list-stale"
       /\ ListAs(p, stale, IF stale = {} THEN "done" ELSE "choose")

(* offerStaleDelete: none, some or all; a selection that makes no sense is *)
(* an error.                                                               *)
SelectIndices(p) ==
    /\ pc[p] = "choose"
    /\ \/ \E chosen \in SUBSET list[p] :
             /\ list' = [list EXCEPT ![p] = chosen]
             /\ Goto(p, IF chosen = {} THEN "done" ELSE "ask-prune")
             /\ UNCHANGED <<pulled, todo, did>>
             /\ NoFault
       \/ Fault /\ Fail(p)
    /\ UNCHANGED <<target, order, overtaken, lost, started>>

(* RemoveRecord of the next record of the list.  An id provider refuses an *)
(* id it does not know; an RRset without the value stays as it is.         *)
RemoveNext(p, next) ==
    \/ /\ list[p] = {}
       /\ Goto(p, next)
       /\ UNCHANGED <<zone, memory, faults, overtaken>>
    \/ \E r \in list[p] :
          /\ \/ /\ kind = "id" => \E s \in zone : s.id = r.id
                /\ zone' = Removed(r) /\ NoFault
                /\ list' = [list EXCEPT ![p] = @ \ {r}]
                /\ UNCHANGED <<pc, pulled, todo, did>>
             \/ /\ IF kind = "id" /\ Removed(r) = zone
                   THEN NoFault /\ UNCHANGED zone
                   ELSE Fault /\ zone' \in {zone, Removed(r)}
                /\ Fail(p)
          /\ Noted(p)

Clean(p) ==
    /\ pc[p] = "clean"
    /\ RemoveNext(p, "ask-copy")
    /\ UNCHANGED <<kind, exists, provider, order, lost, started>>

Prune(p) ==
    /\ pc[p] = "prune"
    /\ RemoveNext(p, "audit")
    /\ UNCHANGED <<kind, exists, provider, order, lost, started>>

Present(p) == {Key(r.val) : r \in list[p]} \union {Key(v) : v \in did[p].created}

(* A bug Migrate might have: it does not look what is there.               *)
MigrateBlindly(p) ==
    /\ pc[p] = "copy" /\ todo[p] # {}
    /\ \E v \in todo[p] :
          /\ todo' = [todo EXCEPT ![p] = @ \ {v}]
          /\ zone' = Added(v) /\ NoFault
          /\ did' = [did EXCEPT ![p].created = @ \union {v}]
          /\ Noted(p)
    /\ UNCHANGED <<kind, exists, provider, pc, order, pulled, list, lost, started>>

(* A bug Migrate might have: it reports a failed record as copied.         *)
MigrateHidesFailure(p) ==
    /\ pc[p] = "copy" /\ todo[p] # {}
    /\ \E v \in todo[p] :
          /\ todo' = [todo EXCEPT ![p] = @ \ {v}]
          /\ \/ Key(v) \in Present(p) /\ UNCHANGED zone /\ NoFault
             \/ Key(v) \notin Present(p) /\ zone' = Added(v) /\ NoFault
             \/ Key(v) \notin Present(p) /\ zone' \in {zone, Added(v)} /\ Fault
          /\ did' = [did EXCEPT ![p].created = @ \union {v}]
          /\ Noted(p)
    /\ UNCHANGED <<kind, exists, provider, pc, order, pulled, list, lost, started>>

(* Migrate copies one value after the other, skips what is there, and goes *)
(* on behind one that fails.                                               *)
Migrate(p) ==
    /\ pc[p] = "copy" /\ todo[p] # {}
    /\ \E v \in todo[p] :
          /\ todo' = [todo EXCEPT ![p] = @ \ {v}]
          /\ \/ /\ Key(v) \in Present(p)
                /\ did' = [did EXCEPT ![p].skipped = @ \union {v}]
                /\ UNCHANGED zone /\ NoFault
             \/ /\ Key(v) \notin Present(p)
                /\ zone' = Added(v) /\ NoFault
                /\ did' = [did EXCEPT ![p].created = @ \union {v}]
             \/ /\ Key(v) \notin Present(p)
                /\ zone' \in {zone, Added(v)} /\ Fault
                /\ did' = [did EXCEPT ![p].failed = @ \union {v}]
          /\ Noted(p)
    /\ UNCHANGED <<kind, exists, provider, pc, order, pulled, list, lost, started>>

(* The audit row of a migration may get lost unnoticed; then, if the row   *)
(* names another provider, the operator is asked to switch it.             *)
Report(p) ==
    /\ pc[p] = "copy" /\ todo[p] = {}
    /\ \/ did' = [did EXCEPT ![p].logged = TRUE] /\ NoFault
       \/ did' = did /\ Fault
    /\ list' = [list EXCEPT ![p] = {}]
    /\ Goto(p, IF provider = "target" THEN "done" ELSE "ask-switch")
    /\ UNCHANGED <<target, order, pulled, todo, overtaken, lost, started>>

(* SetDomainDNSProvider; that it failed is a warning.                      *)
Switch(p) ==
    /\ pc[p] = "switch"
    /\ \/ provider' = "target" /\ NoFault
       \/ provider' \in {provider, "target"} /\ Fault
    /\ Goto(p, "done")
    /\ UNCHANGED <<kind, exists, zone, order, pulled, list, todo, did, overtaken,
                   lost, started>>

(* dnsPublishDANE adds the record without a look at the zone.              *)
AddTLSA(p) ==
    /\ pc[p] = "add-dane"
    /\ \/ zone' = Added(Tlsa) /\ NoFault /\ Goto(p, "audit") /\ UNCHANGED memory
       \/ zone' \in {zone, Added(Tlsa)} /\ Fault /\ Fail(p)
    /\ Noted(p)
    /\ UNCHANGED <<kind, exists, provider, order, lost, started>>

(* The audit rows of prune and DANE: an error ends the command.            *)
Record(p) ==
    /\ pc[p] = "audit"
    /\ \/ /\ did' = [did EXCEPT ![p].logged = TRUE] /\ NoFault /\ Goto(p, "done")
          /\ UNCHANGED <<pulled, list, todo>>
       \/ Fault /\ Fail(p)
    /\ UNCHANGED <<target, order, overtaken, lost, started>>

Crash(p) ==
    /\ pc[p] \notin {"idle", "done", "failed"}
    /\ Fault
    /\ Fail(p)
    /\ UNCHANGED <<target, order, overtaken, lost, started>>

(* Somebody gives a record another content in the provider's interface; an *)
(* id provider keeps its id.                                               *)
ForeignEdit ==
    /\ Fault
    /\ \E r \in zone, v \in EditTo :
          /\ v \notin Values(zone)
          /\ zone' = (zone \ {r}) \union
                        {[id |-> IF kind = "id" THEN r.id ELSE <<v>>, val |-> v]}
    /\ overtaken' = [p \in Process |-> TRUE]
    /\ UNCHANGED <<kind, exists, provider, process, lost, started>>

Step(p) ==
    \/ EnsureZone(p) \/ ListForClean(p) \/ Clean(p) \/ ListForCopy(p) \/ Migrate(p)
    \/ Report(p) \/ Switch(p) \/ ListForCheck(p) \/ SelectIndices(p) \/ Prune(p)
    \/ AddTLSA(p) \/ Record(p) \/ \E q \in DOMAIN Question : Accept(p, q)

Next ==
    \/ \E p \in Process :
          \/ Start(p) \/ Again(p) \/ Step(p) \/ Crash(p)
          \/ \E q \in DOMAIN Question : Decline(p, q)
    \/ ForeignEdit

(* A running command goes on, an operator answers, and tries again what    *)
(* failed.                                                                 *)
Fairness == \A p \in Process : WF_vars(Step(p)) /\ WF_vars(Again(p))

Spec == Init /\ [][Next]_vars /\ Fairness

-----------------------------------------------------------------------------
Migrated(p) ==
    order[p].op = "migrate" /\ pc[p] \in {"ask-switch", "switch", "done"}

(* "Creates every record ..., skipping any that already exist there"       *)
(* (zone.go:161): when the copy is over, and so before the domain's row    *)
(* is switched to the target, each value the source gave is in the target  *)
(* zone or reported as failed, with its priority and port.  After a clean  *)
(* copy, "so a zone can be replaced 1:1" (dns.go:517), and whatever runs   *)
(* stopped half-way before it, the target holds nothing else but its own   *)
(* delegation.                                                             *)
CopyComplete ==
    \A p \in Process :
        Migrated(p) /\ ~overtaken[p] =>
            /\ Copied(pulled[p]) \subseteq Values(zone) \union did[p].failed
            /\ order[p].clean => Copied(Values(zone)) \subseteq Copied(pulled[p])

(* What a probe finds are records of the zone, the wildcard's under "*"    *)
(* (discover.go), unless the resolver left a query unanswered.             *)
PulledFromZone == \A p \in Process : lost[p] \/ pulled[p] \subseteq SourceZone

(* "NS/SOA are never copied" and clean removes "except NS/SOA" (zone.go:162,*)
(* dns.go:517): no step of a migration touches the target's delegation,    *)
(* even when somebody turns a record it listed into another.               *)
DelegationKept ==
    [][\A p \in Process :
          Step(p) /\ order[p].op = "migrate" =>
              zone \ zone' \subseteq {r \in zone : r.val.type \notin Delegation}]_vars

(* A migration that is tried again, after whatever failed, died or was     *)
(* answered too late, copies no record twice.                              *)
NoDuplicates ==
    [][\A p \in Process :
          Step(p) /\ order[p].op = "migrate" /\ ~overtaken[p] =>
              \A r \in zone' \ zone : Key(r.val) \notin {Key(s.val) : s \in zone}]_vars

(* What dns check deletes, the operator has seen, with the content it has  *)
(* when it goes, and none of it is in a slot of the mail set; an RRset     *)
(* provider guarantees it whoever else writes, an id provider as long as   *)
(* nobody does.                                                            *)
PruneDeletesWhatWasShown ==
    [][\A p \in Process :
          Step(p) /\ order[p].op = "check" /\ (kind = "rrset" \/ ~overtaken[p]) =>
              zone \ zone' \subseteq
                  {r \in list[p] : Slot(r.val) \notin {Slot(d) : d \in Desired}}]_vars

(* A migration that is tried until it succeeds does succeed, if the zone   *)
(* exists or is to be created: no partial result of an earlier run keeps a *)
(* later one from finishing.                                               *)
Converges ==
    \A p \in Process :
        pc[p] = "failed" /\ order[p].op = "migrate" /\ (exists \/ order[p].create)
            ~> Migrated(p) /\ did[p].failed = {}

=============================================================================
