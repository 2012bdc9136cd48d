-------------------------- MODULE ZoneMigrateProofs --------------------------
(***************************************************************************)
(* Theorems about ZoneMigrate.  First the records and the lists: an id     *)
(* stands for one record, a listed record is what its id stands for unless *)
(* somebody has edited it, and each command's list holds what that command *)
(* may remove.  From that follow the properties of the removals.  Then the *)
(* copies: what a migration has dealt with is at the target or reported as *)
(* failed, and all that is at the target is listed, created or failed.     *)
(***************************************************************************)
EXTENDS ZoneMigrate, FiniteSetTheorems, FunctionTheorems, WellFoundedInduction, TLAPS

-----------------------------------------------------------------------------
(* All values that can occur, in the sources or at the target.             *)
Found == UNION {Discover(unanswered) : unanswered \in {{}} \union {{q} : q \in Queries}}
Everything == (UNION TargetZones) \union EditTo \union {Tlsa} \union SourceZone \union Found

Id == {<<i>> : i \in Nat} \union {<<v>> : v \in Everything}
Held == [id : Id, val : Everything]
Outcome == [created : SUBSET Everything, skipped : SUBSET Everything,
            failed : SUBSET Everything, logged : BOOLEAN]
Order == (UNION {Command[p] : p \in Process}) \union {[op |-> "none"]}

(* The stages of the commands.                                             *)
Before == {"create", "ask-clean", "list-clean", "clean", "ask-copy", "list-copy"}
After == {"ask-switch", "switch", "done"}
Stage ==
    Before \union After
    \union {"idle", "copy", "list-stale", "choose", "ask-prune", "prune", "ask-dane",
            "add-dane", "audit", "failed"}

Shape ==
    /\ pc \in [Process -> Stage] /\ order \in [Process -> Order]
    /\ pulled \in [Process -> SUBSET Everything]
    /\ list \in [Process -> SUBSET Held]
    /\ todo \in [Process -> SUBSET Everything]
    /\ did \in [Process -> Outcome]
    /\ overtaken \in [Process -> BOOLEAN]

(* The ids of the zone: one record each; of an RRset provider, its value.  *)
Unique(S) == \A r, s \in S : r.id = s.id => r = s
Named(S) == kind = "rrset" => \A r \in S : r.id = <<r.val>>
ZoneSound ==
    /\ kind \in {"id", "rrset"}
    /\ zone \subseteq Held /\ IsFiniteSet(zone) /\ Unique(zone) /\ Named(zone)

(* A listed record is still what its id stands for, or somebody has turned *)
(* it into something else; undisturbed, it is still there.                 *)
StillListed(p, S) ==
    \A r \in list[p], s \in S : r.id = s.id => r = s \/ s.val \in EditTo
ListSound(p) ==
    /\ IsFiniteSet(list[p]) /\ Named(list[p]) /\ StillListed(p, zone)
    /\ ~overtaken[p] => list[p] \subseteq zone

(* What each list holds at the stages of a command.                        *)
Managed == {Slot(d) : d \in Desired}
StageSound(p) ==
    /\ pc[p] \in Before \union {"copy", "ask-switch", "switch"} => order[p].op = "migrate"
    /\ pc[p] \in {"list-stale", "choose", "ask-prune", "prune"} => order[p].op = "check"
    /\ pc[p] \in {"ask-dane", "add-dane"} => order[p].op = "dane"
    /\ pc[p] = "audit" => order[p].op \in {"check", "dane"}
    /\ pc[p] = "clean" => \A r \in list[p] : r.val.type \notin Delegation
    /\ pc[p] \in {"choose", "ask-prune", "prune"} =>
          \A r \in list[p] : Slot(r.val) \notin Managed

BaseInv ==
    /\ Shape
    /\ ZoneSound
    /\ \A p \in Process : ListSound(p) /\ StageSound(p)

LEMMA Smallest ==
    ASSUME NEW S \in SUBSET Nat, S # {}
    PROVE  \E i \in S : \A j \in S : i <= j
  <1>1. PICK i \in S : \A j \in S : <<j, i>> \notin OpToRel(<, Nat)
    BY NatLessThanWellFounded, WFMin
  <1>2. \A j \in S : ~(j < i)
    BY <1>1 DEF OpToRel
  <1> QED
    BY <1>2

LEMMA NewIdIsNew ==
    ASSUME BaseInv, kind = "id", NEW v
    PROVE  NewId(v) \in {<<i>> : i \in Nat} /\ NewId(v) \notin Known
  <1>1. IsFiniteSet(UNION {list[p] : p \in Process})
    <2> DEFINE f == [p \in Process |-> list[p]]
    <2>1. f \in Surjection(Process, {list[p] : p \in Process})
      BY DEF Surjection
    <2>2. IsFiniteSet({list[p] : p \in Process})
      BY <2>1, FS_Surjection, ZoneMigrateAssumption
    <2>3. \A T \in {list[p] : p \in Process} : IsFiniteSet(T)
      BY DEF BaseInv, ListSound
    <2> QED
      BY <2>2, <2>3, FS_UNION
  <1> DEFINE all == zone \union UNION {list[p] : p \in Process}
             g == [r \in all |-> r.id]
  <1>2. IsFiniteSet(all)
    BY <1>1, FS_Union DEF BaseInv, ZoneSound
  <1>3. g \in Surjection(all, Known)
    BY DEF Surjection, Known
  <1>4. IsFiniteSet(Known) /\ Cardinality(Known) \in Nat
    <2> HIDE DEF all, g
    <2> QED
      BY <1>2, <1>3, FS_Surjection, FS_CardinalityType
  <1> DEFINE n == Cardinality(Known)
             free == {i \in 1 .. n + 1 : <<i>> \notin Known}
  <1>5. free # {}
    <2> SUFFICES ASSUME free = {} PROVE FALSE
      OBVIOUS
    <2> DEFINE h == [i \in 1 .. n + 1 |-> <<i>>]
    <2>1. h \in [1 .. n + 1 -> Known]
      OBVIOUS
    <2>2. IsFiniteSet(1 .. n + 1) /\ Cardinality(1 .. n + 1) = n + 1
      BY <1>4, FS_Interval
    <2>3. \E x, y \in 1 .. n + 1 : x # y /\ h[x] = h[y]
      <3> HIDE DEF h
      <3> QED
        BY <1>4, <2>1, <2>2, FS_PigeonHole
    <2> QED
      BY <2>3
  <1>6. free \in SUBSET Nat
    BY <1>4
  <1>7. \E i \in free : \A j \in free : i <= j
    <2> HIDE DEF free
    <2> QED
      BY <1>5, <1>6, Smallest
  <1>8. NewId(v) = <<CHOOSE i \in free : \A j \in free : i <= j>>
    BY DEF NewId
  <1>9. PICK k \in free : NewId(v) = <<k>>
    <2> HIDE DEF free
    <2> QED
      BY <1>7, <1>8
  <1> QED
    BY <1>4, <1>9

-----------------------------------------------------------------------------
(* What the calls do to the zone.                                          *)

ZoneStays == /\ ZoneSound'
             /\ \A q \in Process : StillListed(q, zone')

LEMMA AddedIsSound ==
    ASSUME BaseInv, NEW v \in Everything, zone' = Added(v), kind' = kind
    PROVE  ZoneStays /\ zone \subseteq zone' /\ \A s \in zone' \ zone : s.val = v
  <1>1. ZoneSound /\ \A p \in Process : ListSound(p) /\ list[p] \subseteq Held
    BY DEF BaseInv, Shape
  <1>2. CASE kind = "rrset" /\ v \in Values(zone)
    <2>1. zone' = zone
      BY <1>2 DEF Added
    <2> QED
      BY <1>1, <2>1 DEF ZoneStays, ZoneSound, ListSound, Unique, Named
  <1>3. CASE ~(kind = "rrset" /\ v \in Values(zone))
    <2>1. PICK x : x = [id |-> NewId(v), val |-> v]
      OBVIOUS
    <2>2. zone' = zone \union {x} /\ x.id = NewId(v) /\ x.val = v
      BY <1>3, <2>1 DEF Added
    <2>3. kind = "rrset" => NewId(v) = <<v>>
      BY DEF NewId
    <2>4. kind = "id" => NewId(v) \in {<<i>> : i \in Nat} /\ NewId(v) \notin Known
      BY NewIdIsNew
    <2>5. NewId(v) \in Id
      BY <1>1, <2>3, <2>4 DEF Id, ZoneSound
    <2>6. x \in Held
      BY <2>1, <2>5 DEF Held
    <2>7. IsFiniteSet(zone')
      BY <1>1, <2>2, FS_AddElement DEF ZoneSound
    <2>8. CASE kind = "rrset"
      <3>1. Named(zone')
        BY <1>1, <2>2, <2>3, <2>8 DEF ZoneSound, Named
      <3>2. \A s \in zone : s.id # x.id
        BY <1>1, <1>3, <2>2, <2>3, <2>8 DEF ZoneSound, Named, Values
      <3>3. ZoneSound'
        BY <1>1, <2>2, <2>6, <2>7, <3>1, <3>2 DEF ZoneSound, Unique, Named
      <3>4. \A q \in Process : \A r \in list[q] : r.id = x.id => r = x
        <4> SUFFICES ASSUME NEW q \in Process, NEW r \in list[q], r.id = x.id
                     PROVE  r = x
          OBVIOUS
        <4>1. r.id = <<r.val>> /\ x.id = <<x.val>> /\ r \in Held
          BY <1>1, <2>2, <2>3, <2>8 DEF ListSound, Named
        <4>2. <<r.val>> = <<x.val>>
          BY <4>1
        <4>3. r.val = x.val
          BY <4>2
        <4> QED
          BY <2>6, <4>1, <4>3 DEF Held
      <3> QED
        BY <1>1, <2>2, <3>3, <3>4 DEF ZoneStays, ListSound, StillListed
    <2>9. CASE kind = "id"
      <3>1. /\ \A s \in zone : s.id # x.id
            /\ \A q \in Process : \A r \in list[q] : r.id # x.id
        BY <2>2, <2>4, <2>9 DEF Known
      <3>2. ZoneSound'
        BY <1>1, <2>2, <2>6, <2>7, <2>9, <3>1 DEF ZoneSound, Unique, Named
      <3> QED
        BY <1>1, <2>2, <3>1, <3>2 DEF ZoneStays, ListSound, StillListed
    <2> QED
      BY <1>1, <2>2, <2>8, <2>9 DEF ZoneSound
  <1> QED
    BY <1>2, <1>3

LEMMA ShrunkIsSound ==
    ASSUME BaseInv, zone' \in SUBSET zone, kind' = kind
    PROVE  ZoneStays
  <1>1. ZoneSound /\ \A p \in Process : ListSound(p)
    BY DEF BaseInv
  <1>2. IsFiniteSet(zone')
    BY <1>1, FS_Subset DEF ZoneSound
  <1>3. ZoneSound'
    BY <1>1, <1>2 DEF ZoneSound, Unique, Named
  <1> QED
    BY <1>1, <1>3 DEF ZoneStays, ListSound, StillListed

(* A record a stale list names goes as it was listed, or as somebody edited*)
(* it; nothing else goes.                                                  *)
LEMMA WhatRemovedTakes ==
    ASSUME BaseInv, NEW p \in Process, NEW r \in list[p], NEW s \in zone \ Removed(r)
    PROVE  /\ s = r \/ s.val \in EditTo
           /\ kind = "rrset" \/ ~overtaken[p] => s = r
  <1>1. ZoneSound /\ ListSound(p) /\ list[p] \subseteq Held
    BY DEF BaseInv, Shape
  <1>2. s \in zone /\ s.id = r.id
    BY DEF Removed
  <1>3. s = r \/ s.val \in EditTo
    BY <1>1, <1>2 DEF ListSound, StillListed
  <1>4. CASE kind = "rrset"
    <2>1. s.val = r.val
      BY <1>1, <1>2, <1>4 DEF ListSound, ZoneSound, Named
    <2> QED
      BY <1>1, <1>2, <2>1 DEF ZoneSound, Held
  <1>5. CASE ~overtaken[p]
    BY <1>1, <1>2, <1>5 DEF ListSound, ZoneSound, Unique
  <1> QED
    BY <1>3, <1>4, <1>5

-----------------------------------------------------------------------------
(* A step of one process, for the others.                                  *)

Same(q) == /\ pc'[q] = pc[q] /\ order'[q] = order[q] /\ pulled'[q] = pulled[q]
           /\ list'[q] = list[q] /\ todo'[q] = todo[q] /\ did'[q] = did[q]
Undisturbed(q) == zone' = zone /\ overtaken'[q] = overtaken[q]

LEMMA OthersStay ==
    ASSUME BaseInv, ZoneStays, kind' = kind, NEW q \in Process, Same(q),
           Undisturbed(q) \/ overtaken'[q]
    PROVE  ListSound(q)' /\ StageSound(q)'
  <1>1. ListSound(q) /\ StageSound(q)
    BY DEF BaseInv
  <1>2. StageSound(q)'
    BY <1>1 DEF Same, StageSound
  <1>3. StillListed(q, zone)'
    BY DEF Same, ZoneStays, StillListed
  <1>4. ListSound(q)'
    BY <1>1, <1>3 DEF ListSound, Same, Undisturbed, Named
  <1> QED
    BY <1>2, <1>4

LEMMA StepOfOne ==
    ASSUME BaseInv, ZoneStays, kind' = kind, Shape', NEW p \in Process,
           \A q \in Process \ {p} : Same(q) /\ (Undisturbed(q) \/ overtaken'[q]),
           ListSound(p)', StageSound(p)'
    PROVE  BaseInv'
  <1>1. ASSUME NEW q \in Process \ {p}
        PROVE  ListSound(q)' /\ StageSound(q)'
    BY <1>1, OthersStay
  <1> QED
    BY <1>1 DEF BaseInv, ZoneStays

(* What Noted says of the others.                                          *)
LEMMA NotedByOthers ==
    ASSUME NEW p \in Process, Shape, Noted(p) \/ UNCHANGED <<zone, overtaken>>
    PROVE  /\ overtaken' \in [Process -> BOOLEAN]
           /\ overtaken'[p] = overtaken[p]
           /\ \A q \in Process \ {p} : Undisturbed(q) \/ overtaken'[q]
  BY DEF Shape, Noted, Others, Undisturbed

-----------------------------------------------------------------------------
(* The steps keep the base of the invariant.                               *)

LEMMA PulledIsKnown ==
    ASSUME NEW p \in Process, NEW c, Pull(p, c), pulled \in [Process -> SUBSET Everything]
    PROVE  pulled' \in [Process -> SUBSET Everything]
  <1>1. PullAXFR \subseteq Everything /\ ParseZonefile \subseteq Everything
    BY DEF PullAXFR, ParseZonefile, Everything
  <1>2. SourceZone \subseteq Everything /\ Found \subseteq Everything
    BY DEF Everything
  <1>3. Discover({}) \subseteq Found /\ \A q \in Queries : Discover({q}) \subseteq Found
    BY DEF Found
  <1> QED
    BY <1>1, <1>2, <1>3 DEF Pull

LEMMA FailIsRight ==
    ASSUME BaseInv, ZoneStays, NEW p \in Process, Fail(p), kind' = kind, order' = order,
           Noted(p) \/ UNCHANGED <<zone, overtaken>>
    PROVE  BaseInv'
  <1>1. /\ pc' = [pc EXCEPT ![p] = "failed"]
        /\ pulled' = [pulled EXCEPT ![p] = {}] /\ list' = [list EXCEPT ![p] = {}]
        /\ todo' = [todo EXCEPT ![p] = {}] /\ did' = [did EXCEPT ![p] = Undone]
    BY DEF Fail, Goto
  <1>2. Shape
    BY DEF BaseInv
  <1>3. Undone \in Outcome
    BY DEF Undone, Outcome
  <1>8. /\ overtaken' \in [Process -> BOOLEAN]
        /\ \A q \in Process \ {p} : Undisturbed(q) \/ overtaken'[q]
    BY <1>2, NotedByOthers, Zenon
  <1>4. Shape'
    <2>1. did' \in [Process -> Outcome]
      BY <1>1, <1>2, <1>3 DEF Shape
    <2> QED
      BY <1>1, <1>2, <1>8, <2>1 DEF Shape, Stage
  <1>5. \A q \in Process \ {p} : Same(q) /\ (Undisturbed(q) \/ overtaken'[q])
    BY <1>1, <1>2, <1>8 DEF Shape, Same
  <1>6. pc'[p] = "failed" /\ list'[p] = {}
    BY <1>1, <1>2 DEF Shape
  <1>7. ListSound(p)' /\ StageSound(p)'
    BY <1>6, FS_EmptySet DEF ListSound, StillListed, Named, StageSound, Before
  <1> QED
    BY <1>4, <1>5, <1>7, StepOfOne

(* A step that moves one process on and leaves the zone alone.             *)
LEMMA MoveIsRight ==
    ASSUME BaseInv, NEW p \in Process, NEW next \in Stage, pc' = [pc EXCEPT ![p] = next],
           UNCHANGED <<kind, zone, order, pulled, todo, overtaken>>,
           NEW L \in SUBSET Held, list' = [list EXCEPT ![p] = L],
           L \subseteq zone \/ L \subseteq list[p],
           NEW o \in Outcome, did' = [did EXCEPT ![p] = o],
           StageSound(p)'
    PROVE  BaseInv'
  <1>1. Shape /\ ZoneSound /\ ListSound(p)
    BY DEF BaseInv
  <1>2. Shape'
    BY <1>1 DEF Shape
  <1>3. ZoneStays
    BY ShrunkIsSound
  <1>4. \A q \in Process \ {p} : Same(q) /\ Undisturbed(q)
    BY <1>1 DEF Shape, Same, Undisturbed
  <1>5. list'[p] = L
    BY <1>1 DEF Shape
  <1>6. IsFiniteSet(L)
    BY <1>1, FS_Subset DEF ZoneSound, ListSound
  <1>7. ListSound(p)'
    BY <1>1, <1>5, <1>6 DEF ListSound, StillListed, Named, ZoneSound, Unique
  <1> QED
    BY <1>2, <1>3, <1>4, <1>7, StepOfOne

LEMMA BeginIsRight ==
    ASSUME BaseInv, NEW p \in Process, NEW c \in Order, NEW first \in Stage,
           Begin(p, c, first),
           pulled' \in [Process -> SUBSET Everything],
           \A q \in Process \ {p} : pulled'[q] = pulled[q],
           NEW T \in SUBSET Everything, todo' = [todo EXCEPT ![p] = T],
           first \in Before => c.op = "migrate",
           first = "list-stale" => c.op = "check",
           first = "ask-dane" => c.op = "dane",
           first \in Before \union {"list-stale", "ask-dane"}
    PROVE  BaseInv'
  <1>1. Shape
    BY DEF BaseInv
  <1>2. /\ order' = [order EXCEPT ![p] = c] /\ did' = [did EXCEPT ![p] = Undone]
        /\ list' = [list EXCEPT ![p] = {}] /\ overtaken' = [overtaken EXCEPT ![p] = FALSE]
        /\ pc' = [pc EXCEPT ![p] = first] /\ UNCHANGED <<kind, zone>>
    BY DEF Begin, Goto, target
  <1>3. Undone \in Outcome
    BY DEF Undone, Outcome
  <1>4. Shape'
    BY <1>1, <1>2, <1>3 DEF Shape
  <1>5. ZoneStays
    BY <1>2, ShrunkIsSound
  <1>6. \A q \in Process \ {p} : Same(q) /\ Undisturbed(q)
    BY <1>1, <1>2 DEF Shape, Same, Undisturbed
  <1>7. list'[p] = {} /\ pc'[p] = first /\ order'[p] = c
    BY <1>1, <1>2 DEF Shape
  <1>8. ListSound(p)'
    BY <1>7, FS_EmptySet DEF ListSound, StillListed, Named
  <1>9. StageSound(p)'
    BY <1>7 DEF StageSound, Before
  <1> QED
    BY <1>2, <1>4, <1>5, <1>6, <1>8, <1>9, StepOfOne

LEMMA StartWithIsRight ==
    ASSUME BaseInv, NEW p \in Process, NEW c \in Order, StartWith(p, c)
    PROVE  BaseInv'
  <1>1. Shape
    BY DEF BaseInv
  <1>2. CASE StartMigrate(p, c)
    <2>1. PICK first \in {"create", "ask-clean", "ask-copy"} : Begin(p, c, first)
      BY <1>2 DEF StartMigrate
    <2>2. c.op = "migrate" /\ Pull(p, c)
      BY <1>2 DEF StartMigrate
    <2>3. pulled' \in [Process -> SUBSET Everything]
      BY <1>1, <2>2, PulledIsKnown DEF Shape
    <2>4. \A q \in Process \ {p} : pulled'[q] = pulled[q]
      BY <1>1, <2>2 DEF Pull, Shape
    <2>5. Copied(pulled'[p]) \in SUBSET Everything
      BY <2>3 DEF Copied
    <2>6. todo' = [todo EXCEPT ![p] = Copied(pulled'[p])]
      BY <1>2 DEF StartMigrate
    <2>7. /\ first \in Stage /\ first \in Before \union {"list-stale", "ask-dane"}
          /\ first # "list-stale" /\ first # "ask-dane"
      BY <2>1 DEF Before, Stage
    <2> QED
      BY <2>1, <2>2, <2>3, <2>4, <2>5, <2>6, <2>7, BeginIsRight, Zenon
  <1>3. CASE StartCheck(p, c) \/ StartPublishDANE(p, c)
    <2>1. PICK first \in {"list-stale", "ask-dane"} :
             /\ Begin(p, c, first)
             /\ first = "list-stale" => c.op = "check"
             /\ first = "ask-dane" => c.op = "dane"
      BY <1>3 DEF StartCheck, StartPublishDANE
    <2>2. todo' = [todo EXCEPT ![p] = {}] /\ pulled' = pulled
      BY <1>3 DEF StartCheck, StartPublishDANE
    <2>3. /\ {} \in SUBSET Everything /\ pulled' \in [Process -> SUBSET Everything]
          /\ \A q \in Process \ {p} : pulled'[q] = pulled[q]
      BY <1>1, <2>2 DEF Shape
    <2>4. /\ first \in Stage /\ first \in Before \union {"list-stale", "ask-dane"}
          /\ first \notin Before
      BY <2>1 DEF Before, Stage
    <2> QED
      BY <2>1, <2>2, <2>3, <2>4, BeginIsRight, Zenon
  <1> QED
    BY <1>2, <1>3 DEF StartWith

LEMMA EnsureZoneIsRight ==
    ASSUME BaseInv, NEW p \in Process, EnsureZone(p)
    PROVE  BaseInv'
  <1>1. Shape /\ StageSound(p)
    BY DEF BaseInv
  <1>2. UNCHANGED <<kind, zone, order, overtaken>>
    BY DEF EnsureZone
  <1>3. ZoneStays
    BY <1>2, ShrunkIsSound
  <1>4. CASE Fail(p)
    BY <1>2, <1>3, <1>4, FailIsRight
  <1>5. CASE ~Fail(p)
    <2>1. PICK next \in {"ask-clean", "ask-copy"} :
             pc' = [pc EXCEPT ![p] = next] /\ UNCHANGED memory
      BY <1>5 DEF EnsureZone, Goto
    <2>2. /\ list' = [list EXCEPT ![p] = list[p]] /\ did' = [did EXCEPT ![p] = did[p]]
          /\ UNCHANGED <<pulled, todo>> /\ list[p] \in SUBSET Held /\ did[p] \in Outcome
      BY <1>1, <2>1 DEF Shape, memory
    <2>3. pc[p] = "create" /\ pc'[p] = next /\ next \in Stage
      BY <1>1, <2>1 DEF EnsureZone, Shape, Stage, Before
    <2>4. StageSound(p)'
      BY <1>1, <1>2, <2>1, <2>3 DEF StageSound, Before
    <2> QED
      BY <1>2, <2>1, <2>2, <2>3, <2>4, MoveIsRight, Zenon
  <1> QED
    BY <1>4, <1>5

LEMMA AnswerIsRight ==
    ASSUME BaseInv, NEW p \in Process, NEW q \in DOMAIN Question,
           Accept(p, q) \/ Decline(p, q)
    PROVE  BaseInv'
  <1>1. Shape /\ StageSound(p)
    BY DEF BaseInv
  <1>2. UNCHANGED <<kind, zone, order, overtaken>>
    BY DEF Accept, Decline, target
  <1>3. ZoneStays
    BY <1>2, ShrunkIsSound
  <1>4. CASE Fail(p)
    BY <1>2, <1>3, <1>4, FailIsRight
  <1>5. CASE ~Fail(p)
    <2>1. q \in {"clean", "copy", "prune", "dane", "switch"}
      BY DEF Question
    <2>2. UNCHANGED memory /\ \E next \in {Yes[q], "done"} :
             /\ pc' = [pc EXCEPT ![p] = next]
             /\ next = Yes[q] \/ q = "switch"
      BY <1>5 DEF Accept, Decline, Goto
    <2>3. PICK next \in {Yes[q], "done"} :
             /\ pc' = [pc EXCEPT ![p] = next]
             /\ next = Yes[q] \/ q = "switch"
      BY <2>2
    <2>4. /\ list' = [list EXCEPT ![p] = list[p]] /\ did' = [did EXCEPT ![p] = did[p]]
          /\ UNCHANGED <<pulled, todo>> /\ list[p] \in SUBSET Held /\ did[p] \in Outcome
          /\ list'[p] = list[p]
      BY <1>1, <2>2 DEF Shape, memory
    <2>5. pc[p] = Question[q] /\ pc'[p] = next
      BY <1>1, <2>3 DEF Accept, Decline, Shape
    <2>6. \/ pc[p] = "ask-clean" /\ next = "list-clean"
          \/ pc[p] = "ask-copy" /\ next = "list-copy"
          \/ pc[p] = "ask-prune" /\ next = "prune"
          \/ pc[p] = "ask-dane" /\ next = "add-dane"
          \/ pc[p] = "ask-switch" /\ next \in {"switch", "done"}
      BY <2>1, <2>3, <2>5 DEF Question, Yes
    <2>7. next \in Stage
      BY <2>6 DEF Stage, Before, After
    <2>8. StageSound(p)'
      <3>1. order'[p] = order[p]
        BY <1>2
      <3> QED
        BY <1>1, <2>4, <2>5, <2>6, <3>1 DEF StageSound, Before, Managed
    <2> QED
      BY <1>2, <2>3, <2>4, <2>7, <2>8, MoveIsRight, Zenon
  <1> QED
    BY <1>4, <1>5

LEMMA ListAsIsRight ==
    ASSUME BaseInv, NEW p \in Process, NEW records \in SUBSET zone, NEW next \in Stage,
           ListAs(p, records, next),
           pc'[p] = next /\ list'[p] = records /\ order'[p] = order[p] => StageSound(p)'
    PROVE  BaseInv'
  <1>1. Shape /\ ZoneSound
    BY DEF BaseInv
  <1>2. UNCHANGED <<kind, zone, order, overtaken>>
    BY DEF ListAs, target
  <1>3. ZoneStays
    BY <1>2, ShrunkIsSound
  <1>4. CASE Fail(p)
    BY <1>2, <1>3, <1>4, FailIsRight
  <1>5. CASE ~Fail(p)
    <2>1. /\ list' = [list EXCEPT ![p] = records] /\ pc' = [pc EXCEPT ![p] = next]
          /\ UNCHANGED <<pulled, todo, did>>
      BY <1>5 DEF ListAs, Goto
    <2>2. did' = [did EXCEPT ![p] = did[p]] /\ did[p] \in Outcome /\ records \in SUBSET Held
      BY <1>1, <2>1 DEF Shape, ZoneSound
    <2>3. pc'[p] = next /\ list'[p] = records /\ order'[p] = order[p]
      BY <1>1, <1>2, <2>1 DEF Shape
    <2>4. StageSound(p)'
      BY <2>3
    <2>5. records \subseteq zone \/ records \subseteq list[p]
      OBVIOUS
    <2> QED
      BY <1>2, <2>1, <2>2, <2>4, <2>5, MoveIsRight, Zenon
  <1> QED
    BY <1>4, <1>5

LEMMA ListStepsAreRight ==
    ASSUME BaseInv, NEW p \in Process,
           ListForClean(p) \/ ListForCopy(p) \/ ListForCheck(p)
    PROVE  BaseInv'
  <1>1. StageSound(p)
    BY DEF BaseInv
  <1>2. CASE ListForClean(p)
    <2>1. PICK records : records = {r \in zone : r.val.type \notin Delegation}
      OBVIOUS
    <2>2. pc[p] = "list-clean" /\ ListAs(p, records, "clean")
      BY <1>2, <2>1 DEF ListForClean
    <2>3. records \in SUBSET zone /\ "clean" \in Stage
      BY <2>1 DEF Stage, Before
    <2>4. pc'[p] = "clean" /\ list'[p] = records /\ order'[p] = order[p] => StageSound(p)'
      BY <1>1, <2>1, <2>2 DEF StageSound, Before
    <2> QED
      BY <2>2, <2>3, <2>4, ListAsIsRight
  <1>3. CASE ListForCopy(p)
    <2>1. pc[p] = "list-copy" /\ ListAs(p, zone, "copy")
      BY <1>3 DEF ListForCopy
    <2>2. zone \in SUBSET zone /\ "copy" \in Stage
      BY DEF Stage
    <2>3. pc'[p] = "copy" /\ list'[p] = zone /\ order'[p] = order[p] => StageSound(p)'
      BY <1>1, <2>1 DEF StageSound, Before
    <2> QED
      BY <2>1, <2>2, <2>3, ListAsIsRight
  <1>4. CASE ListForCheck(p)
    <2>1. PICK next \in {"done", "choose"} : ListAs(p, Stale(zone), next)
      BY <1>4 DEF ListForCheck
    <2>2. pc[p] = "list-stale"
      BY <1>4 DEF ListForCheck
    <2>3. Stale(zone) \in SUBSET zone /\ next \in Stage
      BY <2>1 DEF Stale, Stage, After
    <2>4. pc'[p] = next /\ list'[p] = Stale(zone) /\ order'[p] = order[p] => StageSound(p)'
      BY <1>1, <2>1, <2>2 DEF StageSound, Before, Stale, Managed
    <2> QED
      BY <2>1, <2>3, <2>4, ListAsIsRight
  <1> QED
    BY <1>2, <1>3, <1>4

LEMMA SelectIndicesIsRight ==
    ASSUME BaseInv, NEW p \in Process, SelectIndices(p)
    PROVE  BaseInv'
  <1>1. Shape /\ StageSound(p)
    BY DEF BaseInv
  <1>2. UNCHANGED <<kind, zone, order, overtaken>> /\ pc[p] = "choose"
    BY DEF SelectIndices, target
  <1>3. ZoneStays
    BY <1>2, ShrunkIsSound
  <1>4. CASE Fail(p)
    BY <1>2, <1>3, <1>4, FailIsRight
  <1>5. CASE ~Fail(p)
    <2>1. PICK chosen \in SUBSET list[p] :
             /\ list' = [list EXCEPT ![p] = chosen]
             /\ \E next \in {"done", "ask-prune"} : pc' = [pc EXCEPT ![p] = next]
             /\ UNCHANGED <<pulled, todo, did>>
      BY <1>5 DEF SelectIndices, Goto
    <2>2. PICK next \in {"done", "ask-prune"} : pc' = [pc EXCEPT ![p] = next]
      BY <2>1
    <2>3. did' = [did EXCEPT ![p] = did[p]] /\ did[p] \in Outcome /\ chosen \in SUBSET Held
      BY <1>1, <2>1 DEF Shape
    <2>4. pc'[p] = next /\ list'[p] = chosen /\ next \in Stage
      BY <1>1, <2>1, <2>2 DEF Shape, Stage, After
    <2>5. StageSound(p)'
      BY <1>1, <1>2, <2>1, <2>2, <2>4 DEF StageSound, Before, Managed
    <2> QED
      BY <1>2, <2>1, <2>2, <2>3, <2>4, <2>5, MoveIsRight, Zenon
  <1> QED
    BY <1>4, <1>5

LEMMA RemoveNextIsRight ==
    ASSUME BaseInv, NEW p \in Process, NEW next, RemoveNext(p, next),
           \/ Clean(p) /\ next = "ask-copy"
           \/ Prune(p) /\ next = "audit"
    PROVE  BaseInv'
  <1>1. Shape /\ ZoneSound /\ ListSound(p) /\ StageSound(p)
    BY DEF BaseInv
  <1>2. UNCHANGED <<kind, order>>
    BY DEF Clean, Prune
  <1>3. order'[p] = order[p] /\ next \in Stage
    BY <1>2 DEF Stage, Before
  <1>4. CASE list[p] = {} /\ Goto(p, next) /\ UNCHANGED <<zone, memory, overtaken>>
    <2>1. /\ list' = [list EXCEPT ![p] = list[p]] /\ did' = [did EXCEPT ![p] = did[p]]
          /\ UNCHANGED <<pulled, todo>> /\ list[p] \in SUBSET Held /\ did[p] \in Outcome
          /\ pc' = [pc EXCEPT ![p] = next]
      BY <1>1, <1>4 DEF Shape, memory, Goto
    <2>2. pc'[p] = next /\ list'[p] = {}
      BY <1>1, <1>4, <2>1 DEF Shape
    <2>3. StageSound(p)'
      BY <1>1, <1>3, <2>2 DEF Clean, Prune, StageSound, Before
    <2> QED
      BY <1>2, <1>3, <1>4, <2>1, <2>3, MoveIsRight, Zenon
  <1>5. ASSUME NEW r \in list[p], zone' = Removed(r), list' = [list EXCEPT ![p] = @ \ {r}],
               UNCHANGED <<pc, pulled, todo, did>>, Noted(p)
        PROVE  BaseInv'
    <2>1. zone' \in SUBSET zone
      BY <1>5 DEF Removed
    <2>2. ZoneStays
      BY <1>2, <2>1, ShrunkIsSound
    <2>3. /\ overtaken' \in [Process -> BOOLEAN] /\ overtaken'[p] = overtaken[p]
          /\ \A q \in Process \ {p} : Undisturbed(q) \/ overtaken'[q]
      BY <1>1, <1>5, NotedByOthers, Zenon
    <2>4. Shape'
      BY <1>1, <1>2, <1>5, <2>3 DEF Shape
    <2>5. \A q \in Process \ {p} : Same(q)
      BY <1>1, <1>2, <1>5 DEF Shape, Same
    <2>6. list'[p] = list[p] \ {r} /\ pc'[p] = pc[p]
      BY <1>1, <1>5 DEF Shape
    <2>7. IsFiniteSet(list'[p])
      BY <1>1, <2>6, FS_RemoveElement DEF ListSound
    <2>8. ~overtaken'[p] => list'[p] \subseteq zone'
      <3> SUFFICES ASSUME ~overtaken[p], NEW s \in list[p] \ {r}
                   PROVE  s \in Removed(r)
        BY <1>5, <2>3, <2>6
      <3>1. s \in zone /\ r \in zone
        BY <1>1 DEF ListSound
      <3> QED
        BY <1>1, <3>1 DEF ZoneSound, Unique, Removed
    <2>9. StillListed(p, zone)'
      BY <2>2, <2>6 DEF ZoneStays, StillListed
    <2>10. ListSound(p)'
      BY <1>1, <1>2, <2>6, <2>7, <2>8, <2>9 DEF ListSound, Named
    <2>11. StageSound(p)'
      BY <1>1, <1>3, <2>6 DEF StageSound, Managed
    <2> QED
      BY <1>2, <2>2, <2>3, <2>4, <2>5, <2>10, <2>11, StepOfOne
  <1>6. ASSUME NEW r \in list[p], zone' \in {zone, Removed(r)}, Fail(p), Noted(p)
        PROVE  BaseInv'
    <2>1. zone' \in SUBSET zone
      BY <1>6 DEF Removed
    <2>2. ZoneStays
      BY <1>2, <2>1, ShrunkIsSound
    <2> QED
      BY <1>2, <1>6, <2>2, FailIsRight
  <1> QED
    BY <1>4, <1>5, <1>6 DEF RemoveNext

(* A step that adds at most one record, and moves one process on.          *)
LEMMA AddIsRight ==
    ASSUME BaseInv, NEW p \in Process, NEW v \in Everything, zone' \in {zone, Added(v)},
           Noted(p), UNCHANGED <<kind, order, pulled, list>>,
           NEW next \in Stage, pc' = [pc EXCEPT ![p] = next],
           todo' \in [Process -> SUBSET Everything],
           NEW o \in Outcome, did' = [did EXCEPT ![p] = o],
           \A q \in Process \ {p} : todo'[q] = todo[q],
           StageSound(p)'
    PROVE  BaseInv'
  <1>1. Shape /\ ListSound(p)
    BY DEF BaseInv
  <1>2. ZoneStays /\ zone \subseteq zone'
    <2>1. CASE zone' = zone
      BY <2>1, ShrunkIsSound
    <2>2. CASE zone' = Added(v)
      BY <2>2, AddedIsSound
    <2> QED
      BY <2>1, <2>2
  <1>3. /\ overtaken' \in [Process -> BOOLEAN] /\ overtaken'[p] = overtaken[p]
        /\ \A q \in Process \ {p} : Undisturbed(q) \/ overtaken'[q]
    BY <1>1, NotedByOthers, Zenon
  <1>4. Shape'
    BY <1>1, <1>3 DEF Shape
  <1>5. \A q \in Process \ {p} : Same(q)
    BY <1>1 DEF Shape, Same
  <1>6. ListSound(p)'
    <2>1. list'[p] = list[p]
      OBVIOUS
    <2>2. StillListed(p, zone)'
      BY <1>2, <2>1 DEF ZoneStays, StillListed
    <2> QED
      BY <1>1, <1>2, <1>3, <2>1, <2>2 DEF ListSound, Named
  <1> QED
    BY <1>2, <1>3, <1>4, <1>5, <1>6, StepOfOne

LEMMA MigrateIsRight ==
    ASSUME BaseInv, NEW p \in Process, Migrate(p)
    PROVE  BaseInv'
  <1>1. Shape /\ StageSound(p)
    BY DEF BaseInv
  <1>2. pc[p] = "copy" /\ UNCHANGED <<kind, order, pulled, list, pc>>
    BY DEF Migrate
  <1>3. PICK v \in todo[p] :
           /\ todo' = [todo EXCEPT ![p] = @ \ {v}]
           /\ \/ did' = [did EXCEPT ![p].skipped = @ \union {v}]
              \/ did' = [did EXCEPT ![p].created = @ \union {v}]
              \/ did' = [did EXCEPT ![p].failed = @ \union {v}]
           /\ zone' \in {zone, Added(v)}
           /\ Noted(p)
    BY DEF Migrate
  <1>4. v \in Everything
    BY <1>1 DEF Shape
  <1>5. todo' \in [Process -> SUBSET Everything] /\ \A q \in Process \ {p} : todo'[q] = todo[q]
    BY <1>1, <1>3 DEF Shape
  <1>6. pc' = [pc EXCEPT ![p] = "copy"] /\ "copy" \in Stage
    BY <1>1, <1>2 DEF Shape, Stage
  <1>7. \E o \in Outcome : did' = [did EXCEPT ![p] = o]
    <2>1. did[p] \in Outcome
      BY <1>1 DEF Shape
    <2>2. /\ [did[p] EXCEPT !.skipped = @ \union {v}] \in Outcome
          /\ [did[p] EXCEPT !.created = @ \union {v}] \in Outcome
          /\ [did[p] EXCEPT !.failed = @ \union {v}] \in Outcome
      BY <1>4, <2>1 DEF Outcome
    <2> QED
      BY <1>3, <2>2
  <1>8. StageSound(p)'
    BY <1>1, <1>2 DEF StageSound, Managed
  <1> QED
    BY <1>2, <1>3, <1>4, <1>5, <1>6, <1>7, <1>8, AddIsRight

LEMMA AddTLSAIsRight ==
    ASSUME BaseInv, NEW p \in Process, AddTLSA(p)
    PROVE  BaseInv'
  <1>1. Shape /\ StageSound(p)
    BY DEF BaseInv
  <1>2. /\ pc[p] = "add-dane" /\ UNCHANGED <<kind, order>> /\ Noted(p)
        /\ zone' \in {zone, Added(Tlsa)}
    BY DEF AddTLSA
  <1>3. Tlsa \in Everything
    BY DEF Everything
  <1>4. CASE Fail(p)
    <2>1. ZoneStays
      <3>1. CASE zone' = zone
        BY <1>2, <3>1, ShrunkIsSound
      <3>2. CASE zone' = Added(Tlsa)
        BY <1>2, <1>3, <3>2, AddedIsSound
      <3> QED
        BY <1>2, <3>1, <3>2
    <2> QED
      BY <1>2, <1>4, <2>1, FailIsRight
  <1>5. CASE ~Fail(p)
    <2>1. pc' = [pc EXCEPT ![p] = "audit"] /\ UNCHANGED memory
      BY <1>5 DEF AddTLSA, Goto
    <2>2. /\ did' = [did EXCEPT ![p] = did[p]] /\ did[p] \in Outcome
          /\ todo' \in [Process -> SUBSET Everything]
          /\ UNCHANGED <<pulled, list, todo>> /\ pc'[p] = "audit" /\ "audit" \in Stage
      BY <1>1, <2>1 DEF Shape, memory, Stage
    <2>3. StageSound(p)'
      BY <1>1, <1>2, <2>2 DEF StageSound, Before
    <2> QED
      BY <1>2, <1>3, <2>1, <2>2, <2>3, AddIsRight
  <1> QED
    BY <1>4, <1>5

LEMMA EndingsAreRight ==
    ASSUME BaseInv, NEW p \in Process,
           Report(p) \/ Switch(p) \/ Record(p) \/ Crash(p)
    PROVE  BaseInv'
  <1>1. Shape /\ StageSound(p)
    BY DEF BaseInv
  <1>2. UNCHANGED <<kind, zone, order, overtaken>>
    BY DEF Report, Switch, Record, Crash, target
  <1>3. ZoneStays
    BY <1>2, ShrunkIsSound
  <1>4. CASE Fail(p)
    BY <1>2, <1>3, <1>4, FailIsRight
  <1>5. CASE ~Fail(p)
    <2>1. /\ UNCHANGED <<pulled, todo>>
          /\ \E L \in {{}, list[p]} : list' = [list EXCEPT ![p] = L]
          /\ \E o \in {did[p], [did[p] EXCEPT !.logged = TRUE]} : did' = [did EXCEPT ![p] = o]
          /\ \/ Goto(p, "done") /\ pc[p] \in {"switch", "audit"}
             \/ pc[p] = "copy" /\ \E next \in {"ask-switch", "done"} : Goto(p, next)
      BY <1>1, <1>5 DEF Report, Switch, Record, Crash, Shape
    <2>2. PICK L \in {{}, list[p]} : list' = [list EXCEPT ![p] = L]
      BY <2>1
    <2>3. \E o \in Outcome : did' = [did EXCEPT ![p] = o]
      <3>1. did[p] \in Outcome
        BY <1>1 DEF Shape
      <3>2. [did[p] EXCEPT !.logged = TRUE] \in Outcome
        BY <3>1 DEF Outcome
      <3> QED
        BY <2>1, <3>1, <3>2
    <2>4. PICK o \in Outcome : did' = [did EXCEPT ![p] = o]
      BY <2>3
    <2>5. PICK next \in After :
             /\ pc' = [pc EXCEPT ![p] = next] /\ next # "switch"
             /\ next = "ask-switch" => pc[p] = "copy"
      BY <2>1 DEF Goto, After
    <2>6. pc'[p] = next /\ next \in Stage /\ L \in SUBSET Held /\ L \subseteq list[p]
      BY <1>1, <2>2, <2>5 DEF Shape, Stage
    <2>7. StageSound(p)'
      BY <1>1, <1>2, <2>5, <2>6 DEF StageSound, Before, After
    <2> QED
      BY <1>2, <2>1, <2>2, <2>4, <2>5, <2>6, <2>7, MoveIsRight, Zenon
  <1> QED
    BY <1>4, <1>5

LEMMA ForeignEditIsRight ==
    ASSUME BaseInv, ForeignEdit
    PROVE  BaseInv'
  <1>1. /\ ZoneSound /\ Shape
        /\ \A q \in Process : ListSound(q) /\ list[q] \subseteq Held /\ StageSound(q)
    BY DEF BaseInv, Shape
  <1>2. /\ UNCHANGED <<kind, pc, order, pulled, list, todo, did>>
        /\ overtaken' = [p \in Process |-> TRUE]
    BY DEF ForeignEdit, process, memory
  <1>3. PICK r \in zone, v \in EditTo :
           /\ v \notin Values(zone)
           /\ zone' = (zone \ {r}) \union
                         {[id |-> IF kind = "id" THEN r.id ELSE <<v>>, val |-> v]}
    BY DEF ForeignEdit
  <1>4. PICK x : x = [id |-> IF kind = "id" THEN r.id ELSE <<v>>, val |-> v]
    OBVIOUS
  <1>5. /\ zone' = (zone \ {r}) \union {x} /\ x.val = v
        /\ kind = "id" => x.id = r.id
        /\ kind = "rrset" => x.id = <<v>>
    BY <1>3, <1>4
  <1>6. v \in Everything
    BY DEF Everything
  <1>7. x \in Held
    <2>1. r.id \in Id /\ <<v>> \in Id
      BY <1>1, <1>6 DEF ZoneSound, Held, Id
    <2> QED
      BY <1>4, <1>6, <2>1 DEF Held
  <1>8. IsFiniteSet(zone')
    BY <1>1, <1>5, FS_RemoveElement, FS_AddElement DEF ZoneSound
  <1>9. \A s \in zone \ {r} : s.id # x.id
    <2> SUFFICES ASSUME NEW s \in zone \ {r}, s.id = x.id
                 PROVE  FALSE
      OBVIOUS
    <2>1. CASE kind = "id"
      BY <1>1, <1>5, <2>1 DEF ZoneSound, Unique
    <2>2. CASE kind = "rrset"
      <3>1. <<s.val>> = <<v>>
        BY <1>1, <1>5, <2>2 DEF ZoneSound, Named
      <3>2. s.val = v
        BY <3>1
      <3> QED
        BY <1>3, <3>2 DEF Values
    <2> QED
      BY <1>1, <2>1, <2>2 DEF ZoneSound
  <1>10. ZoneSound'
    <2>1. Named(zone)'
      BY <1>1, <1>2, <1>5 DEF ZoneSound, Named
    <2> QED
      BY <1>1, <1>2, <1>5, <1>7, <1>8, <1>9, <2>1 DEF ZoneSound, Unique
  <1>11. ASSUME NEW q \in Process
         PROVE  ListSound(q)' /\ StageSound(q)'
    <2>1. StillListed(q, zone)'
      BY <1>1, <1>2, <1>5 DEF ListSound, StillListed
    <2>2. overtaken'[q]
      BY <1>2
    <2>3. StageSound(q)'
      BY <1>1, <1>2 DEF StageSound, Managed
    <2> QED
      BY <1>1, <1>2, <2>1, <2>2, <2>3 DEF ListSound, Named
  <1>12. Shape'
    BY <1>1, <1>2 DEF Shape
  <1> QED
    BY <1>10, <1>11, <1>12 DEF BaseInv

LEMMA Numbering ==
    ASSUME NEW Z, IsFiniteSet(Z)
    PROVE  \E f \in [Z -> 1 .. Cardinality(Z)] : \A v, w \in Z : f[v] = f[w] => v = w
  <1>1. ExistsBijection(1 .. Cardinality(Z), Z)
    BY FS_CardinalityType
  <1>2. ExistsBijection(Z, 1 .. Cardinality(Z))
    BY <1>1, Fun_ExistsBijSymmetric
  <1>3. PICK f : f \in Bijection(Z, 1 .. Cardinality(Z))
    BY <1>2, Fun_ExistsBij
  <1>4. f \in Injection(Z, 1 .. Cardinality(Z))
    BY <1>3 DEF Bijection
  <1> QED
    BY <1>4 DEF Injection, IsInjective

LEMMA InitIsRight ==
    ASSUME Init
    PROVE  BaseInv
  <1>1. PICK Z \in TargetZones :
           LET number == CHOOSE f \in [Z -> 1 .. Cardinality(Z)] :
                             \A v, w \in Z : f[v] = f[w] => v = w
           IN zone = {[id |-> IF kind = "id" THEN <<number[v]>> ELSE <<v>>,
                       val |-> v] : v \in Z}
    BY DEF Init
  <1>2. IsFiniteSet(Z) /\ Z \subseteq Everything /\ kind \in {"id", "rrset"}
    BY ZoneMigrateAssumption DEF Everything, Init
  <1>3. PICK number \in [Z -> 1 .. Cardinality(Z)] :
           /\ \A v, w \in Z : number[v] = number[w] => v = w
           /\ zone = {[id |-> IF kind = "id" THEN <<number[v]>> ELSE <<v>>,
                       val |-> v] : v \in Z}
    <2> DEFINE chosen == CHOOSE f \in [Z -> 1 .. Cardinality(Z)] :
                             \A v, w \in Z : f[v] = f[w] => v = w
    <2>1. \E f \in [Z -> 1 .. Cardinality(Z)] : \A v, w \in Z : f[v] = f[w] => v = w
      BY <1>2, Numbering
    <2>2. /\ chosen \in [Z -> 1 .. Cardinality(Z)]
          /\ \A v, w \in Z : chosen[v] = chosen[w] => v = w
      BY <2>1
    <2>3. zone = {[id |-> IF kind = "id" THEN <<chosen[v]>> ELSE <<v>>,
                   val |-> v] : v \in Z}
      BY <1>1
    <2> HIDE DEF chosen
    <2> QED
      BY <2>2, <2>3
  <1>4. Cardinality(Z) \in Nat
    BY <1>2, FS_CardinalityType
  <1> DEFINE f == [v \in Z |-> [id |-> IF kind = "id" THEN <<number[v]>> ELSE <<v>>,
                                val |-> v]]
  <1>5. f \in Surjection(Z, zone)
    BY <1>3 DEF Surjection
  <1>6. IsFiniteSet(zone)
    <2> HIDE DEF f
    <2> QED
      BY <1>2, <1>5, FS_Surjection
  <1>7. zone \subseteq Held
    <2> SUFFICES ASSUME NEW v \in Z
                 PROVE  [id |-> IF kind = "id" THEN <<number[v]>> ELSE <<v>>, val |-> v]
                            \in Held
      BY <1>3
    <2>1. number[v] \in Nat
      BY <1>4
    <2>2. v \in Everything /\ <<number[v]>> \in Id /\ <<v>> \in Id
      BY <1>2, <2>1 DEF Id
    <2> QED
      BY <2>2 DEF Held
  <1>8. Unique(zone)
    <2> SUFFICES ASSUME NEW v \in Z, NEW w \in Z, f[v].id = f[w].id
                 PROVE  v = w
      BY <1>3 DEF Unique
    <2>1. CASE kind = "id"
      <3>1. <<number[v]>> = <<number[w]>>
        BY <2>1
      <3>2. number[v] = number[w]
        BY <3>1
      <3> QED
        BY <1>3, <3>2
    <2>2. CASE kind # "id"
      <3>1. <<v>> = <<w>>
        BY <2>2
      <3> QED
        BY <3>1
    <2> QED
      BY <2>1, <2>2
  <1>9. ZoneSound
    BY <1>2, <1>3, <1>6, <1>7, <1>8 DEF ZoneSound, Named
  <1>10. Undone \in Outcome /\ [op |-> "none"] \in Order
    BY DEF Undone, Outcome, Order
  <1>11. Shape
    BY <1>10 DEF Init, Shape, Stage
  <1>12. ASSUME NEW q \in Process
         PROVE  ListSound(q) /\ StageSound(q)
    <2>1. list[q] = {} /\ pc[q] = "idle"
      BY <1>12 DEF Init
    <2> QED
      BY <2>1, FS_EmptySet DEF ListSound, Named, StillListed, StageSound, Before
  <1> QED
    BY <1>9, <1>11, <1>12 DEF BaseInv

LEMMA BaseStep ==
    ASSUME BaseInv, [Next]_vars
    PROVE  BaseInv'
  <1>1. Shape
    BY DEF BaseInv
  <1>2. ASSUME NEW p \in Process, Start(p) \/ Again(p)
        PROVE  BaseInv'
    <2>1. order[p] \in Order /\ Command[p] \subseteq Order
      BY <1>1 DEF Shape, Order
    <2>2. \E c \in Order : StartWith(p, c)
      BY <1>2, <2>1 DEF Start, Again
    <2> QED
      BY <2>2, StartWithIsRight
  <1>3. ASSUME NEW p \in Process, Clean(p) \/ Prune(p)
        PROVE  BaseInv'
    BY <1>3, RemoveNextIsRight DEF Clean, Prune
  <1>4. ASSUME NEW p \in Process, Step(p) \/ Crash(p)
        PROVE  BaseInv'
    BY <1>3, <1>4, EnsureZoneIsRight, ListStepsAreRight, MigrateIsRight, EndingsAreRight,
       SelectIndicesIsRight, AddTLSAIsRight, AnswerIsRight DEF Step
  <1>5. ASSUME NEW p \in Process, NEW q \in DOMAIN Question, Decline(p, q)
        PROVE  BaseInv'
    BY <1>5, AnswerIsRight
  <1>6. CASE UNCHANGED vars
    BY <1>6 DEF vars, target, process, memory, BaseInv, Shape, ZoneSound, ListSound, Unique,
            Named, StillListed, StageSound, Managed
  <1> QED
    BY <1>2, <1>4, <1>5, <1>6, ForeignEditIsRight DEF Next

LEMMA BaseHolds == Spec => []BaseInv
  BY InitIsRight, BaseStep, PTL DEF Spec

-----------------------------------------------------------------------------
(* What a step takes out of the zone.                                      *)

LEMMA TakenIsListed ==
    ASSUME NEW p \in Process, Step(p), NEW s \in zone \ zone'
    PROVE  /\ pc[p] \in {"clean", "prune"}
           /\ \E r \in list[p] : s \in zone \ Removed(r)
  <1>1. \A v : zone \subseteq Added(v)
    BY DEF Added
  <1>2. ASSUME EnsureZone(p) \/ ListForClean(p) \/ ListForCopy(p) \/ Report(p) \/ Switch(p)
               \/ ListForCheck(p) \/ SelectIndices(p) \/ Record(p)
               \/ \E q \in DOMAIN Question : Accept(p, q)
        PROVE  zone' = zone
    BY <1>2 DEF EnsureZone, ListForClean, ListForCopy, Report, Switch, ListForCheck,
                SelectIndices, Record, Accept, ListAs, target
  <1>3. ~Migrate(p) /\ ~AddTLSA(p)
    BY <1>1 DEF Migrate, AddTLSA
  <1>4. CASE Clean(p) \/ Prune(p)
    <2>1. pc[p] \in {"clean", "prune"} /\ \E next : RemoveNext(p, next)
      BY <1>4 DEF Clean, Prune
    <2>2. \E r \in list[p] : zone' \in {zone, Removed(r)}
      BY <2>1 DEF RemoveNext
    <2> QED
      BY <2>1, <2>2
  <1> QED
    BY <1>2, <1>3, <1>4 DEF Step

(* No step of a migration touches the target's delegation, provided nobody *)
(* turns a record it has listed into delegation: an id provider removes    *)
(* what has the id.                                                        *)
THEOREM DelegationIsKept ==
    ASSUME \A v \in EditTo : v.type \notin Delegation
    PROVE  Spec => DelegationKept
  <1>1. ASSUME BaseInv, NEW p \in Process, Step(p), order[p].op = "migrate",
               NEW s \in zone \ zone'
        PROVE  s.val.type \notin Delegation
    <2>1. PICK r \in list[p] : s \in zone \ Removed(r)
      BY <1>1, TakenIsListed
    <2>2. s = r \/ s.val \in EditTo
      BY <1>1, <2>1, WhatRemovedTakes
    <2>3. pc[p] \in {"clean", "prune"} /\ StageSound(p)
      BY <1>1, TakenIsListed DEF BaseInv
    <2>4. r.val.type \notin Delegation
      BY <1>1, <2>3 DEF StageSound
    <2> QED
      BY <2>2, <2>4
  <1>2. BaseInv /\ [Next]_vars =>
           [\A p \in Process :
              Step(p) /\ order[p].op = "migrate" =>
                  zone \ zone' \subseteq {r \in zone : r.val.type \notin Delegation}]_vars
    BY <1>1
  <1> QED
    BY <1>2, BaseHolds, PTL DEF Spec, DelegationKept

(* A prune removes records as the operator saw them, and none of a slot of *)
(* the mail set.                                                           *)
THEOREM PruneIsWhatWasShown == Spec => PruneDeletesWhatWasShown
  <1>1. ASSUME BaseInv, NEW p \in Process, Step(p), order[p].op = "check",
               kind = "rrset" \/ ~overtaken[p], NEW s \in zone \ zone'
        PROVE  s \in list[p] /\ Slot(s.val) \notin Managed
    <2>1. PICK r \in list[p] : s \in zone \ Removed(r)
      BY <1>1, TakenIsListed
    <2>2. s = r
      BY <1>1, <2>1, WhatRemovedTakes
    <2>3. pc[p] \in {"clean", "prune"} /\ StageSound(p)
      BY <1>1, TakenIsListed DEF BaseInv
    <2>4. Slot(r.val) \notin Managed
      BY <1>1, <2>3 DEF StageSound, Before
    <2> QED
      BY <2>2, <2>4
  <1>2. BaseInv /\ [Next]_vars =>
           [\A p \in Process :
              Step(p) /\ order[p].op = "check" /\ (kind = "rrset" \/ ~overtaken[p]) =>
                  zone \ zone' \subseteq
                      {r \in list[p] : Slot(r.val) \notin {Slot(d) : d \in Desired}}]_vars
    BY <1>1 DEF Managed
  <1> QED
    BY <1>2, BaseHolds, PTL DEF Spec, PruneDeletesWhatWasShown

-----------------------------------------------------------------------------
(* The copy.  Migrate takes two records of one type, name and content for  *)
(* the same one; so does what follows.                                     *)
NoTwins ==
    \A v, w \in Everything :
        v.type = w.type /\ v.name = w.name /\ v.content = w.content => v = w

(* What a copy has dealt with is at the target or failed, and what is at   *)
(* the target it has listed, created or failed to; after a clean start     *)
(* there is nothing but the delegation and what it copied.                 *)
Progress(p) ==
    /\ order[p].clean =>
          /\ pc[p] = "clean" =>
                \A r \in zone : r.val.type \notin Delegation => r \in list[p]
          /\ pc[p] \in {"ask-copy", "list-copy"} => Copied(Values(zone)) = {}
          /\ pc[p] \in {"copy"} \union After => Copied(Values(zone)) \subseteq Copied(pulled[p])
    /\ pc[p] = "copy" =>
          /\ did[p].created \union did[p].skipped \subseteq Values(zone)
          /\ \A s \in zone : Key(s.val) \in Present(p) \union {Key(v) : v \in did[p].failed}
    /\ pc[p] \in After => Copied(pulled[p]) \subseteq Values(zone) \union did[p].failed

CopySound(p) ==
    order[p].op = "migrate" =>
        /\ pc[p] \in Before => todo[p] = Copied(pulled[p]) /\ did[p] = Undone
        /\ pc[p] = "copy" =>
              /\ todo[p] \union did[p].created \union did[p].skipped \union did[p].failed
                    = Copied(pulled[p])
              /\ todo[p] \cap did[p].failed = {}
        /\ ~overtaken[p] => Progress(p)

CopyInv == \A p \in Process : CopySound(p)

LEMMA KeyTells ==
    ASSUME NoTwins, NEW v \in Everything, NEW w \in Everything, Key(v) = Key(w)
    PROVE  v = w
  <1>1. Slot(v) = Slot(w) /\ v.content = w.content
    BY DEF Key
  <1>2. v.type = w.type /\ v.name = w.name
    BY <1>1 DEF Slot
  <1> QED
    BY <1>1, <1>2 DEF NoTwins

LEMMA CopiesOfOthersStay ==
    ASSUME NEW q \in Process, CopySound(q), Same(q), Undisturbed(q) \/ overtaken'[q]
    PROVE  CopySound(q)'
  <1>1. CASE Undisturbed(q)
    <2>1. Progress(q) => Progress(q)'
      BY <1>1 DEF Same, Undisturbed, Progress, Present
    <2> QED
      BY <1>1, <2>1 DEF CopySound, Same, Undisturbed
  <1>2. CASE overtaken'[q]
    BY <1>2 DEF CopySound, Same
  <1> QED
    BY <1>1, <1>2

LEMMA CopyStepOfOne ==
    ASSUME CopyInv, NEW p \in Process, CopySound(p)',
           \A q \in Process \ {p} : Same(q) /\ (Undisturbed(q) \/ overtaken'[q])
    PROVE  CopyInv'
  <1>1. ASSUME NEW q \in Process \ {p}
        PROVE  CopySound(q)'
    BY <1>1, CopiesOfOthersStay DEF CopyInv
  <1> QED
    BY <1>1 DEF CopyInv

(* A step of p as the others see it.                                       *)
LEMMA OneAtATime ==
    ASSUME Shape, NEW p \in Process, Start(p) \/ Again(p) \/ Step(p) \/ Crash(p)
                  \/ \E q \in DOMAIN Question : Decline(p, q)
    PROVE  \A q \in Process \ {p} : Same(q) /\ (Undisturbed(q) \/ overtaken'[q])
  <1>1. CASE \E c : StartWith(p, c)
    <2>1. PICK c : StartWith(p, c)
      BY <1>1
    <2>2. \E first, T : Begin(p, c, first) /\ todo' = [todo EXCEPT ![p] = T]
      BY <2>1 DEF StartWith, StartMigrate, StartCheck, StartPublishDANE
    <2>3. \A q \in Process \ {p} : pulled'[q] = pulled[q]
      BY <2>1 DEF StartWith, StartMigrate, StartCheck, StartPublishDANE, Pull, Shape
    <2> QED
      BY <2>2, <2>3 DEF Begin, Goto, target, Shape, Same, Undisturbed
  <1>2. CASE Fail(p) /\ order' = order /\ (Noted(p) \/ UNCHANGED <<zone, overtaken>>)
    <2>1. \A q \in Process \ {p} : Undisturbed(q) \/ overtaken'[q]
      BY <1>2, NotedByOthers, Zenon
    <2> QED
      BY <1>2, <2>1 DEF Fail, Goto, Shape, Same
  <1>3. ASSUME NEW next, Goto(p, next) \/ pc' = pc, order' = order, pulled' = pulled,
               NEW L, list' = [list EXCEPT ![p] = L] \/ list' = list,
               NEW T, todo' = [todo EXCEPT ![p] = T] \/ todo' = todo,
               NEW o, did' = [did EXCEPT ![p] = o] \/ did' = did,
               Noted(p) \/ UNCHANGED <<zone, overtaken>>
        PROVE  \A q \in Process \ {p} : Same(q) /\ (Undisturbed(q) \/ overtaken'[q])
    <2>1. \A q \in Process \ {p} : Undisturbed(q) \/ overtaken'[q]
      BY <1>3, NotedByOthers, Zenon
    <2> QED
      BY <1>3, <2>1 DEF Goto, Shape, Same
  <1>4. CASE EnsureZone(p) \/ (\E q \in DOMAIN Question : Accept(p, q) \/ Decline(p, q))
             \/ ListForClean(p) \/ ListForCopy(p) \/ ListForCheck(p)
    BY <1>2, <1>3, <1>4 DEF EnsureZone, Accept, Decline, ListForClean, ListForCopy,
       ListForCheck, ListAs, target, memory
  <1>5. CASE SelectIndices(p) \/ Report(p) \/ Switch(p) \/ Record(p) \/ Crash(p)
    BY <1>2, <1>3, <1>5 DEF SelectIndices, Report, Switch, Record, Crash, target
  <1>6. CASE Clean(p) \/ Prune(p)
    <2>1. order' = order /\ \E next : RemoveNext(p, next)
      BY <1>6 DEF Clean, Prune
    <2> QED
      BY <1>2, <1>3, <2>1 DEF RemoveNext, memory
  <1>7. CASE AddTLSA(p)
    BY <1>2, <1>3, <1>7 DEF AddTLSA, memory
  <1>8. CASE Migrate(p)
    BY <1>3, <1>8 DEF Migrate
  <1> QED
    BY <1>1, <1>4, <1>5, <1>6, <1>7, <1>8 DEF Step, Start, Again

LEMMA StartKeepsCopies ==
    ASSUME BaseInv, NEW p \in Process, NEW c, StartWith(p, c)
    PROVE  CopySound(p)'
  <1>1. Shape
    BY DEF BaseInv
  <1>2. CASE StartMigrate(p, c)
    <2>1. PICK first \in {"create", "ask-clean", "ask-copy"} :
             /\ Begin(p, c, first)
             /\ first = "ask-copy" => ~c.clean
      BY <1>2 DEF StartMigrate
    <2>2. todo' = [todo EXCEPT ![p] = Copied(pulled'[p])]
      BY <1>2 DEF StartMigrate
    <2>3. /\ order'[p] = c /\ did'[p] = Undone /\ pc'[p] = first
          /\ todo'[p] = Copied(pulled'[p])
      BY <1>1, <2>1, <2>2 DEF Begin, Goto, Shape
    <2>4. Progress(p)'
      BY <2>1, <2>3 DEF Progress, After
    <2> QED
      BY <2>3, <2>4 DEF CopySound, Copied
  <1>3. CASE StartCheck(p, c) \/ StartPublishDANE(p, c)
    <2>1. c.op # "migrate" /\ \E first : Begin(p, c, first)
      BY <1>3 DEF StartCheck, StartPublishDANE
    <2>2. order'[p] = c
      BY <1>1, <2>1 DEF Begin, Shape
    <2> QED
      BY <2>1, <2>2 DEF CopySound
  <1> QED
    BY <1>2, <1>3 DEF StartWith

LEMMA FailureKeepsCopies ==
    ASSUME Shape, NEW p \in Process, Fail(p)
    PROVE  CopySound(p)'
  <1>1. pc'[p] = "failed"
    BY DEF Fail, Goto, Shape
  <1>2. Progress(p)'
    BY <1>1 DEF Progress, After
  <1> QED
    BY <1>1, <1>2 DEF CopySound, Before

(* Steps that lead up to the copy.                                         *)
LEMMA ApproachKeepsCopies ==
    ASSUME Shape, NEW p \in Process, CopySound(p), order' = order,
           UNCHANGED <<pulled, todo, did>>, zone' = zone, overtaken' = overtaken,
           pc[p] \in Before, pc'[p] \in Before,
           order[p].clean => pc'[p] # "clean",
           order[p].clean => (pc'[p] \in {"ask-copy", "list-copy"} =>
              pc[p] \in {"ask-copy", "list-copy"})
    PROVE  CopySound(p)'
  <1>1. Progress(p) => Progress(p)'
    BY DEF Progress, Before, After
  <1> QED
    BY <1>1 DEF CopySound, Before

LEMMA AnswersKeepCopies ==
    ASSUME BaseInv, NEW p \in Process, CopySound(p), EnsureZone(p) \/
           (\E q \in DOMAIN Question : Accept(p, q) \/ Decline(p, q))
    PROVE  CopySound(p)'
  <1>1. Shape /\ StageSound(p)
    BY DEF BaseInv
  <1>2. CASE Fail(p)
    BY <1>1, <1>2, FailureKeepsCopies
  <1>3. CASE EnsureZone(p) /\ ~Fail(p)
    <2>1. /\ pc[p] = "create" /\ UNCHANGED <<order, pulled, todo, did, zone, overtaken>>
          /\ pc'[p] = IF order[p].clean THEN "ask-clean" ELSE "ask-copy"
      BY <1>1, <1>3 DEF EnsureZone, Goto, Shape, memory
    <2> QED
      BY <1>1, <2>1, ApproachKeepsCopies DEF Before
  <1>4. CASE (\E q \in DOMAIN Question : Accept(p, q) \/ Decline(p, q)) /\ ~Fail(p)
    <2>1. PICK q \in {"clean", "copy", "prune", "dane", "switch"} :
             Accept(p, q) \/ Decline(p, q)
      BY <1>4 DEF Question
    <2>2. UNCHANGED <<order, pulled, todo, did, zone, overtaken>> /\ pc[p] = Question[q]
      BY <1>4, <2>1 DEF Accept, Decline, memory, target
    <2>3. pc'[p] = Yes[q] \/ (q = "switch" /\ pc'[p] = "done")
      <3>1. Goto(p, Yes[q]) \/ (q = "switch" /\ Goto(p, "done"))
        BY <1>4, <2>1 DEF Accept, Decline
      <3> QED
        BY <1>1, <3>1 DEF Goto, Shape
    <2>4. \/ pc[p] = "ask-clean" /\ pc'[p] = "list-clean"
          \/ pc[p] = "ask-copy" /\ pc'[p] = "list-copy"
          \/ pc[p] \in {"ask-prune", "ask-dane"}
          \/ pc[p] = "ask-switch" /\ pc'[p] \in {"switch", "done"}
      BY <2>2, <2>3 DEF Question, Yes
    <2>5. CASE pc[p] \in {"ask-clean", "ask-copy"}
      BY <1>1, <2>2, <2>4, <2>5, ApproachKeepsCopies DEF Before
    <2>6. CASE pc[p] \in {"ask-prune", "ask-dane"}
      BY <1>1, <2>2, <2>6 DEF StageSound, CopySound
    <2>7. CASE pc[p] = "ask-switch" /\ pc'[p] \in {"switch", "done"}
      <3>1. Progress(p) => Progress(p)'
        BY <2>2, <2>7 DEF Progress, After
      <3> QED
        BY <2>2, <2>7, <3>1 DEF CopySound, Before
    <2> QED
      BY <2>4, <2>5, <2>6, <2>7
  <1> QED
    BY <1>2, <1>3, <1>4

LEMMA ListingKeepsCopies ==
    ASSUME BaseInv, NEW p \in Process, CopySound(p), ListForClean(p) \/ ListForCopy(p)
    PROVE  CopySound(p)'
  <1>1. Shape
    BY DEF BaseInv
  <1>2. CASE Fail(p)
    BY <1>1, <1>2, FailureKeepsCopies
  <1>3. CASE ListForClean(p) /\ ~Fail(p)
    <2>1. /\ pc[p] = "list-clean" /\ pc'[p] = "clean"
          /\ UNCHANGED <<order, pulled, todo, did, zone, overtaken>>
          /\ list'[p] = {r \in zone : r.val.type \notin Delegation}
      BY <1>1, <1>3 DEF ListForClean, ListAs, Goto, Shape, target
    <2>2. Progress(p)'
      BY <2>1 DEF Progress, After
    <2> QED
      BY <2>1, <2>2 DEF CopySound, Before
  <1>4. CASE ListForCopy(p) /\ ~Fail(p)
    <2>1. /\ pc[p] = "list-copy" /\ pc'[p] = "copy" /\ list'[p] = zone
          /\ UNCHANGED <<order, pulled, todo, did, zone, overtaken>>
      BY <1>1, <1>4 DEF ListForCopy, ListAs, Goto, Shape, target
    <2>2. ASSUME order[p].op = "migrate"
          PROVE  /\ todo[p] = Copied(pulled[p]) /\ did[p].created = {}
                 /\ did[p].skipped = {} /\ did[p].failed = {}
      BY <2>1, <2>2 DEF CopySound, Before, Undone
    <2>3. ASSUME order[p].op = "migrate", Progress(p)
          PROVE  Progress(p)'
      <3>1. order[p].clean => Copied(Values(zone)) = {}
        BY <2>1, <2>3 DEF Progress
      <3>2. \A s \in zone : Key(s.val) \in Present(p)'
        BY <2>1 DEF Present
      <3> QED
        BY <2>1, <2>2, <2>3, <3>1, <3>2 DEF Progress, After
    <2> QED
      BY <2>1, <2>2, <2>3 DEF CopySound, Before
  <1> QED
    BY <1>2, <1>3, <1>4

LEMMA CleanKeepsCopies ==
    ASSUME BaseInv, NEW p \in Process, CopySound(p), Clean(p)
    PROVE  CopySound(p)'
  <1>1. Shape /\ pc[p] = "clean" /\ order' = order /\ RemoveNext(p, "ask-copy")
    BY DEF BaseInv, Clean
  <1>2. CASE Fail(p)
    BY <1>1, <1>2, FailureKeepsCopies
  <1>3. CASE list[p] = {} /\ Goto(p, "ask-copy") /\ UNCHANGED <<zone, memory, overtaken>>
    <2>1. pc'[p] = "ask-copy" /\ UNCHANGED <<pulled, todo, did>>
      BY <1>1, <1>3 DEF Goto, Shape, memory
    <2>2. (\A r \in zone : r.val.type \notin Delegation => r \in list[p]) =>
             Copied(Values(zone)) = {}
      BY <1>3 DEF Copied, Values
    <2>3. Progress(p) => Progress(p)'
      BY <1>1, <1>3, <2>1, <2>2 DEF Progress, After
    <2> QED
      BY <1>1, <1>3, <2>1, <2>3 DEF CopySound, Before
  <1>4. ASSUME NEW r \in list[p], zone' = Removed(r), list' = [list EXCEPT ![p] = @ \ {r}],
               UNCHANGED <<pc, pulled, todo, did>>, Noted(p)
        PROVE  CopySound(p)'
    <2>1. overtaken'[p] = overtaken[p]
      BY <1>1, <1>4, NotedByOthers, Zenon
    <2>2. list'[p] = list[p] \ {r}
      BY <1>1, <1>4 DEF Shape
    <2>3. zone' \subseteq zone \ {r}
      BY <1>4 DEF Removed
    <2>4. Progress(p) => Progress(p)'
      BY <1>1, <1>4, <2>2, <2>3 DEF Progress, After
    <2> QED
      BY <1>1, <1>4, <2>1, <2>4 DEF CopySound
  <1> QED
    BY <1>1, <1>2, <1>3, <1>4 DEF RemoveNext

(* What Added leaves: the old values, and the new one.                     *)
LEMMA ValuesAdded ==
    ASSUME NEW v
    PROVE  Values(Added(v)) = Values(zone) \union {v}
  <1>1. CASE kind = "rrset" /\ v \in Values(zone)
    BY <1>1 DEF Added
  <1>2. CASE ~(kind = "rrset" /\ v \in Values(zone))
    <2>1. PICK x : x = [id |-> NewId(v), val |-> v]
      OBVIOUS
    <2>2. Added(v) = zone \union {x} /\ x.val = v
      BY <1>2, <2>1 DEF Added
    <2> QED
      BY <2>2 DEF Values
  <1> QED
    BY <1>1, <1>2

(* A value that counts as present is there, when values have no twins.     *)
LEMMA PresentIsThere ==
    ASSUME BaseInv, NoTwins, NEW p \in Process, CopySound(p), pc[p] = "copy",
           ~overtaken[p], NEW v \in todo[p], Key(v) \in Present(p)
    PROVE  v \in Values(zone)
  <1>1. /\ Shape /\ list[p] \subseteq Held /\ v \in Everything
        /\ order[p].op = "migrate" /\ list[p] \subseteq zone
    BY DEF BaseInv, Shape, ListSound, StageSound
  <1>2. did[p].created \subseteq Values(zone) /\ Values(zone) \subseteq Everything
    BY <1>1 DEF CopySound, Progress, BaseInv, ZoneSound, Values, Held
  <1>3. PICK w \in Values(list[p]) \union did[p].created : Key(v) = Key(w)
    BY DEF Present, Values
  <1>4. w \in Values(zone)
    BY <1>1, <1>2, <1>3 DEF Values
  <1>5. v = w
    BY <1>1, <1>2, <1>3, <1>4, KeyTells
  <1> QED
    BY <1>4, <1>5

LEMMA MigrateKeepsCopies ==
    ASSUME BaseInv, NoTwins, NEW p \in Process, CopySound(p), Migrate(p)
    PROVE  CopySound(p)'
  <1>1. Shape /\ StageSound(p) /\ pc[p] = "copy" /\ UNCHANGED <<order, pulled, list, pc>>
    BY DEF BaseInv, Migrate
  <1>2. PICK v \in todo[p] :
           /\ todo' = [todo EXCEPT ![p] = @ \ {v}]
           /\ \/ /\ Key(v) \in Present(p) /\ zone' = zone
                 /\ did' = [did EXCEPT ![p].skipped = @ \union {v}]
              \/ /\ zone' = Added(v)
                 /\ did' = [did EXCEPT ![p].created = @ \union {v}]
              \/ /\ zone' \in {zone, Added(v)}
                 /\ did' = [did EXCEPT ![p].failed = @ \union {v}]
           /\ Noted(p)
    BY DEF Migrate
  <1>3. overtaken'[p] = overtaken[p]
    BY <1>1, <1>2, NotedByOthers, Zenon
  <1>4. todo'[p] = todo[p] \ {v} /\ order[p].op = "migrate"
    BY <1>1, <1>2 DEF Shape, StageSound
  <1>5. \/ /\ Key(v) \in Present(p) /\ zone' = zone
           /\ did'[p].skipped = did[p].skipped \union {v}
           /\ did'[p].created = did[p].created /\ did'[p].failed = did[p].failed
        \/ /\ zone' = Added(v)
           /\ did'[p].created = did[p].created \union {v}
           /\ did'[p].skipped = did[p].skipped /\ did'[p].failed = did[p].failed
        \/ /\ zone' \in {zone, Added(v)}
           /\ did'[p].failed = did[p].failed \union {v}
           /\ did'[p].skipped = did[p].skipped /\ did'[p].created = did[p].created
    <2>1. did[p] \in Outcome
      BY <1>1 DEF Shape
    <2> QED
      BY <1>1, <1>2, <2>1 DEF Shape, Outcome
  <1>6. /\ todo[p] \union did[p].created \union did[p].skipped \union did[p].failed
              = Copied(pulled[p])
        /\ todo[p] \cap did[p].failed = {}
    BY <1>1, <1>4 DEF CopySound
  <1>7. /\ todo'[p] \union did'[p].created \union did'[p].skipped \union did'[p].failed
              = Copied(pulled[p])
        /\ todo'[p] \cap did'[p].failed = {}
    BY <1>4, <1>5, <1>6
  <1>8. ASSUME ~overtaken[p]
        PROVE  Progress(p)'
    <2>1. Progress(p)
      BY <1>4, <1>8 DEF CopySound
    <2>2. v \in Everything /\ v \in Copied(pulled[p])
      BY <1>1, <1>6 DEF Shape
    <2>3. zone' = zone \/ Values(zone') = Values(zone) \union {v}
      BY <1>5, ValuesAdded
    <2>4. order[p].clean => Copied(Values(zone')) \subseteq Copied(pulled[p])
      BY <1>1, <2>1, <2>2, <2>3 DEF Progress, Copied
    <2>5. did'[p].created \union did'[p].skipped \subseteq Values(zone')
      <3>1. did[p].created \union did[p].skipped \subseteq Values(zone)
        BY <1>1, <2>1 DEF Progress
      <3>2. Key(v) \in Present(p) => v \in Values(zone)
        BY <1>1, <1>8, PresentIsThere
      <3>3. zone' = Added(v) => Values(zone') = Values(zone) \union {v}
        BY ValuesAdded
      <3> QED
        BY <1>5, <2>3, <3>1, <3>2, <3>3
    <2>6. ASSUME NEW s \in zone'
          PROVE  Key(s.val) \in Present(p)' \union {Key(w) : w \in did'[p].failed}
      <3>1. CASE s \in zone
        <4>1. Key(s.val) \in Present(p) \union {Key(w) : w \in did[p].failed}
          BY <1>1, <2>1, <3>1 DEF Progress
        <4>2. /\ did[p].created \subseteq did'[p].created
              /\ did[p].failed \subseteq did'[p].failed
          BY <1>5
        <4> QED
          BY <1>1, <4>1, <4>2 DEF Present
      <3>2. CASE s \notin zone
        <4>1. zone' = Added(v)
          BY <1>5, <3>2
        <4>2. s.val = v
          BY <1>2, <2>2, <3>2, <4>1, AddedIsSound DEF Migrate
        <4>3. v \in did'[p].created \union did'[p].failed
          BY <1>5, <3>2
        <4> QED
          BY <4>2, <4>3 DEF Present
      <3> QED
        BY <3>1, <3>2
    <2> QED
      BY <1>1, <2>4, <2>5, <2>6 DEF Progress, After
  <1> QED
    BY <1>1, <1>3, <1>4, <1>7, <1>8 DEF CopySound, Before

LEMMA ReportKeepsCopies ==
    ASSUME BaseInv, NEW p \in Process, CopySound(p), Report(p) \/ Switch(p)
    PROVE  CopySound(p)'
  <1>1. Shape
    BY DEF BaseInv
  <1>2. UNCHANGED <<order, pulled, todo, zone, overtaken>>
    BY DEF Report, Switch, target
  <1>3. CASE Report(p)
    <2>1. /\ pc[p] = "copy" /\ todo[p] = {} /\ pc'[p] \in {"done", "ask-switch"}
          /\ did'[p].failed = did[p].failed
      BY <1>1, <1>3 DEF Report, Goto, Shape, Outcome
    <2>2. order[p].op = "migrate" /\ Progress(p) => Progress(p)'
      BY <1>2, <2>1 DEF Progress, After, CopySound
    <2> QED
      BY <1>2, <2>1, <2>2 DEF CopySound, Before
  <1>4. CASE Switch(p)
    <2>1. pc[p] = "switch" /\ pc'[p] = "done" /\ did' = did
      BY <1>1, <1>4 DEF Switch, Goto, Shape
    <2>2. Progress(p) => Progress(p)'
      BY <1>2, <2>1 DEF Progress, After
    <2> QED
      BY <1>2, <2>1, <2>2 DEF CopySound, Before
  <1> QED
    BY <1>3, <1>4

(* The other commands do not copy.                                         *)
LEMMA OtherCommandsKeepCopies ==
    ASSUME BaseInv, NEW p \in Process,
           ListForCheck(p) \/ SelectIndices(p) \/ Prune(p) \/ AddTLSA(p) \/ Record(p)
    PROVE  CopySound(p)'
  <1>1. pc[p] \in {"list-stale", "choose", "prune", "add-dane", "audit"} /\ order' = order
    BY DEF ListForCheck, ListAs, SelectIndices, Prune, AddTLSA, Record
  <1>2. StageSound(p)
    BY DEF BaseInv
  <1>3. order'[p].op # "migrate"
    BY <1>1, <1>2 DEF StageSound
  <1> QED
    BY <1>3 DEF CopySound

LEMMA CopyStep ==
    ASSUME BaseInv, CopyInv, NoTwins, [Next]_vars
    PROVE  CopyInv'
  <1>1. Shape /\ \A p \in Process : CopySound(p)
    BY DEF BaseInv, CopyInv
  <1>2. ASSUME NEW p \in Process, CopySound(p)',
               Start(p) \/ Again(p) \/ Step(p) \/ Crash(p)
               \/ \E q \in DOMAIN Question : Decline(p, q)
        PROVE  CopyInv'
    <2>1. \A q \in Process \ {p} : Same(q) /\ (Undisturbed(q) \/ overtaken'[q])
      BY <1>1, <1>2, OneAtATime, Zenon
    <2> QED
      BY <1>2, <2>1, CopyStepOfOne
  <1>3. ASSUME NEW p \in Process, Start(p) \/ Again(p)
        PROVE  CopySound(p)'
    <2>1. \E c : StartWith(p, c)
      BY <1>3 DEF Start, Again
    <2> QED
      BY <2>1, StartKeepsCopies
  <1>4. ASSUME NEW p \in Process,
               Step(p) \/ \E q \in DOMAIN Question : Decline(p, q)
        PROVE  CopySound(p)'
    BY <1>1, <1>4, AnswersKeepCopies, ListingKeepsCopies, CleanKeepsCopies, MigrateKeepsCopies,
       ReportKeepsCopies, OtherCommandsKeepCopies DEF Step
  <1>5. ASSUME NEW p \in Process, Crash(p)
        PROVE  CopySound(p)'
    BY <1>1, <1>5, FailureKeepsCopies DEF Crash
  <1>6. CASE ForeignEdit
    <2>1. ASSUME NEW q \in Process
          PROVE  Same(q) /\ overtaken'[q]
      BY <1>6, <2>1 DEF ForeignEdit, process, memory, Same
    <2> QED
      BY <1>1, <2>1, CopiesOfOthersStay DEF CopyInv
  <1>7. CASE UNCHANGED vars
    <2>1. ASSUME NEW q \in Process
          PROVE  Same(q) /\ Undisturbed(q)
      BY <1>7 DEF vars, target, process, memory, Same, Undisturbed
    <2> QED
      BY <1>1, <2>1, CopiesOfOthersStay DEF CopyInv
  <1> QED
    BY <1>2, <1>3, <1>4, <1>5, <1>6, <1>7 DEF Next

LEMMA CopyHolds ==
    ASSUME NoTwins
    PROVE  Spec => []CopyInv
  <1>1. Init => CopyInv
    BY DEF Init, CopyInv, CopySound
  <1>2. BaseInv /\ CopyInv /\ [Next]_vars => CopyInv'
    BY CopyStep
  <1> QED
    BY <1>1, <1>2, BaseHolds, PTL DEF Spec

(* What a finished migration was given is at the target or reported as     *)
(* failed; after a clean start nothing else is there but the delegation.   *)
THEOREM CopyIsComplete ==
    ASSUME NoTwins
    PROVE  Spec => []CopyComplete
  <1>1. BaseInv /\ CopyInv => CopyComplete
    <2> SUFFICES ASSUME CopyInv, NEW p \in Process, Migrated(p), ~overtaken[p]
                 PROVE  /\ Copied(pulled[p]) \subseteq Values(zone) \union did[p].failed
                        /\ order[p].clean => Copied(Values(zone)) \subseteq Copied(pulled[p])
      BY DEF CopyComplete
    <2>1. Progress(p) /\ pc[p] \in After
      BY DEF CopyInv, CopySound, Migrated, After
    <2> QED
      BY <2>1 DEF Progress
  <1> QED
    BY <1>1, BaseHolds, CopyHolds, PTL

(* A migration nobody overtook adds no record that is there already,       *)
(* however many of its calls have failed with their effect.                *)
THEOREM NothingIsCopiedTwice ==
    ASSUME NoTwins
    PROVE  Spec => NoDuplicates
  <1>1. ASSUME BaseInv, CopyInv, NEW p \in Process, Step(p), order[p].op = "migrate",
               ~overtaken[p], NEW r \in zone' \ zone, NEW s \in zone
        PROVE  Key(r.val) # Key(s.val)
    <2>1. /\ StageSound(p) /\ CopySound(p) /\ todo[p] \subseteq Everything
          /\ did[p].failed \subseteq Everything /\ s.val \in Everything
      BY <1>1 DEF BaseInv, CopyInv, Shape, Outcome, ZoneSound, Held
    <2>2. Migrate(p)
      <3>1. ~(Clean(p) \/ Prune(p))
        BY <1>1 DEF Clean, Prune, RemoveNext, Removed
      <3>2. ~AddTLSA(p)
        BY <1>1, <2>1 DEF AddTLSA, StageSound
      <3> QED
        BY <1>1, <3>1, <3>2 DEF Step, EnsureZone, ListForClean, ListForCopy, Report, Switch,
           ListForCheck, SelectIndices, Record, Accept, ListAs, target
    <2>3. PICK v \in todo[p] : Key(v) \notin Present(p) /\ zone' = Added(v)
      BY <1>1, <2>2 DEF Migrate
    <2>4. pc[p] = "copy" /\ kind' = kind
      BY <2>2 DEF Migrate
    <2>5. r.val = v
      BY <1>1, <2>1, <2>3, <2>4, AddedIsSound
    <2>6. SUFFICES ASSUME Key(v) = Key(s.val) PROVE FALSE
      BY <2>5
    <2>7. Key(s.val) \in {Key(w) : w \in did[p].failed}
      BY <1>1, <2>1, <2>3, <2>4, <2>6 DEF CopySound, Progress
    <2>8. PICK w \in did[p].failed : Key(v) = Key(w)
      BY <2>6, <2>7
    <2>9. v = w
      BY <2>1, <2>8, KeyTells
    <2> QED
      BY <1>1, <2>1, <2>4, <2>8, <2>9 DEF CopySound
  <1>2. BaseInv /\ CopyInv /\ [Next]_vars =>
           [\A p \in Process :
              Step(p) /\ order[p].op = "migrate" /\ ~overtaken[p] =>
                  \A r \in zone' \ zone : Key(r.val) \notin {Key(s.val) : s \in zone}]_vars
    BY <1>1
  <1> QED
    BY <1>2, BaseHolds, CopyHolds, PTL DEF Spec, NoDuplicates

=============================================================================
