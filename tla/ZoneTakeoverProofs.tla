-------------------------- MODULE ZoneTakeoverProofs --------------------------
(***************************************************************************)
(* Theorems about ZoneTakeover.  The argument is a count: while nobody     *)
(* else writes, what the zone holds and what is still to be added together *)
(* are, value by value, what is still to be removed and what the command   *)
(* is to leave.  For the backups it is enough that the records a takeover  *)
(* removes are those its snapshot file holds, that file being written, and *)
(* whole, before the first of them goes.                                   *)
(***************************************************************************)
EXTENDS ZoneTakeover, FiniteSetTheorems, TLAPS

-----------------------------------------------------------------------------
(* Counting the records with a value.                                      *)

LEMMA CopiesType ==
    ASSUME NEW S, IsFiniteSet(S), NEW v
    PROVE  Copies(S, v) \in Nat
  <1>1. IsFiniteSet({r \in S : r.val = v})
    <2>1. {r \in S : r.val = v} \in SUBSET S
      OBVIOUS
    <2> QED
      BY <2>1, FS_Subset
  <1> QED
    BY <1>1, FS_CardinalityType DEF Copies

LEMMA CopiesNone ==
    ASSUME NEW v
    PROVE  Copies({}, v) = 0
  <1>1. {r \in {} : r.val = v} = {}
    OBVIOUS
  <1> QED
    BY <1>1, FS_EmptySet DEF Copies

LEMMA CopiesAdd ==
    ASSUME NEW S, IsFiniteSet(S), NEW x, x \notin S, NEW v
    PROVE  Copies(S \union {x}, v) = Copies(S, v) + (IF x.val = v THEN 1 ELSE 0)
  <1> DEFINE part == {r \in S : r.val = v}
  <1>1. part \in SUBSET S
    OBVIOUS
  <1>2. IsFiniteSet(part) /\ Cardinality(part) \in Nat /\ x \notin part
    BY <1>1, FS_Subset, FS_CardinalityType
  <1>3. CASE x.val = v
    <2>1. {r \in S \union {x} : r.val = v} = part \union {x}
      BY <1>3
    <2>2. Cardinality(part \union {x}) = Cardinality(part) + 1
      BY <1>2, FS_AddElement
    <2> QED
      BY <1>3, <2>1, <2>2 DEF Copies
  <1>4. CASE x.val # v
    <2>1. {r \in S \union {x} : r.val = v} = part
      BY <1>4
    <2>2. Copies(S \union {x}, v) = Cardinality(part) /\ Copies(S, v) = Cardinality(part)
      BY <2>1, Zenon DEF Copies
    <2> HIDE DEF part
    <2> QED
      BY <1>2, <1>4, <2>2
  <1> QED
    BY <1>3, <1>4

LEMMA CopiesRemove ==
    ASSUME NEW S, IsFiniteSet(S), NEW x \in S, NEW v
    PROVE  Copies(S, v) = Copies(S \ {x}, v) + (IF x.val = v THEN 1 ELSE 0)
  <1>1. IsFiniteSet(S \ {x}) /\ x \notin S \ {x} /\ (S \ {x}) \union {x} = S
    BY FS_RemoveElement
  <1>2. Copies((S \ {x}) \union {x}, v) = Copies(S \ {x}, v) + (IF x.val = v THEN 1 ELSE 0)
    BY <1>1, CopiesAdd
  <1> QED
    BY <1>1, <1>2

LEMMA CopiesApart ==
    ASSUME NEW S, IsFiniteSet(S), NEW T \in SUBSET S, NEW v
    PROVE  Copies(S, v) = Copies(T, v) + Copies(S \ T, v)
  <1> DEFINE part == {r \in T : r.val = v}
             rest == {r \in S \ T : r.val = v}
             all == {r \in S : r.val = v}
  <1>1. part \in SUBSET S /\ rest \in SUBSET S
    OBVIOUS
  <1>2. IsFiniteSet(part) /\ IsFiniteSet(rest)
    BY <1>1, FS_Subset
  <1>3. part \cap rest = {} /\ all = part \union rest
    OBVIOUS
  <1>4. Cardinality(part \union rest) =
            Cardinality(part) + Cardinality(rest) - Cardinality(part \cap rest)
    BY <1>2, FS_Union
  <1>5. Cardinality(part \cap rest) = 0
    BY <1>3, FS_EmptySet
  <1>6. Cardinality(part) \in Nat /\ Cardinality(rest) \in Nat
    BY <1>2, FS_CardinalityType
  <1> HIDE DEF part, rest, all
  <1>7. Cardinality(all) = Cardinality(part) + Cardinality(rest)
    BY <1>3, <1>4, <1>5, <1>6
  <1> QED
    BY <1>7 DEF Copies, part, rest, all

-----------------------------------------------------------------------------
(* The inductive invariant.  A listed record is still in the zone as it was*)
(* listed, unless others edited it; the snapshot a takeover removes after  *)
(* is whole and holds all it removes; and undisturbed, what is in the zone *)
(* and what is still to be added are together what is still to be removed  *)
(* and what the command leaves in the end.                                 *)

Unique(S) == \A r, q \in S : r.id = q.id => r = q
Below(S, n) == \A r \in S : r.id \in Nat /\ r.id < n
Content(S) == IsFiniteSet(S) /\ \A r \in S : r.val \in Value

ZoneSound ==
    /\ zone \subseteq Record /\ IsFiniteSet(zone) /\ Unique(zone) /\ Below(zone, nextId)
    /\ nextId \in Nat
FilesSound == \A t \in DOMAIN files : Content(files[t].records)
CommandSound ==
    /\ pc = "write" => cmd.name = "takeover" /\ Content(cmd.records)
    /\ pc = "apply" =>
          Content(cmd.records) /\ IsFiniteSet(left) /\ Content(missing)
Listed ==
    pc \in {"write", "apply"} /\ cmd.name = "takeover" =>
        /\ Below(cmd.records, nextId)
        /\ \A q \in zone, r \in cmd.records : q.id = r.id => q = r \/ q.id \in edited
BackedUp ==
    pc = "apply" /\ cmd.name = "takeover" =>
        /\ cmd.taken \in DOMAIN files /\ files[cmd.taken].whole
        /\ files[cmd.taken].records = cmd.records /\ left \subseteq ToRemove

KeptOnes == {r \in cmd.records : Kept(r)}
Goal(v) ==
    IF cmd.name = "takeover" THEN Copies(ToAdd, v) + Copies(KeptOnes, v)
                             ELSE Copies(cmd.records, v)
Counted ==
    quiet =>
        /\ pc = "write" => zone = cmd.records
        /\ pc = "apply" =>
              /\ left \subseteq zone
              /\ \A v \in Value :
                    Copies(zone, v) + Copies(missing, v) = Copies(left, v) + Goal(v)
        /\ pc = "done" => \A v \in Value : Copies(zone, v) = Goal(v)

TakeoverInv ==
    ZoneSound /\ FilesSound /\ CommandSound /\ Listed /\ BackedUp /\ Counted

LEMMA SameGoal ==
    ASSUME cmd' = cmd
    PROVE  \A v : Goal(v)' = Goal(v)
  BY DEF Goal, KeptOnes, Kept

LEMMA ToAddIsSound == Content(ToAdd)
  <1> DEFINE f == [d \in Desired |-> [id |-> NoId, val |-> d]]
  <1>1. f \in Surjection(Desired, ToAdd)
    BY DEF Surjection, ToAdd
  <1>2. IsFiniteSet(ToAdd)
    BY <1>1, FS_Surjection, TakeoverAssumption
  <1> QED
    BY <1>2, TakeoverAssumption DEF Content, ToAdd

LEMMA GoalType ==
    ASSUME NEW v, IsFiniteSet(cmd.records)
    PROVE  Goal(v) \in Nat
  <1>1. KeptOnes \in SUBSET cmd.records
    BY DEF KeptOnes
  <1>2. IsFiniteSet(KeptOnes)
    BY <1>1, FS_Subset
  <1> QED
    BY <1>2, CopiesType, ToAddIsSound DEF Goal, Content

LEMMA InitIsRight ==
    ASSUME Init
    PROVE  TakeoverInv
  <1>1. FirstId \in Nat
    BY TakeoverAssumption
  <1>2. PICK ids \in SUBSET (1 .. FirstId - 1) : \E content \in [ids -> Value] :
           zone = {[id |-> i, val |-> content[i]] : i \in ids}
    BY DEF Init
  <1> PICK content \in [ids -> Value] : zone = {[id |-> i, val |-> content[i]] : i \in ids}
    BY <1>2
  <1>3. nextId = FirstId /\ files = <<>> /\ pc = "idle" /\ edited = {}
    BY DEF Init
  <1>4. IsFiniteSet(ids)
    <2>1. IsFiniteSet(1 .. FirstId - 1)
      BY <1>1, FS_Interval
    <2> QED
      BY <2>1, FS_Subset
  <1>5. IsFiniteSet(zone)
    <2> DEFINE f == [i \in ids |-> [id |-> i, val |-> content[i]]]
    <2>1. f \in Surjection(ids, zone)
      BY <1>2 DEF Surjection
    <2> QED
      BY <1>4, <2>1, FS_Surjection
  <1>6. zone \subseteq Record /\ Unique(zone) /\ Below(zone, nextId)
    BY <1>1, <1>2, <1>3 DEF Record, Unique, Below
  <1>7. \A t : t \notin DOMAIN files
    BY <1>3
  <1> QED
    BY <1>1, <1>3, <1>5, <1>6, <1>7
       DEF TakeoverInv, ZoneSound, FilesSound, CommandSound, Listed, BackedUp, Counted

-----------------------------------------------------------------------------
(* The steps.                                                              *)

LEMMA BackupIsRight ==
    ASSUME TakeoverInv, NEW keepWeb \in BOOLEAN, Backup(keepWeb)
    PROVE  TakeoverInv'
  <1>1. /\ pc' = "write" /\ edited' = {} /\ zone' = zone /\ nextId' = nextId
        /\ files' = files
        /\ cmd' = [name |-> "takeover", keepWeb |-> keepWeb, taken |-> SnapshotName,
                   records |-> zone]
    BY DEF Backup
  <1>2. cmd'.name = "takeover" /\ cmd'.records = zone
    BY <1>1
  <1>3. ZoneSound /\ FilesSound
    BY DEF TakeoverInv
  <1>4. ZoneSound' /\ FilesSound' /\ CommandSound'
    BY <1>1, <1>2, <1>3 DEF ZoneSound, FilesSound, CommandSound, Content, Record
  <1>5. Listed'
    BY <1>1, <1>2, <1>3 DEF ZoneSound, Listed, Unique
  <1> QED
    BY <1>1, <1>2, <1>4, <1>5 DEF TakeoverInv, BackedUp, Counted

LEMMA WriteSnapshotIsRight ==
    ASSUME TakeoverInv, WriteSnapshot
    PROVE  TakeoverInv'
  <1>1. PICK new : new = [whole |-> TRUE, records |-> cmd.records]
    OBVIOUS
  <1>2. /\ pc = "write" /\ pc' = "apply" /\ left' = ToRemove /\ missing' = ToAdd
        /\ files' = With(files, cmd.taken, new)
        /\ UNCHANGED <<zone, nextId, cmd, edited, quiet>>
    BY <1>1 DEF WriteSnapshot
  <1>3. /\ cmd.name = "takeover" /\ Content(cmd.records) /\ IsFiniteSet(cmd.records)
        /\ quiet => zone = cmd.records
    BY <1>2 DEF TakeoverInv, CommandSound, Counted, Content
  <1>4. ZoneSound'
    BY <1>2 DEF TakeoverInv, ZoneSound
  <1>5. new.whole /\ new.records = cmd.records
    BY <1>1
  <1>6. /\ cmd.taken \in DOMAIN files' /\ files'[cmd.taken] = new
        /\ \A t \in DOMAIN files' : \/ t \in DOMAIN files /\ files'[t] = files[t]
                                    \/ files'[t] = new
    BY <1>2 DEF With
  <1>7. FilesSound'
    BY <1>3, <1>5, <1>6 DEF TakeoverInv, FilesSound
  <1>8. ToRemove \in SUBSET cmd.records /\ ToRemove' = ToRemove
    BY <1>2 DEF ToRemove, Kept
  <1>9. IsFiniteSet(ToRemove)
    BY <1>3, <1>8, FS_Subset
  <1>10. CommandSound'
    BY <1>2, <1>3, <1>9, ToAddIsSound DEF CommandSound
  <1>11. Listed'
    BY <1>2 DEF TakeoverInv, Listed
  <1>12. BackedUp'
    BY <1>2, <1>5, <1>6, <1>8 DEF BackedUp
  <1>13. ASSUME quiet, NEW v \in Value
         PROVE  Copies(zone, v) + Copies(ToAdd, v) = Copies(ToRemove, v) + Goal(v)
    <2>1. cmd.records \ ToRemove = KeptOnes
      BY DEF ToRemove, KeptOnes
    <2>2. Copies(zone, v) = Copies(ToRemove, v) + Copies(KeptOnes, v)
      BY <1>3, <1>8, <1>13, <2>1, CopiesApart
    <2>3. IsFiniteSet(KeptOnes)
      <3>1. KeptOnes \in SUBSET cmd.records
        BY DEF KeptOnes
      <3> QED
        BY <1>3, <3>1, FS_Subset
    <2>4. /\ Copies(ToAdd, v) \in Nat /\ Copies(ToRemove, v) \in Nat
          /\ Copies(KeptOnes, v) \in Nat
      BY <1>9, <2>3, ToAddIsSound, CopiesType DEF Content
    <2>5. Goal(v) = Copies(ToAdd, v) + Copies(KeptOnes, v)
      BY <1>3 DEF Goal
    <2> QED
      BY <2>2, <2>4, <2>5
  <1>14. Counted'
    <2>1. \A v : Goal(v)' = Goal(v)
      BY <1>2, SameGoal
    <2> QED
      BY <1>2, <1>3, <1>8, <1>13, <2>1 DEF Counted
  <1> QED
    BY <1>4, <1>7, <1>10, <1>11, <1>12, <1>14 DEF TakeoverInv

LEMMA SnapshotFailsIsRight ==
    ASSUME TakeoverInv, SnapshotFails
    PROVE  TakeoverInv'
  <1>1. /\ pc' = "failed" /\ files' \in {files, With(files, cmd.taken, Torn)}
        /\ UNCHANGED <<zone, nextId>>
    BY DEF SnapshotFails
  <1>2. \A t \in DOMAIN files' : \/ t \in DOMAIN files /\ files'[t] = files[t]
                                 \/ files'[t] = Torn
    BY <1>1 DEF With
  <1>3. Content(Torn.records)
    BY FS_EmptySet DEF Torn, Content
  <1>4. FilesSound'
    BY <1>2, <1>3 DEF TakeoverInv, FilesSound
  <1> QED
    BY <1>1, <1>4
       DEF TakeoverInv, ZoneSound, CommandSound, Listed, BackedUp, Counted

LEMMA StartRestoreIsRight ==
    ASSUME TakeoverInv, NEW t \in DOMAIN files, StartRestore(t)
    PROVE  TakeoverInv'
  <1>1. /\ pc' = "apply" /\ left' = zone /\ missing' = files[t].records
        /\ cmd' = [name |-> "restore", taken |-> t, records |-> files[t].records]
        /\ UNCHANGED <<zone, nextId, files>>
    BY DEF StartRestore, Wipes
  <1>2. cmd'.name = "restore" /\ cmd'.records = files[t].records
    BY <1>1
  <1>3. Content(files[t].records) /\ IsFiniteSet(zone)
    BY DEF TakeoverInv, FilesSound, ZoneSound
  <1>4. ZoneSound' /\ FilesSound' /\ CommandSound'
    BY <1>1, <1>2, <1>3 DEF TakeoverInv, ZoneSound, FilesSound, CommandSound
  <1>5. Counted'
    <2>1. \A v : Goal(v)' = Copies(files[t].records, v)
      BY <1>2 DEF Goal
    <2> QED
      BY <1>1, <2>1 DEF Counted
  <1> QED
    BY <1>1, <1>2, <1>4, <1>5 DEF TakeoverInv, Listed, BackedUp

(* A step that ends the command.                                           *)
LEMMA EndIsRight ==
    ASSUME ZoneSound', FilesSound, files' = files, pc' \in {"failed", "idle"}
    PROVE  TakeoverInv'
  BY DEF TakeoverInv, FilesSound, CommandSound, Listed, BackedUp, Counted

LEMMA RemovesIsSound ==
    ASSUME ZoneSound, NEW r, Removes(r)
    PROVE  ZoneSound' /\ zone' \subseteq zone
  <1>1. zone' \in SUBSET zone /\ nextId' = nextId
    BY DEF Removes
  <1>2. IsFiniteSet(zone')
    BY <1>1, FS_Subset DEF ZoneSound
  <1> QED
    BY <1>1, <1>2 DEF ZoneSound, Unique, Below

LEMMA AddsIsSound ==
    ASSUME ZoneSound, NEW r, r.val \in Value, Adds(r)
    PROVE  ZoneSound'
  <1>1. PICK x : x = [id |-> nextId, val |-> r.val]
    OBVIOUS
  <1>2. zone' = zone \union {x} /\ nextId' = nextId + 1
    BY <1>1 DEF Adds
  <1>3. IsFiniteSet(zone')
    BY <1>2, FS_AddElement DEF ZoneSound
  <1>4. x \in Record /\ x.id = nextId
    BY <1>1 DEF Record, ZoneSound
  <1>5. Below(zone', nextId')
    BY <1>2, <1>4 DEF ZoneSound, Below
  <1>6. Unique(zone')
    BY <1>2, <1>4 DEF ZoneSound, Below, Unique
  <1> QED
    BY <1>2, <1>3, <1>4, <1>5, <1>6 DEF ZoneSound

LEMMA RemoveRecordIsRight ==
    ASSUME TakeoverInv, RemoveRecord
    PROVE  TakeoverInv'
  <1>1. pc = "apply" /\ files' = files /\ ZoneSound /\ FilesSound
    BY DEF RemoveRecord, Abort, TakeoverInv
  <1>2. PICK r \in left :
           \/ /\ r.id \in {q.id : q \in zone} /\ Removes(r) /\ left' = left \ {r}
              /\ UNCHANGED <<pc, cmd, missing, edited, quiet>>
           \/ Abort /\ (Removes(r) \/ UNCHANGED <<zone, nextId>>)
    BY DEF RemoveRecord
  <1>3. CASE Abort /\ (Removes(r) \/ UNCHANGED <<zone, nextId>>)
    <2>1. ZoneSound'
      BY <1>1, <1>3, RemovesIsSound DEF ZoneSound
    <2> QED
      BY <1>1, <1>3, <2>1, EndIsRight DEF Abort
  <1>4. CASE /\ r.id \in {q.id : q \in zone} /\ Removes(r) /\ left' = left \ {r}
             /\ UNCHANGED <<pc, cmd, missing, edited, quiet>>
    <2>1. ZoneSound' /\ zone' \subseteq zone /\ nextId' = nextId
      BY <1>1, <1>4, RemovesIsSound DEF Removes
    <2>2. /\ Content(cmd.records) /\ IsFiniteSet(left) /\ Content(missing)
          /\ IsFiniteSet(left')
      BY <1>1, <1>4, FS_RemoveElement DEF TakeoverInv, CommandSound
    <2>3. FilesSound' /\ CommandSound'
      BY <1>1, <1>4, <2>2 DEF FilesSound, CommandSound
    <2>4. Listed'
      BY <1>4, <2>1 DEF TakeoverInv, Listed
    <2>5. BackedUp'
      BY <1>1, <1>4 DEF TakeoverInv, BackedUp, ToRemove, Kept
    <2>6. ASSUME quiet
          PROVE  left' \subseteq zone' /\ zone' = zone \ {r} /\ r \in zone
      <3>1. left \subseteq zone
        BY <1>1, <2>6 DEF TakeoverInv, Counted
      <3>2. zone' = {q \in zone : q.id # r.id} /\ r \in zone
        BY <1>4, <3>1 DEF Removes
      <3>3. zone' = zone \ {r}
        BY <1>1, <3>2 DEF ZoneSound, Unique
      <3> QED
        BY <1>4, <3>1, <3>2, <3>3
    <2>7. ASSUME quiet, NEW v \in Value
          PROVE  Copies(zone', v) + Copies(missing, v) = Copies(left', v) + Goal(v)
      <3>1. Copies(zone, v) + Copies(missing, v) = Copies(left, v) + Goal(v)
        BY <1>1, <2>7 DEF TakeoverInv, Counted
      <3>2. Copies(zone, v) = Copies(zone', v) + (IF r.val = v THEN 1 ELSE 0)
        BY <1>1, <2>6, <2>7, CopiesRemove DEF ZoneSound
      <3>3. Copies(left, v) = Copies(left', v) + (IF r.val = v THEN 1 ELSE 0)
        BY <1>4, <2>2, CopiesRemove
      <3>4. /\ Copies(zone', v) \in Nat /\ Copies(missing, v) \in Nat
            /\ Copies(left', v) \in Nat /\ Goal(v) \in Nat
        BY <2>1, <2>2, CopiesType, GoalType DEF Content, ZoneSound
      <3> QED
        BY <3>1, <3>2, <3>3, <3>4
    <2>8. Counted'
      <3>1. \A v : Goal(v)' = Goal(v)
        BY <1>4, SameGoal
      <3> QED
        BY <1>1, <1>4, <2>6, <2>7, <3>1 DEF Counted
    <2> QED
      BY <2>1, <2>3, <2>4, <2>5, <2>8 DEF TakeoverInv
  <1> QED
    BY <1>2, <1>3, <1>4

LEMMA AddRecordIsRight ==
    ASSUME TakeoverInv, AddRecord
    PROVE  TakeoverInv'
  <1>1. pc = "apply" /\ left = {} /\ files' = files /\ ZoneSound /\ FilesSound
    BY DEF AddRecord, Abort, TakeoverInv
  <1>2. PICK r \in missing :
           \/ /\ Adds(r) /\ missing' = missing \ {r}
              /\ UNCHANGED <<pc, cmd, left, edited, quiet>>
           \/ Abort /\ (Adds(r) \/ UNCHANGED <<zone, nextId>>)
    BY DEF AddRecord
  <1>3. /\ Content(cmd.records) /\ IsFiniteSet(left) /\ Content(missing)
        /\ IsFiniteSet(missing) /\ r.val \in Value
    BY <1>1 DEF TakeoverInv, CommandSound, Content
  <1>4. CASE Abort /\ (Adds(r) \/ UNCHANGED <<zone, nextId>>)
    <2>1. ZoneSound'
      BY <1>1, <1>3, <1>4, AddsIsSound DEF ZoneSound
    <2> QED
      BY <1>1, <1>4, <2>1, EndIsRight DEF Abort
  <1>5. CASE /\ Adds(r) /\ missing' = missing \ {r}
             /\ UNCHANGED <<pc, cmd, left, edited, quiet>>
    <2>1. PICK x : x = [id |-> nextId, val |-> r.val]
      OBVIOUS
    <2>2. /\ zone' = zone \union {x} /\ nextId' = nextId + 1
          /\ x.id = nextId /\ x.val = r.val
      BY <1>5, <2>1 DEF Adds
    <2>3. x \notin zone
      BY <1>1, <2>2 DEF ZoneSound, Below
    <2>4. ZoneSound'
      BY <1>1, <1>3, <1>5, AddsIsSound
    <2>5. FilesSound' /\ CommandSound'
      <3>1. IsFiniteSet(missing \ {r})
        BY <1>3, FS_RemoveElement
      <3> QED
        BY <1>1, <1>3, <1>5, <3>1 DEF FilesSound, CommandSound, Content
    <2>6. Listed'
      <3>1. nextId \in Nat
        BY <1>1 DEF ZoneSound
      <3> QED
        BY <1>5, <2>2, <3>1 DEF TakeoverInv, Listed, Below
    <2>7. BackedUp'
      BY <1>1, <1>5 DEF TakeoverInv, BackedUp, ToRemove, Kept
    <2>8. ASSUME quiet, NEW v \in Value
          PROVE  Copies(zone', v) + Copies(missing', v) = Copies(left, v) + Goal(v)
      <3>1. Copies(zone, v) + Copies(missing, v) = Copies(left, v) + Goal(v)
        BY <1>1, <2>8 DEF TakeoverInv, Counted
      <3>2. Copies(zone', v) = Copies(zone, v) + (IF r.val = v THEN 1 ELSE 0)
        <4>1. Copies(zone \union {x}, v) = Copies(zone, v) + (IF x.val = v THEN 1 ELSE 0)
          BY <1>1, <2>3, CopiesAdd DEF ZoneSound
        <4> QED
          BY <2>2, <4>1
      <3>3. Copies(missing, v) = Copies(missing', v) + (IF r.val = v THEN 1 ELSE 0)
        BY <1>3, <1>5, CopiesRemove
      <3>4. IsFiniteSet(missing')
        BY <1>3, <1>5, FS_RemoveElement
      <3>5. /\ Copies(zone, v) \in Nat /\ Copies(missing', v) \in Nat
            /\ Copies(left, v) \in Nat /\ Goal(v) \in Nat
        BY <1>1, <1>3, <3>4, CopiesType, GoalType DEF Content, ZoneSound
      <3> QED
        BY <3>1, <3>2, <3>3, <3>5
    <2>9. Counted'
      <3>1. \A v : Goal(v)' = Goal(v)
        BY <1>5, SameGoal
      <3> QED
        BY <1>1, <1>5, <2>8, <3>1 DEF Counted
    <2> QED
      BY <2>4, <2>5, <2>6, <2>7, <2>9 DEF TakeoverInv
  <1> QED
    BY <1>2, <1>4, <1>5

LEMMA FinishIsRight ==
    ASSUME TakeoverInv, Finish
    PROVE  TakeoverInv'
  <1>1. /\ pc = "apply" /\ left = {} /\ missing = {} /\ pc' = "done"
        /\ UNCHANGED <<zone, nextId, files, cmd, quiet>>
    BY DEF Finish
  <1>2. ZoneSound' /\ FilesSound'
    BY <1>1 DEF TakeoverInv, ZoneSound, FilesSound
  <1>3. ASSUME quiet, NEW v \in Value
        PROVE  Copies(zone, v) = Goal(v)
    <2>1. Copies(zone, v) + Copies(missing, v) = Copies(left, v) + Goal(v)
      BY <1>1, <1>3 DEF TakeoverInv, Counted
    <2>2. Copies(missing, v) = 0 /\ Copies(left, v) = 0
      BY <1>1, CopiesNone
    <2>3. Copies(zone, v) \in Nat /\ Goal(v) \in Nat
      BY <1>1, CopiesType, GoalType DEF TakeoverInv, ZoneSound, CommandSound, Content
    <2> QED
      BY <2>1, <2>2, <2>3
  <1>4. Counted'
    <2>1. \A v : Goal(v)' = Goal(v)
      BY <1>1, SameGoal
    <2> QED
      BY <1>1, <1>3, <2>1 DEF Counted
  <1> QED
    BY <1>1, <1>2, <1>4 DEF TakeoverInv, CommandSound, Listed, BackedUp

LEMMA OthersWriteIsRight ==
    ASSUME TakeoverInv, OthersWrite
    PROVE  TakeoverInv'
  <1>1. ~quiet' /\ UNCHANGED <<files, pc, cmd, left, missing>>
    BY DEF OthersWrite
  <1>2. ZoneSound
    BY DEF TakeoverInv
  <1>3. FilesSound' /\ CommandSound' /\ BackedUp' /\ Counted'
    BY <1>1 DEF TakeoverInv, FilesSound, CommandSound, BackedUp, ToRemove, Kept, Counted
  <1>4. CASE /\ \E v \in Value : zone' = zone \union {[id |-> nextId, val |-> v]}
             /\ nextId' = nextId + 1 /\ edited' = edited
    <2>1. PICK v \in Value : zone' = zone \union {[id |-> nextId, val |-> v]}
      BY <1>4
    <2>2. PICK x : x = [id |-> nextId, val |-> v]
      OBVIOUS
    <2>3. zone' = zone \union {x} /\ x \in Record /\ x.id = nextId
      BY <1>2, <2>1, <2>2 DEF Record, ZoneSound
    <2>4. IsFiniteSet(zone')
      BY <1>2, <2>3, FS_AddElement DEF ZoneSound
    <2>5. ZoneSound'
      BY <1>2, <1>4, <2>3, <2>4 DEF ZoneSound, Below, Unique
    <2>6. Listed'
      <3>1. nextId \in Nat
        BY <1>2 DEF ZoneSound
      <3> QED
        BY <1>1, <1>4, <2>3, <3>1 DEF TakeoverInv, Listed, Below
    <2> QED
      BY <1>3, <2>5, <2>6 DEF TakeoverInv
  <1>5. CASE /\ \E r \in zone : \E v \in Value \ {r.val} :
                   /\ zone' = (zone \ {r}) \union {[r EXCEPT !.val = v]}
                   /\ edited' = edited \union {r.id}
             /\ nextId' = nextId
    <2>1. PICK r \in zone, v \in Value :
             /\ zone' = (zone \ {r}) \union {[r EXCEPT !.val = v]}
             /\ edited' = edited \union {r.id}
      BY <1>5
    <2>2. PICK x : x = [r EXCEPT !.val = v]
      OBVIOUS
    <2>3. x \in Record /\ x.id = r.id /\ zone' = (zone \ {r}) \union {x}
      BY <1>2, <2>1, <2>2 DEF ZoneSound, Record
    <2>4. IsFiniteSet(zone')
      BY <1>2, <2>3, FS_RemoveElement, FS_AddElement DEF ZoneSound
    <2>5. ZoneSound'
      BY <1>2, <1>5, <2>3, <2>4 DEF ZoneSound, Below, Unique
    <2>6. Listed'
      BY <1>1, <1>5, <2>1, <2>3 DEF TakeoverInv, Listed
    <2> QED
      BY <1>3, <2>5, <2>6 DEF TakeoverInv
  <1>6. CASE (\E r \in zone : zone' = zone \ {r}) /\ nextId' = nextId /\ edited' = edited
    <2>1. zone' \in SUBSET zone
      BY <1>6
    <2>2. IsFiniteSet(zone')
      BY <1>2, <2>1, FS_Subset DEF ZoneSound
    <2>3. ZoneSound'
      BY <1>2, <1>6, <2>1, <2>2 DEF ZoneSound, Unique, Below
    <2>4. Listed'
      BY <1>1, <1>6, <2>1 DEF TakeoverInv, Listed
    <2> QED
      BY <1>3, <2>3, <2>4 DEF TakeoverInv
  <1> QED
    BY <1>4, <1>5, <1>6 DEF OthersWrite

LEMMA StepIsRight ==
    ASSUME TakeoverInv, [Next]_vars
    PROVE  TakeoverInv'
  <1>1. ASSUME NEW keepWeb \in BOOLEAN, Backup(keepWeb)
        PROVE  TakeoverInv'
    BY <1>1, BackupIsRight
  <1>2. CASE WriteSnapshot
    BY <1>2, WriteSnapshotIsRight
  <1>3. CASE SnapshotFails
    BY <1>3, SnapshotFailsIsRight
  <1>4. ASSUME NEW t \in DOMAIN files, StartRestore(t)
        PROVE  TakeoverInv'
    BY <1>4, StartRestoreIsRight
  <1>5. CASE StartFails \/ Crash
    <2>1. /\ pc' \in {"failed", "idle"}
          /\ UNCHANGED <<zone, nextId, files>>
      BY <1>5 DEF StartFails, Crash
    <2>2. ZoneSound' /\ FilesSound
      BY <2>1 DEF TakeoverInv, ZoneSound
    <2> QED
      BY <2>1, <2>2, EndIsRight
  <1>6. CASE RemoveRecord
    BY <1>6, RemoveRecordIsRight
  <1>7. CASE AddRecord
    BY <1>7, AddRecordIsRight
  <1>8. CASE Finish
    BY <1>8, FinishIsRight
  <1>9. CASE Tick \/ vars' = vars
    <2>1. UNCHANGED <<zone, nextId, files, pc, cmd, left, missing, edited, quiet>>
      BY <1>9 DEF Tick, vars
    <2>2. \A v : Goal(v)' = Goal(v)
      BY <2>1, SameGoal
    <2> QED
      BY <2>1, <2>2 DEF TakeoverInv, ZoneSound, FilesSound, CommandSound, Listed,
                        BackedUp, ToRemove, Kept, Counted
  <1>10. CASE OthersWrite
    BY <1>10, OthersWriteIsRight
  <1> QED
    BY <1>1, <1>2, <1>3, <1>4, <1>5, <1>6, <1>7, <1>8, <1>9, <1>10 DEF Next

LEMMA TakeoverInvHolds == Spec => []TakeoverInv
  BY InitIsRight, StepIsRight, PTL DEF Spec

-----------------------------------------------------------------------------
(* ReplaceAll reporting success, undisturbed, has left the mail records and*)
(* the web records it was told to keep, each once, and nothing else.       *)
THEOREM TakeoverIsExact == Spec => []TakeoverExact
  <1>1. TakeoverInv => TakeoverExact
    BY DEF TakeoverInv, Counted, Goal, KeptOnes, TakeoverExact
  <1> QED
    BY <1>1, TakeoverInvHolds, PTL

(* Restore reporting success, undisturbed, has left the zone as its        *)
(* snapshot holds it, whatever the takeover and earlier restores left.     *)
THEOREM RestoreIsExact == Spec => []RestoreExact
  <1>1. TakeoverInv => RestoreExact
    BY DEF TakeoverInv, Counted, Goal, RestoreExact
  <1> QED
    BY <1>1, TakeoverInvHolds, PTL

LEMMA OnlyRemovalsRemove ==
    ASSUME [Next]_vars, removed' # removed
    PROVE  RemoveRecord
  <1>1. ~AddRecord
    BY DEF AddRecord, Adds
  <1> QED
    BY <1>1 DEF Next, vars, Backup, WriteSnapshot, SnapshotFails, StartRestore,
                StartFails, Finish, Crash, Tick, OthersWrite

(* What a step of RemoveRecord takes out of the zone.                      *)
LEMMA RemovalIsOfAListedOne ==
    ASSUME RemoveRecord
    PROVE  \/ zone' = zone /\ removed' = removed
           \/ \E r \in left :
                 /\ zone' = {q \in zone : q.id # r.id}
                 /\ removed' = IF cmd.name = "takeover"
                               THEN removed \union (zone \ zone') ELSE removed
  BY DEF RemoveRecord, Removes

(* A record a takeover removes is in an intact snapshot file as it was, or *)
(* was edited by others after the zone was listed.                         *)
THEOREM TakeoverRemovesWhatIsBackedUp == Spec => RemovesOnlyWhatIsBackedUp
  <1>1. ASSUME TakeoverInv, [Next]_vars, NEW q \in removed' \ removed
        PROVE  \/ q.id \in edited
               \/ \E t \in DOMAIN files : files[t].whole /\ q \in files[t].records
    <2>1. RemoveRecord /\ pc = "apply"
      BY <1>1, OnlyRemovalsRemove DEF RemoveRecord
    <2>2. PICK r \in left :
             /\ zone' = {p \in zone : p.id # r.id}
             /\ removed' = IF cmd.name = "takeover"
                           THEN removed \union (zone \ zone') ELSE removed
      BY <1>1, <2>1, RemovalIsOfAListedOne
    <2>3. cmd.name = "takeover" /\ q \in zone /\ q.id = r.id
      BY <1>1, <2>2
    <2>4. /\ cmd.taken \in DOMAIN files /\ files[cmd.taken].whole
          /\ files[cmd.taken].records = cmd.records /\ r \in cmd.records
      BY <1>1, <2>1, <2>3 DEF TakeoverInv, BackedUp, ToRemove
    <2>5. q = r \/ q.id \in edited
      BY <1>1, <2>1, <2>3, <2>4 DEF TakeoverInv, Listed
    <2> QED
      BY <2>4, <2>5
  <1>2. TakeoverInv /\ [Next]_vars =>
           [\A r \in removed' \ removed :
              \/ r.id \in edited
              \/ \E t \in DOMAIN files : files[t].whole /\ r \in files[t].records]_vars
    BY <1>1
  <1> QED
    BY <1>2, TakeoverInvHolds, PTL DEF Spec, RemovesOnlyWhatIsBackedUp

(* With --keep-web a takeover leaves every apex and www address or alias   *)
(* of the zone where and as it is.                                         *)
THEOREM TakeoverKeepsTheWeb == Spec => WebKept
  <1>1. ASSUME TakeoverInv, RemoveRecord \/ AddRecord, cmd.name = "takeover", cmd.keepWeb,
               NEW q \in zone, q.val \in Web, q.id \notin edited
        PROVE  q \in zone'
    <2>1. pc = "apply"
      BY <1>1 DEF RemoveRecord, AddRecord
    <2>2. CASE AddRecord
      BY <2>2 DEF AddRecord, Adds
    <2>3. CASE RemoveRecord
      <3>1. ASSUME NEW r \in left, q.id = r.id
            PROVE  FALSE
        <4>1. r \in cmd.records /\ ~Kept(r)
          BY <1>1, <2>1, <3>1 DEF TakeoverInv, BackedUp, ToRemove
        <4>2. q = r
          BY <1>1, <2>1, <3>1, <4>1 DEF TakeoverInv, Listed
        <4> QED
          BY <1>1, <4>1, <4>2 DEF Kept
      <3> QED
        BY <2>3, <3>1, RemovalIsOfAListedOne
    <2> QED
      BY <1>1, <2>2, <2>3
  <1>2. TakeoverInv /\ [Next]_vars =>
           [(RemoveRecord \/ AddRecord) /\ cmd.name = "takeover" /\ cmd.keepWeb =>
               {r \in zone : r.val \in Web /\ r.id \notin edited} \subseteq zone']_vars
    BY <1>1
  <1> QED
    BY <1>2, TakeoverInvHolds, PTL DEF Spec, WebKept

-----------------------------------------------------------------------------
(* Snapshot file names have a resolution of one second.  When no two       *)
(* takeovers of a domain start within the same one, the file a takeover is *)
(* about to write does not exist yet.                                      *)
FreshName == pc = "write" => cmd.taken \notin DOMAIN files

LEMMA FreshNameHolds ==
    ASSUME ~SameSecond
    PROVE  Spec => []FreshName
  <1>1. Init => FreshName
    BY DEF Init, FreshName
  <1>2. ASSUME FreshName, [Next]_vars
        PROVE  FreshName'
    <2>1. ASSUME NEW keepWeb \in BOOLEAN, Backup(keepWeb)
          PROVE  FreshName'
      <3>1. files' = files /\ cmd'.taken = second /\ second \notin DOMAIN files
        BY <2>1 DEF Backup, SnapshotName
      <3> QED
        BY <3>1 DEF FreshName
    <2>2. CASE pc' # "write"
      BY <2>2 DEF FreshName
    <2>3. CASE UNCHANGED <<pc, cmd, files>>
      BY <1>2, <2>3 DEF FreshName
    <2>4. CASE RemoveRecord \/ AddRecord
      BY <2>4 DEF RemoveRecord, AddRecord, Abort, FreshName
    <2> QED
      BY <1>2, <2>1, <2>2, <2>3, <2>4
         DEF Next, vars, WriteSnapshot, SnapshotFails, StartRestore, StartFails,
             Finish, Crash, Tick, OthersWrite
  <1> QED
    BY <1>1, <1>2, PTL DEF Spec

LEMMA FilesChangeOnlyByASnapshot ==
    ASSUME [Next]_vars, files' # files
    PROVE  pc = "write" /\ \E x : files' = With(files, cmd.taken, x)
  <1>1. ~RemoveRecord /\ ~AddRecord
    BY DEF RemoveRecord, AddRecord, Abort
  <1> QED
    BY <1>1 DEF Next, vars, Backup, WriteSnapshot, SnapshotFails, StartRestore,
                StartFails, Finish, Crash, Tick, OthersWrite

(* Then no takeover, whether its write succeeds, fails or is torn, damages *)
(* the snapshot an earlier one left.                                       *)
THEOREM SnapshotsSurvive ==
    ASSUME ~SameSecond
    PROVE  Spec => BackupsSurvive
  <1>1. ASSUME FreshName, [Next]_vars, NEW t \in DOMAIN files
        PROVE  t \in DOMAIN files' /\ files'[t] = files[t]
    <2>1. CASE files' = files
      BY <2>1
    <2>2. CASE files' # files
      <3>1. pc = "write" /\ \E x : files' = With(files, cmd.taken, x)
        BY <1>1, <2>2, FilesChangeOnlyByASnapshot
      <3>2. cmd.taken # t
        BY <1>1, <3>1 DEF FreshName
      <3> QED
        BY <3>1, <3>2 DEF With
    <2> QED
      BY <2>1, <2>2
  <1>2. FreshName /\ [Next]_vars =>
           [\A r \in removed :
              (\E t \in DOMAIN files : files[t].whole /\ r \in files[t].records) =>
                 \E t \in DOMAIN files' : files'[t].whole /\ r \in files'[t].records]_vars
    BY <1>1
  <1> QED
    BY <1>2, FreshNameHolds, PTL DEF Spec, BackupsSurvive

=============================================================================
