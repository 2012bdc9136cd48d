----------------------------- MODULE ZoneTakeover -----------------------------
(***************************************************************************)
(* `mailadmin dns takeover` and `dns restore`: ReplaceAll snapshots a zone *)
(* to a file, removes every record and adds the mail records; Restore      *)
(* wipes the zone and re-adds what a snapshot file holds.                  *)
(*                                                                         *)
(* One operator runs one command at a time, against a provider with record *)
(* ids; others may write the zone meanwhile.  Any call may fail, with or   *)
(* without effect, and the command may be killed between two of them,      *)
(* after which the operator starts another.                                *)
(***************************************************************************)
EXTENDS Naturals, FiniteSets

CONSTANTS
    Value,       \* the record values that can occur in the zone
    Web,         \* the values isApexWeb protects
    Desired,     \* the values DesiredMailRecords asks for
    SameSecond,  \* may two takeovers start within one second?
    FirstId,     \* bound: the zone starts with ids below FirstId
    MaxId,       \* bound: ids the provider hands out before it refuses adds
    MaxSecond,   \* bound: seconds the clock counts
    MaxFaults,   \* bound: failed calls and crashes in a behaviour
    MaxOthers    \* bound: writes by others in a behaviour

ASSUME TakeoverAssumption ==
    /\ Web \subseteq Value /\ Desired \subseteq Value /\ IsFiniteSet(Desired)
    /\ SameSecond \in BOOLEAN
    /\ {FirstId, MaxId, MaxSecond, MaxFaults, MaxOthers} \subseteq Nat

VARIABLES
    zone,      \* the provider's records, a set of [id, val]
    nextId,    \* the next id the provider will hand out
    second,    \* the clock, as far as a snapshot's file name shows it
    files,     \* files[t]: the snapshot file named after second t
    pc,        \* where the running command is
    cmd,       \* the command: its name, --keep-web, and its snapshot
    left,      \* the listed records it has yet to remove
    missing,   \* the records it has yet to add
    removed,   \* history: the records takeovers have removed
    edited,    \* history: ids others edited since the command's list
    quiet,     \* history: nobody else wrote since the command's list
    faults,    \* failed calls and crashes so far
    writes     \* writes by others so far

vars == <<zone, nextId, second, files, pc, cmd, left, missing, removed,
          edited, quiet, faults, writes>>

Record == [id : Nat, val : Value]
NoCommand == [name |-> "none"]

(* A desired record has no id yet; neither has a snapshot's once re-added. *)
NoId == 0
ToAdd == {[id |-> NoId, val |-> d] : d \in Desired}

Torn == [whole |-> FALSE, records |-> {}]
Init ==
    /\ \E ids \in SUBSET (1 .. FirstId - 1) : \E content \in [ids -> Value] :
          zone = {[id |-> i, val |-> content[i]] : i \in ids}
    /\ nextId = FirstId
    /\ second = 0
    /\ files = <<>>
    /\ pc = "idle"
    /\ cmd = NoCommand
    /\ left = {} /\ missing = {} /\ removed = {} /\ edited = {}
    /\ quiet = TRUE
    /\ faults = 0 /\ writes = 0

Ready == pc \notin {"write", "apply"}
Fault == faults < MaxFaults /\ faults' = faults + 1
With(f, t, x) == [u \in DOMAIN f \union {t} |-> IF u = t THEN x ELSE f[u]]

-----------------------------------------------------------------------------
(* The second a takeover starts in names its snapshot file; one name for   *)
(* every snapshot of the domain would be a bug.                            *)
OneName == 0
SnapshotName == second

(* Backup lists the zone; its time names the file that WriteSnapshot is    *)
(* about to write.                                                         *)
Backup(keepWeb) ==
    /\ Ready
    /\ SameSecond \/ second \notin DOMAIN files
    /\ pc' = "write"
    /\ cmd' = [name |-> "takeover", keepWeb |-> keepWeb, taken |-> SnapshotName,
               records |-> zone]
    /\ edited' = {} /\ quiet' = TRUE
    /\ UNCHANGED <<zone, nextId, second, files, left, missing, removed, faults,
                   writes>>

(* Bugs around what a takeover removes: the flag is read the wrong way     *)
(* round; the zone is listed again after the snapshot; desired records     *)
(* already live are left.                                                  *)
KeptUnlessAsked(r) == ~cmd.keepWeb /\ r.val \in Web
Kept(r) == cmd.keepWeb /\ r.val \in Web

RemoveRelisted == {r \in zone : ~Kept(r)}
RemoveUndesired == {r \in cmd.records : ~Kept(r) /\ r.val \notin Desired}
ToRemove == {r \in cmd.records : ~Kept(r)}

WriteSnapshot ==
    /\ pc = "write"
    /\ files' = With(files, cmd.taken, [whole |-> TRUE, records |-> cmd.records])
    /\ pc' = "apply"
    /\ left' = ToRemove
    /\ missing' = ToAdd
    /\ UNCHANGED <<zone, nextId, second, cmd, removed, edited, quiet, faults,
                   writes>>

(* os.WriteFile writes in place: an error or a crash leaves the file of    *)
(* that name torn, or as it was.                                           *)
SnapshotFails ==
    /\ pc = "write"
    /\ Fault
    /\ files' \in {files, With(files, cmd.taken, Torn)}
    /\ pc' = "failed"
    /\ UNCHANGED <<zone, nextId, second, cmd, left, missing, removed, edited,
                   quiet, writes>>

(* What a restore removes; sparing web records, as a takeover may, would   *)
(* be a bug.                                                               *)
WipesAllButWeb == {r \in zone : r.val \notin Web}
Wipes == zone

(* LoadSnapshot refuses a torn file; Restore then lists the zone.          *)
StartRestore(t) ==
    /\ Ready
    /\ files[t].whole
    /\ pc' = "apply"
    /\ cmd' = [name |-> "restore", taken |-> t, records |-> files[t].records]
    /\ left' = Wipes
    /\ missing' = files[t].records
    /\ edited' = {} /\ quiet' = TRUE
    /\ UNCHANGED <<zone, nextId, second, files, removed, faults, writes>>

(* Backup, the load or Restore's list fails before anything is changed.    *)
StartFails ==
    /\ Ready
    /\ Fault
    /\ pc' = "failed"
    /\ UNCHANGED <<zone, nextId, second, files, cmd, left, missing, removed,
                   edited, quiet, writes>>

(* The first error ends the command.                                       *)
Abort ==
    /\ pc' = "failed"
    /\ left' = {} /\ missing' = {}
    /\ UNCHANGED <<second, files, cmd, edited, quiet, writes>>

Removes(r) ==
    /\ zone' = {q \in zone : q.id # r.id}
    /\ removed' = IF cmd.name = "takeover"
                  THEN removed \union (zone \ zone') ELSE removed
    /\ UNCHANGED nextId

RemoveRecord ==
    /\ pc = "apply"
    /\ \E r \in left :
          \/ /\ r.id \in {q.id : q \in zone}
             /\ Removes(r)
             /\ left' = left \ {r}
             /\ UNCHANGED <<second, files, pc, cmd, missing, edited, quiet,
                            faults, writes>>
          \/ /\ r.id \notin {q.id : q \in zone}
             /\ Abort
             /\ UNCHANGED <<zone, nextId, removed, faults>>
          \/ /\ Fault
             /\ Abort
             /\ Removes(r) \/ UNCHANGED <<zone, nextId, removed>>

Adds(r) ==
    /\ zone' = zone \union {[id |-> nextId, val |-> r.val]}
    /\ nextId' = nextId + 1
    /\ UNCHANGED removed

(* Records are added once all removals are done.                           *)
AddRecord ==
    /\ pc = "apply" /\ left = {}
    /\ \E r \in missing :
          \/ /\ nextId < MaxId
             /\ Adds(r)
             /\ missing' = missing \ {r}
             /\ UNCHANGED <<second, files, pc, cmd, left, edited, quiet, faults,
                            writes>>
          \/ /\ nextId = MaxId
             /\ Abort
             /\ UNCHANGED <<zone, nextId, removed, faults>>
          \/ /\ Fault
             /\ Abort
             /\ \/ nextId < MaxId /\ Adds(r)
                \/ UNCHANGED <<zone, nextId, removed>>

Finish ==
    /\ pc = "apply" /\ left = {} /\ missing = {}
    /\ pc' = "done"
    /\ UNCHANGED <<zone, nextId, second, files, cmd, left, missing, removed,
                   edited, quiet, faults, writes>>

Crash ==
    /\ pc = "apply"
    /\ Fault
    /\ pc' = "idle"
    /\ left' = {} /\ missing' = {}
    /\ UNCHANGED <<zone, nextId, second, files, cmd, removed, edited, quiet,
                   writes>>

Tick ==
    /\ second < MaxSecond
    /\ second' = second + 1
    /\ UNCHANGED <<zone, nextId, files, pc, cmd, left, missing, removed, edited,
                   quiet, faults, writes>>

(* Somebody else adds, edits or removes a record.                          *)
OthersWrite ==
    /\ writes < MaxOthers
    /\ writes' = writes + 1
    /\ quiet' = FALSE
    /\ \/ /\ nextId < MaxId
          /\ \E v \in Value : zone' = zone \union {[id |-> nextId, val |-> v]}
          /\ nextId' = nextId + 1
          /\ UNCHANGED edited
       \/ /\ \E r \in zone : \E v \in Value \ {r.val} :
                /\ zone' = (zone \ {r}) \union {[r EXCEPT !.val = v]}
                /\ edited' = edited \union {r.id}
          /\ UNCHANGED nextId
       \/ /\ \E r \in zone : zone' = zone \ {r}
          /\ UNCHANGED <<nextId, edited>>
    /\ UNCHANGED <<second, files, pc, cmd, left, missing, removed, faults>>

Next ==
    \/ \E keepWeb \in BOOLEAN : Backup(keepWeb)
    \/ WriteSnapshot \/ SnapshotFails
    \/ \E t \in DOMAIN files : StartRestore(t)
    \/ StartFails
    \/ RemoveRecord \/ AddRecord \/ Finish \/ Crash
    \/ Tick \/ OthersWrite

Spec == Init /\ [][Next]_vars

-----------------------------------------------------------------------------
(* "EVERY existing record is removed" only after "the current zone is      *)
(* snapshotted" (manage.go:78-81): whatever fails afterwards, each record  *)
(* a takeover has removed is in an intact snapshot file, as it was when it *)
(* was removed, or has been edited by somebody since the zone was listed.  *)
(* `edited' is the running command's, so the property is about the step.   *)
RemovesOnlyWhatIsBackedUp ==
    [][\A r \in removed' \ removed :
          \/ r.id \in edited
          \/ \E t \in DOMAIN files : files[t].whole /\ r \in files[t].records]_vars

(* What was backed up stays backed up: no later takeover, failed or not,   *)
(* destroys the only copy of a removed record.                             *)
BackupsSurvive ==
    [][\A r \in removed :
          (\E t \in DOMAIN files : files[t].whole /\ r \in files[t].records) =>
             \E t \in DOMAIN files' : files'[t].whole /\ r \in files'[t].records]_vars

(* With --keep-web no step of the takeover takes an apex or www address or *)
(* alias out of the zone, or changes it; a record that somebody makes one  *)
(* after the zone was listed goes with the others.                         *)
WebKept ==
    [][(RemoveRecord \/ AddRecord) /\ cmd.name = "takeover" /\ cmd.keepWeb =>
          {r \in zone : r.val \in Web /\ r.id \notin edited} \subseteq zone']_vars

Copies(records, v) == Cardinality({r \in records : r.val = v})

(* A takeover that reports success, undisturbed, leaves the desired        *)
(* records and the kept ones, each once, and nothing else.                 *)
TakeoverExact ==
    pc = "done" /\ cmd.name = "takeover" /\ quiet =>
        \A v \in Value :
            Copies(zone, v) =
                Copies(ToAdd, v) + Copies({r \in cmd.records : Kept(r)}, v)

(* A restore that reports success, undisturbed, leaves record for record   *)
(* what the zone held when its snapshot was taken, however far the         *)
(* takeover, and earlier attempts to restore, had come.                    *)
RestoreExact ==
    pc = "done" /\ cmd.name = "restore" /\ quiet =>
        \A v \in Value : Copies(zone, v) = Copies(cmd.records, v)

=============================================================================
