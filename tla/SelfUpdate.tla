----------------------------- MODULE SelfUpdate -----------------------------
(***************************************************************************)
(* mailadmin update (internal/selfupdate, cli/version.go): find the latest *)
(* release, compare versions, ask, fetch the checksum, download next to    *)
(* the executable, verify and rename over it.  Several processes update at *)
(* once; the maintainer publishes releases and replaces their assets; a    *)
(* download is damaged or fails; a process dies between any two steps.     *)
(*                                                                         *)
(* A tag is [nums, suffix]: the numbers of "v1.2.3-rc1" and the rest.  A   *)
(* binary is [tag, build, whole].                                          *)
(***************************************************************************)
EXTENDS Integers, Sequences, FiniteSets

CONSTANTS
    Process,   \* the update processes
    Tag,       \* the tags of releases
    Installed, \* the tag of the program first installed
    None,      \* no tag, no file
    MaxFaults  \* bound: failed or damaged transfers, replaced assets

(* The numbers of a tag.                                                   *)
UpdateAssumption == \A t \in Tag \union {Installed} : t.nums \in Seq(Nat)

Build == {1, 2}
Binary == [tag : Tag \union {Installed}, build : Build, whole : BOOLEAN]
Asset == {"binary", "checksums"}

VARIABLES
    exe,       \* the installed file
    published, \* history: every binary published so far
    latest,    \* the tag GitHub calls the latest release, or None
    assets,    \* assets[t][a]: the build uploaded as asset a of t, 0 if none
    pc,        \* pc[p]: where the update of p stands
    running,   \* running[p]: the tag of the program p runs
    rel,       \* rel[p]: the release p found
    wantSum,   \* wantSum[p]: the binary its checksum stands for
    temp,      \* temp[p]: the content of its temporary file, or None
    overtaken, \* history: did another process install since p started?
    faults

process == <<pc, running, rel, wantSum, temp>>
vars == <<exe, published, latest, assets, process, overtaken, faults>>

-----------------------------------------------------------------------------
(* The numbers of a version, or <<>> when it is not three of them.         *)
ParseSemver(tag) == IF Len(tag.nums) = 3 THEN tag.nums ELSE <<>>

(* A bug IsNewer might have: any other release is offered.                 *)
AnyOther(current, newest) == ParseSemver(newest) # ParseSemver(current)

(* Strictly higher; a program of no version is older than any release, and *)
(* a release of no version is never newer.                                 *)
IsNewer(current, newest) ==
    LET l == ParseSemver(newest)
        c == ParseSemver(current)
    IN /\ l # <<>>
       /\ \/ c = <<>>
          \/ \E i \in 1 .. 3 : l[i] > c[i] /\ \A j \in 1 .. i - 1 : l[j] = c[j]

(* The URLs of the platform's binary and of SHA256SUMS, if there are any.  *)
AssetFor(t) == assets[t]["binary"] # 0
ChecksumsURL(t) == assets[t]["checksums"] # 0

-----------------------------------------------------------------------------
Original == [tag |-> Installed, build |-> 1, whole |-> TRUE]

Init ==
    /\ exe = Original
    /\ published = {Original}
    /\ latest = None
    /\ assets = [t \in Tag |-> [a \in Asset |-> 0]]
    /\ pc = [p \in Process |-> "idle"]
    /\ running = [p \in Process |-> Installed]
    /\ rel = [p \in Process |-> None]
    /\ wantSum = [p \in Process |-> None]
    /\ temp = [p \in Process |-> None]
    /\ overtaken = [p \in Process |-> FALSE]
    /\ faults = 0

Goto(p, where) == pc' = [pc EXCEPT ![p] = where]
Fault == faults < MaxFaults /\ faults' = faults + 1

(* The maintainer publishes a tag, with or without the assets; each tag    *)
(* is published once.                                                      *)
Publish(t) ==
    /\ assets[t] = [a \in Asset |-> 0] /\ latest # t
    /\ latest' = t
    /\ \E has \in SUBSET Asset :
          /\ assets' = [assets EXCEPT ![t] = [a \in Asset |-> IF a \in has THEN 1 ELSE 0]]
          /\ published' = published \union
                {[tag |-> t, build |-> 1, whole |-> TRUE] : a \in has \intersect {"binary"}}
    /\ UNCHANGED <<exe, process, overtaken, faults>>

(* An asset is replaced by that of a second build, the binary and its      *)
(* checksum one after the other.                                           *)
Reupload(t, a) ==
    /\ assets[t][a] = 1 /\ Fault
    /\ assets' = [assets EXCEPT ![t][a] = 2]
    /\ published' = published \union
          IF a = "binary" THEN {[tag |-> t, build |-> 2, whole |-> TRUE]} ELSE {}
    /\ UNCHANGED <<exe, latest, process, overtaken>>

-----------------------------------------------------------------------------
(* mailadmin update: the process runs the program as it is installed now.  *)
Start(p) ==
    /\ pc[p] = "idle"
    /\ Goto(p, "query")
    /\ running' = [running EXCEPT ![p] = exe.tag]
    /\ rel' = [rel EXCEPT ![p] = None]
    /\ wantSum' = [wantSum EXCEPT ![p] = None]
    /\ overtaken' = [overtaken EXCEPT ![p] = FALSE]
    /\ UNCHANGED <<exe, published, latest, assets, temp, faults>>

Latest(p) ==
    /\ pc[p] = "query" /\ latest # None
    /\ rel' = [rel EXCEPT ![p] = latest]
    /\ Goto(p, "compare")
    /\ UNCHANGED <<exe, published, latest, assets, running, wantSum, temp, overtaken, faults>>

(* Already up to date, a dry run or a question answered no: nothing more.  *)
NewUpdateCmd(p) ==
    /\ pc[p] = "compare"
    /\ \/ Goto(p, "idle")
       \/ IsNewer(running[p], rel[p]) /\ Goto(p, "sums")
    /\ UNCHANGED <<exe, published, latest, assets, running, rel, wantSum, temp, overtaken, faults>>

(* The release lists both assets; the checksum is that of the build whose  *)
(* SHA256SUMS is there now.                                                *)
FetchChecksum(p) ==
    /\ pc[p] = "sums" /\ AssetFor(rel[p]) /\ ChecksumsURL(rel[p])
    /\ wantSum' = [wantSum EXCEPT ![p] =
          [tag |-> rel[p], build |-> assets[rel[p]]["checksums"], whole |-> TRUE]]
    /\ Goto(p, "temp")
    /\ UNCHANGED <<exe, published, latest, assets, running, rel, temp, overtaken, faults>>

CreateTemp(p) ==
    /\ pc[p] = "temp"
    /\ temp' = [temp EXCEPT ![p] = [tag |-> rel[p], build |-> 1, whole |-> FALSE]]
    /\ Goto(p, "download")
    /\ UNCHANGED <<exe, published, latest, assets, running, rel, wantSum, overtaken, faults>>

(* The binary as it is now; a limit or a broken proxy may cut it without   *)
(* an error.                                                               *)
Download(p) ==
    /\ pc[p] = "download"
    /\ \E whole \in BOOLEAN :
          /\ IF whole THEN UNCHANGED faults ELSE Fault
          /\ temp' = [temp EXCEPT ![p] =
                [tag |-> rel[p], build |-> assets[rel[p]]["binary"], whole |-> whole]]
    /\ Goto(p, "verify")
    /\ UNCHANGED <<exe, published, latest, assets, running, rel, wantSum, overtaken>>

(* A bug Apply might have: it installs what it downloaded.                 *)
Unverified(p) ==
    /\ pc[p] = "verify"
    /\ Goto(p, "install")
    /\ UNCHANGED <<exe, published, latest, assets, running, rel, wantSum, temp, overtaken, faults>>

Verify(p) ==
    /\ pc[p] = "verify" /\ temp[p] = wantSum[p]
    /\ Goto(p, "install")
    /\ UNCHANGED <<exe, published, latest, assets, running, rel, wantSum, temp, overtaken, faults>>

(* Rename over the executable, which is atomic.                            *)
Install(p) ==
    /\ pc[p] = "install"
    /\ exe' = temp[p]
    /\ temp' = [temp EXCEPT ![p] = None]
    /\ overtaken' = [q \in Process |-> overtaken[q] \/ q # p]
    /\ Goto(p, "idle")
    /\ UNCHANGED <<published, latest, assets, running, rel, wantSum, faults>>

(* A request, a write, a check or the rename fails; the deferred function  *)
(* removes the temporary file.                                             *)
Fail(p) ==
    /\ \/ pc[p] # "idle" /\ Fault
       \/ pc[p] = "sums" /\ ~(AssetFor(rel[p]) /\ ChecksumsURL(rel[p])) /\ UNCHANGED faults
       \/ pc[p] = "verify" /\ temp[p] # wantSum[p] /\ UNCHANGED faults
    /\ Goto(p, "idle")
    /\ temp' = [temp EXCEPT ![p] = None]
    /\ UNCHANGED <<exe, published, latest, assets, running, rel, wantSum, overtaken>>

Crash(p) ==
    /\ pc[p] # "idle" /\ Fault
    /\ Goto(p, "idle")
    /\ temp' = [temp EXCEPT ![p] = None]
    /\ UNCHANGED <<exe, published, latest, assets, running, rel, wantSum, overtaken>>

Step(p) ==
    \/ Latest(p) \/ NewUpdateCmd(p) \/ FetchChecksum(p) \/ CreateTemp(p)
    \/ Download(p) \/ Verify(p) \/ Install(p) \/ Fail(p)

Next ==
    \/ \E t \in Tag : Publish(t) \/ \E a \in Asset : Reupload(t, a)
    \/ \E p \in Process : Start(p) \/ Step(p) \/ Crash(p)

Spec == Init /\ [][Next]_vars

-----------------------------------------------------------------------------
Places == {"idle", "query", "compare", "sums", "temp", "download", "verify", "install"}

UpdateTypeOK ==
    /\ exe \in Binary
    /\ published \subseteq Binary
    /\ latest \in Tag \union {None}
    /\ assets \in [Tag -> [Asset -> 0 .. 2]]
    /\ pc \in [Process -> Places]
    /\ running \in [Process -> Tag \union {Installed}]
    /\ rel \in [Process -> Tag \union {None}]
    /\ wantSum \in [Process -> Binary \union {None}]
    /\ temp \in [Process -> [tag : Tag, build : 0 .. 2, whole : BOOLEAN] \union {None}]
    /\ overtaken \in [Process -> BOOLEAN]

(* Whatever fails, dies, is cut or replaced, and however updates           *)
(* interleave, the installed program is at all times a whole published     *)
(* binary, replaced in one step (selfupdate.go:171-174).                   *)
Register == INSTANCE Executable
AtomicReplace == Register!Spec

(* What a higher version is, number by number.                             *)
Higher(t, u) ==
    LET a == t.nums
        b == u.nums
    IN /\ Len(a) = 3
       /\ Len(b) = 3 =>
             \/ a[1] > b[1]
             \/ a[1] = b[1] /\ a[2] > b[2]
             \/ a[1] = b[1] /\ a[2] = b[2] /\ a[3] > b[3]

(* An update that no other overtook installs a version that is strictly    *)
(* higher than the one it replaces, though a release is published while it *)
(* runs (selfupdate.go:107-109).                                           *)
OnlyUpgrades ==
    [][\A p \in Process : Install(p) /\ ~overtaken[p] => Higher(exe'.tag, exe.tag)]_vars

=============================================================================
