------------------------------ MODULE HostProofs ------------------------------
(***************************************************************************)
(* Theorems about what mailadmin's commands do on the mail host, for any   *)
(* number of processes and faults.  Those about the update are proved of   *)
(* that part alone and brought here; those about the mailbox, the          *)
(* configuration, the log tail and the tools are proved here, each of a    *)
(* behaviour of its part.                                                  *)
(***************************************************************************)
EXTENDS Host, FiniteSetTheorems, SequenceTheorems, WellFoundedInduction, TLAPS

UpdateProofs == INSTANCE SelfUpdateProofs WITH
    None <- NoTag, pc <- updatePc, overtaken <- updateOvertaken, faults <- updateFaults

-----------------------------------------------------------------------------
(* A behaviour of the host, seen at one of its parts.                      *)

LEMMA HostUpdates == Spec => UpdateProofs!Spec
  <1>1. Init => UpdateProofs!Init
    BY DEF Init, Update!Init, UpdateProofs!Init, Update!Original, UpdateProofs!Original,
       Update!Asset, UpdateProofs!Asset
  <1>2. [Next]_vars => [UpdateProofs!Next]_(UpdateProofs!vars)
    BY DEF Next, vars, updateVars, Update!vars, Update!process, UpdateProofs!vars,
       UpdateProofs!process, Update!Next, Update!Publish, Update!Reupload, Update!Start,
       Update!Step, Update!Crash, Update!Fail, Update!Latest, Update!NewUpdateCmd,
       Update!FetchChecksum, Update!CreateTemp, Update!Download, Update!Verify,
       Update!Install, Update!IsNewer, Update!ParseSemver, Update!AssetFor,
       Update!ChecksumsURL, Update!Goto, Update!Fault, Update!Asset,
       UpdateProofs!Next, UpdateProofs!Publish, UpdateProofs!Reupload, UpdateProofs!Start,
       UpdateProofs!Step, UpdateProofs!Crash, UpdateProofs!Fail, UpdateProofs!Latest,
       UpdateProofs!NewUpdateCmd, UpdateProofs!FetchChecksum, UpdateProofs!CreateTemp,
       UpdateProofs!Download, UpdateProofs!Verify, UpdateProofs!Install,
       UpdateProofs!IsNewer, UpdateProofs!ParseSemver, UpdateProofs!AssetFor,
       UpdateProofs!ChecksumsURL, UpdateProofs!Goto, UpdateProofs!Fault, UpdateProofs!Asset
  <1> QED
    BY <1>1, <1>2, PTL DEF Spec, UpdateProofs!Spec

LEMMA HostDedupes == Spec => Dedupe!Spec
  <1>1. Init => Dedupe!Init
    BY DEF Init
  <1>2. [Next]_vars => [Dedupe!Next]_(Dedupe!vars)
    BY DEF Next, vars, dedupeVars, Dedupe!vars, Dedupe!pass
  <1> QED
    BY <1>1, <1>2, PTL DEF Spec, Dedupe!Spec

LEMMA HostConfigures == Spec => Config!Spec
  <1>1. Init => Config!Init
    BY DEF Init
  <1>2. [Next]_vars => [Config!Next]_(Config!vars)
    BY DEF Next, vars, configVars, Config!vars, Config!process, Config!history
  <1> QED
    BY <1>1, <1>2, PTL DEF Spec, Config!Spec

LEMMA HostReports == Spec => Report!Spec
  <1>1. Init => Report!Init
    BY DEF Init
  <1>2. [Next]_vars => [Report!Next]_(Report!vars)
    BY DEF Next, vars, reportVars, Report!vars, Report!reported
  <1> QED
    BY <1>1, <1>2, PTL DEF Spec, Report!Spec

LEMMA HostTails == Spec => Log!Spec
  <1>1. Init => Log!Init
    BY DEF Init
  <1>2. [Next]_vars => [Log!Next]_(Log!vars)
    BY DEF Next, vars, logVars, Log!vars
  <1> QED
    BY <1>1, <1>2, PTL DEF Spec, Log!Spec

LEMMA HostRunsTools == Spec => Tools!Spec
  <1>1. Init => Tools!Init
    BY DEF Init
  <1>2. [Next]_vars => [Tools!Next]_(Tools!vars)
    BY DEF Next, vars, toolVars, Tools!vars, Tools!process
  <1> QED
    BY <1>1, <1>2, PTL DEF Spec, Tools!Spec

-----------------------------------------------------------------------------
(* The program that is installed.                                          *)

(* Whatever fails, dies, is cut or replaced, and however updates           *)
(* interleave, the installed program is at all times a whole published     *)
(* binary, replaced in one step: the update implements the register of     *)
(* module Executable.                                                      *)
THEOREM ProgramIsReplacedAtomically == Spec => AtomicReplace
  <1>1. Spec => UpdateProofs!AtomicReplace
    BY HostUpdates, UpdateProofs!UpdateIsAtomic, PTL
  <1>2. UpdateProofs!Register!Init => Update!Register!Init
    BY DEF Update!Register!Init, UpdateProofs!Register!Init
  <1>3. [UpdateProofs!Register!Next]_(UpdateProofs!Register!vars) =>
        [Update!Register!Next]_(Update!Register!vars)
    BY DEF Update!Register!Next, UpdateProofs!Register!Next, Update!Register!vars,
       UpdateProofs!Register!vars, UpdateProofs!Register!Publish, Update!Register!Publish,
       UpdateProofs!Register!Replace, Update!Register!Replace
  <1> QED
    BY <1>1, <1>2, <1>3, PTL DEF AtomicReplace, UpdateProofs!AtomicReplace,
       Update!AtomicReplace, UpdateProofs!Register!Spec, Update!Register!Spec

(* An update that no other overtook installs a version strictly higher     *)
(* than the one it replaces.                                               *)
THEOREM ProgramGoesUp == Spec => OnlyUpgrades
  <1>1. UpdateProofs!UpdateAssumption
    BY HostAssumption DEF Update!UpdateAssumption, UpdateProofs!UpdateAssumption
  <1>2. Spec => UpdateProofs!OnlyUpgrades
    BY <1>1, HostUpdates, UpdateProofs!UpdatesGoUp, PTL
  <1>3. [\A p \in Process : UpdateProofs!Install(p) /\ ~updateOvertaken[p] =>
             UpdateProofs!Higher(exe'.tag, exe.tag)]_(UpdateProofs!vars) =>
        [\A p \in Process : Update!Install(p) /\ ~updateOvertaken[p] =>
             Update!Higher(exe'.tag, exe.tag)]_(Update!vars)
    BY DEF UpdateProofs!Install, Update!Install, UpdateProofs!Higher, Update!Higher,
       UpdateProofs!vars, Update!vars, UpdateProofs!process, Update!process,
       UpdateProofs!Goto, Update!Goto
  <1> QED
    BY <1>2, <1>3, PTL DEF OnlyUpgrades, UpdateProofs!OnlyUpgrades, Update!OnlyUpgrades

-----------------------------------------------------------------------------
(* The mailbox.                                                            *)

LEMMA MailboxAssumption == Dedupe!DedupeAssumption
  BY HostAssumption

(* A place holds one file, and was given when it was.                      *)
OnePlace ==
    /\ \A f, g \in box : f.pos = g.pos => f = g
    /\ \A f \in box : f.pos \in used

(* A pass goes forward: what it kept lies before what it has listed, and   *)
(* that in the folders it has come to.                                     *)
Forward ==
    \A p \in Process :
        /\ \A s \in seen[p] : FolderOf[s.pos] < at[p] /\ \A x \in todo[p] : s.pos < x
        /\ \A x \in todo[p] : FolderOf[x] < at[p]
        /\ dedupePc[p] = "idle" =>
              at[p] = 1 /\ todo[p] = {} /\ seen[p] = {} /\ doomed[p] = NoFile

(* The file at a doomed place is a copy of one the pass kept before.       *)
Doomed ==
    \A p \in Process : doomed[p] # NoFile =>
        /\ doomed[p] \in used
        /\ \A f \in box : f.pos = doomed[p] =>
              \E s \in seen[p] : s.mid = f.mid /\ s.pos < f.pos

(* Of what a pass kept there is still a copy, as early or earlier.         *)
CopyKept ==
    \A p \in Process : \A s \in seen[p] :
        s.mid \in touched \/ \E g \in box : g.mid = s.mid /\ g.pos <= s.pos

(* What an undisturbed pass has passed by and left in the box it kept, and *)
(* it keeps one file of an id.                                             *)
Covered ==
    \A p \in Process :
        /\ \A s, t \in seen[p] : s.mid = t.mid => s = t
        /\ ~dry[p] /\ ~disturbed[p] => \A f \in box :
              /\ FolderOf[f.pos] < at[p] /\ f.pos \notin todo[p]
              /\ f.pos # doomed[p] /\ f.mid # NoId
              => f \in seen[p]
        /\ dedupePc[p] = "done" => todo[p] = {} /\ doomed[p] = NoFile /\ at[p] > Folders

DedupeInv == Dedupe!BoxTypeOK /\ OnePlace /\ Forward /\ Doomed /\ CopyKept /\ Covered

-----------------------------------------------------------------------------
(* Places are numbers, and lie in folders; so do those of files.           *)
LEMMA PlacesAreNumbers ==
    ASSUME Dedupe!DedupeAssumption, NEW x \in Pos
    PROVE  x \in Nat /\ FolderOf[x] \in Nat /\ 1 <= FolderOf[x] /\ FolderOf[x] <= Folders
  BY DEF Dedupe!DedupeAssumption

LEMMA FilePlaces ==
    ASSUME Dedupe!BoxTypeOK
    PROVE  /\ \A f \in box : f.pos \in Pos
           /\ \A p \in Process : \A s \in seen[p] : s.pos \in Pos
  BY DEF Dedupe!BoxTypeOK, Dedupe!File

LEMMA DedupeStarts == Dedupe!DedupeAssumption /\ Dedupe!Init => DedupeInv /\ Dedupe!KeepsOne
  <1> SUFFICES ASSUME Dedupe!DedupeAssumption, Dedupe!Init PROVE DedupeInv /\ Dedupe!KeepsOne
    OBVIOUS
  <1>1. \A f \in box : f.pos \in Pos /\ f.mid \in Mid \union {NoId}
    BY DEF Dedupe!Init, Dedupe!File
  <1>2. Dedupe!BoxTypeOK
    BY <1>1 DEF Dedupe!Init, Dedupe!BoxTypeOK
  <1>3. OnePlace /\ Forward /\ Doomed /\ CopyKept
    BY DEF Dedupe!Init, OnePlace, Forward, Doomed, CopyKept
  <1>4. \A x \in Pos : ~(FolderOf[x] < 1)
    BY DEF Dedupe!DedupeAssumption
  <1>5. Covered
    BY <1>1, <1>4 DEF Dedupe!Init, Covered
  <1>6. Dedupe!KeepsOne
    BY DEF Dedupe!Init, Dedupe!KeepsOne
  <1> QED
    BY <1>2, <1>3, <1>5, <1>6 DEF DedupeInv

(* The steps of a pass that leave the mailbox alone.                       *)
LEMMA StartKeepsBox ==
    ASSUME Dedupe!DedupeAssumption, DedupeInv, NEW p \in Process, Dedupe!Start(p)
    PROVE  DedupeInv'
  <1>1. PICK d \in BOOLEAN : dry' = [dry EXCEPT ![p] = d]
    BY DEF Dedupe!Start
  <1>2. Dedupe!BoxTypeOK'
    BY <1>1 DEF DedupeInv, Dedupe!BoxTypeOK, Dedupe!Start
  <1>3. OnePlace' /\ Doomed' /\ CopyKept'
    BY DEF DedupeInv, OnePlace, Doomed, CopyKept, Dedupe!Start
  <1>4. /\ dedupePc[p] = "idle" /\ dedupePc'[p] = "scan"
        /\ \A q \in Process \ {p} :
              dedupePc'[q] = dedupePc[q] /\ dry'[q] = dry[q] /\ disturbed'[q] = disturbed[q]
    BY <1>1 DEF DedupeInv, Dedupe!BoxTypeOK, Dedupe!Start
  <1>5. Forward'
    BY <1>4 DEF DedupeInv, Forward, Dedupe!Start
  <1>6. \A f \in box : ~(FolderOf[f.pos] < 1)
    <2> SUFFICES ASSUME NEW f \in box PROVE ~(FolderOf[f.pos] < 1)
      OBVIOUS
    <2>1. f.pos \in Pos
      BY FilePlaces DEF DedupeInv
    <2>2. FolderOf[f.pos] \in Nat /\ 1 <= FolderOf[f.pos]
      BY <2>1, PlacesAreNumbers
    <2> QED
      BY <2>2
  <1>7. at[p] = 1
    BY <1>4 DEF DedupeInv, Forward
  <1>8. Covered'
    BY <1>4, <1>6, <1>7 DEF DedupeInv, Covered, Dedupe!Start
  <1> QED
    BY <1>2, <1>3, <1>5, <1>8 DEF DedupeInv

(* The places of the next folder all lie behind those of earlier ones.     *)
LEMMA ListFolderKeepsBox ==
    ASSUME Dedupe!DedupeAssumption, DedupeInv, NEW p \in Process, Dedupe!ListFolder(p)
    PROVE  DedupeInv'
  <1> DEFINE new == {x \in Pos : FolderOf[x] = at[p] /\ \E f \in box : f.pos = x}
  <1>1. /\ todo' = [todo EXCEPT ![p] = new] /\ at' = [at EXCEPT ![p] = at[p] + 1]
        /\ dedupePc[p] = "scan" /\ todo[p] = {}
        /\ UNCHANGED <<box, used, dedupePc, seen, doomed, dry, disturbed, arrived, touched>>
    BY DEF Dedupe!ListFolder
  <1>2. at[p] \in Nat
    BY DEF DedupeInv, Dedupe!BoxTypeOK
  <1>3. Dedupe!BoxTypeOK'
    BY <1>1, <1>2 DEF DedupeInv, Dedupe!BoxTypeOK
  <1>4. OnePlace' /\ Doomed' /\ CopyKept'
    BY <1>1 DEF DedupeInv, OnePlace, Doomed, CopyKept
  <1>5. /\ todo'[p] = new /\ at'[p] = at[p] + 1
        /\ \A q \in Process \ {p} : todo'[q] = todo[q] /\ at'[q] = at[q]
    BY <1>1 DEF DedupeInv, Dedupe!BoxTypeOK
  <1>6. \A s \in seen[p] : s.pos \in Pos
    BY DEF DedupeInv, Dedupe!BoxTypeOK
  <1>7. \A y \in Pos : FolderOf[y] \in Nat /\ y \in Nat
    BY DEF Dedupe!DedupeAssumption
  <1>8. \A s \in seen[p], x \in new : s.pos < x
    <2> SUFFICES ASSUME NEW s \in seen[p], NEW x \in new PROVE s.pos < x
      OBVIOUS
    <2>1. FolderOf[s.pos] < FolderOf[x] /\ s.pos \in Pos /\ x \in Pos
      BY <1>6 DEF DedupeInv, Forward
    <2>2. FolderOf[s.pos] \in Nat /\ FolderOf[x] \in Nat /\ s.pos \in Nat /\ x \in Nat
      BY <1>7, <2>1
    <2>3. x <= s.pos => FolderOf[x] <= FolderOf[s.pos]
      BY <2>1 DEF Dedupe!DedupeAssumption
    <2> QED
      BY <2>1, <2>2, <2>3
  <1>9. \A x \in new : FolderOf[x] < at[p] + 1
    BY <1>2
  <1>10. \A s \in seen[p] : FolderOf[s.pos] < at[p] + 1
    BY <1>2, <1>6, <1>7 DEF DedupeInv, Forward
  <1>11. \A f \in box : FolderOf[f.pos] < at[p] + 1 /\ f.pos \notin new => FolderOf[f.pos] < at[p]
    <2> SUFFICES ASSUME NEW f \in box, FolderOf[f.pos] < at[p] + 1, f.pos \notin new
                 PROVE  FolderOf[f.pos] < at[p]
      OBVIOUS
    <2>1. f.pos \in Pos
      BY DEF DedupeInv, Dedupe!BoxTypeOK, Dedupe!File
    <2> QED
      BY <1>2, <1>7, <2>1
  <1> HIDE DEF new
  <1>12. Forward'
    BY <1>1, <1>5, <1>8, <1>9, <1>10 DEF DedupeInv, Forward
  <1>13. Covered'
    BY <1>1, <1>5, <1>11 DEF DedupeInv, Covered
  <1> QED
    BY <1>3, <1>4, <1>12, <1>13 DEF DedupeInv

LEMMA ScanKeepsBox ==
    ASSUME Dedupe!DedupeAssumption, DedupeInv, NEW p \in Process, Dedupe!Scan(p)
    PROVE  DedupeInv'
  <1>1. PICK x \in todo[p] :
          /\ \A y \in todo[p] : x <= y
          /\ todo' = [todo EXCEPT ![p] = todo[p] \ {x}]
          /\ \/ /\ \A f \in box : f.pos # x
                /\ UNCHANGED <<seen, doomed>>
             \/ \E f \in box :
                   /\ f.pos = x
                   /\ seen' = [seen EXCEPT ![p] =
                         IF f.mid = NoId \/ f.mid \in Dedupe!SeenIds(p) THEN seen[p]
                         ELSE seen[p] \union {f}]
                   /\ doomed' = [doomed EXCEPT ![p] =
                         IF f.mid \in Dedupe!SeenIds(p) THEN x ELSE doomed[p]]
    BY DEF Dedupe!Scan
  <1>2. /\ dedupePc[p] = "scan" /\ doomed[p] = NoFile
        /\ UNCHANGED <<box, used, dedupePc, at, dry, disturbed, arrived, touched>>
    BY DEF Dedupe!Scan
  <1>3. x \in Pos /\ x \in Nat /\ todo[p] \subseteq Nat
    BY DEF DedupeInv, Dedupe!BoxTypeOK, Dedupe!DedupeAssumption
  <1>4. /\ todo'[p] = todo[p] \ {x}
        /\ \A q \in Process \ {p} : todo'[q] = todo[q]
    BY <1>1 DEF DedupeInv, Dedupe!BoxTypeOK
  <1>5. \A y \in todo[p] \ {x} : x < y
    BY <1>1, <1>3
  <1>6. CASE (\A f \in box : f.pos # x) /\ UNCHANGED <<seen, doomed>>
    <2>1. Dedupe!BoxTypeOK'
      BY <1>1, <1>2, <1>6 DEF DedupeInv, Dedupe!BoxTypeOK
    <2>2. OnePlace' /\ Doomed' /\ CopyKept'
      BY <1>2, <1>6 DEF DedupeInv, OnePlace, Doomed, CopyKept
    <2>3. Forward'
      BY <1>2, <1>4, <1>6 DEF DedupeInv, Forward
    <2>4. Covered'
      BY <1>2, <1>4, <1>6 DEF DedupeInv, Covered
    <2> QED
      BY <2>1, <2>2, <2>3, <2>4 DEF DedupeInv
  <1>7. ASSUME NEW f \in box, f.pos = x,
               seen' = [seen EXCEPT ![p] =
                   IF f.mid = NoId \/ f.mid \in Dedupe!SeenIds(p) THEN seen[p]
                   ELSE seen[p] \union {f}],
               doomed' = [doomed EXCEPT ![p] = IF f.mid \in Dedupe!SeenIds(p) THEN x ELSE doomed[p]]
        PROVE  DedupeInv'
    <2>1. f \in Dedupe!File
      BY DEF DedupeInv, Dedupe!BoxTypeOK
    <2>2. f.mid # NoId => f \in [pos : Pos, mid : Mid]
      BY <2>1 DEF Dedupe!File
    <2>3. /\ \A q \in Process \ {p} : seen'[q] = seen[q] /\ doomed'[q] = doomed[q]
          /\ seen'[p] = IF f.mid = NoId \/ f.mid \in Dedupe!SeenIds(p) THEN seen[p]
                        ELSE seen[p] \union {f}
          /\ doomed'[p] = IF f.mid \in Dedupe!SeenIds(p) THEN x ELSE NoFile
      BY <1>2, <1>7 DEF DedupeInv, Dedupe!BoxTypeOK
    <2>4. seen'[p] \subseteq [pos : Pos, mid : Mid]
      BY <2>2, <2>3 DEF DedupeInv, Dedupe!BoxTypeOK
    <2>5. Dedupe!BoxTypeOK'
      BY <1>1, <1>2, <1>3, <1>7, <2>3, <2>4 DEF DedupeInv, Dedupe!BoxTypeOK
    <2>6. OnePlace'
      BY <1>2 DEF DedupeInv, OnePlace
    <2>7. \A s \in seen'[p] : s \in seen[p] \/ (s = f /\ f.mid # NoId)
      BY <2>3
    <2>8. FolderOf[x] < at[p]
      BY <1>1 DEF DedupeInv, Forward
    <2>9. Forward'
      BY <1>2, <1>4, <1>5, <1>7, <2>3, <2>7, <2>8 DEF DedupeInv, Forward
    <2>10. f.mid \in Dedupe!SeenIds(p) => \E s \in seen[p] : s.mid = f.mid /\ s.pos < f.pos
      BY <1>1, <1>7 DEF Dedupe!SeenIds, DedupeInv, Forward
    <2>11. seen[p] \subseteq seen'[p]
      BY <2>3
    <2>12. \A g \in box : g.pos = x => g = f
      BY <1>7 DEF DedupeInv, OnePlace
    <2>13. x \in used
      BY <1>7 DEF DedupeInv, OnePlace
    <2>14. Doomed'
      BY <1>2, <2>3, <2>10, <2>11, <2>12, <2>13 DEF DedupeInv, Doomed
    <2>15. \E g \in box : g.mid = f.mid /\ g.pos <= f.pos
      BY <1>3, <1>7
    <2>16. CopyKept'
      BY <1>2, <2>3, <2>7, <2>15 DEF DedupeInv, CopyKept
    <2>17. \A s, t \in seen'[p] : s.mid = t.mid => s = t
      BY <2>3 DEF DedupeInv, Covered, Dedupe!SeenIds
    <2>18. f.mid # NoId => f \in seen'[p] \/ f.pos = doomed'[p]
      BY <1>7, <2>3
    <2>19. x # NoFile
      BY <1>3 DEF Dedupe!DedupeAssumption
    <2>20. ~dry[p] /\ ~disturbed[p] => \A g \in box :
              /\ FolderOf[g.pos] < at[p] /\ g.pos \notin todo'[p]
              /\ g.pos # doomed'[p] /\ g.mid # NoId
              => g \in seen'[p]
      <3> SUFFICES ASSUME ~dry[p], ~disturbed[p], NEW g \in box, FolderOf[g.pos] < at[p],
                          g.pos \notin todo'[p], g.pos # doomed'[p], g.mid # NoId
                   PROVE  g \in seen'[p]
        OBVIOUS
      <3>1. CASE g.pos = x
        BY <2>12, <2>18, <3>1
      <3>2. CASE g.pos # x
        <4>1. g.pos \in Pos /\ g.pos # doomed[p]
          BY <1>2 DEF DedupeInv, Dedupe!BoxTypeOK, Dedupe!File, Dedupe!DedupeAssumption
        <4> QED
          BY <1>4, <2>11, <3>2, <4>1 DEF DedupeInv, Covered
      <3> QED
        BY <3>1, <3>2
    <2>21. Covered'
      BY <1>2, <1>4, <2>3, <2>17, <2>20 DEF DedupeInv, Covered
    <2> QED
      BY <2>5, <2>6, <2>9, <2>14, <2>16, <2>21 DEF DedupeInv
  <1> QED
    BY <1>1, <1>6, <1>7

LEMMA StopKeepsBox ==
    ASSUME Dedupe!DedupeAssumption, DedupeInv, NEW p \in Process,
    Dedupe!Finish(p) \/ Dedupe!Fail(p)
    PROVE  DedupeInv'
  <1>1. /\ dedupePc[p] = "scan"
        /\ \/ dedupePc'[p] = "failed"
           \/ dedupePc'[p] = "done" /\ todo[p] = {} /\ doomed[p] = NoFile /\ at[p] > Folders
        /\ \A q \in Process \ {p} : dedupePc'[q] = dedupePc[q]
        /\ UNCHANGED <<box, used, at, todo, seen, doomed, dry, disturbed, arrived, touched>>
    BY DEF DedupeInv, Dedupe!BoxTypeOK, Dedupe!Finish, Dedupe!Fail
  <1>2. Dedupe!BoxTypeOK'
    BY DEF DedupeInv, Dedupe!BoxTypeOK, Dedupe!Finish, Dedupe!Fail
  <1>3. OnePlace' /\ Doomed' /\ CopyKept'
    BY <1>1 DEF DedupeInv, OnePlace, Doomed, CopyKept
  <1>4. Forward' /\ Covered'
    BY <1>1 DEF DedupeInv, Forward, Covered
  <1> QED
    BY <1>2, <1>3, <1>4 DEF DedupeInv

-----------------------------------------------------------------------------
(* What a pass deletes is a copy of something kept.                        *)
LEMMA RemoveKeepsFirst ==
    ASSUME Dedupe!DedupeAssumption, DedupeInv, NEW p \in Process, Dedupe!Remove(p),
    NEW f \in box \ box'
    PROVE  f.mid \in touched \/ \E g \in box' : g.mid = f.mid /\ g.pos < f.pos
  <1>1. box' = {g \in box : dry[p] \/ g.pos # doomed[p]} /\ doomed[p] # NoFile
    BY DEF Dedupe!Remove
  <1>2. f.pos = doomed[p]
    BY <1>1
  <1>3. PICK s \in seen[p] : s.mid = f.mid /\ s.pos < f.pos
    BY <1>1, <1>2 DEF DedupeInv, Doomed
  <1>4. CASE s.mid \in touched
    BY <1>3, <1>4
  <1>5. CASE \E g \in box : g.mid = s.mid /\ g.pos <= s.pos
    <2>1. PICK g \in box : g.mid = s.mid /\ g.pos <= s.pos
      BY <1>5
    <2>2. g.pos \in Nat /\ s.pos \in Nat /\ f.pos \in Nat
      BY FilePlaces, PlacesAreNumbers DEF DedupeInv
    <2>3. g.pos < f.pos
      BY <1>3, <2>1, <2>2
    <2>4. g \in box'
      BY <1>1, <1>2, <2>2, <2>3
    <2> QED
      BY <1>3, <2>1, <2>3, <2>4
  <1> QED
    BY <1>4, <1>5 DEF DedupeInv, CopyKept

LEMMA RemoveKeepsBox ==
    ASSUME Dedupe!DedupeAssumption, DedupeInv, NEW p \in Process, Dedupe!Remove(p)
    PROVE  DedupeInv'
  <1>1. /\ box' \subseteq box
        /\ doomed' = [doomed EXCEPT ![p] = NoFile]
        /\ UNCHANGED <<used, dedupePc, at, todo, seen, dry, arrived, touched>>
    BY DEF Dedupe!Remove
  <1>2. disturbed' = disturbed \/ disturbed' = [disturbed EXCEPT ![p] = TRUE]
    BY DEF Dedupe!Remove
  <1>3. Dedupe!BoxTypeOK'
    BY <1>1, <1>2 DEF DedupeInv, Dedupe!BoxTypeOK
  <1>4. OnePlace'
    BY <1>1 DEF DedupeInv, OnePlace
  <1>5. doomed'[p] = NoFile /\ \A q \in Process \ {p} : doomed'[q] = doomed[q]
    BY <1>1 DEF DedupeInv, Dedupe!BoxTypeOK
  <1>6. Forward' /\ Doomed'
    BY <1>1, <1>5 DEF DedupeInv, Forward, Doomed
  <1>7. CopyKept'
    <2> SUFFICES ASSUME NEW q \in Process, NEW s \in seen[q], s.mid \notin touched
                 PROVE  \E g \in box' : g.mid = s.mid /\ g.pos <= s.pos
      BY <1>1 DEF CopyKept
    <2>1. PICK f \in box : f.mid = s.mid /\ f.pos <= s.pos
      BY DEF DedupeInv, CopyKept
    <2>2. CASE f \in box'
      BY <2>1, <2>2
    <2>3. CASE f \notin box'
      <3>1. PICK g \in box' : g.mid = f.mid /\ g.pos < f.pos
        BY <2>1, <2>3, RemoveKeepsFirst
      <3>2. g \in box
        BY <1>1, <3>1
      <3>3. g.pos \in Nat /\ f.pos \in Nat /\ s.pos \in Nat
        BY <3>2, FilePlaces, PlacesAreNumbers DEF DedupeInv
      <3> QED
        BY <2>1, <3>1, <3>3
    <2> QED
      BY <2>2, <2>3
  <1>8. ~dry[p] /\ ~disturbed'[p] => \A f \in box' : f.pos # doomed[p]
    BY <1>2 DEF Dedupe!Remove, DedupeInv, Dedupe!BoxTypeOK
  <1>9. \A q \in Process : ~disturbed'[q] => ~disturbed[q]
    BY <1>2 DEF DedupeInv, Dedupe!BoxTypeOK
  <1>10. dedupePc[p] = "scan"
    BY DEF Dedupe!Remove
  <1>11. Covered'
    BY <1>1, <1>5, <1>8, <1>9, <1>10 DEF DedupeInv, Covered
  <1> QED
    BY <1>3, <1>4, <1>6, <1>7, <1>11 DEF DedupeInv

(* Mail comes, moves or goes: no place is given twice, and every pass is   *)
(* disturbed.                                                              *)
LEMMA DisturbKeepsBox ==
    ASSUME Dedupe!DedupeAssumption, DedupeInv, Dedupe!Deliver \/ Dedupe!Move \/ Dedupe!Expunge
    PROVE  DedupeInv'
  <1>1. \A q \in Process : disturbed'[q] = TRUE
    BY DEF Dedupe!Deliver, Dedupe!Move, Dedupe!Expunge, Dedupe!Disturb
  <1>2. UNCHANGED Dedupe!pass
    BY DEF Dedupe!Deliver, Dedupe!Move, Dedupe!Expunge
  <1>3. /\ \A g \in box' : g \in box \/ (g \in Dedupe!File /\ g.pos \notin used /\ g.pos \in used')
        /\ \A g, h \in box' : g \notin box /\ h \notin box => g = h
        /\ \A g \in box \ box' : g.mid \in touched'
        /\ used \subseteq used' /\ used' \subseteq Pos
        /\ touched \subseteq touched' /\ touched' \subseteq Mid \union {NoId}
        /\ arrived' \subseteq Mid
    <2>1. CASE Dedupe!Deliver
      <3>1. PICK f \in Dedupe!File : /\ f.pos \notin used /\ box' = box \union {f}
                              /\ used' = used \union {f.pos}
                              /\ arrived' = arrived \union ({f.mid} \ {NoId})
        BY <2>1 DEF Dedupe!Deliver
      <3>2. f.pos \in Pos /\ f.mid \in Mid \union {NoId}
        BY DEF Dedupe!File
      <3> QED
        BY <2>1, <3>1, <3>2 DEF Dedupe!Deliver, DedupeInv, Dedupe!BoxTypeOK
    <2>2. CASE Dedupe!Move
      <3>1. PICK f \in box, x \in Pos \ used :
                /\ box' = (box \ {f}) \union {[pos |-> x, mid |-> f.mid]}
                /\ used' = used \union {x}
                /\ touched' = touched \union {f.mid}
        BY <2>2 DEF Dedupe!Move
      <3>2. f.mid \in Mid \union {NoId}
        BY DEF DedupeInv, Dedupe!BoxTypeOK, Dedupe!File
      <3>3. [pos |-> x, mid |-> f.mid] \in Dedupe!File
        BY <3>2 DEF Dedupe!File
      <3> QED
        BY <2>2, <3>1, <3>2, <3>3 DEF Dedupe!Move, DedupeInv, Dedupe!BoxTypeOK
    <2>3. CASE Dedupe!Expunge
      <3>1. PICK f \in box : box' = box \ {f} /\ touched' = touched \union {f.mid}
        BY <2>3 DEF Dedupe!Expunge
      <3>2. f.mid \in Mid \union {NoId}
        BY DEF DedupeInv, Dedupe!BoxTypeOK, Dedupe!File
      <3> QED
        BY <2>3, <3>1, <3>2 DEF Dedupe!Expunge, DedupeInv, Dedupe!BoxTypeOK, Dedupe!pass
    <2> QED
      BY <2>1, <2>2, <2>3
  <1>4. disturbed' \in [Process -> BOOLEAN]
    BY DEF Dedupe!Deliver, Dedupe!Move, Dedupe!Expunge, Dedupe!Disturb
  <1>5. Dedupe!BoxTypeOK'
    BY <1>2, <1>3, <1>4 DEF DedupeInv, Dedupe!BoxTypeOK, Dedupe!pass
  <1>6. OnePlace'
    BY <1>3 DEF DedupeInv, OnePlace
  <1>7. Forward'
    BY <1>2 DEF DedupeInv, Forward, Dedupe!pass
  <1>8. Doomed'
    BY <1>2, <1>3 DEF DedupeInv, Doomed, Dedupe!pass
  <1>9. CopyKept'
    BY <1>2, <1>3 DEF DedupeInv, CopyKept, Dedupe!pass
  <1>10. Covered'
    BY <1>1, <1>2 DEF DedupeInv, Covered, Dedupe!pass
  <1> QED
    BY <1>5, <1>6, <1>7, <1>8, <1>9, <1>10 DEF DedupeInv

LEMMA DedupeInvKept ==
    Dedupe!DedupeAssumption /\ DedupeInv /\ [Dedupe!Next]_(Dedupe!vars) => DedupeInv'
  <1> SUFFICES ASSUME Dedupe!DedupeAssumption, DedupeInv, [Dedupe!Next]_(Dedupe!vars)
               PROVE  DedupeInv'
    OBVIOUS
  <1>1. ASSUME NEW p \in Process,
               \/ Dedupe!Start(p) \/ Dedupe!ListFolder(p) \/ Dedupe!Scan(p)
               \/ Dedupe!Remove(p) \/ Dedupe!Finish(p) \/ Dedupe!Fail(p)
        PROVE  DedupeInv'
    BY <1>1, StartKeepsBox, ListFolderKeepsBox, ScanKeepsBox, RemoveKeepsBox, StopKeepsBox
  <1>2. CASE Dedupe!Deliver \/ Dedupe!Move \/ Dedupe!Expunge
    BY <1>2, DisturbKeepsBox
  <1>3. CASE UNCHANGED Dedupe!vars
    BY <1>3 DEF DedupeInv, Dedupe!BoxTypeOK, OnePlace, Forward, Doomed, CopyKept, Covered,
       Dedupe!vars, Dedupe!pass
  <1> QED
    BY <1>1, <1>2, <1>3 DEF Dedupe!Next

(* Every reachable state satisfies the inductive invariant.                *)
LEMMA DedupeInvHolds == Spec => []DedupeInv
  <1>1. Dedupe!Init => DedupeInv
    BY DedupeStarts, MailboxAssumption
  <1>2. DedupeInv /\ [Dedupe!Next]_(Dedupe!vars) => DedupeInv'
    BY DedupeInvKept, MailboxAssumption
  <1> QED
    BY <1>1, <1>2, HostDedupes, PTL DEF Dedupe!Spec

-----------------------------------------------------------------------------
(* A pass that finished undisturbed left no message twice, whatever other  *)
(* passes did (maildir.go:117-172).                                        *)
THEOREM MailboxHasNoDuplicates == Spec => []DedupeComplete
  <1>1. DedupeInv => Dedupe!DedupeComplete
    <2> SUFFICES ASSUME DedupeInv, NEW p \in Process, dedupePc[p] = "done", ~dry[p],
    ~disturbed[p],
                        NEW f \in box, NEW g \in box, f.mid = g.mid, f.mid # NoId
                 PROVE  f = g
      BY DEF Dedupe!DedupeComplete
    <2>1. todo[p] = {} /\ doomed[p] = NoFile /\ at[p] > Folders /\ at[p] \in Nat
      BY DEF DedupeInv, Covered, Dedupe!BoxTypeOK
    <2>2. /\ FolderOf[f.pos] < at[p] /\ f.pos # doomed[p]
          /\ FolderOf[g.pos] < at[p] /\ g.pos # doomed[p]
      <3>1. f.pos \in Pos /\ g.pos \in Pos
        BY FilePlaces DEF DedupeInv
      <3>2. Folders \in Nat /\ NoFile \notin Pos
        BY MailboxAssumption DEF Dedupe!DedupeAssumption
      <3> QED
        BY <2>1, <3>1, <3>2, PlacesAreNumbers, MailboxAssumption
    <2>3. f \in seen[p] /\ g \in seen[p]
      BY <2>1, <2>2 DEF DedupeInv, Covered
    <2> QED
      BY <2>3 DEF DedupeInv, Covered
  <1> QED
    BY <1>1, DedupeInvHolds, PTL DEF DedupeComplete

(* Of a message's copies a pass has looked at, it keeps the first in       *)
(* folder-priority order, whatever happens to the mailbox meanwhile.       *)
THEOREM MailboxKeepsTheFirst == Spec => KeepsFirst
  <1> DEFINE First == \A f \in box \ box' : f.mid \in touched' \/
                         \E g \in box' : g.mid = f.mid /\ g.pos < f.pos
  <1>1. DedupeInv /\ [Dedupe!Next]_(Dedupe!vars) => [First]_(Dedupe!vars)
    <2> SUFFICES ASSUME DedupeInv, Dedupe!Next, NEW f \in box \ box'
                 PROVE  f.mid \in touched' \/ \E g \in box' : g.mid = f.mid /\ g.pos < f.pos
      OBVIOUS
    <2>1. ASSUME NEW p \in Process, Dedupe!Remove(p)
          PROVE  f.mid \in touched' \/ \E g \in box' : g.mid = f.mid /\ g.pos < f.pos
      BY <2>1, RemoveKeepsFirst, MailboxAssumption DEF Dedupe!Remove
    <2>2. CASE Dedupe!Deliver \/ Dedupe!Move \/ Dedupe!Expunge
      BY <2>2 DEF Dedupe!Deliver, Dedupe!Move, Dedupe!Expunge
    <2> QED
      BY <2>1, <2>2 DEF Dedupe!Next, Dedupe!Start, Dedupe!ListFolder, Dedupe!Scan,
         Dedupe!Finish, Dedupe!Fail
  <1> QED
    BY <1>1, DedupeInvHolds, MailboxAssumption, HostDedupes, PTL DEF Dedupe!Spec, KeepsFirst,
       Dedupe!KeepsFirst

(* However many passes run at once, whatever is delivered meanwhile and    *)
(* whichever deletions fail, a message keeps at least one of its copies,   *)
(* unless its owner moves or expunges it.                                  *)
THEOREM MailboxKeepsACopy == Spec => []Dedupe!KeepsOne
  <1>1. Dedupe!Init => Dedupe!KeepsOne
    BY DedupeStarts, MailboxAssumption
  <1>2. DedupeInv /\ Dedupe!KeepsOne /\ [Dedupe!Next]_(Dedupe!vars) => Dedupe!KeepsOne'
    <2> SUFFICES ASSUME DedupeInv, Dedupe!KeepsOne, [Dedupe!Next]_(Dedupe!vars),
                        NEW m \in arrived' \ touched'
                 PROVE  \E f \in box' : f.mid = m
      BY DEF Dedupe!KeepsOne
    <2>1. ASSUME NEW p \in Process, Dedupe!Remove(p) PROVE \E f \in box' : f.mid = m
      <3>1. PICK f \in box : f.mid = m
        BY <2>1 DEF Dedupe!Remove, Dedupe!KeepsOne
      <3>2. m \notin touched
        BY <2>1 DEF Dedupe!Remove
      <3>3. f \in box' \/ \E g \in box' : g.mid = f.mid
        BY <2>1, <3>1, <3>2, RemoveKeepsFirst, MailboxAssumption
      <3> QED
        BY <3>1, <3>3
    <2>2. CASE Dedupe!Deliver
      BY <2>2 DEF Dedupe!Deliver, Dedupe!KeepsOne
    <2>3. CASE Dedupe!Move \/ Dedupe!Expunge
      BY <2>3 DEF Dedupe!Move, Dedupe!Expunge, Dedupe!KeepsOne
    <2>4. ASSUME UNCHANGED <<box, arrived, touched>> PROVE \E f \in box' : f.mid = m
      BY <2>4 DEF Dedupe!KeepsOne
    <2> QED
      BY <2>1, <2>2, <2>3, <2>4 DEF Dedupe!Next, Dedupe!vars, Dedupe!Start,
         Dedupe!ListFolder, Dedupe!Scan, Dedupe!Finish, Dedupe!Fail
  <1> QED
    BY <1>1, <1>2, DedupeInvHolds, MailboxAssumption, HostDedupes, PTL DEF Dedupe!Spec

-----------------------------------------------------------------------------
(* The configuration.                                                      *)

Usable == {"starter", "edited"}
ConfigPlaces == {"idle", "init config", "init secrets", "write", "stat", "editor",
                 "load config", "load secrets", "done", "failed"}
ConfigFile == {"config", "secrets"}
Loaded == [config : Config!Text \union {"none"}, secrets : Config!Text \union {"none"}]

ConfigTyped ==
    /\ file \in [ConfigFile -> Config!Text]
    /\ configPc \in [Process -> ConfigPlaces]
    /\ creating \in [Process -> {"config", "secrets", "none"}]
    /\ got \in [Process -> Loaded]
    /\ configOvertaken \in [Process -> BOOLEAN]
    /\ saved \subseteq ConfigFile /\ clashed \subseteq ConfigFile /\ inits \in Nat

(* A file holds a saved text where the operator saved one, unless an init  *)
(* wrote over it; only so does secrets.env come to be broken.              *)
SavedText ==
    /\ \A f \in ConfigFile \ clashed : f \in saved <=> Config!Saved(file[f])
    /\ file["secrets"] = "broken" => "secrets" \in clashed

(* A process that is to write a file has created it; until somebody else   *)
(* writes, the file is empty, and config.toml is whole once the process is *)
(* past writing it.  What a process has loaded is usable, and until        *)
(* somebody else writes it is what was saved.                              *)
Configures(p) ==
    /\ configPc[p] = "write" => creating[p] # "none"
    /\ configPc[p] \in {"init config", "init secrets", "write"} => got[p] = Config!Nothing
    /\ got[p] # Config!Nothing \/ configPc[p] = "load secrets" => got[p].config \in Usable
    /\ ~configOvertaken[p] =>
          /\ configPc[p] = "write" /\ creating[p] = "config" => file["config"] = "part"
          /\ \/ configPc[p] \in {"init secrets", "load secrets", "done"}
             \/ configPc[p] = "write" /\ creating[p] = "secrets"
             => file["config"] \in Usable
          /\ got[p] # Config!Nothing /\ configPc[p] \in {"load secrets", "done"}
                /\ "config" \notin clashed => (got[p].config = "edited" <=> "config" \in saved)
          /\ got[p] # Config!Nothing /\ configPc[p] = "done"
                /\ "secrets" \notin clashed => (got[p].secrets = "edited" <=> "secrets" \in saved)

ConfigInv == ConfigTyped /\ SavedText /\ \A p \in Process : Configures(p)

LEMMA ConfigStarts == Config!Init => ConfigInv
  <1> SUFFICES ASSUME Config!Init PROVE ConfigInv
    OBVIOUS
  <1>1. ConfigTyped
    BY DEF Config!Init, ConfigTyped, Config!Text, ConfigPlaces, Config!Nothing, Loaded,
       ConfigFile
  <1>2. SavedText
    BY DEF Config!Init, SavedText, Config!Saved, ConfigFile
  <1>3. \A p \in Process : Configures(p)
    BY DEF Config!Init, Configures
  <1> QED
    BY <1>1, <1>2, <1>3 DEF ConfigInv

(* A step of one process leaves the others where they are, and if it       *)
(* changes a file, overtakes them.                                         *)
LEMMA OthersConfigure ==
    ASSUME ConfigInv, NEW p \in Process,
           \A q \in Process \ {p} :
              /\ configPc'[q] = configPc[q] /\ creating'[q] = creating[q] /\ got'[q] = got[q]
              /\ \/ configOvertaken'[q]
                 \/ /\ file' = file /\ saved' = saved /\ clashed' = clashed
                    /\ configOvertaken'[q] <=> configOvertaken[q]
    PROVE  \A q \in Process \ {p} : Configures(q)'
  <1> SUFFICES ASSUME NEW q \in Process \ {p} PROVE Configures(q)'
    OBVIOUS
  <1>1. Configures(q)
    BY DEF ConfigInv
  <1> QED
    BY <1>1 DEF Configures

(* The steps that change no file.                                          *)
LEMMA ReadersKeepConfig ==
    ASSUME ConfigInv, NEW p \in Process,
           Config!Start(p) \/ Config!Stat(p) \/ Config!Load(p) \/ Config!LoadSecrets(p)
           \/ Config!Crash(p)
    PROVE  ConfigInv'
  <1>1. /\ UNCHANGED <<file, saved, clashed, inits>>
        /\ \A q \in Process \ {p} : configPc'[q] = configPc[q] /\ creating'[q] = creating[q]
              /\ got'[q] = got[q] /\ configOvertaken'[q] = configOvertaken[q]
    BY DEF ConfigInv, ConfigTyped, Config!Start, Config!Stat, Config!Load,
       Config!LoadSecrets, Config!Crash, Config!Goto, Config!history
  <1>2. \A q \in Process \ {p} : Configures(q)'
    BY <1>1, OthersConfigure
  <1>3. ConfigTyped /\ Configures(p) /\ SavedText /\ SavedText'
    BY <1>1 DEF ConfigInv, SavedText
  <1>4. CASE Config!Start(p)
    <2>1. Config!Nothing \in Loaded
      BY DEF Config!Nothing, Loaded
    <2>2. ConfigTyped'
      BY <1>1, <1>3, <1>4, <2>1 DEF Config!Start, ConfigTyped, Config!Goto, ConfigPlaces
    <2>3. configPc'[p] \in {"init config", "stat", "load config"} /\ got'[p] = Config!Nothing
      BY <1>3, <1>4 DEF Config!Start, ConfigTyped, Config!Goto
    <2>4. Configures(p)'
      BY <2>3 DEF Configures
    <2> QED
      BY <1>2, <1>3, <2>2, <2>4 DEF ConfigInv
  <1>5. CASE Config!Stat(p)
    <2>1. got' = got /\ creating' = creating /\ configPc'[p] \in {"failed", "editor"}
      BY <1>3, <1>5 DEF Config!Stat, ConfigTyped, Config!Goto
    <2>2. ConfigTyped'
      BY <1>1, <1>3, <1>5 DEF Config!Stat, ConfigTyped, Config!Goto, ConfigPlaces
    <2>3. Configures(p)'
      BY <1>3, <2>1 DEF Configures
    <2> QED
      BY <1>2, <1>3, <2>2, <2>3 DEF ConfigInv
  <1>6. CASE Config!Load(p) /\ file["config"] \in Usable
    <2>1. got' = [got EXCEPT ![p].config = file["config"]] /\ configPc'[p] = "load secrets"
          /\ configPc' = [configPc EXCEPT ![p] = "load secrets"]
      BY <1>3, <1>6 DEF Config!Load, Usable, Config!Goto, ConfigTyped
    <2>2. got'[p] = [got[p] EXCEPT !.config = file["config"]]
      BY <1>3, <2>1 DEF ConfigTyped
    <2>3. got'[p].config = file["config"]
      BY <1>3, <2>2 DEF ConfigTyped, Loaded
    <2>4. got'[p] \in Loaded
      BY <1>3, <2>2 DEF ConfigTyped, Loaded, ConfigFile
    <2>5. got' \in [Process -> Loaded]
      BY <1>3, <2>1, <2>2, <2>4 DEF ConfigTyped
    <2>6. configPc' \in [Process -> ConfigPlaces] /\ creating' = creating
          /\ configOvertaken' = configOvertaken
      BY <1>3, <1>6, <2>1 DEF Config!Load, ConfigTyped, ConfigPlaces
    <2>7. ConfigTyped'
      BY <1>1, <1>3, <2>5, <2>6 DEF ConfigTyped
    <2>8. "config" \notin clashed => (file["config"] = "edited" <=> "config" \in saved)
      BY <1>3, <1>6 DEF SavedText, Config!Saved, ConfigFile, Usable
    <2>9. Configures(p)'
      BY <1>1, <1>6, <2>1, <2>3, <2>8 DEF Configures
    <2> QED
      BY <1>2, <1>3, <2>7, <2>9 DEF ConfigInv
  <1>7. CASE Config!Load(p) /\ file["config"] \notin Usable
    <2>1. got' = got /\ creating' = creating /\ configPc' = [configPc EXCEPT ![p] = "failed"]
          /\ configOvertaken' = configOvertaken /\ configPc[p] = "load config"
      BY <1>7 DEF Config!Load, Config!Goto, Usable
    <2>2. ConfigTyped' /\ configPc'[p] = "failed"
      BY <1>1, <1>3, <2>1 DEF ConfigTyped, ConfigPlaces
    <2>3. Configures(p)'
      BY <1>3, <2>1, <2>2 DEF Configures
    <2> QED
      BY <1>2, <1>3, <2>2, <2>3 DEF ConfigInv
  <1>8. CASE Config!LoadSecrets(p)
    <2> DEFINE read == Config!Parsed(file["secrets"])
    <2>1. configPc[p] = "load secrets" /\ got[p].config \in Usable /\ got[p] # Config!Nothing
      <3>1. configPc[p] = "load secrets" /\ got[p].config \in Usable
        BY <1>3, <1>8 DEF Config!LoadSecrets, Configures
      <3>2. Config!Nothing.config \notin Usable
        BY DEF Config!Nothing, Usable
      <3> QED
        BY <3>1, <3>2
    <2>2. \/ got' = got /\ configPc'[p] = "failed"
          \/ got' = [got EXCEPT ![p].secrets = read] /\ configPc'[p] = "done"
      BY <1>3, <1>8 DEF Config!LoadSecrets, Config!Goto, ConfigTyped
    <2>3. \/ got'[p] = got[p] /\ configPc'[p] = "failed"
          \/ got'[p] = [got[p] EXCEPT !.secrets = read] /\ configPc'[p] = "done"
      BY <1>3, <2>2 DEF ConfigTyped
    <2>4. read \in Config!Text \union {"none"}
      BY <1>3 DEF Config!Parsed, ConfigTyped, ConfigFile
    <2>5. /\ got'[p].config = got[p].config /\ got'[p] \in Loaded
          /\ configPc'[p] = "done" => got'[p].secrets = read
      BY <1>3, <2>3, <2>4 DEF ConfigTyped, Loaded
    <2>6. got' \in [Process -> Loaded]
      BY <1>3, <2>2, <2>5 DEF ConfigTyped
    <2>7. creating' = creating /\ configOvertaken' = configOvertaken
          /\ configPc' \in [Process -> ConfigPlaces]
      BY <1>3, <1>8 DEF Config!LoadSecrets, Config!Goto, ConfigTyped, ConfigPlaces
    <2>8. ConfigTyped'
      BY <1>1, <1>3, <2>6, <2>7 DEF ConfigTyped
    <2>9. "secrets" \notin clashed => (read = "edited" <=> "secrets" \in saved)
      BY <1>3 DEF SavedText, Config!Parsed, Config!Saved, ConfigFile
    <2>10. ~configOvertaken[p] => file["config"] \in Usable
              /\ ("config" \notin clashed => (got[p].config = "edited" <=> "config" \in saved))
      BY <1>3, <2>1 DEF Configures
    <2>11. Configures(p)'
      BY <1>1, <2>1, <2>3, <2>5, <2>7, <2>9, <2>10 DEF Configures
    <2> QED
      BY <1>2, <1>3, <2>8, <2>11 DEF ConfigInv
  <1>9. CASE Config!Crash(p)
    <2>1. got' = got /\ configPc' = [configPc EXCEPT ![p] = "failed"]
          /\ creating' = [creating EXCEPT ![p] = "none"] /\ configOvertaken' = configOvertaken
      BY <1>9 DEF Config!Crash, Config!Goto
    <2>2. ConfigTyped' /\ configPc'[p] = "failed"
      BY <1>1, <1>3, <2>1 DEF ConfigTyped, ConfigPlaces
    <2>3. Configures(p)'
      BY <1>3, <2>1, <2>2 DEF Configures
    <2> QED
      BY <1>2, <1>3, <2>2, <2>3 DEF ConfigInv
  <1> QED
    BY <1>4, <1>5, <1>6, <1>7, <1>8, <1>9

(* The steps that may change a file.                                       *)
LEMMA InitKeepsConfig ==
    ASSUME ConfigInv, NEW p \in Process, Config!InitDir(p)
    PROVE  ConfigInv'
  <1>1. PICK f \in ConfigFile :
            /\ Config!CreateNew(p, f)
            /\ configPc[p] = IF f = "config" THEN "init config" ELSE "init secrets"
    BY DEF Config!InitDir, ConfigFile
  <1>2. ConfigTyped /\ Configures(p) /\ SavedText
    BY DEF ConfigInv
  <1>3. configOvertaken' \in [Process -> BOOLEAN] /\ (configOvertaken'[p] <=> configOvertaken[p])
        /\ \A q \in Process \ {p} : configOvertaken'[q]
    BY <1>2 DEF Config!InitDir, Config!Others, ConfigTyped
  <1>4. \A q \in Process \ {p} : configPc'[q] = configPc[q] /\ creating'[q] = creating[q]
    BY <1>1, <1>2 DEF Config!CreateNew, Config!Goto, ConfigTyped
  <1>5. got' = got /\ saved' = saved /\ clashed' = clashed /\ inits' = inits
        /\ got[p] = Config!Nothing
    BY <1>1, <1>2 DEF Config!InitDir, Config!history, Configures
  <1>6. \A q \in Process \ {p} : Configures(q)'
    BY <1>3, <1>4, <1>5, OthersConfigure
  <1>7. CASE file[f] # "absent"
    <2>1. UNCHANGED <<file, creating>> /\ configPc' = [configPc EXCEPT ![p] = "failed"]
      BY <1>1, <1>7 DEF Config!CreateNew, Config!Goto
    <2>2. ConfigTyped' /\ configPc'[p] = "failed" /\ SavedText'
      BY <1>2, <1>3, <1>5, <2>1 DEF ConfigTyped, ConfigPlaces, SavedText
    <2>3. Configures(p)'
      BY <1>2, <1>5, <2>1, <2>2 DEF Configures
    <2> QED
      BY <1>6, <2>2, <2>3 DEF ConfigInv
  <1>8. CASE file[f] = "absent"
    <2>1. /\ file' = [file EXCEPT ![f] = "part"] /\ creating' = [creating EXCEPT ![p] = f]
          /\ configPc' = [configPc EXCEPT ![p] = "write"]
      BY <1>1, <1>8 DEF Config!CreateNew, Config!Goto
    <2>2. ConfigTyped' /\ creating'[p] = f /\ configPc'[p] = "write" /\ f # "none"
      BY <1>2, <1>3, <1>5, <2>1 DEF ConfigTyped, ConfigPlaces, Config!Text, ConfigFile
    <2>3. \A g \in ConfigFile : file'[g] = IF g = f THEN "part" ELSE file[g]
      BY <1>2, <2>1 DEF ConfigTyped
    <2>4. SavedText'
      BY <1>2, <1>5, <1>8, <2>3 DEF SavedText, Config!Saved, ConfigFile
    <2>5. f = "secrets" /\ ~configOvertaken[p] => file["config"] \in Usable
      BY <1>1, <1>2 DEF Configures
    <2>6. Configures(p)'
      BY <1>1, <1>2, <1>3, <1>5, <2>2, <2>3, <2>5 DEF Configures, ConfigFile
    <2> QED
      BY <1>6, <2>2, <2>4, <2>6 DEF ConfigInv
  <1> QED
    BY <1>7, <1>8

(* What a write leaves in its file: the starter, where it was empty.       *)
AfterWrite(f) == IF f = "config" THEN "init secrets" ELSE "done"

Wrote(p, f, t) ==
    /\ file' = [file EXCEPT ![f] = t]
    /\ configPc' = [configPc EXCEPT ![p] = AfterWrite(f)]
    /\ file[f] = "part" => t = "starter"
    /\ inits' = IF f = "config" THEN inits ELSE inits + 1

GaveUp(p, f, t) ==
    /\ file' = [file EXCEPT ![f] = t]
    /\ configPc' = [configPc EXCEPT ![p] = "failed"]
    /\ file[f] = "part" => t # "broken"
    /\ inits' = inits

LEMMA WriteLeaves ==
    ASSUME ConfigTyped, NEW p \in Process, NEW f \in ConfigFile, f = creating[p],
           Config!WriteNew(p)
    PROVE  \E t \in {file[f], "broken", "starter"} : Wrote(p, f, t) \/ GaveUp(p, f, t)
  <1> DEFINE where == AfterWrite(f)
  <1>1. CASE /\ \E t \in Config!Outcomes(file[f]) : file' = [file EXCEPT ![f] = t]
             /\ configPc' = [configPc EXCEPT ![p] = where]
             /\ inits' = IF f = "config" THEN inits ELSE inits + 1
    <2>1. PICK t \in Config!Outcomes(file[f]) : file' = [file EXCEPT ![f] = t]
      BY <1>1
    <2>2. t \in {file[f], "broken", "starter"} /\ (file[f] = "part" => t = "starter")
      BY DEF Config!Outcomes
    <2> QED
      BY <1>1, <2>1, <2>2 DEF Wrote
  <1>2. CASE /\ \E t \in Config!Outcomes(file[f]) \union {file[f]} :
                   file' = [file EXCEPT ![f] = t]
             /\ configPc' = [configPc EXCEPT ![p] = "failed"] /\ inits' = inits
    <2>1. PICK t \in Config!Outcomes(file[f]) \union {file[f]} :
                file' = [file EXCEPT ![f] = t]
      BY <1>2
    <2>2. t \in {file[f], "broken", "starter"} /\ (file[f] = "part" => t # "broken")
      BY DEF Config!Outcomes
    <2> QED
      BY <1>2, <2>1, <2>2 DEF GaveUp
  <1> QED
    BY <1>1, <1>2 DEF Config!WriteNew, Config!Goto, AfterWrite

LEMMA WriteKeepsConfig ==
    ASSUME ConfigInv, NEW p \in Process, Config!WriteNew(p)
    PROVE  ConfigInv'
  <1>1. ConfigTyped /\ Configures(p) /\ SavedText
    BY DEF ConfigInv
  <1>2. PICK f \in ConfigFile : f = creating[p]
    BY <1>1 DEF Config!WriteNew, ConfigTyped, Configures, ConfigFile
  <1>3. configOvertaken' \in [Process -> BOOLEAN] /\ (configOvertaken'[p] <=> configOvertaken[p])
        /\ \A q \in Process \ {p} : configOvertaken'[q]
    BY <1>1 DEF Config!WriteNew, Config!Others, ConfigTyped
  <1>4. \A q \in Process \ {p} : configPc'[q] = configPc[q] /\ creating'[q] = creating[q]
    BY <1>1 DEF Config!WriteNew, Config!Goto, ConfigTyped
  <1>5. got' = got /\ creating' \in [Process -> {"config", "secrets", "none"}]
        /\ got[p] = Config!Nothing /\ saved' = saved
        /\ clashed' = IF file[f] = "part" THEN clashed ELSE clashed \union {f}
    BY <1>1, <1>2 DEF Config!WriteNew, ConfigTyped, Configures
  <1>6. \A q \in Process \ {p} : Configures(q)'
    BY <1>3, <1>4, <1>5, OthersConfigure
  <1>7. PICK t \in {file[f], "broken", "starter"} : Wrote(p, f, t) \/ GaveUp(p, f, t)
    BY <1>1, <1>2, WriteLeaves
  <1>8. \A g \in ConfigFile : file'[g] = IF g = f THEN t ELSE file[g]
    BY <1>1, <1>7 DEF ConfigTyped, Wrote, GaveUp
  <1>9. ConfigTyped'
    <2>1. file[f] \in Config!Text
      BY <1>1 DEF ConfigTyped
    <2>2. t \in Config!Text
      BY <1>7, <2>1 DEF Config!Text
    <2>3. file' \in [ConfigFile -> Config!Text]
      BY <1>1, <1>7, <2>2 DEF ConfigTyped, Wrote, GaveUp
    <2>4. configPc' \in [Process -> ConfigPlaces]
      BY <1>1, <1>7 DEF ConfigTyped, ConfigPlaces, Wrote, GaveUp, AfterWrite
    <2>5. inits' \in Nat
      BY <1>1, <1>7 DEF ConfigTyped, Wrote, GaveUp
    <2>6. clashed' \subseteq ConfigFile /\ saved' \subseteq ConfigFile
      BY <1>1, <1>5 DEF ConfigTyped
    <2> QED
      BY <1>1, <1>3, <1>5, <2>3, <2>4, <2>5, <2>6 DEF ConfigTyped
  <1>10. SavedText'
    <2>1. CASE file[f] = "part"
      <3>1. t \in {"part", "starter"}
        BY <1>7, <2>1 DEF Wrote, GaveUp
      <3> QED
        BY <1>1, <1>5, <1>8, <2>1, <3>1 DEF SavedText, Config!Saved, ConfigFile
    <2>2. CASE file[f] # "part"
      BY <1>1, <1>5, <1>8, <2>2 DEF SavedText, Config!Saved, ConfigFile
    <2> QED
      BY <2>1, <2>2
  <1>11. Configures(p)'
    <2>1. CASE configPc'[p] = "failed"
      BY <1>5, <2>1 DEF Configures
    <2>2. CASE /\ configPc'[p] = AfterWrite(f)
               /\ file[f] = "part" => t = "starter"
      <3>1. ~configOvertaken[p] => file'["config"] \in Usable
        BY <1>1, <1>2, <1>8, <2>2 DEF Configures, Usable, Config!WriteNew, ConfigFile
      <3> QED
        BY <1>3, <1>5, <2>2, <3>1 DEF Configures, AfterWrite
    <2> QED
      BY <1>1, <1>7, <2>1, <2>2 DEF ConfigTyped, Wrote, GaveUp
  <1> QED
    BY <1>6, <1>9, <1>10, <1>11 DEF ConfigInv

LEMMA EditsKeepConfig ==
    ASSUME ConfigInv,
           Config!EditSecrets \/ \E p \in Process : Config!RunConfigEdit(p)
    PROVE  ConfigInv'
  <1>1. CASE Config!EditSecrets
    <2>1. /\ UNCHANGED <<configPc, creating, got, inits>>
          /\ \/ UNCHANGED <<file, saved, clashed>>
             \/ /\ file' = [file EXCEPT !["secrets"] = "edited"]
                /\ saved' = saved \union {"secrets"} /\ clashed' = clashed \ {"secrets"}
          /\ configOvertaken' = [p \in Process |-> TRUE]
      BY <1>1 DEF Config!EditSecrets, Config!process, Config!history, Config!Saves
    <2>2. ConfigTyped'
      BY <2>1 DEF ConfigInv, ConfigTyped, Config!Text, ConfigFile
    <2>3. \A p \in Process : Configures(p)'
      BY <2>1 DEF ConfigInv, Configures
    <2>4. SavedText'
      BY <2>1 DEF ConfigInv, SavedText, Config!Saved, ConfigTyped, ConfigFile
    <2> QED
      BY <2>2, <2>3, <2>4 DEF ConfigInv
  <1>2. ASSUME NEW p \in Process, Config!RunConfigEdit(p) PROVE ConfigInv'
    <2>1. ConfigTyped /\ Configures(p) /\ SavedText
      BY DEF ConfigInv
    <2>2. /\ UNCHANGED <<creating, got, inits>>
          /\ \/ configPc' = [configPc EXCEPT ![p] = "load config"]
             \/ configPc' = [configPc EXCEPT ![p] = "failed"]
          /\ \/ UNCHANGED <<file, saved, clashed, configOvertaken>>
             \/ /\ \E t \in {"edited", "broken"} : file' = [file EXCEPT !["config"] = t]
                /\ saved' = saved \union {"config"} /\ clashed' = clashed \ {"config"}
                /\ configOvertaken' = [q \in Process |-> configOvertaken[q] \/ q # p]
      <3>1. /\ UNCHANGED <<creating, got>>
            /\ \/ configPc' = [configPc EXCEPT ![p] = "load config"]
               \/ configPc' = [configPc EXCEPT ![p] = "failed"]
            /\ IF file' = file THEN UNCHANGED <<configOvertaken, saved, clashed, inits>>
               ELSE /\ configOvertaken' = [q \in Process |-> configOvertaken[q] \/ q # p]
                    /\ saved' = saved \union {"config"} /\ clashed' = clashed \ {"config"}
                    /\ UNCHANGED inits
        BY <1>2 DEF Config!RunConfigEdit, Config!Goto, Config!Others, Config!Saves,
           Config!history
      <3>2. file' = file \/ \E t \in {"edited", "broken"} : file' = [file EXCEPT !["config"] = t]
        BY <1>2 DEF Config!RunConfigEdit
      <3> QED
        BY <3>1, <3>2
    <2>3. configPc[p] = "editor" /\ configPc'[p] \in {"load config", "failed"}
      BY <1>2, <2>1, <2>2 DEF ConfigTyped, Config!RunConfigEdit
    <2>4. configPc' \in [Process -> ConfigPlaces] /\ configOvertaken' \in [Process -> BOOLEAN]
      BY <2>1, <2>2 DEF ConfigTyped, ConfigPlaces
    <2>5. \A q \in Process \ {p} : Configures(q)'
      BY <2>1, <2>2, OthersConfigure DEF ConfigTyped
    <2>6. Configures(p)'
      BY <2>1, <2>2, <2>3 DEF Configures
    <2>7. CASE UNCHANGED <<file, saved, clashed>>
      BY <2>1, <2>2, <2>4, <2>5, <2>6, <2>7 DEF ConfigInv, ConfigTyped, SavedText
    <2>8. ASSUME NEW t \in {"edited", "broken"}, file' = [file EXCEPT !["config"] = t],
                 saved' = saved \union {"config"}, clashed' = clashed \ {"config"}
          PROVE  ConfigInv'
      <3>1. t \in Config!Text /\ "config" \in ConfigFile
        BY DEF Config!Text, ConfigFile
      <3>2. file' \in [ConfigFile -> Config!Text]
        BY <2>1, <2>8, <3>1 DEF ConfigTyped
      <3>3. ConfigTyped'
        BY <2>1, <2>2, <2>4, <2>8, <3>1, <3>2 DEF ConfigTyped
      <3>4. SavedText'
        BY <2>1, <2>8 DEF SavedText, Config!Saved, ConfigTyped, ConfigFile
      <3> QED
        BY <2>5, <2>6, <3>3, <3>4 DEF ConfigInv
    <2> QED
      BY <2>2, <2>7, <2>8
  <1> QED
    BY <1>1, <1>2

LEMMA ConfigInvHolds == Spec => []ConfigInv
  <1>1. ConfigInv /\ [Config!Next]_(Config!vars) => ConfigInv'
    <2> SUFFICES ASSUME ConfigInv, [Config!Next]_(Config!vars) PROVE ConfigInv'
      OBVIOUS
    <2>1. CASE UNCHANGED Config!vars
      BY <2>1 DEF Config!vars, Config!process, Config!history, ConfigInv, ConfigTyped,
         SavedText, Configures
    <2>2. CASE Config!Next
      BY <2>2, ReadersKeepConfig, InitKeepsConfig, WriteKeepsConfig, EditsKeepConfig
         DEF Config!Next, Config!Step
    <2> QED
      BY <2>1, <2>2
  <1> QED
    BY <1>1, ConfigStarts, HostConfigures, PTL DEF Config!Spec

(* A command that goes on past the load runs on a whole, valid config.toml *)
(* and, if nobody wrote meanwhile, on the text saved last in either file,  *)
(* and on no secrets where none was saved, unless an init wrote over the   *)
(* save; and an edit or an init that reports success and was not overtaken *)
(* leaves a config.toml every command accepts.                             *)
THEOREM ConfigurationIsUsable == Spec => []SuccessIsUsable
  <1>1. ConfigInv => SuccessIsUsable
    <2> SUFFICES ASSUME ConfigInv, NEW p \in Process, configPc[p] = "done"
                 PROVE  /\ got[p] # Config!Nothing =>
                              /\ got[p].config \in Usable
                              /\ ~configOvertaken[p] =>
                                    \A f \in ConfigFile \ clashed :
                                        got[p][f] = "edited" <=> f \in saved
                        /\ ~configOvertaken[p] => file["config"] \in Usable
      BY DEF SuccessIsUsable, Config!SuccessIsUsable, Usable, ConfigFile
    <2>1. Configures(p)
      BY DEF ConfigInv
    <2> QED
      BY <2>1 DEF Configures, ConfigFile
  <1> QED
    BY <1>1, ConfigInvHolds, PTL

(* Whoever has created config.toml and not given up is the only one, and   *)
(* none has finished before it.                                            *)
Claims(p) == configPc[p] \in {"init secrets", "write"}

Claimed(p) ==
    /\ Claims(p) => inits = 0 /\ file["config"] # "absent"
    /\ configPc[p] = "write" => creating[p] \in ConfigFile /\ file[creating[p]] # "absent"
    /\ \/ configPc[p] = "init secrets"
       \/ configPc[p] = "write" /\ creating[p] = "secrets"
       => file["config"] \notin {"absent", "part"}

InitInv ==
    /\ InitSucceedsOnce
    /\ \A p \in Process : Claimed(p)
    /\ \A p, q \in Process : Claims(p) /\ Claims(q) => p = q

(* A file never goes back; it is "part" only when it was just created.     *)
LEMMA FilesGoForward ==
    ASSUME ConfigInv, Config!Next, NEW f \in ConfigFile
    PROVE  /\ file'[f] = "absent" => file[f] = "absent"
           /\ file'[f] = "part" => file[f] \in {"absent", "part"}
  <1>1. ConfigTyped /\ \A p \in Process : Configures(p)
    BY DEF ConfigInv
  <1>2. ASSUME NEW p \in Process, Config!WriteNew(p)
        PROVE  \E g \in ConfigFile : \E t \in {file[g], "broken", "starter"} :
                  file' = [file EXCEPT ![g] = t]
    <2>1. PICK g \in ConfigFile : g = creating[p]
      BY <1>1, <1>2 DEF Config!WriteNew, ConfigTyped, Configures, ConfigFile
    <2> QED
      BY <1>1, <1>2, <2>1, WriteLeaves DEF Wrote, GaveUp
  <1>3. CASE \E p \in Process : Config!InitDir(p)
    BY <1>1, <1>3 DEF Config!InitDir, Config!CreateNew, ConfigTyped, ConfigFile
  <1>4. CASE \E p \in Process : Config!WriteNew(p)
    BY <1>1, <1>2, <1>4 DEF ConfigTyped
  <1>5. CASE \E p \in Process : Config!RunConfigEdit(p)
    <2>1. \/ file' = file
          \/ \E t \in {"edited", "broken"} : file' = [file EXCEPT !["config"] = t]
      BY <1>5 DEF Config!RunConfigEdit
    <2> QED
      BY <1>1, <2>1 DEF ConfigTyped, ConfigFile
  <1>6. CASE Config!EditSecrets
    BY <1>1, <1>6 DEF Config!EditSecrets, ConfigTyped, ConfigFile
  <1>7. CASE \E p \in Process : Config!Start(p) \/ Config!Stat(p) \/ Config!Load(p)
                                \/ Config!LoadSecrets(p) \/ Config!Crash(p)
    BY <1>7 DEF Config!Start, Config!Stat, Config!Load, Config!LoadSecrets, Config!Crash
  <1> QED
    BY <1>3, <1>4, <1>5, <1>6, <1>7 DEF Config!Next, Config!Step

(* A step by which nobody comes to claim the files or to succeed.          *)
LEMMA BystandersKeepInit ==
    ASSUME ConfigInv, InitInv, Config!Next, inits' = inits,
           \A q \in Process : Claims(q)' =>
              configPc'[q] = configPc[q] /\ creating'[q] = creating[q]
    PROVE  InitInv'
  <1>1. \A f \in ConfigFile : /\ file'[f] = "absent" => file[f] = "absent"
                              /\ file'[f] = "part" => file[f] \in {"absent", "part"}
    BY FilesGoForward
  <1>2. InitSucceedsOnce'
    BY <1>1 DEF InitInv, InitSucceedsOnce, Config!InitSucceedsOnce, ConfigFile
  <1>3. ASSUME NEW q \in Process PROVE Claimed(q)'
    <2>1. CASE ~Claims(q)'
      BY <2>1 DEF Claimed, Claims
    <2>2. CASE Claims(q)'
      <3>1. Claims(q) /\ Claimed(q) /\ configPc'[q] = configPc[q] /\ creating'[q] = creating[q]
        BY <2>2 DEF InitInv, Claims
      <3>2. configPc[q] = "write" => file'[creating[q]] # "absent"
        BY <1>1, <3>1 DEF Claimed
      <3>3. file'["config"] # "absent"
        BY <1>1, <3>1 DEF Claimed, ConfigFile
      <3>4. file["config"] \notin {"absent", "part"} => file'["config"] \notin {"absent", "part"}
        BY <1>1 DEF ConfigFile
      <3> QED
        BY <3>1, <3>2, <3>3, <3>4 DEF Claimed, Claims
    <2> QED
      BY <2>1, <2>2
  <1>4. \A p, q \in Process : Claims(p)' /\ Claims(q)' => p = q
    BY DEF InitInv, Claims
  <1> QED
    BY <1>2, <1>3, <1>4 DEF InitInv

LEMMA CreatorKeepsInit ==
    ASSUME ConfigInv, InitInv, Config!Next, NEW p \in Process, Config!InitDir(p)
    PROVE  InitInv'
  <1>1. PICK f \in ConfigFile :
            /\ Config!CreateNew(p, f)
            /\ configPc[p] = IF f = "config" THEN "init config" ELSE "init secrets"
    BY DEF Config!InitDir, ConfigFile
  <1>2. ConfigTyped /\ inits' = inits
    BY DEF ConfigInv, Config!InitDir, Config!history
  <1>3. CASE file[f] # "absent"
    <2>1. creating' = creating /\ configPc' = [configPc EXCEPT ![p] = "failed"]
      BY <1>1, <1>3 DEF Config!CreateNew, Config!Goto
    <2>2. \A q \in Process : Claims(q)' => configPc'[q] = configPc[q]
      BY <1>2, <2>1 DEF ConfigTyped, Claims
    <2> QED
      BY <1>2, <2>1, <2>2, BystandersKeepInit
  <1>4. CASE file[f] = "absent"
    <2>1. /\ file' = [file EXCEPT ![f] = "part"] /\ creating' = [creating EXCEPT ![p] = f]
          /\ configPc' = [configPc EXCEPT ![p] = "write"]
      BY <1>1, <1>4 DEF Config!CreateNew, Config!Goto
    <2>2. \A g \in ConfigFile : file'[g] = IF g = f THEN "part" ELSE file[g]
      BY <1>2, <2>1 DEF ConfigTyped
    <2>3. configPc'[p] = "write" /\ creating'[p] = f
          /\ \A q \in Process \ {p} : configPc'[q] = configPc[q] /\ creating'[q] = creating[q]
      BY <1>2, <2>1 DEF ConfigTyped
    <2>4. \A q \in Process : Claims(q) => q = p
      <3>1. CASE f = "config"
        BY <1>4, <3>1 DEF InitInv, Claimed
      <3>2. CASE f = "secrets"
        BY <1>1, <3>2 DEF InitInv, Claims
      <3> QED
        BY <3>1, <3>2 DEF ConfigFile
    <2>5. inits = 0 /\ InitSucceedsOnce'
      <3>1. inits # 1 /\ inits <= 1
        BY <1>4 DEF InitInv, InitSucceedsOnce, Config!InitSucceedsOnce, ConfigFile
      <3> QED
        BY <1>2, <3>1 DEF ConfigTyped, InitSucceedsOnce, Config!InitSucceedsOnce
    <2>6. Claimed(p)'
      <3>1. f = "secrets" => file["config"] \notin {"absent", "part"}
        BY <1>1 DEF InitInv, Claimed
      <3> QED
        BY <1>2, <2>2, <2>3, <2>5, <3>1 DEF Claimed, Claims, ConfigFile
    <2>7. \A q \in Process \ {p} : ~Claims(q)'
      BY <2>3, <2>4 DEF Claims
    <2>8. \A q \in Process \ {p} : Claimed(q)'
      BY <2>7 DEF Claimed, Claims
    <2> QED
      BY <2>5, <2>6, <2>7, <2>8 DEF InitInv
  <1> QED
    BY <1>3, <1>4

LEMMA WriterKeepsInit ==
    ASSUME ConfigInv, InitInv, Config!Next, NEW p \in Process, Config!WriteNew(p)
    PROVE  InitInv'
  <1>1. ConfigTyped /\ configPc[p] = "write" /\ creating' = [creating EXCEPT ![p] = "none"]
    BY DEF ConfigInv, Config!WriteNew
  <1>2. PICK f \in ConfigFile : f = creating[p]
    BY <1>1 DEF InitInv, Claimed
  <1>3. PICK t \in {file[f], "broken", "starter"} : Wrote(p, f, t) \/ GaveUp(p, f, t)
    BY <1>1, <1>2, WriteLeaves
  <1>4. \A q \in Process \ {p} : creating'[q] = creating[q]
    BY <1>1 DEF ConfigTyped
  <1>5. CASE GaveUp(p, f, t)
    <2>1. \A q \in Process : Claims(q)' => configPc'[q] = configPc[q] /\ q # p
      BY <1>1, <1>5 DEF ConfigTyped, Claims, GaveUp
    <2> QED
      BY <1>4, <1>5, <2>1, BystandersKeepInit DEF GaveUp
  <1>6. CASE Wrote(p, f, t)
    <2>1. inits = 0 /\ file[f] # "absent"
          /\ (f = "secrets" => file["config"] \notin {"absent", "part"})
      BY <1>1, <1>2 DEF InitInv, Claimed, Claims
    <2>2. t \notin {"absent", "part"}
      BY <1>6, <2>1 DEF Wrote
    <2>3. \A g \in ConfigFile : file'[g] = IF g = f THEN t ELSE file[g]
      BY <1>1, <1>6 DEF ConfigTyped, Wrote
    <2>4. \A q \in Process \ {p} : ~Claims(q)'
      <3>1. \A q \in Process \ {p} : configPc'[q] = configPc[q] /\ ~Claims(q)
        BY <1>1, <1>6 DEF ConfigTyped, InitInv, Claims, Wrote
      <3> QED
        BY <3>1 DEF Claims
    <2>5. configPc'[p] = AfterWrite(f) /\ inits' = IF f = "config" THEN 0 ELSE 1
      BY <1>1, <1>6, <2>1 DEF ConfigTyped, Wrote
    <2>6. \A q \in Process : Claimed(q)'
      <3>1. Claimed(p)'
        BY <2>1, <2>2, <2>3, <2>5 DEF Claimed, Claims, ConfigFile, AfterWrite
      <3> QED
        BY <2>4, <3>1 DEF Claimed, Claims
    <2>7. InitSucceedsOnce'
      BY <2>1, <2>2, <2>3, <2>5 DEF InitSucceedsOnce, Config!InitSucceedsOnce, ConfigFile
    <2> QED
      BY <2>4, <2>6, <2>7 DEF InitInv
  <1> QED
    BY <1>3, <1>5, <1>6

LEMMA InitInvKept == ConfigInv /\ InitInv /\ [Config!Next]_(Config!vars) => InitInv'
  <1> SUFFICES ASSUME ConfigInv, InitInv, [Config!Next]_(Config!vars) PROVE InitInv'
    OBVIOUS
  <1>1. CASE UNCHANGED Config!vars
    BY <1>1 DEF Config!vars, Config!process, Config!history, InitInv, InitSucceedsOnce,
       Config!InitSucceedsOnce, Claimed, Claims
  <1>2. CASE Config!Next
    <2>1. CASE \E p \in Process : Config!InitDir(p)
      BY <1>2, <2>1, CreatorKeepsInit
    <2>2. CASE \E p \in Process : Config!WriteNew(p)
      BY <1>2, <2>2, WriterKeepsInit
    <2>3. CASE Config!EditSecrets
      BY <1>2, <2>3, BystandersKeepInit
         DEF Config!EditSecrets, Config!process, Config!history, Config!Saves
    <2>4. ASSUME NEW p \in Process,
                 Config!Start(p) \/ Config!Stat(p) \/ Config!RunConfigEdit(p) \/ Config!Load(p)
                 \/ Config!LoadSecrets(p) \/ Config!Crash(p)
          PROVE  InitInv'
      <3>1. ConfigTyped
        BY DEF ConfigInv
      <3>2. /\ inits' = inits
            /\ \A q \in Process \ {p} : configPc'[q] = configPc[q] /\ creating'[q] = creating[q]
            /\ configPc'[p] \notin {"init secrets", "write"}
        <4>1. inits' = inits
          BY <2>4 DEF Config!Start, Config!Stat, Config!RunConfigEdit, Config!Load,
             Config!LoadSecrets, Config!Crash, Config!history, Config!Saves
        <4>2. creating' = creating \/ creating' = [creating EXCEPT ![p] = "none"]
          BY <2>4 DEF Config!Start, Config!Stat, Config!RunConfigEdit, Config!Load,
             Config!LoadSecrets, Config!Crash
        <4>3. \E w \in {"init config", "stat", "load config", "failed", "editor", "load secrets",
                        "done"} : configPc' = [configPc EXCEPT ![p] = w]
          BY <2>4 DEF Config!Start, Config!Stat, Config!RunConfigEdit, Config!Load,
             Config!LoadSecrets, Config!Crash, Config!Goto
        <4> QED
          BY <3>1, <4>1, <4>2, <4>3 DEF ConfigTyped
      <3> QED
        BY <1>2, <3>2, BystandersKeepInit DEF Claims
    <2> QED
      BY <1>2, <2>1, <2>2, <2>3, <2>4 DEF Config!Next, Config!Step
  <1> QED
    BY <1>1, <1>2

(* However many inits run at once, again, or die half way, at most one     *)
(* reports success, and then both are there and neither is half written.   *)
THEOREM InitsSucceedOnce == Spec => []InitSucceedsOnce
  <1>1. Config!Init => InitInv
    BY DEF Config!Init, InitInv, InitSucceedsOnce, Config!InitSucceedsOnce, Claimed, Claims
  <1>2. InitInv => InitSucceedsOnce
    BY DEF InitInv
  <1> QED
    BY <1>1, <1>2, InitInvKept, ConfigInvHolds, HostConfigures, PTL DEF Config!Spec

-----------------------------------------------------------------------------
(* The log tail.                                                           *)

Elems(s) == {s[i] : i \in 1 .. Len(s)}
Increasing(s) == \A i, j \in 1 .. Len(s) : i < j => s[i] < s[j]
LinesIn(w, m) == {i \in 1 .. m : w[i] = "line"}

LEMMA ElemsAreNumbers ==
    ASSUME NEW s \in Seq(Nat)
    PROVE  \A x \in Elems(s) : x \in Nat
  BY DEF Elems

LEMMA AppendOne ==
    ASSUME NEW s \in Seq(Nat), NEW e \in Nat
    PROVE  Append(s, e) \in Seq(Nat) /\ Append(s, e) # <<>>
           /\ Elems(Append(s, e)) = Elems(s) \union {e}
           /\ Append(s, e)[Len(Append(s, e))] = e
  BY DEF Elems

LEMMA AppendLast ==
    ASSUME NEW s \in Seq(Nat), NEW e \in Nat, Increasing(s), \A x \in Elems(s) : x < e
    PROVE  Increasing(Append(s, e))
  <1> SUFFICES ASSUME NEW i \in 1 .. Len(Append(s, e)), NEW j \in 1 .. Len(Append(s, e)), i < j
               PROVE  Append(s, e)[i] < Append(s, e)[j]
    BY DEF Increasing
  <1>1. i \in 1 .. Len(s) /\ Append(s, e)[i] = s[i] /\ s[i] \in Elems(s)
    BY DEF Elems
  <1>2. CASE j = Len(s) + 1
    BY <1>1, <1>2
  <1>3. CASE j \in 1 .. Len(s)
    BY <1>1, <1>3 DEF Increasing
  <1> QED
    BY <1>2, <1>3

LEMMA TailOne ==
    ASSUME NEW s \in Seq(Nat), s # <<>>
    PROVE  /\ Tail(s) \in Seq(Nat) /\ Head(s) \in Nat
           /\ Elems(s) = Elems(Tail(s)) \union {Head(s)}
  <1>1. /\ Tail(s) \in Seq(Nat) /\ Len(Tail(s)) = Len(s) - 1 /\ Len(s) \in Nat /\ Len(s) >= 1
        /\ \A i \in 1 .. Len(s) - 1 : Tail(s)[i] = s[i + 1]
        /\ Head(s) = s[1] /\ s[1] \in Nat
    OBVIOUS
  <1>2. Elems(Tail(s)) \subseteq Elems(s) /\ Head(s) \in Elems(s)
    BY <1>1 DEF Elems
  <1>3. ASSUME NEW i \in 1 .. Len(s) PROVE s[i] \in Elems(Tail(s)) \union {Head(s)}
    <2>1. CASE i = 1
      BY <1>1, <2>1
    <2>2. CASE i # 1
      <3>1. i - 1 \in 1 .. Len(Tail(s)) /\ Tail(s)[i - 1] = s[i]
        BY <1>1, <2>2
      <3> QED
        BY <3>1 DEF Elems
    <2> QED
      BY <2>1, <2>2
  <1>4. \A x \in Elems(s) : \E i \in 1 .. Len(s) : x = s[i]
    BY DEF Elems
  <1> QED
    BY <1>1, <1>2, <1>3, <1>4

LEMMA TailIncreasing ==
    ASSUME NEW s \in Seq(Nat), s # <<>>, Increasing(s)
    PROVE  Increasing(Tail(s)) /\ \A x \in Elems(Tail(s)) : Head(s) < x
  <1>1. /\ Len(Tail(s)) = Len(s) - 1 /\ Len(s) \in Nat /\ Len(s) >= 1
        /\ \A i \in 1 .. Len(s) - 1 : Tail(s)[i] = s[i + 1]
        /\ Head(s) = s[1]
    OBVIOUS
  <1> QED
    BY <1>1 DEF Increasing, Elems

LEMMA LinesKept ==
    ASSUME NEW w, NEW v, NEW m \in Nat, \A i \in 1 .. m : w[i] = v[i]
    PROVE  LinesIn(w, m) = LinesIn(v, m)
  BY DEF LinesIn

Last == IF printed = <<>> THEN 0 ELSE printed[Len(printed)]

LogTyped ==
    /\ written \in Seq(Log!Kind) /\ pipe \in Seq(Nat)
    /\ journal \in BOOLEAN /\ cancelled \in BOOLEAN /\ closed \in BOOLEAN
    /\ streamer \in {"scan", "send", "wait", "gone"} /\ line \in Nat
    /\ channel \in Seq(Nat) /\ printed \in Seq(Nat)
    /\ command \in {"select", "done", "failed"}

(* The pipe holds the entries not yet scanned, in order; the line about to *)
(* be sent is the last scanned.                                            *)
Scanned == Len(written) - Len(pipe)
PipeInOrder ==
    /\ streamer # "gone" =>
          Scanned >= 0 /\ \A i \in 1 .. Len(pipe) : pipe[i] = Scanned + i
    /\ streamer = "send" => line = Scanned /\ line >= 1 /\ written[line] = "line"
    /\ closed => streamer = "gone"
    /\ streamer = "gone" => ~journal

(* What is printed comes before what is in the channel, and that before    *)
(* the line about to be sent.                                              *)
InOrder ==
    /\ Increasing(printed) /\ Increasing(channel)
    /\ \A x \in Elems(printed), y \in Elems(channel) : x < y
    /\ \A x \in Elems(printed) \union Elems(channel) :
          /\ streamer = "scan" => x <= Scanned
          /\ streamer = "send" => x < line

(* Unless a line that could not be printed is lost: what is printed, in    *)
(* the channel and about to be sent are all the lines up to some entry -   *)
(* the last scanned as long as the stream goes on, and then one before     *)
(* which it had no reason to end.                                          *)
Held == IF streamer = "send" THEN {line} ELSE {}
Ended(m) ==
    \/ cancelled
    \/ m = Len(written) /\ ~journal
    \/ m < Len(written) /\ written[m + 1] = "overlong"
UpTo(m) ==
    /\ Elems(printed) \union Elems(channel) \union Held = LinesIn(written, m)
    /\ IF streamer \in {"scan", "send"} THEN m = Scanned ELSE Ended(m)
NoneLost == command # "failed" => \E m \in 0 .. Len(written) : UpTo(m)

Printed == Elems(printed) = LinesIn(written, Last) /\ Last \in 0 .. Len(written)
Complete == command = "done" /\ ~cancelled => channel = <<>> /\ closed

LogInv == LogTyped /\ PipeInOrder /\ InOrder /\ NoneLost /\ Printed /\ Complete

LEMMA EmptyElems == Elems(<<>>) = {} /\ Increasing(<<>>)
  BY DEF Elems, Increasing

LEMMA LogStarts == Log!Init => LogInv
  <1> SUFFICES ASSUME Log!Init PROVE LogInv
    OBVIOUS
  <1>0. <<>> \in Seq(Log!Kind) /\ <<>> \in Seq(Nat)
    OBVIOUS
  <1>1. LogTyped
    BY <1>0, Zenon DEF Log!Init, LogTyped
  <1>2. LinesIn(written, 0) = {}
    BY DEF LinesIn
  <1>3. Scanned = 0 /\ Len(written) = 0 /\ Len(pipe) = 0
    BY DEF Log!Init, Scanned
  <1>4. PipeInOrder
    BY <1>3 DEF Log!Init, PipeInOrder
  <1>5. InOrder
    BY EmptyElems DEF Log!Init, InOrder
  <1>6. UpTo(0) /\ 0 \in 0 .. Len(written)
    BY <1>2, <1>3, EmptyElems DEF UpTo, Log!Init, Held
  <1>7. Printed /\ Complete
    <2>1. printed = <<>> /\ command = "select" /\ Last = 0
      BY DEF Log!Init, Last
    <2>2. 0 \in 0 .. Len(written)
      BY <1>3
    <2> QED
      BY <1>2, <2>1, <2>2, EmptyElems DEF Printed, Complete
  <1> QED
    BY <1>1, <1>4, <1>5, <1>6, <1>7 DEF LogInv, NoneLost

LEMMA WriteKeepsLog ==
    ASSUME LogInv, NEW kind \in Log!Kind, Log!Write(kind)
    PROVE  LogInv'
  <1>1. /\ written' = Append(written, kind) /\ pipe' = Append(pipe, Len(written) + 1)
        /\ journal
        /\ UNCHANGED <<journal, cancelled, streamer, line, channel, closed, command, printed>>
    BY DEF Log!Write
  <1>2. LogTyped /\ PipeInOrder /\ InOrder /\ NoneLost /\ Printed /\ Complete
    BY DEF LogInv
  <1>3. /\ Len(written') = Len(written) + 1 /\ Len(pipe') = Len(pipe) + 1
        /\ \A i \in 1 .. Len(written) : written'[i] = written[i]
        /\ Len(written) \in Nat /\ Len(pipe) \in Nat
    BY <1>1, <1>2 DEF LogTyped
  <1>4. \A i \in 1 .. Len(pipe') : pipe'[i] = IF i <= Len(pipe) THEN pipe[i] ELSE Len(written) + 1
    <2>1. pipe \in Seq(Nat) /\ Len(written) + 1 \in Nat
      BY <1>2, <1>3 DEF LogTyped
    <2>2. ASSUME NEW n \in Nat PROVE
             \A i \in 1 .. Len(pipe) + 1 :
                Append(pipe, n)[i] = IF i <= Len(pipe) THEN pipe[i] ELSE n
      BY <2>1
    <2> QED
      BY <1>1, <1>3, <2>1, <2>2
  <1>5. Scanned' = Scanned
    BY <1>3 DEF Scanned
  <1>6. LogTyped'
    BY <1>1, <1>2, <1>3 DEF LogTyped
  <1>7. \A m \in 0 .. Len(written) : LinesIn(written', m) = LinesIn(written, m)
    BY <1>3 DEF LinesIn
  <1>8. streamer # "gone" /\ ~closed /\ Scanned >= 0
    BY <1>1, <1>2 DEF PipeInOrder
  <1>9. ASSUME NEW i \in 1 .. Len(pipe') PROVE pipe'[i] = Scanned + i
    <2>1. CASE i <= Len(pipe)
      BY <1>2, <1>3, <1>4, <1>8, <2>1 DEF PipeInOrder
    <2>2. CASE i = Len(pipe) + 1
      BY <1>3, <1>4, <2>2 DEF Scanned
    <2> QED
      BY <1>3, <2>1, <2>2
  <1>10. streamer = "send" => written'[line] = "line"
    <2>1. streamer = "send" => line \in 1 .. Len(written) /\ written[line] = "line"
      BY <1>2, <1>3 DEF PipeInOrder, Scanned, LogTyped
    <2> QED
      BY <1>3, <2>1
  <1>11. PipeInOrder'
    BY <1>1, <1>2, <1>5, <1>8, <1>9, <1>10 DEF PipeInOrder
  <1>12. InOrder'
    BY <1>1, <1>2, <1>5 DEF InOrder
  <1>13. NoneLost'
    <2> SUFFICES ASSUME command # "failed" PROVE \E m \in 0 .. Len(written') : UpTo(m)'
      BY <1>1 DEF NoneLost
    <2>1. PICK m \in 0 .. Len(written) : UpTo(m)
      BY <1>2 DEF NoneLost
    <2>2. m < Len(written) => written'[m + 1] = written[m + 1]
      BY <1>3
    <2>3. UpTo(m)'
      BY <1>1, <1>3, <1>5, <1>7, <2>1, <2>2 DEF UpTo, Held, Ended
    <2> QED
      BY <1>3, <2>3
  <1>14. Last' = Last
    BY <1>1 DEF Last
  <1>15. Printed' /\ Complete'
    BY <1>1, <1>2, <1>3, <1>7, <1>8, <1>14 DEF Printed, Complete
  <1> QED
    BY <1>6, <1>11, <1>12, <1>13, <1>15 DEF LogInv

(* What most steps leave as it is.                                         *)
LEMMA PrintedStays ==
    ASSUME Printed, UNCHANGED <<written, printed>>
    PROVE  Printed'
  <1>1. Last' = Last
    BY DEF Last
  <1> QED
    BY <1>1 DEF Printed

LEMMA EndsKeepLog ==
    ASSUME LogInv, Log!Exit \/ Log!Cancel
    PROVE  LogInv'
  <1>1. LogTyped /\ PipeInOrder /\ InOrder /\ NoneLost /\ Printed /\ Complete
    BY DEF LogInv
  <1>2. /\ UNCHANGED <<written, pipe, streamer, line, channel, closed, command, printed>>
        /\ \/ journal' = FALSE /\ cancelled' = cancelled
           \/ cancelled' = TRUE /\ journal' = journal
    BY DEF Log!Exit, Log!Cancel
  <1>3. Scanned' = Scanned
    BY <1>2 DEF Scanned
  <1>4. LogTyped'
    BY <1>1, <1>2 DEF LogTyped
  <1>5. PipeInOrder'
    BY <1>1, <1>2, <1>3 DEF PipeInOrder
  <1>6. InOrder'
    BY <1>1, <1>2, <1>3 DEF InOrder
  <1>7. ASSUME NEW m, UpTo(m) PROVE UpTo(m)'
    BY <1>2, <1>3, <1>7 DEF UpTo, Held, Ended
  <1>8. NoneLost'
    BY <1>1, <1>2, <1>7 DEF NoneLost
  <1>9. Complete'
    BY <1>1, <1>2 DEF Complete
  <1> QED
    BY <1>1, <1>2, <1>4, <1>5, <1>6, <1>8, <1>9, PrintedStays DEF LogInv

LEMMA StreamKeepsLog ==
    ASSUME LogInv, Log!StreamLines
    PROVE  LogInv'
  <1>1. LogTyped /\ PipeInOrder /\ InOrder /\ NoneLost /\ Printed /\ Complete
    BY DEF LogInv
  <1>2. /\ streamer = "scan"
        /\ UNCHANGED <<written, journal, cancelled, channel, closed, command, printed>>
    BY DEF Log!StreamLines
  <1>3. Len(written) \in Nat /\ Len(pipe) \in Nat
    BY <1>1 DEF LogTyped
  <1>4. /\ Scanned \in Nat /\ Scanned <= Len(written)
        /\ \A i \in 1 .. Len(pipe) : pipe[i] = Scanned + i
    BY <1>1, <1>2, <1>3 DEF PipeInOrder, Scanned
  <1>5. command # "failed" => Elems(printed) \union Elems(channel) = LinesIn(written, Scanned)
    BY <1>1, <1>2 DEF NoneLost, UpTo, Held
  <1>6. ~closed
    BY <1>1, <1>2 DEF PipeInOrder
  <1>7. Printed' /\ Complete'
    BY <1>1, <1>2, PrintedStays DEF Complete
  <1>8. CASE pipe = <<>> /\ ~journal /\ streamer' = "wait" /\ UNCHANGED <<pipe, line>>
    <2>1. Scanned' = Scanned /\ Scanned = Len(written)
      BY <1>2, <1>3, <1>8 DEF Scanned
    <2>2. LogTyped'
      BY <1>1, <1>2, <1>8 DEF LogTyped
    <2>3. PipeInOrder'
      BY <1>1, <1>2, <1>6, <1>8, <2>1 DEF PipeInOrder
    <2>4. InOrder'
      BY <1>1, <1>2, <1>8 DEF InOrder
    <2>5. command # "failed" => UpTo(Len(written))'
      BY <1>2, <1>5, <1>8, <2>1 DEF UpTo, Held, Ended
    <2>6. NoneLost'
      BY <1>2, <1>3, <2>5 DEF NoneLost
    <2> QED
      BY <1>7, <2>2, <2>3, <2>4, <2>6 DEF LogInv
  <1>9. CASE pipe # <<>>
    <2> DEFINE n == Scanned + 1
    <2>1. /\ pipe' = Tail(pipe) /\ Len(pipe) >= 1
          /\ Len(Tail(pipe)) = Len(pipe) - 1 /\ Tail(pipe) \in Seq(Nat)
          /\ \A i \in 1 .. Len(Tail(pipe)) : Tail(pipe)[i] = pipe[i + 1]
          /\ Head(pipe) = pipe[1]
      BY <1>1, <1>3, <1>9 DEF Log!StreamLines, LogTyped
    <2>2. Head(pipe) = n /\ n \in 1 .. Len(written)
      BY <1>3, <1>4, <2>1 DEF Scanned
    <2>3. Scanned' = n
      BY <1>2, <1>3, <2>1 DEF Scanned
    <2>4. \A i \in 1 .. Len(pipe') : pipe'[i] = n + i
      BY <1>3, <1>4, <2>1
    <2>5. written[n] \in {"line", "malformed", "overlong"}
      BY <1>1, <2>2 DEF LogTyped, Log!Kind
    <2>6. /\ streamer' = CASE written[n] = "overlong" \/ cancelled -> "wait"
                           [] written[n] = "malformed" /\ ~cancelled -> "scan"
                           [] written[n] = "line" /\ ~cancelled -> "send"
          /\ line' = IF written[n] = "line" /\ ~cancelled THEN n ELSE line
      BY <1>9, <2>2 DEF Log!StreamLines
    <2> HIDE DEF n
    <2>7. \/ streamer' = "wait" /\ (cancelled \/ written[n] = "overlong")
          \/ streamer' = "scan" /\ written[n] = "malformed"
          \/ streamer' = "send" /\ written[n] = "line" /\ line' = n
      BY <2>5, <2>6
    <2>8. line' \in Nat /\ n \in Nat
      BY <1>1, <2>2, <2>6 DEF LogTyped
    <2>9. LogTyped'
      BY <1>1, <1>2, <2>1, <2>7, <2>8 DEF LogTyped
    <2>10. PipeInOrder'
      BY <1>2, <1>6, <2>2, <2>3, <2>4, <2>7 DEF PipeInOrder
    <2>11. \A x \in Elems(printed) \union Elems(channel) : x \in Nat /\ x <= n /\ x < n
      BY <1>1, <1>2, <1>4, ElemsAreNumbers DEF InOrder, LogTyped, n
    <2>12. InOrder'
      BY <1>1, <1>2, <2>3, <2>7, <2>11 DEF InOrder
    <2>13. NoneLost'
      <3> SUFFICES ASSUME command # "failed" PROVE \E m \in 0 .. Len(written') : UpTo(m)'
        BY <1>2 DEF NoneLost
      <3>1. CASE streamer' = "wait" /\ (cancelled \/ written[n] = "overlong")
        <4>1. PICK m \in 0 .. Len(written) : m = Scanned
          BY <1>3, <1>4
        <4>2. Elems(printed) \union Elems(channel) = LinesIn(written, m)
          BY <1>5, <4>1
        <4>3. m < Len(written) /\ (cancelled \/ written[m + 1] = "overlong")
          BY <1>3, <2>2, <3>1, <4>1 DEF n
        <4>4. UpTo(m)'
          BY <1>2, <3>1, <4>2, <4>3 DEF UpTo, Held, Ended
        <4> QED
          BY <1>2, <4>1, <4>4
      <3>2. CASE streamer' = "scan" /\ written[n] = "malformed"
        <4>1. PICK m \in 0 .. Len(written) : m = n
          BY <2>2
        <4>2. LinesIn(written, n) = LinesIn(written, Scanned)
          BY <1>4, <3>2 DEF LinesIn, n
        <4>3. UpTo(m)'
          BY <1>2, <1>5, <2>3, <3>2, <4>1, <4>2 DEF UpTo, Held
        <4> QED
          BY <1>2, <4>1, <4>3
      <3>3. CASE streamer' = "send" /\ written[n] = "line" /\ line' = n
        <4>1. PICK m \in 0 .. Len(written) : m = n
          BY <2>2
        <4>2. LinesIn(written, n) = LinesIn(written, Scanned) \union {n}
          BY <1>4, <3>3 DEF LinesIn, n
        <4>3. UpTo(m)'
          BY <1>2, <1>5, <2>3, <3>3, <4>1, <4>2 DEF UpTo, Held
        <4> QED
          BY <1>2, <4>1, <4>3
      <3> QED
        BY <2>7, <3>1, <3>2, <3>3
    <2> QED
      BY <1>7, <2>9, <2>10, <2>12, <2>13 DEF LogInv
  <1> QED
    BY <1>8, <1>9 DEF Log!StreamLines

LEMMA SendKeepsLog ==
    ASSUME LogInv, Log!Send
    PROVE  LogInv'
  <1>1. LogTyped /\ PipeInOrder /\ InOrder /\ NoneLost /\ Printed /\ Complete
    BY DEF LogInv
  <1>2. /\ streamer = "send"
        /\ UNCHANGED <<written, pipe, journal, cancelled, line, closed, command, printed>>
    BY DEF Log!Send
  <1>3. Len(written) \in Nat /\ Len(pipe) \in Nat
    BY <1>1 DEF LogTyped
  <1>4. line = Scanned /\ line \in 1 .. Len(written) /\ line \in Nat /\ ~closed
    BY <1>1, <1>2, <1>3 DEF PipeInOrder, Scanned, LogTyped
  <1>5. command # "failed" =>
            Elems(printed) \union Elems(channel) \union {line} = LinesIn(written, line)
    BY <1>1, <1>2, <1>4 DEF NoneLost, UpTo, Held
  <1>6. \A x \in Elems(printed) \union Elems(channel) : x \in Nat /\ x < line /\ x <= line
    BY <1>1, <1>2, <1>4, ElemsAreNumbers DEF InOrder, LogTyped
  <1>7. Scanned' = Scanned
    BY <1>2 DEF Scanned
  <1>8. CASE channel' = Append(channel, line) /\ streamer' = "scan"
    <2>1. channel' \in Seq(Nat) /\ Elems(channel') = Elems(channel) \union {line}
      BY <1>1, <1>4, <1>8, AppendOne DEF LogTyped
    <2>2. Increasing(channel')
      BY <1>1, <1>4, <1>6, <1>8, AppendLast DEF LogTyped, InOrder
    <2>3. LogTyped'
      BY <1>1, <1>2, <1>8, <2>1 DEF LogTyped
    <2>4. PipeInOrder'
      BY <1>1, <1>2, <1>4, <1>7, <1>8 DEF PipeInOrder
    <2>5. \A x \in Elems(printed) \union Elems(channel') : x <= line
      BY <1>4, <1>6, <2>1
    <2>6. \A x \in Elems(printed), y \in Elems(channel') : x < y
      BY <1>1, <1>6, <2>1 DEF InOrder
    <2>7. InOrder'
      BY <1>1, <1>2, <1>4, <1>7, <1>8, <2>2, <2>5, <2>6 DEF InOrder
    <2>8. command # "failed" => UpTo(line)'
      BY <1>2, <1>4, <1>5, <1>7, <1>8, <2>1 DEF UpTo, Held
    <2>9. NoneLost'
      BY <1>2, <1>4, <2>8 DEF NoneLost
    <2>10. Complete'
      BY <1>1, <1>2, <1>4 DEF Complete
    <2> QED
      BY <1>1, <1>2, <2>3, <2>4, <2>7, <2>9, <2>10, PrintedStays DEF LogInv
  <1>9. CASE cancelled /\ streamer' = "wait" /\ UNCHANGED channel
    <2>1. LogTyped'
      BY <1>1, <1>2, <1>9 DEF LogTyped
    <2>2. PipeInOrder'
      BY <1>1, <1>2, <1>4, <1>7, <1>9 DEF PipeInOrder
    <2>3. InOrder'
      BY <1>1, <1>2, <1>9 DEF InOrder
    <2>4. PICK m \in 0 .. Len(written) : m = line - 1
      BY <1>3, <1>4
    <2>5. command # "failed" => Elems(printed) \union Elems(channel) = LinesIn(written, m)
      <3> SUFFICES ASSUME command # "failed", NEW x
                   PROVE  x \in Elems(printed) \union Elems(channel) <=> x \in LinesIn(written, m)
        OBVIOUS
      <3>1. x \in LinesIn(written, m) <=> x \in LinesIn(written, line) /\ x # line
        BY <1>4, <2>4 DEF LinesIn
      <3>2. line \notin Elems(printed) \union Elems(channel)
        BY <1>4, <1>6
      <3> QED
        BY <1>5, <3>1, <3>2
    <2>6. command # "failed" => UpTo(m)'
      BY <1>2, <1>9, <2>5 DEF UpTo, Held, Ended
    <2>7. NoneLost'
      BY <1>2, <2>4, <2>6 DEF NoneLost
    <2>8. Complete'
      BY <1>1, <1>2, <1>9 DEF Complete
    <2> QED
      BY <1>1, <1>2, <2>1, <2>2, <2>3, <2>7, <2>8, PrintedStays DEF LogInv
  <1> QED
    BY <1>8, <1>9 DEF Log!Send

LEMMA ReapKeepsLog ==
    ASSUME LogInv, Log!Reap
    PROVE  LogInv'
  <1>1. LogTyped /\ PipeInOrder /\ InOrder /\ NoneLost /\ Printed /\ Complete
    BY DEF LogInv
  <1>2. /\ streamer = "wait" /\ streamer' = "gone" /\ ~journal
        /\ pipe' = <<>> /\ closed' = TRUE
        /\ UNCHANGED <<written, journal, cancelled, line, channel, command, printed>>
    BY DEF Log!Reap
  <1>3. LogTyped'
    BY <1>1, <1>2 DEF LogTyped
  <1>4. PipeInOrder'
    BY <1>2 DEF PipeInOrder
  <1>5. InOrder'
    BY <1>1, <1>2 DEF InOrder
  <1>6. ASSUME NEW m, UpTo(m) PROVE UpTo(m)'
    BY <1>2, <1>6 DEF UpTo, Held, Ended
  <1>7. NoneLost'
    BY <1>1, <1>2, <1>6 DEF NoneLost
  <1>8. Complete'
    BY <1>1, <1>2 DEF Complete
  <1> QED
    BY <1>1, <1>2, <1>3, <1>4, <1>5, <1>7, <1>8, PrintedStays DEF LogInv

LEMMA CommandKeepsLog ==
    ASSUME LogInv, Log!RunLogTail
    PROVE  LogInv'
  <1>1. LogTyped /\ PipeInOrder /\ InOrder /\ NoneLost /\ Printed /\ Complete
    BY DEF LogInv
  <1>2. /\ command = "select"
        /\ UNCHANGED <<written, pipe, journal, cancelled, streamer, line, closed>>
    BY DEF Log!RunLogTail
  <1>3. PICK m \in 0 .. Len(written) : UpTo(m)
    BY <1>1, <1>2 DEF NoneLost
  <1>4. Scanned' = Scanned /\ Held' = Held
    BY <1>2 DEF Scanned, Held
  <1>5. PipeInOrder'
    BY <1>1, <1>2, <1>4 DEF PipeInOrder
  <1>6. CASE command' = "done" /\ UNCHANGED <<channel, printed>>
             /\ (cancelled \/ (channel = <<>> /\ closed))
    <2>1. LogTyped'
      BY <1>1, <1>2, <1>6 DEF LogTyped
    <2>2. InOrder'
      BY <1>1, <1>2, <1>4, <1>6 DEF InOrder
    <2>3. UpTo(m)'
      BY <1>2, <1>3, <1>4, <1>6 DEF UpTo, Ended
    <2>4. Complete'
      BY <1>2, <1>6 DEF Complete
    <2> QED
      BY <1>1, <1>2, <1>5, <1>6, <2>1, <2>2, <2>3, <2>4, PrintedStays DEF LogInv, NoneLost
  <1>7. CASE channel # <<>> /\ channel' = Tail(channel)
    <2> DEFINE h == Head(channel)
    <2>1. /\ channel' \in Seq(Nat) /\ h \in Nat
          /\ Elems(channel) = Elems(channel') \union {h}
      BY <1>1, <1>7, TailOne DEF LogTyped
    <2>2. Increasing(channel') /\ \A x \in Elems(channel') : h < x
      BY <1>1, <1>7, TailIncreasing DEF LogTyped, InOrder
    <2> HIDE DEF h
    <2>3. \A x \in Elems(printed) : x \in Nat /\ x < h
      BY <1>1, <2>1, ElemsAreNumbers DEF InOrder, LogTyped
    <2>4. CASE command' = "failed" /\ UNCHANGED printed
      <3>1. LogTyped'
        BY <1>1, <1>2, <2>1, <2>4 DEF LogTyped
      <3>2. InOrder'
        BY <1>1, <1>2, <1>4, <2>1, <2>2, <2>4 DEF InOrder
      <3> QED
        BY <1>1, <1>2, <1>5, <2>4, <3>1, <3>2, PrintedStays DEF LogInv, NoneLost, Complete
    <2>5. CASE printed' = Append(printed, h) /\ UNCHANGED command
      <3>1. /\ printed' \in Seq(Nat) /\ printed' # <<>>
            /\ Elems(printed') = Elems(printed) \union {h}
            /\ printed'[Len(printed')] = h
        BY <1>1, <2>1, <2>5, AppendOne DEF LogTyped
      <3>2. Increasing(printed')
        BY <1>1, <2>1, <2>3, <2>5, AppendLast DEF LogTyped, InOrder
      <3>3. LogTyped'
        BY <1>1, <1>2, <2>1, <2>5, <3>1 DEF LogTyped
      <3>4. \A x \in Elems(printed'), y \in Elems(channel') : x < y
        BY <1>1, <2>1, <2>2, <3>1 DEF InOrder
      <3>5. Elems(printed') \union Elems(channel') = Elems(printed) \union Elems(channel)
        BY <2>1, <3>1
      <3>6. InOrder'
        BY <1>1, <1>2, <1>4, <2>2, <3>2, <3>4, <3>5 DEF InOrder
      <3>7. UpTo(m)'
        BY <1>2, <1>3, <1>4, <3>5 DEF UpTo, Ended
      <3>8. Last' = h
        BY <3>1 DEF Last
      <3>9. h \in LinesIn(written, m)
        BY <1>3, <2>1 DEF UpTo
      <3>10. h \in 1 .. m /\ h \in 0 .. Len(written)
        BY <1>3, <3>9 DEF LinesIn
      <3>11. \A x \in Held : x \in Nat /\ h < x
        BY <1>1, <2>1 DEF InOrder, Held, LogTyped
      <3>12. Elems(printed') = LinesIn(written, h)
        <4> SUFFICES ASSUME NEW x PROVE x \in Elems(printed') <=> x \in LinesIn(written, h)
          OBVIOUS
        <4>1. x \in LinesIn(written, h) <=> x \in LinesIn(written, m) /\ x <= h
          BY <1>3, <2>1, <3>10 DEF LinesIn
        <4>2. x \in LinesIn(written, m) <=>
                 x \in Elems(printed) \/ x = h \/ x \in Elems(channel') \/ x \in Held
          BY <1>3, <2>1 DEF UpTo
        <4>3. x \in Elems(printed') => x <= h
          BY <2>1, <2>3, <3>1
        <4>4. x \in Elems(channel') => x \in Nat /\ h < x
          BY <2>1, <2>2, ElemsAreNumbers
        <4>5. x \in Elems(channel') \/ x \in Held => ~(x <= h)
          BY <2>1, <3>11, <4>4
        <4> QED
          BY <3>1, <4>1, <4>2, <4>3, <4>5
      <3>13. Printed' /\ Complete'
        BY <1>2, <2>5, <3>8, <3>10, <3>12 DEF Printed, Complete
      <3> QED
        BY <1>2, <1>3, <1>5, <3>3, <3>6, <3>7, <3>13 DEF LogInv, NoneLost
    <2> QED
      BY <1>7, <2>4, <2>5 DEF Log!RunLogTail, h
  <1>8. \/ command' = "done" /\ UNCHANGED <<channel, printed>>
           /\ (cancelled \/ (channel = <<>> /\ closed))
        \/ channel # <<>> /\ channel' = Tail(channel)
    BY Zenon DEF Log!RunLogTail
  <1> QED
    BY <1>6, <1>7, <1>8

LEMMA LogStutters == LogInv /\ UNCHANGED Log!vars => LogInv'
  <1> SUFFICES ASSUME LogInv, UNCHANGED Log!vars PROVE LogInv'
    OBVIOUS
  <1>1. LogTyped /\ PipeInOrder /\ InOrder /\ NoneLost /\ Printed /\ Complete
    BY DEF LogInv
  <1>2. UNCHANGED <<written, pipe, journal, cancelled, streamer, line, channel, closed,
                    command, printed>>
    BY DEF Log!vars
  <1>3. Scanned' = Scanned /\ Held' = Held
    BY <1>2 DEF Scanned, Held
  <1>4. LogTyped' /\ Complete'
    BY <1>1, <1>2 DEF LogTyped, Complete
  <1>5. PipeInOrder'
    BY <1>1, <1>2, <1>3 DEF PipeInOrder
  <1>6. InOrder'
    BY <1>1, <1>2, <1>3 DEF InOrder
  <1>7. ASSUME NEW m, UpTo(m) PROVE UpTo(m)'
    BY <1>2, <1>3, <1>7 DEF UpTo, Ended
  <1>8. NoneLost'
    BY <1>1, <1>2, <1>7 DEF NoneLost
  <1> QED
    BY <1>1, <1>2, <1>4, <1>5, <1>6, <1>8, PrintedStays DEF LogInv

LEMMA LogInvHolds == Spec => []LogInv
  <1>1. LogInv /\ [Log!Next]_(Log!vars) => LogInv'
    BY LogStutters, WriteKeepsLog, EndsKeepLog, StreamKeepsLog, SendKeepsLog, ReapKeepsLog,
       CommandKeepsLog DEF Log!Next
  <1> QED
    BY <1>1, LogStarts, HostTails, PTL DEF Log!Spec

(* The tail prints the journal's lines in their order, none twice and none *)
(* left out, and one that ends by itself has printed them all, up to an    *)
(* entry the scanner cannot hold.                                          *)
THEOREM JournalIsPrinted == Spec => []TailIsTheJournal
  <1>1. LogInv => TailIsTheJournal
    <2> SUFFICES ASSUME LogInv PROVE TailIsTheJournal
      OBVIOUS
    <2>1. LogTyped /\ PipeInOrder /\ InOrder /\ NoneLost /\ Printed /\ Complete
      BY DEF LogInv
    <2>2. /\ DOMAIN printed = 1 .. Len(printed) /\ DOMAIN written = 1 .. Len(written)
          /\ Len(written) \in Nat
      BY <2>1 DEF LogTyped
    <2>3. ASSUME command = "done", ~cancelled,
                 NEW i \in LinesIn(written, Len(written)) \ Elems(printed)
          PROVE  \E j \in Log!Overlong : j < i
      <3>1. channel = <<>> /\ streamer = "gone"
        BY <2>1, <2>3 DEF Complete, PipeInOrder
      <3>2. PICK m \in 0 .. Len(written) : UpTo(m)
        BY <2>1, <2>3 DEF NoneLost
      <3>3. Elems(printed) = LinesIn(written, m) /\ Ended(m)
        BY <3>1, <3>2, EmptyElems DEF UpTo, Held
      <3>4. i \in 1 .. Len(written) /\ i > m /\ written[i] = "line"
        BY <2>2, <2>3, <3>2, <3>3 DEF LinesIn
      <3>5. m < Len(written) /\ written[m + 1] = "overlong"
        BY <2>2, <2>3, <3>2, <3>3, <3>4 DEF Ended
      <3>6. m + 1 \in Log!Overlong
        BY <2>2, <3>2, <3>5 DEF Log!Overlong
      <3>7. m + 1 < i
        BY <3>2, <3>4, <3>5
      <3> QED
        BY <3>6, <3>7
    <2>4. \A m : Log!LinesUpTo(m) = LinesIn(written, m)
      BY DEF Log!LinesUpTo, LinesIn
    <2>5. {printed[i] : i \in DOMAIN printed} = Elems(printed)
      BY <2>2 DEF Elems
    <2>6. \A i, j \in DOMAIN printed : i < j => printed[i] < printed[j]
      BY <2>1, <2>2 DEF InOrder, Increasing
    <2> QED
      BY <2>1, <2>3, <2>4, <2>5, <2>6 DEF Printed, Last, Log!TailIsTheJournal, TailIsTheJournal
  <1> QED
    BY <1>1, LogInvHolds, PTL

-----------------------------------------------------------------------------
(* The tools.  How far a process has come is told by the number of steps   *)
(* it has left: the last three of a set or an edit of a script are put,    *)
(* activate and audit.                                                     *)

SieveVerb == {"sieve.set", "sieve.edit"}
PlainVerb == {"queue.flush", "queue.hold", "queue.release", "queue.delete", "ban.add",
              "ban.remove", "allow.add", "allow.remove", "port.open", "port.close"}

LEMMA StepsOfCommand ==
    ASSUME NEW c \in Command
    PROVE  \/ /\ c.op = "sieve.set"
              /\ Tools!Steps(c) = <<"confirm", "list", "get", "put", "activate", "audit">>
           \/ /\ c.op = "sieve.edit"
              /\ Tools!Steps(c) =
                    <<"list", "get", "edit", "confirm", "put", "activate", "audit">>
           \/ c.op \in PlainVerb /\ Tools!Steps(c) = <<"confirm", c.op, "audit">>
           \/ /\ c.op \in Tools!ServiceVerb
              /\ Tools!Steps(c) = <<"status", "confirm", c.op, "status", "audit">>
  <1>1. c.op \in Tools!Operations
    BY HostAssumption DEF Tools!ToolsAssumption
  <1>2. CASE c.op = "sieve.set"
    BY <1>2 DEF Tools!ServiceVerb, Tools!Steps, Tools!NewSieveCmd, Tools!SieveSet
  <1>3. CASE c.op = "sieve.edit"
    BY <1>3 DEF Tools!ServiceVerb, Tools!Steps, Tools!NewSieveCmd, Tools!SieveEdit
  <1>4. CASE c.op \in {"queue.flush", "queue.hold", "queue.release", "queue.delete"}
    BY <1>4 DEF Tools!Steps, Tools!NewQueueCmd, Tools!RunQueueFlush, Tools!RunQueueMutate,
       PlainVerb, Tools!ServiceVerb
  <1>5. CASE c.op \in {"ban.add", "ban.remove"}
    BY <1>5 DEF Tools!Steps, Tools!NewBanCmd, Tools!RunBanAdd, Tools!RunBanRemove, PlainVerb,
       Tools!ServiceVerb
  <1>6. CASE c.op \in {"allow.add", "allow.remove"}
    BY <1>6 DEF Tools!Steps, Tools!NewAllowlistCmd, Tools!RunAllowAdd, Tools!RunAllowRemove,
       PlainVerb, Tools!ServiceVerb
  <1>7. CASE c.op \in {"port.open", "port.close"}
    BY <1>7 DEF Tools!Steps, Tools!NewFirewallCmd, Tools!RunFirewallPort, PlainVerb,
       Tools!ServiceVerb
  <1>8. CASE c.op \in Tools!ServiceVerb
    BY <1>8 DEF Tools!Steps, Tools!NewServiceCmd, Tools!RunServiceAction, Tools!ServiceVerb
  <1> QED
    BY <1>1, <1>2, <1>3, <1>4, <1>5, <1>6, <1>7, <1>8 DEF Tools!Operations, Tools!ServiceVerb

Word ==
    {"confirm", "list", "get", "edit", "put", "activate", "status", "audit"}
    \union Tools!Operations
Placed(c, l) ==
    /\ c \in Command /\ l \in Seq(Word) /\ Len(l) \in 1 .. Len(Tools!Steps(c))
    /\ \A i \in 1 .. Len(l) : l[i] = Tools!Steps(c)[Len(Tools!Steps(c)) - Len(l) + i]

Taken(c, l) == Len(Tools!Steps(c)) - Len(l)

LEMMA StepsAreWords ==
    ASSUME NEW c \in Command
    PROVE  /\ Tools!Steps(c) \in Seq(Word) /\ Len(Tools!Steps(c)) \in {3, 5, 6, 7}
           /\ Placed(c, Tools!Steps(c))
  <1>1. c.op \in Word
    BY HostAssumption DEF Tools!ToolsAssumption, Word
  <1>2. PICK t : t = Tools!Steps(c)
    OBVIOUS
  <1>3. {"confirm", "list", "get", "edit", "put", "activate", "status", "audit"} \subseteq Word
    BY DEF Word
  <1>4. /\ <<"confirm", "list", "get", "put", "activate", "audit">> \in Seq(Word)
        /\ <<"list", "get", "edit", "confirm", "put", "activate", "audit">> \in Seq(Word)
        /\ <<"confirm", c.op, "audit">> \in Seq(Word)
        /\ <<"status", "confirm", c.op, "status", "audit">> \in Seq(Word)
    BY <1>1, <1>3
  <1>5. \/ t = <<"confirm", "list", "get", "put", "activate", "audit">>
        \/ t = <<"list", "get", "edit", "confirm", "put", "activate", "audit">>
        \/ t = <<"confirm", c.op, "audit">>
        \/ t = <<"status", "confirm", c.op, "status", "audit">>
    BY <1>2, StepsOfCommand
  <1>6. t \in Seq(Word)
    BY <1>4, <1>5
  <1>7. Len(t) \in {3, 5, 6, 7}
    BY <1>5
  <1>8. /\ Len(t) \in 1 .. Len(t)
        /\ \A i \in 1 .. Len(t) : t[i] = t[Len(t) - Len(t) + i]
    BY <1>7
  <1>9. Placed(c, t)
    BY <1>2, <1>6, <1>8, Zenon DEF Placed
  <1> QED
    BY <1>2, <1>6, <1>7, <1>9

(* Where a process stands that is about to take step s.                    *)
Standing(c, n, s) ==
    /\ s = "audit" => n = 1
    /\ s # "audit" => n >= 2
    /\ s \in {"list", "get", "edit", "put", "activate"} => c.op \in SieveVerb
    /\ s = "put" => n = 3
    /\ s = "activate" => n = 2
    /\ c.op = "sieve.set" => /\ s = "confirm" => n = 6
                             /\ s = "list" => n = 5
                             /\ s = "get" => n = 4
                             /\ s # "edit"
    /\ c.op = "sieve.edit" => /\ s = "confirm" => n = 4
                              /\ s = "list" => n = 7
                              /\ s = "get" => n = 6
                              /\ s = "edit" => n = 5
    /\ c.op \in SieveVerb => s \notin Tools!Calls \ {"put", "activate"} /\ s # "status"
    /\ s \in Tools!Calls /\ c.op \notin SieveVerb => s = c.op

LEMMA Stands ==
    ASSUME NEW c \in Command, NEW l, Placed(c, l)
    PROVE  Standing(c, Len(l), Head(l))
  <1>1. PICK t, n, s : t = Tools!Steps(c) /\ n = Len(l) /\ s = Head(l)
    OBVIOUS
  <1>2. n \in 1 .. Len(t) /\ s = t[Len(t) - n + 1]
    BY <1>1 DEF Placed
  <1>3. CASE /\ c.op = "sieve.set"
             /\ t = <<"confirm", "list", "get", "put", "activate", "audit">>
    <2>1. \/ n = 6 /\ s = "confirm"
          \/ n = 5 /\ s = "list"
          \/ n = 4 /\ s = "get"
          \/ n = 3 /\ s = "put"
          \/ n = 2 /\ s = "activate"
          \/ n = 1 /\ s = "audit"
      BY <1>2, <1>3
    <2>2. Standing(c, n, s)
      BY <1>3, <2>1 DEF Standing, SieveVerb, Tools!Calls, Tools!ServiceVerb
    <2> QED
      BY <1>1, <2>2
  <1>4. CASE /\ c.op = "sieve.edit"
             /\ t = <<"list", "get", "edit", "confirm", "put", "activate", "audit">>
    <2>1. \/ n = 7 /\ s = "list"
          \/ n = 6 /\ s = "get"
          \/ n = 5 /\ s = "edit"
          \/ n = 4 /\ s = "confirm"
          \/ n = 3 /\ s = "put"
          \/ n = 2 /\ s = "activate"
          \/ n = 1 /\ s = "audit"
      BY <1>2, <1>4
    <2>2. Standing(c, n, s)
      BY <1>4, <2>1 DEF Standing, SieveVerb, Tools!Calls, Tools!ServiceVerb
    <2> QED
      BY <1>1, <2>2
  <1>5. CASE c.op \in PlainVerb /\ t = <<"confirm", c.op, "audit">>
    <2>1. \/ n = 3 /\ s = "confirm"
          \/ n = 2 /\ s = c.op
          \/ n = 1 /\ s = "audit"
      BY <1>2, <1>5
    <2>2. Standing(c, n, s)
      BY <1>5, <2>1 DEF Standing, SieveVerb, PlainVerb, Tools!Calls, Tools!ServiceVerb
    <2> QED
      BY <1>1, <2>2
  <1>6. CASE /\ c.op \in Tools!ServiceVerb
             /\ t = <<"status", "confirm", c.op, "status", "audit">>
    <2>1. \/ n = 5 /\ s = "status"
          \/ n = 4 /\ s = "confirm"
          \/ n = 3 /\ s = c.op
          \/ n = 2 /\ s = "status"
          \/ n = 1 /\ s = "audit"
      BY <1>2, <1>6
    <2>2. Standing(c, n, s)
      BY <1>6, <2>1 DEF Standing, SieveVerb, Tools!Calls, Tools!ServiceVerb
    <2> QED
      BY <1>1, <2>2
  <1> QED
    BY <1>1, <1>3, <1>4, <1>5, <1>6, StepsOfCommand

(* What remains after some of the steps.                                   *)
LEMMA Remaining ==
    ASSUME NEW c \in Command, NEW l, Placed(c, l), NEW n \in 1 .. Len(l) - 1
    PROVE  /\ Placed(c, SubSeq(l, n + 1, Len(l)))
           /\ Len(SubSeq(l, n + 1, Len(l))) = Len(l) - n
  <1> DEFINE m == SubSeq(l, n + 1, Len(l))
  <1>1. /\ l \in Seq(Word) /\ Len(l) \in 1 .. Len(Tools!Steps(c))
        /\ \A i \in 1 .. Len(l) : l[i] = Tools!Steps(c)[Len(Tools!Steps(c)) - Len(l) + i]
    BY DEF Placed
  <1>2. Len(Tools!Steps(c)) \in Nat
    BY StepsAreWords
  <1>3. /\ m \in Seq(Word) /\ Len(m) = Len(l) - n
        /\ \A i \in 1 .. Len(l) - n : m[i] = l[n + i]
    BY <1>1
  <1> HIDE DEF m
  <1>4. ASSUME NEW i \in 1 .. Len(m)
        PROVE  m[i] = Tools!Steps(c)[Len(Tools!Steps(c)) - Len(m) + i]
    <2>1. n + i \in 1 .. Len(l) /\ m[i] = l[n + i]
      BY <1>1, <1>3
    <2>2. Len(Tools!Steps(c)) - Len(l) + (n + i) = Len(Tools!Steps(c)) - Len(m) + i
      BY <1>1, <1>2, <1>3
    <2> QED
      BY <1>1, <2>1, <2>2
  <1>5. Placed(c, m) /\ Len(m) = Len(l) - n
    BY <1>1, <1>2, <1>3, <1>4 DEF Placed
  <1> QED
    BY <1>5 DEF m

-----------------------------------------------------------------------------
(* What a call makes of the host.                                          *)

HostOf(s, a, q, b, l, o, u) ==
    [scripts |-> s, active |-> a, queue |-> q, bans |-> b, allow |-> l, ports |-> o,
     units |-> u]
Mapping(f) == f = [x \in DOMAIN f |-> f[x]]
IsHost(h) ==
    /\ h = HostOf(h.scripts, h.active, h.queue, h.bans, h.allow, h.ports, h.units)
    /\ Mapping(h.scripts) /\ Mapping(h.queue) /\ Mapping(h.units)
    /\ h.active \in DOMAIN h.scripts \union {NoName} /\ DOMAIN h.scripts \subseteq Name

LEMMA PutOnce ==
    ASSUME NEW f, NEW x, NEW v
    PROVE  /\ Mapping(Tools!Put(f, x, v))
           /\ DOMAIN Tools!Put(f, x, v) = DOMAIN f \union {x}
           /\ Tools!Put(f, x, v)[x] = v
           /\ \A y \in DOMAIN f : y # x => Tools!Put(f, x, v)[y] = f[y]
           /\ Tools!Put(Tools!Put(f, x, v), x, v) = Tools!Put(f, x, v)
  BY DEF Tools!Put, Mapping

LEMMA WithoutOnce ==
    ASSUME NEW f, NEW x
    PROVE  /\ Mapping(Tools!Without(f, x))
           /\ DOMAIN Tools!Without(f, x) = DOMAIN f \ {x}
           /\ Tools!Without(Tools!Without(f, x), x) = Tools!Without(f, x)
           /\ \A y \in DOMAIN f \ {x} : Tools!Without(f, x)[y] = f[y]
  BY DEF Tools!Without, Mapping, Tools!Restrict

LEMMA Fields ==
    ASSUME NEW s, NEW a, NEW q, NEW b, NEW l, NEW o, NEW u
    PROVE  /\ HostOf(s, a, q, b, l, o, u).scripts = s
           /\ HostOf(s, a, q, b, l, o, u).active = a
           /\ HostOf(s, a, q, b, l, o, u).queue = q
           /\ HostOf(s, a, q, b, l, o, u).bans = b
           /\ HostOf(s, a, q, b, l, o, u).allow = l
           /\ HostOf(s, a, q, b, l, o, u).ports = o
           /\ HostOf(s, a, q, b, l, o, u).units = u
  BY DEF HostOf

LEMMA Hosts ==
    ASSUME NEW s, NEW a, NEW q, NEW b, NEW l, NEW o, NEW u
    PROVE  IsHost(HostOf(s, a, q, b, l, o, u)) <=>
              /\ Mapping(s) /\ Mapping(q) /\ Mapping(u)
              /\ a \in DOMAIN s \union {NoName} /\ DOMAIN s \subseteq Name
  BY Fields DEF IsHost

Released(f, x) ==
    IF x \in DOMAIN f /\ f[x] = "hold" THEN Tools!Put(f, x, "deferred") ELSE f
Kept(f, x) == IF x \in DOMAIN f THEN Tools!Put(f, x, "hold") ELSE f
Flushed(f) == [q \in DOMAIN f |-> IF f[q] = "deferred" THEN "active" ELSE f[q]]
Turned(f, c) ==
    [f EXCEPT ![c.unit] = CASE c.op = "service.stop" -> "inactive"
                            [] c.op = "service.reload" -> @
                            [] OTHER -> "active"]

LEMMA QueueOnce ==
    ASSUME NEW f, Mapping(f), NEW x
    PROVE  /\ Mapping(Released(f, x)) /\ Released(Released(f, x), x) = Released(f, x)
           /\ Mapping(Kept(f, x)) /\ Kept(Kept(f, x), x) = Kept(f, x)
           /\ Mapping(Flushed(f)) /\ Flushed(Flushed(f)) = Flushed(f)
  <1>1. Mapping(Released(f, x)) /\ Released(Released(f, x), x) = Released(f, x)
    <2> DEFINE g == Tools!Put(f, x, "deferred")
    <2>1. Mapping(g) /\ x \in DOMAIN g /\ g[x] = "deferred"
      BY DEF Tools!Put, Mapping
    <2> HIDE DEF g
    <2>2. Released(g, x) = g
      BY <2>1 DEF Released
    <2>3. Released(f, x) = f \/ Released(f, x) = g
      BY DEF Released, g
    <2> QED
      BY <2>1, <2>2, <2>3
  <1>2. Mapping(Kept(f, x)) /\ Kept(Kept(f, x), x) = Kept(f, x)
    <2>1. CASE x \in DOMAIN f
      <3> DEFINE g == Tools!Put(f, x, "hold")
      <3>1. Mapping(g) /\ x \in DOMAIN g /\ Tools!Put(g, x, "hold") = g
        BY DEF Tools!Put, Mapping
      <3>2. Kept(f, x) = g
        BY <2>1 DEF Kept
      <3> HIDE DEF g
      <3>3. Kept(g, x) = g
        BY <3>1 DEF Kept
      <3> QED
        BY <3>1, <3>2, <3>3
    <2>2. CASE x \notin DOMAIN f
      <3>1. Kept(f, x) = f
        BY <2>2 DEF Kept
      <3> QED
        BY <3>1
    <2> QED
      BY <2>1, <2>2
  <1>3. Mapping(Flushed(f)) /\ Flushed(Flushed(f)) = Flushed(f)
    BY DEF Flushed, Mapping
  <1> QED
    BY <1>1, <1>2, <1>3

LEMMA TurnedOnce ==
    ASSUME NEW f, Mapping(f), NEW c
    PROVE  Mapping(Turned(f, c)) /\ Turned(Turned(f, c), c) = Turned(f, c)
  <1>1. CASE c.op = "service.stop"
    BY <1>1 DEF Turned, Mapping
  <1>2. CASE c.op = "service.reload"
    BY <1>2 DEF Turned, Mapping
  <1>3. CASE c.op \notin {"service.stop", "service.reload"}
    BY <1>3 DEF Turned, Mapping
  <1> QED
    BY <1>1, <1>2, <1>3

LEMMA EffectPut ==
    ASSUME NEW s, NEW a, NEW q, NEW b, NEW l, NEW o, NEW u, NEW c, NEW d
    PROVE  Tools!Effect("put", HostOf(s, a, q, b, l, o, u), c, d) =
              HostOf(Tools!Put(s, ManagedName, d), a, q, b, l, o, u)
  BY DEF HostOf, Tools!Effect, Tools!ServiceVerb, Tools!PutScript

LEMMA EffectActivate ==
    ASSUME NEW s, NEW a, NEW q, NEW b, NEW l, NEW o, NEW u, NEW c, NEW d
    PROVE  Tools!Effect("activate", HostOf(s, a, q, b, l, o, u), c, d) =
              HostOf(s, ManagedName, q, b, l, o, u)
  BY DEF HostOf, Tools!Effect, Tools!ServiceVerb, Tools!Activate

LEMMA EffectHold ==
    ASSUME NEW s, NEW a, NEW q, NEW b, NEW l, NEW o, NEW u, NEW c, NEW d
    PROVE  Tools!Effect("queue.hold", HostOf(s, a, q, b, l, o, u), c, d) =
              HostOf(s, a, Kept(q, c.qid), b, l, o, u)
  BY DEF HostOf, Tools!Effect, Tools!ServiceVerb, Tools!Hold, Kept

LEMMA EffectRelease ==
    ASSUME NEW s, NEW a, NEW q, NEW b, NEW l, NEW o, NEW u, NEW c, NEW d
    PROVE  Tools!Effect("queue.release", HostOf(s, a, q, b, l, o, u), c, d) =
              HostOf(s, a, Released(q, c.qid), b, l, o, u)
  BY DEF HostOf, Tools!Effect, Tools!ServiceVerb, Tools!Release, Released

LEMMA EffectDelete ==
    ASSUME NEW s, NEW a, NEW q, NEW b, NEW l, NEW o, NEW u, NEW c, NEW d
    PROVE  Tools!Effect("queue.delete", HostOf(s, a, q, b, l, o, u), c, d) =
              HostOf(s, a, Tools!Without(q, c.qid), b, l, o, u)
  BY DEF HostOf, Tools!Effect, Tools!ServiceVerb, Tools!Delete

LEMMA EffectFlush ==
    ASSUME NEW s, NEW a, NEW q, NEW b, NEW l, NEW o, NEW u, NEW c, NEW d
    PROVE  Tools!Effect("queue.flush", HostOf(s, a, q, b, l, o, u), c, d) =
              HostOf(s, a, Flushed(q), b, l, o, u)
  BY DEF HostOf, Tools!Effect, Tools!ServiceVerb, Tools!Flush, Flushed

LEMMA EffectBan ==
    ASSUME NEW s, NEW a, NEW q, NEW b, NEW l, NEW o, NEW u, NEW c, NEW d
    PROVE  Tools!Effect("ban.add", HostOf(s, a, q, b, l, o, u), c, d) =
              HostOf(s, a, q, b \union {c.ip}, l, o, u)
  BY DEF HostOf, Tools!Effect, Tools!ServiceVerb, Tools!AddBan

LEMMA EffectUnban ==
    ASSUME NEW s, NEW a, NEW q, NEW b, NEW l, NEW o, NEW u, NEW c, NEW d
    PROVE  Tools!Effect("ban.remove", HostOf(s, a, q, b, l, o, u), c, d) =
              HostOf(s, a, q, b \ {c.ip}, l, o, u)
  BY DEF HostOf, Tools!Effect, Tools!ServiceVerb, Tools!RemoveBan

LEMMA EffectAllow ==
    ASSUME NEW s, NEW a, NEW q, NEW b, NEW l, NEW o, NEW u, NEW c, NEW d
    PROVE  Tools!Effect("allow.add", HostOf(s, a, q, b, l, o, u), c, d) =
              HostOf(s, a, q, b, l \union {c.ip}, o, u)
  BY DEF HostOf, Tools!Effect, Tools!ServiceVerb, Tools!AddAllow

LEMMA EffectDisallow ==
    ASSUME NEW s, NEW a, NEW q, NEW b, NEW l, NEW o, NEW u, NEW c, NEW d
    PROVE  Tools!Effect("allow.remove", HostOf(s, a, q, b, l, o, u), c, d) =
              HostOf(s, a, q, b, l \ {c.ip}, o, u)
  BY DEF HostOf, Tools!Effect, Tools!ServiceVerb, Tools!RemoveAllow

LEMMA EffectOpen ==
    ASSUME NEW s, NEW a, NEW q, NEW b, NEW l, NEW o, NEW u, NEW c, NEW d
    PROVE  Tools!Effect("port.open", HostOf(s, a, q, b, l, o, u), c, d) =
              HostOf(s, a, q, b, l, o \union {c.port}, u)
  BY DEF HostOf, Tools!Effect, Tools!ServiceVerb, Tools!OpenPort

LEMMA EffectClose ==
    ASSUME NEW s, NEW a, NEW q, NEW b, NEW l, NEW o, NEW u, NEW c, NEW d
    PROVE  Tools!Effect("port.close", HostOf(s, a, q, b, l, o, u), c, d) =
              HostOf(s, a, q, b, l, o \ {c.port}, u)
  BY DEF HostOf, Tools!Effect, Tools!ServiceVerb, Tools!ClosePort

LEMMA EffectService ==
    ASSUME NEW s, NEW a, NEW q, NEW b, NEW l, NEW o, NEW u, NEW c, NEW d,
           NEW call \in Tools!ServiceVerb
    PROVE  Tools!Effect(call, HostOf(s, a, q, b, l, o, u), c, d) =
              HostOf(s, a, q, b, l, o, Turned(u, c))
  <1>1. PICK h : h = HostOf(s, a, q, b, l, o, u)
    OBVIOUS
  <1>2. Tools!Effect(call, h, c, d) = Tools!ServiceRun(h, c)
    BY DEF Tools!Effect, Tools!ServiceVerb
  <1>3. Tools!ServiceRun(h, c) = HostOf(s, a, q, b, l, o, Turned(u, c))
    BY <1>1 DEF HostOf, Tools!ServiceRun, Turned
  <1> QED
    BY <1>1, <1>2, <1>3

LEMMA CallTwice ==
    ASSUME NEW h, IsHost(h), NEW c, NEW d, NEW call \in Tools!Calls, Tools!Possible(call, h, c)
    PROVE  /\ IsHost(Tools!Effect(call, h, c, d))
           /\ Tools!Effect(call, Tools!Effect(call, h, c, d), c, d) = Tools!Effect(call, h, c, d)
  <1>1. PICK s, a, q, b, l, o, u : h = HostOf(s, a, q, b, l, o, u)
    BY DEF IsHost
  <1>2. /\ Mapping(s) /\ Mapping(q) /\ Mapping(u)
        /\ a \in DOMAIN s \union {NoName} /\ DOMAIN s \subseteq Name
    BY <1>1, Hosts
  <1>3. CASE call = "put"
    <2>1. PICK x : x = Tools!Put(s, ManagedName, d)
      OBVIOUS
    <2>2. Mapping(x) /\ DOMAIN x = DOMAIN s \union {ManagedName} /\ Tools!Put(x, ManagedName,
    d) = x
      BY <2>1, PutOnce
    <2>3. PICK g : g = HostOf(x, a, q, b, l, o, u)
      OBVIOUS
    <2>4. Tools!Effect(call, h, c, d) = g /\ Tools!Effect(call, g, c, d) = g
      BY <1>1, <1>3, <2>1, <2>2, <2>3, EffectPut
    <2>5. IsHost(g)
      <3>1. ManagedName \in Name
        BY HostAssumption DEF HostAssumption, Tools!ToolsAssumption
      <3>2. DOMAIN x \subseteq Name /\ a \in DOMAIN x \union {NoName}
        BY <1>2, <2>2, <3>1
      <3> QED
        BY <1>2, <2>2, <2>3, <3>2, Hosts
    <2> QED
      BY <2>4, <2>5
  <1>4. CASE call = "activate"
    <2>1. PICK g : g = HostOf(s, ManagedName, q, b, l, o, u)
      OBVIOUS
    <2>2. Tools!Effect(call, h, c, d) = g /\ Tools!Effect(call, g, c, d) = g
      BY <1>1, <1>4, <2>1, EffectActivate
    <2>3. ManagedName \in DOMAIN s
      BY <1>1, <1>4, Fields DEF Tools!Possible
    <2>4. IsHost(g)
      BY <1>2, <2>1, <2>3, Hosts
    <2> QED
      BY <2>2, <2>4
  <1>5. CASE call \in {"queue.hold", "queue.release", "queue.delete", "queue.flush"}
    <2>1. PICK x : Tools!Effect(call, h, c, d) = HostOf(s, a, x, b, l, o, u) /\ Mapping(x)
                   /\ Tools!Effect(call, HostOf(s, a, x, b, l, o, u), c, d)
                         = HostOf(s, a, x, b, l, o, u)
      <3>1. CASE call = "queue.hold"
        <4>1. PICK x : x = Kept(q, c.qid)
          OBVIOUS
        <4>2. Mapping(x) /\ Kept(x, c.qid) = x
          BY <1>2, <4>1, QueueOnce
        <4> QED
          BY <1>1, <3>1, <4>1, <4>2, EffectHold
      <3>2. CASE call = "queue.release"
        <4>1. PICK x : x = Released(q, c.qid)
          OBVIOUS
        <4>2. Mapping(x) /\ Released(x, c.qid) = x
          BY <1>2, <4>1, QueueOnce
        <4> QED
          BY <1>1, <3>2, <4>1, <4>2, EffectRelease
      <3>3. CASE call = "queue.delete"
        <4>1. PICK x : x = Tools!Without(q, c.qid)
          OBVIOUS
        <4>2. Mapping(x) /\ Tools!Without(x, c.qid) = x
          BY <1>2, <4>1, WithoutOnce
        <4> QED
          BY <1>1, <3>3, <4>1, <4>2, EffectDelete
      <3>4. CASE call = "queue.flush"
        <4>1. PICK x : x = Flushed(q)
          OBVIOUS
        <4>2. Mapping(x) /\ Flushed(x) = x
          BY <1>2, <4>1, QueueOnce
        <4> QED
          BY <1>1, <3>4, <4>1, <4>2, EffectFlush
      <3> QED
        BY <1>5, <3>1, <3>2, <3>3, <3>4
    <2>2. IsHost(HostOf(s, a, x, b, l, o, u))
      BY <1>2, <2>1, Hosts
    <2> QED
      BY <2>1, <2>2
  <1>6. CASE call \in {"ban.add", "ban.remove", "allow.add", "allow.remove", "port.open",
                       "port.close"}
    <2>1. PICK x, y, z :
             /\ Tools!Effect(call, h, c, d) = HostOf(s, a, q, x, y, z, u)
             /\ Tools!Effect(call, HostOf(s, a, q, x, y, z, u), c, d)
                   = HostOf(s, a, q, x, y, z, u)
      <3>1. CASE call = "ban.add"
        <4>1. PICK x : x = b \union {c.ip} /\ x \union {c.ip} = x
          OBVIOUS
        <4>2. Tools!Effect(call, h, c, d) = HostOf(s, a, q, x, l, o, u)
          BY <1>1, <3>1, <4>1, EffectBan
        <4>3. Tools!Effect(call, HostOf(s, a, q, x, l, o, u), c, d) = HostOf(s, a, q, x, l, o, u)
          BY <3>1, <4>1, EffectBan
        <4> QED
          BY <4>2, <4>3
      <3>2. CASE call = "ban.remove"
        <4>1. PICK x : x = b \ {c.ip} /\ x \ {c.ip} = x
          OBVIOUS
        <4>2. Tools!Effect(call, h, c, d) = HostOf(s, a, q, x, l, o, u)
          BY <1>1, <3>2, <4>1, EffectUnban
        <4>3. Tools!Effect(call, HostOf(s, a, q, x, l, o, u), c, d) = HostOf(s, a, q, x, l, o, u)
          BY <3>2, <4>1, EffectUnban
        <4> QED
          BY <4>2, <4>3
      <3>3. CASE call = "allow.add"
        <4>1. PICK x : x = l \union {c.ip} /\ x \union {c.ip} = x
          OBVIOUS
        <4>2. Tools!Effect(call, h, c, d) = HostOf(s, a, q, b, x, o, u)
          BY <1>1, <3>3, <4>1, EffectAllow
        <4>3. Tools!Effect(call, HostOf(s, a, q, b, x, o, u), c, d) = HostOf(s, a, q, b, x, o, u)
          BY <3>3, <4>1, EffectAllow
        <4> QED
          BY <4>2, <4>3
      <3>4. CASE call = "allow.remove"
        <4>1. PICK x : x = l \ {c.ip} /\ x \ {c.ip} = x
          OBVIOUS
        <4>2. Tools!Effect(call, h, c, d) = HostOf(s, a, q, b, x, o, u)
          BY <1>1, <3>4, <4>1, EffectDisallow
        <4>3. Tools!Effect(call, HostOf(s, a, q, b, x, o, u), c, d) = HostOf(s, a, q, b, x, o, u)
          BY <3>4, <4>1, EffectDisallow
        <4> QED
          BY <4>2, <4>3
      <3>5. CASE call = "port.open"
        <4>1. PICK x : x = o \union {c.port} /\ x \union {c.port} = x
          OBVIOUS
        <4>2. Tools!Effect(call, h, c, d) = HostOf(s, a, q, b, l, x, u)
          BY <1>1, <3>5, <4>1, EffectOpen
        <4>3. Tools!Effect(call, HostOf(s, a, q, b, l, x, u), c, d) = HostOf(s, a, q, b, l, x, u)
          BY <3>5, <4>1, EffectOpen
        <4> QED
          BY <4>2, <4>3
      <3>6. CASE call = "port.close"
        <4>1. PICK x : x = o \ {c.port} /\ x \ {c.port} = x
          OBVIOUS
        <4>2. Tools!Effect(call, h, c, d) = HostOf(s, a, q, b, l, x, u)
          BY <1>1, <3>6, <4>1, EffectClose
        <4>3. Tools!Effect(call, HostOf(s, a, q, b, l, x, u), c, d) = HostOf(s, a, q, b, l, x, u)
          BY <3>6, <4>1, EffectClose
        <4> QED
          BY <4>2, <4>3
      <3> QED
        BY <1>6, <3>1, <3>2, <3>3, <3>4, <3>5, <3>6
    <2>2. IsHost(HostOf(s, a, q, x, y, z, u))
      BY <1>2, Hosts
    <2> QED
      BY <2>1, <2>2
  <1>7. CASE call \in Tools!ServiceVerb
    <2>1. PICK x : x = Turned(u, c)
      OBVIOUS
    <2>2. Mapping(x) /\ Turned(x, c) = x
      BY <1>2, <2>1, TurnedOnce
    <2>3. PICK g : g = HostOf(s, a, q, b, l, o, x)
      OBVIOUS
    <2>4. Tools!Effect(call, h, c, d) = g /\ Tools!Effect(call, g, c, d) = g
      BY <1>1, <1>7, <2>1, <2>2, <2>3, EffectService
    <2>5. IsHost(g)
      BY <1>2, <2>2, <2>3, Hosts
    <2> QED
      BY <2>4, <2>5
  <1> QED
    BY <1>3, <1>4, <1>5, <1>6, <1>7 DEF Tools!Calls

LEMMA ScriptsAfter ==
    ASSUME NEW h, IsHost(h), NEW c, NEW d, NEW call \in Tools!Calls,
           NEW g, g = Tools!Effect(call, h, c, d)
    PROVE  /\ call = "put" => /\ g.scripts = Tools!Put(h.scripts, ManagedName, d)
                              /\ g.active = h.active
                              /\ g = h => /\ ManagedName \in DOMAIN h.scripts
                                          /\ h.scripts[ManagedName] = d
           /\ call = "activate" => /\ g.scripts = h.scripts /\ g.active = ManagedName
                                   /\ Tools!Effect("put", h, c, d) = h =>
                                        Tools!Effect("put", g, c, d) = g
           /\ call \notin {"put", "activate"} =>
                 g.scripts = h.scripts /\ g.active = h.active
  <1>1. PICK s, a, q, b, l, o, u : h = HostOf(s, a, q, b, l, o, u)
    BY DEF IsHost
  <1>2. h.scripts = s /\ h.active = a
    BY <1>1, Fields
  <1>3. CASE call = "put"
    <2>1. PICK x : x = Tools!Put(s, ManagedName, d)
      OBVIOUS
    <2>2. g = HostOf(x, a, q, b, l, o, u)
      BY <1>1, <1>3, <2>1, EffectPut
    <2>3. g.scripts = x /\ g.active = a
      BY <2>2, Fields
    <2>4. ManagedName \in DOMAIN x /\ x[ManagedName] = d
      BY <2>1 DEF Tools!Put
    <2>5. g = h => x = s
      BY <1>2, <2>3
    <2> QED
      BY <1>2, <1>3, <2>1, <2>3, <2>4, <2>5
  <1>4. CASE call = "activate"
    <2>1. g = HostOf(s, ManagedName, q, b, l, o, u)
      BY <1>1, <1>4, EffectActivate
    <2>2. g.scripts = s /\ g.active = ManagedName
      BY <2>1, Fields
    <2>3. ASSUME Tools!Effect("put", h, c, d) = h PROVE Tools!Effect("put", g, c, d) = g
      <3>1. PICK x : x = Tools!Put(s, ManagedName, d)
        OBVIOUS
      <3>2. h = HostOf(x, a, q, b, l, o, u)
        BY <1>1, <2>3, <3>1, EffectPut
      <3>3. x = s
        BY <1>2, <3>2, Fields
      <3>4. Tools!Effect("put", g, c, d) = HostOf(x, ManagedName, q, b, l, o, u)
        BY <2>1, <3>1, EffectPut
      <3> QED
        BY <2>1, <3>3, <3>4
    <2> QED
      BY <1>2, <1>4, <2>2, <2>3
  <1>5. CASE call \notin {"put", "activate"}
    <2> DEFINE Same == g.scripts = s /\ g.active = a
    <2>1. call = "queue.hold" => Same
      BY <1>1, EffectHold, Fields
    <2>2. call = "queue.release" => Same
      BY <1>1, EffectRelease, Fields
    <2>3. call = "queue.delete" => Same
      BY <1>1, EffectDelete, Fields
    <2>4. call = "queue.flush" => Same
      BY <1>1, EffectFlush, Fields
    <2>5. call = "ban.add" => Same
      <3>1. PICK x : x = b \union {c.ip}
        OBVIOUS
      <3>2. call = "ban.add" => g = HostOf(s, a, q, x, l, o, u)
        BY <1>1, <3>1, EffectBan
      <3> QED
        BY <3>2, Fields
    <2>6. call = "ban.remove" => Same
      <3>1. PICK x : x = b \ {c.ip}
        OBVIOUS
      <3>2. call = "ban.remove" => g = HostOf(s, a, q, x, l, o, u)
        BY <1>1, <3>1, EffectUnban
      <3> QED
        BY <3>2, Fields
    <2>7. call = "allow.add" => Same
      <3>1. PICK x : x = l \union {c.ip}
        OBVIOUS
      <3>2. call = "allow.add" => g = HostOf(s, a, q, b, x, o, u)
        BY <1>1, <3>1, EffectAllow
      <3> QED
        BY <3>2, Fields
    <2>8. call = "allow.remove" => Same
      <3>1. PICK x : x = l \ {c.ip}
        OBVIOUS
      <3>2. call = "allow.remove" => g = HostOf(s, a, q, b, x, o, u)
        BY <1>1, <3>1, EffectDisallow
      <3> QED
        BY <3>2, Fields
    <2>9. call = "port.open" => Same
      <3>1. PICK x : x = o \union {c.port}
        OBVIOUS
      <3>2. call = "port.open" => g = HostOf(s, a, q, b, l, x, u)
        BY <1>1, <3>1, EffectOpen
      <3> QED
        BY <3>2, Fields
    <2>10. call = "port.close" => Same
      <3>1. PICK x : x = o \ {c.port}
        OBVIOUS
      <3>2. call = "port.close" => g = HostOf(s, a, q, b, l, x, u)
        BY <1>1, <3>1, EffectClose
      <3> QED
        BY <3>2, Fields
    <2>11. call \in Tools!ServiceVerb => Same
      BY <1>1, EffectService, Fields
    <2>12. Same
      BY <1>5, <2>1, <2>2, <2>3, <2>4, <2>5, <2>6, <2>7, <2>8, <2>9, <2>10, <2>11 DEF Tools!Calls
    <2> QED
      BY <1>2, <1>5, <2>12
  <1> QED
    BY <1>3, <1>4, <1>5

LEMMA CallsOfCommand ==
    ASSUME NEW c \in Command, NEW i \in 1 .. Len(Tools!Steps(c)),
           Tools!Steps(c)[i] \in Tools!Calls
    PROVE  IF c.op \in SieveVerb
           THEN \/ Tools!Steps(c)[i] = "put" /\ i = Len(Tools!Steps(c)) - 2
                \/ Tools!Steps(c)[i] = "activate" /\ i = Len(Tools!Steps(c)) - 1
           ELSE Tools!Steps(c)[i] = c.op
  <1>1. PICK t, s : t = Tools!Steps(c) /\ s = t[i] /\ i \in 1 .. Len(t) /\ s \in Tools!Calls
    OBVIOUS
  <1>2. CASE /\ c.op = "sieve.set"
             /\ t = <<"confirm", "list", "get", "put", "activate", "audit">>
    <2>1. \/ i = 1 /\ s = "confirm"
          \/ i = 2 /\ s = "list"
          \/ i = 3 /\ s = "get"
          \/ i = 4 /\ s = "put"
          \/ i = 5 /\ s = "activate"
          \/ i = 6 /\ s = "audit"
      BY <1>1, <1>2
    <2>2. Len(t) = 6
      BY <1>2
    <2> QED
      BY <1>1, <1>2, <2>1, <2>2 DEF SieveVerb, Tools!Calls, Tools!ServiceVerb
  <1>3. CASE /\ c.op = "sieve.edit"
             /\ t = <<"list", "get", "edit", "confirm", "put", "activate", "audit">>
    <2>1. \/ i = 1 /\ s = "list"
          \/ i = 2 /\ s = "get"
          \/ i = 3 /\ s = "edit"
          \/ i = 4 /\ s = "confirm"
          \/ i = 5 /\ s = "put"
          \/ i = 6 /\ s = "activate"
          \/ i = 7 /\ s = "audit"
      BY <1>1, <1>3
    <2>2. Len(t) = 7
      BY <1>3
    <2> QED
      BY <1>1, <1>3, <2>1, <2>2 DEF SieveVerb, Tools!Calls, Tools!ServiceVerb
  <1>4. CASE c.op \in PlainVerb /\ t = <<"confirm", c.op, "audit">>
    <2>1. s = "confirm" \/ s = c.op \/ s = "audit"
      BY <1>1, <1>4
    <2> QED
      BY <1>1, <1>4, <2>1 DEF SieveVerb, PlainVerb, Tools!Calls, Tools!ServiceVerb
  <1>5. CASE /\ c.op \in Tools!ServiceVerb
             /\ t = <<"status", "confirm", c.op, "status", "audit">>
    <2>1. s = "status" \/ s = "confirm" \/ s = c.op \/ s = "audit"
      BY <1>1, <1>5
    <2> QED
      BY <1>1, <1>5, <2>1 DEF SieveVerb, Tools!Calls, Tools!ServiceVerb
  <1> QED
    BY <1>1, <1>2, <1>3, <1>4, <1>5, StepsOfCommand

(* The first k calls of c can be made again without any effect.            *)
Repeats(c, k, h, b) ==
    \A i \in 1 .. k : Tools!Steps(c)[i] \in Tools!Calls =>
        Tools!Effect(Tools!Steps(c)[i], h, c, b) = h

LEMMA NoCallYet ==
    ASSUME NEW c \in Command, c.op \in SieveVerb, NEW k \in Int,
           k <= Len(Tools!Steps(c)) - 3, NEW h, NEW b
    PROVE  Repeats(c, k, h, b)
  <1> SUFFICES ASSUME NEW i \in 1 .. k, Tools!Steps(c)[i] \in Tools!Calls PROVE FALSE
    BY DEF Repeats
  <1>1. Len(Tools!Steps(c)) \in Nat
    BY StepsAreWords
  <1>2. i \in 1 .. Len(Tools!Steps(c)) /\ i <= Len(Tools!Steps(c)) - 3
    BY <1>1
  <1>3. i = Len(Tools!Steps(c)) - 2 \/ i = Len(Tools!Steps(c)) - 1
    BY <1>2, CallsOfCommand
  <1> QED
    BY <1>1, <1>2, <1>3

LEMMA NextOne ==
    ASSUME NEW c \in Command, NEW l, Placed(c, l)
    PROVE  /\ Taken(c, l) \in Nat /\ Taken(c, l) + 1 \in 1 .. Len(Tools!Steps(c))
           /\ Head(l) = Tools!Steps(c)[Taken(c, l) + 1]
           /\ Len(l) \in Nat /\ Len(l) >= 1 /\ Len(Tools!Steps(c)) \in Nat
           /\ Taken(c, l) = Len(Tools!Steps(c)) - Len(l)
  <1>1. Len(Tools!Steps(c)) \in Nat
    BY StepsAreWords
  <1>2. /\ l \in Seq(Word) /\ Len(l) \in 1 .. Len(Tools!Steps(c))
        /\ \A i \in 1 .. Len(l) : l[i] = Tools!Steps(c)[Len(Tools!Steps(c)) - Len(l) + i]
    BY DEF Placed
  <1>3. Head(l) = l[1] /\ 1 \in 1 .. Len(l)
    BY <1>1, <1>2
  <1>4. Head(l) = Tools!Steps(c)[Len(Tools!Steps(c)) - Len(l) + 1]
    BY <1>2, <1>3
  <1> QED
    BY <1>1, <1>2, <1>4 DEF Taken

LEMMA RepeatsOn ==
    ASSUME NEW c \in Command, NEW l, Placed(c, l), NEW h, NEW b, Head(l) \notin Tools!Calls,
           Repeats(c, Taken(c, l), h, b)
    PROVE  Repeats(c, Taken(c, l) + 1, h, b)
  <1>1. Taken(c, l) \in Nat /\ Head(l) = Tools!Steps(c)[Taken(c, l) + 1]
    BY NextOne
  <1>2. \A i \in 1 .. Taken(c, l) + 1 : i \in 1 .. Taken(c, l) \/ i = Taken(c, l) + 1
    BY <1>1
  <1> QED
    BY <1>1, <1>2 DEF Repeats

(* One more call, made.                                                    *)
LEMMA RepeatsCall ==
    ASSUME NEW c \in Command, NEW l, Placed(c, l), NEW h, IsHost(h), NEW b,
           Head(l) \in Tools!Calls, Tools!Possible(Head(l), h, c),
           Repeats(c, Taken(c, l), h, b), NEW g, g = Tools!Effect(Head(l), h, c, b)
    PROVE  Repeats(c, Taken(c, l) + 1, g, b)
  <1>1. /\ Taken(c, l) \in Nat /\ Taken(c, l) + 1 \in 1 .. Len(Tools!Steps(c))
        /\ Head(l) = Tools!Steps(c)[Taken(c, l) + 1] /\ Len(Tools!Steps(c)) \in Nat
    BY NextOne
  <1>2. Tools!Effect(Head(l), g, c, b) = g
    BY CallTwice
  <1> SUFFICES ASSUME NEW i \in 1 .. Taken(c, l) + 1, Tools!Steps(c)[i] \in Tools!Calls
               PROVE  Tools!Effect(Tools!Steps(c)[i], g, c, b) = g
    BY DEF Repeats
  <1>3. i \in 1 .. Len(Tools!Steps(c))
    BY <1>1
  <1>4. CASE i = Taken(c, l) + 1
    BY <1>1, <1>2, <1>4
  <1>5. CASE i # Taken(c, l) + 1 /\ c.op \notin SieveVerb
    <2>1. Tools!Steps(c)[i] = c.op /\ Head(l) = c.op
      BY <1>1, <1>3, <1>5, CallsOfCommand
    <2> QED
      BY <1>2, <2>1
  <1>6. CASE i # Taken(c, l) + 1 /\ c.op \in SieveVerb
    <2>1. Tools!Steps(c)[i] = "put" /\ Head(l) = "activate"
      BY <1>1, <1>3, <1>6, CallsOfCommand
    <2>2. Tools!Effect("put", h, c, b) = h
      BY <1>1, <1>6, <2>1 DEF Repeats
    <2> QED
      BY <2>1, <2>2, ScriptsAfter
  <1> QED
    BY <1>4, <1>5, <1>6

-----------------------------------------------------------------------------
(* The inductive invariant of the tools: every process stands at one of    *)
(* its command's steps, and as long as nobody overtook it the host is as   *)
(* its steps so far have left it.                                          *)

ToolTyped ==
    /\ toolPc \in [Process -> {"idle", "run", "done", "failed"}]
    /\ DOMAIN cmd = Process /\ DOMAIN left = Process /\ DOMAIN shown = Process
    /\ DOMAIN text = Process
    /\ logged \in [Process -> BOOLEAN] /\ toolOvertaken \in [Process -> BOOLEAN]

FilterOf(h) == IF h.active = NoName THEN NoBody ELSE h.scripts[h.active]

(* A set or an edit with n steps left: what it has read and written.       *)
SieveAt(c, n, h, b, name) ==
    c.op \in SieveVerb =>
        /\ n <= 2 => ManagedName \in DOMAIN h.scripts /\ h.scripts[ManagedName] = b
        /\ n <= 1 => h.active = ManagedName
        /\ c.op = "sieve.edit" =>
              /\ n >= 6 => b = NoBody
              /\ n = 6 => name = h.active /\ h.active # NoName
              /\ n = 5 => FilterOf(h) = b

Right(p) ==
    /\ toolPc[p] = "run" => Placed(cmd[p], left[p]) /\ ~logged[p]
    /\ logged[p] => cmd[p] \in Command
    /\ ~toolOvertaken[p] /\ toolPc[p] = "run" =>
          /\ SieveAt(cmd[p], Len(left[p]), host, text[p], shown[p])
          /\ Repeats(cmd[p], Taken(cmd[p], left[p]), host, text[p])
    /\ ~toolOvertaken[p] /\ toolPc[p] = "done" /\ cmd[p].op \in SieveVerb =>
          FilterOf(host) = text[p]
    /\ ~toolOvertaken[p] /\ logged[p] =>
          Repeats(cmd[p], Len(Tools!Steps(cmd[p])), host, text[p])

ToolInv == ToolTyped /\ IsHost(host) /\ \A p \in Process : Right(p)

Same(q) ==
    /\ toolPc'[q] = toolPc[q] /\ cmd'[q] = cmd[q] /\ left'[q] = left[q]
    /\ shown'[q] = shown[q] /\ text'[q] = text[q] /\ logged'[q] = logged[q]
Passed(q) == toolOvertaken'[q] \/ (host' = host /\ toolOvertaken'[q] = toolOvertaken[q])

LEMMA OthersStay ==
    ASSUME NEW q \in Process, Right(q), Same(q), Passed(q)
    PROVE  Right(q)'
  <1>1. CASE toolOvertaken'[q]
    BY <1>1 DEF Right, Same
  <1>2. CASE ~toolOvertaken'[q]
    BY <1>2 DEF Right, Same, Passed
  <1> QED
    BY <1>1, <1>2

(* What a step of p does to its position.                                  *)
LEMMA TakeOn ==
    ASSUME ToolTyped, NEW p \in Process, cmd[p] \in Command, Placed(cmd[p], left[p]),
           NEW n \in 1 .. Len(left[p]), Tools!Take(p, n)
    PROVE  /\ toolPc' \in [Process -> {"idle", "run", "done", "failed"}]
           /\ DOMAIN left' = Process
           /\ \A q \in Process \ {p} : toolPc'[q] = toolPc[q] /\ left'[q] = left[q]
           /\ n = Len(left[p]) => toolPc'[p] = "done"
           /\ n < Len(left[p]) =>
                 /\ toolPc'[p] = "run" /\ Placed(cmd[p], left'[p])
                 /\ Len(left'[p]) = Len(left[p]) - n
                 /\ Taken(cmd[p], left'[p]) = Taken(cmd[p], left[p]) + n
  <1>1. /\ left' = [left EXCEPT ![p] = SubSeq(@, n + 1, Len(@))]
        /\ toolPc' = [toolPc EXCEPT ![p] = IF n = Len(left[p]) THEN "done" ELSE "run"]
    BY DEF Tools!Take
  <1>2. toolPc' \in [Process -> {"idle", "run", "done", "failed"}] /\ DOMAIN left' = Process
    BY <1>1 DEF ToolTyped
  <1>3. \A q \in Process \ {p} : toolPc'[q] = toolPc[q] /\ left'[q] = left[q]
    BY <1>1 DEF ToolTyped
  <1>4. /\ left'[p] = SubSeq(left[p], n + 1, Len(left[p]))
        /\ toolPc'[p] = IF n = Len(left[p]) THEN "done" ELSE "run"
    BY <1>1 DEF ToolTyped
  <1>5. Len(left[p]) \in Nat /\ Len(Tools!Steps(cmd[p])) \in Nat
    BY NextOne
  <1>6. ASSUME n < Len(left[p])
        PROVE  /\ Placed(cmd[p], left'[p]) /\ Len(left'[p]) = Len(left[p]) - n
               /\ Taken(cmd[p], left'[p]) = Taken(cmd[p], left[p]) + n
    <2>1. n \in 1 .. Len(left[p]) - 1
      BY <1>5, <1>6
    <2>2. Placed(cmd[p], left'[p]) /\ Len(left'[p]) = Len(left[p]) - n
      BY <1>4, <2>1, Remaining
    <2> QED
      BY <1>5, <2>2 DEF Taken
  <1> QED
    BY <1>2, <1>3, <1>4, <1>5, <1>6

LEMMA QuitOn ==
    ASSUME ToolTyped, NEW p \in Process, NEW how \in {"idle", "done", "failed"},
           Tools!Quit(p, how)
    PROVE  /\ toolPc' \in [Process -> {"idle", "run", "done", "failed"}]
           /\ DOMAIN left' = Process
           /\ \A q \in Process \ {p} : toolPc'[q] = toolPc[q] /\ left'[q] = left[q]
           /\ toolPc'[p] = how
  BY DEF Tools!Quit, ToolTyped

LEMMA QuitIsRight ==
    ASSUME NEW p \in Process, toolPc'[p] \in {"idle", "failed"}, logged'[p] = FALSE
    PROVE  Right(p)'
  BY DEF Right

(* A running process.                                                      *)
LEMMA Running ==
    ASSUME ToolInv, NEW p \in Process, toolPc[p] = "run"
    PROVE  /\ ToolTyped /\ IsHost(host) /\ cmd[p] \in Command /\ Placed(cmd[p], left[p])
           /\ logged[p] = FALSE
           /\ Standing(cmd[p], Len(left[p]), Head(left[p]))
           /\ Len(left[p]) \in Nat /\ Len(left[p]) >= 1
           /\ ~toolOvertaken[p] =>
                 /\ SieveAt(cmd[p], Len(left[p]), host, text[p], shown[p])
                 /\ Repeats(cmd[p], Taken(cmd[p], left[p]), host, text[p])
  <1>1. ToolTyped /\ IsHost(host) /\ Right(p)
    BY DEF ToolInv
  <1>2. cmd[p] \in Command /\ Placed(cmd[p], left[p]) /\ logged[p] = FALSE
    BY <1>1 DEF Right, Placed, ToolTyped
  <1>3. Standing(cmd[p], Len(left[p]), Head(left[p]))
    BY <1>2, Stands
  <1>4. Len(left[p]) \in Nat /\ Len(left[p]) >= 1
    BY <1>2, NextOne
  <1> QED
    BY <1>1, <1>2, <1>3, <1>4 DEF Right

LEMMA SieveSteps ==
    ASSUME NEW c, NEW n \in Nat, NEW h, NEW b, NEW name
    PROVE  /\ Standing(c, n, "confirm") => SieveAt(c, n - 1, h, b, name)
           /\ Standing(c, n, "status") => SieveAt(c, n - 1, h, b, name)
           /\ Standing(c, n, "list") => c.op \in SieveVerb /\ n \in {5, 7}
                                        /\ (c.op = "sieve.edit" => n = 7)
           /\ Standing(c, n, "get") => c.op \in SieveVerb /\ n \in {4, 6}
                                       /\ (c.op = "sieve.edit" => n = 6)
           /\ Standing(c, n, "edit") => c.op = "sieve.edit" /\ n = 5
  <1>1. Standing(c, n, "confirm") => SieveAt(c, n - 1, h, b, name)
    <2>1. CASE c.op = "sieve.set"
      <3>1. Standing(c, n, "confirm") => n = 6
        BY <2>1 DEF Standing
      <3> QED
        BY <2>1, <3>1 DEF SieveAt
    <2>2. CASE c.op = "sieve.edit"
      <3>1. Standing(c, n, "confirm") => n = 4
        BY <2>2 DEF Standing
      <3> QED
        BY <2>2, <3>1 DEF SieveAt
    <2> QED
      BY <2>1, <2>2 DEF SieveAt, SieveVerb
  <1>2. Standing(c, n, "status") => SieveAt(c, n - 1, h, b, name)
    BY DEF Standing, SieveAt
  <1>3. Standing(c, n, "list") => c.op \in SieveVerb /\ n \in {5, 7}
                                  /\ (c.op = "sieve.edit" => n = 7)
    BY DEF Standing, SieveVerb
  <1>4. Standing(c, n, "get") => c.op \in SieveVerb /\ n \in {4, 6}
                                 /\ (c.op = "sieve.edit" => n = 6)
    BY DEF Standing, SieveVerb
  <1>5. Standing(c, n, "edit") => c.op = "sieve.edit" /\ n = 5
    BY DEF Standing, SieveVerb
  <1> QED
    BY <1>1, <1>2, <1>3, <1>4, <1>5

(* What every step of p brings about.                                      *)
StepRight(p) ==
    /\ ToolTyped' /\ IsHost(host)' /\ Right(p)'
    /\ \A q \in Process \ {p} : Same(q) /\ Passed(q)

LEMMA ToolStarts == Tools!Init => ToolInv
  <1> SUFFICES ASSUME Tools!Init PROVE ToolInv
    OBVIOUS
  <1>1. ToolTyped
    BY DEF Tools!Init, ToolTyped
  <1>2. PICK named \in SUBSET Name, body \in Body \ TooLong, act \in Name \union {NoName} :
           /\ IF named = {} THEN act = NoName ELSE act \in named
           /\ host = [scripts |-> [x \in named |-> body], active |-> act,
                      queue |-> [q \in QueueId |-> "deferred"],
                      bans |-> {}, allow |-> {}, ports |-> {},
                      units |-> [u \in Allowed |-> "active"]]
    BY Zenon DEF Tools!Init
  <1>3. IsHost(host)
    <2>1. PICK s, q, e, u : /\ s = [x \in named |-> body] /\ e = {}
                            /\ q = [x \in QueueId |-> "deferred"]
                            /\ u = [x \in Allowed |-> "active"]
      OBVIOUS
    <2>2. host = HostOf(s, act, q, e, e, e, u)
      BY <1>2, <2>1, Zenon DEF HostOf
    <2>3. /\ Mapping(s) /\ Mapping(q) /\ Mapping(u)
          /\ act \in DOMAIN s \union {NoName} /\ DOMAIN s \subseteq Name
      BY <1>2, <2>1 DEF Mapping
    <2> QED
      BY <2>2, <2>3, Hosts
  <1>4. \A p \in Process : Right(p)
    BY DEF Tools!Init, Right
  <1> QED
    BY <1>1, <1>3, <1>4 DEF ToolInv

LEMMA StartIsRight ==
    ASSUME ToolInv, NEW p \in Process, NEW c \in Command, Tools!Start(p, c)
    PROVE  StepRight(p)
  <1>1. ToolTyped /\ IsHost(host)
    BY DEF ToolInv
  <1>2. /\ toolPc' = [toolPc EXCEPT ![p] = "run"] /\ cmd' = [cmd EXCEPT ![p] = c]
        /\ left' = [left EXCEPT ![p] = Tools!Steps(c)]
        /\ shown' = [shown EXCEPT ![p] = NoName]
        /\ text' = [text EXCEPT ![p] = IF c.op = "sieve.set" THEN c.body ELSE NoBody]
        /\ logged' = [logged EXCEPT ![p] = FALSE]
        /\ toolOvertaken' = [toolOvertaken EXCEPT ![p] = FALSE] /\ host' = host
    BY DEF Tools!Start
  <1>3. ToolTyped'
    BY <1>1, <1>2 DEF ToolTyped
  <1>4. \A q \in Process \ {p} : Same(q) /\ Passed(q)
    BY <1>1, <1>2 DEF ToolTyped, Same, Passed
  <1>5. /\ toolPc'[p] = "run" /\ cmd'[p] = c /\ left'[p] = Tools!Steps(c)
        /\ logged'[p] = FALSE
        /\ c.op = "sieve.edit" => text'[p] = NoBody
    BY <1>1, <1>2 DEF ToolTyped
  <1>6. Placed(c, Tools!Steps(c)) /\ Taken(c, Tools!Steps(c)) = 0
    BY StepsAreWords DEF Taken
  <1>7. c.op \in SieveVerb => IF c.op = "sieve.set" THEN Len(Tools!Steps(c)) = 6
                              ELSE Len(Tools!Steps(c)) = 7
    BY StepsOfCommand DEF SieveVerb, PlainVerb, Tools!ServiceVerb
  <1>8. ASSUME NEW h, NEW b, NEW name, c.op = "sieve.edit" => b = NoBody
        PROVE  SieveAt(c, Len(Tools!Steps(c)), h, b, name)
    <2>1. CASE c.op = "sieve.set"
      <3>1. Len(Tools!Steps(c)) = 6
        BY <1>7, <2>1 DEF SieveVerb
      <3> QED
        BY <2>1, <3>1 DEF SieveAt
    <2>2. CASE c.op = "sieve.edit"
      <3>1. Len(Tools!Steps(c)) = 7
        BY <1>7, <2>2 DEF SieveVerb
      <3> QED
        BY <1>8, <2>2, <3>1 DEF SieveAt
    <2> QED
      BY <2>1, <2>2 DEF SieveAt, SieveVerb
  <1>9. Right(p)'
    <2>0. PICK h, b, name : h = host' /\ b = text'[p] /\ name = shown'[p]
      OBVIOUS
    <2>1. SieveAt(c, Len(Tools!Steps(c)), h, b, name)
      BY <1>5, <1>8, <2>0
    <2>2. Repeats(c, 0, h, b)
      BY DEF Repeats
    <2> QED
      BY <1>5, <1>6, <2>0, <2>1, <2>2 DEF Right
  <1> QED
    BY <1>1, <1>2, <1>3, <1>4, <1>9 DEF StepRight

LEMMA CrashIsRight ==
    ASSUME ToolInv, NEW p \in Process, Tools!Crash(p)
    PROVE  StepRight(p)
  <1>1. /\ toolPc[p] = "run" /\ Tools!Quit(p, "idle")
        /\ UNCHANGED <<host, cmd, shown, text, logged, toolOvertaken>>
    BY DEF Tools!Crash
  <1>2. ToolTyped /\ IsHost(host) /\ logged[p] = FALSE
    BY <1>1, Running
  <1>3. ToolTyped' /\ Right(p)'
    BY <1>1, <1>2, QuitOn, QuitIsRight DEF ToolTyped
  <1>4. \A q \in Process \ {p} : Same(q) /\ Passed(q)
    BY <1>1, <1>2, QuitOn DEF Same, Passed
  <1> QED
    BY <1>1, <1>2, <1>3, <1>4 DEF StepRight

(* A step of p that ends its command without a row.                        *)
LEMMA QuitStep ==
    ASSUME ToolInv, NEW p \in Process, toolPc[p] = "run", Tools!Quit(p, "failed"),
           UNCHANGED <<cmd, shown, text, logged>>,
           IsHost(host)', toolOvertaken' \in [Process -> BOOLEAN],
           \A q \in Process \ {p} : Passed(q)
    PROVE  StepRight(p)
  <1>1. ToolTyped /\ logged[p] = FALSE
    BY Running
  <1>2. ToolTyped' /\ Right(p)'
    BY <1>1, QuitOn, QuitIsRight DEF ToolTyped
  <1>3. \A q \in Process \ {p} : Same(q)
    BY <1>1, QuitOn DEF Same
  <1> QED
    BY <1>2, <1>3 DEF StepRight

LEMMA ConfirmIsRight ==
    ASSUME ToolInv, NEW p \in Process, Tools!Confirm(p)
    PROVE  StepRight(p)
  <1>1. /\ toolPc[p] = "run" /\ Head(left[p]) = "confirm"
        /\ Tools!Take(p, 1) \/ Tools!Quit(p, "failed")
        /\ UNCHANGED <<host, cmd, shown, text, logged, toolOvertaken>>
    BY DEF Tools!Confirm, Tools!At
  <1>0. PICK c, n : c = cmd[p] /\ n = Len(left[p])
    OBVIOUS
  <1>2. /\ ToolTyped /\ IsHost(host) /\ c \in Command /\ Placed(c, left[p])
        /\ logged[p] = FALSE /\ n \in Nat /\ n >= 1
        /\ Standing(c, n, "confirm")
        /\ ~toolOvertaken[p] => /\ SieveAt(c, n, host, text[p], shown[p])
                                /\ Repeats(c, Taken(c, left[p]), host, text[p])
    BY <1>0, <1>1, Running
  <1>3. \A q \in Process : Passed(q)
    BY <1>1 DEF Passed
  <1>4. CASE Tools!Quit(p, "failed")
    BY <1>1, <1>2, <1>3, <1>4, QuitStep DEF ToolTyped
  <1>5. CASE Tools!Take(p, 1)
    <2>1. n >= 2 /\ 1 \in 1 .. n
      BY <1>2 DEF Standing
    <2>2. /\ toolPc' \in [Process -> {"idle", "run", "done", "failed"}]
          /\ DOMAIN left' = Process
          /\ \A q \in Process \ {p} : toolPc'[q] = toolPc[q] /\ left'[q] = left[q]
          /\ toolPc'[p] = "run" /\ Placed(c, left'[p]) /\ Len(left'[p]) = n - 1
          /\ Taken(c, left'[p]) = Taken(c, left[p]) + 1
      BY <1>0, <1>2, <1>5, <2>1, TakeOn
    <2>3. ToolTyped'
      BY <1>1, <1>2, <2>2 DEF ToolTyped
    <2>4. \A q \in Process \ {p} : Same(q)
      BY <1>1, <2>2 DEF Same
    <2>5. ASSUME NEW h, NEW b, NEW name PROVE SieveAt(c, n - 1, h, b, name)
      BY <1>2, SieveSteps
    <2>6. ~toolOvertaken[p] => Repeats(c, Taken(c, left[p]) + 1, host, text[p])
      BY <1>0, <1>1, <1>2, RepeatsOn DEF Tools!Calls, Tools!ServiceVerb
    <2>7. Right(p)'
      BY <1>0, <1>1, <1>2, <2>2, <2>5, <2>6 DEF Right
    <2> QED
      BY <1>1, <1>2, <1>3, <2>3, <2>4, <2>7 DEF StepRight
  <1> QED
    BY <1>1, <1>4, <1>5

LEMMA StatusIsRight ==
    ASSUME ToolInv, NEW p \in Process, Tools!StatusOf(p)
    PROVE  StepRight(p)
  <1>1. /\ toolPc[p] = "run" /\ Head(left[p]) = "status"
        /\ Tools!Take(p, 1) \/ Tools!Quit(p, "failed")
        /\ UNCHANGED <<host, cmd, shown, text, logged, toolOvertaken>>
    BY DEF Tools!StatusOf, Tools!At
  <1>0. PICK c, n : c = cmd[p] /\ n = Len(left[p])
    OBVIOUS
  <1>2. /\ ToolTyped /\ IsHost(host) /\ c \in Command /\ Placed(c, left[p])
        /\ logged[p] = FALSE /\ n \in Nat /\ n >= 1
        /\ Standing(c, n, "status")
        /\ ~toolOvertaken[p] => /\ SieveAt(c, n, host, text[p], shown[p])
                                /\ Repeats(c, Taken(c, left[p]), host, text[p])
    BY <1>0, <1>1, Running
  <1>3. \A q \in Process : Passed(q)
    BY <1>1 DEF Passed
  <1>4. CASE Tools!Quit(p, "failed")
    BY <1>1, <1>2, <1>3, <1>4, QuitStep DEF ToolTyped
  <1>5. CASE Tools!Take(p, 1)
    <2>1. n >= 2 /\ 1 \in 1 .. n
      BY <1>2 DEF Standing
    <2>2. /\ toolPc' \in [Process -> {"idle", "run", "done", "failed"}]
          /\ DOMAIN left' = Process
          /\ \A q \in Process \ {p} : toolPc'[q] = toolPc[q] /\ left'[q] = left[q]
          /\ toolPc'[p] = "run" /\ Placed(c, left'[p]) /\ Len(left'[p]) = n - 1
          /\ Taken(c, left'[p]) = Taken(c, left[p]) + 1
      BY <1>0, <1>2, <1>5, <2>1, TakeOn
    <2>3. ToolTyped'
      BY <1>1, <1>2, <2>2 DEF ToolTyped
    <2>4. \A q \in Process \ {p} : Same(q)
      BY <1>1, <2>2 DEF Same
    <2>5. ASSUME NEW h, NEW b, NEW name PROVE SieveAt(c, n - 1, h, b, name)
      BY <1>2, SieveSteps
    <2>6. ~toolOvertaken[p] => Repeats(c, Taken(c, left[p]) + 1, host, text[p])
      BY <1>0, <1>1, <1>2, RepeatsOn DEF Tools!Calls, Tools!ServiceVerb
    <2>7. Right(p)'
      BY <1>0, <1>1, <1>2, <2>2, <2>5, <2>6 DEF Right
    <2> QED
      BY <1>1, <1>2, <1>3, <2>3, <2>4, <2>7 DEF StepRight
  <1> QED
    BY <1>1, <1>4, <1>5

LEMMA ListIsRight ==
    ASSUME ToolInv, NEW p \in Process, Tools!ListScripts(p)
    PROVE  StepRight(p)
  <1>1. /\ toolPc[p] = "run" /\ Head(left[p]) = "list"
        /\ UNCHANGED <<host, cmd, text, logged, toolOvertaken>>
    BY DEF Tools!ListScripts, Tools!At
  <1>0. PICK c, n, m : c = cmd[p] /\ n = Len(left[p])
                       /\ m = IF host.active = NoName THEN 2 ELSE 1
    OBVIOUS
  <1>2. /\ ToolTyped /\ IsHost(host) /\ c \in Command /\ Placed(c, left[p])
        /\ logged[p] = FALSE /\ n \in Nat /\ n >= 1
        /\ Standing(c, n, "list")
        /\ ~toolOvertaken[p] => SieveAt(c, n, host, text[p], shown[p])
    BY <1>0, <1>1, Running
  <1>3. \A q \in Process : Passed(q)
    BY <1>1 DEF Passed
  <1>4. CASE Tools!Quit(p, "failed") /\ UNCHANGED shown
    BY <1>1, <1>2, <1>3, <1>4, QuitStep DEF ToolTyped
  <1>5. CASE Tools!Take(p, m) /\ shown' = [shown EXCEPT ![p] = host.active]
    <2>0. c.op \in SieveVerb /\ n \in {5, 7} /\ (c.op = "sieve.edit" => n = 7)
      BY <1>2, SieveSteps
    <2>9. m = 1 \/ m = 2
      BY <1>0
    <2>1. m \in {1, 2} /\ m \in 1 .. n /\ m < n /\ n - m >= 3
      BY <2>0, <2>9
    <2>2. /\ toolPc' \in [Process -> {"idle", "run", "done", "failed"}]
          /\ DOMAIN left' = Process
          /\ \A q \in Process \ {p} : toolPc'[q] = toolPc[q] /\ left'[q] = left[q]
          /\ toolPc'[p] = "run" /\ Placed(c, left'[p]) /\ Len(left'[p]) = n - m
      BY <1>0, <1>2, <1>5, <2>1, TakeOn
    <2>3. ToolTyped'
      BY <1>1, <1>2, <1>5, <2>2 DEF ToolTyped
    <2>4. \A q \in Process \ {p} : Same(q)
      BY <1>1, <1>2, <1>5, <2>2 DEF Same, ToolTyped
    <2>5. shown'[p] = host.active
      BY <1>2, <1>5 DEF ToolTyped
    <2>6. ~toolOvertaken[p] /\ c.op = "sieve.edit" => text[p] = NoBody
      BY <1>2, <2>0 DEF SieveAt
    <2>7. ASSUME c.op = "sieve.edit" => text[p] = NoBody
          PROVE  SieveAt(c, n - m, host, text[p], host.active)
      <3>1. ~(n - m <= 2) /\ ~(n - m <= 1)
        BY <2>0, <2>1
      <3>2. CASE m = 2
        <4>1. host.active = NoName
          BY <1>0, <3>2
        <4>2. c.op = "sieve.edit" => n - m = 5
          BY <2>0, <3>2
        <4> QED
          BY <2>7, <3>1, <4>1, <4>2 DEF SieveAt, FilterOf
      <3>3. CASE m = 1
        <4>1. host.active # NoName
          BY <1>0, <3>3
        <4>2. c.op = "sieve.edit" => n - m = 6
          BY <2>0, <3>3
        <4> QED
          BY <2>7, <3>1, <4>1, <4>2 DEF SieveAt
      <3> QED
        BY <2>9, <3>2, <3>3
    <2>8. Repeats(c, Taken(c, left'[p]), host, text[p])
      <3>1. /\ Taken(c, left'[p]) \in Int
            /\ Taken(c, left'[p]) <= Len(Tools!Steps(c)) - 3
        BY <1>2, <2>1, <2>2, StepsAreWords DEF Taken
      <3> QED
        BY <1>2, <2>0, <3>1, NoCallYet
    <2>10. Right(p)'
      BY <1>0, <1>1, <1>2, <2>2, <2>5, <2>6, <2>7, <2>8 DEF Right
    <2> QED
      BY <1>1, <1>2, <1>3, <2>3, <2>4, <2>10 DEF StepRight
  <1> QED
    BY <1>0, <1>1, <1>4, <1>5 DEF Tools!ListScripts

LEMMA GetIsRight ==
    ASSUME ToolInv, NEW p \in Process, Tools!GetScript(p)
    PROVE  StepRight(p)
  <1>1. /\ toolPc[p] = "run" /\ Head(left[p]) = "get"
        /\ UNCHANGED <<host, cmd, shown, logged, toolOvertaken>>
    BY DEF Tools!GetScript, Tools!At
  <1>0. PICK c, n : c = cmd[p] /\ n = Len(left[p])
    OBVIOUS
  <1>2. /\ ToolTyped /\ IsHost(host) /\ c \in Command /\ Placed(c, left[p])
        /\ logged[p] = FALSE /\ n \in Nat /\ n >= 1
        /\ Standing(c, n, "get")
        /\ ~toolOvertaken[p] => SieveAt(c, n, host, text[p], shown[p])
    BY <1>0, <1>1, Running
  <1>3. \A q \in Process : Passed(q)
    BY <1>1 DEF Passed
  <1>4. CASE Tools!Quit(p, "failed") /\ UNCHANGED text
    BY <1>1, <1>2, <1>3, <1>4, QuitStep DEF ToolTyped
  <1>5. CASE /\ Tools!Take(p, 1) /\ shown[p] \in DOMAIN host.scripts
             /\ text' = IF c.op = "sieve.edit"
                        THEN [text EXCEPT ![p] = host.scripts[shown[p]]] ELSE text
    <2>1. c.op \in SieveVerb /\ n \in {4, 6} /\ (c.op = "sieve.edit" => n = 6)
      BY <1>2, SieveSteps
    <2>2. /\ toolPc' \in [Process -> {"idle", "run", "done", "failed"}]
          /\ DOMAIN left' = Process
          /\ \A q \in Process \ {p} : toolPc'[q] = toolPc[q] /\ left'[q] = left[q]
          /\ toolPc'[p] = "run" /\ Placed(c, left'[p]) /\ Len(left'[p]) = n - 1
      <3>1. 1 \in 1 .. n /\ 1 < n
        BY <2>1
      <3> QED
        BY <1>0, <1>2, <1>5, <3>1, TakeOn
    <2>3. ToolTyped'
      BY <1>1, <1>2, <1>5, <2>2 DEF ToolTyped
    <2>4. \A q \in Process \ {p} : Same(q)
      BY <1>1, <1>2, <1>5, <2>2 DEF Same, ToolTyped
    <2>5. c.op = "sieve.edit" => text'[p] = host.scripts[shown[p]]
      BY <1>2, <1>5 DEF ToolTyped
    <2>6. ~toolOvertaken[p] /\ c.op = "sieve.edit" =>
             shown[p] = host.active /\ host.active # NoName
      BY <1>2, <2>1 DEF SieveAt
    <2>7. PICK b : b = text'[p]
      OBVIOUS
    <2>8. ASSUME ~toolOvertaken[p] PROVE SieveAt(c, n - 1, host, b, shown[p])
      <3>1. ~(n - 1 <= 2) /\ ~(n - 1 <= 1) /\ (c.op = "sieve.edit" => n - 1 = 5)
        BY <2>1
      <3>2. c.op = "sieve.edit" => FilterOf(host) = b
        BY <2>5, <2>6, <2>7, <2>8 DEF FilterOf
      <3> QED
        BY <3>1, <3>2 DEF SieveAt
    <2>9. Repeats(c, Taken(c, left'[p]), host, b)
      <3>1. /\ Taken(c, left'[p]) \in Int
            /\ Taken(c, left'[p]) <= Len(Tools!Steps(c)) - 3
        BY <1>2, <2>1, <2>2, StepsAreWords DEF Taken
      <3> QED
        BY <1>2, <2>1, <3>1, NoCallYet
    <2>10. Right(p)'
      BY <1>0, <1>1, <1>2, <2>2, <2>7, <2>8, <2>9 DEF Right
    <2> QED
      BY <1>1, <1>2, <1>3, <2>3, <2>4, <2>10 DEF StepRight
  <1> QED
    BY <1>0, <1>1, <1>4, <1>5 DEF Tools!GetScript

LEMMA EditIsRight ==
    ASSUME ToolInv, NEW p \in Process, Tools!EditInEditor(p)
    PROVE  StepRight(p)
  <1>1. /\ toolPc[p] = "run" /\ Head(left[p]) = "edit"
        /\ UNCHANGED <<host, cmd, shown, logged, toolOvertaken>>
    BY DEF Tools!EditInEditor, Tools!At
  <1>0. PICK c, n : c = cmd[p] /\ n = Len(left[p])
    OBVIOUS
  <1>2. /\ ToolTyped /\ IsHost(host) /\ c \in Command /\ Placed(c, left[p])
        /\ logged[p] = FALSE /\ n \in Nat /\ n >= 1
        /\ Standing(c, n, "edit")
        /\ ~toolOvertaken[p] => SieveAt(c, n, host, text[p], shown[p])
    BY <1>0, <1>1, Running
  <1>3. \A q \in Process : Passed(q)
    BY <1>1 DEF Passed
  <1>4. c.op = "sieve.edit" /\ n = 5
    BY <1>2, SieveSteps
  <1>5. CASE Tools!Quit(p, "failed") /\ UNCHANGED text
    BY <1>1, <1>2, <1>3, <1>5, QuitStep DEF ToolTyped
  <1>6. ASSUME NEW b, text' = [text EXCEPT ![p] = b], b = text[p], Tools!Quit(p, "done")
        PROVE  StepRight(p)
    <2>1. ToolTyped'
      BY <1>1, <1>2, <1>6, QuitOn DEF ToolTyped
    <2>2. \A q \in Process \ {p} : Same(q)
      BY <1>1, <1>2, <1>6, QuitOn DEF Same, ToolTyped
    <2>3. text'[p] = text[p] /\ toolPc'[p] = "done"
      BY <1>2, <1>6, QuitOn DEF ToolTyped
    <2>4. ~toolOvertaken[p] => FilterOf(host) = text[p]
      BY <1>2, <1>4 DEF SieveAt, SieveVerb
    <2>5. Right(p)'
      BY <1>1, <1>2, <2>3, <2>4 DEF Right, FilterOf
    <2> QED
      BY <1>1, <1>2, <1>3, <2>1, <2>2, <2>5 DEF StepRight
  <1>7. ASSUME NEW b, text' = [text EXCEPT ![p] = b], Tools!Take(p, 1)
        PROVE  StepRight(p)
    <2>2. /\ toolPc' \in [Process -> {"idle", "run", "done", "failed"}]
          /\ DOMAIN left' = Process
          /\ \A q \in Process \ {p} : toolPc'[q] = toolPc[q] /\ left'[q] = left[q]
          /\ toolPc'[p] = "run" /\ Placed(c, left'[p]) /\ Len(left'[p]) = n - 1
      <3>1. 1 \in 1 .. n /\ 1 < n
        BY <1>4
      <3> QED
        BY <1>0, <1>2, <1>7, <3>1, TakeOn
    <2>3. ToolTyped'
      BY <1>1, <1>2, <1>7, <2>2 DEF ToolTyped
    <2>4. \A q \in Process \ {p} : Same(q)
      BY <1>1, <1>2, <1>7, <2>2 DEF Same, ToolTyped
    <2>5. text'[p] = b
      BY <1>2, <1>7 DEF ToolTyped
    <2>6. SieveAt(c, n - 1, host, b, shown[p])
      BY <1>4 DEF SieveAt
    <2>7. Repeats(c, Taken(c, left'[p]), host, b)
      <3>1. /\ Taken(c, left'[p]) \in Int
            /\ Taken(c, left'[p]) <= Len(Tools!Steps(c)) - 3
        BY <1>2, <1>4, <2>2, StepsAreWords DEF Taken
      <3> QED
        BY <1>2, <1>4, <3>1, NoCallYet DEF SieveVerb
    <2>8. Right(p)'
      BY <1>0, <1>1, <1>2, <2>2, <2>5, <2>6, <2>7 DEF Right
    <2> QED
      BY <1>1, <1>2, <1>3, <2>3, <2>4, <2>8 DEF StepRight
  <1> QED
    BY <1>5, <1>6, <1>7 DEF Tools!EditInEditor

LEMMA RunIsRight ==
    ASSUME ToolInv, NEW p \in Process, Tools!Run(p)
    PROVE  StepRight(p)
  <1>1. /\ toolPc[p] = "run" /\ Head(left[p]) \in Tools!Calls
        /\ UNCHANGED <<cmd, shown, text, logged>>
        /\ toolOvertaken' = IF host' = host THEN toolOvertaken ELSE Tools!Others(p)
    BY DEF Tools!Run, Tools!At
  <1>0. PICK c, n, s, b, after :
           /\ c = cmd[p] /\ n = Len(left[p]) /\ s = Head(left[p]) /\ b = text[p]
           /\ after = Tools!Effect(s, host, c, b)
    OBVIOUS
  <1>2. /\ ToolTyped /\ IsHost(host) /\ c \in Command /\ Placed(c, left[p])
        /\ logged[p] = FALSE /\ n \in Nat /\ n >= 1
        /\ Standing(c, n, s)
        /\ ~toolOvertaken[p] => /\ SieveAt(c, n, host, b, shown[p])
                                /\ Repeats(c, Taken(c, left[p]), host, b)
    BY <1>0, <1>1, Running
  <1>3. s \in Tools!Calls /\ s # "audit"
    BY <1>0, <1>1 DEF Tools!Calls, Tools!ServiceVerb
  <1>4. toolOvertaken' \in [Process -> BOOLEAN]
    BY <1>1, <1>2 DEF ToolTyped, Tools!Others
  <1>5. \A q \in Process \ {p} : Passed(q)
    <2>1. CASE host' = host
      BY <1>1, <2>1 DEF Passed
    <2>2. CASE host' # host
      <3>1. \A q \in Process \ {p} : toolOvertaken'[q]
        BY <1>1, <2>2 DEF Tools!Others
      <3> QED
        BY <3>1 DEF Passed
    <2> QED
      BY <2>1, <2>2
  <1>6. toolOvertaken'[p] = toolOvertaken[p]
    <2>1. CASE host' = host
      BY <1>1, <2>1
    <2>2. CASE host' # host
      <3>1. toolOvertaken'[p] = (toolOvertaken[p] \/ p # p)
        BY <1>1, <2>2, Zenon DEF Tools!Others
      <3> QED
        BY <1>2, <3>1 DEF ToolTyped
    <2> QED
      BY <2>1, <2>2
  <1>7. CASE Tools!Quit(p, "failed") /\ host' = host
    <2>1. IsHost(host)'
      BY <1>2, <1>7
    <2> QED
      BY <1>1, <1>2, <1>4, <1>5, <1>7, <2>1, QuitStep
  <1>8. ASSUME Tools!Possible(s, host, c) PROVE IsHost(after)
    BY <1>0, <1>2, <1>3, <1>8, CallTwice
  <1>9. CASE Tools!Quit(p, "failed") /\ host' = after /\ Tools!Possible(s, host, c)
    <2>1. IsHost(host)'
      BY <1>8, <1>9
    <2> QED
      BY <1>1, <1>2, <1>4, <1>5, <1>9, <2>1, QuitStep
  <1>10. CASE Tools!Take(p, 1) /\ host' = after /\ Tools!Possible(s, host, c)
    <2>1. n >= 2 /\ 1 \in 1 .. n
      BY <1>2, <1>3 DEF Standing
    <2>2. /\ toolPc' \in [Process -> {"idle", "run", "done", "failed"}]
          /\ DOMAIN left' = Process
          /\ \A q \in Process \ {p} : toolPc'[q] = toolPc[q] /\ left'[q] = left[q]
          /\ toolPc'[p] = "run" /\ Placed(c, left'[p]) /\ Len(left'[p]) = n - 1
          /\ Taken(c, left'[p]) = Taken(c, left[p]) + 1
      BY <1>0, <1>2, <1>10, <2>1, TakeOn
    <2>3. ToolTyped'
      BY <1>1, <1>2, <1>4, <2>2 DEF ToolTyped
    <2>4. \A q \in Process \ {p} : Same(q)
      BY <1>1, <2>2 DEF Same
    <2>5. ASSUME ~toolOvertaken[p] PROVE Repeats(c, Taken(c, left[p]) + 1, after, b)
      BY <1>0, <1>2, <1>3, <1>10, <2>5, RepeatsCall
    <2>6. ASSUME ~toolOvertaken[p] PROVE SieveAt(c, n - 1, after, b, shown[p])
      <3>1. CASE c.op \notin SieveVerb
        BY <3>1 DEF SieveAt
      <3>2. CASE s = "put"
        <4>1. n = 3
          BY <1>2, <3>2 DEF Standing
        <4>2. after.scripts = Tools!Put(host.scripts, ManagedName, b)
          BY <1>0, <1>2, <1>3, <3>2, ScriptsAfter
        <4>3. ManagedName \in DOMAIN after.scripts /\ after.scripts[ManagedName] = b
          BY <4>2 DEF Tools!Put
        <4> QED
          BY <4>1, <4>3 DEF SieveAt
      <3>3. CASE s = "activate" /\ c.op \in SieveVerb
        <4>1. n = 2
          BY <1>2, <3>3 DEF Standing
        <4>2. after.scripts = host.scripts /\ after.active = ManagedName
          BY <1>0, <1>2, <1>3, <3>3, ScriptsAfter
        <4>3. ManagedName \in DOMAIN host.scripts /\ host.scripts[ManagedName] = b
          BY <1>2, <2>6, <3>3, <4>1 DEF SieveAt
        <4> QED
          BY <4>1, <4>2, <4>3 DEF SieveAt
      <3> QED
        BY <1>2, <1>3, <3>1, <3>2, <3>3 DEF Standing
    <2>7. Right(p)'
      BY <1>0, <1>1, <1>2, <1>6, <1>10, <2>2, <2>5, <2>6 DEF Right
    <2> QED
      BY <1>8, <1>10, <1>5, <2>3, <2>4, <2>7 DEF StepRight
  <1> QED
    BY <1>0, <1>7, <1>9, <1>10 DEF Tools!Run

LEMMA RecordIsRight ==
    ASSUME ToolInv, NEW p \in Process, Tools!Record(p)
    PROVE  StepRight(p)
  <1>1. /\ toolPc[p] = "run" /\ Head(left[p]) = "audit"
        /\ UNCHANGED <<host, cmd, shown, text, toolOvertaken>>
        /\ logged' = logged \/ logged' = [logged EXCEPT ![p] = TRUE]
        /\ Tools!Take(p, 1) \/ Tools!Quit(p, "failed")
    BY DEF Tools!Record, Tools!At
  <1>0. PICK c, n, b : c = cmd[p] /\ n = Len(left[p]) /\ b = text[p]
    OBVIOUS
  <1>2. /\ ToolTyped /\ IsHost(host) /\ c \in Command /\ Placed(c, left[p])
        /\ logged[p] = FALSE /\ n \in Nat /\ n >= 1
        /\ Standing(c, n, "audit")
        /\ ~toolOvertaken[p] => /\ SieveAt(c, n, host, b, shown[p])
                                /\ Repeats(c, Taken(c, left[p]), host, b)
    BY <1>0, <1>1, Running
  <1>3. n = 1
    BY <1>2 DEF Standing
  <1>4. \A q \in Process : Passed(q)
    BY <1>1 DEF Passed
  <1>5. logged' \in [Process -> BOOLEAN] /\ \A q \in Process \ {p} : logged'[q] = logged[q]
    BY <1>1, <1>2 DEF ToolTyped
  <1>6. ~toolOvertaken[p] => Repeats(c, Len(Tools!Steps(c)), host, b)
    <2>1. Taken(c, left[p]) + 1 = Len(Tools!Steps(c))
      <3>1. /\ Taken(c, left[p]) = Len(Tools!Steps(c)) - Len(left[p])
            /\ Len(Tools!Steps(c)) \in Nat
        BY <1>2, NextOne
      <3>2. Len(left[p]) = 1
        BY <1>0, <1>3
      <3> QED
        BY <3>1, <3>2
    <2>2. Head(left[p]) \notin Tools!Calls
      BY <1>1 DEF Tools!Calls, Tools!ServiceVerb
    <2> QED
      BY <1>2, <2>1, <2>2, RepeatsOn
  <1>7. ASSUME ~toolOvertaken[p], c.op \in SieveVerb PROVE FilterOf(host) = b
    <2>1. host.active = ManagedName /\ host.scripts[ManagedName] = b
      BY <1>2, <1>3, <1>7 DEF SieveAt
    <2>2. ManagedName # NoName
      BY HostAssumption DEF Tools!ToolsAssumption
    <2> QED
      BY <2>1, <2>2 DEF FilterOf
  <1>8. /\ toolPc' \in [Process -> {"idle", "run", "done", "failed"}]
        /\ DOMAIN left' = Process
        /\ \A q \in Process \ {p} : toolPc'[q] = toolPc[q] /\ left'[q] = left[q]
        /\ toolPc'[p] \in {"done", "failed"}
    <2>1. CASE Tools!Take(p, 1)
      <3>1. 1 \in 1 .. Len(left[p]) /\ Len(left[p]) = 1
        BY <1>0, <1>3
      <3> QED
        BY <1>0, <1>2, <2>1, <3>1, TakeOn
    <2>2. CASE Tools!Quit(p, "failed")
      BY <1>2, <2>2, QuitOn
    <2> QED
      BY <1>1, <2>1, <2>2
  <1>9. ToolTyped'
    BY <1>1, <1>2, <1>5, <1>8 DEF ToolTyped
  <1>10. \A q \in Process \ {p} : Same(q)
    BY <1>1, <1>5, <1>8 DEF Same
  <1>11. Right(p)'
    BY <1>0, <1>1, <1>2, <1>6, <1>7, <1>8 DEF Right, FilterOf
  <1> QED
    BY <1>1, <1>2, <1>4, <1>9, <1>10, <1>11 DEF StepRight

LEMMA OutsideIsRight ==
    ASSUME ToolInv, Tools!Outside
    PROVE  ToolInv'
  <1>1. /\ toolOvertaken' = [p \in Process |-> TRUE]
        /\ UNCHANGED <<toolPc, cmd, left, shown, text, logged>>
    BY DEF Tools!Outside, Tools!process
  <1>2. ToolTyped /\ IsHost(host)
    BY DEF ToolInv
  <1>3. ToolTyped'
    BY <1>1, <1>2 DEF ToolTyped
  <1>4. \A p \in Process : Right(p)'
    <2> TAKE p \in Process
    <2>1. Right(p) /\ Same(p) /\ Passed(p)
      BY <1>1 DEF ToolInv, Same, Passed
    <2> QED
      BY <2>1, OthersStay
  <1>5. IsHost(host')
    <2>1. PICK s, a, q, b, l, o, u : host = HostOf(s, a, q, b, l, o, u)
      BY <1>2 DEF IsHost
    <2>2. /\ Mapping(s) /\ Mapping(q) /\ Mapping(u)
          /\ a \in DOMAIN s \union {NoName} /\ DOMAIN s \subseteq Name
      BY <1>2, <2>1, Hosts
    <2>3. /\ host.scripts = s /\ host.active = a /\ host.queue = q /\ host.units = u
      BY <2>1, Fields
    <2>4. ASSUME NEW n \in Name, NEW body,
                 host' = [host EXCEPT !.scripts = Tools!Put(@, n, body)]
          PROVE  IsHost(host')
      <3>1. PICK x : x = Tools!Put(s, n, body)
        OBVIOUS
      <3>2. host' = HostOf(x, a, q, b, l, o, u)
        BY <2>1, <2>3, <2>4, <3>1 DEF HostOf
      <3>3. Mapping(x) /\ DOMAIN x = DOMAIN s \union {n}
        BY <3>1, PutOnce
      <3> QED
        BY <2>2, <3>2, <3>3, Hosts
    <2>5. ASSUME NEW n \in DOMAIN host.scripts, host' = [host EXCEPT !.active = n]
          PROVE  IsHost(host')
      <3>1. host' = HostOf(s, n, q, b, l, o, u)
        BY <2>1, <2>5 DEF HostOf
      <3> QED
        BY <2>2, <2>3, <2>5, <3>1, Hosts
    <2>6. ASSUME NEW n \in DOMAIN host.scripts \ {host.active},
                 host' = [host EXCEPT !.scripts = Tools!Without(@, n)]
          PROVE  IsHost(host')
      <3>1. PICK x : x = Tools!Without(s, n)
        OBVIOUS
      <3>2. host' = HostOf(x, a, q, b, l, o, u)
        BY <2>1, <2>3, <2>6, <3>1 DEF HostOf
      <3>3. Mapping(x) /\ DOMAIN x = DOMAIN s \ {n}
        BY <3>1, WithoutOnce
      <3> QED
        BY <2>2, <2>3, <2>6, <3>2, <3>3, Hosts
    <2>7. ASSUME NEW x, host' = [host EXCEPT !.queue = Tools!Without(@, x)]
          PROVE  IsHost(host')
      <3>1. PICK y : y = Tools!Without(q, x)
        OBVIOUS
      <3>2. host' = HostOf(s, a, y, b, l, o, u)
        BY <2>1, <2>3, <2>7, <3>1 DEF HostOf
      <3>3. Mapping(y)
        BY <3>1, WithoutOnce
      <3> QED
        BY <2>2, <3>2, <3>3, Hosts
    <2>8. ASSUME NEW x, NEW state, host' = [host EXCEPT !.units[x] = state]
          PROVE  IsHost(host')
      <3>1. PICK y : y = [u EXCEPT ![x] = state]
        OBVIOUS
      <3>2. host' = HostOf(s, a, q, b, l, o, y)
        BY <2>1, <2>3, <2>8, <3>1 DEF HostOf
      <3>3. Mapping(y)
        BY <3>1 DEF Mapping
      <3> QED
        BY <2>2, <3>2, <3>3, Hosts
    <2> QED
      BY <2>4, <2>5, <2>6, <2>7, <2>8 DEF Tools!Outside
  <1> QED
    BY <1>3, <1>4, <1>5 DEF ToolInv

LEMMA StepsAreRight ==
    ASSUME ToolInv, NEW p \in Process,
           Tools!Step(p) \/ Tools!Crash(p) \/ \E c \in Command : Tools!Start(p, c)
    PROVE  ToolInv'
  <1>1. StepRight(p)
    BY StartIsRight, CrashIsRight, ConfirmIsRight, ListIsRight, GetIsRight, EditIsRight,
       StatusIsRight, RunIsRight, RecordIsRight DEF Tools!Step
  <1>2. \A q \in Process \ {p} : Right(q)'
    <2> TAKE q \in Process \ {p}
    <2>1. Right(q) /\ Same(q) /\ Passed(q)
      BY <1>1 DEF StepRight, ToolInv
    <2> QED
      BY <2>1, OthersStay
  <1> QED
    BY <1>1, <1>2 DEF StepRight, ToolInv

LEMMA ToolInvHolds == Spec => []ToolInv
  <1>1. ToolInv /\ [Tools!Next]_(Tools!vars) => ToolInv'
    <2> SUFFICES ASSUME ToolInv, [Tools!Next]_(Tools!vars) PROVE ToolInv'
      OBVIOUS
    <2>1. CASE UNCHANGED Tools!vars
      <3>1. /\ UNCHANGED <<host, toolOvertaken>>
            /\ UNCHANGED <<toolPc, cmd, left, shown, text, logged>>
        BY <2>1 DEF Tools!vars, Tools!process
      <3>2. \A p \in Process : Same(p) /\ Passed(p)
        BY <3>1 DEF Same, Passed
      <3>3. \A p \in Process : Right(p)'
        BY <3>2, OthersStay DEF ToolInv
      <3> QED
        BY <3>1, <3>3 DEF ToolInv, ToolTyped
    <2>2. CASE Tools!Next
      BY <2>2, StepsAreRight, OutsideIsRight DEF Tools!Next
    <2> QED
      BY <2>1, <2>2
  <1> QED
    BY <1>1, ToolStarts, HostRunsTools, PTL DEF Tools!Spec

(* Sets and edits of the filter touch no script of the owner's, and one    *)
(* that nobody overtook brings nothing into force but its own text, at     *)
(* any of its steps.                                                       *)
THEOREM FilterIsOldOrNew == Spec => FilterOldOrNew
  <1>1. ASSUME ToolInv, NEW p \in Process, Tools!Step(p)
        PROVE  /\ \A n \in DOMAIN host.scripts \ {ManagedName} :
                     n \in DOMAIN host'.scripts /\ host'.scripts[n] = host.scripts[n]
               /\ ~toolOvertaken[p] => FilterOf(host') \in {FilterOf(host), text[p]}
    <2>1. CASE host' = host
      BY <2>1
    <2>2. CASE host' # host
      <3>1. Tools!Run(p)
        BY <1>1, <2>2 DEF Tools!Step, Tools!Confirm, Tools!ListScripts, Tools!GetScript,
           Tools!EditInEditor, Tools!StatusOf, Tools!Record
      <3>2. PICK c, n, s, b, after, name :
               /\ c = cmd[p] /\ n = Len(left[p]) /\ s = Head(left[p]) /\ b = text[p]
               /\ after = Tools!Effect(s, host, c, b) /\ name = shown[p]
        OBVIOUS
      <3>3. toolPc[p] = "run" /\ s \in Tools!Calls /\ host' = after
        BY <2>2, <3>1, <3>2 DEF Tools!Run, Tools!At
      <3>4. /\ IsHost(host) /\ Standing(c, n, s)
            /\ ~toolOvertaken[p] => SieveAt(c, n, host, b, name)
        BY <1>1, <3>2, <3>3, Running
      <3>5. host.active \in DOMAIN host.scripts \union {NoName}
        BY <3>4 DEF IsHost
      <3>6. CASE s = "put"
        <4>1. /\ after.scripts = Tools!Put(host.scripts, ManagedName, b)
              /\ after.active = host.active
          BY <3>2, <3>3, <3>4, <3>6, ScriptsAfter
        <4>2. \A x \in DOMAIN host.scripts \ {ManagedName} :
                 x \in DOMAIN after.scripts /\ after.scripts[x] = host.scripts[x]
          BY <4>1 DEF Tools!Put
        <4>3. after.scripts[ManagedName] = b
          BY <4>1 DEF Tools!Put
        <4>4. FilterOf(after) \in {FilterOf(host), b}
          BY <3>5, <4>1, <4>2, <4>3 DEF FilterOf
        <4> QED
          BY <3>2, <3>3, <4>2, <4>4
      <3>7. CASE s = "activate"
        <4>1. after.scripts = host.scripts /\ after.active = ManagedName
          BY <3>2, <3>3, <3>4, <3>7, ScriptsAfter
        <4>2. n = 2 /\ c.op \in SieveVerb
          BY <3>4, <3>7 DEF Standing
        <4>3. ~toolOvertaken[p] => host.scripts[ManagedName] = b
          BY <3>4, <4>2 DEF SieveAt
        <4>4. ManagedName # NoName
          BY HostAssumption DEF Tools!ToolsAssumption
        <4>5. ~toolOvertaken[p] => FilterOf(after) = b
          BY <4>1, <4>3, <4>4 DEF FilterOf
        <4> QED
          BY <3>2, <3>3, <4>1, <4>5
      <3>8. CASE s \notin {"put", "activate"}
        <4>1. after.scripts = host.scripts /\ after.active = host.active
          BY <3>2, <3>3, <3>4, <3>8, ScriptsAfter
        <4> QED
          BY <3>3, <4>1 DEF FilterOf
      <3> QED
        BY <3>6, <3>7, <3>8
    <2> QED
      BY <2>1, <2>2
  <1>2. FilterOf(host) = Tools!ActiveBody /\ FilterOf(host') = Tools!ActiveBody'
    BY DEF FilterOf, Tools!ActiveBody
  <1>3. ToolInv /\ [Next]_vars =>
           [\A p \in Process : Tools!Step(p) =>
               /\ \A n \in DOMAIN host.scripts \ {ManagedName} :
                     n \in DOMAIN host'.scripts /\ host'.scripts[n] = host.scripts[n]
               /\ ~toolOvertaken[p] =>
                     Tools!ActiveBody' \in {Tools!ActiveBody, text[p]}]_(Tools!vars)
    BY <1>1, <1>2
  <1> QED
    BY <1>3, ToolInvHolds, PTL DEF Spec, FilterOldOrNew, Tools!FilterOldOrNew

(* A set or an edit that succeeds and was not overtaken leaves its own     *)
(* text in force, and the edit began from the text in force: no save is    *)
(* lost, none is of a stale text.                                          *)
THEOREM EditsAreNotLost == Spec => []NoLostEdit
  <1>1. ToolInv => NoLostEdit
    <2> SUFFICES ASSUME ToolInv, NEW p \in Process
                 PROVE  /\ toolPc[p] = "done" /\ cmd[p].op \in SieveVerb
                           /\ ~toolOvertaken[p] => FilterOf(host) = text[p]
                        /\ toolPc[p] = "run" /\ Head(left[p]) = "edit"
                           /\ ~toolOvertaken[p] => FilterOf(host) = text[p]
      BY DEF NoLostEdit, Tools!NoLostEdit, Tools!At, Tools!ActiveBody, FilterOf, SieveVerb
    <2>1. Right(p)
      BY DEF ToolInv
    <2>2. ASSUME toolPc[p] = "run", Head(left[p]) = "edit", ~toolOvertaken[p]
          PROVE  FilterOf(host) = text[p]
      <3>1. PICK c, n : c = cmd[p] /\ n = Len(left[p])
        OBVIOUS
      <3>2. /\ n \in Nat /\ Standing(c, n, "edit")
            /\ SieveAt(c, n, host, text[p], shown[p])
        BY <2>2, <3>1, Running
      <3>3. c.op = "sieve.edit" /\ n = 5
        BY <3>2, SieveSteps
      <3> QED
        BY <3>2, <3>3 DEF SieveAt, SieveVerb
    <2> QED
      BY <2>1, <2>2 DEF Right
  <1> QED
    BY <1>1, ToolInvHolds, PTL

(* The audit row of a command of the tools that nobody overtook tells of a *)
(* change made in full: making any of its calls again changes nothing.     *)
THEOREM RowsTellOfDeeds == Spec => []RowTellsOfDeed
  <1>1. ToolInv => RowTellsOfDeed
    <2> SUFFICES ASSUME ToolInv, NEW p \in Process, logged[p], ~toolOvertaken[p]
                 PROVE  Tools!Made(p)
      BY DEF RowTellsOfDeed, Tools!RowTellsOfDeed
    <2>1. cmd[p] \in Command /\ Repeats(cmd[p], Len(Tools!Steps(cmd[p])), host, text[p])
      BY DEF ToolInv, Right
    <2>2. DOMAIN Tools!Steps(cmd[p]) = 1 .. Len(Tools!Steps(cmd[p]))
      BY <2>1, StepsAreWords
    <2> QED
      BY <2>1, <2>2 DEF Repeats, Tools!Made
  <1> QED
    BY <1>1, ToolInvHolds, PTL

-----------------------------------------------------------------------------
(* Reports.  The SPF walk counts every query of the records it went        *)
(* through once: its count is the number of the terms passed that cost a   *)
(* query, no record is on its stack twice, and every domain such a term    *)
(* names was met.  When the first record is through, all domains that can  *)
(* be reached were, and nothing of them is uncounted; a domain whose       *)
(* lookup failed counts as one without a record.                           *)
LEMMA ReportAssumption == Report!DiagnosticsAssumption
  BY HostAssumption DEF HostAssumption

Frame == [dom : Report!Sources, next : Nat \ {0}, from : Nat]
IsPassed(w, d, i) == \A k \in DOMAIN w.stack : w.stack[k].dom = d => i < w.stack[k].next
IsMet(w, term) == term.mech \in Report!Following => term.arg \in w.met \union {""}
Paid(w) == UNION {{d} \X {i \in Report!Costs(w.dns, d) : IsPassed(w, d, i)} : d \in w.met}

WalkType(w) ==
    /\ DOMAIN w = {"dns", "stack", "met", "mute", "n"} /\ DOMAIN w.dns = Report!Sources
    /\ \A d \in Report!Sources : Report!Answers(w.dns[d])
    /\ Report!Sole(w.dns["@"], "spf1")
    /\ w.stack \in Seq(Frame)
    /\ w.met \subseteq Report!Sources /\ "@" \in w.met
    /\ w.n \in Nat

WalkInv(w) ==
    /\ WalkType(w)
    /\ \A j, k \in DOMAIN w.stack : w.stack[j].dom = w.stack[k].dom => j = k
    /\ \A k \in DOMAIN w.stack : w.stack[k].dom \in w.met
    /\ \A d \in w.met : \A i \in DOMAIN Report!TermsOf(w.dns, d) :
          IsPassed(w, d, i) => IsMet(w, Report!TermsOf(w.dns, d)[i])
    /\ IsFiniteSet(Paid(w)) /\ Cardinality(Paid(w)) = w.n

DoneChecks == {Report!Checks[i] : i \in 1 .. stage}

(* The checks a PASS answers for: SPF only if all its lookups succeeded.   *)
Demanded == IF walk.mute = {} THEN Report!Required ELSE Report!Required \ {"SPF"}

ReportInv ==
    /\ stage \in Nat
    /\ report = "none" => stage = 0
    /\ report \in {"none", "audit", "audit guessed", "doctor", "dns check", "config check"}
    /\ Report!Walking => Report!Auditing /\ Report!At("SPF") /\ WalkInv(walk)
    /\ report = "none" => ~flaw /\ sound = {} /\ statuses = {}
    /\ Report!Auditing /\ statuses \intersect {"fail", "warn"} = {}
          => ~flaw /\ sound = Demanded \intersect DoneChecks
    /\ report \in {"doctor", "config check"} /\ "fail" \notin statuses => ~flaw
    /\ \A d \in counted : \E v \in seenLive : Report!SameContent(v, d)

LEMMA FirstIsLeast ==
    ASSUME NEW I \in SUBSET Nat, I # {}
    PROVE  Report!First(I) \in I /\ \A j \in I : Report!First(I) <= j
  <1>1. PICK i \in I : \A j \in I : <<j, i>> \notin OpToRel(<, Nat)
    BY NatLessThanWellFounded, WFMin
  <1>2. \A j \in I : ~(j < i)
    BY <1>1 DEF OpToRel
  <1>3. \A j \in I : i <= j
    BY <1>2
  <1> QED
    BY <1>1, <1>3 DEF Report!First

(* The sole record of a version is the first of it.                        *)
LEMMA FirstOfSole ==
    ASSUME NEW a, Report!Answers(a), NEW v, Report!Sole(a, v)
    PROVE  \E i \in DOMAIN a :
              i \in Nat /\ Report!Tagged(a, v) = {i} /\ Report!FirstOf(a, v) = a[i]
  <1>1. PICK i \in DOMAIN a : Report!Tagged(a, v) = {i}
    BY DEF Report!Sole
  <1>2. i \in Nat
    BY DEF Report!Answers
  <1>3. Report!First({i}) = i
    BY <1>2, FirstIsLeast
  <1> QED
    BY <1>1, <1>2, <1>3 DEF Report!FirstOf

LEMMA TermsAreTerms ==
    ASSUME NEW dns, NEW d, Report!Answers(dns[d])
    PROVE  /\ Report!TermsOf(dns, d) \in Seq(Report!SpfTerm)
           /\ Len(Report!TermsOf(dns, d)) \in Nat
           /\ DOMAIN Report!TermsOf(dns, d) = 1 .. Len(Report!TermsOf(dns, d))
           /\ \A i \in DOMAIN Report!TermsOf(dns, d) :
                 Report!TermsOf(dns, d)[i] \in Report!SpfTerm
  <1>1. Report!TermsOf(dns, d) \in Seq(Report!SpfTerm)
    <2>1. CASE Report!Sole(dns[d], "spf1")
      <3>1. PICK i \in DOMAIN dns[d] : Report!FirstOf(dns[d], "spf1") = dns[d][i]
        BY <2>1, FirstOfSole
      <3> QED
        BY <2>1, <3>1 DEF Report!TermsOf, Report!Answers
    <2>2. CASE ~Report!Sole(dns[d], "spf1")
      BY <2>2, EmptySeq DEF Report!TermsOf
    <2> QED
      BY <2>1, <2>2
  <1> QED
    BY <1>1, LenProperties, ElementOfSeq

LEMMA PaidFor ==
    ASSUME NEW w, NEW d, NEW i
    PROVE  <<d, i>> \in Paid(w) <=>
              d \in w.met /\ i \in Report!Costs(w.dns, d) /\ IsPassed(w, d, i)
  BY DEF Paid

(* A walk over what is answered, taken apart.                              *)
LEMMA Walks ==
    ASSUME NEW w, WalkInv(w)
    PROVE  /\ DOMAIN w = {"dns", "stack", "met", "mute", "n"}
           /\ DOMAIN w.dns = Report!Sources
           /\ w.stack \in Seq(Frame) /\ Len(w.stack) \in Nat
           /\ DOMAIN w.stack = 1 .. Len(w.stack)
           /\ \A k \in DOMAIN w.stack : w.stack[k] \in Frame /\ w.stack[k].dom \in w.met
           /\ w.met \subseteq Report!Sources /\ "@" \in w.met /\ w.n \in Nat
           /\ \A d \in Report!Sources :
                 /\ Report!Answers(w.dns[d]) /\ DOMAIN Report!TermsOf(w.dns, d) \subseteq Nat
                 /\ \A i \in DOMAIN Report!TermsOf(w.dns, d) :
                       Report!TermsOf(w.dns, d)[i] \in Report!SpfTerm
           /\ IsFiniteSet(Paid(w)) /\ Cardinality(Paid(w)) = w.n
           /\ \A x \in Paid(w) : x = <<x[1], x[2]>>
  <1>1. WalkType(w)
    BY DEF WalkInv
  <1>2. /\ w.stack \in Seq(Frame) /\ Len(w.stack) \in Nat
        /\ DOMAIN w.stack = 1 .. Len(w.stack)
    BY <1>1, LenProperties DEF WalkType
  <1>3. \A k \in DOMAIN w.stack : w.stack[k] \in Frame
    BY <1>2, ElementOfSeq
  <1>4. \A k \in DOMAIN w.stack : w.stack[k].dom \in w.met
    BY DEF WalkInv
  <1>5. \A d \in Report!Sources : Report!Answers(w.dns[d])
    BY <1>1 DEF WalkType
  <1>6. \A d \in Report!Sources :
           /\ DOMAIN Report!TermsOf(w.dns, d) \subseteq Nat
           /\ \A i \in DOMAIN Report!TermsOf(w.dns, d) :
                 Report!TermsOf(w.dns, d)[i] \in Report!SpfTerm
    <2> SUFFICES ASSUME NEW d \in Report!Sources
                 PROVE  /\ DOMAIN Report!TermsOf(w.dns, d) \subseteq Nat
                        /\ \A i \in DOMAIN Report!TermsOf(w.dns, d) :
                              Report!TermsOf(w.dns, d)[i] \in Report!SpfTerm
      OBVIOUS
    <2>1. Report!Answers(w.dns[d])
      BY <1>5
    <2> QED
      BY <2>1, TermsAreTerms
  <1>7. \A x \in Paid(w) : x = <<x[1], x[2]>>
    <2> SUFFICES ASSUME NEW x \in Paid(w)
                 PROVE  x = <<x[1], x[2]>>
      OBVIOUS
    <2>1. PICK d \in w.met : x \in {d} \X {i \in Report!Costs(w.dns, d) : IsPassed(w, d, i)}
      BY DEF Paid
    <2> QED
      BY <2>1
  <1> QED
    BY <1>1, <1>2, <1>3, <1>4, <1>5, <1>6, <1>7 DEF WalkType, WalkInv

LEMMA PassTerm ==
    ASSUME NEW w, WalkInv(w), NEW k \in DOMAIN w.stack,
           NEW d0, NEW i0 \in Nat, NEW cost \in Nat,
           w.stack[k].dom = d0, w.stack[k].next = i0,
           i0 \in DOMAIN Report!TermsOf(w.dns, d0), IsMet(w, Report!TermsOf(w.dns, d0)[i0]),
           cost = IF i0 \in Report!Costs(w.dns, d0) THEN 1 ELSE 0
    PROVE  WalkInv([w EXCEPT !.stack[k].next = @ + 1, !.n = @ + cost])
  <1>1. /\ d0 \in w.met /\ d0 \in Report!Sources /\ i0 + 1 \in Nat \ {0}
        /\ w.stack[k] \in Frame
    <2>1. w.stack[k] \in Frame /\ w.stack[k].dom \in w.met
      BY Walks
    <2> QED
      BY <2>1 DEF Frame
  <1>2. PICK g : g = [w.stack[k] EXCEPT !.next = @ + 1]
    OBVIOUS
  <1>3. PICK w2 : w2 = [w EXCEPT !.stack[k].next = @ + 1, !.n = @ + cost]
    OBVIOUS
  <1>4. g = [dom |-> d0, next |-> i0 + 1, from |-> w.stack[k].from]
    BY <1>1, <1>2 DEF Frame
  <1>5. g \in Frame /\ g.dom = d0 /\ g.next = i0 + 1
    BY <1>1, <1>4 DEF Frame
  <1>7. /\ w2.stack = [w.stack EXCEPT ![k] = g] /\ w2.dns = w.dns /\ w2.met = w.met
        /\ w2.n = w.n + cost /\ DOMAIN w2 = DOMAIN w
    BY <1>2, <1>3, Walks
  <1>8. /\ w2.stack \in Seq(Frame) /\ DOMAIN w2.stack = DOMAIN w.stack
        /\ \A j \in DOMAIN w.stack : w2.stack[j] = IF j = k THEN g ELSE w.stack[j]
    <2>1. w.stack \in Seq(Frame) /\ DOMAIN w.stack = 1 .. Len(w.stack)
      BY Walks
    <2> QED
      BY <1>5, <1>7, <2>1, ExceptSeq
  <1>9. \A j \in DOMAIN w.stack :
           /\ w2.stack[j].dom = w.stack[j].dom
           /\ w2.stack[j].next = IF j = k THEN i0 + 1 ELSE w.stack[j].next
    BY <1>5, <1>8
  <1>10. ASSUME NEW d \in w.met, NEW i \in DOMAIN Report!TermsOf(w.dns, d)
         PROVE  IsPassed(w2, d, i) <=> IsPassed(w, d, i) \/ (d = d0 /\ i = i0)
    <2>1. i \in Nat
      BY <1>10, Walks
    <2>2. CASE d # d0
      <3>1. \A j \in DOMAIN w.stack : w.stack[j].dom = d => j # k
        BY <2>2
      <3> QED
        BY <1>8, <1>9, <2>2, <3>1 DEF IsPassed
    <2>3. CASE d = d0
      <3>1. \A j \in DOMAIN w.stack : w.stack[j].dom = d <=> j = k
        BY <2>3 DEF WalkInv
      <3>2. IsPassed(w, d, i) <=> i < i0
        BY <3>1 DEF IsPassed
      <3>3. IsPassed(w2, d, i) <=> i < i0 + 1
        BY <3>1, <1>8, <1>9 DEF IsPassed
      <3>4. i < i0 + 1 <=> i < i0 \/ i = i0
        BY <1>2, <2>1
      <3> QED
        BY <3>2, <3>3, <3>4, <2>3
    <2> QED
      BY <2>2, <2>3
  <1>11. ~IsPassed(w, d0, i0)
    BY DEF IsPassed
  <1>13. \A x : x \in Paid(w2) <=> x \in Paid(w) \/ (cost = 1 /\ x = <<d0, i0>>)
    <2>1. \A d, i : <<d, i>> \in Paid(w2) <=>
             <<d, i>> \in Paid(w) \/ (cost = 1 /\ d = d0 /\ i = i0)
      <3> TAKE d, i
      <3>1. CASE d \in w.met /\ i \in Report!Costs(w.dns, d)
        <4>1. i \in DOMAIN Report!TermsOf(w.dns, d)
          BY <3>1 DEF Report!Costs
        <4> QED
          BY <1>7, <1>10, <3>1, <4>1, PaidFor
      <3>2. CASE ~(d \in w.met /\ i \in Report!Costs(w.dns, d))
        BY <1>1, <1>7, <3>2, PaidFor DEF Report!Costs
      <3> QED
        BY <3>1, <3>2
    <2>2. \A x \in Paid(w2) : x = <<x[1], x[2]>>
      <3> SUFFICES ASSUME NEW x \in Paid(w2)
                   PROVE  x = <<x[1], x[2]>>
        OBVIOUS
      <3>1. PICK d \in w2.met : x \in {d} \X {i \in Report!Costs(w2.dns, d) : IsPassed(w2, d, i)}
        BY DEF Paid
      <3> QED
        BY <3>1
    <2>3. \A x \in Paid(w) : x = <<x[1], x[2]>>
      BY Walks
    <2> QED
      BY <2>1, <2>2, <2>3
  <1>14. <<d0, i0>> \notin Paid(w)
    BY <1>11, PaidFor
  <1>15. IsFiniteSet(Paid(w)) /\ Cardinality(Paid(w)) = w.n /\ w.n \in Nat
    BY Walks
  <1>16. IsFiniteSet(Paid(w2)) /\ Cardinality(Paid(w2)) = w2.n
    <2>1. CASE cost = 1
      <3>1. Paid(w2) = Paid(w) \union {<<d0, i0>>}
        BY <1>13, <2>1
      <3>2. /\ IsFiniteSet(Paid(w) \union {<<d0, i0>>})
            /\ Cardinality(Paid(w) \union {<<d0, i0>>}) = Cardinality(Paid(w)) + 1
        BY <1>14, <1>15, FS_AddElement
      <3> QED
        BY <1>7, <1>15, <2>1, <3>1, <3>2
    <2>2. CASE cost = 0
      <3>0. cost # 1
        BY <2>2
      <3>1. Paid(w2) = Paid(w)
        BY <1>13, <3>0
      <3> QED
        BY <1>7, <1>15, <2>2, <3>1
    <2> QED
      BY <2>1, <2>2
  <1>17. WalkType(w2)
    <2>1. cost \in Nat
      OBVIOUS
    <2>2. w2.n \in Nat
      BY <1>7, <1>15, <2>1
    <2> QED
      BY <1>7, <1>8, <2>2 DEF WalkInv, WalkType
  <1>18. /\ \A j, h \in DOMAIN w2.stack : w2.stack[j].dom = w2.stack[h].dom => j = h
         /\ \A j \in DOMAIN w2.stack : w2.stack[j].dom \in w2.met
    BY <1>7, <1>8, <1>9 DEF WalkInv
  <1>19. \A d \in w2.met : \A i \in DOMAIN Report!TermsOf(w2.dns, d) :
            IsPassed(w2, d, i) => IsMet(w2, Report!TermsOf(w2.dns, d)[i])
    BY <1>7, <1>10 DEF WalkInv, IsMet
  <1> QED
    BY <1>3, <1>16, <1>17, <1>18, <1>19 DEF WalkInv

(* A target without an SPF record of its own is only met.                  *)
LEMMA MeetTarget ==
    ASSUME NEW w, WalkInv(w), NEW e \in Report!Sources \ w.met, Report!TermsOf(w.dns, e) = <<>>
    PROVE  WalkInv([w EXCEPT !.met = @ \union {e}])
  <1>1. PICK w2 : w2 = [w EXCEPT !.met = @ \union {e}]
    OBVIOUS
  <1>2. /\ w2.stack = w.stack /\ w2.dns = w.dns /\ w2.met = w.met \union {e}
        /\ w2.n = w.n /\ DOMAIN w2 = DOMAIN w
    BY <1>1, Walks
  <1>3. Paid(w2) = Paid(w)
    <2>1. Report!Costs(w.dns, e) = {} /\ DOMAIN Report!TermsOf(w.dns, e) = {}
      BY DEF Report!Costs
    <2> QED
      BY <1>2, <2>1 DEF Paid, IsPassed
  <1>4. WalkType(w2)
    BY <1>2 DEF WalkInv, WalkType
  <1>5. \A d \in w2.met : \A i \in DOMAIN Report!TermsOf(w2.dns, d) :
           IsPassed(w2, d, i) => IsMet(w2, Report!TermsOf(w2.dns, d)[i])
    <2>1. \A d, i : IsPassed(w2, d, i) <=> IsPassed(w, d, i)
      BY <1>2 DEF IsPassed
    <2>2. \A i \in DOMAIN Report!TermsOf(w.dns, e) : FALSE
      OBVIOUS
    <2>3. \A t : IsMet(w, t) => IsMet(w2, t)
      BY <1>2 DEF IsMet
    <2> QED
      BY <1>2, <2>1, <2>2, <2>3 DEF WalkInv
  <1> QED
    BY <1>1, <1>2, <1>3, <1>4, <1>5 DEF WalkInv

(* A lookup that fails leaves nothing of the domain, and of the others all.*)
LEMMA SilentTarget ==
    ASSUME NEW w, WalkInv(w), NEW e \in Report!Sources \ w.met
    PROVE  /\ WalkInv(Report!Unanswered(w, e))
           /\ Report!TermsOf(Report!Unanswered(w, e).dns, e) = <<>>
           /\ \A d \in w.met :
                 Report!TermsOf(Report!Unanswered(w, e).dns, d) = Report!TermsOf(w.dns, d)
  <1>1. PICK w2 : w2 = Report!Unanswered(w, e)
    OBVIOUS
  <1>2. /\ w2.stack = w.stack /\ w2.met = w.met /\ w2.n = w.n /\ DOMAIN w2 = DOMAIN w
        /\ w2.dns = [w.dns EXCEPT ![e] = <<>>]
    BY <1>1, Walks DEF Report!Unanswered
  <1>3. /\ DOMAIN w2.dns = Report!Sources /\ w2.dns[e] = <<>>
        /\ \A d \in Report!Sources \ {e} : w2.dns[d] = w.dns[d]
    BY <1>2, Walks
  <1>4. w.met \subseteq Report!Sources /\ "@" \in w.met /\ e \notin w.met
    BY Walks
  <1>5. \A d \in w.met : Report!TermsOf(w2.dns, d) = Report!TermsOf(w.dns, d)
    BY <1>3, <1>4 DEF Report!TermsOf
  <1>6. Report!TermsOf(w2.dns, e) = <<>>
    <2>1. ~Report!Sole(<<>>, "spf1")
      BY DEF Report!Sole
    <2> QED
      BY <1>3, <2>1 DEF Report!TermsOf
  <1>7. \A d, i : IsPassed(w2, d, i) <=> IsPassed(w, d, i)
    BY <1>2 DEF IsPassed
  <1>8. Paid(w2) = Paid(w)
    <2>1. \A d \in w.met : Report!Costs(w2.dns, d) = Report!Costs(w.dns, d)
      BY <1>5 DEF Report!Costs
    <2>2. \A d \in w.met : {i \in Report!Costs(w2.dns, d) : IsPassed(w2, d, i)}
                             = {i \in Report!Costs(w.dns, d) : IsPassed(w, d, i)}
      BY <1>7, <2>1
    <2> QED
      BY <1>2, <2>2 DEF Paid
  <1>9. WalkType(w2)
    <2>1. Report!Answers(<<>>)
      BY DEF Report!Answers
    <2>2. \A d \in Report!Sources : Report!Answers(w2.dns[d])
      BY <1>3, <2>1, Walks
    <2>3. w2.dns["@"] = w.dns["@"]
      BY <1>3, <1>4
    <2> QED
      BY <1>2, <1>3, <2>2, <2>3 DEF WalkInv, WalkType
  <1>10. \A d \in w2.met : \A i \in DOMAIN Report!TermsOf(w2.dns, d) :
            IsPassed(w2, d, i) => IsMet(w2, Report!TermsOf(w2.dns, d)[i])
    BY <1>2, <1>5, <1>7 DEF WalkInv, IsMet
  <1>11. WalkInv(w2)
    BY <1>2, <1>8, <1>9, <1>10 DEF WalkInv
  <1> QED
    BY <1>1, <1>5, <1>6, <1>11

(* One with a record is gone through next, from its first term on.         *)
LEMMA PushTarget ==
    ASSUME NEW w, WalkInv(w), NEW e \in Report!Sources \ w.met, NEW from \in Nat,
           NEW g, g = [dom |-> e, next |-> 1, from |-> from]
    PROVE  WalkInv([w EXCEPT !.met = @ \union {e}, !.stack = Append(@, g)])
  <1>1. PICK w2 : w2 = [w EXCEPT !.met = @ \union {e}, !.stack = Append(@, g)]
    OBVIOUS
  <1>2. /\ w2.stack = Append(w.stack, g) /\ w2.dns = w.dns /\ w2.met = w.met \union {e}
        /\ w2.n = w.n /\ DOMAIN w2 = DOMAIN w
    BY <1>1, Walks
  <1>3. g \in Frame /\ g.dom = e /\ g.next = 1
    BY DEF Frame
  <1>4. PICK l \in Nat : l = Len(w.stack)
    BY Walks
  <1>5. w.stack \in Seq(Frame) /\ DOMAIN w.stack = 1 .. l
    BY <1>4, Walks
  <1>6. /\ w2.stack \in Seq(Frame) /\ DOMAIN w2.stack = 1 .. l + 1
        /\ \A j \in 1 .. l : w2.stack[j] = w.stack[j]
        /\ w2.stack[l + 1] = g
    <2>1. /\ w2.stack \in Seq(Frame) /\ Len(w2.stack) = l + 1
          /\ \A j \in 1 .. l : w2.stack[j] = w.stack[j]
          /\ w2.stack[l + 1] = g
      BY <1>2, <1>3, <1>4, <1>5, AppendProperties
    <2> QED
      BY <2>1, LenProperties
  <1>7. \A j \in DOMAIN w2.stack : j \in DOMAIN w.stack \/ j = l + 1
    BY <1>5, <1>6
  <1>8. \A j \in DOMAIN w.stack : j \in DOMAIN w2.stack /\ j # l + 1
    BY <1>5, <1>6
  <1>9. \A d \in w.met : \A i : IsPassed(w2, d, i) <=> IsPassed(w, d, i)
    BY <1>3, <1>5, <1>6, <1>7, <1>8 DEF IsPassed
  <1>10. \A i \in DOMAIN Report!TermsOf(w.dns, e) : ~IsPassed(w2, e, i)
    <2> SUFFICES ASSUME NEW i \in DOMAIN Report!TermsOf(w.dns, e), IsPassed(w2, e, i)
                 PROVE  FALSE
      OBVIOUS
    <2>1. l + 1 \in DOMAIN w2.stack /\ w2.stack[l + 1].dom = e /\ w2.stack[l + 1].next = 1
      BY <1>3, <1>6
    <2>2. i < 1
      BY <2>1 DEF IsPassed
    <2>3. Report!Answers(w.dns[e])
      BY Walks
    <2>4. i \in 1 .. Len(Report!TermsOf(w.dns, e)) /\ Len(Report!TermsOf(w.dns, e)) \in Nat
      BY <2>3, TermsAreTerms
    <2> QED
      BY <2>2, <2>4
  <1>11. Paid(w2) = Paid(w)
    <2>1. \A d, i : <<d, i>> \in Paid(w2) <=> <<d, i>> \in Paid(w)
      BY <1>2, <1>9, <1>10, PaidFor DEF Report!Costs
    <2>2. \A x \in Paid(w2) : x = <<x[1], x[2]>>
      <3> SUFFICES ASSUME NEW x \in Paid(w2)
                   PROVE  x = <<x[1], x[2]>>
        OBVIOUS
      <3>1. PICK d \in w2.met : x \in {d} \X {i \in Report!Costs(w2.dns, d) : IsPassed(w2, d, i)}
        BY DEF Paid
      <3> QED
        BY <3>1
    <2>3. \A x \in Paid(w) : x = <<x[1], x[2]>>
      BY Walks
    <2> QED
      BY <2>1, <2>2, <2>3
  <1>12. WalkType(w2)
    BY <1>2, <1>6 DEF WalkInv, WalkType
  <1>13. \A j \in DOMAIN w.stack : w.stack[j].dom \in w.met /\ w.stack[j].dom # e
    BY Walks
  <1>14. /\ \A j, h \in DOMAIN w2.stack : w2.stack[j].dom = w2.stack[h].dom => j = h
         /\ \A j \in DOMAIN w2.stack : w2.stack[j].dom \in w2.met
    BY <1>2, <1>3, <1>5, <1>6, <1>7, <1>13 DEF WalkInv
  <1>15. \A d \in w2.met : \A i \in DOMAIN Report!TermsOf(w2.dns, d) :
            IsPassed(w2, d, i) => IsMet(w2, Report!TermsOf(w2.dns, d)[i])
    BY <1>2, <1>9, <1>10 DEF WalkInv, IsMet
  <1> QED
    BY <1>1, <1>2, <1>11, <1>12, <1>14, <1>15, Walks DEF WalkInv

(* A record that was gone through to its end leaves nothing unpassed.      *)
LEMMA PopRecord ==
    ASSUME NEW w, WalkInv(w), NEW l \in Nat, l = Len(w.stack), l # 0,
           NEW d0, NEW i0 \in Nat, w.stack[l].dom = d0, w.stack[l].next = i0,
           i0 \notin DOMAIN Report!TermsOf(w.dns, d0)
    PROVE  /\ WalkInv([w EXCEPT !.stack = SubSeq(@, 1, Len(@) - 1)])
           /\ \A i \in DOMAIN Report!TermsOf(w.dns, d0) : i < i0
  <1>1. PICK w2 : w2 = [w EXCEPT !.stack = SubSeq(@, 1, Len(@) - 1)]
    OBVIOUS
  <1>2. /\ w2.stack = SubSeq(w.stack, 1, l - 1) /\ w2.dns = w.dns /\ w2.met = w.met
        /\ w2.n = w.n /\ DOMAIN w2 = DOMAIN w
    BY <1>1, Walks
  <1>3. /\ w.stack \in Seq(Frame) /\ DOMAIN w.stack = 1 .. l
        /\ \A j \in 1 .. l : w.stack[j] \in Frame
    BY Walks
  <1>4. /\ w2.stack \in Seq(Frame) /\ DOMAIN w2.stack = 1 .. l - 1
        /\ \A j \in 1 .. l - 1 : w2.stack[j] = w.stack[j]
    <2>1. /\ w2.stack \in Seq(Frame) /\ Len(w2.stack) = l - 1
          /\ \A j \in 1 .. l - 1 : w2.stack[j] = w.stack[j]
      BY <1>2, <1>3, SubSeqProperties
    <2> QED
      BY <2>1, LenProperties
  <1>5. /\ l \in DOMAIN w.stack
        /\ \A j \in DOMAIN w.stack : j = l \/ j \in DOMAIN w2.stack
        /\ \A j \in DOMAIN w2.stack : j \in DOMAIN w.stack
    BY <1>3, <1>4
  <1>6. d0 \in Report!Sources /\ i0 # 0
    BY <1>3, <1>5 DEF Frame
  <1>7. ASSUME NEW i \in DOMAIN Report!TermsOf(w.dns, d0)
        PROVE  i < i0
    <2>1. Report!Answers(w.dns[d0])
      BY <1>6, Walks
    <2>2. PICK m \in Nat : DOMAIN Report!TermsOf(w.dns, d0) = 1 .. m
      BY <2>1, TermsAreTerms
    <2> QED
      BY <1>6, <1>7, <2>2
  <1>8. ASSUME NEW d \in w.met, NEW i \in DOMAIN Report!TermsOf(w.dns, d)
        PROVE  IsPassed(w2, d, i) <=> IsPassed(w, d, i)
    <2>1. IsPassed(w, d, i) => IsPassed(w2, d, i)
      BY <1>4, <1>5 DEF IsPassed
    <2>2. ASSUME IsPassed(w2, d, i), NEW j \in DOMAIN w.stack, w.stack[j].dom = d
          PROVE  i < w.stack[j].next
      <3>1. CASE j = l
        BY <1>7, <2>2, <3>1
      <3>2. CASE j # l
        BY <1>4, <1>5, <2>2, <3>2 DEF IsPassed
      <3> QED
        BY <3>1, <3>2
    <2> QED
      BY <2>1, <2>2 DEF IsPassed
  <1>9. Paid(w2) = Paid(w)
    <2>1. \A d \in w.met : {i \in Report!Costs(w2.dns, d) : IsPassed(w2, d, i)}
                             = {i \in Report!Costs(w.dns, d) : IsPassed(w, d, i)}
      BY <1>2, <1>8 DEF Report!Costs
    <2> QED
      BY <1>2, <2>1 DEF Paid
  <1>10. WalkType(w2)
    BY <1>2, <1>4 DEF WalkInv, WalkType
  <1>11. /\ \A j, h \in DOMAIN w2.stack : w2.stack[j].dom = w2.stack[h].dom => j = h
         /\ \A j \in DOMAIN w2.stack : w2.stack[j].dom \in w2.met
    BY <1>2, <1>4, <1>5 DEF WalkInv
  <1>12. \A d \in w2.met : \A i \in DOMAIN Report!TermsOf(w2.dns, d) :
            IsPassed(w2, d, i) => IsMet(w2, Report!TermsOf(w2.dns, d)[i])
    BY <1>2, <1>8 DEF WalkInv, IsMet
  <1> QED
    BY <1>1, <1>2, <1>7, <1>9, <1>10, <1>11, <1>12, Walks DEF WalkInv

(* When the first record is through, all that is reached was met, and its  *)
(* queries are among those counted.                                        *)
LEMMA AllCounted ==
    ASSUME NEW w, WalkInv(w), Len(w.stack) = 1,
           NEW i0 \in Nat, w.stack[1].next = i0,
           i0 \notin DOMAIN Report!TermsOf(w.dns, w.stack[1].dom), w.n <= SpfLimit
    PROVE  Cardinality(Report!Queries(w.dns)) <= SpfLimit
  <1>1. \A i \in DOMAIN Report!TermsOf(w.dns, w.stack[1].dom) : i < i0
    <2>0. PICK l \in Nat : l = 1
      OBVIOUS
    <2>1. PICK d0 : d0 = w.stack[1].dom
      OBVIOUS
    <2>2. /\ l = Len(w.stack) /\ l # 0 /\ w.stack[l].dom = d0 /\ w.stack[l].next = i0
          /\ i0 \notin DOMAIN Report!TermsOf(w.dns, d0)
      BY <2>0, <2>1
    <2>3. \A i \in DOMAIN Report!TermsOf(w.dns, d0) : i < i0
      BY <2>2, PopRecord
    <2> QED
      BY <2>1, <2>3
  <1>2. DOMAIN w.stack = {1}
    BY Walks
  <1>3. \A d \in w.met : \A i \in DOMAIN Report!TermsOf(w.dns, d) : IsPassed(w, d, i)
    BY <1>1, <1>2 DEF IsPassed
  <1>4. ASSUME NEW d \in w.met, NEW e \in Report!Follows(w.dns, d)
        PROVE  e \in w.met
    <2>1. PICK i \in DOMAIN Report!TermsOf(w.dns, d) :
             /\ Report!TermsOf(w.dns, d)[i].mech \in Report!Following
             /\ e = Report!TermsOf(w.dns, d)[i].arg /\ e # ""
      BY <1>4 DEF Report!Follows
    <2>2. IsMet(w, Report!TermsOf(w.dns, d)[i])
      BY <1>3, <2>1 DEF WalkInv
    <2> QED
      BY <2>1, <2>2 DEF IsMet
  <1>5. Report!Reached(w.dns) \subseteq w.met
    <2>1. w.met \in SUBSET Report!Sources /\ "@" \in w.met
      BY Walks
    <2>2. \A e \in w.met : Report!Follows(w.dns, e) \subseteq w.met
      BY <1>4
    <2> QED
      BY <2>1, <2>2 DEF Report!Reached
  <1>6. Report!Queries(w.dns) \subseteq Paid(w)
    <2>1. ASSUME NEW d \in Report!Reached(w.dns)
          PROVE  {d} \X Report!Costs(w.dns, d)
                   \subseteq {d} \X {i \in Report!Costs(w.dns, d) : IsPassed(w, d, i)}
      BY <1>3, <1>5, <2>1 DEF Report!Costs
    <2> QED
      BY <1>5, <2>1 DEF Report!Queries, Paid
  <1>7. IsFiniteSet(Paid(w)) /\ Cardinality(Paid(w)) = w.n /\ w.n \in Nat
    BY Walks
  <1>8. IsFiniteSet(Report!Queries(w.dns)) /\ Cardinality(Report!Queries(w.dns)) <= w.n
    BY <1>6, <1>7, FS_Subset
  <1>9. Cardinality(Report!Queries(w.dns)) \in Nat
    BY <1>8, FS_CardinalityType
  <1>10. SpfLimit \in Nat
    BY ReportAssumption DEF Report!DiagnosticsAssumption
  <1> QED
    BY <1>7, <1>8, <1>9, <1>10

(* The count the report takes is the count of the library.                 *)
LEMMA ReportCardinality ==
    ASSUME NEW S
    PROVE  Report!Cardinality(S) = Cardinality(S)
  BY DEF Report!Cardinality, Cardinality

(* A record that passes ends in a strict all.                              *)
LEMMA StrictSPF ==
    ASSUME NEW dns, Report!Answers(dns["@"]), Report!EvalSPF(dns["@"]) \notin {"fail", "warn"},
           Cardinality(Report!Queries(dns)) <= SpfLimit
    PROVE  Report!SoundSPF(dns)
  <1>1. PICK records : records = dns["@"]
    OBVIOUS
  <1>2. Report!Sole(records, "spf1")
    BY <1>1 DEF Report!EvalSPF
  <1>3. PICK k \in DOMAIN records :
           /\ k \in Nat /\ Report!Tagged(records, "spf1") = {k}
           /\ Report!FirstOf(records, "spf1") = records[k]
    BY <1>1, <1>2, FirstOfSole
  <1>4. PICK terms : terms = records[k].terms
    OBVIOUS
  <1>5. Report!SpfAllQualifier(terms) \notin {"none", "?", "+"}
    BY <1>1, <1>2, <1>3, <1>4 DEF Report!EvalSPF
  <1>6. PICK alls : alls = {i \in DOMAIN terms : terms[i].mech = "all"}
    OBVIOUS
  <1>7. alls # {} /\ Report!SpfAllQualifier(terms) = terms[Report!First(alls)].q
    BY <1>5, <1>6 DEF Report!SpfAllQualifier
  <1>8. terms \in Seq(Report!SpfTerm)
    BY <1>1, <1>3, <1>4 DEF Report!Answers
  <1>9. /\ DOMAIN terms \subseteq Nat /\ \A i \in DOMAIN terms : terms[i] \in Report!SpfTerm
        /\ \A i \in DOMAIN terms : \A j \in 1 .. i - 1 : j \in DOMAIN terms
    <2>1. PICK m \in Nat : m = Len(terms) /\ DOMAIN terms = 1 .. m
      BY <1>8, LenProperties
    <2> QED
      BY <1>8, <2>1, ElementOfSeq
  <1>10. PICK i : i = Report!First(alls)
    OBVIOUS
  <1>11. i \in alls /\ \A j \in alls : i <= j
    BY <1>6, <1>7, <1>9, <1>10, FirstIsLeast
  <1>12. terms[i].mech = "all" /\ terms[i].q \in {"-", "~"}
    <2>1. terms[i].q \in {"+", "-", "~", "?"}
      BY <1>6, <1>9, <1>11 DEF Report!SpfTerm
    <2> QED
      BY <1>5, <1>6, <1>7, <1>10, <1>11, <2>1
  <1>13. ASSUME NEW j \in 1 .. i - 1
         PROVE  terms[j].mech # "all"
    <2>1. i \in Nat /\ j \in DOMAIN terms
      BY <1>6, <1>9, <1>11
    <2>2. ~(i <= j)
      BY <2>1
    <2> QED
      BY <1>6, <1>11, <2>1, <2>2
  <1>14. /\ records[k].v = "spf1"
         /\ \A j \in DOMAIN records : records[j].v = "spf1" => j = k
    BY <1>3 DEF Report!Tagged
  <1> QED
    BY <1>1, <1>3, <1>4, <1>6, <1>11, <1>12, <1>13, <1>14, ReportCardinality
    DEF Report!SoundSPF

LEMMA PassedSPF ==
    ASSUME NEW w, WalkInv(w), Len(w.stack) = 1,
           NEW i0 \in Nat, w.stack[1].next = i0,
           i0 \notin DOMAIN Report!TermsOf(w.dns, w.stack[1].dom),
           Report!EvalSPF(w.dns["@"]) \notin {"fail", "warn"},
           Report!SpfLookupFinding(w.n, FALSE) \notin {"fail", "warn"}
    PROVE  Report!SoundSPF(w.dns)
  <1>1. PICK n \in Nat : n = w.n
    BY Walks
  <1>2. SpfLimit \in Nat
    BY ReportAssumption DEF Report!DiagnosticsAssumption
  <1>3. n <= SpfLimit
    BY <1>1, <1>2 DEF Report!SpfLookupFinding
  <1>4. Cardinality(Report!Queries(w.dns)) <= SpfLimit
    BY <1>1, <1>3, AllCounted
  <1>5. Report!Answers(w.dns["@"])
    BY Walks DEF Report!Sources
  <1> QED
    BY <1>4, <1>5, StrictSPF

(* A check that comes to its verdicts, as far as the invariant minds.      *)
Spotless == statuses \intersect {"fail", "warn"} = {}
Judges(check) ==
    /\ Report!At(check) /\ stage' = stage + 1
    /\ UNCHANGED <<report, seenLive, counted>>
    /\ statuses \subseteq statuses'
    /\ Report!Auditing /\ Spotless' /\ ~flaw
          => ~flaw' /\ sound' = sound \union ({check} \intersect Demanded')
    /\ report \in {"doctor", "config check"} /\ "fail" \notin statuses' /\ ~flaw => ~flaw'

LEMMA JudgedJudges ==
    ASSUME NEW check, NEW verdicts, NEW answered \in BOOLEAN, NEW ok \in BOOLEAN,
           Report!Judged(check, verdicts, answered, ok),
           check \in Report!Required, answered <=> check \in Demanded',
           Report!Auditing /\ verdicts \intersect {"fail", "warn"} = {} => ok,
           report \in {"doctor", "config check"} /\ "fail" \notin verdicts => ok
    PROVE  Judges(check)
  <1>1. /\ Report!At(check) /\ stage' = stage + 1 /\ statuses' = statuses \union verdicts
        /\ UNCHANGED <<report, seenLive, counted>> /\ (flaw' <=> flaw \/ ~ok)
        /\ sound' = IF answered /\ ok THEN sound \union ({check} \intersect Report!Required)
                    ELSE sound
    BY DEF Report!Judged
  <1>2. ASSUME Report!Auditing, Spotless', ~flaw
        PROVE  ~flaw' /\ sound' = sound \union ({check} \intersect Demanded')
    <2>1. ok
      BY <1>1, <1>2 DEF Spotless
    <2> QED
      BY <1>1, <1>2, <2>1
  <1>3. ASSUME report \in {"doctor", "config check"}, "fail" \notin statuses', ~flaw
        PROVE  ~flaw'
    BY <1>1, <1>3
  <1> QED
    BY <1>1, <1>2, <1>3 DEF Judges

LEMMA FoundJudges ==
    ASSUME NEW check, NEW verdicts, NEW answered, NEW ok,
           Report!Found(check, verdicts, answered, ok), check # "SPF" \/ walk'.mute = {},
           Report!Auditing /\ verdicts \intersect {"fail", "warn"} = {}
              => (answered => ok) /\ (check \in Report!Required => answered /\ ok),
           report \in {"doctor", "config check"} /\ "fail" \notin verdicts
              => (answered => ok)
    PROVE  Judges(check)
  <1>1. /\ Report!At(check) /\ stage' = stage + 1 /\ statuses' = statuses \union verdicts
        /\ UNCHANGED <<report, seenLive, counted>>
    BY DEF Report!Found, Report!Judged
  <1>2. ASSUME Report!Auditing, Spotless', ~flaw
        PROVE  ~flaw' /\ sound' = sound \union ({check} \intersect Demanded')
    <2>1. (answered => ok) /\ (check \in Report!Required => answered /\ ok)
      BY <1>1, <1>2 DEF Spotless
    <2>2. ~flaw'
      BY <1>2, <2>1 DEF Report!Found, Report!Judged
    <2>3. sound' = sound \union ({check} \intersect Report!Required)
      BY <2>1 DEF Report!Found, Report!Judged
    <2>4. {check} \intersect Demanded' = {check} \intersect Report!Required
      BY DEF Demanded, Report!Required
    <2> QED
      BY <2>2, <2>3, <2>4
  <1>3. ASSUME report \in {"doctor", "config check"}, "fail" \notin statuses', ~flaw
        PROVE  ~flaw'
    BY <1>1, <1>3 DEF Report!Found, Report!Judged
  <1> QED
    BY <1>1, <1>2, <1>3 DEF Judges

LEMMA AuditInOrder ==
    ASSUME Report!Auditing, stage \in Nat, NEW check, Report!At(check),
           stage' = stage + 1, report' = report
    PROVE  DoneChecks' = DoneChecks \union {check}
  <1>1. Report!Checks = Report!Audit /\ Report!Checks' = Report!Checks
    BY DEF Report!Auditing, Report!Checks
  <1>2. Report!Audit[stage + 1] = check
    BY <1>1 DEF Report!At
  <1> QED
    BY <1>1, <1>2 DEF DoneChecks

(* SPF is the first check: until it is through, nothing is.                *)
LEMMA SPFIsFirst ==
    ASSUME Report!Auditing, stage \in Nat, Report!At("SPF")
    PROVE  stage = 0 /\ DoneChecks = {}
  <1>1. /\ Report!Audit[stage + 1] = "SPF"
        /\ stage \in {0, 1, 2, 3, 4, 5, 6, 7, 8}
    <2>1. Report!Checks = Report!Audit
      BY DEF Report!Auditing, Report!Checks
    <2>2. Len(Report!Audit) = 9
      BY DEF Report!Audit
    <2> QED
      BY <2>1, <2>2 DEF Report!At
  <1>2. /\ Report!Audit[2] # "SPF" /\ Report!Audit[3] # "SPF" /\ Report!Audit[4] # "SPF"
        /\ Report!Audit[5] # "SPF" /\ Report!Audit[6] # "SPF" /\ Report!Audit[7] # "SPF"
        /\ Report!Audit[8] # "SPF" /\ Report!Audit[9] # "SPF"
    BY DEF Report!Audit
  <1>4. stage = 0
    BY <1>1, <1>2
  <1>3. 1 .. 0 = {}
    OBVIOUS
  <1> QED
    BY <1>3, <1>4 DEF DoneChecks

LEMMA JudgedKeeps ==
    ASSUME ReportInv, NEW check, Judges(check), report # "none",
           (walk' = walk /\ check # "SPF") \/ (walk'.stack = <<>> /\ check = "SPF")
    PROVE  ReportInv'
  <1>1. ~Report!Walking'
    BY DEF ReportInv, Judges, Report!At, Report!Walking
  <1>2. /\ stage \in Nat /\ stage' \in Nat /\ report' = report
        /\ Report!At(check) /\ stage' = stage + 1
    <2>1. stage \in Nat
      BY DEF ReportInv
    <2>2. report' = report /\ Report!At(check) /\ stage' = stage + 1
      BY DEF Judges
    <2> QED
      BY <2>1, <2>2
  <1>3. ASSUME Report!Auditing, Spotless'
        PROVE  ~flaw' /\ sound' = Demanded' \intersect DoneChecks'
    <2>1. Spotless
      BY <1>3 DEF Spotless, Judges
    <2>2. ~flaw /\ sound = Demanded \intersect DoneChecks
      BY <1>3, <2>1 DEF ReportInv, Spotless
    <2>3. DoneChecks' = DoneChecks \union {check}
      BY <1>2, <1>3, AuditInOrder
    <2>4. ~flaw' /\ sound' = sound \union ({check} \intersect Demanded')
      BY <1>3, <2>2 DEF Judges
    <2>5. Demanded' \intersect DoneChecks = Demanded \intersect DoneChecks
      <3>1. CASE walk' = walk
        BY <3>1 DEF Demanded
      <3>2. CASE check = "SPF"
        BY <1>2, <1>3, <3>2, SPFIsFirst
      <3> QED
        BY <3>1, <3>2
    <2> QED
      BY <2>2, <2>3, <2>4, <2>5
  <1>4. ASSUME report \in {"doctor", "config check"}, "fail" \notin statuses'
        PROVE  ~flaw'
    <2>1. "fail" \notin statuses
      BY <1>4 DEF Judges
    <2>2. ~flaw
      BY <1>4, <2>1 DEF ReportInv
    <2> QED
      BY <1>4, <2>2 DEF Judges
  <1>5. Report!Auditing' <=> Report!Auditing
    BY <1>2 DEF Report!Auditing
  <1>6. \A d \in counted' : \E v \in seenLive' : Report!SameContent(v, d)
    BY DEF ReportInv, Judges
  <1> QED
    BY <1>1, <1>2, <1>3, <1>4, <1>5, <1>6 DEF ReportInv, Spotless

-----------------------------------------------------------------------------
(* The SPF check.                                                          *)
LEMMA AnswersAreAnswers ==
    ASSUME NEW q \in DOMAIN Txt, NEW a \in Report!Answered(q)
    PROVE  Report!Answers(a[1]) /\ (a[2] \/ a[1] = <<>>)
  <1>1. CASE a = <<<<>>, FALSE>>
    BY <1>1 DEF Report!Answers
  <1>2. ASSUME NEW r \in Txt[q], a = <<r, TRUE>>
        PROVE  Report!Answers(a[1]) /\ (a[2] \/ a[1] = <<>>)
    BY <1>2, ReportAssumption DEF Report!DiagnosticsAssumption
  <1> QED
    BY <1>1, <1>2 DEF Report!Answered

LEMMA StartKeeps == ReportInv /\ Report!Start => ReportInv'
  <1> SUFFICES ASSUME ReportInv, Report!Start
               PROVE  ReportInv'
    OBVIOUS
  <1>1. /\ report = "none" /\ stage = 0 /\ ~flaw /\ sound = {} /\ statuses = {}
        /\ ~Report!Walking
    BY DEF ReportInv, Report!Start, Report!Auditing
  <1>2. DoneChecks' = {}
    <2>1. stage' = 0
      BY <1>1 DEF Report!Start
    <2>2. 1 .. 0 = {}
      OBVIOUS
    <2> QED
      BY <2>1, <2>2 DEF DoneChecks
  <1> QED
    BY <1>1, <1>2 DEF ReportInv, Report!Start, Report!Walking

LEMMA AuditSPFKeeps ==
    ASSUME ReportInv, Report!Auditing, Report!AuditSPF
    PROVE  ReportInv'
  <1>1. PICK a \in Report!Answered("@"), zone \in SpfZones :
           \/ /\ Report!Sole(a[1], "spf1")
              /\ walk' = [dns |-> [d \in Report!Sources |-> IF d = "@" THEN a[1] ELSE zone[d]],
                          stack |-> <<[dom |-> "@", next |-> 1, from |-> 0]>>,
                          met |-> {"@"}, mute |-> {}, n |-> 0]
              /\ UNCHANGED Report!reported
           \/ /\ ~Report!Sole(a[1], "spf1")
              /\ Report!Found("SPF", {Report!EvalSPF(a[1])}, a[2],
                    Report!SoundSPF([d \in Report!Sources |->
                                        IF d = "@" THEN a[1] ELSE zone[d]]))
              /\ UNCHANGED <<policy, walk>>
    BY DEF Report!AuditSPF
  <1>2. "@" \in DOMAIN Txt
    BY ReportAssumption DEF Report!DiagnosticsAssumption
  <1>3. Report!Answers(a[1])
    BY <1>2, AnswersAreAnswers
  <1>4. PICK dns : dns = [d \in Report!Sources |-> IF d = "@" THEN a[1] ELSE zone[d]]
    OBVIOUS
  <1>5. dns["@"] = a[1] /\ \A d \in Report!Sources : Report!Answers(dns[d])
    BY <1>3, <1>4, ReportAssumption DEF Report!Sources, Report!DiagnosticsAssumption
  <1>6. CASE Report!Sole(a[1], "spf1")
    <2>1. PICK f : f = [dom |-> "@", next |-> 1, from |-> 0]
      OBVIOUS
    <2>2. f \in Frame /\ f.dom = "@" /\ f.next = 1
      BY <2>1 DEF Frame, Report!Sources
    <2>3. PICK w : w = [dns |-> dns, stack |-> <<f>>, met |-> {"@"}, mute |-> {}, n |-> 0]
      OBVIOUS
    <2>4. /\ w.dns = dns /\ w.stack = <<f>> /\ w.met = {"@"} /\ w.n = 0
          /\ DOMAIN w = {"dns", "stack", "met", "mute", "n"} /\ DOMAIN w.dns = Report!Sources
          /\ DOMAIN w.stack = {1} /\ w.stack[1] = f /\ w.stack \in Seq(Frame)
      BY <1>4, <2>2, <2>3
    <2>5. WalkType(w)
      BY <1>5, <1>6, <2>4 DEF WalkType, Report!Sources
    <2>6. \A i \in DOMAIN Report!TermsOf(dns, "@") : ~IsPassed(w, "@", i)
      <3>1. PICK m \in Nat : DOMAIN Report!TermsOf(dns, "@") = 1 .. m
        BY <1>3, <1>5, TermsAreTerms
      <3> SUFFICES ASSUME NEW i \in 1 .. m, IsPassed(w, "@", i)
                   PROVE  FALSE
        BY <3>1
      <3>2. i < 1
        BY <2>2, <2>4 DEF IsPassed
      <3> QED
        BY <3>2
    <2>7. Paid(w) = {}
      BY <2>4, <2>6 DEF Paid, Report!Costs
    <2>8. IsFiniteSet(Paid(w)) /\ Cardinality(Paid(w)) = w.n
      BY <2>4, <2>7, FS_EmptySet
    <2>9. WalkInv(w)
      BY <2>2, <2>4, <2>5, <2>6, <2>8 DEF WalkInv
    <2>10. walk' = w /\ UNCHANGED Report!reported
      BY <1>1, <1>4, <1>6, <2>1, <2>3
    <2>11. Report!At("SPF") /\ Report!At("SPF")'
      BY <2>10 DEF Report!AuditSPF, Report!At, Report!Checks, Report!Auditing, Report!reported
    <2>12. Report!Auditing' /\ (Spotless' <=> Spotless) /\ DoneChecks' = DoneChecks
      BY <2>10 DEF Report!Auditing, Spotless, Report!reported, DoneChecks, Report!Checks
    <2>13. DoneChecks = {}
      BY <2>11, SPFIsFirst DEF ReportInv
    <2> QED
      BY <2>9, <2>10, <2>11, <2>12, <2>13 DEF ReportInv, Report!reported, Spotless
  <1>7. CASE ~Report!Sole(a[1], "spf1")
    <2>1. PICK ok : ok = Report!SoundSPF(dns)
      OBVIOUS
    <2>2. Report!Found("SPF", {Report!EvalSPF(a[1])}, a[2], ok)
      BY <1>1, <1>4, <1>7, <2>1
    <2>3. Report!EvalSPF(a[1]) = "fail"
      BY <1>7 DEF Report!EvalSPF
    <2>4. walk'.stack = <<>> /\ walk'.mute = {}
      BY <1>1, <1>7 DEF Report!AuditSPF, Report!NoWalk
    <2>5. Judges("SPF")
      BY <2>2, <2>3, <2>4, FoundJudges DEF Report!Auditing
    <2> QED
      BY <2>4, <2>5, JudgedKeeps DEF Report!Auditing
  <1> QED
    BY <1>6, <1>7

LEMMA SpfDoneKeeps ==
    ASSUME ReportInv, Report!Auditing, NEW capped \in BOOLEAN, NEW w, Report!SpfDone(w, capped),
           ~capped => \/ ~(Report!EvalSPF(w.dns["@"]) \notin {"fail", "warn"})
                      \/ ~(Report!SpfLookupFinding(w.n, FALSE) \notin {"fail", "warn"})
                      \/ Report!SoundSPF(w.dns)
    PROVE  ReportInv'
  <1>1. PICK e, f, ok : /\ e = Report!EvalSPF(w.dns["@"])
                        /\ f = Report!SpfLookupFinding(w.n, capped)
                        /\ ok = Report!SoundSPF(w.dns)
    OBVIOUS
  <1>2. PICK answered \in BOOLEAN : answered <=> w.mute = {}
    OBVIOUS
  <1>3. ok \in BOOLEAN
    BY <1>1 DEF Report!SoundSPF
  <1>4. Report!Judged("SPF", {e, f}, answered, ok) /\ walk'.stack = <<>> /\ walk'.mute = w.mute
    BY <1>1, <1>2 DEF Report!SpfDone, Report!NoWalk
  <1>5. capped => f = "fail"
    BY <1>1 DEF Report!SpfLookupFinding
  <1>6. {e, f} \intersect {"fail", "warn"} = {} => ok
    BY <1>1, <1>5
  <1>7. answered <=> "SPF" \in Demanded'
    BY <1>2, <1>4 DEF Demanded, Report!Required
  <1>8. "SPF" \in Report!Required /\ report \notin {"doctor", "config check"}
    BY DEF Report!Required, Report!Auditing
  <1>9. Judges("SPF")
    BY <1>3, <1>4, <1>6, <1>7, <1>8, JudgedJudges
  <1> QED
    BY <1>4, <1>9, JudgedKeeps DEF Report!Auditing

(* A step of the walk that goes on, or ends it over the limit.             *)
LEMMA WalkKeeps ==
    ASSUME ReportInv, Report!Walking, NEW w, WalkInv(w), walk' = w,
           UNCHANGED Report!reported
    PROVE  ReportInv'
  <1>1. /\ Report!Auditing' /\ (Spotless' <=> Spotless) /\ DoneChecks' = DoneChecks
        /\ Report!At("SPF")' <=> Report!At("SPF")
    BY DEF ReportInv, Report!Auditing, Spotless, Report!reported, DoneChecks, Report!Checks,
       Report!At
  <1>2. DoneChecks = {} /\ Report!At("SPF")
    BY SPFIsFirst DEF ReportInv
  <1> QED
    BY <1>1, <1>2 DEF ReportInv, Report!reported, Spotless

LEMMA GoOnKeeps ==
    ASSUME ReportInv, Report!Walking, NEW w, WalkInv(w), Report!GoOn(w)
    PROVE  ReportInv'
  <1>1. CASE walk' = w /\ UNCHANGED Report!reported
    BY <1>1, WalkKeeps
  <1>2. CASE Report!SpfDone(w, TRUE)
    BY <1>2, SpfDoneKeeps DEF ReportInv
  <1> QED
    BY <1>1, <1>2 DEF Report!GoOn

(* Where the walk is.                                                      *)
LEMMA WalkAt ==
    ASSUME ReportInv, Report!Walking, NEW w, w = walk
    PROVE  /\ WalkInv(w) /\ Report!Auditing
           /\ Len(w.stack) \in DOMAIN w.stack /\ Len(w.stack) \in Nat \ {0}
           /\ Report!Top(w) = w.stack[Len(w.stack)]
           /\ Report!Top(w).dom \in w.met
           /\ Report!Top(w).next \in Nat /\ Report!Top(w).from \in Nat
  <1>2. WalkInv(w) /\ Report!Auditing
    BY DEF ReportInv
  <1>3. w.stack # <<>>
    BY DEF Report!Walking
  <1>4. PICK l \in Nat : l = Len(w.stack) /\ DOMAIN w.stack = 1 .. l
    BY <1>2, Walks
  <1>5. l # 0
    BY <1>2, <1>3, <1>4, Walks, EmptySeq
  <1>6. l \in DOMAIN w.stack
    BY <1>4, <1>5
  <1>7. w.stack[l] \in Frame /\ w.stack[l].dom \in w.met
    BY <1>2, <1>6, Walks
  <1> QED
    BY <1>2, <1>4, <1>5, <1>6, <1>7 DEF Report!Top, Frame

LEMMA TermAt ==
    ASSUME ReportInv, Report!AtTerm, NEW w, w = walk,
           NEW d0, d0 = Report!Top(w).dom, NEW i0, i0 = Report!Top(w).next
    PROVE  /\ i0 \in DOMAIN Report!TermsOf(w.dns, d0) /\ i0 \in Nat
           /\ Report!Term = Report!TermsOf(w.dns, d0)[i0] /\ Report!Term \in Report!SpfTerm
           /\ d0 \in w.met /\ d0 \in Report!Sources
  <1>1. i0 \in DOMAIN Report!TermsOf(w.dns, d0) /\ Report!Term = Report!TermsOf(w.dns, d0)[i0]
    BY DEF Report!AtTerm, Report!Terms, Report!Term
  <1>2. d0 \in w.met /\ i0 \in Nat /\ WalkInv(w)
    BY WalkAt DEF Report!AtTerm
  <1>3. d0 \in Report!Sources
    BY <1>2, Walks
  <1>4. Report!Term \in Report!SpfTerm
    BY <1>1, <1>2, <1>3, Walks
  <1> QED
    BY <1>1, <1>2, <1>3, <1>4

(* The term the walk is at, passed in any walk that stands at it.          *)
LEMMA TermPassed ==
    ASSUME ReportInv, Report!AtTerm, NEW w, WalkInv(w),
           Report!TermsOf(w.dns, Report!Top(walk).dom) = Report!Terms,
           NEW k \in DOMAIN w.stack, w.stack[k] = Report!Top(walk), IsMet(w, Report!Term),
           NEW cost \in Nat,
           cost = IF Report!Term.mech \in Report!Querying \union Report!Following THEN 1 ELSE 0
    PROVE  WalkInv([w EXCEPT !.stack[k].next = @ + 1, !.n = @ + cost])
  <1>1. PICK d0, i0 : d0 = Report!Top(walk).dom /\ i0 = Report!Top(walk).next
    OBVIOUS
  <1>2. /\ i0 \in DOMAIN Report!TermsOf(w.dns, d0) /\ i0 \in Nat
        /\ Report!Term = Report!TermsOf(w.dns, d0)[i0]
    BY <1>1, TermAt DEF Report!Terms
  <1>3. w.stack[k].dom = d0 /\ w.stack[k].next = i0
    BY <1>1
  <1>4. Report!Term.mech \in Report!Querying \union Report!Following
           <=> i0 \in Report!Costs(w.dns, d0)
    BY <1>2 DEF Report!Costs
  <1>5. cost = IF i0 \in Report!Costs(w.dns, d0) THEN 1 ELSE 0
    BY <1>4
  <1> QED
    BY <1>2, <1>3, <1>5, PassTerm

LEMMA CountTermKeeps ==
    ASSUME ReportInv, Report!CountTerm
    PROVE  ReportInv'
  <1>1. Report!AtTerm /\ Report!Walking
    BY DEF Report!CountTerm, Report!AtTerm
  <1>2. PICK w : w = walk
    OBVIOUS
  <1>3. /\ WalkInv(w)
        /\ Len(w.stack) \in DOMAIN w.stack /\ Report!Top(w) = w.stack[Len(w.stack)]
    BY <1>1, <1>2, WalkAt
  <1>4. PICK cost \in Nat :
           /\ cost = IF Report!Term.mech \in Report!Querying \union Report!Following
                     THEN 1 ELSE 0
           /\ Report!Term.mech \notin Report!Following
           /\ Report!GoOn(Report!PastTerm(cost))
    BY DEF Report!CountTerm, Report!Querying, Report!Following
  <1>5. IsMet(w, Report!Term)
    BY <1>4 DEF IsMet
  <1>6. PICK w2 : w2 = Report!PastTerm(cost)
    OBVIOUS
  <1>7. WalkInv(w2)
    BY <1>1, <1>2, <1>3, <1>4, <1>5, <1>6, TermPassed DEF Report!PastTerm, Report!Terms
  <1> QED
    BY <1>1, <1>4, <1>6, <1>7, GoOnKeeps

LEMMA PassByTargetKeeps ==
    ASSUME ReportInv, Report!PassByTarget
    PROVE  ReportInv'
  <1>1. /\ Report!AtTerm /\ Report!Walking
        /\ Report!Term.mech \in Report!Following /\ Report!Term.arg \in walk.met \union {""}
    BY DEF Report!PassByTarget, Report!AtTerm
  <1>2. PICK w : w = walk
    OBVIOUS
  <1>3. /\ WalkInv(w)
        /\ Len(w.stack) \in DOMAIN w.stack /\ Report!Top(w) = w.stack[Len(w.stack)]
    BY <1>1, <1>2, WalkAt
  <1>4. IsMet(w, Report!Term)
    BY <1>1, <1>2 DEF IsMet
  <1>5. PICK w2 : w2 = Report!PastTerm(1)
    OBVIOUS
  <1>6. WalkInv(w2)
    BY <1>1, <1>2, <1>3, <1>4, <1>5, TermPassed DEF Report!PastTerm, Report!Terms
  <1> QED
    BY <1>1, <1>5, <1>6, WalkKeeps DEF Report!PassByTarget

LEMMA AppendExcept ==
    ASSUME NEW S, NEW s \in Seq(S), NEW f \in S, NEW g \in S, NEW l \in 1 .. Len(s)
    PROVE  Append([s EXCEPT ![l] = g], f) = [Append(s, f) EXCEPT ![l] = g]
  <1>1. PICK n \in Nat : n = Len(s)
    BY LenProperties
  <1>2. PICK a : a = [s EXCEPT ![l] = g]
    OBVIOUS
  <1>3. a \in Seq(S) /\ Len(a) = n /\ \A j \in 1 .. n : a[j] = IF j = l THEN g ELSE s[j]
    BY <1>1, <1>2, ExceptSeq
  <1>4. PICK b : b = Append(s, f)
    OBVIOUS
  <1>5. /\ b \in Seq(S) /\ Len(b) = n + 1 /\ b[n + 1] = f
        /\ \A j \in 1 .. n : b[j] = s[j]
    BY <1>1, <1>4, AppendProperties
  <1>6. PICK c : c = Append(a, f)
    OBVIOUS
  <1>7. /\ c \in Seq(S) /\ Len(c) = n + 1 /\ c[n + 1] = f
        /\ \A j \in 1 .. n : c[j] = a[j]
    BY <1>3, <1>6, AppendProperties
  <1>8. PICK e : e = [b EXCEPT ![l] = g]
    OBVIOUS
  <1>9. l \in 1 .. n + 1 /\ l \in 1 .. n /\ l # n + 1
    BY <1>1
  <1>10. /\ e \in Seq(S) /\ Len(e) = n + 1
         /\ \A j \in 1 .. n + 1 : e[j] = IF j = l THEN g ELSE b[j]
    BY <1>5, <1>8, <1>9, ExceptSeq
  <1>11. \A j \in 1 .. n + 1 : c[j] = e[j]
    BY <1>3, <1>5, <1>7, <1>9, <1>10
  <1>12. c = e
    BY <1>7, <1>10, <1>11, SeqEqual
  <1> QED
    BY <1>2, <1>4, <1>6, <1>8, <1>12

(* A walk one term and one query further, field by field.                  *)
LEMMA OneFurther ==
    ASSUME NEW w, DOMAIN w = {"dns", "stack", "met", "mute", "n"}, NEW l, NEW s, w.stack = s,
           NEW g, g = [s[l] EXCEPT !.next = @ + 1],
           NEW u, u = [w EXCEPT !.stack[l].next = @ + 1, !.n = @ + 1]
    PROVE  u = [dns |-> w.dns, stack |-> [s EXCEPT ![l] = g], met |-> w.met,
                mute |-> w.mute, n |-> w.n + 1]
  <1>1. PICK t : t = [s EXCEPT ![l] = g]
    OBVIOUS
  <1>2. u = [w EXCEPT !.stack = t, !.n = w.n + 1]
    BY <1>1
  <1>3. u = [dns |-> w.dns, stack |-> t, met |-> w.met, mute |-> w.mute, n |-> w.n + 1]
    BY <1>2
  <1> QED
    BY <1>1, <1>3

\* A target whose query failed counts as a domain that publishes nothing, and as silent; the
\* rest of the walk stays.
LEMMA Silenced ==
    ASSUME NEW w, DOMAIN w = {"dns", "stack", "met", "mute", "n"}, NEW e
    PROVE  [w EXCEPT !.dns[e] = <<>>, !.mute = @ \union {e}] =
              [dns |-> [w.dns EXCEPT ![e] = <<>>], stack |-> w.stack, met |-> w.met,
               mute |-> w.mute \union {e}, n |-> w.n]
  <1>1. PICK d, q : d = [w.dns EXCEPT ![e] = <<>>] /\ q = w.mute \union {e}
    OBVIOUS
  <1>2. [w EXCEPT !.dns[e] = <<>>, !.mute = @ \union {e}] = [w EXCEPT !.dns = d, !.mute = q]
    BY <1>1
  <1>3. PICK u : u = [w EXCEPT !.dns = d, !.mute = q]
    OBVIOUS
  <1>4. u = [dns |-> d, stack |-> w.stack, met |-> w.met, mute |-> q, n |-> w.n]
    BY <1>3
  <1> QED
    BY <1>1, <1>2, <1>3, <1>4

LEMMA FollowTargetKeeps ==
    ASSUME ReportInv, Report!FollowTarget
    PROVE  ReportInv'
  <1>1. /\ Report!AtTerm /\ Report!Walking
        /\ Report!Term.mech \in Report!Following /\ Report!Term.arg \notin walk.met \union {""}
    BY DEF Report!FollowTarget, Report!AtTerm
  <1>2. PICK w, e, l : w = walk /\ e = Report!Term.arg /\ l = Len(w.stack)
    OBVIOUS
  <1>3. /\ WalkInv(w) /\ l \in DOMAIN w.stack /\ l \in Nat /\ l \in 1 .. l
        /\ Report!Top(w) = w.stack[l] /\ w.stack[l] \in Frame
        /\ w.stack \in Seq(Frame) /\ w.n \in Nat
        /\ DOMAIN w = {"dns", "stack", "met", "mute", "n"} /\ Report!Top(w).dom \in w.met
    BY <1>1, <1>2, WalkAt, Walks
  <1>4. e \in Report!Sources \ w.met
    BY <1>1, <1>2, TermAt DEF Report!SpfTerm, Report!Sources
  <1>5. PICK g : g = [w.stack[l] EXCEPT !.next = @ + 1]
    OBVIOUS
  <1>6. g \in Frame
    <2>1. PICK i0 \in Nat : i0 = w.stack[l].next
      BY <1>3 DEF Frame
    <2>2. i0 + 1 \in Nat \ {0}
      OBVIOUS
    <2> QED
      BY <1>3, <1>5, <2>1, <2>2 DEF Frame
  <1>7. PICK met : met = [Report!PastTerm(1) EXCEPT !.met = @ \union {e}]
    OBVIOUS
  <1>8. /\ met.stack = [w.stack EXCEPT ![l] = g] /\ met.n = w.n + 1
        /\ met.met = w.met \union {e} /\ met.dns = w.dns
        /\ met = [dns |-> w.dns, stack |-> [w.stack EXCEPT ![l] = g],
                  met |-> w.met \union {e}, mute |-> w.mute, n |-> w.n + 1]
    BY <1>2, <1>3, <1>5, <1>7 DEF Report!PastTerm
  <1>9. IsMet([w EXCEPT !.met = @ \union {e}], Report!Term)
    BY <1>2, <1>3 DEF IsMet
  <1>10. CASE ~Report!Sole(walk.dns[e], "spf1") /\ Report!GoOn(met)
    <2>1. PICK w1 : w1 = [w EXCEPT !.met = @ \union {e}]
      OBVIOUS
    <2>2. Report!TermsOf(w.dns, e) = <<>>
      BY <1>2, <1>10 DEF Report!TermsOf
    <2>3. WalkInv(w1)
      BY <1>3, <1>4, <2>1, <2>2, MeetTarget
    <2>4. w1.stack = w.stack /\ w1.dns = w.dns
      BY <1>3, <2>1
    <2>5. WalkInv([w1 EXCEPT !.stack[l].next = @ + 1, !.n = @ + 1])
      BY <1>1, <1>2, <1>3, <1>9, <2>1, <2>3, <2>4, TermPassed DEF Report!Terms
    <2>6. met = [w1 EXCEPT !.stack[l].next = @ + 1, !.n = @ + 1]
      <3>1. DOMAIN w1 = {"dns", "stack", "met", "mute", "n"}
            /\ w1.met = w.met \union {e} /\ w1.mute = w.mute /\ w1.n = w.n
        BY <1>3, <2>1
      <3>2. PICK u : u = [w1 EXCEPT !.stack[l].next = @ + 1, !.n = @ + 1]
        OBVIOUS
      <3>3. u = [dns |-> w1.dns, stack |-> [w.stack EXCEPT ![l] = g], met |-> w1.met,
                 mute |-> w1.mute, n |-> w1.n + 1]
        BY <1>5, <2>4, <3>1, <3>2, OneFurther
      <3> QED
        BY <1>8, <2>4, <3>1, <3>2, <3>3
    <2> QED
      BY <1>1, <1>10, <2>5, <2>6, GoOnKeeps
  <1>11. CASE Report!SpfDone(met, TRUE)
    BY <1>1, <1>11, SpfDoneKeeps, WalkAt
  <1>12. CASE /\ walk' = [met EXCEPT !.stack = Append(@, [dom |-> e, next |-> 1,
                                                           from |-> met.n])]
              /\ UNCHANGED Report!reported
    <2>1. PICK f : f = [dom |-> e, next |-> 1, from |-> met.n]
      OBVIOUS
    <2>2. PICK from \in Nat : from = met.n
      BY <1>3, <1>8
    <2>3. PICK w1 : w1 = [w EXCEPT !.met = @ \union {e}, !.stack = Append(@, f)]
      OBVIOUS
    <2>4. WalkInv(w1)
      BY <1>3, <1>4, <2>1, <2>2, <2>3, PushTarget
    <2>5. f \in Frame
      BY <1>4, <2>1, <2>2 DEF Frame
    <2>6. w1.stack = Append(w.stack, f) /\ w1.dns = w.dns /\ w1.n = w.n
          /\ w1.met = w.met \union {e} /\ DOMAIN w1 = DOMAIN w
      BY <1>3, <2>3
    <2>7. l \in DOMAIN w1.stack /\ w1.stack[l] = w.stack[l]
      BY <1>2, <1>3, <2>5, <2>6, AppendProperties, LenProperties
    <2>8. IsMet(w1, Report!Term)
      BY <1>2, <2>6 DEF IsMet
    <2>9. PICK w2 : w2 = [w1 EXCEPT !.stack[l].next = @ + 1, !.n = @ + 1]
      OBVIOUS
    <2>10. WalkInv(w2)
      <3>1. /\ w1.stack[l] = Report!Top(walk) /\ w1.dns = walk.dns
            /\ Report!Term.mech \in Report!Following
        BY <1>1, <1>2, <1>3, <2>6, <2>7
      <3>2. 1 = IF Report!Term.mech \in Report!Querying \union Report!Following THEN 1 ELSE 0
        BY <3>1
      <3> QED
        BY <1>1, <2>4, <2>7, <2>8, <2>9, <3>1, <3>2, TermPassed DEF Report!Terms
    <2>11. w2.stack = [Append(w.stack, f) EXCEPT ![l] = g]
      BY <1>3, <1>5, <2>6, <2>7, <2>9
    <2>12. w2.stack = Append([w.stack EXCEPT ![l] = g], f)
      BY <1>2, <1>3, <1>6, <2>5, <2>11, AppendExcept
    <2>13. w2 = [met EXCEPT !.stack = Append(@, f)]
      <3>1. DOMAIN w1 = {"dns", "stack", "met", "mute", "n"} /\ w1.mute = w.mute
        BY <1>3, <2>3, <2>6
      <3>2. PICK s : s = w1.stack
        OBVIOUS
      <3>3. w2 = [dns |-> w1.dns, stack |-> [s EXCEPT ![l] = g], met |-> w1.met,
                  mute |-> w1.mute, n |-> w1.n + 1]
        BY <1>5, <2>7, <2>9, <3>1, <3>2, OneFurther
      <3>4. [s EXCEPT ![l] = g] = Append([w.stack EXCEPT ![l] = g], f)
        BY <2>6, <2>11, <2>12, <3>2
      <3>5. PICK t, m : t = [w.stack EXCEPT ![l] = g] /\ m = w.met \union {e}
        OBVIOUS
      <3>6. met = [dns |-> w.dns, stack |-> t, met |-> m, mute |-> w.mute, n |-> w.n + 1]
        BY <1>8, <3>5
      <3>7. [met EXCEPT !.stack = Append(@, f)] =
               [dns |-> w.dns, stack |-> Append(t, f), met |-> m, mute |-> w.mute,
                n |-> w.n + 1]
        BY <3>6
      <3>8. w2 = [dns |-> w.dns, stack |-> Append(t, f), met |-> m, mute |-> w.mute,
                  n |-> w.n + 1]
        BY <2>6, <3>1, <3>3, <3>4, <3>5
      <3> QED
        BY <3>7, <3>8
    <2> QED
      BY <1>1, <1>12, <2>1, <2>10, <2>13, WalkKeeps
  <1>13. CASE Report!GoOn(Report!Unanswered(met, e))
    <2>1. PICK w0 : w0 = Report!Unanswered(w, e)
      OBVIOUS
    <2>2. /\ WalkInv(w0) /\ Report!TermsOf(w0.dns, e) = <<>>
          /\ \A d \in w.met : Report!TermsOf(w0.dns, d) = Report!TermsOf(w.dns, d)
      BY <1>3, <1>4, <2>1, SilentTarget
    <2>3. /\ w0.stack = w.stack /\ w0.met = w.met /\ w0.n = w.n /\ DOMAIN w0 = DOMAIN w
          /\ w0.dns = [w.dns EXCEPT ![e] = <<>>] /\ w0.mute = w.mute \union {e}
      BY <1>3, <2>1 DEF Report!Unanswered
    <2>4. PICK w1 : w1 = [w0 EXCEPT !.met = @ \union {e}]
      OBVIOUS
    <2>5. WalkInv(w1)
      BY <1>4, <2>2, <2>3, <2>4, MeetTarget
    <2>6. /\ w1.stack = w.stack /\ w1.dns = w0.dns /\ w1.met = w.met \union {e}
          /\ w1.n = w.n /\ w1.mute = w.mute \union {e} /\ DOMAIN w1 = DOMAIN w
      BY <1>3, <2>3, <2>4
    <2>7. IsMet(w1, Report!Term)
      BY <1>2, <2>6 DEF IsMet
    <2>8. Report!TermsOf(w1.dns, Report!Top(walk).dom) = Report!Terms
      BY <1>2, <1>3, <2>2, <2>6 DEF Report!Terms
    <2>9. PICK w2 : w2 = [w1 EXCEPT !.stack[l].next = @ + 1, !.n = @ + 1]
      OBVIOUS
    <2>10. WalkInv(w2)
      <3>1. /\ l \in DOMAIN w1.stack /\ w1.stack[l] = Report!Top(walk)
            /\ Report!Term.mech \in Report!Following
        BY <1>1, <1>2, <1>3, <2>6
      <3>2. 1 = IF Report!Term.mech \in Report!Querying \union Report!Following THEN 1 ELSE 0
        BY <3>1
      <3>3. 1 \in Nat
        OBVIOUS
      <3> QED
        BY <1>1, <2>5, <2>7, <2>8, <2>9, <3>1, <3>2, <3>3, TermPassed
    <2>11. Report!Unanswered(met, e) = w2
      <3>1. PICK s, d, m, n : /\ s = [w.stack EXCEPT ![l] = g] /\ d = [w.dns EXCEPT ![e] = <<>>]
                              /\ m = w.met \union {e} /\ n = w.n + 1
        OBVIOUS
      <3>2. met = [dns |-> w.dns, stack |-> s, met |-> m, mute |-> w.mute, n |-> n]
        BY <1>8, <3>1
      <3>3. DOMAIN met = {"dns", "stack", "met", "mute", "n"} /\ met.dns = w.dns
            /\ met.stack = s /\ met.met = m /\ met.mute = w.mute /\ met.n = n
        BY <3>2
      <3>4. Report!Unanswered(met, e) =
               [dns |-> d, stack |-> s, met |-> m, mute |-> w.mute \union {e}, n |-> n]
        <4>1. PICK u : u = Report!Unanswered(met, e)
          OBVIOUS
        <4>2. u = [met EXCEPT !.dns[e] = <<>>, !.mute = @ \union {e}]
          BY <4>1 DEF Report!Unanswered
        <4>3. u = [dns |-> [met.dns EXCEPT ![e] = <<>>], stack |-> met.stack,
                   met |-> met.met, mute |-> met.mute \union {e}, n |-> met.n]
          BY <3>3, <4>2, Silenced
        <4> QED
          BY <3>1, <3>3, <4>1, <4>3
      <3>5. DOMAIN w1 = {"dns", "stack", "met", "mute", "n"} /\ w1.stack = w.stack
        BY <1>3, <2>6
      <3>6. w2 = [dns |-> w1.dns, stack |-> [w.stack EXCEPT ![l] = g], met |-> w1.met,
                  mute |-> w1.mute, n |-> w1.n + 1]
        BY <1>5, <2>9, <3>5, OneFurther
      <3>7. w2 = [dns |-> d, stack |-> s, met |-> m, mute |-> w.mute \union {e}, n |-> n]
        BY <2>3, <2>6, <3>1, <3>6
      <3> QED
        BY <3>4, <3>7
    <2> QED
      BY <1>1, <1>13, <2>9, <2>10, <2>11, GoOnKeeps
  <1> QED
    BY <1>2, <1>7, <1>10, <1>11, <1>12, <1>13 DEF Report!FollowTarget

LEMMA EndOfRecordKeeps ==
    ASSUME ReportInv, Report!EndOfRecord
    PROVE  ReportInv'
  <1>1. Report!Walking /\ ~Report!AtTerm
    BY DEF Report!EndOfRecord
  <1>2. PICK w, d0 : w = walk /\ d0 = Report!Top(w).dom
    OBVIOUS
  <1>3. PICK i0 \in Nat : i0 = Report!Top(w).next
    BY <1>1, <1>2, WalkAt
  <1>4. PICK l \in Nat : l = Len(w.stack) /\ l # 0
    BY <1>1, <1>2, WalkAt
  <1>5. WalkInv(w) /\ Report!Auditing /\ Report!Top(w) = w.stack[l]
    BY <1>1, <1>2, <1>4, WalkAt
  <1>6. i0 \notin DOMAIN Report!TermsOf(w.dns, d0)
    BY <1>1, <1>2, <1>3 DEF Report!AtTerm, Report!Terms
  <1>7. CASE Report!GoOn(Report!Returned(walk))
    <2>1. PICK w2 : w2 = Report!Returned(w)
      OBVIOUS
    <2>2. WalkInv(w2)
      BY <1>2, <1>3, <1>4, <1>5, <1>6, <2>1, PopRecord DEF Report!Returned
    <2> QED
      BY <1>1, <1>2, <1>7, <2>1, <2>2, GoOnKeeps
  <1>8. CASE Len(walk.stack) = 1 /\ Report!SpfDone(walk, FALSE)
    <2>1. /\ Len(w.stack) = 1 /\ w.stack[1].next = i0
          /\ i0 \notin DOMAIN Report!TermsOf(w.dns, w.stack[1].dom)
      BY <1>2, <1>3, <1>4, <1>5, <1>6, <1>8
    <2>2. \/ ~(Report!EvalSPF(w.dns["@"]) \notin {"fail", "warn"})
          \/ ~(Report!SpfLookupFinding(w.n, FALSE) \notin {"fail", "warn"})
          \/ Report!SoundSPF(w.dns)
      BY <1>5, <2>1, PassedSPF
    <2> QED
      BY <1>2, <1>5, <1>8, <2>2, SpfDoneKeeps
  <1> QED
    BY <1>7, <1>8 DEF Report!EndOfRecord

-----------------------------------------------------------------------------
(* The other checks.                                                       *)
LEMMA FoundKeeps ==
    ASSUME ReportInv, report # "none", NEW check, check # "SPF",
           NEW verdicts, NEW answered, NEW ok,
           Report!Found(check, verdicts, answered, ok),
           Report!Auditing /\ verdicts \intersect {"fail", "warn"} = {}
              => (answered => ok) /\ (check \in Report!Required => answered /\ ok),
           report \in {"doctor", "config check"} /\ "fail" \notin verdicts
              => (answered => ok),
           walk' = walk
    PROVE  ReportInv'
  <1>1. Judges(check)
    BY FoundJudges
  <1> QED
    BY <1>1, JudgedKeeps

LEMMA StrictDMARC ==
    ASSUME NEW r, Report!Answers(r), Report!EvalDMARC(r).found \intersect {"fail", "warn"} = {}
    PROVE  r # <<>> /\ Report!SoundDMARC(r)
  <1>1. Report!Sole(r, "DMARC1")
    BY DEF Report!EvalDMARC
  <1>2. PICK k \in DOMAIN r :
           Report!Tagged(r, "DMARC1") = {k} /\ Report!FirstOf(r, "DMARC1") = r[k]
    BY <1>1, FirstOfSole
  <1>3. PICK dm, p : dm = r[k] /\ p = Report!Get(dm, "p")
    OBVIOUS
  <1>4. Report!EvalDMARC(r).found =
           {CASE p \in {"reject", "quarantine"} -> "pass" [] p = "none" -> "warn"
              [] OTHER -> "fail"}
           \union (IF "pct" \in DOMAIN dm.tags /\ dm.tags["pct"] # "100"
                   THEN {"warn"} ELSE {})
           \union {IF Report!Get(dm, "rua") # "" THEN "pass" ELSE "warn"}
    BY <1>1, <1>2, <1>3 DEF Report!EvalDMARC
  <1>5. p \in {"reject", "quarantine"}
    BY <1>4
  <1>6. ~("pct" \in DOMAIN dm.tags /\ dm.tags["pct"] # "100")
    BY <1>4
  <1>7. Report!Get(dm, "rua") # ""
    BY <1>4
  <1>8. Report!Get(dm, "pct") \in {"", "100"}
    BY <1>6 DEF Report!Get
  <1>9. r[k].v = "DMARC1" /\ \A j \in DOMAIN r : r[j].v = "DMARC1" => j = k
    BY <1>2 DEF Report!Tagged
  <1> QED
    <2>1. r # <<>>
      BY <1>2
    <2>2. /\ Report!Get(r[k], "p") \in {"quarantine", "reject"} /\ Report!Get(r[k], "rua") # ""
          /\ Report!Get(r[k], "pct") \in {"", "100"}
      BY <1>3, <1>5, <1>7, <1>8
    <2> QED
      BY <1>2, <1>9, <2>1, <2>2 DEF Report!SoundDMARC

LEMMA StrictDANE ==
    ASSUME NEW n \in Nat, NEW tlsa \in [1 .. n -> [vals : SUBSET TlsaValue, ad : BOOLEAN]],
           NEW cert, Report!EvalDANE(tlsa, cert) \notin {"fail", "warn"}
    PROVE  Report!SoundDANE(tlsa, cert)
  <1> SUFFICES ASSUME NEW h \in Report!Publishing(tlsa)
               PROVE  /\ tlsa[h].ad
                      /\ Report!Publishing(tlsa) = {h} => Report!ShowsItsOwn(tlsa, cert, h)
    BY DEF Report!SoundDANE
  <1>1. \A g \in Report!Publishing(tlsa) : tlsa[g].ad
    BY DEF Report!EvalDANE, Report!ClassifyDANE
  <1>2. Report!VerifyDANEMatch(tlsa, cert) \notin {"fail", "warn"}
    BY <1>1 DEF Report!EvalDANE, Report!ClassifyDANE
  <1>3. ASSUME Report!Publishing(tlsa) = {h}, tlsa[h].vals \intersect Usable311 # {}
        PROVE  cert[h] \in tlsa[h].vals
    <2>1. Report!Published(tlsa) = tlsa[h].vals
      BY <1>3 DEF Report!Published, Report!Publishing
    <2>2. PICK up : up = {g \in Report!Publishing(tlsa) : cert[g] # "down"}
      OBVIOUS
    <2>3. up # {} /\ cert[Report!First(up)] \in Report!Published(tlsa)
      BY <1>2, <1>3, <2>1, <2>2 DEF Report!VerifyDANEMatch
    <2>4. up \in SUBSET Nat
      BY <2>2 DEF Report!Publishing
    <2>5. Report!First(up) = h
      BY <1>3, <2>2, <2>3, <2>4, FirstIsLeast
    <2> QED
      BY <2>1, <2>3, <2>5
  <1> QED
    BY <1>1, <1>3 DEF Report!ShowsItsOwn

LEMMA StrictSTS ==
    ASSUME NEW r, Report!Answers(r), Report!EvalMTASTSRecord(r) \notin {"fail", "warn"}
    PROVE  \A i, j \in Report!Tagged(r, "STSv1") : i = j /\ Report!Get(r[i], "id") # ""
  <1>1. CASE Report!Tagged(r, "STSv1") = {}
    BY <1>1
  <1>2. CASE Report!Tagged(r, "STSv1") # {}
    <2>1. Report!Sole(r, "STSv1") /\ Report!Get(Report!FirstOf(r, "STSv1"), "id") # ""
      BY <1>2 DEF Report!EvalMTASTSRecord
    <2>2. PICK k \in DOMAIN r :
             Report!Tagged(r, "STSv1") = {k} /\ Report!FirstOf(r, "STSv1") = r[k]
      BY <2>1, FirstOfSole
    <2> QED
      BY <2>1, <2>2
  <1> QED
    BY <1>1, <1>2

LEMMA StrictPolicy ==
    ASSUME NEW body \in Policies, Report!EvalMTASTSPolicy(body) \notin {"fail", "warn"}
    PROVE  Report!PolicyEnforces(body) /\ Report!Keyed(body, "mx") # {}
  <1>1. body \in Seq([key : STRING, val : STRING])
    BY ReportAssumption DEF Report!DiagnosticsAssumption
  <1>2. PICK modes : modes = Report!Keyed(body, "mode")
    OBVIOUS
  <1>3. modes \in SUBSET Nat
    BY <1>1, <1>2, LenProperties DEF Report!Keyed
  <1>4. Report!Keyed(body, "mx") # {} /\ modes # {} /\ body[Report!First(modes)].val = "enforce"
    BY <1>2 DEF Report!EvalMTASTSPolicy
  <1>5. Report!First(modes) \in modes
    BY <1>3, <1>4, FirstIsLeast
  <1> QED
    BY <1>2, <1>4, <1>5 DEF Report!PolicyEnforces

LEMMA StrictBIMI ==
    ASSUME NEW r, NEW p, Report!EvalBIMI(r, p) \notin {"fail", "warn"},
           Report!Tagged(r, "BIMI1") # {}
    PROVE  p \in {"quarantine", "reject"}
  BY DEF Report!EvalBIMI

LEMMA AuditKeeps ==
    ASSUME ReportInv, Report!Auditing,
           \/ Report!AuditDKIM \/ Report!AuditDMARC \/ Report!AuditDNSSEC \/ Report!AuditDANE
           \/ Report!AuditMTASTSRecord \/ Report!FetchMTASTSPolicy
           \/ Report!AuditTLSRPT \/ Report!AuditBIMI
    PROVE  ReportInv'
  <1>1. report # "none" /\ report \notin {"doctor", "config check"}
    BY DEF Report!Auditing
  <1>2. CASE Report!AuditDKIM
    <2>1. PICK verdicts, answered : Report!Found("DKIM", verdicts, answered, TRUE) /\ walk' = walk
      BY <1>2 DEF Report!AuditDKIM
    <2> QED
      BY <1>1, <2>1, FoundKeeps DEF Report!Required
  <1>3. CASE Report!AuditDMARC
    <2>1. PICK a \in Report!Answered("_dmarc") :
             /\ Report!Found("DMARC", Report!EvalDMARC(a[1]).found, a[2],
                             Report!SoundDMARC(a[1]))
             /\ walk' = walk
      BY <1>3 DEF Report!AuditDMARC
    <2>2. Report!Answers(a[1]) /\ (a[2] \/ a[1] = <<>>)
      BY AnswersAreAnswers, ReportAssumption DEF Report!DiagnosticsAssumption
    <2>3. PICK ok : ok = Report!SoundDMARC(a[1])
      OBVIOUS
    <2>4. Report!EvalDMARC(a[1]).found \intersect {"fail", "warn"} = {} => a[2] /\ ok
      BY <2>2, <2>3, StrictDMARC
    <2>5. Report!Found("DMARC", Report!EvalDMARC(a[1]).found, a[2], ok)
      BY <2>1, <2>3
    <2> QED
      BY <1>1, <2>1, <2>4, <2>5, FoundKeeps
  <1>4. CASE Report!AuditDNSSEC
    <2>1. walk' = walk
      BY <1>4 DEF Report!AuditDNSSEC
    <2>2. CASE Report!Found("DNSSEC", {"warn"}, FALSE, FALSE)
      BY <1>1, <2>1, <2>2, FoundKeeps
    <2>3. CASE \E dnskey, ds, ad, asked \in BOOLEAN :
                  Report!Found("DNSSEC", {Report!EvalDNSSEC(dnskey, ds /\ asked, ad)}, asked,
                        dnskey /\ ds /\ ad)
      <3>1. PICK dnskey, ds, ad, asked \in BOOLEAN :
               Report!Found("DNSSEC", {Report!EvalDNSSEC(dnskey, ds /\ asked, ad)}, asked,
                     dnskey /\ ds /\ ad)
        BY <2>3
      <3>2. PICK e : e = Report!EvalDNSSEC(dnskey, ds /\ asked, ad)
        OBVIOUS
      <3>3. PICK ok : ok = (dnskey /\ ds /\ ad)
        OBVIOUS
      <3>4. e \notin {"fail", "warn"} => asked /\ ok
        BY <3>2, <3>3 DEF Report!EvalDNSSEC
      <3>5. Report!Found("DNSSEC", {e}, asked, ok)
        BY <3>1, <3>2, <3>3
      <3> QED
        BY <1>1, <2>1, <3>4, <3>5, FoundKeeps
    <2> QED
      BY <1>4, <2>2, <2>3 DEF Report!AuditDNSSEC
  <1>5. CASE Report!AuditDANE
    <2>1. walk' = walk
      BY <1>5 DEF Report!AuditDANE
    <2>2. CASE Report!Found("DANE", {"warn"}, FALSE, FALSE)
      BY <1>1, <2>1, <2>2, FoundKeeps
    <2>3. CASE ~Report!Found("DANE", {"warn"}, FALSE, FALSE)
      <3>1. PICK n \in 0 .. MaxHosts :
               \E tlsa \in [1 .. n -> [vals : SUBSET TlsaValue, ad : BOOLEAN]],
                  cert \in [1 .. n -> Usable311 \union {"down"}] :
               Report!Found("DANE", {Report!EvalDANE(tlsa, cert)}, TRUE,
                            Report!SoundDANE(tlsa, cert))
        BY <1>5, <2>3 DEF Report!AuditDANE
      <3>2. PICK tlsa \in [1 .. n -> [vals : SUBSET TlsaValue, ad : BOOLEAN]],
                 cert \in [1 .. n -> Usable311 \union {"down"}] :
               Report!Found("DANE", {Report!EvalDANE(tlsa, cert)}, TRUE,
                            Report!SoundDANE(tlsa, cert))
        BY <3>1
      <3>3. PICK e, ok : e = Report!EvalDANE(tlsa, cert) /\ ok = Report!SoundDANE(tlsa, cert)
        OBVIOUS
      <3>4. n \in Nat
        BY <3>1
      <3>5. e \notin {"fail", "warn"} => ok
        BY <3>3, <3>4, StrictDANE
      <3>6. Report!Found("DANE", {e}, TRUE, ok)
        BY <3>2, <3>3
      <3> QED
        BY <1>1, <2>1, <3>5, <3>6, FoundKeeps DEF Report!Required
    <2> QED
      BY <2>2, <2>3
  <1>6. CASE Report!AuditMTASTSRecord
    <2>1. PICK a \in Report!Answered("_mta-sts") :
             /\ Report!Found("STS", {Report!EvalMTASTSRecord(a[1])}, a[2],
                      \A i, j \in Report!Tagged(a[1], "STSv1") :
                         i = j /\ Report!Get(a[1][i], "id") # "")
             /\ walk' = walk
      BY <1>6 DEF Report!AuditMTASTSRecord
    <2>2. Report!Answers(a[1])
      BY AnswersAreAnswers, ReportAssumption DEF Report!DiagnosticsAssumption
    <2>3. PICK e, ok :
             /\ e = Report!EvalMTASTSRecord(a[1])
             /\ ok = \A i, j \in Report!Tagged(a[1], "STSv1") :
                       i = j /\ Report!Get(a[1][i], "id") # ""
      OBVIOUS
    <2>4. e \notin {"fail", "warn"} => ok
      BY <2>2, <2>3, StrictSTS
    <2>5. Report!Found("STS", {e}, a[2], ok)
      BY <2>1, <2>3
    <2> QED
      BY <1>1, <2>1, <2>4, <2>5, FoundKeeps DEF Report!Required
  <1>7. CASE Report!FetchMTASTSPolicy
    <2>1. walk' = walk
      BY <1>7 DEF Report!FetchMTASTSPolicy
    <2>2. ASSUME NEW s, Report!Found("STS policy", {s}, FALSE, FALSE)
          PROVE  ReportInv'
      BY <1>1, <2>1, <2>2, FoundKeeps DEF Report!Required
    <2>3. ASSUME NEW body \in Policies,
                 Report!Found("STS policy", {Report!EvalMTASTSPolicy(body)}, TRUE,
                       Report!PolicyEnforces(body) /\ Report!Keyed(body, "mx") # {})
          PROVE  ReportInv'
      <3>1. PICK e, ok : /\ e = Report!EvalMTASTSPolicy(body)
                         /\ ok = (Report!PolicyEnforces(body) /\ Report!Keyed(body, "mx") # {})
        OBVIOUS
      <3>2. e \notin {"fail", "warn"} => ok
        BY <3>1, StrictPolicy
      <3>3. Report!Found("STS policy", {e}, TRUE, ok)
        BY <2>3, <3>1
      <3> QED
        BY <1>1, <2>1, <3>2, <3>3, FoundKeeps DEF Report!Required
    <2> QED
      BY <1>7, <2>2, <2>3 DEF Report!FetchMTASTSPolicy
  <1>8. CASE Report!AuditTLSRPT
    <2>1. PICK verdicts, answered :
             Report!Found("TLS-RPT", verdicts, answered, TRUE) /\ walk' = walk
      BY <1>8 DEF Report!AuditTLSRPT
    <2> QED
      BY <1>1, <2>1, FoundKeeps DEF Report!Required
  <1>9. CASE Report!AuditBIMI
    <2>1. PICK p : p = policy
      OBVIOUS
    <2>2. PICK a \in Report!Answered("default._bimi") :
             /\ Report!Found("BIMI", {Report!EvalBIMI(a[1], p)}, a[2],
                      Report!Tagged(a[1], "BIMI1") # {} => p \in {"quarantine", "reject"})
             /\ walk' = walk
      BY <1>9, <2>1 DEF Report!AuditBIMI
    <2>3. PICK e, ok : /\ e = Report!EvalBIMI(a[1], p)
                       /\ ok = (Report!Tagged(a[1], "BIMI1") # {}
                                  => p \in {"quarantine", "reject"})
      OBVIOUS
    <2>4. e \notin {"fail", "warn"} => ok
      BY <2>3, StrictBIMI
    <2>5. Report!Found("BIMI", {e}, a[2], ok)
      BY <2>2, <2>3
    <2> QED
      BY <1>1, <2>2, <2>4, <2>5, FoundKeeps DEF Report!Required
  <1> QED
    BY <1>2, <1>3, <1>4, <1>5, <1>6, <1>7, <1>8, <1>9

LEMMA DoctorKeeps ==
    ASSUME ReportInv, report = "doctor",
           \/ Report!ServiceChecks \/ Report!PortCheck \/ Report!RspamdCheck
           \/ Report!TlsCheck \/ Report!DaneOutboundCheck
           \/ Report!DaneCertCheck \/ Report!ResolverCheck \/ Report!MtaStsEndpointChecks
    PROVE  ReportInv'
  <1>1. ~Report!Auditing /\ report # "none"
    BY DEF Report!Auditing
  <1>2. ASSUME NEW check \in {"services", "ports", "rspamd", "dane out", "dane cert", "mta-sts"},
               NEW verdicts, Report!Found(check, verdicts, FALSE, FALSE), walk' = walk
        PROVE  ReportInv'
    BY <1>1, <1>2, FoundKeeps
  <1>3. ASSUME NEW check \in {"tls", "dane cert", "resolver", "mta-sts"}, NEW verdicts,
               Report!Found(check, verdicts, TRUE, TRUE), walk' = walk
        PROVE  ReportInv'
    BY <1>1, <1>3, FoundKeeps
  <1>4. CASE Report!ServiceChecks
    <2>1. PICK state \in [Allowed -> {"active", "failed", "unreadable"}], unread \in BOOLEAN :
             /\ unread = \E u \in Allowed : state[u] = "unreadable"
             /\ Report!Found("services",
                      IF unread THEN {"error"}
                      ELSE {IF state[u] = "active" THEN "ok" ELSE "fail" : u \in Allowed},
                      ~unread, \A u \in Allowed : state[u] = "active")
             /\ walk' = walk
      BY <1>4 DEF Report!ServiceChecks
    <2>2. PICK verdicts, answered, ok :
             /\ verdicts = IF unread THEN {"error"}
                           ELSE {IF state[u] = "active" THEN "ok" ELSE "fail" : u \in Allowed}
             /\ answered = ~unread
             /\ ok = \A u \in Allowed : state[u] = "active"
      OBVIOUS
    <2>3. Report!Found("services", verdicts, answered, ok)
      BY <2>1, <2>2
    <2>4. "fail" \notin verdicts => (answered => ok)
      BY <2>2
    <2> QED
      BY <1>1, <2>1, <2>3, <2>4, FoundKeeps
  <1>5. CASE Report!PortCheck
    <2>1. ASSUME NEW listening \in SUBSET ExpectedPort,
                 Report!Found("ports", {IF ExpectedPort \ listening = {} THEN "ok" ELSE "fail"},
                       TRUE, ExpectedPort \subseteq listening), walk' = walk
          PROVE  ReportInv'
      <3>1. PICK e, ok : /\ e = IF ExpectedPort \ listening = {} THEN "ok" ELSE "fail"
                         /\ ok = (ExpectedPort \subseteq listening)
        OBVIOUS
      <3>2. "fail" \notin {e} => ok
        BY <3>1
      <3>3. Report!Found("ports", {e}, TRUE, ok)
        BY <2>1, <3>1
      <3> QED
        BY <1>1, <2>1, <3>2, <3>3, FoundKeeps
    <2> QED
      BY <1>2, <1>5, <2>1 DEF Report!PortCheck
  <1>6. CASE Report!RspamdCheck
    <2>1. PICK ok, ran \in BOOLEAN :
             Report!Found("rspamd", {IF ok /\ ran THEN "ok" ELSE "fail"}, ran, ok) /\ walk' = walk
      BY <1>6 DEF Report!RspamdCheck
    <2>2. PICK e : e = IF ok /\ ran THEN "ok" ELSE "fail"
      OBVIOUS
    <2>3. "fail" \notin {e} => (ran => ok)
      BY <2>2
    <2>4. Report!Found("rspamd", {e}, ran, ok)
      BY <2>1, <2>2
    <2> QED
      BY <1>1, <2>1, <2>3, <2>4, FoundKeeps
  <1>7. CASE Report!TlsCheck
    BY <1>3, <1>7 DEF Report!TlsCheck
  <1>8. CASE Report!DaneOutboundCheck
    <2>1. ASSUME NEW level, NEW support,
                 Report!Found("dane out", {Report!ClassifyDANEOutbound(level, support)}, TRUE,
                       level \in {"dane", "dane-only"} => support = "dnssec"), walk' = walk
          PROVE  ReportInv'
      <3>1. PICK e, ok : /\ e = Report!ClassifyDANEOutbound(level, support)
                         /\ ok = (level \in {"dane", "dane-only"} => support = "dnssec")
        OBVIOUS
      <3>2. "fail" \notin {e} => ok
        BY <3>1 DEF Report!ClassifyDANEOutbound
      <3>3. Report!Found("dane out", {e}, TRUE, ok)
        BY <2>1, <3>1
      <3> QED
        BY <1>1, <2>1, <3>2, <3>3, FoundKeeps
    <2> QED
      BY <1>2, <1>8, <2>1 DEF Report!DaneOutboundCheck
  <1>9. CASE Report!DaneCertCheck
    BY <1>2, <1>3, <1>9 DEF Report!DaneCertCheck
  <1>10. CASE Report!ResolverCheck
    BY <1>3, <1>10 DEF Report!ResolverCheck
  <1>11. CASE Report!MtaStsEndpointChecks
    BY <1>2, <1>3, <1>11 DEF Report!MtaStsEndpointChecks
  <1> QED
    BY <1>4, <1>5, <1>6, <1>7, <1>8, <1>9, <1>10, <1>11

LEMMA ConfigCheckKeeps ==
    ASSUME ReportInv, report = "config check", Report!RunConfigCheck
    PROVE  ReportInv'
  <1>1. ~Report!Auditing /\ report # "none"
    BY DEF Report!Auditing
  <1>2. CASE Report!Found("load", {"ok"}, TRUE, TRUE) /\ walk' = walk
    BY <1>1, <1>2, FoundKeeps
  <1>3. CASE /\ \E there \in BOOLEAN :
                   Report!Found("files", {IF there THEN "ok" ELSE "fail"}, TRUE, there)
             /\ walk' = walk
    <2>1. PICK there \in BOOLEAN :
             Report!Found("files", {IF there THEN "ok" ELSE "fail"}, TRUE, there)
      BY <1>3
    <2>2. PICK e : e = IF there THEN "ok" ELSE "fail"
      OBVIOUS
    <2>3. "fail" \notin {e} => there
      BY <2>2
    <2>4. Report!Found("files", {e}, TRUE, there)
      BY <2>1, <2>2
    <2> QED
      BY <1>1, <1>3, <2>3, <2>4, FoundKeeps
  <1>4. CASE /\ \E private, complete \in BOOLEAN :
                   Report!Found("secrets", {IF private THEN "ok" ELSE "fail",
                                     IF complete THEN "ok" ELSE "fail"}, TRUE, private)
             /\ walk' = walk
    <2>1. PICK private, complete \in BOOLEAN :
             Report!Found("secrets", {IF private THEN "ok" ELSE "fail",
                               IF complete THEN "ok" ELSE "fail"}, TRUE, private)
      BY <1>4
    <2>2. PICK e, f : e = (IF private THEN "ok" ELSE "fail")
                      /\ f = (IF complete THEN "ok" ELSE "fail")
      OBVIOUS
    <2>3. "fail" \notin {e, f} => private
      BY <2>2
    <2>4. Report!Found("secrets", {e, f}, TRUE, private)
      BY <2>1, <2>2
    <2> QED
      BY <1>1, <1>4, <2>3, <2>4, FoundKeeps
  <1> QED
    BY <1>2, <1>3, <1>4 DEF Report!RunConfigCheck

LEMMA StageGoesOn == \A n \in Nat : n + 1 \in Nat
  OBVIOUS

(* What a plan leaves as it is was seen.                                   *)
LEMMA DnsCheckKeeps ==
    ASSUME ReportInv, report = "dns check", Report!Query \/ Report!Compare
    PROVE  ReportInv'
  <1>1. /\ ~Report!Walking /\ ~Report!Auditing /\ stage \in Nat
        /\ \A d \in counted : \E v \in seenLive : Report!SameContent(v, d)
    BY DEF ReportInv, Report!Auditing
  <1>2. /\ ~Report!Walking' /\ report' = "dns check" /\ stage' \in Nat /\ ~Report!Auditing'
    <2>1. UNCHANGED <<report, walk>> /\ stage' = stage + 1
      BY DEF Report!Query, Report!Compare
    <2>2. stage' \in Nat
      BY <1>1, <2>1, StageGoesOn
    <2> QED
      BY <1>1, <2>1, <2>2 DEF Report!Auditing, Report!Walking
  <1>3. \A d \in counted' : \E v \in seenLive' : Report!SameContent(v, d)
    <2>1. CASE Report!Query
      BY <1>1, <2>1 DEF Report!Query
    <2>2. CASE Report!Compare
      <3>1. PICK live : live = {[id |-> v, val |-> v] : v \in seenLive}
        OBVIOUS
      <3>2. seenLive' = seenLive
            /\ \E plan \in Report!Plans(live) :
                  counted' = Desired \ (plan.add \union {e.to : e \in plan.edit})
        BY <2>2, <3>1 DEF Report!Compare
      <3>3. PICK c \in Report!Placements(live) :
               counted' = Desired \ (Report!ChangesOf(live, c).add
                                       \union {e.to : e \in Report!ChangesOf(live, c).edit})
        BY <3>2 DEF Report!Plans
      <3>4. PICK D \in SUBSET Desired : c \in [D -> Report!ManagedPart(live)]
        BY <3>3 DEF Report!Placements
      <3> SUFFICES ASSUME NEW d \in counted'
                   PROVE  \E v \in seenLive : Report!SameContent(v, d)
        BY <3>2
      <3>5. d \in Desired /\ d \notin Report!ChangesOf(live, c).add
            /\ d \notin {e.to : e \in Report!ChangesOf(live, c).edit}
        BY <3>3
      <3>6. d \in DOMAIN c
        BY <3>5 DEF Report!ChangesOf
      <3>7. Report!SameContent(c[d].val, d)
        <4> SUFFICES ASSUME ~Report!SameContent(c[d].val, d)
                     PROVE  FALSE
          OBVIOUS
        <4>1. PICK e : e = [cur |-> c[d], to |-> d]
          OBVIOUS
        <4>2. e \in Report!ChangesOf(live, c).edit
          BY <3>6, <4>1 DEF Report!ChangesOf
        <4>3. e.to = d
          BY <4>1
        <4> QED
          BY <3>5, <4>2, <4>3
      <3>8. c[d] \in live
        BY <3>4, <3>6 DEF Report!ManagedPart
      <3>9. c[d].val \in seenLive
        <4>1. PICK v \in seenLive : c[d] = [id |-> v, val |-> v]
          BY <3>1, <3>8
        <4>2. PICK r : r = [id |-> v, val |-> v]
          OBVIOUS
        <4>3. r.val = v /\ c[d] = r
          BY <4>1, <4>2
        <4> QED
          BY <4>3
      <3> QED
        BY <3>7, <3>9
    <2> QED
      BY <2>1, <2>2
  <1> QED
    BY <1>2, <1>3 DEF ReportInv

-----------------------------------------------------------------------------
LEMMA ReportStarts == Report!Init => ReportInv
  <1> SUFFICES ASSUME Report!Init
               PROVE  ReportInv
    OBVIOUS
  <1>1. /\ report = "none" /\ statuses = {} /\ ~Report!Walking /\ sound = {} /\ ~flaw
        /\ counted = {} /\ ~Report!Auditing
    BY DEF Report!Init, Report!Auditing, Report!Walking, Report!NoWalk
  <1>2. stage = 0 /\ stage \in Nat
    BY DEF Report!Init
  <1> QED
    BY <1>1, <1>2 DEF ReportInv

LEMMA ReportInvKept == ReportInv /\ [Report!Next]_(Report!vars) => ReportInv'
  <1> SUFFICES ASSUME ReportInv, [Report!Next]_(Report!vars)
               PROVE  ReportInv'
    OBVIOUS
  <1>1. CASE UNCHANGED Report!vars
    BY <1>1 DEF ReportInv, Report!vars, Report!reported, Report!Auditing,
       DoneChecks, Demanded, Report!Checks, Report!At, Report!Walking, Spotless
  <1>2. CASE Report!Start
    BY <1>2, StartKeeps
  <1>3. CASE Report!Auditing /\ Report!AuditSPF
    BY <1>3, AuditSPFKeeps
  <1>4. CASE Report!CountTerm \/ Report!PassByTarget \/ Report!FollowTarget \/ Report!EndOfRecord
    BY <1>4, CountTermKeeps, PassByTargetKeeps, FollowTargetKeeps, EndOfRecordKeeps
  <1>5. CASE /\ Report!Auditing
             /\ \/ Report!AuditDKIM \/ Report!AuditDMARC \/ Report!AuditDNSSEC \/ Report!AuditDANE
                \/ Report!AuditMTASTSRecord \/ Report!FetchMTASTSPolicy
                \/ Report!AuditTLSRPT \/ Report!AuditBIMI
    BY <1>5, AuditKeeps
  <1>6. CASE /\ report = "doctor"
             /\ \/ Report!ServiceChecks \/ Report!PortCheck \/ Report!RspamdCheck
                \/ Report!TlsCheck \/ Report!DaneOutboundCheck
                \/ Report!DaneCertCheck \/ Report!ResolverCheck \/ Report!MtaStsEndpointChecks
    BY <1>6, DoctorKeeps
  <1>7. CASE report = "dns check" /\ (Report!Query \/ Report!Compare)
    BY <1>7, DnsCheckKeeps
  <1>8. CASE report = "config check" /\ Report!RunConfigCheck
    BY <1>8, ConfigCheckKeeps
  <1> QED
    BY <1>1, <1>2, <1>3, <1>4, <1>5, <1>6, <1>7, <1>8 DEF Report!Next

LEMMA ReportIsEarned == ReportInv => Report!PassIsEarned
  <1> SUFFICES ASSUME ReportInv
               PROVE  Report!PassIsEarned
    OBVIOUS
  <1>1. ASSUME Report!Ended, Report!Auditing, Report!Grade(statuses) = "pass"
        PROVE  sound = Demanded /\ ~flaw
    <2>1. Spotless
      BY <1>1 DEF Report!Grade, Spotless
    <2>2. ~flaw /\ sound = Demanded \intersect DoneChecks
      BY <1>1, <2>1 DEF ReportInv, Spotless
    <2>3. Report!Checks = Report!Audit /\ stage = 9
      BY <1>1 DEF Report!Ended, Report!Auditing, Report!Checks, Report!Audit
    <2>4. {Report!Audit[1], Report!Audit[3], Report!Audit[4]} \subseteq DoneChecks
      BY <2>3 DEF DoneChecks
    <2>5. Report!Required \subseteq DoneChecks
      BY <2>4 DEF Report!Audit, Report!Required
    <2> QED
      BY <2>2, <2>5 DEF Demanded
  <1>2. ASSUME report \in {"doctor", "config check"}, ~Report!AnyFailed(statuses)
        PROVE  ~flaw
    BY <1>2 DEF ReportInv, Report!AnyFailed
  <1> QED
    BY <1>1, <1>2 DEF ReportInv, Report!PassIsEarned, Demanded

LEMMA ReportInvHolds == Spec => []ReportInv
  <1>1. Report!Spec => []ReportInv
    BY ReportStarts, ReportInvKept, PTL DEF Report!Spec
  <1> QED
    BY <1>1, HostReports, PTL

(* A good report is earned, whatever its sources hold and whichever do not *)
(* answer: an audit graded PASS found DMARC and DNSSEC sound, and SPF -    *)
(* the queries that count against its limit are those of all the records   *)
(* that answered, each once, and all did unless the lookup of an include   *)
(* failed -, and saw no flaw; a doctor or a config check that ends well    *)
(* saw no failure in what answered, and a record dns check counts as       *)
(* correct was seen in public DNS.                                         *)
THEOREM ReportsAreEarned == Spec => []PassIsEarned
  <1> QED
    BY ReportInvHolds, ReportIsEarned, PTL DEF PassIsEarned

=============================================================================
