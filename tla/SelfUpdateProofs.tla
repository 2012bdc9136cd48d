-------------------------- MODULE SelfUpdateProofs --------------------------
(***************************************************************************)
(* Theorems about `mailadmin update`, for any tags, any number of          *)
(* processes and any number of faults.                                     *)
(***************************************************************************)
EXTENDS SelfUpdate, TLAPS

-----------------------------------------------------------------------------
(* Where an update holds a checksum, and where its file is complete.       *)
Summed == {"temp", "download", "verify", "install"}
Loaded == {"verify", "install"}

(* What is uploaded, and what was at first installed, has been published.  *)
Uploaded ==
    /\ exe \in published
    /\ \A t \in Tag : \A b \in {1, 2} :
          assets[t]["binary"] = b => [tag |-> t, build |-> b, whole |-> TRUE] \in published

(* The release found, once it is compared, is one with a binary; the       *)
(* checksum stands for a build of it.                                      *)
Found ==
    \A p \in Process :
        /\ pc[p] \in Summed \union {"compare", "sums"} => rel[p] \in Tag
        /\ pc[p] \in Summed =>
              /\ assets[rel[p]]["binary"] # 0
              /\ wantSum[p].tag = rel[p] /\ wantSum[p].whole = TRUE

(* A complete file that was downloaded has been published, and what is     *)
(* about to be installed is complete.                                      *)
Fetched ==
    \A p \in Process :
        /\ pc[p] \in Loaded => temp[p].tag = rel[p] /\ (temp[p].whole = TRUE => temp[p] \in published)
        /\ pc[p] = "install" => temp[p].whole = TRUE

IInv == UpdateTypeOK /\ Uploaded /\ Found /\ Fetched

-----------------------------------------------------------------------------
(* The first state.                                                        *)
LEMMA InitHolds == Init => IInv
  <1> SUFFICES ASSUME Init PROVE IInv
    OBVIOUS
  <1>1. Original \in Binary
    BY DEF Original, Binary, Build
  <1>2. UpdateTypeOK
    BY <1>1 DEF Init, UpdateTypeOK, Places, Asset
  <1>3. Uploaded
    BY DEF Init, Uploaded, Asset
  <1>4. Found /\ Fetched
    BY DEF Init, Found, Fetched, Summed, Loaded
  <1> QED
    BY <1>2, <1>3, <1>4 DEF IInv

(* The maintainer: what was published stays so, and an asset that is there *)
(* stays there.                                                            *)
LEMMA PublishKeeps ==
    ASSUME IInv, NEW t \in Tag, Publish(t)
    PROVE  IInv'
  <1>1. PICK has \in SUBSET Asset :
          /\ assets' = [assets EXCEPT ![t] = [a \in Asset |-> IF a \in has THEN 1 ELSE 0]]
          /\ published' = published \union
                {[tag |-> t, build |-> 1, whole |-> TRUE] : a \in has \intersect {"binary"}}
    BY DEF Publish
  <1>2. published \subseteq published'
    BY <1>1
  <1>0. [tag |-> t, build |-> 1, whole |-> TRUE] \in Binary
    BY DEF Binary, Build
  <1>3. published' \subseteq Binary
    BY <1>0, <1>1 DEF IInv, UpdateTypeOK
  <1>4. assets' \in [Tag -> [Asset -> 0 .. 2]]
    BY <1>1 DEF IInv, UpdateTypeOK
  <1>5. UpdateTypeOK'
    BY <1>3, <1>4 DEF IInv, UpdateTypeOK, Publish, process
  <1>6. \A u \in Tag \ {t} : assets'[u] = assets[u]
    BY <1>1 DEF IInv, UpdateTypeOK
  <1>7. assets'[t]["binary"] = 1 => [tag |-> t, build |-> 1, whole |-> TRUE] \in published'
    BY <1>1 DEF IInv, UpdateTypeOK, Asset
  <1>8. assets'[t]["binary"] # 2
    BY <1>1 DEF IInv, UpdateTypeOK, Asset
  <1>9. Uploaded'
    BY <1>2, <1>6, <1>7, <1>8 DEF IInv, Uploaded, Publish
  <1>10. assets[t]["binary"] = 0
    BY DEF Publish, Asset
  <1>11. Found'
    BY <1>6, <1>10 DEF IInv, Found, Publish, process, Summed
  <1>12. Fetched'
    BY <1>2 DEF IInv, Fetched, Publish, process, Loaded
  <1> QED
    BY <1>5, <1>9, <1>11, <1>12 DEF IInv

LEMMA ReuploadKeeps ==
    ASSUME IInv, NEW t \in Tag, NEW a \in Asset, Reupload(t, a)
    PROVE  IInv'
  <1>0. [tag |-> t, build |-> 2, whole |-> TRUE] \in Binary
    BY DEF Binary, Build
  <1>1. published \subseteq published' /\ published' \subseteq Binary
    BY <1>0 DEF Reupload, IInv, UpdateTypeOK
  <1>2. assets' \in [Tag -> [Asset -> 0 .. 2]]
    BY DEF Reupload, IInv, UpdateTypeOK
  <1>3. UpdateTypeOK'
    BY <1>1, <1>2 DEF IInv, UpdateTypeOK, Reupload, process
  <1>4. \A u \in Tag : \/ assets'[u]["binary"] = assets[u]["binary"]
                       \/ /\ u = t /\ a = "binary" /\ assets'[u]["binary"] = 2
                          /\ [tag |-> t, build |-> 2, whole |-> TRUE] \in published'
    BY DEF Reupload, IInv, UpdateTypeOK, Asset
  <1>5. Uploaded'
    BY <1>1, <1>4 DEF IInv, Uploaded, Reupload
  <1>6. \A u \in Tag : assets[u]["binary"] # 0 => assets'[u]["binary"] # 0
    BY <1>4
  <1>7. Found'
    BY <1>6 DEF IInv, Found, Reupload, process, Summed
  <1>8. Fetched'
    BY <1>1 DEF IInv, Fetched, Reupload, process, Loaded
  <1> QED
    BY <1>3, <1>5, <1>7, <1>8 DEF IInv

(* An update process.  Each step but the last leaves the executable and    *)
(* what is published alone.                                                *)
LEMMA StartKeeps ==
    ASSUME IInv, NEW p \in Process, Start(p)
    PROVE  IInv'
  <1>1. exe.tag \in Tag \union {Installed}
    BY DEF IInv, UpdateTypeOK, Binary
  <1>2. UpdateTypeOK'
    BY <1>1 DEF IInv, UpdateTypeOK, Start, Goto, Places
  <1>3. Uploaded'
    BY DEF IInv, Uploaded, Start
  <1>4. pc'[p] = "query" /\ \A q \in Process \ {p} :
            pc'[q] = pc[q] /\ rel'[q] = rel[q] /\ wantSum'[q] = wantSum[q]
    BY DEF IInv, UpdateTypeOK, Start, Goto
  <1>5. Found' /\ Fetched'
    BY <1>4 DEF IInv, Found, Fetched, Start, Summed, Loaded
  <1> QED
    BY <1>2, <1>3, <1>5 DEF IInv

LEMMA LatestKeeps ==
    ASSUME IInv, NEW p \in Process, Latest(p)
    PROVE  IInv'
  <1>1. latest \in Tag
    BY DEF IInv, UpdateTypeOK, Latest
  <1>2. UpdateTypeOK'
    BY <1>1 DEF IInv, UpdateTypeOK, Latest, Goto, Places
  <1>3. Uploaded'
    BY DEF IInv, Uploaded, Latest
  <1>4. /\ pc'[p] = "compare" /\ rel'[p] \in Tag
        /\ \A q \in Process \ {p} : pc'[q] = pc[q] /\ rel'[q] = rel[q]
    BY <1>1 DEF IInv, UpdateTypeOK, Latest, Goto
  <1>5. Found' /\ Fetched'
    BY <1>4 DEF IInv, Found, Fetched, Latest, Summed, Loaded
  <1> QED
    BY <1>2, <1>3, <1>5 DEF IInv

LEMMA CompareKeeps ==
    ASSUME IInv, NEW p \in Process, NewUpdateCmd(p)
    PROVE  IInv'
  <1>1. UpdateTypeOK' /\ Uploaded'
    BY DEF IInv, UpdateTypeOK, Uploaded, NewUpdateCmd, Goto, Places
  <1>2. pc'[p] \in {"idle", "sums"} /\ \A q \in Process \ {p} : pc'[q] = pc[q]
    BY DEF IInv, UpdateTypeOK, NewUpdateCmd, Goto
  <1>3. pc[p] = "compare" /\ UNCHANGED <<assets, rel, wantSum, temp, published>>
    BY DEF NewUpdateCmd
  <1>4. Found' /\ Fetched'
    BY <1>2, <1>3 DEF IInv, Found, Fetched, Summed, Loaded
  <1> QED
    BY <1>1, <1>4 DEF IInv

LEMMA FetchChecksumKeeps ==
    ASSUME IInv, NEW p \in Process, FetchChecksum(p)
    PROVE  IInv'
  <1> DEFINE sum == [tag |-> rel[p], build |-> assets[rel[p]]["checksums"], whole |-> TRUE]
  <1>1. rel[p] \in Tag
    BY DEF IInv, Found, FetchChecksum
  <1>2. assets[rel[p]]["checksums"] \in {1, 2} /\ assets[rel[p]]["binary"] # 0
    BY <1>1 DEF FetchChecksum, AssetFor, ChecksumsURL, IInv, UpdateTypeOK, Asset
  <1>3. sum \in Binary
    BY <1>1, <1>2 DEF Binary, Build
  <1>4. UpdateTypeOK'
    BY <1>3 DEF IInv, UpdateTypeOK, FetchChecksum, Goto, Places
  <1>5. Uploaded'
    BY DEF IInv, Uploaded, FetchChecksum
  <1>6. /\ pc'[p] = "temp" /\ wantSum'[p] = sum
        /\ \A q \in Process \ {p} : pc'[q] = pc[q] /\ wantSum'[q] = wantSum[q]
        /\ UNCHANGED <<assets, rel, temp, published>>
    BY DEF IInv, UpdateTypeOK, FetchChecksum, Goto
  <1>7. sum.tag = rel[p] /\ sum.whole = TRUE
    OBVIOUS
  <1> HIDE DEF sum
  <1>8. Found' /\ Fetched'
    BY <1>1, <1>2, <1>6, <1>7 DEF IInv, Found, Fetched, Summed, Loaded
  <1> QED
    BY <1>4, <1>5, <1>8 DEF IInv

LEMMA CreateTempKeeps ==
    ASSUME IInv, NEW p \in Process, CreateTemp(p)
    PROVE  IInv'
  <1>1. rel[p] \in Tag
    BY DEF IInv, Found, CreateTemp, Summed
  <1>2. UpdateTypeOK'
    BY <1>1 DEF IInv, UpdateTypeOK, CreateTemp, Goto, Places
  <1>3. Uploaded'
    BY DEF IInv, Uploaded, CreateTemp
  <1>4. /\ pc[p] = "temp" /\ pc'[p] = "download"
        /\ \A q \in Process \ {p} : pc'[q] = pc[q] /\ temp'[q] = temp[q]
        /\ UNCHANGED <<assets, rel, wantSum, published>>
    BY DEF IInv, UpdateTypeOK, CreateTemp, Goto
  <1>5. Found' /\ Fetched'
    BY <1>4 DEF IInv, Found, Fetched, Summed, Loaded
  <1> QED
    BY <1>2, <1>3, <1>5 DEF IInv

LEMMA DownloadKeeps ==
    ASSUME IInv, NEW p \in Process, Download(p)
    PROVE  IInv'
  <1>1. PICK whole \in BOOLEAN : temp' = [temp EXCEPT ![p] =
            [tag |-> rel[p], build |-> assets[rel[p]]["binary"], whole |-> whole]]
    BY DEF Download
  <1> DEFINE got == [tag |-> rel[p], build |-> assets[rel[p]]["binary"], whole |-> whole]
  <1>2. rel[p] \in Tag /\ assets[rel[p]]["binary"] # 0
    BY DEF IInv, Found, Download, Summed
  <1>3. assets[rel[p]]["binary"] \in {1, 2}
    BY <1>2 DEF IInv, UpdateTypeOK, Asset
  <1>4. got \in [tag : Tag, build : 0 .. 2, whole : BOOLEAN]
    BY <1>2, <1>3
  <1>5. UpdateTypeOK'
    BY <1>1, <1>4 DEF IInv, UpdateTypeOK, Download, Goto, Places
  <1>6. Uploaded'
    BY DEF IInv, Uploaded, Download
  <1>7. got.tag = rel[p] /\ (got.whole = TRUE => got \in published)
    BY <1>2, <1>3 DEF IInv, Uploaded
  <1>8. /\ pc[p] = "download" /\ pc'[p] = "verify" /\ temp'[p] = got
        /\ \A q \in Process \ {p} : pc'[q] = pc[q] /\ temp'[q] = temp[q]
        /\ UNCHANGED <<assets, rel, wantSum, published>>
    BY <1>1 DEF IInv, UpdateTypeOK, Download, Goto
  <1> HIDE DEF got
  <1>9. Found'
    BY <1>8 DEF IInv, Found, Summed
  <1>10. Fetched'
    BY <1>7, <1>8 DEF IInv, Fetched, Loaded
  <1> QED
    BY <1>5, <1>6, <1>9, <1>10 DEF IInv

(* The file equals what the checksum stands for, which is complete.        *)
LEMMA VerifyKeeps ==
    ASSUME IInv, NEW p \in Process, Verify(p)
    PROVE  IInv'
  <1>1. UpdateTypeOK' /\ Uploaded'
    BY DEF IInv, UpdateTypeOK, Uploaded, Verify, Goto, Places
  <1>2. /\ pc[p] = "verify" /\ pc'[p] = "install" /\ temp[p] = wantSum[p]
        /\ \A q \in Process \ {p} : pc'[q] = pc[q]
        /\ UNCHANGED <<assets, rel, wantSum, temp, published>>
    BY DEF IInv, UpdateTypeOK, Verify, Goto
  <1>3. Found'
    BY <1>2 DEF IInv, Found, Summed
  <1>4. wantSum[p].whole = TRUE
    BY <1>2 DEF IInv, Found, Summed
  <1>5. Fetched'
    BY <1>2, <1>4 DEF IInv, Fetched, Loaded
  <1> QED
    BY <1>1, <1>3, <1>5 DEF IInv

(* What is installed has been published.                                   *)
LEMMA InstallsPublished ==
    ASSUME IInv, NEW p \in Process, Install(p)
    PROVE  exe' \in published
  BY DEF IInv, Fetched, Install, Loaded

LEMMA InstallKeeps ==
    ASSUME IInv, NEW p \in Process, Install(p)
    PROVE  IInv'
  <1>1. exe' \in published /\ exe' \in Binary
    BY InstallsPublished DEF IInv, UpdateTypeOK
  <1>2. UpdateTypeOK'
    BY <1>1 DEF IInv, UpdateTypeOK, Install, Goto, Places
  <1>3. Uploaded'
    BY <1>1 DEF IInv, Uploaded, Install
  <1>4. /\ pc'[p] = "idle"
        /\ \A q \in Process \ {p} : pc'[q] = pc[q] /\ temp'[q] = temp[q]
        /\ UNCHANGED <<assets, rel, wantSum, published>>
    BY DEF IInv, UpdateTypeOK, Install, Goto
  <1>5. Found' /\ Fetched'
    BY <1>4 DEF IInv, Found, Fetched, Summed, Loaded
  <1> QED
    BY <1>2, <1>3, <1>5 DEF IInv

LEMMA StopKeeps ==
    ASSUME IInv, NEW p \in Process, Fail(p) \/ Crash(p)
    PROVE  IInv'
  <1>1. UpdateTypeOK' /\ Uploaded'
    BY DEF IInv, UpdateTypeOK, Uploaded, Fail, Crash, Goto, Places
  <1>2. /\ pc'[p] = "idle"
        /\ \A q \in Process \ {p} : pc'[q] = pc[q] /\ temp'[q] = temp[q]
        /\ UNCHANGED <<assets, rel, wantSum, published>>
    BY DEF IInv, UpdateTypeOK, Fail, Crash, Goto
  <1>3. Found' /\ Fetched'
    BY <1>2 DEF IInv, Found, Fetched, Summed, Loaded
  <1> QED
    BY <1>1, <1>3 DEF IInv

LEMMA NextHolds == IInv /\ [Next]_vars => IInv'
  <1> SUFFICES ASSUME IInv, [Next]_vars PROVE IInv'
    OBVIOUS
  <1>1. ASSUME NEW t \in Tag, Publish(t) PROVE IInv'
    BY <1>1, PublishKeeps
  <1>2. ASSUME NEW t \in Tag, NEW a \in Asset, Reupload(t, a) PROVE IInv'
    BY <1>2, ReuploadKeeps
  <1>3. ASSUME NEW p \in Process, Start(p) \/ Crash(p) PROVE IInv'
    BY <1>3, StartKeeps, StopKeeps
  <1>4. ASSUME NEW p \in Process, Step(p) PROVE IInv'
    BY <1>4, LatestKeeps, CompareKeeps, FetchChecksumKeeps, CreateTempKeeps, DownloadKeeps,
       VerifyKeeps, InstallKeeps, StopKeeps DEF Step
  <1>5. CASE UNCHANGED vars
    BY <1>5 DEF IInv, UpdateTypeOK, Uploaded, Found, Fetched, vars, process
  <1> QED
    BY <1>1, <1>2, <1>3, <1>4, <1>5 DEF Next

(* Every reachable state satisfies the inductive invariant.                *)
THEOREM UpdateInvariant == Spec => []IInv
  <1>1. Init => IInv
    BY InitHolds
  <1>2. IInv /\ [Next]_vars => IInv'
    BY NextHolds
  <1> QED
    BY <1>1, <1>2, PTL DEF Spec

-----------------------------------------------------------------------------
(* Every step of the update is a publication, a replacement by something   *)
(* published, or nothing at all to the installed program: the update       *)
(* implements the atomic register of Executable (selfupdate.go:171-174).   *)
LEMMA StepIsRegisterStep ==
    ASSUME IInv, [Next]_vars
    PROVE  [Register!Next]_(Register!vars)
  <1>1. ASSUME NEW t \in Tag, Publish(t) PROVE Register!Publish
    BY <1>1 DEF Publish, Register!Publish
  <1>2. ASSUME NEW t \in Tag, NEW a \in Asset, Reupload(t, a) PROVE Register!Publish
    BY <1>2 DEF Reupload, Register!Publish
  <1>3. ASSUME NEW p \in Process, Install(p) PROVE Register!Replace
    BY <1>3, InstallsPublished DEF Install, Register!Replace
  <1>4. ASSUME NEW p \in Process, Start(p) \/ Crash(p) \/ (Step(p) /\ ~Install(p))
        PROVE  UNCHANGED Register!vars
    BY <1>4 DEF Start, Crash, Step, Latest, NewUpdateCmd, FetchChecksum, CreateTemp,
       Download, Verify, Fail, Register!vars
  <1>5. CASE UNCHANGED vars
    BY <1>5 DEF vars, Register!vars
  <1> QED
    BY <1>1, <1>2, <1>3, <1>4, <1>5 DEF Next, Register!Next

(* Whatever fails, dies, is cut or replaced, and however many updates run, *)
(* the installed program is at all times a whole published binary,         *)
(* replaced in one step.                                                   *)
THEOREM UpdateIsAtomic == Spec => AtomicReplace
  <1>1. Init => Register!Init
    BY DEF Init, Register!Init
  <1>2. IInv /\ [Next]_vars => [Register!Next]_(Register!vars)
    BY StepIsRegisterStep
  <1> QED
    BY <1>1, <1>2, UpdateInvariant, PTL DEF Spec, AtomicReplace, Register!Spec

-----------------------------------------------------------------------------
(* What IsNewer finds newer is higher.                                     *)
LEMMA NewerIsHigher ==
    ASSUME NEW t, NEW u, t.nums \in Seq(Nat), u.nums \in Seq(Nat), IsNewer(u, t)
    PROVE  Higher(t, u)
  <1> DEFINE a == t.nums
             b == u.nums
  <1>1. Len(a) = 3 /\ ParseSemver(t) = a
    BY DEF IsNewer, ParseSemver
  <1>2. CASE Len(b) # 3
    BY <1>1, <1>2 DEF Higher
  <1>3. CASE Len(b) = 3
    <2>0. ASSUME b = <<>> PROVE FALSE
      <3>1. Len(<<>>) = 0
        OBVIOUS
      <3> QED
        BY <1>3, <2>0, <3>1
    <2>1. ParseSemver(u) = b /\ b # <<>>
      BY <1>3, <2>0 DEF ParseSemver
    <2>2. PICK i \in 1 .. 3 : a[i] > b[i] /\ \A j \in 1 .. i - 1 : a[j] = b[j]
      BY <1>1, <2>1 DEF IsNewer
    <2>3. i = 1 \/ i = 2 \/ i = 3
      BY <2>2
    <2>4. CASE i = 1
      BY <1>1, <2>2, <2>4 DEF Higher
    <2>5. CASE i = 2
      <3>1. a[1] = b[1] /\ a[2] > b[2]
        BY <2>2, <2>5
      <3> QED
        BY <1>1, <3>1 DEF Higher
    <2>6. CASE i = 3
      <3>1. a[1] = b[1] /\ a[2] = b[2] /\ a[3] > b[3]
        BY <2>2, <2>6
      <3> QED
        BY <1>1, <3>1 DEF Higher
    <2> QED
      BY <2>3, <2>4, <2>5, <2>6
  <1> QED
    BY <1>2, <1>3

(* An update goes on only with a release newer than the program it runs,   *)
(* which is the one installed as long as no other update has overtaken it. *)
Ahead ==
    \A p \in Process :
        /\ pc[p] \in Summed \union {"sums"} => IsNewer(running[p], rel[p])
        /\ pc[p] # "idle" /\ ~overtaken[p] => running[p] = exe.tag

LEMMA AheadHolds == IInv /\ Ahead /\ [Next]_vars => Ahead'
  <1> SUFFICES ASSUME IInv, Ahead, [Next]_vars PROVE Ahead'
    OBVIOUS
  <1>1. ASSUME NEW t \in Tag, Publish(t) PROVE Ahead'
    BY <1>1 DEF Ahead, Publish, process, Summed, IsNewer
  <1>2. ASSUME NEW t \in Tag, NEW a \in Asset, Reupload(t, a) PROVE Ahead'
    BY <1>2 DEF Ahead, Reupload, process, Summed, IsNewer
  <1>3. ASSUME NEW p \in Process, Start(p) PROVE Ahead'
    <2>1. /\ pc'[p] = "query" /\ running'[p] = exe.tag
          /\ \A q \in Process \ {p} : /\ pc'[q] = pc[q] /\ running'[q] = running[q]
                                      /\ rel'[q] = rel[q] /\ overtaken'[q] = overtaken[q]
          /\ exe' = exe
      BY <1>3 DEF Start, Goto, IInv, UpdateTypeOK
    <2> QED
      BY <2>1 DEF Ahead, Summed
  <1>4. ASSUME NEW p \in Process, Latest(p) PROVE Ahead'
    <2>1. /\ pc[p] = "query" /\ pc'[p] = "compare"
          /\ \A q \in Process \ {p} : pc'[q] = pc[q] /\ rel'[q] = rel[q]
          /\ UNCHANGED <<exe, running, overtaken>>
      BY <1>4 DEF Latest, Goto, IInv, UpdateTypeOK
    <2> QED
      BY <2>1 DEF Ahead, Summed
  <1>5. ASSUME NEW p \in Process, NewUpdateCmd(p) PROVE Ahead'
    <2>1. /\ pc[p] = "compare" /\ \/ pc'[p] = "idle"
                                  \/ pc'[p] = "sums" /\ IsNewer(running[p], rel[p])
          /\ \A q \in Process \ {p} : pc'[q] = pc[q]
          /\ UNCHANGED <<exe, running, rel, overtaken>>
      BY <1>5 DEF NewUpdateCmd, Goto, IInv, UpdateTypeOK
    <2> QED
      BY <2>1 DEF Ahead, Summed
  <1>6. ASSUME NEW p \in Process,
               FetchChecksum(p) \/ CreateTemp(p) \/ Download(p) \/ Verify(p)
        PROVE  Ahead'
    <2>1. /\ pc[p] \in Summed \union {"sums"} /\ pc'[p] \in Summed
          /\ \A q \in Process \ {p} : pc'[q] = pc[q]
          /\ UNCHANGED <<exe, running, rel, overtaken>>
      BY <1>6 DEF FetchChecksum, CreateTemp, Download, Verify, Goto, IInv, UpdateTypeOK, Summed
    <2> QED
      BY <2>1 DEF Ahead, Summed
  <1>7. ASSUME NEW p \in Process, Install(p) PROVE Ahead'
    <2>1. /\ pc'[p] = "idle"
          /\ \A q \in Process \ {p} : pc'[q] = pc[q] /\ overtaken'[q] = TRUE
          /\ UNCHANGED <<running, rel>>
      BY <1>7 DEF Install, Goto, IInv, UpdateTypeOK
    <2> QED
      BY <2>1 DEF Ahead, Summed
  <1>8. ASSUME NEW p \in Process, Fail(p) \/ Crash(p) PROVE Ahead'
    <2>1. /\ pc'[p] = "idle"
          /\ \A q \in Process \ {p} : pc'[q] = pc[q]
          /\ UNCHANGED <<exe, running, rel, overtaken>>
      BY <1>8 DEF Fail, Crash, Goto, IInv, UpdateTypeOK
    <2> QED
      BY <2>1 DEF Ahead, Summed
  <1>9. CASE UNCHANGED vars
    BY <1>9 DEF Ahead, vars, process
  <1> QED
    BY <1>1, <1>2, <1>3, <1>4, <1>5, <1>6, <1>7, <1>8, <1>9 DEF Next, Step

LEMMA InstallUpgrades ==
    ASSUME UpdateAssumption, IInv, Ahead, NEW p \in Process, Install(p), ~overtaken[p]
    PROVE  Higher(exe'.tag, exe.tag)
  <1>1. exe' = temp[p] /\ temp[p].tag = rel[p] /\ rel[p] \in Tag
    BY DEF Install, IInv, Fetched, Found, Loaded, Summed
  <1>2. IsNewer(running[p], rel[p]) /\ running[p] = exe.tag
    BY DEF Ahead, Install, Summed
  <1>3. exe.tag \in Tag \union {Installed}
    BY DEF IInv, UpdateTypeOK, Binary
  <1> QED
    BY <1>1, <1>2, <1>3, NewerIsHigher DEF UpdateAssumption

(* An update that no other overtook installs a version that is strictly    *)
(* higher than the one it replaces (selfupdate.go:107-109).                *)
THEOREM UpdatesGoUp ==
    ASSUME UpdateAssumption
    PROVE  Spec => OnlyUpgrades
  <1> DEFINE Up == \A p \in Process : Install(p) /\ ~overtaken[p] => Higher(exe'.tag, exe.tag)
  <1>1. Init => Ahead
    BY DEF Init, Ahead, Summed
  <1>2. IInv /\ Ahead /\ [Next]_vars => Ahead'
    BY AheadHolds
  <1>3. IInv /\ Ahead /\ [Next]_vars => [Up]_vars
    BY InstallUpgrades, UpdateAssumption
  <1> QED
    BY <1>1, <1>2, <1>3, UpdateInvariant, PTL DEF Spec, OnlyUpgrades

=============================================================================
