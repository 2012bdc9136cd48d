---------------------------- MODULE MaildirDedupe ----------------------------
(***************************************************************************)
(* mailadmin mailbox dedupe (maildir.go:117-172): passes over a mailbox's  *)
(* maildir that delete every message whose Message-ID was seen before, in  *)
(* the order of folders and file names.  A pass lists one folder at a time *)
(* and then opens its files one by one, while mail is delivered, the       *)
(* mailbox's owner moves and expunges messages, and other passes run.      *)
(*                                                                         *)
(* A file is [pos, mid]: its place in that order, which the folder and the *)
(* unique name give it, and its Message-ID, NoId if it has none.           *)
(***************************************************************************)
EXTENDS Integers

CONSTANTS
    Process,   \* the passes
    Pos,       \* the places, in the order a pass visits them
    Folders,   \* the number of folders, numbered in keep-priority order
    FolderOf,  \* FolderOf[x]: the folder of a place
    Mid,       \* the Message-IDs
    NoId,      \* of a message without one
    NoFile     \* no place

(* What a mailbox is: files in an order that goes folder by folder.         *)
DedupeAssumption ==
    /\ Pos \subseteq Nat /\ Folders \in Nat
    /\ NoId \notin Mid /\ NoFile \notin Pos
    /\ FolderOf \in [Pos -> 1 .. Folders]
    /\ \A x, y \in Pos : x <= y => FolderOf[x] <= FolderOf[y]

File == [pos : Pos, mid : Mid \union {NoId}]

VARIABLES
    box,       \* the files of the mailbox
    used,      \* the places given so far: a name is never given twice
    pc,        \* pc[p]: "idle", "scan", "done" or "failed"
    at,        \* at[p]: the folder p lists next
    todo,      \* todo[p]: the listed places p has yet to look at
    seen,      \* seen[p]: the files p kept; the code stores their ids
    doomed,    \* doomed[p]: the place p is about to delete, or NoFile
    dry,       \* dry[p]: is it a dry run?
    disturbed, \* history: since p started, mail came, moved or went, or a
               \* deletion of p failed
    arrived,   \* history: the ids of messages that were ever in the box
    touched    \* history: the ids of messages the owner moved or expunged

pass == <<pc, at, todo, seen, doomed, dry>>
vars == <<box, used, pass, disturbed, arrived, touched>>

SeenIds(p) == {f.mid : f \in seen[p]}

-----------------------------------------------------------------------------
Init ==
    /\ box \in SUBSET File
    /\ \A f, g \in box : f.pos = g.pos => f = g
    /\ used = {f.pos : f \in box}
    /\ pc = [p \in Process |-> "idle"]
    /\ at = [p \in Process |-> 1]
    /\ todo = [p \in Process |-> {}]
    /\ seen = [p \in Process |-> {}]
    /\ doomed = [p \in Process |-> NoFile]
    /\ dry = [p \in Process |-> FALSE]
    /\ disturbed = [p \in Process |-> FALSE]
    /\ arrived = {f.mid : f \in box} \ {NoId}
    /\ touched = {}

Start(p) ==
    /\ pc[p] = "idle"
    /\ pc' = [pc EXCEPT ![p] = "scan"]
    /\ dry' \in {[dry EXCEPT ![p] = d] : d \in BOOLEAN}
    /\ disturbed' = [disturbed EXCEPT ![p] = FALSE]
    /\ UNCHANGED <<box, used, at, todo, seen, doomed, arrived, touched>>

(* A bug Dedupe might have: an id is forgotten with its folder.            *)
ForgetFolder(p) ==
    /\ pc[p] = "scan" /\ todo[p] = {} /\ doomed[p] = NoFile /\ at[p] <= Folders
    /\ todo' = [todo EXCEPT ![p] =
          {x \in Pos : FolderOf[x] = at[p] /\ \E f \in box : f.pos = x}]
    /\ at' = [at EXCEPT ![p] = @ + 1]
    /\ seen' = [seen EXCEPT ![p] = {}]
    /\ UNCHANGED <<box, used, pc, doomed, dry, disturbed, arrived, touched>>

(* os.ReadDir of the next folder; a folder that is not there has no files. *)
ListFolder(p) ==
    /\ pc[p] = "scan" /\ todo[p] = {} /\ doomed[p] = NoFile /\ at[p] <= Folders
    /\ todo' = [todo EXCEPT ![p] =
          {x \in Pos : FolderOf[x] = at[p] /\ \E f \in box : f.pos = x}]
    /\ at' = [at EXCEPT ![p] = @ + 1]
    /\ UNCHANGED <<box, used, pc, seen, doomed, dry, disturbed, arrived, touched>>

(* A bug Dedupe might have: the last of the copies is kept, not the first. *)
LastFirst(p) ==
    /\ pc[p] = "scan" /\ doomed[p] = NoFile
    /\ \E x \in todo[p] :
          /\ \A y \in todo[p] : y <= x
          /\ todo' = [todo EXCEPT ![p] = @ \ {x}]
          /\ \/ /\ \A f \in box : f.pos # x
                /\ UNCHANGED <<seen, doomed>>
             \/ \E f \in box :
                   /\ f.pos = x
                   /\ seen' = [seen EXCEPT ![p] =
                         IF f.mid = NoId \/ f.mid \in SeenIds(p) THEN @ ELSE @ \union {f}]
                   /\ doomed' = [doomed EXCEPT ![p] =
                         IF f.mid \in SeenIds(p) THEN x ELSE @]
    /\ UNCHANGED <<box, used, pc, at, dry, disturbed, arrived, touched>>

(* The next listed file is opened: it may have gone or have no id, it is   *)
(* the first of its id, or it is a duplicate.                              *)
Scan(p) ==
    /\ pc[p] = "scan" /\ doomed[p] = NoFile
    /\ \E x \in todo[p] :
          /\ \A y \in todo[p] : x <= y
          /\ todo' = [todo EXCEPT ![p] = @ \ {x}]
          /\ \/ /\ \A f \in box : f.pos # x
                /\ UNCHANGED <<seen, doomed>>
             \/ \E f \in box :
                   /\ f.pos = x
                   /\ seen' = [seen EXCEPT ![p] =
                         IF f.mid = NoId \/ f.mid \in SeenIds(p) THEN @ ELSE @ \union {f}]
                   /\ doomed' = [doomed EXCEPT ![p] =
                         IF f.mid \in SeenIds(p) THEN x ELSE @]
    /\ UNCHANGED <<box, used, pc, at, dry, disturbed, arrived, touched>>

(* The duplicate is deleted, unless it is a dry run, it has gone meanwhile *)
(* or the deletion fails.                                                  *)
Remove(p) ==
    /\ pc[p] = "scan" /\ doomed[p] # NoFile
    /\ doomed' = [doomed EXCEPT ![p] = NoFile]
    /\ \/ /\ box' = {f \in box : dry[p] \/ f.pos # doomed[p]}
          /\ UNCHANGED disturbed
       \/ /\ UNCHANGED box
          /\ disturbed' = [disturbed EXCEPT ![p] = TRUE]
    /\ UNCHANGED <<used, pc, at, todo, seen, dry, arrived, touched>>

Finish(p) ==
    /\ pc[p] = "scan" /\ todo[p] = {} /\ doomed[p] = NoFile /\ at[p] > Folders
    /\ pc' = [pc EXCEPT ![p] = "done"]
    /\ UNCHANGED <<box, used, at, todo, seen, doomed, dry, disturbed, arrived, touched>>

(* A folder cannot be read, or the process dies.                           *)
Fail(p) ==
    /\ pc[p] = "scan"
    /\ pc' = [pc EXCEPT ![p] = "failed"]
    /\ UNCHANGED <<box, used, at, todo, seen, doomed, dry, disturbed, arrived, touched>>

Disturb == disturbed' = [p \in Process |-> TRUE]

(* A message is delivered, or stored by the owner's client.                *)
Deliver ==
    /\ \E f \in File :
          /\ f.pos \notin used
          /\ box' = box \union {f}
          /\ used' = used \union {f.pos}
          /\ arrived' = arrived \union ({f.mid} \ {NoId})
    /\ Disturb
    /\ UNCHANGED <<pass, touched>>

(* The owner moves a message to another folder, or changes its flags and   *)
(* with them its file name.                                                *)
Move ==
    /\ \E f \in box, x \in Pos \ used :
          /\ box' = (box \ {f}) \union {[pos |-> x, mid |-> f.mid]}
          /\ used' = used \union {x}
          /\ touched' = touched \union {f.mid}
    /\ Disturb
    /\ UNCHANGED <<pass, arrived>>

Expunge ==
    /\ \E f \in box :
          /\ box' = box \ {f}
          /\ touched' = touched \union {f.mid}
    /\ Disturb
    /\ UNCHANGED <<used, pass, arrived>>

Next ==
    \/ \E p \in Process :
          Start(p) \/ ListFolder(p) \/ Scan(p) \/ Remove(p) \/ Finish(p) \/ Fail(p)
    \/ Deliver \/ Move \/ Expunge

Spec == Init /\ [][Next]_vars

-----------------------------------------------------------------------------
BoxTypeOK ==
    /\ box \subseteq File
    /\ used \subseteq Pos
    /\ pc \in [Process -> {"idle", "scan", "done", "failed"}]
    /\ at \in [Process -> Nat]
    /\ todo \in [Process -> SUBSET Pos]
    /\ seen \in [Process -> SUBSET [pos : Pos, mid : Mid]]
    /\ doomed \in [Process -> Pos \union {NoFile}]
    /\ dry \in [Process -> BOOLEAN]
    /\ disturbed \in [Process -> BOOLEAN]
    /\ arrived \subseteq Mid
    /\ touched \subseteq Mid \union {NoId}

(* However many passes run at once, whatever is delivered meanwhile and    *)
(* whichever deletions fail, a message keeps at least one of its copies,   *)
(* unless its owner moves or expunges it.                                  *)
KeepsOne ==
    \A m \in arrived \ touched : \E f \in box : f.mid = m

(* A pass that finished undisturbed left no message twice, whatever other  *)
(* passes did.                                                             *)
DedupeComplete ==
    \A p \in Process : pc[p] = "done" /\ ~dry[p] /\ ~disturbed[p] =>
        \A f, g \in box : f.mid = g.mid /\ f.mid # NoId => f = g

(* Of a message's copies a pass has looked at, it keeps the first in       *)
(* folder-priority order: what it deletes comes later than a copy that is  *)
(* there, for a message its owner has not touched.                         *)
KeepsFirst ==
    [][\A f \in box \ box' : f.mid \in touched' \/
          \E g \in box' : g.mid = f.mid /\ g.pos < f.pos]_vars

=============================================================================
