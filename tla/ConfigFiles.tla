---------------------------- MODULE ConfigFiles ----------------------------
(***************************************************************************)
(* The two files every command starts from, config.toml and secrets.env:   *)
(* config init writes starters, config edit hands config.toml to an editor *)
(* and validates what it left, and every other command loads both.  The    *)
(* processes take no lock; a write can fail half way, a process can die.   *)
(*                                                                         *)
(* A file is absent, "part" (created, or written in part), "starter",      *)
(* "edited" (a whole text the operator saved) or "broken" (one that does   *)
(* not parse or validate).                                                 *)
(***************************************************************************)
EXTENDS Naturals

CONSTANTS
    Process,     \* the mailadmin processes
    MaxCommands, \* bound: commands started in a behaviour
    MaxFaults    \* bound: failed writes, crashes and chmods

Text == {"absent", "part", "starter", "edited", "broken"}

VARIABLES
    file,      \* file["config"], file["secrets"]: what they hold
    open,      \* can others than the owner read secrets.env?
    pc,        \* pc[p]: "idle", its next step, "done" or "failed"
    creating,  \* creating[p]: the file p created and has yet to write
    got,       \* got[p]: the configuration and the secrets p loaded
    overtaken, \* history: somebody else wrote since p started
    saved,     \* history: the files the operator saved a text in
    clashed,   \* history: those an init wrote over what was saved
    inits,     \* history: how many inits reported success
    started, faults

process == <<pc, creating, got>>
history == <<saved, clashed, inits>>
vars == <<file, open, process, overtaken, history, started, faults>>

Goto(p, where) == pc' = [pc EXCEPT ![p] = where]
Fault == faults < MaxFaults /\ faults' = faults + 1
Others(p) == overtaken' = [q \in Process |-> overtaken[q] \/ q # p]

(* The operator has saved a text, sound or not, in f.                      *)
Saves(f) == saved' = saved \union {f} /\ clashed' = clashed \ {f} /\ UNCHANGED inits
Saved(t) == t \in {"edited", "broken"}

Nothing == [config |-> "none", secrets |-> "none"]

Init ==
    /\ file \in [{"config", "secrets"} -> {"absent", "edited"}]
    /\ open = FALSE
    /\ pc = [p \in Process |-> "idle"]
    /\ creating = [p \in Process |-> "none"]
    /\ got = [p \in Process |-> Nothing]
    /\ overtaken = [p \in Process |-> FALSE]
    /\ saved = {f \in DOMAIN file : Saved(file[f])} /\ clashed = {} /\ inits = 0
    /\ started = 0 /\ faults = 0

(* config init, config edit, or a command that loads the configuration.    *)
Start(p) ==
    /\ pc[p] \in {"idle", "done", "failed"} /\ started < MaxCommands
    /\ started' = started + 1
    /\ \E what \in {"init config", "stat", "load config"} : Goto(p, what)
    /\ got' = [got EXCEPT ![p] = Nothing]
    /\ overtaken' = [overtaken EXCEPT ![p] = FALSE]
    /\ UNCHANGED <<file, open, creating, history, faults>>

-----------------------------------------------------------------------------
(* config init: a file that is there is never overwritten (O_EXCL).        *)

(* A bug writeNew might have: it truncates what is there.                  *)
CreateOver(p, f) ==
    /\ file' = [file EXCEPT ![f] = "part"]
    /\ creating' = [creating EXCEPT ![p] = f]
    /\ Goto(p, "write")

CreateNew(p, f) ==
    \/ /\ file[f] = "absent"
       /\ file' = [file EXCEPT ![f] = "part"]
       /\ creating' = [creating EXCEPT ![p] = f]
       /\ Goto(p, "write")
    \/ /\ file[f] # "absent"
       /\ Goto(p, "failed")
       /\ UNCHANGED <<file, creating>>

InitDir(p) ==
    /\ \/ pc[p] = "init config" /\ CreateNew(p, "config")
       \/ pc[p] = "init secrets" /\ CreateNew(p, "secrets")
    /\ Others(p)
    /\ UNCHANGED <<open, got, history, started, faults>>

(* The starter is written into the file just created.  A save may have     *)
(* come in between: it stays, when the editor put another file in place,   *)
(* or its beginning or all of it is overwritten.  A write that fails may   *)
(* have happened.                                                          *)
Outcomes(t) == IF t = "part" THEN {"starter"} ELSE {t, "broken", "starter"}

WriteNew(p) ==
    LET f == creating[p]
    IN /\ pc[p] = "write"
       /\ \/ /\ \E t \in Outcomes(file[f]) : file' = [file EXCEPT ![f] = t]
             /\ Goto(p, IF f = "config" THEN "init secrets" ELSE "done")
             /\ inits' = IF f = "config" THEN inits ELSE inits + 1
             /\ UNCHANGED faults
          \/ /\ Fault
             /\ \E t \in Outcomes(file[f]) \union {file[f]} : file' = [file EXCEPT ![f] = t]
             /\ Goto(p, "failed")
             /\ UNCHANGED inits
       /\ clashed' = IF file[f] = "part" THEN clashed ELSE clashed \union {f}
       /\ creating' = [creating EXCEPT ![p] = "none"]
       /\ Others(p)
       /\ UNCHANGED <<open, got, saved, started>>

-----------------------------------------------------------------------------
(* config edit: the file must be there; the editor saves a text, sound or  *)
(* not, saves nothing, or fails.                                           *)
Stat(p) ==
    /\ pc[p] = "stat"
    /\ Goto(p, IF file["config"] = "absent" THEN "failed" ELSE "editor")
    /\ UNCHANGED <<file, open, creating, got, overtaken, history, started, faults>>

(* A bug runConfigEdit might have: what was saved is not loaded again.     *)
EditUnvalidated(p) ==
    /\ pc[p] = "editor"
    /\ file' \in {file} \union {[file EXCEPT !["config"] = t] : t \in {"edited", "broken"}}
    /\ Goto(p, "done")
    /\ IF file' = file THEN UNCHANGED <<overtaken, history>>
       ELSE Others(p) /\ Saves("config")
    /\ UNCHANGED <<open, creating, got, started, faults>>

RunConfigEdit(p) ==
    /\ pc[p] = "editor"
    /\ file' \in {file} \union {[file EXCEPT !["config"] = t] : t \in {"edited", "broken"}}
    /\ Goto(p, "load config") \/ Goto(p, "failed")
    /\ IF file' = file THEN UNCHANGED <<overtaken, history>>
       ELSE Others(p) /\ Saves("config")
    /\ UNCHANGED <<open, creating, got, started, faults>>

-----------------------------------------------------------------------------
(* Load: config.toml decodes and validates - a starter cut short lacks     *)
(* keys that are required - and then secrets.env is read.                  *)

Load(p) ==
    /\ pc[p] = "load config"
    /\ IF file["config"] \in {"starter", "edited"}
       THEN Goto(p, "load secrets") /\ got' = [got EXCEPT ![p].config = file["config"]]
       ELSE Goto(p, "failed") /\ UNCHANGED got
    /\ UNCHANGED <<file, open, creating, overtaken, history, started, faults>>

(* A missing file means no secrets.  So does a starter: all its values are *)
(* blank, and so are those of any beginning of it that a write cut short   *)
(* left; nothing requires a secret to be set.                              *)
Parsed(t) == IF t \in {"absent", "part", "starter"} THEN "none" ELSE t

(* A file that others can read is refused.                                 *)
LoadSecrets(p) ==
    /\ pc[p] = "load secrets"
    /\ IF file["secrets"] # "absent" /\ open
       THEN Goto(p, "failed") /\ UNCHANGED got
       ELSE Goto(p, "done") /\ got' = [got EXCEPT ![p].secrets = Parsed(file["secrets"])]
    /\ UNCHANGED <<file, open, creating, overtaken, history, started, faults>>

(* The operator fills in secrets.env, or changes its mode.                 *)
EditSecrets ==
    /\ Fault
    /\ file["secrets"] # "absent"
    /\ \/ file' = [file EXCEPT !["secrets"] = "edited"] /\ Saves("secrets") /\ UNCHANGED open
       \/ open' = ~open /\ UNCHANGED <<file, history>>
    /\ overtaken' = [p \in Process |-> TRUE]
    /\ UNCHANGED <<process, started>>

Crash(p) ==
    /\ pc[p] \notin {"idle", "done", "failed"} /\ Fault
    /\ Goto(p, "failed")
    /\ creating' = [creating EXCEPT ![p] = "none"]
    /\ UNCHANGED <<file, open, got, overtaken, history, started>>

Step(p) ==
    \/ InitDir(p) \/ WriteNew(p) \/ Stat(p) \/ RunConfigEdit(p) \/ Load(p)
    \/ LoadSecrets(p)

Next ==
    \/ \E p \in Process : Start(p) \/ Step(p) \/ Crash(p)
    \/ EditSecrets

Spec == Init /\ [][Next]_vars

-----------------------------------------------------------------------------
(* However many inits run at once, are run again or die half way, at most  *)
(* one ever reports success, and from then on both files are there and     *)
(* neither is half written: a later init never touches what it finds ("a   *)
(* re-run never clobbers real config or secrets", command.go:203-204), and *)
(* one that finds what another left half done never passes it off as done. *)
InitSucceedsOnce ==
    /\ inits <= 1
    /\ inits = 1 => \A f \in {"config", "secrets"} : file[f] \notin {"absent", "part"}

(* Who goes on past the load runs on a whole, valid config.toml and, if    *)
(* nobody wrote meanwhile, on what the operator saved last in either file, *)
(* whatever inits ran, failed or died since; where he never saved any, on  *)
(* the starter of config.toml and without secrets.  Only a save that came  *)
(* between an init's creation of the file and its write may be lost.  And  *)
(* an edit or an init that reports success and was not overtaken leaves a  *)
(* config.toml every command accepts.                                      *)
SuccessIsUsable ==
    \A p \in Process : pc[p] = "done" =>
        /\ got[p] # Nothing =>
              /\ got[p].config \in {"starter", "edited"}
              /\ ~overtaken[p] =>
                    \A f \in {"config", "secrets"} \ clashed :
                        got[p][f] = "edited" <=> f \in saved
        /\ ~overtaken[p] => file["config"] \in {"starter", "edited"}

=============================================================================
