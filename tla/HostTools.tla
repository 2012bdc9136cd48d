------------------------------ MODULE HostTools ------------------------------
(***************************************************************************)
(* The commands that run a tool of the mail host: the Sieve scripts of a   *)
(* mailbox (doveadm), the Postfix queue (postqueue, postsuper), CrowdSec's *)
(* bans and allowlist (cscli), the open ports (mailadmin-fw-port) and the  *)
(* units of the mail server (systemctl).                                   *)
(*                                                                         *)
(* Every call goes through sys.Run: the tool succeeds, it fails without    *)
(* effect, or it is killed at its timeout or its answer is lost, with or   *)
(* without effect.  Commands of several processes interleave with one      *)
(* another, with the mailbox's owner, who has scripts of his own, and with *)
(* the queue manager.                                                      *)
(***************************************************************************)
EXTENDS Naturals, Sequences, Functions

CONSTANTS
    Process,     \* the mailadmin processes
    Managed,     \* the script name mailadmin writes
    Name,        \* the script names, Managed among them
    NoName,      \* no script is active
    Body,        \* the script bodies
    NoBody,      \* the empty text an editor starts from when none is active
    TooLong,     \* the bodies above the size limit
    QueueId,     \* the queue ids
    Address,     \* the addresses one can ban or allow
    Port,        \* the ports one can open
    Allowed,     \* the systemd units of the configuration's allowlist
    Command,     \* the commands operators give, as records
    MaxCommands, \* bound: commands started in a behaviour
    MaxFaults    \* bound: failed calls, crashes and steps of others

Operations ==
    {"sieve.set", "sieve.edit", "queue.flush", "queue.hold", "queue.release",
     "queue.delete", "ban.add", "ban.remove", "allow.add", "allow.remove", "port.open",
     "port.close", "service.start", "service.stop", "service.restart", "service.reload"}

(* The empty name names no script, and every command is one of those.      *)
ToolsAssumption ==
    /\ Managed \in Name /\ NoName \notin Name
    /\ \A c \in Command : c.op \in Operations

VARIABLES
    host,       \* scripts, active (script), queue, bans, allow, ports, units
    pc,         \* pc[p]: "idle", "run", "done" or "failed"
    cmd,        \* cmd[p]: its command
    left,       \* left[p]: the steps it has yet to take
    shown,      \* shown[p]: the script name it listed as active
    text,       \* text[p]: the script body in its hands
    logged,     \* logged[p]: has its audit row been written?
    overtaken,  \* history: somebody else changed the host since p started
    started, faults    \* how often so far

process == <<pc, cmd, left, shown, text, logged>>
vars == <<host, process, overtaken, started, faults>>

Put(f, x, v) == [y \in DOMAIN f \union {x} |-> IF y = x THEN v ELSE f[y]]
Without(f, x) == Restrict(f, DOMAIN f \ {x})

ActiveBody == IF host.active = NoName THEN NoBody ELSE host.scripts[host.active]

-----------------------------------------------------------------------------
(* The steps of each command.                                              *)

(* A bug sieveSet might have: the script is written, but not activated.    *)
SetWithoutActivate(c) == <<"confirm", "list", "get", "put", "audit">>

SieveSet(c) == <<"confirm", "list", "get", "put", "activate", "audit">>

(* A bug sieveEdit might have: it activates before it writes.              *)
ActivateFirst(c) ==
    <<"list", "get", "edit", "confirm", "activate", "put", "audit">>

SieveEdit(c) ==
    <<"list", "get", "edit", "confirm", "put", "activate", "audit">>

(* A bug runQueueMutate might have: the row comes before the deed.         *)
QueueLoggedFirst(c) == <<"confirm", "audit", c.op>>

RunQueueMutate(c) == <<"confirm", c.op, "audit">>
RunQueueFlush(c) == <<"confirm", "queue.flush", "audit">>

RunBanAdd(c) == <<"confirm", "ban.add", "audit">>
RunBanRemove(c) == <<"confirm", "ban.remove", "audit">>
RunAllowAdd(c) == <<"confirm", "allow.add", "audit">>
RunAllowRemove(c) == <<"confirm", "allow.remove", "audit">>
RunFirewallPort(c) == <<"confirm", c.op, "audit">>

(* The state of the unit before and after the deed is part of the row.     *)
RunServiceAction(c) == <<"status", "confirm", c.op, "status", "audit">>

(* The command tree: which handler an operation has.                       *)
NewSieveCmd(c) == IF c.op = "sieve.set" THEN SieveSet(c) ELSE SieveEdit(c)
NewQueueCmd(c) == IF c.op = "queue.flush" THEN RunQueueFlush(c) ELSE RunQueueMutate(c)
NewBanCmd(c) == IF c.op = "ban.add" THEN RunBanAdd(c) ELSE RunBanRemove(c)
NewAllowlistCmd(c) == IF c.op = "allow.add" THEN RunAllowAdd(c) ELSE RunAllowRemove(c)
NewFirewallCmd(c) == RunFirewallPort(c)
NewServiceCmd(c) == RunServiceAction(c)

ServiceVerb == {"service.start", "service.stop", "service.restart", "service.reload"}

Steps(c) ==
    CASE c.op \in {"sieve.set", "sieve.edit"} -> NewSieveCmd(c)
      [] c.op \in {"queue.flush", "queue.hold", "queue.release", "queue.delete"} ->
            NewQueueCmd(c)
      [] c.op \in {"ban.add", "ban.remove"} -> NewBanCmd(c)
      [] c.op \in {"allow.add", "allow.remove"} -> NewAllowlistCmd(c)
      [] c.op \in {"port.open", "port.close"} -> NewFirewallCmd(c)
      [] c.op \in ServiceVerb -> NewServiceCmd(c)

(* recordSecurity swallows an error of the audit log.                      *)
RecordSecurity(c) ==
    c.op \in {"ban.add", "ban.remove", "allow.add", "allow.remove",
              "port.open", "port.close"}

-----------------------------------------------------------------------------
(* The calls: what the host h becomes.                                     *)

PutScript(h, c, body) == [h EXCEPT !.scripts = Put(@, Managed, body)]
Activate(h, c) == [h EXCEPT !.active = Managed]

Hold(h, c) ==
    [h EXCEPT !.queue = IF c.qid \in DOMAIN @ THEN Put(@, c.qid, "hold") ELSE @]
Release(h, c) ==
    [h EXCEPT !.queue = IF c.qid \in DOMAIN @ /\ @[c.qid] = "hold"
                        THEN Put(@, c.qid, "deferred") ELSE @]
Delete(h, c) == [h EXCEPT !.queue = Without(@, c.qid)]
Flush(h) ==
    [h EXCEPT !.queue = [q \in DOMAIN @ |-> IF @[q] = "deferred" THEN "active"
                                            ELSE @[q]]]

AddBan(h, c) == [h EXCEPT !.bans = @ \union {c.ip}]
RemoveBan(h, c) == [h EXCEPT !.bans = @ \ {c.ip}]
AddAllow(h, c) == [h EXCEPT !.allow = @ \union {c.ip}]
RemoveAllow(h, c) == [h EXCEPT !.allow = @ \ {c.ip}]
OpenPort(h, c) == [h EXCEPT !.ports = @ \union {c.port}]
ClosePort(h, c) == [h EXCEPT !.ports = @ \ {c.port}]

ServiceRun(h, c) ==
    [h EXCEPT !.units[c.unit] = CASE c.op = "service.stop" -> "inactive"
                                  [] c.op = "service.reload" -> @
                                  [] OTHER -> "active"]

Calls == {"put", "activate", "queue.hold", "queue.release", "queue.delete",
          "queue.flush", "ban.add", "ban.remove", "allow.add", "allow.remove",
          "port.open", "port.close"} \union ServiceVerb

Effect(call, h, c, body) ==
    CASE call = "put" -> PutScript(h, c, body)
      [] call = "activate" -> Activate(h, c)
      [] call = "queue.hold" -> Hold(h, c)
      [] call = "queue.release" -> Release(h, c)
      [] call = "queue.delete" -> Delete(h, c)
      [] call = "queue.flush" -> Flush(h)
      [] call = "ban.add" -> AddBan(h, c)
      [] call = "ban.remove" -> RemoveBan(h, c)
      [] call = "allow.add" -> AddAllow(h, c)
      [] call = "allow.remove" -> RemoveAllow(h, c)
      [] call = "port.open" -> OpenPort(h, c)
      [] call = "port.close" -> ClosePort(h, c)
      [] call \in ServiceVerb -> ServiceRun(h, c)

(* A script that is not there cannot be activated, nor a unit that does    *)
(* not run reloaded.                                                       *)
Possible(call, h, c) ==
    /\ call = "activate" => Managed \in DOMAIN h.scripts
    /\ call = "service.reload" => h.units[c.unit] = "active"

-----------------------------------------------------------------------------
(* The mailbox has no script, or one of its scripts is active; the queue   *)
(* holds a mail.                                                           *)
Init ==
    /\ \E named \in SUBSET Name, body \in Body \ TooLong, act \in Name \union {NoName} :
          /\ IF named = {} THEN act = NoName ELSE act \in named
          /\ host = [scripts |-> [n \in named |-> body], active |-> act,
                     queue |-> [q \in QueueId |-> "deferred"],
                     bans |-> {}, allow |-> {}, ports |-> {},
                     units |-> [u \in Allowed |-> "active"]]
    /\ pc = [p \in Process |-> "idle"]
    /\ cmd = [p \in Process |-> [op |-> "none"]]
    /\ left = [p \in Process |-> <<>>]
    /\ shown = [p \in Process |-> NoName]
    /\ text = [p \in Process |-> NoBody]
    /\ logged = [p \in Process |-> FALSE]
    /\ overtaken = [p \in Process |-> FALSE]
    /\ started = 0 /\ faults = 0

Fault == faults < MaxFaults /\ faults' = faults + 1
NoFault == UNCHANGED faults
Others(p) == [q \in Process |-> overtaken[q] \/ q # p]

Take(p, n) ==
    /\ left' = [left EXCEPT ![p] = SubSeq(@, n + 1, Len(@))]
    /\ pc' = [pc EXCEPT ![p] = IF n = Len(left[p]) THEN "done" ELSE "run"]
Quit(p, how) ==
    /\ left' = [left EXCEPT ![p] = <<>>]
    /\ pc' = [pc EXCEPT ![p] = how]
At(p, steps) == pc[p] = "run" /\ Head(left[p]) \in steps

(* What the command line is checked for - address, duration, queue id, a   *)
(* script file above the limit - is refused before anything is done.       *)
Start(p, c) ==
    /\ pc[p] # "run"
    /\ started < MaxCommands
    /\ c.op = "sieve.set" => c.body \notin TooLong
    /\ started' = started + 1
    /\ pc' = [pc EXCEPT ![p] = "run"]
    /\ cmd' = [cmd EXCEPT ![p] = c]
    /\ left' = [left EXCEPT ![p] = Steps(c)]
    /\ shown' = [shown EXCEPT ![p] = NoName]
    /\ text' = [text EXCEPT ![p] = IF c.op = "sieve.set" THEN c.body ELSE NoBody]
    /\ logged' = [logged EXCEPT ![p] = FALSE]
    /\ overtaken' = [overtaken EXCEPT ![p] = FALSE]
    /\ UNCHANGED <<host, faults>>

Confirm(p) ==
    /\ At(p, {"confirm"})
    /\ Take(p, 1) \/ Quit(p, "failed")
    /\ UNCHANGED <<host, cmd, shown, text, logged, overtaken, started, faults>>

(* Show, first call: the name of the active script.  When there is none,   *)
(* an edit begins with an empty text and a set goes on.                    *)
ListScripts(p) ==
    /\ At(p, {"list"})
    /\ \/ /\ shown' = [shown EXCEPT ![p] = host.active] /\ NoFault
          /\ Take(p, IF host.active = NoName THEN 2 ELSE 1)
       \/ Fault /\ Quit(p, "failed") /\ UNCHANGED shown
    /\ UNCHANGED <<host, cmd, text, logged, overtaken, started>>

(* Show, second call: its body, unless its owner has removed it meanwhile. *)
GetScript(p) ==
    /\ At(p, {"get"})
    /\ \/ /\ shown[p] \in DOMAIN host.scripts /\ NoFault /\ Take(p, 1)
          /\ text' = IF cmd[p].op = "sieve.edit"
                     THEN [text EXCEPT ![p] = host.scripts[shown[p]]] ELSE text
       \/ /\ IF shown[p] \in DOMAIN host.scripts THEN Fault ELSE NoFault
          /\ Quit(p, "failed") /\ UNCHANGED text
    /\ UNCHANGED <<host, cmd, shown, logged, overtaken, started>>

(* The editor: a text left as it was ends the command, and one above the   *)
(* limit is refused after the question is asked.                           *)
EditInEditor(p) ==
    /\ At(p, {"edit"})
    /\ \/ \E body \in Body :
             /\ text' = [text EXCEPT ![p] = body]
             /\ IF body = text[p] THEN Quit(p, "done") ELSE Take(p, 1)
       \/ Quit(p, "failed") /\ UNCHANGED text
    /\ UNCHANGED <<host, cmd, shown, logged, overtaken, started, faults>>

(* systemctl show, for a unit of the allowlist only.  When it fails after  *)
(* the deed, the deed has no row.                                          *)
StatusOf(p) ==
    /\ At(p, {"status"})
    /\ \/ cmd[p].unit \in Allowed /\ Take(p, 1) /\ NoFault
       \/ cmd[p].unit \notin Allowed /\ Quit(p, "failed") /\ NoFault
       \/ Quit(p, "failed") /\ Fault
    /\ UNCHANGED <<host, cmd, shown, text, logged, overtaken, started>>

(* A bug Set might have: the size of what an editor wrote is not checked.  *)
OversizeUnchecked(p) == FALSE

Oversize(p) == Head(left[p]) = "put" /\ text[p] \in TooLong

Run(p) ==
    LET after == Effect(Head(left[p]), host, cmd[p], text[p])
        can   == Possible(Head(left[p]), host, cmd[p]) /\ ~Oversize(p)
    IN /\ At(p, Calls)
       /\ \/ can /\ host' = after /\ NoFault /\ Take(p, 1)
          \/ ~can /\ UNCHANGED host /\ NoFault /\ Quit(p, "failed")
          \/ can /\ host' \in {host, after} /\ Fault /\ Quit(p, "failed")
       /\ overtaken' = IF host' = host THEN overtaken ELSE Others(p)
       /\ UNCHANGED <<cmd, shown, text, logged, started>>

Record(p) ==
    /\ At(p, {"audit"})
    /\ \/ logged' = [logged EXCEPT ![p] = TRUE] /\ NoFault /\ Take(p, 1)
       \/ /\ logged' \in {logged, [logged EXCEPT ![p] = TRUE]} /\ Fault
          /\ IF RecordSecurity(cmd[p]) THEN Take(p, 1) ELSE Quit(p, "failed")
    /\ UNCHANGED <<host, cmd, shown, text, overtaken, started>>

Crash(p) ==
    /\ pc[p] = "run"
    /\ Fault
    /\ Quit(p, "idle")
    /\ UNCHANGED <<host, cmd, shown, text, logged, overtaken, started>>

(* The owner writes, activates or removes scripts; mail leaves the queue   *)
(* unless it is on hold; a unit dies or comes back.                        *)
Outside ==
    /\ Fault
    /\ \/ \E n \in Name, body \in Body \ TooLong :
             host' = [host EXCEPT !.scripts = Put(@, n, body)]
       \/ \E n \in DOMAIN host.scripts : host' = [host EXCEPT !.active = n]
       \/ \E n \in DOMAIN host.scripts \ {host.active} :
             host' = [host EXCEPT !.scripts = Without(@, n)]
       \/ \E q \in DOMAIN host.queue :
             host.queue[q] # "hold" /\ host' = [host EXCEPT !.queue = Without(@, q)]
       \/ \E u \in Allowed, state \in {"active", "failed"} :
             host' = [host EXCEPT !.units[u] = state]
    /\ overtaken' = [p \in Process |-> TRUE]
    /\ UNCHANGED <<process, started>>

Step(p) ==
    \/ Confirm(p) \/ ListScripts(p) \/ GetScript(p) \/ EditInEditor(p)
    \/ StatusOf(p) \/ Run(p) \/ Record(p)

Next ==
    \/ \E p \in Process : Step(p) \/ Crash(p) \/ \E c \in Command : Start(p, c)
    \/ Outside

Spec == Init /\ [][Next]_vars

-----------------------------------------------------------------------------
(* sieve set and edit write "the managed Sieve script" (sieve.go:72):      *)
(* whoever interleaves, the owner's other scripts stay as they are; and as *)
(* a failure between writing and activating leaves the filter that was in  *)
(* force, a command nobody overtook brings nothing into force but the text *)
(* it was given, at any of its steps.                                      *)
FilterOldOrNew ==
    [][\A p \in Process : Step(p) =>
          /\ \A n \in DOMAIN host.scripts \ {Managed} :
                n \in DOMAIN host'.scripts /\ host'.scripts[n] = host.scripts[n]
          /\ ~overtaken[p] => ActiveBody' \in {ActiveBody, text[p]}]_vars

(* A set or an edit that reports success and was not overtaken left in     *)
(* force what it was given or the operator wrote, and the edit began from  *)
(* the filter in force: no save is lost, none is of a stale text.          *)
NoLostEdit ==
    \A p \in Process :
        /\ pc[p] = "done" /\ cmd[p].op \in {"sieve.set", "sieve.edit"} /\ ~overtaken[p]
              => ActiveBody = text[p]
        /\ At(p, {"edit"}) /\ ~overtaken[p] => ActiveBody = text[p]

(* Every call of a command has been made when making it again changes      *)
(* nothing.                                                                *)
Made(p) ==
    \A i \in DOMAIN Steps(cmd[p]) :
        Steps(cmd[p])[i] \in Calls =>
            Effect(Steps(cmd[p])[i], host, cmd[p], text[p]) = host

(* The audit row of a command that nobody overtook tells of a change that  *)
(* has been made in full (README.md:42).                                   *)
RowTellsOfDeed ==
    \A p \in Process : logged[p] /\ ~overtaken[p] => Made(p)

=============================================================================
