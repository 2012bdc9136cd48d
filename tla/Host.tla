-------------------------------- MODULE Host --------------------------------
(***************************************************************************)
(* What the commands of mailadmin do on the mail host itself, apart from   *)
(* the database and DNS: run its tools (HostTools), update the program     *)
(* (SelfUpdate), create, edit and load the configuration (ConfigFiles),    *)
(* remove duplicates from a mailbox (MaildirDedupe), follow a log          *)
(* (LogTail) and report on the host and on public DNS (Diagnostics).       *)
(*                                                                         *)
(* The parts share no file and no process, and no two families of the     *)
(* tools' commands a piece of the host, so no step of one can enable or    *)
(* disable a step of another: a behaviour exercises one of them, the part  *)
(* it begins with, and the others stay in a state they can start in.       *)
(***************************************************************************)
EXTENDS Integers, Sequences, FiniteSets

CONSTANTS
    Process, MaxCommands, MaxFaults,
    ManagedName, Name, NoName, Body, NoBody, TooLong, QueueId, Address, Port, Allowed, Command,
    Tag, Installed, NoTag,
    Pos, Folders, FolderOf, Mid, NoId, NoFile,
    TailBuffer, PipeSize, MaxEntries,
    Value, SlotOf, ClassOf, Desired,
    Txt, Target, SpfZones, KeyBits, SpfLimit, SpfDepth, Policies, MaxHosts, TlsaValue,
    Usable311, ExpectedPort, QueryOf, MaxDomains

VARIABLES
    part,
    host, toolPc, cmd, left, shown, text, logged, toolOvertaken, toolStarted,
    toolFaults,
    exe, published, latest, assets, updatePc, running, rel, wantSum, temp,
    updateOvertaken, updateFaults,
    file, open, configPc, creating, got, configOvertaken, saved, clashed, inits,
    configStarted, configFaults,
    box, used, dedupePc, at, todo, seen, doomed, dry, disturbed, arrived, touched,
    written, pipe, journal, cancelled, streamer, line, channel, closed, command, printed,
    report, stage, statuses, walk, policy, seenLive, counted, sound, flaw, silent

toolVars == <<host, toolPc, cmd, left, shown, text, logged, toolOvertaken,
              toolStarted, toolFaults>>
updateVars == <<exe, published, latest, assets, updatePc, running, rel, wantSum, temp,
                updateOvertaken, updateFaults>>
configVars == <<file, open, configPc, creating, got, configOvertaken, saved, clashed,
                inits, configStarted, configFaults>>
dedupeVars == <<box, used, dedupePc, at, todo, seen, doomed, dry, disturbed, arrived,
                touched>>
logVars == <<written, pipe, journal, cancelled, streamer, line, channel, closed, command,
             printed>>
reportVars ==
    <<report, stage, statuses, walk, policy, seenLive, counted, sound, flaw, silent>>
vars == <<part, toolVars, updateVars, configVars, dedupeVars, logVars, reportVars>>

Tools == INSTANCE HostTools WITH
    Managed <- ManagedName, pc <- toolPc, overtaken <- toolOvertaken, started <- toolStarted,
    faults <- toolFaults
Update == INSTANCE SelfUpdate WITH
    None <- NoTag, pc <- updatePc, overtaken <- updateOvertaken, faults <- updateFaults
Config == INSTANCE ConfigFiles WITH
    pc <- configPc, overtaken <- configOvertaken, started <- configStarted,
    faults <- configFaults
Dedupe == INSTANCE MaildirDedupe WITH pc <- dedupePc
Log == INSTANCE LogTail
Report == INSTANCE Diagnostics

ASSUME HostAssumption ==
    /\ {MaxCommands, MaxFaults} \subseteq Nat
    /\ Tools!ToolsAssumption
    /\ Update!UpdateAssumption
    /\ Dedupe!DedupeAssumption
    /\ Report!DiagnosticsAssumption

-----------------------------------------------------------------------------
Family ==
    [sieve |-> {"sieve.set", "sieve.edit"},
     queue |-> {"queue.flush", "queue.hold", "queue.release", "queue.delete"},
     security |-> {"ban.add", "ban.remove", "allow.add", "allow.remove", "port.open",
                   "port.close"},
     service |-> Tools!ServiceVerb]

Init ==
    /\ part \in DOMAIN Family \union {"update", "config", "dedupe", "log", "report"}
    /\ Tools!Init /\ (part # "sieve" => host.scripts = <<>> /\ host.active = NoName)
    /\ Update!Init
    /\ Config!Init /\ (part # "config" => \A f \in DOMAIN file : file[f] = "absent")
    /\ Dedupe!Init /\ (part # "dedupe" => box = {})
    /\ Log!Init
    /\ Report!Init

Next ==
    /\ UNCHANGED part
    /\ \/ /\ part \in DOMAIN Family /\ Tools!Next
          /\ \A p \in Process : cmd'[p].op \in Family[part] \union {"none"}
          /\ UNCHANGED <<updateVars, configVars, dedupeVars, logVars, reportVars>>
       \/ /\ part = "update" /\ Update!Next
          /\ UNCHANGED <<toolVars, configVars, dedupeVars, logVars, reportVars>>
       \/ /\ part = "config" /\ Config!Next
          /\ UNCHANGED <<toolVars, updateVars, dedupeVars, logVars, reportVars>>
       \/ /\ part = "dedupe" /\ Dedupe!Next
          /\ UNCHANGED <<toolVars, updateVars, configVars, logVars, reportVars>>
       \/ /\ part = "log" /\ Log!Next
          /\ UNCHANGED <<toolVars, updateVars, configVars, dedupeVars, reportVars>>
       \/ /\ part = "report" /\ Report!Next
          /\ UNCHANGED <<toolVars, updateVars, configVars, dedupeVars, logVars>>

Spec == Init /\ [][Next]_vars

-----------------------------------------------------------------------------
(* The properties of the parts, stated and explained in their modules.     *)
FilterOldOrNew == Tools!FilterOldOrNew
NoLostEdit == Tools!NoLostEdit
RowTellsOfDeed == Tools!RowTellsOfDeed

(* Of the program that is installed.                                       *)
AtomicReplace == Update!AtomicReplace
OnlyUpgrades == Update!OnlyUpgrades

(* Of the configuration.                                                   *)
InitSucceedsOnce == Config!InitSucceedsOnce
SuccessIsUsable == Config!SuccessIsUsable

(* Of the mailbox a pass removes duplicates from.                          *)
DedupeComplete == Dedupe!DedupeComplete
KeepsFirst == Dedupe!KeepsFirst

(* Of what is read and reported.                                           *)
TailIsTheJournal == Log!TailIsTheJournal
PassIsEarned == Report!PassIsEarned

=============================================================================
