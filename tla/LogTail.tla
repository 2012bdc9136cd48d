------------------------------- MODULE LogTail -------------------------------
(***************************************************************************)
(* mailadmin log tail (internal/logs, cli/log.go): journalctl writes       *)
(* entries into a pipe; a goroutine scans, decodes and sends them over a   *)
(* bounded channel; the command receives and prints them.  Ctrl-C cancels  *)
(* the context all three depend on; journalctl may exit by itself and      *)
(* printing may fail, at any moment.                                       *)
(***************************************************************************)
EXTENDS Naturals, Sequences

CONSTANTS
    TailBuffer, \* the channel's capacity: 256 in the code
    PipeSize,   \* bound: entries the pipe holds
    MaxEntries  \* bound: entries written in a behaviour

(* An entry is decoded, skipped as malformed, or above the scanner's limit *)
(* of a megabyte.                                                          *)
Kind == {"line", "malformed", "overlong"}

VARIABLES
    written,    \* history: the kinds of the entries journalctl wrote
    pipe,       \* the numbers of those not yet scanned
    journal,    \* is journalctl running?
    cancelled,  \* is the context done?
    streamer,   \* the goroutine: "scan", "send", "wait" or "gone"
    line,       \* the entry it is about to send
    channel,    \* the entries sent and not yet received
    closed,     \* has the channel been closed?
    command,    \* the command: "select", "done" or "failed"
    printed     \* the entries printed

vars == <<written, pipe, journal, cancelled, streamer, line, channel, closed,
          command, printed>>

Init ==
    /\ written = <<>> /\ pipe = <<>> /\ journal = TRUE /\ cancelled = FALSE
    /\ streamer = "scan" /\ line = 0
    /\ channel = <<>> /\ closed = FALSE
    /\ command = "select" /\ printed = <<>>

-----------------------------------------------------------------------------
Write(kind) ==
    /\ journal /\ Len(pipe) < PipeSize /\ Len(written) < MaxEntries
    /\ written' = Append(written, kind)
    /\ pipe' = Append(pipe, Len(written) + 1)
    /\ UNCHANGED <<journal, cancelled, streamer, line, channel, closed, command, printed>>

(* journalctl dies, or is killed once the context is done.                 *)
Exit ==
    /\ journal /\ journal' = FALSE
    /\ UNCHANGED <<written, pipe, cancelled, streamer, line, channel, closed, command,
                   printed>>

Cancel ==
    /\ ~cancelled /\ cancelled' = TRUE
    /\ UNCHANGED <<written, pipe, journal, streamer, line, channel, closed, command, printed>>

(* One turn of the scan loop.  The scanner gives up at an entry above its  *)
(* limit and at the end of the output.                                     *)
StreamLines ==
    /\ streamer = "scan"
    /\ \/ /\ pipe # <<>>
          /\ LET kind == written[Head(pipe)]
             IN /\ streamer' = CASE kind = "overlong" \/ cancelled -> "wait"
                                 [] kind = "malformed" /\ ~cancelled -> "scan"
                                 [] kind = "line" /\ ~cancelled -> "send"
                /\ line' = IF kind = "line" /\ ~cancelled THEN Head(pipe) ELSE line
          /\ pipe' = Tail(pipe)
       \/ /\ pipe = <<>> /\ ~journal
          /\ streamer' = "wait"
          /\ UNCHANGED <<pipe, line>>
    /\ UNCHANGED <<written, journal, cancelled, channel, closed, command, printed>>

(* A bug the select might have: a default case, so that a full channel     *)
(* loses the line.                                                         *)
SendOrDrop ==
    /\ streamer = "send"
    /\ channel' = IF Len(channel) < TailBuffer THEN Append(channel, line) ELSE channel
    /\ streamer' = "scan"
    /\ UNCHANGED <<written, pipe, journal, cancelled, line, closed, command, printed>>

(* The send blocks while the channel is full, until the context is done.   *)
Send ==
    /\ streamer = "send"
    /\ \/ /\ Len(channel) < TailBuffer
          /\ channel' = Append(channel, line)
          /\ streamer' = "scan"
       \/ cancelled /\ streamer' = "wait" /\ UNCHANGED channel
    /\ UNCHANGED <<written, pipe, journal, cancelled, line, closed, command, printed>>

(* cmd.Wait returns when journalctl is gone and drops what the pipe still  *)
(* holds; the deferred close follows.                                      *)
Reap ==
    /\ streamer = "wait" /\ ~journal
    /\ streamer' = "gone"
    /\ pipe' = <<>>
    /\ closed' = TRUE
    /\ UNCHANGED <<written, journal, cancelled, line, channel, command, printed>>

(* The command's select: the context is done, a line has come and is       *)
(* printed or cannot be, or the channel is closed and empty.               *)
RunLogTail ==
    /\ command = "select"
    /\ \/ cancelled /\ command' = "done" /\ UNCHANGED <<channel, printed>>
       \/ /\ channel # <<>>
          /\ channel' = Tail(channel)
          /\ \/ printed' = Append(printed, Head(channel)) /\ UNCHANGED command
             \/ command' = "failed" /\ UNCHANGED printed
       \/ /\ channel = <<>> /\ closed
          /\ command' = "done" /\ UNCHANGED <<channel, printed>>
    /\ UNCHANGED <<written, pipe, journal, cancelled, streamer, line, closed>>

Next ==
    \/ \E kind \in Kind : Write(kind)
    \/ Exit \/ Cancel \/ StreamLines \/ Send \/ Reap \/ RunLogTail

Spec == Init /\ [][Next]_vars

-----------------------------------------------------------------------------
(* The numbers of the lines among the first n entries.                     *)
LinesUpTo(n) == {i \in 1 .. n : written[i] = "line"}
Overlong == {i \in DOMAIN written : written[i] = "overlong"}

(* The tail prints the journal: its lines in their order, none twice and   *)
(* none left out before the last printed, malformed entries or a full      *)
(* channel notwithstanding (logs.go:202-204); and one that ends by itself, *)
(* because journalctl did, has printed every line that journalctl wrote up *)
(* to an entry above the scanner's limit.                                  *)
TailIsTheJournal ==
    LET last == IF printed = <<>> THEN 0 ELSE printed[Len(printed)]
        Shown == {printed[i] : i \in DOMAIN printed}
    IN /\ \A i, j \in DOMAIN printed : i < j => printed[i] < printed[j]
       /\ Shown = LinesUpTo(last)
       /\ command = "done" /\ ~cancelled =>
             \A i \in LinesUpTo(Len(written)) \ Shown : \E j \in Overlong : j < i

=============================================================================
