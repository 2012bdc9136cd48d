------------------------------ MODULE Accounts ------------------------------
(***************************************************************************)
(* The commands that change domains, mailboxes, app passwords and aliases: *)
(* rows in Postgres, DKIM keys and maildirs on disk, and the two Caddy     *)
(* include files derived from the domain table.                            *)
(*                                                                         *)
(* A command reads what it checks, may ask for confirmation, and then does *)
(* one thing after the other without a transaction.  Several processes run *)
(* commands at once; a statement or a helper fails, or takes effect and    *)
(* its answer is lost; a process dies between two steps; mail is delivered *)
(* meanwhile.  The tables' constraints are not part of the source: nothing *)
(* but the primary keys the upserts name is assumed of them.               *)
(***************************************************************************)
EXTENDS Naturals, Sequences, Functions

CONSTANTS
    Process,      \* the mailadmin processes
    Domain,       \* mail domains
    Address,      \* mailbox addresses
    DomainOf,     \* DomainOf[a]: the domain of address a, or of alias source a
    Command,      \* the commands operators give, as records
    FirstSelector,  \* the selectors rows have to begin with
    NoSelector,   \* the selector of a row that has none
    Manual,       \* the dns_provider of a new row
    MaxCommands,  \* bound: commands started in a behaviour
    MaxFaults,    \* bound: failed calls and crashes in a behaviour
    MaxMails      \* bound: deliveries in a behaviour

(* The operations of the command tree, each with the arguments it takes.   *)
Usage ==
    {<<"domain.add", {"dom", "selector", "provider"}>>,
     <<"domain.set-dkim", {"dom", "selector"}>>,
     <<"domain.set-provider", {"dom", "provider"}>>,
     <<"mailbox.add", {"addr", "password", "quota"}>>,
     <<"mailbox.remove", {"addr", "purge"}>>,
     <<"mailbox.passwd", {"addr", "password"}>>,
     <<"mailbox.set-quota", {"addr", "quota"}>>,
     <<"alias.add", {"source", "dest"}>>,
     <<"alias.remove", {"source", "dest", "all"}>>}
    \union ({"domain.remove", "domain.enable", "domain.disable", "domain.regen-dkim"}
               \X {{"dom"}})
    \union ({"mailbox.enable", "mailbox.disable"} \X {{"addr"}})
    \union ({"mailbox.app-password.add", "mailbox.app-password.remove"}
               \X {{"addr", "label"}})

ASSUME AccountsAssumption ==
    /\ {MaxCommands, MaxFaults, MaxMails} \subseteq Nat
    /\ \A c \in Command :
          "op" \in DOMAIN c /\ <<c.op, DOMAIN c \ {"op"}>> \in Usage

VARIABLES
    db,           \* the tables: domain, mailbox, app and alias
    keys,         \* the DKIM key files: pairs of a domain and a selector
    mail,         \* the addresses whose maildir exists
    file,         \* the domains in each of the two include files
    served,       \* the domains Caddy serves: the files at its last reload
    pc,           \* pc[p]: what process p is doing
    cmd,          \* cmd[p]: its command, with the tables as its checks read them
    left,         \* left[p]: the steps it has yet to take
    list,         \* list[p]: the domains it listed for an include file
    logged,       \* logged[p]: has its audit row been written?
    warned,       \* warned[p]: has it warned of a web server failure?
    overtaken,    \* history: somebody else wrote since p's checks
    started, faults, mails    \* how often so far

system == <<db, keys, mail, file, served>>
process == <<pc, cmd, left, list, logged, warned>>
vars == <<system, process, overtaken, started, faults, mails>>

NoCommand == [op |-> "none"]
Put(f, x, row) == [y \in DOMAIN f \union {x} |-> IF y = x THEN row ELSE f[y]]
Without(f, x) == Restrict(f, DOMAIN f \ {x})

Domains == DOMAIN db.domain
Active == {d \in Domains : db.domain[d].active}

-----------------------------------------------------------------------------
(* The statements of internal/db: what the tables t become.  An UPDATE or  *)
(* a DELETE of a row that is not there changes nothing.                    *)

CreateDomain(t, c) ==
    [t EXCEPT !.domain =
        Put(@, c.dom, [active   |-> TRUE,
                       selector |-> c.selector,
                       provider |-> IF c.dom \in DOMAIN @ THEN @[c.dom].provider
                                                          ELSE Manual])]

SetDomainDNSProvider(t, c) ==
    IF c.dom \in DOMAIN t.domain
    THEN [t EXCEPT !.domain[c.dom].provider = c.provider] ELSE t

SetDomainActive(t, c) ==
    IF c.dom \in DOMAIN t.domain
    THEN [t EXCEPT !.domain[c.dom].active = (c.op = "domain.enable")] ELSE t

SetDKIMSelector(t, c) ==
    IF c.dom \in DOMAIN t.domain
    THEN [t EXCEPT !.domain[c.dom].selector = c.selector] ELSE t

DeleteDomain(t, c) == [t EXCEPT !.domain = Without(@, c.dom)]

CreateMailbox(t, c) ==
    [t EXCEPT !.mailbox =
        Put(@, c.addr, [active |-> TRUE, password |-> c.password,
                        quota |-> c.quota])]

UpdateMailboxPassword(t, c) ==
    IF c.addr \in DOMAIN t.mailbox
    THEN [t EXCEPT !.mailbox[c.addr].password = c.password] ELSE t

UpdateMailboxQuota(t, c) ==
    IF c.addr \in DOMAIN t.mailbox
    THEN [t EXCEPT !.mailbox[c.addr].quota = c.quota] ELSE t

SetMailboxActive(t, c) ==
    IF c.addr \in DOMAIN t.mailbox
    THEN [t EXCEPT !.mailbox[c.addr].active = (c.op = "mailbox.enable")] ELSE t

DeleteMailbox(t, c) == [t EXCEPT !.mailbox = Without(@, c.addr)]

CreateAppPassword(t, c) == [t EXCEPT !.app = @ \union {<<c.addr, c.label>>}]
DeleteAppPassword(t, c) == [t EXCEPT !.app = @ \ {<<c.addr, c.label>>}]
DeleteAppPasswordsByMailbox(t, c) ==
    [t EXCEPT !.app = {pw \in @ : pw[1] # c.addr}]

CreateAlias(t, c) == [t EXCEPT !.alias = @ \union {<<c.source, c.dest>>}]
DeleteAlias(t, c) == [t EXCEPT !.alias = @ \ {<<c.source, c.dest>>}]
DeleteAliasesBySource(t, c) == [t EXCEPT !.alias = {al \in @ : al[1] # c.source}]

Statements ==
    {"CreateDomain", "SetDomainDNSProvider", "SetDomainActive",
     "SetDKIMSelector", "DeleteDomain", "CreateMailbox",
     "UpdateMailboxPassword", "UpdateMailboxQuota", "SetMailboxActive",
     "DeleteMailbox", "CreateAppPassword", "DeleteAppPassword",
     "DeleteAppPasswordsByMailbox", "CreateAlias", "DeleteAlias",
     "DeleteAliasesBySource"}

Executed(stmt, t, c) ==
    CASE stmt = "CreateDomain" -> CreateDomain(t, c)
      [] stmt = "SetDomainDNSProvider" -> SetDomainDNSProvider(t, c)
      [] stmt = "SetDomainActive" -> SetDomainActive(t, c)
      [] stmt = "SetDKIMSelector" -> SetDKIMSelector(t, c)
      [] stmt = "DeleteDomain" -> DeleteDomain(t, c)
      [] stmt = "CreateMailbox" -> CreateMailbox(t, c)
      [] stmt = "UpdateMailboxPassword" -> UpdateMailboxPassword(t, c)
      [] stmt = "UpdateMailboxQuota" -> UpdateMailboxQuota(t, c)
      [] stmt = "SetMailboxActive" -> SetMailboxActive(t, c)
      [] stmt = "DeleteMailbox" -> DeleteMailbox(t, c)
      [] stmt = "CreateAppPassword" -> CreateAppPassword(t, c)
      [] stmt = "DeleteAppPassword" -> DeleteAppPassword(t, c)
      [] stmt = "DeleteAppPasswordsByMailbox" -> DeleteAppPasswordsByMailbox(t, c)
      [] stmt = "CreateAlias" -> CreateAlias(t, c)
      [] stmt = "DeleteAlias" -> DeleteAlias(t, c)
      [] stmt = "DeleteAliasesBySource" -> DeleteAliasesBySource(t, c)

-----------------------------------------------------------------------------
(* The commands: what each checks before it changes anything, and the      *)
(* steps it then takes.                                                    *)

SyncMTASTS == <<"list-sts", "put-sts">>
SyncAll == <<"list-auto", "put-auto">> \o SyncMTASTS

(* A bug runDomainAdd might have: the row is written before the key.       *)
RowBeforeKey(c) ==
    [ok |-> TRUE,
     steps |-> <<"CreateDomain", "SetDomainDNSProvider", "key", "audit">> \o SyncAll]

(* With an automated provider, a dns publish follows: see PublishById.     *)
RunDomainAdd(c) ==
    [ok |-> TRUE,
     steps |-> <<"key", "CreateDomain", "SetDomainDNSProvider", "audit">> \o SyncAll]

(* A bug runDomainRemove might have: nobody counts the mailboxes.          *)
RemoveUncounted(c) ==
    [ok |-> c.dom \in Domains,
     steps |-> <<"confirm", "DeleteDomain", "audit">> \o SyncAll]

RunDomainRemove(c) ==
    [ok |-> /\ c.dom \in Domains
            /\ \A a \in DOMAIN db.mailbox : DomainOf[a] # c.dom,
     steps |-> <<"confirm", "DeleteDomain", "audit">> \o SyncAll]

AskToDisable(c) == IF c.op = "domain.disable" THEN <<"confirm">> ELSE <<>>

(* A bug runDomainSetActive might have: the web server is not told.        *)
SetActiveUnsynced(c) ==
    [ok |-> c.dom \in Domains,
     steps |-> AskToDisable(c) \o <<"SetDomainActive", "audit">>]

RunDomainSetActive(c) ==
    [ok |-> c.dom \in Domains,
     steps |-> AskToDisable(c) \o <<"SetDomainActive", "audit">> \o SyncMTASTS]

RunDomainSetDKIM(c) ==
    [ok |-> c.dom \in Domains, steps |-> <<"key", "SetDKIMSelector", "audit">>]

RunDomainSetProvider(c) ==
    [ok |-> c.dom \in Domains, steps |-> <<"SetDomainDNSProvider", "audit">>]

RunDomainRegenDKIM(c) ==
    [ok |-> c.dom \in Domains /\ db.domain[c.dom].selector # NoSelector,
     steps |-> <<"confirm", "key", "audit">>]

MailboxAdd(c) ==
    [ok |-> DomainOf[c.addr] \in Domains, steps |-> <<"CreateMailbox", "audit">>]

MailboxRemove(c) ==
    [ok |-> c.addr \in DOMAIN db.mailbox /\ (c.addr \in mail => c.purge),
     steps |-> <<"confirm">> \o (IF c.addr \in mail THEN <<"purge">> ELSE <<>>)
               \o <<"DeleteAppPasswordsByMailbox", "DeleteMailbox", "audit">>]

MailboxPasswd(c) ==
    [ok |-> c.addr \in DOMAIN db.mailbox,
     steps |-> <<"UpdateMailboxPassword", "audit">>]

MailboxSetQuota(c) ==
    [ok |-> c.addr \in DOMAIN db.mailbox,
     steps |-> <<"UpdateMailboxQuota", "audit">>]

MailboxSetActive(c) ==
    [ok |-> c.addr \in DOMAIN db.mailbox,
     steps |-> <<"SetMailboxActive", "audit">>]

AppPasswordAdd(c) ==
    [ok |-> c.addr \in DOMAIN db.mailbox /\ db.mailbox[c.addr].active,
     steps |-> <<"CreateAppPassword", "audit">>]

AppPasswordRemove(c) ==
    [ok |-> TRUE, steps |-> <<"confirm", "DeleteAppPassword", "audit">>]

(* A bug runAliasAdd might have: the row is logged before it is there.     *)
AuditFirst(c) ==
    [ok |-> DomainOf[c.source] \in Domains, steps |-> <<"audit", "CreateAlias">>]

RunAliasAdd(c) ==
    [ok |-> DomainOf[c.source] \in Domains, steps |-> <<"CreateAlias", "audit">>]

AliasesForSource(c) ==
    {al \in db.alias : al[1] = c.source /\ (c.all \/ al[2] = c.dest)}

RunAliasRemove(c) ==
    [ok |-> AliasesForSource(c) # {},
     steps |-> <<"confirm", IF c.all THEN "DeleteAliasesBySource" ELSE "DeleteAlias",
                 "audit">>]

(* The command tree: which handler an operation has.                       *)
NewDomainCmd(c) ==
    CASE c.op = "domain.add" -> RunDomainAdd(c)
      [] c.op = "domain.remove" -> RunDomainRemove(c)
      [] c.op \in {"domain.enable", "domain.disable"} -> RunDomainSetActive(c)
      [] c.op = "domain.set-dkim" -> RunDomainSetDKIM(c)
      [] c.op = "domain.set-provider" -> RunDomainSetProvider(c)
      [] c.op = "domain.regen-dkim" -> RunDomainRegenDKIM(c)

NewMailboxCmd(c) ==
    CASE c.op = "mailbox.add" -> MailboxAdd(c)
      [] c.op = "mailbox.remove" -> MailboxRemove(c)
      [] c.op = "mailbox.passwd" -> MailboxPasswd(c)
      [] c.op = "mailbox.set-quota" -> MailboxSetQuota(c)
      [] c.op \in {"mailbox.enable", "mailbox.disable"} -> MailboxSetActive(c)

NewAppPasswordCmd(c) ==
    CASE c.op = "mailbox.app-password.add" -> AppPasswordAdd(c)
      [] c.op = "mailbox.app-password.remove" -> AppPasswordRemove(c)

NewAliasCmd(c) ==
    CASE c.op = "alias.add" -> RunAliasAdd(c)
      [] c.op = "alias.remove" -> RunAliasRemove(c)

Handler(c) ==
    CASE "label" \in DOMAIN c -> NewAppPasswordCmd(c)
      [] "source" \in DOMAIN c -> NewAliasCmd(c)
      [] "dom" \in DOMAIN c -> NewDomainCmd(c)
      [] "addr" \in DOMAIN c /\ "label" \notin DOMAIN c -> NewMailboxCmd(c)

(* The mailbox commands drop an error of the audit log; the others fail.   *)
IgnoresAuditError(c) ==
    c.op \in {"mailbox.add", "mailbox.remove", "mailbox.passwd",
              "mailbox.set-quota", "mailbox.enable", "mailbox.disable",
              "mailbox.app-password.add", "mailbox.app-password.remove"}

-----------------------------------------------------------------------------
(* A server on which nothing is under way: each row has its key, and Caddy *)
(* serves the include files, which earlier commands may have left behind   *)
(* the tables.                                                             *)
Init ==
    /\ \E D \in SUBSET Domain, A \in SUBSET Address, s \in FirstSelector :
          /\ \A a \in A : DomainOf[a] \in D
          /\ db = [domain  |-> [d \in D |-> [active |-> TRUE, selector |-> s,
                                             provider |-> Manual]],
                   mailbox |-> [a \in A |-> [active |-> TRUE, password |-> "first",
                                             quota |-> 0]],
                   app |-> {}, alias |-> {}]
          /\ keys = D \X ({s} \ {NoSelector})
          /\ file \in [auto : SUBSET Domain, sts : SUBSET Domain]
          /\ mail \in SUBSET A
    /\ served = file
    /\ pc = [p \in Process |-> "idle"]
    /\ cmd = [p \in Process |-> NoCommand]
    /\ left = [p \in Process |-> <<>>]
    /\ list = [p \in Process |-> {}]
    /\ logged = [p \in Process |-> FALSE]
    /\ warned = [p \in Process |-> FALSE]
    /\ overtaken = [p \in Process |-> FALSE]
    /\ started = 0 /\ faults = 0 /\ mails = 0

(* The command reads what it checks.  One that is refused changes nothing  *)
(* and is left out.  regen-dkim takes the selector from the row it read.   *)
Start(p, c) ==
    /\ pc[p] # "run"
    /\ started < MaxCommands
    /\ Handler(c).ok
    /\ started' = started + 1
    /\ pc' = [pc EXCEPT ![p] = "run"]
    /\ cmd' = [cmd EXCEPT ![p] = [order |-> c, tables |-> db,
                               steps |-> Handler(c).steps]]
    /\ left' = [left EXCEPT ![p] = Handler(c).steps]
    /\ logged' = [logged EXCEPT ![p] = FALSE]
    /\ warned' = [warned EXCEPT ![p] = FALSE]
    /\ overtaken' = [overtaken EXCEPT ![p] = FALSE]
    /\ UNCHANGED <<system, list, faults, mails>>

-----------------------------------------------------------------------------
Fault == faults < MaxFaults /\ faults' = faults + 1
NoFault == UNCHANGED faults
Others(p) == [q \in Process |-> overtaken[q] \/ q # p]

Take(p, n) ==
    /\ left' = [left EXCEPT ![p] = SubSeq(@, n + 1, Len(@))]
    /\ pc' = [pc EXCEPT ![p] = IF n = Len(left[p]) THEN "done" ELSE "run"]

Quit(p, how) ==
    /\ left' = [left EXCEPT ![p] = <<>>]
    /\ pc' = [pc EXCEPT ![p] = how]

At(p, steps) == pc[p] = "run" /\ Head(left[p]) \in steps

(* The operator answers the question, or declines.                         *)
Confirm(p) ==
    /\ At(p, {"confirm"})
    /\ Take(p, 1) \/ Quit(p, "failed")
    /\ UNCHANGED <<system, cmd, list, logged, warned, overtaken, started, faults,
                   mails>>

(* One statement.  DeleteAppPassword that deletes no row is "not found".   *)
Execute(p) ==
    LET c == cmd[p].order
        after == Executed(Head(left[p]), db, c)
    IN /\ At(p, Statements)
       /\ \/ /\ db' = after /\ NoFault
             /\ IF Head(left[p]) = "DeleteAppPassword" /\ after = db
                THEN Quit(p, "failed") ELSE Take(p, 1)
          \/ db' \in {db, after} /\ Fault /\ Quit(p, "failed")
       /\ overtaken' = IF db' = db THEN overtaken ELSE Others(p)
       /\ UNCHANGED <<keys, mail, file, served, cmd, list, logged, warned, started,
                      mails>>

(* GenerateDKIM: the helper makes a missing key and leaves one that exists.*)
KeyOf(p) ==
    LET c == cmd[p].order
    IN <<c.dom, IF c.op = "domain.regen-dkim"
                THEN cmd[p].tables.domain[c.dom].selector ELSE c.selector>>

GenerateDKIM(p) ==
    /\ At(p, {"key"})
    /\ \/ keys' = keys \union {KeyOf(p)} /\ NoFault /\ Take(p, 1)
       \/ keys' \in {keys, keys \union {KeyOf(p)}} /\ Fault /\ Quit(p, "failed")
    /\ UNCHANGED <<db, mail, file, served, cmd, list, logged, warned, overtaken,
                   started, mails>>

(* A maildir that is gone is an error; os.RemoveAll may fail half-way.     *)
Purge(p) ==
    /\ At(p, {"purge"})
    /\ \/ /\ mail' = mail \ {cmd[p].order.addr} /\ NoFault
          /\ IF mail' = mail THEN Quit(p, "failed") ELSE Take(p, 1)
       \/ mail' \in {mail, mail \ {cmd[p].order.addr}} /\ Fault /\ Quit(p, "failed")
    /\ overtaken' = IF mail' = mail THEN overtaken ELSE Others(p)
    /\ UNCHANGED <<db, keys, file, served, cmd, list, logged, warned, started,
                   mails>>

Record(p) ==
    /\ At(p, {"audit"})
    /\ \/ logged' = [logged EXCEPT ![p] = TRUE] /\ NoFault /\ Take(p, 1)
       \/ /\ logged' \in {logged, [logged EXCEPT ![p] = TRUE]} /\ Fault
          /\ IF IgnoresAuditError(cmd[p].order) THEN Take(p, 1) ELSE Quit(p, "failed")
    /\ UNCHANGED <<system, cmd, list, warned, overtaken, started, mails>>

(* syncAutodiscovery lists every domain, syncMTASTS the active ones.  When *)
(* the list fails the command warns and goes on behind the include file.   *)
Listed(p) == IF Head(left[p]) = "list-auto" THEN Domains ELSE Active

ListDomains(p) ==
    /\ At(p, {"list-auto", "list-sts"})
    /\ \/ list' = [list EXCEPT ![p] = Listed(p)] /\ NoFault /\ Take(p, 1)
          /\ UNCHANGED warned
       \/ Fault /\ Take(p, 2) /\ warned' = [warned EXCEPT ![p] = TRUE]
          /\ UNCHANGED list
    /\ UNCHANGED <<system, cmd, logged, overtaken, started, mails>>

(* Sync and SyncMTASTS: the file is replaced by a rename, and Caddy reloads*)
(* both.  What fails here is a warning.                                    *)
PutInclude(p) ==
    LET new == IF Head(left[p]) = "put-auto" THEN [file EXCEPT !.auto = list[p]]
                                             ELSE [file EXCEPT !.sts = list[p]]
    IN /\ At(p, {"put-auto", "put-sts"})
       /\ Take(p, 1)
       /\ list' = [list EXCEPT ![p] = {}]
       /\ \/ file' = new /\ served' = new /\ NoFault /\ UNCHANGED warned
          \/ /\ Fault /\ warned' = [warned EXCEPT ![p] = TRUE]
             /\ \/ UNCHANGED <<file, served>>
                \/ file' = new /\ served' \in {served, new}
       /\ overtaken' = IF file' = file THEN overtaken ELSE Others(p)
       /\ UNCHANGED <<db, keys, mail, cmd, logged, started, mails>>

Crash(p) ==
    /\ pc[p] = "run"
    /\ Fault
    /\ Quit(p, "idle")
    /\ UNCHANGED <<system, cmd, list, logged, warned, overtaken, started, mails>>

(* Dovecot delivers to an active mailbox of an active domain, and makes the*)
(* maildir if there is none.                                               *)
Deliver(a) ==
    /\ mails < MaxMails
    /\ a \in DOMAIN db.mailbox \ mail
    /\ db.mailbox[a].active /\ DomainOf[a] \in Active
    /\ mails' = mails + 1
    /\ mail' = mail \union {a}
    /\ overtaken' = [q \in Process |-> TRUE]
    /\ UNCHANGED <<db, keys, file, served, process, started, faults>>

Step(p) ==
    \/ Confirm(p) \/ Execute(p) \/ GenerateDKIM(p) \/ Purge(p) \/ Record(p)
    \/ ListDomains(p) \/ PutInclude(p)

Next ==
    \/ \E p \in Process : Step(p) \/ Crash(p) \/ \E c \in Command : Start(p, c)
    \/ \E a \in Address : Deliver(a)

Spec == Init /\ [][Next]_vars

-----------------------------------------------------------------------------
(* "Generate the DKIM key first so a publishable record exists before the  *)
(* row is written" (domain.go:251): whatever fails, dies or races, every   *)
(* row names a selector whose key file exists.                             *)
KeyBeforeRow ==
    \A d \in Domains :
        db.domain[d].selector # NoSelector => <<d, db.domain[d].selector>> \in keys

(* Mailboxes without domain, app passwords without mailbox, maildirs       *)
(* without mailbox.                                                        *)
Orphans ==
    {<<"mailbox", a>> : a \in {b \in DOMAIN db.mailbox : DomainOf[b] \notin Domains}}
    \union {<<"app", pw>> : pw \in {w \in db.app : w[1] \notin DOMAIN db.mailbox}}
    \union {<<"mail", a>> : a \in mail \ DOMAIN db.mailbox}

(* "The domain must exist so a mailbox is never orphaned" (mailbox.go:241),*)
(* and the like for removals: a command nobody overtook since its checks   *)
(* orphans nothing, at none of its steps, so not when it stops at one.     *)
NoOrphansUnlessOvertaken ==
    [][\A p \in Process :
          ~overtaken[p] /\ pc[p] = "run" /\ Step(p) => Orphans' \subseteq Orphans]_vars

(* A change has been made when making it again changes nothing: every      *)
(* statement is idempotent.                                                *)
Made(p) ==
    \A i \in DOMAIN cmd[p].steps :
        cmd[p].steps[i] \in Statements =>
            Executed(cmd[p].steps[i], db, cmd[p].order) = db

(* "Every mutation is recorded" (README.md:42), and only mutations: an     *)
(* audit row is never there before all of the change it describes, and a   *)
(* command that reports success has made all of its change, and has its    *)
(* row unless it is one of those that drop the audit log's error.          *)
AuditFollowsChange ==
    \A p \in Process :
        /\ logged[p] /\ ~overtaken[p] => Made(p)
        /\ pc[p] = "done" /\ ~overtaken[p] => Made(p)
        /\ pc[p] = "done" =>
              logged[p] \/ (IgnoresAuditError(cmd[p].order) /\ faults > 0)

(* A command that regenerates an include file, and neither warned nor was  *)
(* overtaken, leaves Caddy serving exactly the tables, whatever earlier    *)
(* commands failed to bring there: autodiscovery for every domain, MTA-STS *)
(* for the active ones (cli.go:184-203).                                   *)
SyncRepairs ==
    \A p \in Process :
        pc[p] = "done" /\ ~overtaken[p] /\ ~warned[p] =>
            /\ cmd[p].order.op \in {"domain.add", "domain.remove"} =>
                  served.auto = Domains
            /\ cmd[p].order.op \in {"domain.add", "domain.remove",
                                    "domain.enable", "domain.disable"} =>
                  served.sts = Active

=============================================================================
