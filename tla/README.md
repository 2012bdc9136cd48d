# mailadmin, specified

TLA+ models of `mailadmin`, the command-line administrator of a Postfix /
Dovecot / Rspamd mail server, with TLC runs and TLAPS proofs. The source is
under `src/`; `dns.go:802` below means line 802 of the file of that name
(`internal/cli/dns.go`, `internal/dnsprovider/*.go`, ...).

There is no daemon. What runs concurrently are separate `mailadmin` processes
(an operator, a second operator, a cron job or an ACME deploy hook) and the
rest of the world: other clients of the DNS provider, the IMAP server, the
editor. What fails are calls: to a provider's API, to Postgres, to a helper
program, to the file system. Between any two of them the process may be killed.
Nothing is transactional, so what the code guarantees it guarantees by the
order of its calls and by being safe to run again.

## Inventory

| Component (files) | State | Operations | What is hard | What makes it correct |
|---|---|---|---|---|
| Reconciliation plan (`provider.go`) | none; a pure function of the listed and the desired records | `Plan`, `reconcileSlot`, `Stale` | duplicates, respelt values and leftovers in one slot, in any list order | each live record of a managed slot and each desired value in exactly one change; content already live is kept |
| DNS publish on id providers (`dns.go`, `provider.go`, `njalla.go`, `cloudflare.go`, `inwx.go`) | the provider's records; the plan in memory; `audit_log` | `dnsPublish`, `Reconcile`, `Add/Edit/RemoveRecord` | stale list, partial failure, lost answers, crash, two publishes at once | foreign slots untouched; no slot emptied; exact on success; idempotent; audited |
| DNS publish on RRset providers (`desec.go`, `servercow.go`, `servfail.go`, `rrset.go`) | the provider's RRsets | `upsertValue`, `writeRRset`, `writeSet`, `do` | read-modify-write of sets shared by several slots, retried writes, PUT/POST fallback | as above, as far as read-modify-write allows |
| Takeover and restore (`manage.go`, `dns.go`) | the zone; snapshot files | `Backup`, `WriteSnapshot`, `ReplaceAll`, `Restore` | stops between removing and adding; torn or overwritten snapshots; records edited meanwhile | nothing removed that is not backed up; backups survive; restore is exact; web records kept |
| Migration and prune (`zone.go`, `discover.go`, `dns.go`) | two zones; the domain row | `Migrate`, `dnsMigrateClean`, `offerStaleDelete` | deletes before the copy is confirmed; records confused by the copy's key; provider switched in a separate step | the target zone serves what the source served |
| DANE (`dane.go`, `dns.go`) | TLSA records | `dnsPublishDANE` | two publishes at once, certificate rollover | the record is added beside what is there |
| DNS show, check, posture audit, doctor (`dnscheck.go`, `dnsaudit/*`, `doctor.go`) | none | queries, comparisons, grading | sources that do not answer; SPF includes that loop or meet the limit; several records per name | a good report is earned |
| Domains (`domain.go`, `db.go`, `mail.go`) | `domains`, DKIM key files | add, remove, enable, set-dkim, regen-dkim, set-provider | check-then-act without transactions, partial failure | a domain with mailboxes is not removed; every row has its key |
| Mailboxes, app passwords, aliases (`mailbox.go`, `alias.go`, `apppw.go`) | their tables, maildirs | add, remove, passwd, quota, enable | as above; mail is delivered meanwhile | no orphans |
| Audit (`audit.go`) | `audit_log` | `Record` | written after the change, in a second statement | a row tells of a change that was made |
| Web include files (`webserver.go`, `cli.go`) | Caddy include files | `Sync`, `SyncMTASTS` | read the database, write the file: two processes cross | the files converge to the database |
| Maildir (`maildir.go`), Sieve (`sieve.go`) | mail files, scripts | dedupe, purge; show, set, edit | beside a running IMAP server; edit overwrites | one copy of each message stays; no lost edit |
| Queue, services, firewall, bans (`postfixq`, `services`, `security`) | kept by other programs | one call of a tool each, between a question and an audit row | the tool times out after it has acted | the row tells of the deed |
| Configuration (`config/*`), self-update (`selfupdate.go`) | files | init, edit; download, verify, replace | crash between two files; interrupted replacement | no command runs on a half-written `config.toml`, one init at most succeeds; never half a binary |
| Statistics (`stats/*`) | none | folds over log lines | boundaries of buckets and windows | totals agree with the lines |
| Log tail (`logs.go`, `log.go`) | a pipe, a channel | `Tail`, `streamLines` | three threads of control and a bounded channel; cancellation | what is printed is the journal |
| Shell, output, validation, password hashing, quota (`cli/*`, `output`, `valid`) | none | formatting, prompts | | not modelled |

Components interact by calls inside one process (`cli` calls everything else;
`dnsprovider` knows only the `Provider` interface), through the database
(domains decide which provider is called and which MTA-STS hosts are served),
and through the provider's zone, the only state several processes change
without any lock.

## Modules

```
ZonePlan                 slots, contents, plans (shared definitions)
  PlanAlgorithm          the loops of Plan and reconcileSlot
    PlanAlgorithmProofs  its theorem
  MailZone               what a publish promises (abstract)
  PublishById            dns publish on Njalla, Cloudflare, INWX
    PublishByIdProofs    its theorems
  PublishByRRset         dns publish on deSEC, Servercow, servfail.network
    PublishByRRsetProofs its theorems
  Diagnostics            dns audit, dns check, doctor, config check
ZoneTakeover             dns takeover and dns restore
  ZoneTakeoverProofs     its theorems
ZoneMigrate              dns migrate, dns check with its prune, dns publish --dane
  ZoneMigrateProofs      its theorems
Accounts                 domains, mailboxes, app passwords, aliases, include files
  AccountsProofs         its theorems
HostTools                Sieve, the queue, bans, ports, units
Executable               what an update promises (abstract)
  SelfUpdate             mailadmin update
    SelfUpdateProofs     its theorems
ConfigFiles              config init, config edit, the load every command begins with
MaildirDedupe            mailbox dedupe
LogTail                  log tail
Host                     composes HostTools, SelfUpdate, ConfigFiles, MaildirDedupe,
                         LogTail and Diagnostics on one host
  HostProofs             its theorems, those of its parts among them
MC*                      the instances TLC checks
```

**ZonePlan.** A value is everything of a `Record` but its id and TTL. Two
functions stand for what the code computes from its strings: `SlotOf` for
`Record.identity` (type, name and, for TXT, the policy scheme) and `ClassOf`
for what `sameContent` compares. `Plans(live)` is the set of plans the code may
make for a set of live records; it is a set because a provider promises no list
order and the order picks among equally good records. `ZoneAssumption` says that values of one content
share their slot and that the desired set has no two values of one content.

**PlanAlgorithm** is `Plan` and `reconcileSlot` on lists, one iteration per step:
the loop over the slots, and for each the one that keeps exact matches
(`KeepLoop`), the one that reuses leftovers (`ReuseLoop`) and the one that drops
the rest (`DropLoop`). Its run compares the result with `Plans` in both
directions, for every list of up to three of six values in every order.
`PlanComplete` needs the plans of all orders at once, so `Plan(l, w)` runs the
same iterations to their end as folds; the property also says that the two forms agree.

**PublishById.** `zone` is the provider's set of `[id, val]` and `nextId` its id
counter. Per process, `pc` says where `dnsPublish` is, `todo` is the part of the
plan not carried out, `applied` is Reconcile's result and `audit` the rows
written. `List` is Reconcile's list and plan (`provider.go:264-268`); `Add`,
`Edit` and `Delete` are one call each of its three passes (`:270-299`); `Audit`
is the end of `dnsPublish` (`dns.go:806-810`). `Call` gives every provider call its three
outcomes: it succeeds, it fails, or it takes effect and its answer is lost. A call on
an id that is gone is refused, and so is an add when the zone is full. The first error ends the run. `Crash` kills it.
`changed` and `overtaken` are history: what a run really changed, and whether
another process wrote after it listed.

**PublishByRRset.** A record is its value and its id encodes it. Each record
call is a read (`ReadToAdd`, `ReadToEdit`, `ReadToRemove`) and, as a separate
step, a write of the changed copy (`WriteSet`). `BadAnswer` is an error whose
write may have been carried out; deSEC's client repeats the same copy up to
`desecMaxAttempts` times. `CreateInstead` and `CreateRefused` are deSEC's
fallback from PUT to POST and the conflict it may meet. `disabled` are
PowerDNS values that `ListRecords` skips and `writeSet` does not.

**ZoneTakeover.** `files` maps a snapshot's name to its content, `Torn` when
the write was cut off. `Backup`, `WriteSnapshot`, `RemoveRecord` and `AddRecord`
are `ReplaceAll`; `StartRestore` loads a file and lists the zone, and the same
two actions wipe and re-add. Others may add, edit and remove records meanwhile.

**ZoneMigrate.** The target zone is a set of `[id, val]`; `kind` says whether
its ids are the provider's own or name an RRset. A command goes through `pc`:
`Pull` (from a provider, AXFR, a zone file or probing), `EnsureZone`,
`ListForClean` and `Clean`, the question, `Migrate` with one call per record,
`Report`, the question, and `Switch` of the domain's row. `ListForCheck`,
`SelectIndices` and `Prune` are `dns check --registrar`; `AddTLSA` is
`dns publish --dane`. `Probe` is discover.go: wildcards by what made-up names
answer, queries the resolver loses. `Again` is a re-run of a failed command.

**Accounts.** `db` holds the four tables, `keys`, `mail` and `file` what is on
disk, `served` what Caddy has loaded. A command is the list of steps its handler
takes once its checks have passed (`NewDomainCmd`, `NewMailboxCmd`,
`NewAppPasswordCmd`, `NewAliasCmd`); `left[p]` are those still to take, and one
action takes one step: a statement of `internal/db` (`Execute`), the DKIM
helper, the maildir's removal, the audit row, a list of the domains, an include
file. Only primary keys are assumed of the tables, as the schema is not part of
the source.

**HostTools** has the same form: `Steps(c)` of a command, and one action per
step; `Effect` says what a tool's call makes of the host. A call succeeds, fails
without effect, or fails with effect (killed at its timeout, `sys.go:112`).
`Outside` is the mailbox's owner, with scripts of other names, and the queue
manager.

**SelfUpdate** refines **Executable**: a register replaced only by something
published. A release has a binary and a checksum file that the maintainer may
replace one after the other; a download may be cut without an error.
`UpdateAssumption` says that versions are numbers.

**ConfigFiles.** Two files, each absent, cut short, a starter, edited or broken.
`CreateNew` and `WriteNew` are the two halves of `writeNew`; a save that falls between
them may survive the write, be overwritten, or be overwritten in part. A write that
fails may have happened. `Parsed` is what `parseEnvLine` makes of a file: a starter of
`secrets.env` has only blank values, so one cut short sets no secret either. `saved`,
`clashed` and `inits` are history: the files the operator saved a text in, those an init
wrote over a save, and the inits that succeeded.

**MaildirDedupe.** A file is its place in the order of folders and names and its
Message-ID. A pass lists a folder (`ListFolder`), opens its files one by one
(`Scan`) and deletes (`Remove`); `Deliver`, `Move` and `Expunge` are the mail
server and the mailbox's owner. `DedupeAssumption` says that the order goes
folder by folder.

**LogTail.** journalctl writes into `pipe`; the goroutine of `logs.go` scans and
sends into `channel`; the command prints. `Cancel` is Ctrl-C, `Exit` the end of
journalctl.

**Diagnostics.** Each check of a report is an action that chooses what its source
holds or that it stays silent, and adds the verdicts of the evaluator it is
translated from (`EvalSPF`, `EvalDKIM`, `EvalDMARC`, ...). The recursion of
`spfLookups` is taken one term at a time: `walk` is its call stack, each record
with its next term and the count it began with, the domains met (`seen`) and the
count; `CountTerm`, `PassByTarget`, `FollowTarget` and `EndOfRecord` are its cases. What is
sound is defined a second time, from the sources and without the evaluators
(`SoundSPF`, ...); `PassIsEarned` compares the two. `dns check` counts through
`Plans` of ZonePlan.

**Host** begins in one of its parts and stays there: the parts share no file and
no process, so steps of different parts commute, and interleaving them shows
nothing that one part alone does not.

**MailZone** is the abstract specification: the desired values that are live,
the undesired records of managed slots, and everything else. A step may add to
the first, take from the second, and never empties an occupied slot. Both
publish modules refine it, each with a mapping of its own (`Abstract`). That of
PublishByRRset leaves the foreign records out: a raced write may change mail records
and foreign ones at once, which is no step of MailZone; what holds of them is
`ForeignKeptUnlessRacing`.

Definitions headed "a bug" (`DeletesEdited`, `UpsertLost`, ...) are plausible mistakes in the
definition that follows them. No specification uses them; they are
there to show that a property notices when the one takes the other's place.

## Runs

| Run | Checks | Instance and bounds |
|---|---|---|
| `plan_algorithm` | `PlanSound`, `PlanComplete`: the loops compute exactly `Plans` | 6 values, 2 slots managed, 1 foreign; up to 3 records: enough for a kept, a reused and a superfluous one together; both spellings of a value |
| `publish_by_id` | `AuditTruthful`, `ImplementsMailZone`, `Converges` | one process, 6 values, 3 initial records, 2 faults, 1 foreign write |
| `publish_by_id_race` | `IInv`, `ExactOnSuccess`, `SlotsNeverEmptied`, `ForeignUntouched`, `ExactZoneIsLeftAlone` | two processes, 5 values, 2 initial records, 1 fault, 1 foreign write |
| `publish_by_rrset` | `TypeOK`, `ExactOnSuccess`, `WritesImprove`, `ForeignKeptUnlessRacing`, `Converges` | two processes, all three backends, 6 values in 2 RRsets, 2 attempts, 2 faults, 1 foreign write |
| `zone_takeover` | `RemovesOnlyWhatIsBackedUp`, `BackupsSurvive`, `WebKept`, `TakeoverExact`, `RestoreExact` | 2 initial records of 3 values, 2 snapshot seconds, 1 fault, 1 foreign write |
| `zone_migrate` | `CopyComplete`, `DelegationKept`, `NoDuplicates`, `PruneDeletesWhatWasShown`, `Converges` | two processes, one migrating from each kind of source with and without `--create` and `--clean`, the other migrating, pruning or publishing a TLSA record; 2 commands besides re-runs, 1 fault or foreign edit; a source with wildcard, apex and delegated NS |
| `accounts` | `KeyBeforeRow`, `AuditFollowsChange`, `SyncRepairs`, `NoOrphansUnlessOvertaken` | two processes, each of the 17 commands on one domain, mailbox, alias source and app password; include files left in any state by what went before; 2 commands, 2 faults, 1 delivery |
| `host` | `FilterOldOrNew`, `NoLostEdit`, `RowTellsOfDeed`; `AtomicReplace`, `OnlyUpgrades`; `InitSucceedsOnce`, `SuccessIsUsable`; `KeepsFirst`, `DedupeComplete`; `TailIsTheJournal`; `PassIsEarned` | two processes, 2 commands, 1 fault; three releases (higher, equal, no version) and two builds of each; three places in two folders; channel 1, pipe 2, 3 entries; for each report, answers of every verdict, SPF limit 5 and depth 2, three targets that may include each other, themselves and the domain, each of which may fail to answer, up to two mail hosts with any TLSA values of three, each down or with a certificate |
| `publish_audit_gap` | violates `EveryMutationAudited` | as `publish_by_id` |
| `rrset_two_spellings` | violates `SlotsNeverEmptied` | one process, no faults |
| `rrset_disabled` | violates `ExactOnSuccess` | servfail.network, one disabled value |
| `probe_wildcard` | violates `PulledFromZone` | a source whose wildcard is a CNAME |

The bounds. Ids run out at `MaxId`; the provider then refuses adds, a case of
its own. Two faults are enough for a failure during the recovery from a
failure. One foreign write can fall anywhere in a publish, between a read and
its write included. Two processes are enough for each kind of overlap; the
proofs cover any number. `MaxAttempts` is 2 where the code has 5: the first
repetition already repeats a stale copy. `plan_algorithm` and `zone_takeover`
do not check for deadlock: `Plan` returns, and an operator need not start
another command; the same holds for `zone_migrate`, `accounts` and `host`, whose
commands come to an end.

Two commands in two processes can overlap in every way, or follow one another,
the second repairing what the first left; the first states of `accounts` hold
what still earlier commands may have left. Channel and pipe are small so that
both fill up. The SPF limit is 5 and the depth 2 where the code has 10 and 10:
with three targets a count on either side of the limit, one next to it, a record
too deep, a loop and a repeated include all occur; the theorem holds of any limit, depth and targets.

Fairness. `Spec` of the publish modules asks weak fairness of `Publish(p)`: a
started command runs on (it is a sequential program whose calls return or time
out), and an operator whose publish failed runs it again. The second half is an
assumption about people; without it a failed publish stays half done, and
nothing in the code retries it. Faults and foreign writes are never obliged to
happen and are bounded, so they stop. ZoneMigrate asks the same: a command goes
on and its questions are answered, and what failed is tried again. Of the other modules
no liveness property is stated: nobody is bound to restore a zone, to repeat a
failed account command or to update; and the log is followed until somebody
interrupts it.

### What the runs show

* A publish that nobody overtakes keeps every slot occupied, leaves foreign
  records alone and ends exact, through failed calls, lost answers, crashes and
  foreign writes; run again, it converges. On id providers foreign records
  are safe even from stale plans.
* On RRset providers every write of such a publish is an improvement in the sense of
  MailZone (`WritesImprove`), be it late, repeated or cut off; that it keeps
  every slot occupied is part of that.
* `SlotsNeverEmptied`, `WritesImprove` and `ExactOnSuccess` need "not overtaken": a
  plan made before another publish finished may delete what that one kept.
* **A failed publish is not audited** (`publish_audit_gap`). `dnsPublish`
  returns Reconcile's error and drops the changes already applied
  (`dns.go:803-805`). `README.md:42`: "every mutation is recorded".
* **Respelt duplicates vanish together** (`rrset_two_spellings`). The plan
  keeps one of two live values that differ in letter case and deletes the
  other; `removeValue` (`desec.go:455-463`) removes both. `provider.go:261-262`:
  "a slot is never briefly empty".
* **Disabled values come back** (`rrset_disabled`). `writeSet` of
  servfail.network copies disabled records into the new RRset without the flag
  (`servfail.go:172-195`). `provider.go:168-169`: a slot ends up with "exactly
  the desired records". Because of these two, `publish_by_rrset` starts
  without respelt duplicates (`TwoSpellings = FALSE`) and without disabled values.
* An RRset write takes a foreign value away only if that value was written
  between the read and the write (`ForeignKeptUnlessRacing`).
* Snapshot names have a resolution of one second (`manage.go:47`):
  `BackupsSurvive` holds for takeovers in different seconds and fails with
  `SameSecond = TRUE`. `Restore` saves nothing before it wipes (`manage.go:121`),
  so what was added since the snapshot is in no file.
* A migration copies everything its source gave, without duplicates, keeps the
  target's delegation, and tried again it succeeds, from whatever half-done
  state, as long as no two of its records differ only in priority, weight or port.
  With such twins it does not: `Migrate`'s key (`zone.go:171`, `:177`) leaves these
  out, so the second of two SRV records that differ in their port is reported as skipped
  and never copied, although `zone.go:160-161` says it "creates every record ...,
  skipping any that already exist there". With such a pair in `MCSourceZone`
  TLC finds `CopyComplete` violated.
* **Probing makes up records** (`probe_wildcard`). Under a wildcard CNAME the
  probes of `discover.go` emit `*` records of type A, AAAA and CAA whose content is the
  CNAME's target, and not the CNAME.
* `--clean` and the prune take no snapshot, although `README.md:26-29` promises
  one "before any destructive change" of a migration; declining the copy after
  `--clean` leaves the zone cleaned. `splitDelegation` drops the NS records of
  delegated names too, which the comment on `keepRR` keeps. The prune may
  offer the delegation and TLSA records, as they are not in the mail set.
* No row is ever without its DKIM key; a command nobody overtook orphans nothing, wherever
  it stops. One that is overtaken may: `mailbox add` beside `domain remove`
  leaves a mailbox without domain (`mailbox.go:242`, `domain.go:313`). Aliases outlive their
  domain in any case, so `Orphans` does not count them.
* The include files are right after any command that regenerates them, unless it warned or
  was overtaken: two processes may write their lists in the opposite order of
  their reads. The mailbox commands drop an error of the audit log, the others fail.
* `mailbox add` of an existing address replaces its password and quota and
  activates it, and logs no earlier state; `regen-dkim`'s helper leaves a key that exists.
* The program is replaced atomically by whole published binaries. An update that
  was overtaken may put an older release over a newer one, as the version compared
  is that of the running program (`version.go:57`); a crash leaves a stray
  temporary file. A pre-release suffix is ignored.
* Of any number of `config init`, at most one reports success (`InitSucceedsOnce`), and no
  command goes on past its load of a half-written `config.toml`. On a half-written
  `secrets.env` it does: `LoadSecrets` skips what it cannot parse. What init was writing is a
  starter of blank values, so this means no secrets, as for a missing file. `SuccessIsUsable`
  says it of both files: a command nobody overtook has what the operator saved last, and no
  secrets where he saved none.
* What an editor saves between init's creation of a file and its write may be lost or mixed
  with the starter (`clashed` exempts it); `O_EXCL` guards the creation alone. After a failure
  or a crash between its two files, or within one, `config init` refuses for ever, as the first
  exists. `config check` demands the secrets of
  every provider, of which the starter says "only one is needed".
* A dedupe pass keeps the first copy whatever else runs. Only a client that moves the
  kept copy ahead of the pass can make it delete the last one; `touched` exempts it.
* A log tail prints the journal's lines in order, up to any point at which it stops. An entry above 1 MiB
  ends the scan (`logs.go:158`); `cmd.Wait` then waits for a journalctl whose pipe nobody
  drains, and the tail stands still until it is interrupted.
* A PASS is earned as `PassIsEarned` says, which leaves out what the code
  does not see: a TXT query that fails counts as no record, so a domain without a
  DKIM key in the guessed selectors may pass; one unit that cannot
  be read hides the others, and doctor still exits with 0. `doctor` and
  the guard of `dns publish` accept any line that says `mode: enforce`, the audit only the first.
* **SPF may pass on too low a count.** `audit.go:217` drops the error of an include's
  lookup, and the include then costs nothing. `PassIsEarned` says so: the domains whose lookup
  failed stay in `walk.mute`, and with one of them a PASS promises a sound SPF only as far
  as it was answered. Without that clause TLC finds `PassIsEarned` violated.
* **DANE may pass beside a mismatch.** The check stops at the first host that answers
  (`audit.go:333-341`) and compares its certificate with the values of all hosts pooled. So a
  reachable host whose certificate does not match its TLSA passes behind another host, though
  `audit.go:314` says "A reachable non-match is a hard Fail", and `docs/DNS.md:254-257` that a
  stale TLSA "shows as **fail**". `SoundDANE` compares a host's certificate with the
  values of that host, and does so where it is the only one that publishes; without
  that restriction TLC finds `PassIsEarned` violated.
* A unit may be acted on without an audit row: the status read in between may fail
  (`service.go:144`).

## Proofs

`PlanAlgorithmProofs` proves, for any zone, list order, values, slots and desired
set, from `ZoneAssumption` and `PlanAssumption` (the desired set is finite):

| Theorem | Statement |
|---|---|
| `PlanIsSound` | `Spec => []PlanSound` |

The argument. `PlanInv` says at every iteration what the changes so far pair.
`Pairing`: a kept record has the content asked for, an edited one at least the
slot, and a value is added only when every record of its slot is used. `OneToOne`:
no record serves two values, no value has two records. `Decided`: what a loop has
passed is settled; a value that the first loop left without a match has no record of its content
at all, since a record already used is kept for a value of the same content, and
`ZoneAssumption` allows only one. When all slots are through, the pairs are a placement
(`PairsArePlaced`) and the changes are those of it (`ChangesArePlanned`). So the
theorems about publishes, which take any member of `Plans`, speak of what
the loops compute.

`PublishByIdProofs` proves, for any values, slots, desired set, number of
processes and bounds, from `ZoneAssumption` and `BoundsAssumption` alone:

| Theorem | Statement |
|---|---|
| `TypeCorrect` | `Spec => []TypeOK` |
| `InvariantHolds` | `Spec => []IInv` |
| `ForeignIsUntouched` | `Spec => ForeignUntouched` |
| `SlotsAreNeverEmptied` | `Spec => SlotsNeverEmptied` |
| `SuccessIsExact` | `Spec => []ExactOnSuccess` |
| `ExactStaysUntouched` | `Spec => ExactZoneIsLeftAlone` |
| `AuditIsTruthful` | `Spec => []AuditTruthful` |
| `PublishImplementsMailZone` | `Spec => ImplementsMailZone` when there is one process |

The argument. `ForeignUntouched` holds of stale plans because an id in
a plan cannot have moved to another slot: ids are never reused (`IdsFresh`) and
an edit keeps the slot (`PlannedStayInSlot`). The properties of an undisturbed
publish need more than a type invariant: that the rest of the plan still fits
the zone (`Fits`): planned records are live, wanted values are not, and what
the plan does not touch is each remaining desired value exactly once. A plan
fits the zone it was made for (`FitsWhenListed`), each carried-out change
leaves a fitting rest (`FitsAfterAdd`, `-Edit`, `-Delete`), foreign writes do not
matter (`FitsWhateverIsForeign`), an empty rest means an exact zone (`NothingLeft`),
and an exact zone leaves no rest (`ExactNeedsNothing`). A delete then never empties
a slot: deletes run when nothing is wanted any more, so the slot's desired
value is held by an untouched record. With one process nobody is ever
overtaken, and the same facts give the refinement of MailZone.

`SelfUpdateProofs` proves of any tags, processes and faults:

| Theorem | Statement |
|---|---|
| `UpdateInvariant` | `Spec => []IInv` |
| `UpdateIsAtomic` | `Spec => AtomicReplace`, the refinement of Executable |
| `UpdatesGoUp` | `UpdateAssumption` implies `Spec => OnlyUpgrades` |

The argument. A file is installed only if it equals what the checksum stands for,
which is whole (`Found`), and a whole file that was downloaded is one that was uploaded and
so published (`Fetched`, `Uploaded`). For the versions, `Ahead`: an update goes
on only if its release is newer than the program it runs, and that is the one
installed until another update overtakes it.

`PublishByRRsetProofs` proves, of any backend, values, RRsets, processes, faults
and attempts:

| Theorem | Statement | Hypothesis |
|---|---|---|
| `TypeCorrect` | `Spec => []TypeOK` | |
| `ForeignIsKeptUnlessRacing` | `Spec => ForeignKeptUnlessRacing` | what is disabled is of managed slots |
| `SuccessIsExact` | `Spec => []ExactOnSuccess` | `~TwoSpellings`, `Disabled = {}` |
| `SlotsStayServed` | `Spec => SlotsNeverEmptied` | `~TwoSpellings`, `Disabled = {}` |
| `WritesOnlyImprove` | `Spec => WritesImprove` | `~TwoSpellings`, `Disabled = {}` |
| `PublishImplementsMailZone` | `Spec => ImplementsMailZone` | the same, and one process |

The argument. Two invariants on top of the types. `ForeignInv`: the copy a
call has read holds the foreign values its RRset has now, unless somebody wrote
there since (`raced`); so the write puts back what it takes, and so does a
repetition, which sends the same copy. `TrackInv`: between two calls of a
publish nobody overtook the rest of its plan fits the zone; within a call it fits the zone
the copy will leave, and that zone is an improvement on the zone there is now (`Improves`: no
slot emptied, no desired value lost, no undesired one come in). A write makes the
zone what the copy says, whenever it is carried out, and a repetition changes
nothing, so each is a step of MailZone; a single process is never overtaken, and
then these are all the changes there are in managed slots. The two hypotheses of the last theorems are
needed: without the first, `rrset_two_spellings`, and without the second,
`rrset_disabled` is a counterexample.

`ZoneTakeoverProofs` proves, from `TakeoverAssumption`:

| Theorem | Statement | Hypothesis |
|---|---|---|
| `TakeoverIsExact` | `Spec => []TakeoverExact` | |
| `RestoreIsExact` | `Spec => []RestoreExact` | |
| `TakeoverRemovesWhatIsBackedUp` | `Spec => RemovesOnlyWhatIsBackedUp` | |
| `TakeoverKeepsTheWeb` | `Spec => WebKept` | |
| `SnapshotsSurvive` | `Spec => BackupsSurvive` | `~SameSecond` |

The argument is a count. A zone may hold a value twice, and a restore brings
both back, so sets of values would not do: while nobody else writes, what the
zone holds of a value and what is still to be added of it together are what is
still to be removed of it and what the command is to leave (`Counted`). When
nothing is left to remove or to add, the zone holds what it was to hold. For
the backups, `BackedUp`: from the first removal on, the snapshot of the
takeover is in its file, and whole. `FreshName` says that the name of a
snapshot about to be written belongs to no file; that is what two takeovers in one
second break.

`ZoneMigrateProofs` proves, from `ZoneMigrateAssumption`:

| Theorem | Statement | Hypothesis |
|---|---|---|
| `PruneIsWhatWasShown` | `Spec => PruneDeletesWhatWasShown` | |
| `DelegationIsKept` | `Spec => DelegationKept` | others do not turn a listed record into a delegation record (`EditTo`) |
| `CopyIsComplete` | `Spec => []CopyComplete` | `NoTwins` |
| `NothingIsCopiedTwice` | `Spec => NoDuplicates` | `NoTwins` |

The argument. `BaseInv`: an id stands for one record; a listed record is what
its id stands for now, or others have edited it (`ListSound`); and at each stage
the list holds only what the command may remove (`StageSound`). An RRset
provider removes by value, so a stale list is harmless there; an id provider
removes whatever has the id, which is why the prune's theorem says "not
overtaken" of it and why the delegation needs its hypothesis. `CopyInv`: what a
migration has dealt with is at the target or reported as failed, and what is at
the target was listed, created or failed with its effect. `NoTwins` says that no
two values that can occur differ only in what `Migrate`'s key (`zone.go:171`)
leaves out, priority, weight and port; with twins the code skips one of
them, and the theorem would be false.

`AccountsProofs` proves, from `AccountsAssumption`:

| Theorem | Statement |
|---|---|
| `RowsHaveTheirKey` | `Spec => []KeyBeforeRow` |
| `AuditRowsAreTrue` | `Spec => []AuditFollowsChange` |
| `CaddyServesTheTables` | `Spec => []SyncRepairs` |
| `CommandsOrphanNothing` | `Spec => NoOrphansUnlessOvertaken` |

The argument follows the list of steps. What each handler may give is one of
ten forms (`Form`), and in each of them what must come first does (`Ordered`).
Each statement, carried out again, changes nothing. The invariant, `AccountsInv`, says
of a command nobody overtook that repeating any step it has taken would change nothing
(`Repeats`), so that its change is there; that what its checks saw is still so
(`Checked`); and that what it listed, wrote or made Caddy load mirrors the table (`Mirrors`). One lemma
per action shows that its step keeps this for the process itself, and that a
step of another overtakes it or is invisible to it.

`HostProofs` proves of the composition of all parts, any number of processes and faults:

| Theorem | Statement |
|---|---|
| `ProgramIsReplacedAtomically`, `ProgramGoesUp` | `Spec => AtomicReplace`, `Spec => OnlyUpgrades` |
| `MailboxKeepsTheFirst`, `MailboxHasNoDuplicates` | `Spec => KeepsFirst`, `Spec => []DedupeComplete` |
| `MailboxKeepsACopy` | `Spec => []Dedupe!KeepsOne` |
| `ConfigurationIsUsable` | `Spec => []SuccessIsUsable` |
| `InitsSucceedOnce` | `Spec => []InitSucceedsOnce` |
| `JournalIsPrinted` | `Spec => []TailIsTheJournal` |
| `FilterIsOldOrNew` | `Spec => FilterOldOrNew` |
| `EditsAreNotLost`, `RowsTellOfDeeds` | `Spec => []NoLostEdit`, `Spec => []RowTellsOfDeed` |
| `ReportsAreEarned` | `Spec => []PassIsEarned` |

The argument. Every behaviour of the host, seen at one of its parts, is a
behaviour of that part, so the theorems about updates are those of
`SelfUpdateProofs`, instantiated. For the mailbox (`DedupeInv`): a pass goes
forward (`Forward`), so what it dooms is a copy of something it kept earlier
(`Doomed`); and of that there is still a copy as early or earlier in the box
(`CopyKept`), even when another pass deletes it, as that one has a still earlier
copy by the same reasoning. `Covered` says that an undisturbed pass has kept each
message it passed by and left there. For the configuration, two invariants. `ConfigInv`: a file in which the operator has
saved a text still holds one, unless an init wrote over it (`SavedText`), an init about to
write has a file that is empty but for such a save, `config.toml` is neither absent nor cut
short once a process is past it, and what a command has loaded so far is what was saved,
unless it was overtaken. `InitInv`: at most one process has created `config.toml` and not given up
(`Claims`); while there is one, no init has succeeded, and it goes on to `secrets.env`
only once `config.toml` is written; files never go back to absent (`FilesGoForward`), so
after it no init can begin to write. For the log tail (`LogInv`): what is printed, in the
channel, held by the scanner and in the pipe is, in this order, what the journal
wrote. For the tools (`ToolInv`): as for the accounts, repeating any step a command
has taken would change nothing while nobody overtakes it. For the reports
(`ReportInv`): an audit whose verdicts are all good so far found each required
check it is through with sound, SPF only if every lookup was answered (`Demanded`),
and saw no flaw; one lemma per evaluator shows that its good verdicts imply what is sound. For SPF these are two definitions far
apart, a count along a walk and the least set of domains that includes are closed
under. `WalkInv` ties them together: the count is the number of terms passed
that cost a query (`Paid`), no record is on the stack twice, and every domain
that a passed term names was met. When the walk has come to its end all terms are
passed, so the domains met are closed under includes and contain all that can be
reached, and none of their queries is uncounted.

What the theorems assume of the constants (`ZoneAssumption`, `PlanAssumption`, `BoundsAssumption`,
`TakeoverAssumption`, `ZoneMigrateAssumption`, `AccountsAssumption`,
`UpdateAssumption`, `DedupeAssumption`, `DiagnosticsAssumption`) TLC evaluates in the runs of the modules
concerned.

Only model-checked:

* `Converges`, of all three modules: liveness under fairness is out of the
  prover's reach.
* `PlanComplete`: it speaks of the plans of all list orders at once, by folds
  over lists of any length, and what a fold computes is an induction over data,
  which the provers cannot do.
* The properties the code violates, of which TLC gives the counterexample.

`ZoneAssumption` takes the desired records for a set without two of one
content. `DesiredMailRecords` (`provider.go:353-407`) is a list, and gives no record
twice, with one exception: for a mail host named `mta-sts.<domain>` the address
records of the MTA-STS host (`:389-394`) and of the mail host (`:398-405`) are
the same. That configuration is outside of the model and of the theorems.

## Not modelled

Text is not: formatting and parsing of record values, ids and snapshots; the
strings behind slots and contents; the output of journalctl, postqueue, cscli
and nft. TTLs are left out (Reconcile ignores them).
The desired set is the same for all processes and does not change from one run
to the next. Of one record it is not true: where MTA-STS is published, the content of
`_mta-sts` is the time at which the command makes its records (`provider.go:396`,
`njalla.go:172`). So each `dns publish` edits that record even in an otherwise exact
zone, and of two publishes each has its own; "idempotent" (`docs/DNS.md:78`)
and `ExactZoneIsLeftAlone` hold of the other records, and of a domain without
MTA-STS of all. `--dry-run` and permission checks change no state, and commands that only list or
show (`domain list`, `queue list`, `audit list`, `dns show`, `log show`,
quota) read once and print. An id provider's edit keeps the
record's id; its zone-id cache, sessions and pagination do not show. A `dns
publish` that follows `domain add` is PublishById or PublishByRRset and not part of Accounts.

*Statistics* folds the lines of a log after parsing their text, *output*,
*validation* and *password hashing* work on single strings: none has a state, a
second actor or a failure half-way, and what could be wrong in them is in the
regular expressions and the formatting, which models of this kind abstract. `dnscheck.Check`, `gather` and `checkTXTValue` are called by
nothing.

The wire format of DNS queries and of provider APIs is not modelled; neither are shell
completion and the reading of passwords.

## Plan

1. `DesiredMailRecords` with `identity` and `sameContent` on records, which is
   what `ZoneAssumption` assumes of the desired set, the mail host named
   `mta-sts` included.
