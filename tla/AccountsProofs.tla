--------------------------- MODULE AccountsProofs ---------------------------
(***************************************************************************)
(* Theorems about the account commands, for any number of processes, any   *)
(* domains, addresses and commands, and any number of faults and deliveries.*)
(*                                                                         *)
(* The proof follows the steps of a command.  First, the lists of steps the*)
(* handlers give, and what comes before what in them; then, what each      *)
(* statement makes of the tables, and that making it again changes nothing;*)
(* then the inductive invariant, AccountsInv, which says what holds of a   *)
(* command that has come so far; and one lemma for each step of a process. *)
(***************************************************************************)
EXTENDS Accounts, SequenceTheorems, TLAPS

-----------------------------------------------------------------------------
(* The lists of steps the handlers give.                                   *)

Alone ==
    {<<"domain.set-provider", "SetDomainDNSProvider">>, <<"mailbox.add", "CreateMailbox">>,
     <<"mailbox.passwd", "UpdateMailboxPassword">>,
     <<"mailbox.set-quota", "UpdateMailboxQuota">>,
     <<"mailbox.enable", "SetMailboxActive">>, <<"mailbox.disable", "SetMailboxActive">>,
     <<"mailbox.app-password.add", "CreateAppPassword">>, <<"alias.add", "CreateAlias">>}
Asked ==
    {<<"mailbox.app-password.remove", "DeleteAppPassword">>,
     <<"alias.remove", "DeleteAlias">>, <<"alias.remove", "DeleteAliasesBySource">>}

AddSteps ==
    <<"key", "CreateDomain", "SetDomainDNSProvider", "audit", "list-auto", "put-auto",
      "list-sts", "put-sts">>
RemoveSteps ==
    <<"confirm", "DeleteDomain", "audit", "list-auto", "put-auto", "list-sts", "put-sts">>
EnableSteps == <<"SetDomainActive", "audit", "list-sts", "put-sts">>
DisableSteps == <<"confirm", "SetDomainActive", "audit", "list-sts", "put-sts">>
SetKeySteps == <<"key", "SetDKIMSelector", "audit">>
RegenSteps == <<"confirm", "key", "audit">>
PurgeSteps ==
    <<"confirm", "purge", "DeleteAppPasswordsByMailbox", "DeleteMailbox", "audit">>
NoPurgeSteps == <<"confirm", "DeleteAppPasswordsByMailbox", "DeleteMailbox", "audit">>

Form(c, t) ==
    \/ c.op = "domain.add" /\ t = AddSteps
    \/ c.op = "domain.remove" /\ t = RemoveSteps
    \/ c.op = "domain.enable" /\ t = EnableSteps
    \/ c.op = "domain.disable" /\ t = DisableSteps
    \/ c.op = "domain.set-dkim" /\ t = SetKeySteps
    \/ c.op = "domain.regen-dkim" /\ t = RegenSteps
    \/ c.op = "mailbox.remove" /\ t = PurgeSteps
    \/ c.op = "mailbox.remove" /\ t = NoPurgeSteps
    \/ \E s \in Statements : <<c.op, s>> \in Alone /\ t = <<s, "audit">>
    \/ \E s \in Statements : <<c.op, s>> \in Asked /\ t = <<"confirm", s, "audit">>

Word ==
    Statements \union {"confirm", "key", "purge", "audit", "list-auto", "put-auto",
                       "list-sts", "put-sts"}

LEMMA Join11 ==
    ASSUME NEW S, NEW a \in S, NEW b \in S
    PROVE  <<a>> \o <<b>> = <<a, b>>
  <1> DEFINE x == <<a>> \o <<b>>
             y == <<a, b>>
  <1>1. <<a>> \in Seq(S) /\ <<b>> \in Seq(S) /\ y \in Seq(S)
    OBVIOUS
  <1>2. x \in Seq(S) /\ Len(x) = 2 /\ Len(y) = 2
    BY <1>1
  <1>3. \A i \in 1 .. 2 : x[i] = y[i]
    BY <1>1
  <1> QED
    BY <1>1, <1>2, <1>3, SeqEqual

LEMMA Join12 ==
    ASSUME NEW S, NEW a \in S, NEW b \in S, NEW c \in S
    PROVE  <<a>> \o <<b, c>> = <<a, b, c>>
  <1> DEFINE x == <<a>> \o <<b, c>>
             y == <<a, b, c>>
  <1>1. <<a>> \in Seq(S) /\ <<b, c>> \in Seq(S) /\ y \in Seq(S)
    OBVIOUS
  <1>2. x \in Seq(S) /\ Len(x) = 3 /\ Len(y) = 3
    BY <1>1
  <1>3. \A i \in 1 .. 3 : x[i] = y[i]
    BY <1>1
  <1> QED
    BY <1>1, <1>2, <1>3, SeqEqual

LEMMA Join13 ==
    ASSUME NEW S, NEW a \in S, NEW b \in S, NEW c \in S, NEW d \in S
    PROVE  <<a>> \o <<b, c, d>> = <<a, b, c, d>>
  <1> DEFINE x == <<a>> \o <<b, c, d>>
             y == <<a, b, c, d>>
  <1>1. <<a>> \in Seq(S) /\ <<b, c, d>> \in Seq(S) /\ y \in Seq(S)
    OBVIOUS
  <1>2. x \in Seq(S) /\ Len(x) = 4 /\ Len(y) = 4
    BY <1>1
  <1>3. \A i \in 1 .. 4 : x[i] = y[i]
    BY <1>1
  <1> QED
    BY <1>1, <1>2, <1>3, SeqEqual

LEMMA Join22 ==
    ASSUME NEW S, NEW a \in S, NEW b \in S, NEW c \in S, NEW d \in S
    PROVE  <<a, b>> \o <<c, d>> = <<a, b, c, d>>
  <1> DEFINE x == <<a, b>> \o <<c, d>>
             y == <<a, b, c, d>>
  <1>1. <<a, b>> \in Seq(S) /\ <<c, d>> \in Seq(S) /\ y \in Seq(S)
    OBVIOUS
  <1>2. x \in Seq(S) /\ Len(x) = 4 /\ Len(y) = 4
    BY <1>1
  <1>3. \A i \in 1 .. 4 : x[i] = y[i]
    BY <1>1
  <1> QED
    BY <1>1, <1>2, <1>3, SeqEqual

LEMMA Join23 ==
    ASSUME NEW S, NEW a \in S, NEW b \in S, NEW c \in S, NEW d \in S,
           NEW e \in S
    PROVE  <<a, b>> \o <<c, d, e>> = <<a, b, c, d, e>>
  <1> DEFINE x == <<a, b>> \o <<c, d, e>>
             y == <<a, b, c, d, e>>
  <1>1. <<a, b>> \in Seq(S) /\ <<c, d, e>> \in Seq(S) /\ y \in Seq(S)
    OBVIOUS
  <1>2. x \in Seq(S) /\ Len(x) = 5 /\ Len(y) = 5
    BY <1>1
  <1>3. \A i \in 1 .. 5 : x[i] = y[i]
    BY <1>1
  <1> QED
    BY <1>1, <1>2, <1>3, SeqEqual

LEMMA Join32 ==
    ASSUME NEW S, NEW a \in S, NEW b \in S, NEW c \in S, NEW d \in S,
           NEW e \in S
    PROVE  <<a, b, c>> \o <<d, e>> = <<a, b, c, d, e>>
  <1> DEFINE x == <<a, b, c>> \o <<d, e>>
             y == <<a, b, c, d, e>>
  <1>1. <<a, b, c>> \in Seq(S) /\ <<d, e>> \in Seq(S) /\ y \in Seq(S)
    OBVIOUS
  <1>2. x \in Seq(S) /\ Len(x) = 5 /\ Len(y) = 5
    BY <1>1
  <1>3. \A i \in 1 .. 5 : x[i] = y[i]
    BY <1>1
  <1> QED
    BY <1>1, <1>2, <1>3, SeqEqual

LEMMA Join34 ==
    ASSUME NEW S, NEW a \in S, NEW b \in S, NEW c \in S, NEW d \in S,
           NEW e \in S, NEW f \in S, NEW g \in S
    PROVE  <<a, b, c>> \o <<d, e, f, g>> = <<a, b, c, d, e, f, g>>
  <1> DEFINE x == <<a, b, c>> \o <<d, e, f, g>>
             y == <<a, b, c, d, e, f, g>>
  <1>1. <<a, b, c>> \in Seq(S) /\ <<d, e, f, g>> \in Seq(S) /\ y \in Seq(S)
    OBVIOUS
  <1>2. x \in Seq(S) /\ Len(x) = 7 /\ Len(y) = 7
    BY <1>1
  <1>3. \A i \in 1 .. 7 : x[i] = y[i]
    BY <1>1
  <1> QED
    BY <1>1, <1>2, <1>3, SeqEqual

LEMMA Join44 ==
    ASSUME NEW S, NEW a \in S, NEW b \in S, NEW c \in S, NEW d \in S,
           NEW e \in S, NEW f \in S, NEW g \in S, NEW h \in S
    PROVE  <<a, b, c, d>> \o <<e, f, g, h>> = <<a, b, c, d, e, f, g, h>>
  <1> DEFINE x == <<a, b, c, d>> \o <<e, f, g, h>>
             y == <<a, b, c, d, e, f, g, h>>
  <1>1. <<a, b, c, d>> \in Seq(S) /\ <<e, f, g, h>> \in Seq(S) /\ y \in Seq(S)
    OBVIOUS
  <1>2. x \in Seq(S) /\ Len(x) = 8 /\ Len(y) = 8
    BY <1>1
  <1>3. \A i \in 1 .. 8 : x[i] = y[i]
    BY <1>1
  <1> QED
    BY <1>1, <1>2, <1>3, SeqEqual

LEMMA JoinNone ==
    ASSUME NEW S, NEW t \in Seq(S)
    PROVE  <<>> \o t = t /\ t \o <<>> = t
  BY ConcatEmptySeq

LEMMA SyncSteps ==
    /\ <<"key", "CreateDomain", "SetDomainDNSProvider", "audit">> \o SyncAll = AddSteps
    /\ <<"confirm", "DeleteDomain", "audit">> \o SyncAll = RemoveSteps
    /\ <<>> \o <<"SetDomainActive", "audit">> \o SyncMTASTS = EnableSteps
    /\ <<"confirm">> \o <<"SetDomainActive", "audit">> \o SyncMTASTS = DisableSteps
    /\ <<"confirm">> \o <<"purge">>
          \o <<"DeleteAppPasswordsByMailbox", "DeleteMailbox", "audit">> = PurgeSteps
    /\ <<"confirm">> \o <<>>
          \o <<"DeleteAppPasswordsByMailbox", "DeleteMailbox", "audit">> = NoPurgeSteps
  <1>1. /\ "list-auto" \in Word /\ "put-auto" \in Word /\ "list-sts" \in Word
        /\ "put-sts" \in Word /\ "key" \in Word /\ "confirm" \in Word /\ "audit" \in Word
        /\ "purge" \in Word
    BY DEF Word
  <1>2. /\ "CreateDomain" \in Word /\ "SetDomainDNSProvider" \in Word
        /\ "DeleteDomain" \in Word /\ "SetDomainActive" \in Word
        /\ "DeleteAppPasswordsByMailbox" \in Word /\ "DeleteMailbox" \in Word
    BY DEF Word, Statements
  <1>3. SyncAll = <<"list-auto", "put-auto", "list-sts", "put-sts">>
    BY <1>1, Join22 DEF SyncAll, SyncMTASTS
  <1>4. <<"key", "CreateDomain", "SetDomainDNSProvider", "audit">> \o SyncAll = AddSteps
    <2>1. PICK a, b, c, d : a = "key" /\ b = "CreateDomain" /\ c = "SetDomainDNSProvider"
                            /\ d = "audit"
      OBVIOUS
    <2>2. PICK e, f, g, h : e = "list-auto" /\ f = "put-auto" /\ g = "list-sts"
                            /\ h = "put-sts"
      OBVIOUS
    <2>3. a \in Word /\ b \in Word /\ c \in Word /\ d \in Word
      BY <1>1, <1>2, <2>1
    <2>4. e \in Word /\ f \in Word /\ g \in Word /\ h \in Word
      BY <1>1, <2>2
    <2>5. <<a, b, c, d>> \o <<e, f, g, h>> = <<a, b, c, d, e, f, g, h>>
      BY <2>3, <2>4, Join44
    <2> QED
      BY <1>3, <2>1, <2>2, <2>5, Zenon DEF AddSteps
  <1>5. <<"confirm", "DeleteDomain", "audit">> \o SyncAll = RemoveSteps
    BY <1>1, <1>2, <1>3, Join34 DEF RemoveSteps
  <1>6. <<>> \o <<"SetDomainActive", "audit">> = <<"SetDomainActive", "audit">>
    <2>1. <<"SetDomainActive", "audit">> \in Seq(Word)
      BY <1>1, <1>2
    <2> QED
      BY <2>1, JoinNone
  <1>7. <<"confirm">> \o <<"SetDomainActive", "audit">> =
            <<"confirm", "SetDomainActive", "audit">>
    BY <1>1, <1>2, Join12
  <1>8. <<>> \o <<"SetDomainActive", "audit">> \o SyncMTASTS = EnableSteps
    BY <1>1, <1>2, <1>6, Join22 DEF EnableSteps, SyncMTASTS
  <1>9. <<"confirm">> \o <<"SetDomainActive", "audit">> \o SyncMTASTS = DisableSteps
    <2>1. <<"confirm", "SetDomainActive", "audit">> \o <<"list-sts", "put-sts">> =
              DisableSteps
      BY <1>1, <1>2, Join32 DEF DisableSteps
    <2> QED
      BY <1>7, <2>1, Zenon DEF SyncMTASTS
  <1>10. <<"confirm">> \o <<"purge">> = <<"confirm", "purge">>
    BY <1>1, Join11
  <1>11. <<"confirm">> \o <<>> = <<"confirm">>
    <2>1. <<"confirm">> \in Seq(Word)
      BY <1>1
    <2> QED
      BY <2>1, JoinNone
  <1>12. <<"confirm">> \o <<"purge">>
            \o <<"DeleteAppPasswordsByMailbox", "DeleteMailbox", "audit">> = PurgeSteps
    <2>1. <<"confirm", "purge">>
             \o <<"DeleteAppPasswordsByMailbox", "DeleteMailbox", "audit">> = PurgeSteps
      BY <1>1, <1>2, Join23 DEF PurgeSteps
    <2> QED
      BY <1>10, <2>1, Zenon
  <1>13. <<"confirm">> \o <<>>
            \o <<"DeleteAppPasswordsByMailbox", "DeleteMailbox", "audit">> = NoPurgeSteps
    <2>1. <<"confirm">>
             \o <<"DeleteAppPasswordsByMailbox", "DeleteMailbox", "audit">> = NoPurgeSteps
      BY <1>1, <1>2, Join13 DEF NoPurgeSteps
    <2> QED
      BY <1>11, <2>1, Zenon
  <1> QED
    BY <1>4, <1>5, <1>8, <1>9, <1>12, <1>13, Zenon

LEMMA Arguments ==
    ASSUME NEW c \in Command
    PROVE  LET fields == DOMAIN c \ {"op"}
           IN \/ /\ c.op = "domain.add" /\ fields = {"dom", "selector", "provider"}
              \/ c.op = "domain.set-dkim" /\ fields = {"dom", "selector"}
              \/ c.op = "domain.set-provider" /\ fields = {"dom", "provider"}
              \/ /\ c.op \in {"domain.remove", "domain.enable", "domain.disable",
                              "domain.regen-dkim"}
                 /\ fields = {"dom"}
              \/ c.op = "mailbox.add" /\ fields = {"addr", "password", "quota"}
              \/ c.op = "mailbox.remove" /\ fields = {"addr", "purge"}
              \/ c.op = "mailbox.passwd" /\ fields = {"addr", "password"}
              \/ c.op = "mailbox.set-quota" /\ fields = {"addr", "quota"}
              \/ c.op \in {"mailbox.enable", "mailbox.disable"} /\ fields = {"addr"}
              \/ /\ c.op \in {"mailbox.app-password.add", "mailbox.app-password.remove"}
                 /\ fields = {"addr", "label"}
              \/ c.op = "alias.add" /\ fields = {"source", "dest"}
              \/ c.op = "alias.remove" /\ fields = {"source", "dest", "all"}
  <1>1. PICK o, F : o = c.op /\ F = DOMAIN c \ {"op"} /\ <<o, F>> \in Usage
    BY AccountsAssumption
  <1>2. \/ <<o, F>> \in {"domain.remove", "domain.enable", "domain.disable",
                         "domain.regen-dkim"} \X {{"dom"}}
        \/ <<o, F>> \in {"mailbox.enable", "mailbox.disable"} \X {{"addr"}}
        \/ <<o, F>> \in {"mailbox.app-password.add", "mailbox.app-password.remove"}
                           \X {{"addr", "label"}}
        \/ o = "domain.add" /\ F = {"dom", "selector", "provider"}
        \/ o = "domain.set-dkim" /\ F = {"dom", "selector"}
        \/ o = "domain.set-provider" /\ F = {"dom", "provider"}
        \/ o = "mailbox.add" /\ F = {"addr", "password", "quota"}
        \/ o = "mailbox.remove" /\ F = {"addr", "purge"}
        \/ o = "mailbox.passwd" /\ F = {"addr", "password"}
        \/ o = "mailbox.set-quota" /\ F = {"addr", "quota"}
        \/ o = "alias.add" /\ F = {"source", "dest"}
        \/ o = "alias.remove" /\ F = {"source", "dest", "all"}
    BY <1>1, Zenon DEF Usage
  <1> QED
    BY <1>1, <1>2

(* The handler of each operation.                                          *)
LEMMA HandlerOf ==
    ASSUME NEW c \in Command
    PROVE  /\ c.op = "domain.add" => Handler(c) = RunDomainAdd(c)
           /\ c.op = "domain.remove" => Handler(c) = RunDomainRemove(c)
           /\ c.op \in {"domain.enable", "domain.disable"} =>
                 Handler(c) = RunDomainSetActive(c)
           /\ c.op = "domain.set-dkim" => Handler(c) = RunDomainSetDKIM(c)
           /\ c.op = "domain.set-provider" => Handler(c) = RunDomainSetProvider(c)
           /\ c.op = "domain.regen-dkim" => Handler(c) = RunDomainRegenDKIM(c)
           /\ c.op = "mailbox.add" => Handler(c) = MailboxAdd(c)
           /\ c.op = "mailbox.remove" => Handler(c) = MailboxRemove(c)
           /\ c.op = "mailbox.passwd" => Handler(c) = MailboxPasswd(c)
           /\ c.op = "mailbox.set-quota" => Handler(c) = MailboxSetQuota(c)
           /\ c.op \in {"mailbox.enable", "mailbox.disable"} =>
                 Handler(c) = MailboxSetActive(c)
           /\ c.op = "mailbox.app-password.add" => Handler(c) = AppPasswordAdd(c)
           /\ c.op = "mailbox.app-password.remove" => Handler(c) = AppPasswordRemove(c)
           /\ c.op = "alias.add" => Handler(c) = RunAliasAdd(c)
           /\ c.op = "alias.remove" => Handler(c) = RunAliasRemove(c)
  <1>1. CASE c.op \in {"domain.add", "domain.remove", "domain.enable", "domain.disable",
                       "domain.set-dkim", "domain.set-provider", "domain.regen-dkim"}
    <2>1. "dom" \in DOMAIN c /\ "label" \notin DOMAIN c /\ "source" \notin DOMAIN c
          /\ "addr" \notin DOMAIN c
      BY <1>1, Arguments
    <2>2. Handler(c) = NewDomainCmd(c)
      BY <2>1 DEF Handler
    <2> QED
      BY <1>1, <2>2 DEF NewDomainCmd
  <1>2. CASE c.op \in {"mailbox.add", "mailbox.remove", "mailbox.passwd",
                       "mailbox.set-quota", "mailbox.enable", "mailbox.disable"}
    <2>1. "addr" \in DOMAIN c /\ "label" \notin DOMAIN c /\ "source" \notin DOMAIN c
          /\ "dom" \notin DOMAIN c
      BY <1>2, Arguments
    <2>2. Handler(c) = NewMailboxCmd(c)
      BY <2>1 DEF Handler
    <2> QED
      BY <1>2, <2>2 DEF NewMailboxCmd
  <1>3. CASE c.op \in {"mailbox.app-password.add", "mailbox.app-password.remove"}
    <2>1. "label" \in DOMAIN c /\ "source" \notin DOMAIN c /\ "dom" \notin DOMAIN c
      BY <1>3, Arguments
    <2>2. Handler(c) = NewAppPasswordCmd(c)
      BY <2>1 DEF Handler
    <2> QED
      BY <1>3, <2>2 DEF NewAppPasswordCmd
  <1>4. CASE c.op \in {"alias.add", "alias.remove"}
    <2>1. "source" \in DOMAIN c /\ "label" \notin DOMAIN c /\ "dom" \notin DOMAIN c
          /\ "addr" \notin DOMAIN c
      BY <1>4, Arguments
    <2>2. Handler(c) = NewAliasCmd(c)
      BY <2>1 DEF Handler
    <2> QED
      BY <1>4, <2>2 DEF NewAliasCmd
  <1> QED
    BY <1>1, <1>2, <1>3, <1>4

LEMMA FormOfHandler ==
    ASSUME NEW c \in Command
    PROVE  Form(c, Handler(c).steps)
  <1>1. CASE c.op = "domain.add"
    <2>1. Handler(c).steps =
              <<"key", "CreateDomain", "SetDomainDNSProvider", "audit">> \o SyncAll
      BY <1>1, HandlerOf DEF RunDomainAdd
    <2> QED
      BY <1>1, <2>1, SyncSteps, Zenon DEF Form
  <1>2. CASE c.op = "domain.remove"
    <2>1. Handler(c).steps = <<"confirm", "DeleteDomain", "audit">> \o SyncAll
      BY <1>2, HandlerOf DEF RunDomainRemove
    <2> QED
      BY <1>2, <2>1, SyncSteps, Zenon DEF Form
  <1>3. CASE c.op = "domain.enable"
    <2>1. AskToDisable(c) = <<>>
      BY <1>3 DEF AskToDisable
    <2>2. Handler(c).steps = AskToDisable(c) \o <<"SetDomainActive", "audit">> \o SyncMTASTS
      BY <1>3, HandlerOf DEF RunDomainSetActive
    <2> QED
      BY <1>3, <2>1, <2>2, SyncSteps, Zenon DEF Form
  <1>4. CASE c.op = "domain.disable"
    <2>1. AskToDisable(c) = <<"confirm">>
      BY <1>4 DEF AskToDisable
    <2>2. Handler(c).steps = AskToDisable(c) \o <<"SetDomainActive", "audit">> \o SyncMTASTS
      BY <1>4, HandlerOf DEF RunDomainSetActive
    <2> QED
      BY <1>4, <2>1, <2>2, SyncSteps, Zenon DEF Form
  <1>5. CASE c.op = "domain.set-dkim"
    <2>1. Handler(c).steps = SetKeySteps
      BY <1>5, HandlerOf DEF RunDomainSetDKIM, SetKeySteps
    <2> QED
      BY <1>5, <2>1, Zenon DEF Form
  <1>6. CASE c.op = "domain.regen-dkim"
    <2>1. Handler(c).steps = RegenSteps
      BY <1>6, HandlerOf DEF RunDomainRegenDKIM, RegenSteps
    <2> QED
      BY <1>6, <2>1, Zenon DEF Form
  <1>7. CASE c.op = "mailbox.remove"
    <2>1. PICK w : /\ w = <<"purge">> \/ w = <<>>
                   /\ Handler(c).steps = <<"confirm">> \o w
                         \o <<"DeleteAppPasswordsByMailbox", "DeleteMailbox", "audit">>
      <3>1. Handler(c).steps = <<"confirm">> \o (IF c.addr \in mail THEN <<"purge">> ELSE <<>>)
                \o <<"DeleteAppPasswordsByMailbox", "DeleteMailbox", "audit">>
        BY <1>7, HandlerOf DEF MailboxRemove
      <3> QED
        BY <3>1, Zenon
    <2>2. Handler(c).steps = PurgeSteps \/ Handler(c).steps = NoPurgeSteps
      BY <2>1, SyncSteps, Zenon
    <2> QED
      BY <1>7, <2>2, Zenon DEF Form
  <1>8. ASSUME NEW s \in Statements, <<c.op, s>> \in Alone, Handler(c).steps = <<s, "audit">>
        PROVE  Form(c, Handler(c).steps)
    BY <1>8, Zenon DEF Form
  <1>9. ASSUME NEW s \in Statements, <<c.op, s>> \in Asked,
               Handler(c).steps = <<"confirm", s, "audit">>
        PROVE  Form(c, Handler(c).steps)
    BY <1>9, Zenon DEF Form
  <1>10. CASE c.op = "domain.set-provider"
    <2>1. Handler(c).steps = <<"SetDomainDNSProvider", "audit">>
      BY <1>10, HandlerOf DEF RunDomainSetProvider
    <2> QED
      BY <1>8, <1>10, <2>1 DEF Statements, Alone
  <1>11. CASE c.op = "mailbox.add"
    <2>1. Handler(c).steps = <<"CreateMailbox", "audit">>
      BY <1>11, HandlerOf DEF MailboxAdd
    <2> QED
      BY <1>8, <1>11, <2>1 DEF Statements, Alone
  <1>12. CASE c.op = "mailbox.passwd"
    <2>1. Handler(c).steps = <<"UpdateMailboxPassword", "audit">>
      BY <1>12, HandlerOf DEF MailboxPasswd
    <2> QED
      BY <1>8, <1>12, <2>1 DEF Statements, Alone
  <1>13. CASE c.op = "mailbox.set-quota"
    <2>1. Handler(c).steps = <<"UpdateMailboxQuota", "audit">>
      BY <1>13, HandlerOf DEF MailboxSetQuota
    <2> QED
      BY <1>8, <1>13, <2>1 DEF Statements, Alone
  <1>14. CASE c.op \in {"mailbox.enable", "mailbox.disable"}
    <2>1. Handler(c).steps = <<"SetMailboxActive", "audit">>
      BY <1>14, HandlerOf DEF MailboxSetActive
    <2> QED
      BY <1>8, <1>14, <2>1 DEF Statements, Alone
  <1>15. CASE c.op = "mailbox.app-password.add"
    <2>1. Handler(c).steps = <<"CreateAppPassword", "audit">>
      BY <1>15, HandlerOf DEF AppPasswordAdd
    <2> QED
      BY <1>8, <1>15, <2>1 DEF Statements, Alone
  <1>16. CASE c.op = "mailbox.app-password.remove"
    <2>1. Handler(c).steps = <<"confirm", "DeleteAppPassword", "audit">>
      BY <1>16, HandlerOf DEF AppPasswordRemove
    <2> QED
      BY <1>9, <1>16, <2>1 DEF Statements, Asked
  <1>17. CASE c.op = "alias.add"
    <2>1. Handler(c).steps = <<"CreateAlias", "audit">>
      BY <1>17, HandlerOf DEF RunAliasAdd
    <2> QED
      BY <1>8, <1>17, <2>1 DEF Statements, Alone
  <1>18. CASE c.op = "alias.remove"
    <2>1. PICK s \in {"DeleteAliasesBySource", "DeleteAlias"} :
             Handler(c).steps = <<"confirm", s, "audit">>
      BY <1>18, HandlerOf DEF RunAliasRemove
    <2> QED
      BY <1>9, <1>18, <2>1 DEF Statements, Asked
  <1> QED
    BY <1>1, <1>2, <1>3, <1>4, <1>5, <1>6, <1>7, <1>10, <1>11, <1>12, <1>13, <1>14, <1>15,
       <1>16, <1>17, <1>18, Arguments

-----------------------------------------------------------------------------
(* What comes before what in these lists.                                  *)

Past(t, k, w) == \E i \in 1 .. k : t[i] = w
Closing == {"audit", "list-auto", "put-auto", "list-sts", "put-sts"}
Makes ==
    {<<"domain.add", "CreateDomain">>, <<"domain.add", "SetDomainDNSProvider">>,
     <<"domain.remove", "DeleteDomain">>, <<"domain.enable", "SetDomainActive">>,
     <<"domain.disable", "SetDomainActive">>, <<"domain.set-dkim", "SetDKIMSelector">>,
     <<"mailbox.remove", "DeleteAppPasswordsByMailbox">>,
     <<"mailbox.remove", "DeleteMailbox">>} \union Alone \union Asked

Ordered(c, t, i) ==
    /\ t[i] \in Word
    /\ t[i] \in Statements =>
          /\ <<c.op, t[i]>> \in Makes
          /\ \A j \in 1 .. i - 1 : t[j] \notin Closing
          /\ \A j \in 1 .. i - 1 : t[j] \in Statements =>
                \/ t[j] = "CreateDomain" /\ t[i] = "SetDomainDNSProvider"
                \/ t[j] = "DeleteAppPasswordsByMailbox" /\ t[i] = "DeleteMailbox"
    /\ t[i] \in {"CreateDomain", "SetDKIMSelector"} => Past(t, i - 1, "key")
    /\ t[i] = "DeleteMailbox" =>
          /\ Past(t, i - 1, "DeleteAppPasswordsByMailbox")
          /\ \A j \in i .. Len(t) : t[j] # "purge"
    /\ t[i] = "purge" => c.op = "mailbox.remove"
    /\ t[i] = "put-auto" => i > 1 /\ t[i - 1] = "list-auto"
    /\ t[i] = "put-sts" => i > 1 /\ t[i - 1] = "list-sts"
    /\ t[i] = "list-auto" => i < Len(t) /\ t[i + 1] = "put-auto"
    /\ t[i] = "list-sts" => i < Len(t) /\ t[i + 1] = "put-sts"

Ends(c, t) ==
    /\ Len(t) \in 2 .. 8 /\ t \in Seq(Word)
    /\ \E i \in 1 .. Len(t) : t[i] = "audit"
    /\ c.op \in {"domain.add", "domain.remove"} =>
          \E i \in 1 .. Len(t) : t[i] = "put-auto"
    /\ c.op \in {"domain.add", "domain.remove", "domain.enable", "domain.disable"} =>
          \E i \in 1 .. Len(t) : t[i] = "put-sts"

LEMMA AddStepsOrdered ==
    ASSUME NEW c, c.op = "domain.add", NEW t, t = AddSteps
    PROVE  (\A i \in 1 .. Len(t) : Ordered(c, t, i)) /\ Ends(c, t)
  <1>1. /\ Len(t) = 8
        /\ t[1] = "key"
        /\ t[2] = "CreateDomain"
        /\ t[3] = "SetDomainDNSProvider"
        /\ t[4] = "audit"
        /\ t[5] = "list-auto"
        /\ t[6] = "put-auto"
        /\ t[7] = "list-sts"
        /\ t[8] = "put-sts"
    BY DEF AddSteps
  <1>2. t \in Seq(Word)
    BY DEF AddSteps, Word, Statements
  <1>3. Ends(c, t)
    BY <1>1, <1>2 DEF Ends
  <1>4. ASSUME NEW i \in 1 .. Len(t) PROVE Ordered(c, t, i)
    BY <1>1 DEF Ordered, Past, Closing, Makes, Word, Statements
  <1> QED
    BY <1>3, <1>4

LEMMA RemoveStepsOrdered ==
    ASSUME NEW c, c.op = "domain.remove", NEW t, t = RemoveSteps
    PROVE  (\A i \in 1 .. Len(t) : Ordered(c, t, i)) /\ Ends(c, t)
  <1>1. /\ Len(t) = 7
        /\ t[1] = "confirm"
        /\ t[2] = "DeleteDomain"
        /\ t[3] = "audit"
        /\ t[4] = "list-auto"
        /\ t[5] = "put-auto"
        /\ t[6] = "list-sts"
        /\ t[7] = "put-sts"
    BY DEF RemoveSteps
  <1>2. t \in Seq(Word)
    BY DEF RemoveSteps, Word, Statements
  <1>3. Ends(c, t)
    BY <1>1, <1>2 DEF Ends
  <1>4. ASSUME NEW i \in 1 .. Len(t) PROVE Ordered(c, t, i)
    BY <1>1 DEF Ordered, Past, Closing, Makes, Word, Statements
  <1> QED
    BY <1>3, <1>4

LEMMA EnableStepsOrdered ==
    ASSUME NEW c, c.op = "domain.enable", NEW t, t = EnableSteps
    PROVE  (\A i \in 1 .. Len(t) : Ordered(c, t, i)) /\ Ends(c, t)
  <1>1. /\ Len(t) = 4
        /\ t[1] = "SetDomainActive"
        /\ t[2] = "audit"
        /\ t[3] = "list-sts"
        /\ t[4] = "put-sts"
    BY DEF EnableSteps
  <1>2. t \in Seq(Word)
    BY DEF EnableSteps, Word, Statements
  <1>3. Ends(c, t)
    BY <1>1, <1>2 DEF Ends
  <1>4. ASSUME NEW i \in 1 .. Len(t) PROVE Ordered(c, t, i)
    BY <1>1 DEF Ordered, Past, Closing, Makes, Word, Statements
  <1> QED
    BY <1>3, <1>4

LEMMA DisableStepsOrdered ==
    ASSUME NEW c, c.op = "domain.disable", NEW t, t = DisableSteps
    PROVE  (\A i \in 1 .. Len(t) : Ordered(c, t, i)) /\ Ends(c, t)
  <1>1. /\ Len(t) = 5
        /\ t[1] = "confirm"
        /\ t[2] = "SetDomainActive"
        /\ t[3] = "audit"
        /\ t[4] = "list-sts"
        /\ t[5] = "put-sts"
    BY DEF DisableSteps
  <1>2. t \in Seq(Word)
    BY DEF DisableSteps, Word, Statements
  <1>3. Ends(c, t)
    BY <1>1, <1>2 DEF Ends
  <1>4. ASSUME NEW i \in 1 .. Len(t) PROVE Ordered(c, t, i)
    BY <1>1 DEF Ordered, Past, Closing, Makes, Word, Statements
  <1> QED
    BY <1>3, <1>4

LEMMA SetKeyStepsOrdered ==
    ASSUME NEW c, c.op = "domain.set-dkim", NEW t, t = SetKeySteps
    PROVE  (\A i \in 1 .. Len(t) : Ordered(c, t, i)) /\ Ends(c, t)
  <1>1. /\ Len(t) = 3
        /\ t[1] = "key"
        /\ t[2] = "SetDKIMSelector"
        /\ t[3] = "audit"
    BY DEF SetKeySteps
  <1>2. t \in Seq(Word)
    BY DEF SetKeySteps, Word, Statements
  <1>3. Ends(c, t)
    BY <1>1, <1>2 DEF Ends
  <1>4. ASSUME NEW i \in 1 .. Len(t) PROVE Ordered(c, t, i)
    BY <1>1 DEF Ordered, Past, Closing, Makes, Word, Statements
  <1> QED
    BY <1>3, <1>4

LEMMA RegenStepsOrdered ==
    ASSUME NEW c, c.op = "domain.regen-dkim", NEW t, t = RegenSteps
    PROVE  (\A i \in 1 .. Len(t) : Ordered(c, t, i)) /\ Ends(c, t)
  <1>1. /\ Len(t) = 3
        /\ t[1] = "confirm"
        /\ t[2] = "key"
        /\ t[3] = "audit"
    BY DEF RegenSteps
  <1>2. t \in Seq(Word)
    BY DEF RegenSteps, Word, Statements
  <1>3. Ends(c, t)
    BY <1>1, <1>2 DEF Ends
  <1>4. ASSUME NEW i \in 1 .. Len(t) PROVE Ordered(c, t, i)
    BY <1>1 DEF Ordered, Past, Closing, Makes, Word, Statements
  <1> QED
    BY <1>3, <1>4

LEMMA PurgeStepsOrdered ==
    ASSUME NEW c, c.op = "mailbox.remove", NEW t, t = PurgeSteps
    PROVE  (\A i \in 1 .. Len(t) : Ordered(c, t, i)) /\ Ends(c, t)
  <1>1. /\ Len(t) = 5
        /\ t[1] = "confirm"
        /\ t[2] = "purge"
        /\ t[3] = "DeleteAppPasswordsByMailbox"
        /\ t[4] = "DeleteMailbox"
        /\ t[5] = "audit"
    BY DEF PurgeSteps
  <1>2. t \in Seq(Word)
    BY DEF PurgeSteps, Word, Statements
  <1>3. Ends(c, t)
    BY <1>1, <1>2 DEF Ends
  <1>4. ASSUME NEW i \in 1 .. Len(t) PROVE Ordered(c, t, i)
    BY <1>1 DEF Ordered, Past, Closing, Makes, Word, Statements
  <1> QED
    BY <1>3, <1>4

LEMMA NoPurgeStepsOrdered ==
    ASSUME NEW c, c.op = "mailbox.remove", NEW t, t = NoPurgeSteps
    PROVE  (\A i \in 1 .. Len(t) : Ordered(c, t, i)) /\ Ends(c, t)
  <1>1. /\ Len(t) = 4
        /\ t[1] = "confirm"
        /\ t[2] = "DeleteAppPasswordsByMailbox"
        /\ t[3] = "DeleteMailbox"
        /\ t[4] = "audit"
    BY DEF NoPurgeSteps
  <1>2. t \in Seq(Word)
    BY DEF NoPurgeSteps, Word, Statements
  <1>3. Ends(c, t)
    BY <1>1, <1>2 DEF Ends
  <1>4. ASSUME NEW i \in 1 .. Len(t) PROVE Ordered(c, t, i)
    BY <1>1 DEF Ordered, Past, Closing, Makes, Word, Statements
  <1> QED
    BY <1>3, <1>4

LEMMA AloneOrdered ==
    ASSUME NEW c, NEW s \in Statements, <<c.op, s>> \in Alone, NEW t, t = <<s, "audit">>
    PROVE  (\A i \in 1 .. Len(t) : Ordered(c, t, i)) /\ Ends(c, t)
  <1>1. Len(t) = 2 /\ t[1] = s /\ t[2] = "audit"
    OBVIOUS
  <1>2. /\ s \notin Closing /\ <<c.op, s>> \in Makes
        /\ s \notin {"CreateDomain", "SetDKIMSelector", "DeleteMailbox", "purge"}
        /\ c.op \notin {"domain.add", "domain.remove", "domain.enable", "domain.disable"}
    BY DEF Alone, Makes, Closing
  <1>3. t \in Seq(Word)
    <2>1. s \in Word /\ "audit" \in Word
      BY DEF Word
    <2> QED
      BY <2>1
  <1>4. Ends(c, t)
    BY <1>1, <1>2, <1>3 DEF Ends
  <1>5. ASSUME NEW i \in 1 .. Len(t) PROVE Ordered(c, t, i)
    <2>1. i = 1 \/ i = 2
      BY <1>1
    <2>2. Ordered(c, t, 1)
      BY <1>1, <1>2 DEF Ordered, Word, Closing
    <2>3. Ordered(c, t, 2)
      BY <1>1, <1>2 DEF Ordered, Word, Statements
    <2> QED
      BY <2>1, <2>2, <2>3
  <1> QED
    BY <1>4, <1>5

LEMMA AskedOrdered ==
    ASSUME NEW c, NEW s \in Statements, <<c.op, s>> \in Asked,
           NEW t, t = <<"confirm", s, "audit">>
    PROVE  (\A i \in 1 .. Len(t) : Ordered(c, t, i)) /\ Ends(c, t)
  <1>1. Len(t) = 3 /\ t[1] = "confirm" /\ t[2] = s /\ t[3] = "audit"
    OBVIOUS
  <1>2. /\ s \notin Closing /\ <<c.op, s>> \in Makes
        /\ s \notin {"CreateDomain", "SetDKIMSelector", "DeleteMailbox", "purge"}
        /\ c.op \notin {"domain.add", "domain.remove", "domain.enable", "domain.disable"}
    BY DEF Asked, Makes, Closing
  <1>3. t \in Seq(Word)
    <2>1. s \in Word /\ "audit" \in Word /\ "confirm" \in Word
      BY DEF Word
    <2> QED
      BY <2>1
  <1>4. Ends(c, t)
    BY <1>1, <1>2, <1>3 DEF Ends
  <1>5. ASSUME NEW i \in 1 .. Len(t) PROVE Ordered(c, t, i)
    <2>1. i = 1 \/ i = 2 \/ i = 3
      BY <1>1
    <2>2. Ordered(c, t, 1)
      BY <1>1 DEF Ordered, Word, Statements
    <2>3. Ordered(c, t, 2)
      BY <1>1, <1>2 DEF Ordered, Word, Closing, Statements
    <2>4. Ordered(c, t, 3)
      BY <1>1 DEF Ordered, Word, Statements
    <2> QED
      BY <2>1, <2>2, <2>3, <2>4
  <1> QED
    BY <1>4, <1>5

LEMMA Order ==
    ASSUME NEW c, NEW t, Form(c, t)
    PROVE  (\A i \in 1 .. Len(t) : Ordered(c, t, i)) /\ Ends(c, t)
  BY AddStepsOrdered, RemoveStepsOrdered, EnableStepsOrdered, DisableStepsOrdered,
     SetKeyStepsOrdered, RegenStepsOrdered, PurgeStepsOrdered, NoPurgeStepsOrdered,
     AloneOrdered, AskedOrdered, Zenon DEF Form

-----------------------------------------------------------------------------
(* How far a command has come.                                             *)

Placed(c, t, l) ==
    /\ c \in Command /\ Form(c, t) /\ l \in Seq(Word) /\ Len(l) \in 0 .. Len(t)
    /\ \A i \in 1 .. Len(l) : l[i] = t[Len(t) - Len(l) + i]
Taken(t, l) == Len(t) - Len(l)

LEMMA Begins ==
    ASSUME NEW c \in Command, NEW t, Form(c, t)
    PROVE  Placed(c, t, t) /\ Taken(t, t) = 0 /\ Len(t) # 0
  <1>1. Len(t) \in 2 .. 8 /\ t \in Seq(Word)
    BY Order DEF Ends
  <1>2. \A i \in 1 .. Len(t) : Len(t) - Len(t) + i = i
    BY <1>1
  <1>3. Len(t) \in 0 .. Len(t) /\ Len(t) - Len(t) = 0
    BY <1>1
  <1>4. Taken(t, t) = 0 /\ Len(t) # 0
    <2>1. PICK n : n = Len(t)
      OBVIOUS
    <2>2. n - n = 0 /\ n # 0
      BY <1>1, <2>1
    <2> QED
      BY <2>1, <2>2, Zenon DEF Taken
  <1>5. ASSUME NEW i \in 1 .. Len(t) PROVE t[i] = t[Len(t) - Len(t) + i]
    <2>1. PICK j : j = Len(t) - Len(t) + i
      OBVIOUS
    <2>2. j = i
      BY <1>2, <2>1
    <2> QED
      BY <2>1, <2>2, Zenon
  <1>6. Placed(c, t, t)
    BY <1>1, <1>3, <1>5, Zenon DEF Placed
  <1> QED
    BY <1>4, <1>6

LEMMA NextOne ==
    ASSUME NEW c, NEW t, NEW l, Placed(c, t, l)
    PROVE  /\ Len(t) \in Nat /\ Len(l) \in Nat /\ Taken(t, l) \in 0 .. Len(t)
           /\ Taken(t, l) = Len(t) - Len(l)
           /\ Len(l) # 0 =>
                 /\ Taken(t, l) + 1 \in 1 .. Len(t)
                 /\ Head(l) = t[Taken(t, l) + 1] /\ Head(l) \in Word
                 /\ Ordered(c, t, Taken(t, l) + 1)
  <1>1. Len(t) \in 2 .. 8
    BY Order DEF Placed, Ends
  <1>2. /\ l \in Seq(Word) /\ Len(l) \in 0 .. Len(t)
        /\ \A i \in 1 .. Len(l) : l[i] = t[Len(t) - Len(l) + i]
    BY DEF Placed
  <1>3. Taken(t, l) \in 0 .. Len(t)
    BY <1>1, <1>2 DEF Taken
  <1>4. ASSUME Len(l) # 0
        PROVE  /\ Taken(t, l) + 1 \in 1 .. Len(t)
               /\ Head(l) = t[Taken(t, l) + 1] /\ Head(l) \in Word
    <2>1. Head(l) = l[1] /\ 1 \in 1 .. Len(l) /\ Head(l) \in Word
      BY <1>2, <1>4
    <2>2. l[1] = t[Len(t) - Len(l) + 1]
      BY <1>2, <2>1
    <2>3. Taken(t, l) + 1 \in 1 .. Len(t)
      BY <1>1, <1>2, <1>4 DEF Taken
    <2> QED
      BY <2>1, <2>2, <2>3 DEF Taken
  <1>5. \A i \in 1 .. Len(t) : Ordered(c, t, i)
    BY Order DEF Placed
  <1> QED
    BY <1>1, <1>2, <1>3, <1>4, <1>5 DEF Taken

LEMMA Remaining ==
    ASSUME NEW c, NEW t, NEW l, Placed(c, t, l), NEW n \in 1 .. Len(l)
    PROVE  /\ Placed(c, t, SubSeq(l, n + 1, Len(l)))
           /\ Len(SubSeq(l, n + 1, Len(l))) = Len(l) - n
           /\ Taken(t, SubSeq(l, n + 1, Len(l))) = Taken(t, l) + n
  <1> DEFINE m == SubSeq(l, n + 1, Len(l))
  <1>1. /\ l \in Seq(Word) /\ Len(l) \in 0 .. Len(t)
        /\ \A i \in 1 .. Len(l) : l[i] = t[Len(t) - Len(l) + i]
    BY DEF Placed
  <1>2. Len(t) \in Nat /\ Len(l) \in Nat
    BY NextOne
  <1>3. /\ m \in Seq(Word) /\ Len(m) = Len(l) - n
        /\ \A i \in 1 .. Len(l) - n : m[i] = l[n + i]
    BY <1>1, <1>2
  <1> HIDE DEF m
  <1>4. ASSUME NEW i \in 1 .. Len(m)
        PROVE  m[i] = t[Len(t) - Len(m) + i]
    <2>1. n + i \in 1 .. Len(l) /\ m[i] = l[n + i]
      BY <1>1, <1>2, <1>3
    <2>2. Len(t) - Len(l) + (n + i) = Len(t) - Len(m) + i
      BY <1>1, <1>2, <1>3
    <2> QED
      BY <1>1, <2>1, <2>2
  <1>5. Placed(c, t, m)
    BY <1>1, <1>2, <1>3, <1>4 DEF Placed
  <1>6. Taken(t, m) = Taken(t, l) + n
    BY <1>2, <1>3 DEF Taken
  <1> QED
    BY <1>3, <1>5, <1>6 DEF m

-----------------------------------------------------------------------------
(* What a statement makes of the tables.                                   *)

Tables(d, m, a, l) == [domain |-> d, mailbox |-> m, app |-> a, alias |-> l]
Mapping(f) == f = [x \in DOMAIN f |-> f[x]]
Selectors == FirstSelector \union {c.selector : c \in Command}
Providers == {Manual} \union {c.provider : c \in Command}
DomainRow == [active : BOOLEAN, selector : Selectors, provider : Providers]
IsTables(t) ==
    /\ t = Tables(t.domain, t.mailbox, t.app, t.alias)
    /\ t.domain \in [DOMAIN t.domain -> DomainRow] /\ Mapping(t.mailbox)

(* The statements on domains: of what the row of x becomes.                *)
Fresh(d, c) ==
    [active |-> TRUE, selector |-> c.selector,
     provider |-> IF c.dom \in DOMAIN d THEN d[c.dom].provider ELSE Manual]

LEMMA PutOnce ==
    ASSUME NEW f, NEW x, NEW v
    PROVE  /\ Mapping(Put(f, x, v))
           /\ DOMAIN Put(f, x, v) = DOMAIN f \union {x}
           /\ Put(f, x, v)[x] = v
           /\ \A y \in DOMAIN f : y # x => Put(f, x, v)[y] = f[y]
           /\ Put(Put(f, x, v), x, v) = Put(f, x, v)
  BY DEF Put, Mapping

LEMMA WithoutOnce ==
    ASSUME NEW f, NEW x
    PROVE  /\ Mapping(Without(f, x))
           /\ DOMAIN Without(f, x) = DOMAIN f \ {x}
           /\ \A y \in DOMAIN f \ {x} : Without(f, x)[y] = f[y]
           /\ Without(Without(f, x), x) = Without(f, x)
  <1>1. Without(f, x) = [y \in DOMAIN f \ {x} |-> f[y]]
    BY DEF Without, Restrict
  <1>2. (DOMAIN f \ {x}) \ {x} = DOMAIN f \ {x}
    OBVIOUS
  <1>3. Without(Without(f, x), x) =
            [y \in DOMAIN Without(f, x) \ {x} |-> Without(f, x)[y]]
    BY DEF Without, Restrict
  <1> QED
    BY <1>1, <1>2, <1>3 DEF Mapping

LEMMA Parts ==
    ASSUME NEW d, NEW m, NEW a, NEW l
    PROVE  /\ Tables(d, m, a, l).domain = d /\ Tables(d, m, a, l).mailbox = m
           /\ Tables(d, m, a, l).app = a /\ Tables(d, m, a, l).alias = l
           /\ \A x : [Tables(d, m, a, l) EXCEPT !.domain = x] = Tables(x, m, a, l)
           /\ \A x : [Tables(d, m, a, l) EXCEPT !.mailbox = x] = Tables(d, x, a, l)
           /\ \A x : [Tables(d, m, a, l) EXCEPT !.app = x] = Tables(d, m, x, l)
           /\ \A x : [Tables(d, m, a, l) EXCEPT !.alias = x] = Tables(d, m, a, x)
           /\ IsTables(Tables(d, m, a, l)) <=> (d \in [DOMAIN d -> DomainRow] /\ Mapping(m))
  BY DEF Tables, IsTables

Given(c) == c.selector \in Selectors /\ c.provider \in Providers

LEMMA Givens ==
    ASSUME NEW c \in Command
    PROVE  Given(c)
  BY DEF Given, Selectors, Providers

CreateDomainOf(d, c) ==
    Put(d, c.dom, Fresh(d, c))
SetDomainDNSProviderOf(d, c) ==
    IF c.dom \in DOMAIN d THEN [d EXCEPT ![c.dom].provider = c.provider] ELSE d
SetDomainActiveOf(d, c) ==
    IF c.dom \in DOMAIN d THEN [d EXCEPT ![c.dom].active = (c.op = "domain.enable")]
                       ELSE d
SetDKIMSelectorOf(d, c) ==
    IF c.dom \in DOMAIN d THEN [d EXCEPT ![c.dom].selector = c.selector] ELSE d
DeleteDomainOf(d, c) ==
    Without(d, c.dom)
CreateMailboxOf(m, c) ==
    Put(m, c.addr, [active |-> TRUE, password |-> c.password, quota |-> c.quota])
UpdateMailboxPasswordOf(m, c) ==
    IF c.addr \in DOMAIN m THEN [m EXCEPT ![c.addr].password = c.password] ELSE m
UpdateMailboxQuotaOf(m, c) ==
    IF c.addr \in DOMAIN m THEN [m EXCEPT ![c.addr].quota = c.quota] ELSE m
SetMailboxActiveOf(m, c) ==
    IF c.addr \in DOMAIN m THEN [m EXCEPT ![c.addr].active = (c.op = "mailbox.enable")]
                       ELSE m
DeleteMailboxOf(m, c) ==
    Without(m, c.addr)
CreateAppPasswordOf(a, c) ==
    a \union {<<c.addr, c.label>>}
DeleteAppPasswordOf(a, c) ==
    a \ {<<c.addr, c.label>>}
DeleteAppPasswordsByMailboxOf(a, c) ==
    {pw \in a : pw[1] # c.addr}
CreateAliasOf(l, c) ==
    l \union {<<c.source, c.dest>>}
DeleteAliasOf(l, c) ==
    l \ {<<c.source, c.dest>>}
DeleteAliasesBySourceOf(l, c) ==
    {x \in l : x[1] # c.source}

LEMMA ExecuteCreateDomain ==
    ASSUME NEW c, NEW d, NEW m, NEW a, NEW l
    PROVE  Executed("CreateDomain", Tables(d, m, a, l), c) =
               Tables(CreateDomainOf(d, c), m, a, l)
  <1>1. Executed("CreateDomain", Tables(d, m, a, l), c) =
             CreateDomain(Tables(d, m, a, l), c)
    BY DEF Executed
  <1> QED
    BY <1>1 DEF Tables, CreateDomain, CreateDomainOf, Fresh

LEMMA ExecuteSetDomainDNSProvider ==
    ASSUME NEW c, NEW d, NEW m, NEW a, NEW l
    PROVE  Executed("SetDomainDNSProvider", Tables(d, m, a, l), c) =
               Tables(SetDomainDNSProviderOf(d, c), m, a, l)
  <1>1. Executed("SetDomainDNSProvider", Tables(d, m, a, l), c) =
             SetDomainDNSProvider(Tables(d, m, a, l), c)
    BY DEF Executed
  <1> QED
    BY <1>1 DEF Tables, SetDomainDNSProvider, SetDomainDNSProviderOf

LEMMA ExecuteSetDomainActive ==
    ASSUME NEW c, NEW d, NEW m, NEW a, NEW l
    PROVE  Executed("SetDomainActive", Tables(d, m, a, l), c) =
               Tables(SetDomainActiveOf(d, c), m, a, l)
  <1>1. Executed("SetDomainActive", Tables(d, m, a, l), c) =
             SetDomainActive(Tables(d, m, a, l), c)
    BY DEF Executed
  <1> QED
    BY <1>1 DEF Tables, SetDomainActive, SetDomainActiveOf

LEMMA ExecuteSetDKIMSelector ==
    ASSUME NEW c, NEW d, NEW m, NEW a, NEW l
    PROVE  Executed("SetDKIMSelector", Tables(d, m, a, l), c) =
               Tables(SetDKIMSelectorOf(d, c), m, a, l)
  <1>1. Executed("SetDKIMSelector", Tables(d, m, a, l), c) =
             SetDKIMSelector(Tables(d, m, a, l), c)
    BY DEF Executed
  <1> QED
    BY <1>1 DEF Tables, SetDKIMSelector, SetDKIMSelectorOf

LEMMA ExecuteDeleteDomain ==
    ASSUME NEW c, NEW d, NEW m, NEW a, NEW l
    PROVE  Executed("DeleteDomain", Tables(d, m, a, l), c) =
               Tables(DeleteDomainOf(d, c), m, a, l)
  <1>1. Executed("DeleteDomain", Tables(d, m, a, l), c) =
             DeleteDomain(Tables(d, m, a, l), c)
    BY DEF Executed
  <1> QED
    BY <1>1 DEF Tables, DeleteDomain, DeleteDomainOf

LEMMA ExecuteCreateMailbox ==
    ASSUME NEW c, NEW d, NEW m, NEW a, NEW l
    PROVE  Executed("CreateMailbox", Tables(d, m, a, l), c) =
               Tables(d, CreateMailboxOf(m, c), a, l)
  <1>1. Executed("CreateMailbox", Tables(d, m, a, l), c) =
             CreateMailbox(Tables(d, m, a, l), c)
    BY DEF Executed
  <1> QED
    BY <1>1 DEF Tables, CreateMailbox, CreateMailboxOf

LEMMA ExecuteUpdateMailboxPassword ==
    ASSUME NEW c, NEW d, NEW m, NEW a, NEW l
    PROVE  Executed("UpdateMailboxPassword", Tables(d, m, a, l), c) =
               Tables(d, UpdateMailboxPasswordOf(m, c), a, l)
  <1>1. Executed("UpdateMailboxPassword", Tables(d, m, a, l), c) =
             UpdateMailboxPassword(Tables(d, m, a, l), c)
    BY DEF Executed
  <1> QED
    BY <1>1 DEF Tables, UpdateMailboxPassword, UpdateMailboxPasswordOf

LEMMA ExecuteUpdateMailboxQuota ==
    ASSUME NEW c, NEW d, NEW m, NEW a, NEW l
    PROVE  Executed("UpdateMailboxQuota", Tables(d, m, a, l), c) =
               Tables(d, UpdateMailboxQuotaOf(m, c), a, l)
  <1>1. Executed("UpdateMailboxQuota", Tables(d, m, a, l), c) =
             UpdateMailboxQuota(Tables(d, m, a, l), c)
    BY DEF Executed
  <1> QED
    BY <1>1 DEF Tables, UpdateMailboxQuota, UpdateMailboxQuotaOf

LEMMA ExecuteSetMailboxActive ==
    ASSUME NEW c, NEW d, NEW m, NEW a, NEW l
    PROVE  Executed("SetMailboxActive", Tables(d, m, a, l), c) =
               Tables(d, SetMailboxActiveOf(m, c), a, l)
  <1>1. Executed("SetMailboxActive", Tables(d, m, a, l), c) =
             SetMailboxActive(Tables(d, m, a, l), c)
    BY DEF Executed
  <1> QED
    BY <1>1 DEF Tables, SetMailboxActive, SetMailboxActiveOf

LEMMA ExecuteDeleteMailbox ==
    ASSUME NEW c, NEW d, NEW m, NEW a, NEW l
    PROVE  Executed("DeleteMailbox", Tables(d, m, a, l), c) =
               Tables(d, DeleteMailboxOf(m, c), a, l)
  <1>1. Executed("DeleteMailbox", Tables(d, m, a, l), c) =
             DeleteMailbox(Tables(d, m, a, l), c)
    BY DEF Executed
  <1> QED
    BY <1>1 DEF Tables, DeleteMailbox, DeleteMailboxOf

LEMMA ExecuteCreateAppPassword ==
    ASSUME NEW c, NEW d, NEW m, NEW a, NEW l
    PROVE  Executed("CreateAppPassword", Tables(d, m, a, l), c) =
               Tables(d, m, CreateAppPasswordOf(a, c), l)
  <1>1. Executed("CreateAppPassword", Tables(d, m, a, l), c) =
             CreateAppPassword(Tables(d, m, a, l), c)
    BY DEF Executed
  <1> QED
    BY <1>1 DEF Tables, CreateAppPassword, CreateAppPasswordOf

LEMMA ExecuteDeleteAppPassword ==
    ASSUME NEW c, NEW d, NEW m, NEW a, NEW l
    PROVE  Executed("DeleteAppPassword", Tables(d, m, a, l), c) =
               Tables(d, m, DeleteAppPasswordOf(a, c), l)
  <1>1. Executed("DeleteAppPassword", Tables(d, m, a, l), c) =
             DeleteAppPassword(Tables(d, m, a, l), c)
    BY DEF Executed
  <1> QED
    BY <1>1 DEF Tables, DeleteAppPassword, DeleteAppPasswordOf

LEMMA ExecuteDeleteAppPasswordsByMailbox ==
    ASSUME NEW c, NEW d, NEW m, NEW a, NEW l
    PROVE  Executed("DeleteAppPasswordsByMailbox", Tables(d, m, a, l), c) =
               Tables(d, m, DeleteAppPasswordsByMailboxOf(a, c), l)
  <1>1. Executed("DeleteAppPasswordsByMailbox", Tables(d, m, a, l), c) =
             DeleteAppPasswordsByMailbox(Tables(d, m, a, l), c)
    BY DEF Executed
  <1> QED
    BY <1>1 DEF Tables, DeleteAppPasswordsByMailbox, DeleteAppPasswordsByMailboxOf

LEMMA ExecuteCreateAlias ==
    ASSUME NEW c, NEW d, NEW m, NEW a, NEW l
    PROVE  Executed("CreateAlias", Tables(d, m, a, l), c) =
               Tables(d, m, a, CreateAliasOf(l, c))
  <1>1. Executed("CreateAlias", Tables(d, m, a, l), c) =
             CreateAlias(Tables(d, m, a, l), c)
    BY DEF Executed
  <1> QED
    BY <1>1 DEF Tables, CreateAlias, CreateAliasOf

LEMMA ExecuteDeleteAlias ==
    ASSUME NEW c, NEW d, NEW m, NEW a, NEW l
    PROVE  Executed("DeleteAlias", Tables(d, m, a, l), c) =
               Tables(d, m, a, DeleteAliasOf(l, c))
  <1>1. Executed("DeleteAlias", Tables(d, m, a, l), c) =
             DeleteAlias(Tables(d, m, a, l), c)
    BY DEF Executed
  <1> QED
    BY <1>1 DEF Tables, DeleteAlias, DeleteAliasOf

LEMMA ExecuteDeleteAliasesBySource ==
    ASSUME NEW c, NEW d, NEW m, NEW a, NEW l
    PROVE  Executed("DeleteAliasesBySource", Tables(d, m, a, l), c) =
               Tables(d, m, a, DeleteAliasesBySourceOf(l, c))
  <1>1. Executed("DeleteAliasesBySource", Tables(d, m, a, l), c) =
             DeleteAliasesBySource(Tables(d, m, a, l), c)
    BY DEF Executed
  <1> QED
    BY <1>1 DEF Tables, DeleteAliasesBySource, DeleteAliasesBySourceOf

(* What one statement makes of a table.                                    *)
DomainsAfter(s, d, e, c) ==
    /\ e \in [DOMAIN e -> DomainRow]
    /\ \A x \in DOMAIN e :
          \/ x \in DOMAIN d /\ e[x].selector = d[x].selector
          \/ /\ s \in {"CreateDomain", "SetDKIMSelector"}
             /\ x = c.dom /\ e[x].selector = c.selector
    /\ DOMAIN e = IF s = "CreateDomain" THEN DOMAIN d \union {c.dom}
                  ELSE IF s = "DeleteDomain" THEN DOMAIN d \ {c.dom} ELSE DOMAIN d
MailboxesAfter(s, m, e, c) ==
    /\ Mapping(e)
    /\ DOMAIN e = IF s = "CreateMailbox" THEN DOMAIN m \union {c.addr}
                  ELSE IF s = "DeleteMailbox" THEN DOMAIN m \ {c.addr} ELSE DOMAIN m
AppsAfter(s, a, e, c) ==
    e = IF s = "CreateAppPassword" THEN a \union {<<c.addr, c.label>>}
        ELSE IF s = "DeleteAppPassword" THEN a \ {<<c.addr, c.label>>}
        ELSE {pw \in a : pw[1] # c.addr}

LEMMA CreateDomainTable ==
    ASSUME NEW c, Given(c), NEW d, d \in [DOMAIN d -> DomainRow]
    PROVE  /\ DomainsAfter("CreateDomain", d, CreateDomainOf(d, c), c)
           /\ CreateDomainOf(CreateDomainOf(d, c), c) = CreateDomainOf(d, c)
  <1>1. PICK e : e = CreateDomainOf(d, c)
    OBVIOUS
  <1>2. /\ DOMAIN e = DOMAIN d \union {c.dom} /\ e[c.dom] = Fresh(d, c) /\ Mapping(e)
        /\ \A y \in DOMAIN d : y # c.dom => e[y] = d[y]
        /\ Put(e, c.dom, Fresh(d, c)) = e
    <2>1. PICK x, v : x = c.dom /\ v = Fresh(d, c)
      OBVIOUS
    <2>2. e = Put(d, x, v)
      BY <1>1, <2>1, Zenon DEF CreateDomainOf
    <2>3. /\ DOMAIN Put(d, x, v) = DOMAIN d \union {x} /\ Put(d, x, v)[x] = v
          /\ \A y \in DOMAIN d : y # x => Put(d, x, v)[y] = d[y]
          /\ Mapping(Put(d, x, v)) /\ Put(Put(d, x, v), x, v) = Put(d, x, v)
      BY DEF Put, Mapping
    <2> QED
      BY <2>1, <2>2, <2>3, Zenon
  <1>3. Manual \in Providers
    BY DEF Providers
  <1>4. Fresh(d, c) \in DomainRow /\ Fresh(d, c).selector = c.selector
    <2>1. c.dom \in DOMAIN d => d[c.dom].provider \in Providers
      BY DEF DomainRow
    <2> QED
      BY <1>3, <2>1 DEF Fresh, DomainRow, Given
  <1>5. Fresh(e, c) = Fresh(d, c)
    BY <1>2 DEF Fresh
  <1>6. e \in [DOMAIN e -> DomainRow]
    <2>1. \A x \in DOMAIN e : e[x] \in DomainRow
      BY <1>2, <1>4
    <2> QED
      BY <1>2, <2>1 DEF Mapping
  <1>7. DomainsAfter("CreateDomain", d, e, c)
    BY <1>2, <1>4, <1>6 DEF DomainsAfter
  <1>8. CreateDomainOf(e, c) = e
    BY <1>2, <1>5 DEF CreateDomainOf
  <1> QED
    BY <1>1, <1>7, <1>8

LEMMA SetDomainDNSProviderTable ==
    ASSUME NEW c, Given(c), NEW d, d \in [DOMAIN d -> DomainRow]
    PROVE  /\ DomainsAfter("SetDomainDNSProvider", d, SetDomainDNSProviderOf(d, c), c)
           /\ SetDomainDNSProviderOf(SetDomainDNSProviderOf(d, c), c) =
                  SetDomainDNSProviderOf(d, c)
  <1>1. CASE c.dom \notin DOMAIN d
    BY <1>1 DEF SetDomainDNSProviderOf, DomainsAfter
  <1>2. CASE c.dom \in DOMAIN d
    <2>1. PICK e, v : e = SetDomainDNSProviderOf(d, c) /\ v = c.provider
      OBVIOUS
    <2>2. d[c.dom] \in DomainRow
      BY <1>2
    <2>3. e = [d EXCEPT ![c.dom].provider = v]
      BY <1>2, <2>1 DEF SetDomainDNSProviderOf
    <2>4. v \in Providers
      BY <2>1 DEF Given
    <2>5. e \in [DOMAIN d -> DomainRow] /\ DOMAIN e = DOMAIN d
      BY <1>2, <2>2, <2>3, <2>4 DEF DomainRow
    <2>6. \A x \in DOMAIN e : x # c.dom => e[x] = d[x]
      BY <2>3
    <2>7. e[c.dom].selector = d[c.dom].selector
      BY <1>2, <2>1, <2>2, <2>3 DEF DomainRow
    <2>8. DomainsAfter("SetDomainDNSProvider", d, e, c)
      BY <2>5, <2>6, <2>7 DEF DomainsAfter
    <2>9. [e EXCEPT ![c.dom].provider = v] = e
      BY <1>2, <2>2, <2>3
    <2>10. SetDomainDNSProviderOf(e, c) = e
      BY <1>2, <2>1, <2>5, <2>9 DEF SetDomainDNSProviderOf
    <2> QED
      BY <2>1, <2>8, <2>10
  <1> QED
    BY <1>1, <1>2

LEMMA SetDomainActiveTable ==
    ASSUME NEW c, Given(c), NEW d, d \in [DOMAIN d -> DomainRow]
    PROVE  /\ DomainsAfter("SetDomainActive", d, SetDomainActiveOf(d, c), c)
           /\ SetDomainActiveOf(SetDomainActiveOf(d, c), c) = SetDomainActiveOf(d, c)
  <1>1. CASE c.dom \notin DOMAIN d
    BY <1>1 DEF SetDomainActiveOf, DomainsAfter
  <1>2. CASE c.dom \in DOMAIN d
    <2>1. PICK e, v : e = SetDomainActiveOf(d, c) /\ v = (c.op = "domain.enable")
      OBVIOUS
    <2>2. d[c.dom] \in DomainRow
      BY <1>2
    <2>3. e = [d EXCEPT ![c.dom].active = v]
      BY <1>2, <2>1 DEF SetDomainActiveOf
    <2>4. v \in BOOLEAN
      BY <2>1 DEF Given
    <2>5. e \in [DOMAIN d -> DomainRow] /\ DOMAIN e = DOMAIN d
      BY <1>2, <2>2, <2>3, <2>4 DEF DomainRow
    <2>6. \A x \in DOMAIN e : x # c.dom => e[x] = d[x]
      BY <2>3
    <2>7. e[c.dom].selector = d[c.dom].selector
      BY <1>2, <2>1, <2>2, <2>3 DEF DomainRow
    <2>8. DomainsAfter("SetDomainActive", d, e, c)
      BY <2>5, <2>6, <2>7 DEF DomainsAfter
    <2>9. [e EXCEPT ![c.dom].active = v] = e
      BY <1>2, <2>2, <2>3
    <2>10. SetDomainActiveOf(e, c) = e
      BY <1>2, <2>1, <2>5, <2>9 DEF SetDomainActiveOf
    <2> QED
      BY <2>1, <2>8, <2>10
  <1> QED
    BY <1>1, <1>2

LEMMA SetDKIMSelectorTable ==
    ASSUME NEW c, Given(c), NEW d, d \in [DOMAIN d -> DomainRow]
    PROVE  /\ DomainsAfter("SetDKIMSelector", d, SetDKIMSelectorOf(d, c), c)
           /\ SetDKIMSelectorOf(SetDKIMSelectorOf(d, c), c) = SetDKIMSelectorOf(d, c)
  <1>1. CASE c.dom \notin DOMAIN d
    BY <1>1 DEF SetDKIMSelectorOf, DomainsAfter
  <1>2. CASE c.dom \in DOMAIN d
    <2>1. PICK e, v : e = SetDKIMSelectorOf(d, c) /\ v = c.selector
      OBVIOUS
    <2>2. d[c.dom] \in DomainRow
      BY <1>2
    <2>3. e = [d EXCEPT ![c.dom].selector = v]
      BY <1>2, <2>1 DEF SetDKIMSelectorOf
    <2>4. v \in Selectors
      BY <2>1 DEF Given
    <2>5. e \in [DOMAIN d -> DomainRow] /\ DOMAIN e = DOMAIN d
      BY <1>2, <2>2, <2>3, <2>4 DEF DomainRow
    <2>6. \A x \in DOMAIN e : x # c.dom => e[x] = d[x]
      BY <2>3
    <2>7. e[c.dom].selector = c.selector
      BY <1>2, <2>1, <2>2, <2>3 DEF DomainRow
    <2>8. DomainsAfter("SetDKIMSelector", d, e, c)
      BY <2>5, <2>6, <2>7 DEF DomainsAfter
    <2>9. [e EXCEPT ![c.dom].selector = v] = e
      BY <1>2, <2>2, <2>3
    <2>10. SetDKIMSelectorOf(e, c) = e
      BY <1>2, <2>1, <2>5, <2>9 DEF SetDKIMSelectorOf
    <2> QED
      BY <2>1, <2>8, <2>10
  <1> QED
    BY <1>1, <1>2

LEMMA DeleteDomainTable ==
    ASSUME NEW c, Given(c), NEW d, d \in [DOMAIN d -> DomainRow]
    PROVE  /\ DomainsAfter("DeleteDomain", d, DeleteDomainOf(d, c), c)
           /\ DeleteDomainOf(DeleteDomainOf(d, c), c) = DeleteDomainOf(d, c)
  <1>1. PICK e : e = DeleteDomainOf(d, c)
    OBVIOUS
  <1>2. /\ DOMAIN e = DOMAIN d \ {c.dom} /\ Mapping(e)
        /\ \A y \in DOMAIN e : e[y] = d[y]
        /\ Without(e, c.dom) = e
    BY <1>1, WithoutOnce DEF DeleteDomainOf
  <1>3. e \in [DOMAIN e -> DomainRow]
    BY <1>2 DEF Mapping
  <1>4. DomainsAfter("DeleteDomain", d, e, c)
    BY <1>2, <1>3 DEF DomainsAfter
  <1> QED
    BY <1>1, <1>2, <1>4 DEF DeleteDomainOf

LEMMA CreateMailboxTable ==
    ASSUME NEW c, NEW m, Mapping(m)
    PROVE  /\ MailboxesAfter("CreateMailbox", m, CreateMailboxOf(m, c), c)
           /\ CreateMailboxOf(CreateMailboxOf(m, c), c) = CreateMailboxOf(m, c)
  <1>1. PICK x, v : /\ x = c.addr
                     /\ v = [active |-> TRUE, password |-> c.password, quota |-> c.quota]
    OBVIOUS
  <1>2. \A f : CreateMailboxOf(f, c) = Put(f, x, v)
    BY <1>1, Zenon DEF CreateMailboxOf
  <1>3. /\ DOMAIN Put(m, x, v) = DOMAIN m \union {x} /\ Mapping(Put(m, x, v))
        /\ Put(Put(m, x, v), x, v) = Put(m, x, v)
    BY DEF Put, Mapping
  <1> QED
    BY <1>1, <1>2, <1>3 DEF MailboxesAfter

LEMMA UpdateMailboxPasswordTable ==
    ASSUME NEW c, NEW m, Mapping(m)
    PROVE  /\ MailboxesAfter("UpdateMailboxPassword", m, UpdateMailboxPasswordOf(m, c), c)
           /\ UpdateMailboxPasswordOf(UpdateMailboxPasswordOf(m, c), c) =
                  UpdateMailboxPasswordOf(m, c)
  <1>1. CASE c.addr \notin DOMAIN m
    BY <1>1 DEF UpdateMailboxPasswordOf, MailboxesAfter
  <1>2. CASE c.addr \in DOMAIN m
    BY <1>2 DEF UpdateMailboxPasswordOf, MailboxesAfter, Mapping
  <1> QED
    BY <1>1, <1>2

LEMMA UpdateMailboxQuotaTable ==
    ASSUME NEW c, NEW m, Mapping(m)
    PROVE  /\ MailboxesAfter("UpdateMailboxQuota", m, UpdateMailboxQuotaOf(m, c), c)
           /\ UpdateMailboxQuotaOf(UpdateMailboxQuotaOf(m, c), c) =
                  UpdateMailboxQuotaOf(m, c)
  <1>1. CASE c.addr \notin DOMAIN m
    BY <1>1 DEF UpdateMailboxQuotaOf, MailboxesAfter
  <1>2. CASE c.addr \in DOMAIN m
    BY <1>2 DEF UpdateMailboxQuotaOf, MailboxesAfter, Mapping
  <1> QED
    BY <1>1, <1>2

LEMMA SetMailboxActiveTable ==
    ASSUME NEW c, NEW m, Mapping(m)
    PROVE  /\ MailboxesAfter("SetMailboxActive", m, SetMailboxActiveOf(m, c), c)
           /\ SetMailboxActiveOf(SetMailboxActiveOf(m, c), c) = SetMailboxActiveOf(m, c)
  <1>1. CASE c.addr \notin DOMAIN m
    BY <1>1 DEF SetMailboxActiveOf, MailboxesAfter
  <1>2. CASE c.addr \in DOMAIN m
    BY <1>2 DEF SetMailboxActiveOf, MailboxesAfter, Mapping
  <1> QED
    BY <1>1, <1>2

LEMMA DeleteMailboxTable ==
    ASSUME NEW c, NEW m, Mapping(m)
    PROVE  /\ MailboxesAfter("DeleteMailbox", m, DeleteMailboxOf(m, c), c)
           /\ DeleteMailboxOf(DeleteMailboxOf(m, c), c) = DeleteMailboxOf(m, c)
  BY PutOnce, WithoutOnce DEF DeleteMailboxOf, MailboxesAfter

LEMMA CreateAppPasswordTable ==
    ASSUME NEW c, NEW a
    PROVE  /\ AppsAfter("CreateAppPassword", a, CreateAppPasswordOf(a, c), c)
           /\ CreateAppPasswordOf(CreateAppPasswordOf(a, c), c) =
                  CreateAppPasswordOf(a, c)
  BY DEF CreateAppPasswordOf, AppsAfter

LEMMA DeleteAppPasswordTable ==
    ASSUME NEW c, NEW a
    PROVE  /\ AppsAfter("DeleteAppPassword", a, DeleteAppPasswordOf(a, c), c)
           /\ DeleteAppPasswordOf(DeleteAppPasswordOf(a, c), c) =
                  DeleteAppPasswordOf(a, c)
  BY DEF DeleteAppPasswordOf, AppsAfter

LEMMA DeleteAppPasswordsByMailboxTable ==
    ASSUME NEW c, NEW a
    PROVE  /\ AppsAfter("DeleteAppPasswordsByMailbox", a, DeleteAppPasswordsByMailboxOf(a, c), c)
           /\ DeleteAppPasswordsByMailboxOf(DeleteAppPasswordsByMailboxOf(a, c), c) =
                  DeleteAppPasswordsByMailboxOf(a, c)
  BY DEF DeleteAppPasswordsByMailboxOf, AppsAfter

LEMMA CreateAliasTable ==
    ASSUME NEW c, NEW l
    PROVE  CreateAliasOf(CreateAliasOf(l, c), c) = CreateAliasOf(l, c)
  BY DEF CreateAliasOf

LEMMA DeleteAliasTable ==
    ASSUME NEW c, NEW l
    PROVE  DeleteAliasOf(DeleteAliasOf(l, c), c) = DeleteAliasOf(l, c)
  BY DEF DeleteAliasOf

LEMMA DeleteAliasesBySourceTable ==
    ASSUME NEW c, NEW l
    PROVE  DeleteAliasesBySourceOf(DeleteAliasesBySourceOf(l, c), c) =
               DeleteAliasesBySourceOf(l, c)
  BY DEF DeleteAliasesBySourceOf

OnDomain ==
    {"CreateDomain", "SetDomainDNSProvider", "SetDomainActive", "SetDKIMSelector",
     "DeleteDomain"}
OnMailbox ==
    {"CreateMailbox", "UpdateMailboxPassword", "UpdateMailboxQuota", "SetMailboxActive",
     "DeleteMailbox"}
OnApp == {"CreateAppPassword", "DeleteAppPassword", "DeleteAppPasswordsByMailbox"}

Effects(s, t, r, c) ==
    /\ IsTables(r) /\ Executed(s, r, c) = r
    /\ IF s \in OnDomain THEN DomainsAfter(s, t.domain, r.domain, c)
                         ELSE r.domain = t.domain
    /\ IF s \in OnMailbox THEN MailboxesAfter(s, t.mailbox, r.mailbox, c)
                          ELSE r.mailbox = t.mailbox
    /\ IF s \in OnApp THEN AppsAfter(s, t.app, r.app, c) ELSE r.app = t.app

(* The effect of a statement, and that making it again changes nothing.    *)
LEMMA After ==
    ASSUME NEW c \in Command, NEW t, IsTables(t), NEW s \in Statements
    PROVE  Effects(s, t, Executed(s, t, c), c)
  <1>1. Given(c)
    BY Givens
  <1>2. PICK d, m, a, l : t = Tables(d, m, a, l)
    BY DEF IsTables
  <1>3. /\ d \in [DOMAIN d -> DomainRow] /\ Mapping(m)
        /\ t.domain = d /\ t.mailbox = m /\ t.app = a
    BY <1>2, Parts
  <1>4. CASE s = "CreateDomain"
    <2>1. PICK e : e = CreateDomainOf(d, c)
      OBVIOUS
    <2>2. DomainsAfter("CreateDomain", d, e, c) /\ CreateDomainOf(e, c) = e
      BY <1>1, <1>3, <2>1, CreateDomainTable, Zenon
    <2>3. PICK r : r = Tables(e, m, a, l)
      OBVIOUS
    <2>4. Executed(s, t, c) = r /\ Executed(s, r, c) = r
      <3>1. Executed("CreateDomain", Tables(d, m, a, l), c) =
                Tables(CreateDomainOf(d, c), m, a, l)
        BY ExecuteCreateDomain
      <3>2. Executed("CreateDomain", Tables(e, m, a, l), c) =
                Tables(CreateDomainOf(e, c), m, a, l)
        BY ExecuteCreateDomain
      <3> QED
        BY <1>2, <1>4, <2>1, <2>2, <2>3, <3>1, <3>2, Zenon
    <2>5. /\ r.domain = e /\ r.mailbox = m /\ r.app = a
          /\ r.alias = l
      BY <2>3 DEF Tables
    <2>6. IsTables(r)
      BY <1>3, <2>2, <2>3, <2>5 DEF DomainsAfter, IsTables
    <2>7. Effects("CreateDomain", t, r, c)
      BY <1>3, <1>4, <2>2, <2>4, <2>5, <2>6 DEF OnDomain, OnMailbox, OnApp, Effects
    <2> QED
      BY <1>4, <2>4, <2>7, Zenon
  <1>5. CASE s = "SetDomainDNSProvider"
    <2>1. PICK e : e = SetDomainDNSProviderOf(d, c)
      OBVIOUS
    <2>2. DomainsAfter("SetDomainDNSProvider", d, e, c) /\ SetDomainDNSProviderOf(e, c) = e
      BY <1>1, <1>3, <2>1, SetDomainDNSProviderTable, Zenon
    <2>3. PICK r : r = Tables(e, m, a, l)
      OBVIOUS
    <2>4. Executed(s, t, c) = r /\ Executed(s, r, c) = r
      <3>1. Executed("SetDomainDNSProvider", Tables(d, m, a, l), c) =
                Tables(SetDomainDNSProviderOf(d, c), m, a, l)
        BY ExecuteSetDomainDNSProvider
      <3>2. Executed("SetDomainDNSProvider", Tables(e, m, a, l), c) =
                Tables(SetDomainDNSProviderOf(e, c), m, a, l)
        BY ExecuteSetDomainDNSProvider
      <3> QED
        BY <1>2, <1>5, <2>1, <2>2, <2>3, <3>1, <3>2, Zenon
    <2>5. /\ r.domain = e /\ r.mailbox = m /\ r.app = a
          /\ r.alias = l
      BY <2>3 DEF Tables
    <2>6. IsTables(r)
      BY <1>3, <2>2, <2>3, <2>5 DEF DomainsAfter, IsTables
    <2>7. Effects("SetDomainDNSProvider", t, r, c)
      BY <1>3, <1>5, <2>2, <2>4, <2>5, <2>6 DEF OnDomain, OnMailbox, OnApp, Effects
    <2> QED
      BY <1>5, <2>4, <2>7, Zenon
  <1>6. CASE s = "SetDomainActive"
    <2>1. PICK e : e = SetDomainActiveOf(d, c)
      OBVIOUS
    <2>2. DomainsAfter("SetDomainActive", d, e, c) /\ SetDomainActiveOf(e, c) = e
      BY <1>1, <1>3, <2>1, SetDomainActiveTable, Zenon
    <2>3. PICK r : r = Tables(e, m, a, l)
      OBVIOUS
    <2>4. Executed(s, t, c) = r /\ Executed(s, r, c) = r
      <3>1. Executed("SetDomainActive", Tables(d, m, a, l), c) =
                Tables(SetDomainActiveOf(d, c), m, a, l)
        BY ExecuteSetDomainActive
      <3>2. Executed("SetDomainActive", Tables(e, m, a, l), c) =
                Tables(SetDomainActiveOf(e, c), m, a, l)
        BY ExecuteSetDomainActive
      <3> QED
        BY <1>2, <1>6, <2>1, <2>2, <2>3, <3>1, <3>2, Zenon
    <2>5. /\ r.domain = e /\ r.mailbox = m /\ r.app = a
          /\ r.alias = l
      BY <2>3 DEF Tables
    <2>6. IsTables(r)
      BY <1>3, <2>2, <2>3, <2>5 DEF DomainsAfter, IsTables
    <2>7. Effects("SetDomainActive", t, r, c)
      BY <1>3, <1>6, <2>2, <2>4, <2>5, <2>6 DEF OnDomain, OnMailbox, OnApp, Effects
    <2> QED
      BY <1>6, <2>4, <2>7, Zenon
  <1>7. CASE s = "SetDKIMSelector"
    <2>1. PICK e : e = SetDKIMSelectorOf(d, c)
      OBVIOUS
    <2>2. DomainsAfter("SetDKIMSelector", d, e, c) /\ SetDKIMSelectorOf(e, c) = e
      BY <1>1, <1>3, <2>1, SetDKIMSelectorTable, Zenon
    <2>3. PICK r : r = Tables(e, m, a, l)
      OBVIOUS
    <2>4. Executed(s, t, c) = r /\ Executed(s, r, c) = r
      <3>1. Executed("SetDKIMSelector", Tables(d, m, a, l), c) =
                Tables(SetDKIMSelectorOf(d, c), m, a, l)
        BY ExecuteSetDKIMSelector
      <3>2. Executed("SetDKIMSelector", Tables(e, m, a, l), c) =
                Tables(SetDKIMSelectorOf(e, c), m, a, l)
        BY ExecuteSetDKIMSelector
      <3> QED
        BY <1>2, <1>7, <2>1, <2>2, <2>3, <3>1, <3>2, Zenon
    <2>5. /\ r.domain = e /\ r.mailbox = m /\ r.app = a
          /\ r.alias = l
      BY <2>3 DEF Tables
    <2>6. IsTables(r)
      BY <1>3, <2>2, <2>3, <2>5 DEF DomainsAfter, IsTables
    <2>7. Effects("SetDKIMSelector", t, r, c)
      BY <1>3, <1>7, <2>2, <2>4, <2>5, <2>6 DEF OnDomain, OnMailbox, OnApp, Effects
    <2> QED
      BY <1>7, <2>4, <2>7, Zenon
  <1>8. CASE s = "DeleteDomain"
    <2>1. PICK e : e = DeleteDomainOf(d, c)
      OBVIOUS
    <2>2. DomainsAfter("DeleteDomain", d, e, c) /\ DeleteDomainOf(e, c) = e
      BY <1>1, <1>3, <2>1, DeleteDomainTable, Zenon
    <2>3. PICK r : r = Tables(e, m, a, l)
      OBVIOUS
    <2>4. Executed(s, t, c) = r /\ Executed(s, r, c) = r
      <3>1. Executed("DeleteDomain", Tables(d, m, a, l), c) =
                Tables(DeleteDomainOf(d, c), m, a, l)
        BY ExecuteDeleteDomain
      <3>2. Executed("DeleteDomain", Tables(e, m, a, l), c) =
                Tables(DeleteDomainOf(e, c), m, a, l)
        BY ExecuteDeleteDomain
      <3> QED
        BY <1>2, <1>8, <2>1, <2>2, <2>3, <3>1, <3>2, Zenon
    <2>5. /\ r.domain = e /\ r.mailbox = m /\ r.app = a
          /\ r.alias = l
      BY <2>3 DEF Tables
    <2>6. IsTables(r)
      BY <1>3, <2>2, <2>3, <2>5 DEF DomainsAfter, IsTables
    <2>7. Effects("DeleteDomain", t, r, c)
      BY <1>3, <1>8, <2>2, <2>4, <2>5, <2>6 DEF OnDomain, OnMailbox, OnApp, Effects
    <2> QED
      BY <1>8, <2>4, <2>7, Zenon
  <1>9. CASE s = "CreateMailbox"
    <2>1. PICK e : e = CreateMailboxOf(m, c)
      OBVIOUS
    <2>2. MailboxesAfter("CreateMailbox", m, e, c) /\ CreateMailboxOf(e, c) = e
      BY <1>1, <1>3, <2>1, CreateMailboxTable, Zenon
    <2>3. PICK r : r = Tables(d, e, a, l)
      OBVIOUS
    <2>4. Executed(s, t, c) = r /\ Executed(s, r, c) = r
      <3>1. Executed("CreateMailbox", Tables(d, m, a, l), c) =
                Tables(d, CreateMailboxOf(m, c), a, l)
        BY ExecuteCreateMailbox
      <3>2. Executed("CreateMailbox", Tables(d, e, a, l), c) =
                Tables(d, CreateMailboxOf(e, c), a, l)
        BY ExecuteCreateMailbox
      <3> QED
        BY <1>2, <1>9, <2>1, <2>2, <2>3, <3>1, <3>2, Zenon
    <2>5. /\ r.domain = d /\ r.mailbox = e /\ r.app = a
          /\ r.alias = l
      BY <2>3 DEF Tables
    <2>6. IsTables(r)
      BY <1>3, <2>2, <2>3, <2>5 DEF MailboxesAfter, IsTables
    <2>7. Effects("CreateMailbox", t, r, c)
      BY <1>3, <1>9, <2>2, <2>4, <2>5, <2>6 DEF OnDomain, OnMailbox, OnApp, Effects
    <2> QED
      BY <1>9, <2>4, <2>7, Zenon
  <1>10. CASE s = "UpdateMailboxPassword"
    <2>1. PICK e : e = UpdateMailboxPasswordOf(m, c)
      OBVIOUS
    <2>2. MailboxesAfter("UpdateMailboxPassword", m, e, c) /\ UpdateMailboxPasswordOf(e, c) = e
      BY <1>1, <1>3, <2>1, UpdateMailboxPasswordTable, Zenon
    <2>3. PICK r : r = Tables(d, e, a, l)
      OBVIOUS
    <2>4. Executed(s, t, c) = r /\ Executed(s, r, c) = r
      <3>1. Executed("UpdateMailboxPassword", Tables(d, m, a, l), c) =
                Tables(d, UpdateMailboxPasswordOf(m, c), a, l)
        BY ExecuteUpdateMailboxPassword
      <3>2. Executed("UpdateMailboxPassword", Tables(d, e, a, l), c) =
                Tables(d, UpdateMailboxPasswordOf(e, c), a, l)
        BY ExecuteUpdateMailboxPassword
      <3> QED
        BY <1>2, <1>10, <2>1, <2>2, <2>3, <3>1, <3>2, Zenon
    <2>5. /\ r.domain = d /\ r.mailbox = e /\ r.app = a
          /\ r.alias = l
      BY <2>3 DEF Tables
    <2>6. IsTables(r)
      BY <1>3, <2>2, <2>3, <2>5 DEF MailboxesAfter, IsTables
    <2>7. Effects("UpdateMailboxPassword", t, r, c)
      BY <1>3, <1>10, <2>2, <2>4, <2>5, <2>6 DEF OnDomain, OnMailbox, OnApp, Effects
    <2> QED
      BY <1>10, <2>4, <2>7, Zenon
  <1>11. CASE s = "UpdateMailboxQuota"
    <2>1. PICK e : e = UpdateMailboxQuotaOf(m, c)
      OBVIOUS
    <2>2. MailboxesAfter("UpdateMailboxQuota", m, e, c) /\ UpdateMailboxQuotaOf(e, c) = e
      BY <1>1, <1>3, <2>1, UpdateMailboxQuotaTable, Zenon
    <2>3. PICK r : r = Tables(d, e, a, l)
      OBVIOUS
    <2>4. Executed(s, t, c) = r /\ Executed(s, r, c) = r
      <3>1. Executed("UpdateMailboxQuota", Tables(d, m, a, l), c) =
                Tables(d, UpdateMailboxQuotaOf(m, c), a, l)
        BY ExecuteUpdateMailboxQuota
      <3>2. Executed("UpdateMailboxQuota", Tables(d, e, a, l), c) =
                Tables(d, UpdateMailboxQuotaOf(e, c), a, l)
        BY ExecuteUpdateMailboxQuota
      <3> QED
        BY <1>2, <1>11, <2>1, <2>2, <2>3, <3>1, <3>2, Zenon
    <2>5. /\ r.domain = d /\ r.mailbox = e /\ r.app = a
          /\ r.alias = l
      BY <2>3 DEF Tables
    <2>6. IsTables(r)
      BY <1>3, <2>2, <2>3, <2>5 DEF MailboxesAfter, IsTables
    <2>7. Effects("UpdateMailboxQuota", t, r, c)
      BY <1>3, <1>11, <2>2, <2>4, <2>5, <2>6 DEF OnDomain, OnMailbox, OnApp, Effects
    <2> QED
      BY <1>11, <2>4, <2>7, Zenon
  <1>12. CASE s = "SetMailboxActive"
    <2>1. PICK e : e = SetMailboxActiveOf(m, c)
      OBVIOUS
    <2>2. MailboxesAfter("SetMailboxActive", m, e, c) /\ SetMailboxActiveOf(e, c) = e
      BY <1>1, <1>3, <2>1, SetMailboxActiveTable, Zenon
    <2>3. PICK r : r = Tables(d, e, a, l)
      OBVIOUS
    <2>4. Executed(s, t, c) = r /\ Executed(s, r, c) = r
      <3>1. Executed("SetMailboxActive", Tables(d, m, a, l), c) =
                Tables(d, SetMailboxActiveOf(m, c), a, l)
        BY ExecuteSetMailboxActive
      <3>2. Executed("SetMailboxActive", Tables(d, e, a, l), c) =
                Tables(d, SetMailboxActiveOf(e, c), a, l)
        BY ExecuteSetMailboxActive
      <3> QED
        BY <1>2, <1>12, <2>1, <2>2, <2>3, <3>1, <3>2, Zenon
    <2>5. /\ r.domain = d /\ r.mailbox = e /\ r.app = a
          /\ r.alias = l
      BY <2>3 DEF Tables
    <2>6. IsTables(r)
      BY <1>3, <2>2, <2>3, <2>5 DEF MailboxesAfter, IsTables
    <2>7. Effects("SetMailboxActive", t, r, c)
      BY <1>3, <1>12, <2>2, <2>4, <2>5, <2>6 DEF OnDomain, OnMailbox, OnApp, Effects
    <2> QED
      BY <1>12, <2>4, <2>7, Zenon
  <1>13. CASE s = "DeleteMailbox"
    <2>1. PICK e : e = DeleteMailboxOf(m, c)
      OBVIOUS
    <2>2. MailboxesAfter("DeleteMailbox", m, e, c) /\ DeleteMailboxOf(e, c) = e
      BY <1>1, <1>3, <2>1, DeleteMailboxTable, Zenon
    <2>3. PICK r : r = Tables(d, e, a, l)
      OBVIOUS
    <2>4. Executed(s, t, c) = r /\ Executed(s, r, c) = r
      <3>1. Executed("DeleteMailbox", Tables(d, m, a, l), c) =
                Tables(d, DeleteMailboxOf(m, c), a, l)
        BY ExecuteDeleteMailbox
      <3>2. Executed("DeleteMailbox", Tables(d, e, a, l), c) =
                Tables(d, DeleteMailboxOf(e, c), a, l)
        BY ExecuteDeleteMailbox
      <3> QED
        BY <1>2, <1>13, <2>1, <2>2, <2>3, <3>1, <3>2, Zenon
    <2>5. /\ r.domain = d /\ r.mailbox = e /\ r.app = a
          /\ r.alias = l
      BY <2>3 DEF Tables
    <2>6. IsTables(r)
      BY <1>3, <2>2, <2>3, <2>5 DEF MailboxesAfter, IsTables
    <2>7. Effects("DeleteMailbox", t, r, c)
      BY <1>3, <1>13, <2>2, <2>4, <2>5, <2>6 DEF OnDomain, OnMailbox, OnApp, Effects
    <2> QED
      BY <1>13, <2>4, <2>7, Zenon
  <1>14. CASE s = "CreateAppPassword"
    <2>1. PICK e : e = CreateAppPasswordOf(a, c)
      OBVIOUS
    <2>2. AppsAfter("CreateAppPassword", a, e, c) /\ CreateAppPasswordOf(e, c) = e
      BY <1>1, <1>3, <2>1, CreateAppPasswordTable, Zenon
    <2>3. PICK r : r = Tables(d, m, e, l)
      OBVIOUS
    <2>4. Executed(s, t, c) = r /\ Executed(s, r, c) = r
      <3>1. Executed("CreateAppPassword", Tables(d, m, a, l), c) =
                Tables(d, m, CreateAppPasswordOf(a, c), l)
        BY ExecuteCreateAppPassword
      <3>2. Executed("CreateAppPassword", Tables(d, m, e, l), c) =
                Tables(d, m, CreateAppPasswordOf(e, c), l)
        BY ExecuteCreateAppPassword
      <3> QED
        BY <1>2, <1>14, <2>1, <2>2, <2>3, <3>1, <3>2, Zenon
    <2>5. /\ r.domain = d /\ r.mailbox = m /\ r.app = e
          /\ r.alias = l
      BY <2>3 DEF Tables
    <2>6. IsTables(r)
      BY <1>3, <2>2, <2>3, <2>5 DEF IsTables
    <2>7. Effects("CreateAppPassword", t, r, c)
      BY <1>3, <1>14, <2>2, <2>4, <2>5, <2>6 DEF OnDomain, OnMailbox, OnApp, Effects
    <2> QED
      BY <1>14, <2>4, <2>7, Zenon
  <1>15. CASE s = "DeleteAppPassword"
    <2>1. PICK e : e = DeleteAppPasswordOf(a, c)
      OBVIOUS
    <2>2. AppsAfter("DeleteAppPassword", a, e, c) /\ DeleteAppPasswordOf(e, c) = e
      BY <1>1, <1>3, <2>1, DeleteAppPasswordTable, Zenon
    <2>3. PICK r : r = Tables(d, m, e, l)
      OBVIOUS
    <2>4. Executed(s, t, c) = r /\ Executed(s, r, c) = r
      <3>1. Executed("DeleteAppPassword", Tables(d, m, a, l), c) =
                Tables(d, m, DeleteAppPasswordOf(a, c), l)
        BY ExecuteDeleteAppPassword
      <3>2. Executed("DeleteAppPassword", Tables(d, m, e, l), c) =
                Tables(d, m, DeleteAppPasswordOf(e, c), l)
        BY ExecuteDeleteAppPassword
      <3> QED
        BY <1>2, <1>15, <2>1, <2>2, <2>3, <3>1, <3>2, Zenon
    <2>5. /\ r.domain = d /\ r.mailbox = m /\ r.app = e
          /\ r.alias = l
      BY <2>3 DEF Tables
    <2>6. IsTables(r)
      BY <1>3, <2>2, <2>3, <2>5 DEF IsTables
    <2>7. Effects("DeleteAppPassword", t, r, c)
      BY <1>3, <1>15, <2>2, <2>4, <2>5, <2>6 DEF OnDomain, OnMailbox, OnApp, Effects
    <2> QED
      BY <1>15, <2>4, <2>7, Zenon
  <1>16. CASE s = "DeleteAppPasswordsByMailbox"
    <2>1. PICK e : e = DeleteAppPasswordsByMailboxOf(a, c)
      OBVIOUS
    <2>2. AppsAfter("DeleteAppPasswordsByMailbox", a, e, c) /\ DeleteAppPasswordsByMailboxOf(e, c) = e
      BY <1>1, <1>3, <2>1, DeleteAppPasswordsByMailboxTable, Zenon
    <2>3. PICK r : r = Tables(d, m, e, l)
      OBVIOUS
    <2>4. Executed(s, t, c) = r /\ Executed(s, r, c) = r
      <3>1. Executed("DeleteAppPasswordsByMailbox", Tables(d, m, a, l), c) =
                Tables(d, m, DeleteAppPasswordsByMailboxOf(a, c), l)
        BY ExecuteDeleteAppPasswordsByMailbox
      <3>2. Executed("DeleteAppPasswordsByMailbox", Tables(d, m, e, l), c) =
                Tables(d, m, DeleteAppPasswordsByMailboxOf(e, c), l)
        BY ExecuteDeleteAppPasswordsByMailbox
      <3> QED
        BY <1>2, <1>16, <2>1, <2>2, <2>3, <3>1, <3>2, Zenon
    <2>5. /\ r.domain = d /\ r.mailbox = m /\ r.app = e
          /\ r.alias = l
      BY <2>3 DEF Tables
    <2>6. IsTables(r)
      BY <1>3, <2>2, <2>3, <2>5 DEF IsTables
    <2>7. Effects("DeleteAppPasswordsByMailbox", t, r, c)
      BY <1>3, <1>16, <2>2, <2>4, <2>5, <2>6 DEF OnDomain, OnMailbox, OnApp, Effects
    <2> QED
      BY <1>16, <2>4, <2>7, Zenon
  <1>17. CASE s = "CreateAlias"
    <2>1. PICK e : e = CreateAliasOf(l, c)
      OBVIOUS
    <2>2. CreateAliasOf(e, c) = e
      BY <1>1, <1>3, <2>1, CreateAliasTable, Zenon
    <2>3. PICK r : r = Tables(d, m, a, e)
      OBVIOUS
    <2>4. Executed(s, t, c) = r /\ Executed(s, r, c) = r
      <3>1. Executed("CreateAlias", Tables(d, m, a, l), c) =
                Tables(d, m, a, CreateAliasOf(l, c))
        BY ExecuteCreateAlias
      <3>2. Executed("CreateAlias", Tables(d, m, a, e), c) =
                Tables(d, m, a, CreateAliasOf(e, c))
        BY ExecuteCreateAlias
      <3> QED
        BY <1>2, <1>17, <2>1, <2>2, <2>3, <3>1, <3>2, Zenon
    <2>5. /\ r.domain = d /\ r.mailbox = m /\ r.app = a
          /\ r.alias = e
      BY <2>3 DEF Tables
    <2>6. IsTables(r)
      BY <1>3, <2>2, <2>3, <2>5 DEF IsTables
    <2>7. Effects("CreateAlias", t, r, c)
      BY <1>3, <1>17, <2>2, <2>4, <2>5, <2>6 DEF OnDomain, OnMailbox, OnApp, Effects
    <2> QED
      BY <1>17, <2>4, <2>7, Zenon
  <1>18. CASE s = "DeleteAlias"
    <2>1. PICK e : e = DeleteAliasOf(l, c)
      OBVIOUS
    <2>2. DeleteAliasOf(e, c) = e
      BY <1>1, <1>3, <2>1, DeleteAliasTable, Zenon
    <2>3. PICK r : r = Tables(d, m, a, e)
      OBVIOUS
    <2>4. Executed(s, t, c) = r /\ Executed(s, r, c) = r
      <3>1. Executed("DeleteAlias", Tables(d, m, a, l), c) =
                Tables(d, m, a, DeleteAliasOf(l, c))
        BY ExecuteDeleteAlias
      <3>2. Executed("DeleteAlias", Tables(d, m, a, e), c) =
                Tables(d, m, a, DeleteAliasOf(e, c))
        BY ExecuteDeleteAlias
      <3> QED
        BY <1>2, <1>18, <2>1, <2>2, <2>3, <3>1, <3>2, Zenon
    <2>5. /\ r.domain = d /\ r.mailbox = m /\ r.app = a
          /\ r.alias = e
      BY <2>3 DEF Tables
    <2>6. IsTables(r)
      BY <1>3, <2>2, <2>3, <2>5 DEF IsTables
    <2>7. Effects("DeleteAlias", t, r, c)
      BY <1>3, <1>18, <2>2, <2>4, <2>5, <2>6 DEF OnDomain, OnMailbox, OnApp, Effects
    <2> QED
      BY <1>18, <2>4, <2>7, Zenon
  <1>19. CASE s = "DeleteAliasesBySource"
    <2>1. PICK e : e = DeleteAliasesBySourceOf(l, c)
      OBVIOUS
    <2>2. DeleteAliasesBySourceOf(e, c) = e
      BY <1>1, <1>3, <2>1, DeleteAliasesBySourceTable, Zenon
    <2>3. PICK r : r = Tables(d, m, a, e)
      OBVIOUS
    <2>4. Executed(s, t, c) = r /\ Executed(s, r, c) = r
      <3>1. Executed("DeleteAliasesBySource", Tables(d, m, a, l), c) =
                Tables(d, m, a, DeleteAliasesBySourceOf(l, c))
        BY ExecuteDeleteAliasesBySource
      <3>2. Executed("DeleteAliasesBySource", Tables(d, m, a, e), c) =
                Tables(d, m, a, DeleteAliasesBySourceOf(e, c))
        BY ExecuteDeleteAliasesBySource
      <3> QED
        BY <1>2, <1>19, <2>1, <2>2, <2>3, <3>1, <3>2, Zenon
    <2>5. /\ r.domain = d /\ r.mailbox = m /\ r.app = a
          /\ r.alias = e
      BY <2>3 DEF Tables
    <2>6. IsTables(r)
      BY <1>3, <2>2, <2>3, <2>5 DEF IsTables
    <2>7. Effects("DeleteAliasesBySource", t, r, c)
      BY <1>3, <1>19, <2>2, <2>4, <2>5, <2>6 DEF OnDomain, OnMailbox, OnApp, Effects
    <2> QED
      BY <1>19, <2>4, <2>7, Zenon
  <1> QED
    BY <1>4, <1>5, <1>6, <1>7, <1>8, <1>9, <1>10, <1>11, <1>12, <1>13, <1>14, <1>15,
       <1>16, <1>17, <1>18, <1>19 DEF Statements

-----------------------------------------------------------------------------
(* The inductive invariant.  A command stands behind some of its steps, and*)
(* as long as nobody overtook it what it checked still holds, what it did  *)
(* is still there and the include files are as it left them.               *)

KeyIn(c, t, k, K) ==
    Past(t, k, "key") /\ c.op \in {"domain.add", "domain.set-dkim"} =>
        <<c.dom, c.selector>> \in K
Logs(c, t, k, b, n) ==
    /\ b => Past(t, k, "audit")
    /\ Past(t, k, "audit") => b \/ (IgnoresAuditError(c) /\ n > 0)
Repeats(c, t, k, d) ==
    \A i \in 1 .. k : t[i] \in Statements => Executed(t[i], d, c) = d
Checked(c, t, k, d, m) ==
    /\ c.op = "domain.remove" => \A a \in DOMAIN d.mailbox : DomainOf[a] # c.dom
    /\ c.op = "mailbox.add" => DomainOf[c.addr] \in DOMAIN d.domain
    /\ c.op = "mailbox.app-password.add" => c.addr \in DOMAIN d.mailbox
    /\ c.op = "mailbox.remove" => c.addr \notin m \/ \E i \in k + 1 .. Len(t) : t[i] = "purge"
ActiveOf(d) == {x \in DOMAIN d.domain : d.domain[x].active}
Mirrors(t, k, d, l, f, s) ==
    /\ k >= 1 /\ t[k] = "list-auto" => l = DOMAIN d.domain
    /\ k >= 1 /\ t[k] = "list-sts" => l = ActiveOf(d)
    /\ Past(t, k, "put-auto") => f.auto = DOMAIN d.domain /\ s.auto = DOMAIN d.domain
    /\ Past(t, k, "put-sts") => f.sts = ActiveOf(d) /\ s.sts = ActiveOf(d)

Typed ==
    /\ pc \in [Process -> {"idle", "run", "done", "failed"}]
    /\ DOMAIN cmd = Process /\ DOMAIN left = Process /\ DOMAIN list = Process
    /\ logged \in [Process -> BOOLEAN] /\ warned \in [Process -> BOOLEAN]
    /\ overtaken \in [Process -> BOOLEAN]
    /\ file = [auto |-> file.auto, sts |-> file.sts] /\ faults \in Nat

Under(p) == pc[p] \in {"run", "done"}
Far(p) == Taken(cmd[p].steps, left[p])
Right(p) ==
    /\ Under(p) => Placed(cmd[p].order, cmd[p].steps, left[p])
    /\ Under(p) => (pc[p] = "done" <=> Len(left[p]) = 0)
    /\ Under(p) => KeyIn(cmd[p].order, cmd[p].steps, Far(p), keys)
    /\ Under(p) => Logs(cmd[p].order, cmd[p].steps, Far(p), logged[p], faults)
    /\ Under(p) /\ ~overtaken[p] => Repeats(cmd[p].order, cmd[p].steps, Far(p), db)
    /\ Under(p) /\ ~overtaken[p] => Checked(cmd[p].order, cmd[p].steps, Far(p), db, mail)
    /\ Under(p) /\ ~overtaken[p] /\ ~warned[p] =>
          Mirrors(cmd[p].steps, Far(p), db, list[p], file, served)
    /\ logged[p] /\ ~overtaken[p] =>
          /\ Len(cmd[p].steps) \in Nat /\ DOMAIN cmd[p].steps = 1 .. Len(cmd[p].steps)
          /\ Repeats(cmd[p].order, cmd[p].steps, Len(cmd[p].steps), db)

AccountsInv == Typed /\ IsTables(db) /\ KeyBeforeRow /\ \A p \in Process : Right(p)

Same(q) ==
    /\ pc'[q] = pc[q] /\ cmd'[q] = cmd[q] /\ left'[q] = left[q] /\ list'[q] = list[q]
    /\ logged'[q] = logged[q] /\ warned'[q] = warned[q]
Passed(q) ==
    /\ keys \subseteq keys' /\ faults' \in Nat /\ faults' >= faults
    /\ \/ overtaken'[q]
       \/ /\ overtaken'[q] = overtaken[q] /\ db' = db /\ mail' = mail
          /\ file' = file /\ served' \in {served, file}

LEMMA OthersStay ==
    ASSUME NEW q \in Process, Right(q), Same(q), Passed(q), faults \in Nat
    PROVE  Right(q)'
  <1>1. PICK c, t, k : c = cmd[q].order /\ t = cmd[q].steps /\ k = Far(q)
    OBVIOUS
  <1>2. c = cmd'[q].order /\ t = cmd'[q].steps /\ k = Far(q)' /\ (Under(q)' <=> Under(q))
    BY <1>1 DEF Same, Far, Under
  <1>3. /\ Under(q)' => Placed(cmd'[q].order, cmd'[q].steps, left'[q])
        /\ Under(q)' => (pc'[q] = "done" <=> Len(left'[q]) = 0)
    BY <1>2 DEF Right, Same
  <1>4. Under(q)' => KeyIn(c, t, k, keys')
    <2>1. Under(q) => KeyIn(c, t, k, keys)
      BY <1>1 DEF Right
    <2> QED
      BY <1>2, <2>1 DEF KeyIn, Passed
  <1>5. Under(q)' => Logs(c, t, k, logged'[q], faults')
    <2>1. Under(q) => Logs(c, t, k, logged[q], faults)
      BY <1>1 DEF Right
    <2>2. faults > 0 => faults' > 0
      BY DEF Passed
    <2> QED
      BY <1>2, <2>1, <2>2 DEF Logs, Same
  <1>6. ASSUME ~overtaken'[q]
        PROVE  /\ Under(q)' => Repeats(c, t, k, db') /\ Checked(c, t, k, db', mail')
               /\ Under(q)' /\ ~warned'[q] => Mirrors(t, k, db', list'[q], file', served')
               /\ logged'[q] => /\ Len(t) \in Nat /\ DOMAIN t = 1 .. Len(t)
                                /\ Repeats(c, t, Len(t), db')
    <2>1. /\ ~overtaken[q] /\ db' = db /\ mail' = mail /\ file' = file
          /\ served' \in {served, file}
      BY <1>6 DEF Passed
    <2>2. Under(q) => Repeats(c, t, k, db) /\ Checked(c, t, k, db, mail)
      BY <1>1, <2>1 DEF Right
    <2>3. Under(q) /\ ~warned[q] => Mirrors(t, k, db, list[q], file, served)
      BY <1>1, <2>1 DEF Right
    <2>4. logged[q] => /\ Len(t) \in Nat /\ DOMAIN t = 1 .. Len(t)
                       /\ Repeats(c, t, Len(t), db)
      BY <1>1, <2>1 DEF Right
    <2>5. Mirrors(t, k, db, list[q], file, served) =>
              Mirrors(t, k, db, list[q], file, file)
      BY DEF Mirrors
    <2> QED
      BY <1>2, <2>1, <2>2, <2>3, <2>4, <2>5 DEF Same
  <1> QED
    BY <1>2, <1>3, <1>4, <1>5, <1>6 DEF Right

LEMMA PastOne ==
    ASSUME NEW t, NEW k \in Nat, NEW w
    PROVE  Past(t, k + 1, w) <=> Past(t, k, w) \/ t[k + 1] = w
  <1>1. \A i : i \in 1 .. k + 1 <=> i \in 1 .. k \/ i = k + 1
    OBVIOUS
  <1> QED
    BY <1>1 DEF Past

LEMMA RepeatsOn ==
    ASSUME NEW c, NEW t, NEW k \in Nat, NEW d, Repeats(c, t, k, d),
           t[k + 1] \in Statements => Executed(t[k + 1], d, c) = d
    PROVE  Repeats(c, t, k + 1, d)
  <1>1. \A i : i \in 1 .. k + 1 => i \in 1 .. k \/ i = k + 1
    OBVIOUS
  <1> QED
    BY <1>1 DEF Repeats

LEMMA CheckedOn ==
    ASSUME NEW c, NEW t, NEW k \in Nat, NEW d, NEW m, Checked(c, t, k, d, m), Len(t) \in Nat,
           t[k + 1] # "purge"
    PROVE  Checked(c, t, k + 1, d, m)
  <1>1. \A i : i \in k + 1 .. Len(t) => i \in (k + 1) + 1 .. Len(t) \/ i = k + 1
    OBVIOUS
  <1> QED
    BY <1>1 DEF Checked

LEMMA MirrorsOn ==
    ASSUME NEW t, NEW k \in Nat, NEW d, NEW l, NEW f, NEW s, Mirrors(t, k, d, l, f, s),
           NEW x, t[k + 1] \notin {"list-auto", "put-auto", "list-sts", "put-sts"}
    PROVE  Mirrors(t, k + 1, d, x, f, s)
  <1>1. /\ Past(t, k + 1, "put-auto") => Past(t, k, "put-auto")
        /\ Past(t, k + 1, "put-sts") => Past(t, k, "put-sts")
    BY PastOne
  <1> QED
    BY <1>1 DEF Mirrors

-----------------------------------------------------------------------------
(* The steps of one process.                                               *)

StepRight(p) ==
    /\ Typed' /\ IsTables(db)' /\ KeyBeforeRow' /\ Right(p)'
    /\ \A q \in Process \ {p} : Same(q) /\ Passed(q)

(* What the invariant says of a running command.                           *)
Runs(p, c, t, l, k) ==
    /\ c = cmd[p].order /\ t = cmd[p].steps /\ l = left[p] /\ k = Far(p)
    /\ k = Taken(t, l) /\ c \in Command /\ Placed(c, t, l) /\ k \in Nat /\ Len(t) \in Nat
    /\ k + 1 \in 1 .. Len(t) /\ Len(l) \in Nat /\ Len(l) # 0 /\ k = Len(t) - Len(l)
    /\ Head(l) = t[k + 1] /\ Head(l) \in Word /\ Ordered(c, t, k + 1)
    /\ DOMAIN t = 1 .. Len(t)
    /\ KeyIn(c, t, k, keys) /\ Logs(c, t, k, logged[p], faults)
    /\ ~overtaken[p] => Repeats(c, t, k, db) /\ Checked(c, t, k, db, mail)
    /\ ~overtaken[p] /\ ~warned[p] => Mirrors(t, k, db, list[p], file, served)
    /\ logged[p] /\ ~overtaken[p] => Repeats(c, t, Len(t), db)

LEMMA Running ==
    ASSUME AccountsInv, NEW p \in Process, pc[p] = "run"
    PROVE  \E c, t, l, k : Runs(p, c, t, l, k)
  <1>1. PICK c, t, l, k : /\ c = cmd[p].order /\ t = cmd[p].steps /\ l = left[p]
                          /\ k = Taken(t, l) /\ k = Far(p)
    BY DEF Far
  <1>2. Right(p) /\ Under(p)
    BY DEF AccountsInv, Under
  <1>3. Placed(c, t, l) /\ Len(l) # 0
    BY <1>1, <1>2 DEF Right
  <1>4. /\ Len(t) \in Nat /\ Len(l) \in Nat /\ k \in 0 .. Len(t) /\ k = Len(t) - Len(l)
        /\ k + 1 \in 1 .. Len(t) /\ Head(l) = t[k + 1] /\ Head(l) \in Word
        /\ Ordered(c, t, k + 1)
    <2>1. /\ Len(t) \in Nat /\ Len(l) \in Nat /\ Taken(t, l) \in 0 .. Len(t)
          /\ Taken(t, l) = Len(t) - Len(l)
          /\ Taken(t, l) + 1 \in 1 .. Len(t)
          /\ Head(l) = t[Taken(t, l) + 1] /\ Head(l) \in Word
          /\ Ordered(c, t, Taken(t, l) + 1)
      BY <1>3, NextOne
    <2> QED
      BY <1>1, <2>1, Zenon
  <1>5. c \in Command /\ Form(c, t)
    BY <1>3 DEF Placed
  <1>6. DOMAIN t = 1 .. Len(t)
    <2>1. t \in Seq(Word)
      BY <1>5, Order DEF Ends
    <2> QED
      BY <2>1
  <1>7. KeyIn(c, t, k, keys) /\ Logs(c, t, k, logged[p], faults)
    BY <1>1, <1>2 DEF Right
  <1>8. /\ ~overtaken[p] => Repeats(c, t, k, db) /\ Checked(c, t, k, db, mail)
        /\ ~overtaken[p] /\ ~warned[p] => Mirrors(t, k, db, list[p], file, served)
        /\ logged[p] /\ ~overtaken[p] => Repeats(c, t, Len(t), db)
    BY <1>1, <1>2 DEF Right
  <1>9. k \in Nat
    BY <1>4
  <1>10. Runs(p, c, t, l, k)
    BY <1>1, <1>3, <1>4, <1>5, <1>6, <1>7, <1>8, <1>9 DEF Runs
  <1> QED
    BY <1>10

(* A step that goes on.                                                    *)
LEMMA GoesOn ==
    ASSUME AccountsInv, NEW p \in Process, pc[p] = "run",
           NEW c, NEW t, NEW l, NEW k, Runs(p, c, t, l, k),
           NEW n \in 1 .. Len(l), Take(p, n), cmd' = cmd,
           KeyIn(c, t, k + n, keys'),
           Logs(c, t, k + n, logged'[p], faults'),
           ~overtaken'[p] => Repeats(c, t, k + n, db') /\ Checked(c, t, k + n, db', mail'),
           ~overtaken'[p] /\ ~warned'[p] =>
               Mirrors(t, k + n, db', list'[p], file', served'),
           ~overtaken'[p] /\ logged'[p] => Repeats(c, t, Len(t), db')
    PROVE  /\ Right(p)'
           /\ pc' \in [Process -> {"idle", "run", "done", "failed"}]
           /\ DOMAIN left' = Process
           /\ \A q \in Process \ {p} : pc'[q] = pc[q] /\ left'[q] = left[q]
  <1>1. Typed
    BY DEF AccountsInv
  <1>2. /\ left' = [left EXCEPT ![p] = SubSeq(@, n + 1, Len(@))]
        /\ pc' = [pc EXCEPT ![p] = IF n = Len(left[p]) THEN "done" ELSE "run"]
    BY DEF Take
  <1>3. /\ c = cmd[p].order /\ t = cmd[p].steps /\ l = left[p] /\ Placed(c, t, l)
        /\ k = Taken(t, l) /\ Len(t) \in Nat /\ DOMAIN t = 1 .. Len(t) /\ Len(l) \in Nat
    BY DEF Runs
  <1>4. /\ pc' \in [Process -> {"idle", "run", "done", "failed"}]
        /\ DOMAIN left' = Process
        /\ \A q \in Process \ {p} : pc'[q] = pc[q] /\ left'[q] = left[q]
    BY <1>1, <1>2 DEF Typed
  <1>5. /\ left'[p] = SubSeq(l, n + 1, Len(l))
        /\ pc'[p] = IF n = Len(l) THEN "done" ELSE "run"
    BY <1>1, <1>2, <1>3 DEF Typed
  <1>6. /\ Placed(c, t, left'[p]) /\ Len(left'[p]) = Len(l) - n
        /\ Taken(t, left'[p]) = k + n
    BY <1>3, <1>5, Remaining
  <1>7. /\ cmd'[p].order = c /\ cmd'[p].steps = t /\ Far(p)' = k + n
        /\ (pc'[p] = "done" <=> Len(left'[p]) = 0)
    BY <1>3, <1>5, <1>6 DEF Far
  <1>8. Right(p)'
    BY <1>3, <1>6, <1>7 DEF Right
  <1> QED
    BY <1>4, <1>8

(* A step that ends the command.                                           *)
LEMMA Quits ==
    ASSUME AccountsInv, NEW p \in Process, pc[p] = "run",
           NEW c, NEW t, NEW l, NEW k, Runs(p, c, t, l, k),
           NEW how \in {"failed", "idle"}, Quit(p, how), cmd' = cmd,
           ~overtaken'[p] /\ logged'[p] => Repeats(c, t, Len(t), db')
    PROVE  /\ Right(p)'
           /\ pc' \in [Process -> {"idle", "run", "done", "failed"}]
           /\ DOMAIN left' = Process
           /\ \A q \in Process \ {p} : pc'[q] = pc[q] /\ left'[q] = left[q]
  <1>1. Typed
    BY DEF AccountsInv
  <1>2. left' = [left EXCEPT ![p] = <<>>] /\ pc' = [pc EXCEPT ![p] = how]
    BY DEF Quit
  <1>3. /\ c = cmd[p].order /\ t = cmd[p].steps
        /\ Len(t) \in Nat /\ DOMAIN t = 1 .. Len(t)
    BY DEF Runs
  <1>4. /\ pc' \in [Process -> {"idle", "run", "done", "failed"}]
        /\ DOMAIN left' = Process
        /\ \A q \in Process \ {p} : pc'[q] = pc[q] /\ left'[q] = left[q]
        /\ pc'[p] = how
    BY <1>1, <1>2 DEF Typed
  <1>5. Right(p)'
    BY <1>3, <1>4 DEF Right, Under
  <1> QED
    BY <1>4, <1>5

(* The step before an audit row is no closing step.                        *)
LEMMA NotLogged ==
    ASSUME NEW c, NEW t, NEW k \in Nat, Ordered(c, t, k + 1), t[k + 1] \in Statements,
           NEW w \in Closing
    PROVE  ~Past(t, k, w)
  <1>1. \A j \in 1 .. (k + 1) - 1 : t[j] \notin Closing
    BY DEF Ordered
  <1>2. (k + 1) - 1 = k
    OBVIOUS
  <1> QED
    BY <1>1, <1>2 DEF Past

LEMMA KeyOn ==
    ASSUME NEW c, NEW t, NEW k \in Nat, NEW K, KeyIn(c, t, k, K), t[k + 1] # "key"
    PROVE  KeyIn(c, t, k + 1, K)
  BY PastOne DEF KeyIn

LEMMA LogsOn ==
    ASSUME NEW c, NEW t, NEW k \in Nat, NEW b, NEW n, Logs(c, t, k, b, n), t[k + 1] # "audit"
    PROVE  Logs(c, t, k + 1, b, n)
  BY PastOne DEF Logs

LEMMA Position ==
    ASSUME NEW p, NEW c, NEW t, NEW l, NEW k, Runs(p, c, t, l, k)
    PROVE  /\ t[k + 1] = Head(left[p]) /\ k \in Nat /\ k + 1 \in 1 .. Len(t) /\ Len(t) \in Nat
           /\ Len(l) \in Nat /\ 1 \in 1 .. Len(l) /\ Ordered(c, t, k + 1)
           /\ k = Len(t) - Len(l)
  <1>1. /\ l = left[p] /\ Head(l) = t[k + 1]
        /\ k \in Nat /\ Len(t) \in Nat /\ Len(l) \in Nat /\ Len(l) # 0
        /\ k + 1 \in 1 .. Len(t) /\ Ordered(c, t, k + 1) /\ k = Len(t) - Len(l)
    BY DEF Runs
  <1>2. 1 \in 1 .. Len(l)
    BY <1>1
  <1> QED
    BY <1>1, <1>2, Zenon

LEMMA Overtakes ==
    ASSUME Typed, NEW p \in Process, NEW b \in BOOLEAN,
           overtaken' = IF b THEN overtaken ELSE Others(p)
    PROVE  /\ overtaken' \in [Process -> BOOLEAN] /\ overtaken'[p] = overtaken[p]
           /\ \A q \in Process \ {p} : overtaken'[q] \/ (b /\ overtaken'[q] = overtaken[q])
  <1>1. overtaken \in [Process -> BOOLEAN]
    BY DEF Typed
  <1>2. CASE b
    BY <1>1, <1>2
  <1>3. CASE ~b
    <2>1. overtaken' = [q \in Process |-> overtaken[q] \/ q # p]
      BY <1>3 DEF Others
    <2>2. overtaken' \in [Process -> BOOLEAN]
      BY <1>1, <2>1
    <2>3. overtaken'[p] = overtaken[p]
      <3>1. overtaken'[p] = (overtaken[p] \/ p # p)
        BY <2>1, Zenon
      <3> QED
        BY <1>1, <2>2, <3>1
    <2>4. \A q \in Process \ {p} : overtaken'[q]
      BY <2>1
    <2> QED
      BY <2>2, <2>3, <2>4
  <1> QED
    BY <1>2, <1>3

LEMMA ConfirmIsRight ==
    ASSUME AccountsInv, NEW p \in Process, Confirm(p)
    PROVE  StepRight(p)
  <1>1. /\ pc[p] = "run" /\ Head(left[p]) = "confirm"
        /\ Take(p, 1) \/ Quit(p, "failed")
        /\ UNCHANGED <<db, keys, mail, file, served, cmd, list, logged, warned, overtaken,
                       faults>>
    BY DEF Confirm, At, system
  <1>2. PICK c, t, l, k : Runs(p, c, t, l, k)
    BY <1>1, Running
  <1>3. Typed /\ IsTables(db) /\ KeyBeforeRow
    BY DEF AccountsInv
  <1>4. t[k + 1] = "confirm" /\ k \in Nat /\ 1 \in 1 .. Len(l) /\ Len(t) \in Nat
    BY <1>1, <1>2, Position
  <1>5. /\ Right(p)'
        /\ pc' \in [Process -> {"idle", "run", "done", "failed"}]
        /\ DOMAIN left' = Process
        /\ \A q \in Process \ {p} : pc'[q] = pc[q] /\ left'[q] = left[q]
    <2>1. ~overtaken'[p] /\ logged'[p] => Repeats(c, t, Len(t), db')
      BY <1>1, <1>2 DEF Runs
    <2>2. CASE Take(p, 1)
      <3>1. KeyIn(c, t, k + 1, keys')
        BY <1>1, <1>2, <1>4, KeyOn DEF Runs
      <3>2. Logs(c, t, k + 1, logged'[p], faults')
        BY <1>1, <1>2, <1>4, LogsOn DEF Runs
      <3>3. ~overtaken'[p] => Repeats(c, t, k + 1, db')
        <4>1. t[k + 1] \notin Statements
          BY <1>4 DEF Statements
        <4> QED
          BY <1>1, <1>2, <1>4, <4>1, RepeatsOn DEF Runs
      <3>4. ~overtaken'[p] => Checked(c, t, k + 1, db', mail')
        BY <1>1, <1>2, <1>4, CheckedOn DEF Runs
      <3>5. ~overtaken'[p] /\ ~warned'[p] =>
               Mirrors(t, k + 1, db', list'[p], file', served')
        BY <1>1, <1>2, <1>4, MirrorsOn DEF Runs
      <3> QED
        BY <1>1, <1>2, <1>4, <2>1, <2>2, <3>1, <3>2, <3>3, <3>4, <3>5, GoesOn
    <2>3. CASE Quit(p, "failed")
      BY <1>1, <1>2, <2>1, <2>3, Quits
    <2> QED
      BY <1>1, <2>2, <2>3
  <1>6. Typed' /\ IsTables(db)' /\ KeyBeforeRow'
    BY <1>1, <1>3, <1>5 DEF Typed, KeyBeforeRow, Domains
  <1>7. \A q \in Process \ {p} : Same(q) /\ Passed(q)
    BY <1>1, <1>3, <1>5 DEF Same, Passed, Typed
  <1> QED
    BY <1>5, <1>6, <1>7 DEF StepRight

LEMMA CrashIsRight ==
    ASSUME AccountsInv, NEW p \in Process, Crash(p)
    PROVE  StepRight(p)
  <1>1. /\ pc[p] = "run" /\ Quit(p, "idle") /\ faults' = faults + 1
        /\ UNCHANGED <<db, keys, mail, file, served, cmd, list, logged, warned, overtaken>>
    BY DEF Crash, system, Fault
  <1>2. PICK c, t, l, k : Runs(p, c, t, l, k)
    BY <1>1, Running
  <1>3. Typed /\ IsTables(db) /\ KeyBeforeRow
    BY DEF AccountsInv
  <1>4. ~overtaken'[p] /\ logged'[p] => Repeats(c, t, Len(t), db')
    BY <1>1, <1>2 DEF Runs
  <1>5. /\ Right(p)'
        /\ pc' \in [Process -> {"idle", "run", "done", "failed"}]
        /\ DOMAIN left' = Process
        /\ \A q \in Process \ {p} : pc'[q] = pc[q] /\ left'[q] = left[q]
    BY <1>1, <1>2, <1>4, Quits
  <1>6. Typed' /\ IsTables(db)' /\ KeyBeforeRow'
    BY <1>1, <1>3, <1>5 DEF Typed, KeyBeforeRow, Domains
  <1>7. \A q \in Process \ {p} : Same(q) /\ Passed(q)
    BY <1>1, <1>3, <1>5 DEF Same, Passed, Typed
  <1> QED
    BY <1>5, <1>6, <1>7 DEF StepRight

-----------------------------------------------------------------------------
(* What was done stays done: a statement undoes none of those the same     *)
(* command made before it.                                                 *)
LEMMA ProviderKeepsRow ==
    ASSUME NEW c, Given(c), NEW d, d \in [DOMAIN d -> DomainRow], CreateDomainOf(d, c) = d
    PROVE  CreateDomainOf(SetDomainDNSProviderOf(d, c), c) = SetDomainDNSProviderOf(d, c)
  <1>1. PICK x, v : x = c.dom /\ v = c.provider
    OBVIOUS
  <1>2. /\ x \in DOMAIN d /\ d[x] = Fresh(d, c)
    <2>1. PICK w : w = Fresh(d, c)
      OBVIOUS
    <2>2. Put(d, x, w) = d
      BY <1>1, <2>1, Zenon DEF CreateDomainOf
    <2>3. DOMAIN Put(d, x, w) = DOMAIN d \union {x} /\ Put(d, x, w)[x] = w
      BY DEF Put
    <2> QED
      BY <2>1, <2>2, <2>3
  <1>3. PICK e : e = [d EXCEPT ![x].provider = v]
    OBVIOUS
  <1>4. e = SetDomainDNSProviderOf(d, c)
    BY <1>1, <1>2, <1>3 DEF SetDomainDNSProviderOf
  <1>5. d[x] \in DomainRow
    BY <1>2
  <1>6. /\ DOMAIN e = DOMAIN d /\ \A y \in DOMAIN d : y # x => e[y] = d[y]
        /\ e = [y \in DOMAIN e |-> e[y]]
        /\ e[x] = [active |-> TRUE, selector |-> c.selector, provider |-> v]
    <2>1. /\ DOMAIN e = DOMAIN d /\ \A y \in DOMAIN d : y # x => e[y] = d[y]
          /\ e = [y \in DOMAIN e |-> e[y]]
          /\ e[x] = [d[x] EXCEPT !.provider = v]
      BY <1>2, <1>3
    <2>2. PICK w : d[x] = [active |-> TRUE, selector |-> c.selector, provider |-> w]
      BY <1>2 DEF Fresh
    <2>3. e[x] = [active |-> TRUE, selector |-> c.selector, provider |-> v]
      <3>1. PICK b : b = TRUE
        OBVIOUS
      <3>2. e[x] = [[active |-> b, selector |-> c.selector, provider |-> w]
                       EXCEPT !.provider = v]
        BY <2>1, <2>2, <3>1, Zenon
      <3>3. e[x] = [active |-> b, selector |-> c.selector, provider |-> v]
        BY <3>2, SMT
      <3> QED
        BY <3>1, <3>3, Zenon
    <2> QED
      BY <2>1, <2>3, Zenon
  <1>7. Fresh(e, c) = e[x]
    BY <1>1, <1>2, <1>6 DEF Fresh
  <1>8. Put(e, x, e[x]) = e
    BY <1>2, <1>6 DEF Put
  <1> QED
    BY <1>1, <1>4, <1>7, <1>8 DEF CreateDomainOf

LEMMA AddStaysMade ==
    ASSUME NEW c \in Command, NEW t, IsTables(t), Executed("CreateDomain", t, c) = t
    PROVE  LET r == Executed("SetDomainDNSProvider", t, c)
           IN Executed("CreateDomain", r, c) = r
  <1>1. PICK d, m, a, l : t = Tables(d, m, a, l)
    BY DEF IsTables
  <1>2. d \in [DOMAIN d -> DomainRow] /\ t.domain = d
    BY <1>1, Parts
  <1>3. CreateDomainOf(d, c) = d
    <2>1. t = Tables(CreateDomainOf(d, c), m, a, l)
      <3>1. Executed("CreateDomain", Tables(d, m, a, l), c) =
                Tables(CreateDomainOf(d, c), m, a, l)
        BY ExecuteCreateDomain
      <3> QED
        BY <1>1, <3>1
    <2> QED
      BY <1>2, <2>1 DEF Tables
  <1>4. PICK e : e = SetDomainDNSProviderOf(d, c)
    OBVIOUS
  <1>5. CreateDomainOf(e, c) = e
    BY <1>2, <1>3, <1>4, Givens, ProviderKeepsRow
  <1>6. Executed("SetDomainDNSProvider", Tables(d, m, a, l), c) = Tables(e, m, a, l)
    <2>1. Executed("SetDomainDNSProvider", Tables(d, m, a, l), c) =
              Tables(SetDomainDNSProviderOf(d, c), m, a, l)
      BY ExecuteSetDomainDNSProvider
    <2> QED
      BY <1>4, <2>1
  <1>7. Executed("CreateDomain", Tables(e, m, a, l), c) = Tables(e, m, a, l)
    <2>1. Executed("CreateDomain", Tables(e, m, a, l), c) =
              Tables(CreateDomainOf(e, c), m, a, l)
      BY ExecuteCreateDomain
    <2> QED
      BY <1>5, <2>1
  <1> QED
    BY <1>1, <1>6, <1>7, Zenon

LEMMA AppsStayGone ==
    ASSUME NEW c \in Command, NEW t, IsTables(t),
           Executed("DeleteAppPasswordsByMailbox", t, c) = t
    PROVE  LET r == Executed("DeleteMailbox", t, c)
           IN Executed("DeleteAppPasswordsByMailbox", r, c) = r
  <1>1. PICK d, m, a, l : t = Tables(d, m, a, l)
    BY DEF IsTables
  <1>2. DeleteAppPasswordsByMailboxOf(a, c) = a
    <2>1. t = Tables(d, m, DeleteAppPasswordsByMailboxOf(a, c), l)
      <3>1. Executed("DeleteAppPasswordsByMailbox", Tables(d, m, a, l), c) =
                Tables(d, m, DeleteAppPasswordsByMailboxOf(a, c), l)
        BY ExecuteDeleteAppPasswordsByMailbox
      <3> QED
        BY <1>1, <3>1
    <2> QED
      BY <1>1, <2>1 DEF Tables
  <1>3. PICK e : e = DeleteMailboxOf(m, c)
    OBVIOUS
  <1>4. Executed("DeleteMailbox", Tables(d, m, a, l), c) = Tables(d, e, a, l)
    <2>1. Executed("DeleteMailbox", Tables(d, m, a, l), c) =
              Tables(d, DeleteMailboxOf(m, c), a, l)
      BY ExecuteDeleteMailbox
    <2> QED
      BY <1>3, <2>1
  <1>5. Executed("DeleteAppPasswordsByMailbox", Tables(d, e, a, l), c) = Tables(d, e, a, l)
    <2>1. Executed("DeleteAppPasswordsByMailbox", Tables(d, e, a, l), c) =
              Tables(d, e, DeleteAppPasswordsByMailboxOf(a, c), l)
      BY ExecuteDeleteAppPasswordsByMailbox
    <2> QED
      BY <1>2, <2>1
  <1> QED
    BY <1>1, <1>4, <1>5, Zenon

LEMMA MadeStaysMade ==
    ASSUME NEW c \in Command, NEW t, NEW k \in Nat, Ordered(c, t, k + 1),
           t[k + 1] \in Statements, NEW d, IsTables(d), Repeats(c, t, k, d),
           NEW e, e = Executed(t[k + 1], d, c)
    PROVE  Repeats(c, t, k + 1, e)
  <1>1. Executed(t[k + 1], e, c) = e
    BY After DEF Effects
  <1>2. ASSUME NEW i \in 1 .. k, t[i] \in Statements
        PROVE  Executed(t[i], e, c) = e
    <2>1. Executed(t[i], d, c) = d
      BY <1>2 DEF Repeats
    <2>2. i \in 1 .. (k + 1) - 1
      OBVIOUS
    <2>3. \/ t[i] = "CreateDomain" /\ t[k + 1] = "SetDomainDNSProvider"
          \/ t[i] = "DeleteAppPasswordsByMailbox" /\ t[k + 1] = "DeleteMailbox"
      BY <1>2, <2>2 DEF Ordered
    <2>4. CASE t[i] = "CreateDomain" /\ t[k + 1] = "SetDomainDNSProvider"
      <3>1. Executed("CreateDomain", d, c) = d /\ e = Executed("SetDomainDNSProvider", d, c)
        BY <2>1, <2>4
      <3>2. Executed("CreateDomain", e, c) = e
        BY <3>1, AddStaysMade
      <3> QED
        BY <2>4, <3>2
    <2>5. CASE t[i] = "DeleteAppPasswordsByMailbox" /\ t[k + 1] = "DeleteMailbox"
      <3>1. /\ Executed("DeleteAppPasswordsByMailbox", d, c) = d
            /\ e = Executed("DeleteMailbox", d, c)
        BY <2>1, <2>5
      <3>2. Executed("DeleteAppPasswordsByMailbox", e, c) = e
        BY <3>1, AppsStayGone
      <3> QED
        BY <2>5, <3>2
    <2> QED
      BY <2>3, <2>4, <2>5
  <1>3. Repeats(c, t, k, e)
    BY <1>2 DEF Repeats
  <1> QED
    BY <1>1, <1>3, RepeatsOn

-----------------------------------------------------------------------------
(* A statement keeps what its command checked, and every row it writes has *)
(* its key: the command made the key first.                                *)
LEMMA StaysChecked ==
    ASSUME NEW c \in Command, NEW t, NEW k \in Nat, Ordered(c, t, k + 1),
           Len(t) \in Nat, t[k + 1] \in Statements, NEW d, IsTables(d), NEW m,
           Checked(c, t, k, d, m), NEW e, e = Executed(t[k + 1], d, c)
    PROVE  Checked(c, t, k + 1, e, m)
  <1>1. PICK s : s = t[k + 1]
    OBVIOUS
  <1>2. Effects(s, d, e, c)
    BY <1>1, After
  <1>3. <<c.op, s>> \in Makes /\ s \in Statements
    BY <1>1 DEF Ordered
  <1>4. c.op = "domain.remove" => e.mailbox = d.mailbox
    <2>1. c.op = "domain.remove" => s \notin OnMailbox
      BY <1>3 DEF Makes, Alone, Asked, OnMailbox
    <2> QED
      BY <1>2, <2>1 DEF Effects
  <1>5. c.op = "mailbox.add" => e.domain = d.domain
    <2>1. c.op = "mailbox.add" => s \notin OnDomain
      BY <1>3 DEF Makes, Alone, Asked, OnDomain
    <2> QED
      BY <1>2, <2>1 DEF Effects
  <1>6. c.op = "mailbox.app-password.add" => e.mailbox = d.mailbox
    <2>1. c.op = "mailbox.app-password.add" => s \notin OnMailbox
      BY <1>3 DEF Makes, Alone, Asked, OnMailbox
    <2> QED
      BY <1>2, <2>1 DEF Effects
  <1>7. Checked(c, t, k, e, m)
    BY <1>4, <1>5, <1>6 DEF Checked
  <1>8. t[k + 1] # "purge"
    BY DEF Statements
  <1> QED
    BY <1>7, <1>8, CheckedOn

LEMMA RowsHaveKeys ==
    ASSUME KeyBeforeRow, NEW c \in Command, NEW t, NEW k \in Nat, Ordered(c, t, k + 1),
           t[k + 1] \in Statements, IsTables(db), KeyIn(c, t, k, keys),
           db' = Executed(t[k + 1], db, c), keys' = keys
    PROVE  KeyBeforeRow'
  <1>1. PICK s : s = t[k + 1]
    OBVIOUS
  <1>2. Effects(s, db, db', c)
    BY <1>1, After
  <1>3. ASSUME NEW x \in DOMAIN db'.domain, db'.domain[x].selector # NoSelector
        PROVE  <<x, db'.domain[x].selector>> \in keys
    <2>1. CASE s \notin OnDomain
      <3>1. db'.domain = db.domain
        BY <1>2, <2>1 DEF Effects
      <3> QED
        BY <1>3, <3>1 DEF KeyBeforeRow, Domains
    <2>2. CASE s \in OnDomain
      <3>1. DomainsAfter(s, db.domain, db'.domain, c)
        BY <1>2, <2>2 DEF Effects
      <3>2. \/ x \in DOMAIN db.domain /\ db'.domain[x].selector = db.domain[x].selector
            \/ /\ s \in {"CreateDomain", "SetDKIMSelector"}
               /\ x = c.dom /\ db'.domain[x].selector = c.selector
        BY <3>1 DEF DomainsAfter
      <3>3. CASE x \in DOMAIN db.domain /\ db'.domain[x].selector = db.domain[x].selector
        BY <1>3, <3>3 DEF KeyBeforeRow, Domains
      <3>4. CASE /\ s \in {"CreateDomain", "SetDKIMSelector"}
                 /\ x = c.dom /\ db'.domain[x].selector = c.selector
        <4>1. Past(t, k, "key")
          <5>1. Past(t, (k + 1) - 1, "key")
            BY <1>1, <3>4 DEF Ordered
          <5>2. (k + 1) - 1 = k
            OBVIOUS
          <5> QED
            BY <5>1, <5>2
        <4>2. c.op \in {"domain.add", "domain.set-dkim"}
          <5>1. <<c.op, s>> \in Makes
            BY <1>1 DEF Ordered
          <5> QED
            BY <3>4, <5>1 DEF Makes, Alone, Asked
        <4>3. <<c.dom, c.selector>> \in keys
          BY <4>1, <4>2 DEF KeyIn
        <4> QED
          BY <3>4, <4>3
      <3> QED
        BY <3>2, <3>3, <3>4
    <2> QED
      BY <2>1, <2>2
  <1> QED
    BY <1>3 DEF KeyBeforeRow, Domains

LEMMA NothingPut ==
    ASSUME NEW c, NEW t, NEW k \in Nat, Ordered(c, t, k + 1), t[k + 1] \in Statements,
           NEW d, NEW l, NEW f, NEW s
    PROVE  Mirrors(t, k + 1, d, l, f, s)
  <1>1. ~Past(t, k, "put-auto") /\ ~Past(t, k, "put-sts")
    BY NotLogged DEF Closing
  <1>2. t[k + 1] \notin {"list-auto", "put-auto", "list-sts", "put-sts"}
    BY DEF Statements
  <1>3. ~Past(t, k + 1, "put-auto") /\ ~Past(t, k + 1, "put-sts")
    BY <1>1, <1>2, PastOne
  <1> QED
    BY <1>2, <1>3 DEF Mirrors

LEMMA ExecuteIsRight ==
    ASSUME AccountsInv, NEW p \in Process, Execute(p)
    PROVE  StepRight(p)
  <1>1. PICK c, t, l, k : Runs(p, c, t, l, k)
    BY Running DEF Execute, At
  <1>2. PICK s : s = Head(left[p])
    OBVIOUS
  <1>3. PICK after : after = Executed(s, db, c)
    OBVIOUS
  <1>4. /\ pc[p] = "run" /\ s \in Statements
        /\ \/ db' = after /\ faults' = faults /\ Take(p, 1)
           \/ db' \in {db, after} /\ faults' \in {faults, faults + 1} /\ Quit(p, "failed")
        /\ overtaken' = IF db' = db THEN overtaken ELSE Others(p)
        /\ UNCHANGED <<keys, mail, file, served, cmd, list, logged, warned>>
    <2>1. c = cmd[p].order
      BY <1>1 DEF Runs
    <2> QED
      BY <1>2, <1>3, <2>1 DEF Execute, At, Fault, NoFault
  <1>5. Typed /\ IsTables(db) /\ KeyBeforeRow
    BY DEF AccountsInv
  <1>6. /\ t[k + 1] = s /\ k \in Nat /\ 1 \in 1 .. Len(l) /\ Len(t) \in Nat
        /\ Ordered(c, t, k + 1)
    BY <1>1, <1>2, Position
  <1>7. c \in Command
    BY <1>1 DEF Runs
  <1>8. db' \in {db, after}
    BY <1>4
  <1>9. IsTables(db')
    <2>1. IsTables(after)
      BY <1>3, <1>4, <1>5, <1>7, After DEF Effects
    <2> QED
      BY <1>5, <1>8, <2>1
  <1>10. KeyBeforeRow'
    <2>1. CASE db' = db
      BY <1>4, <1>5, <2>1 DEF KeyBeforeRow, Domains
    <2>2. CASE db' = after
      <3>1. KeyIn(c, t, k, keys) /\ keys' = keys
        BY <1>1, <1>4 DEF Runs
      <3> QED
        BY <1>3, <1>4, <1>5, <1>6, <1>7, <2>2, <3>1, RowsHaveKeys
    <2> QED
      BY <1>8, <2>1, <2>2
  <1>11. ~logged[p] /\ ~logged'[p]
    <2>1. ~Past(t, k, "audit")
      BY <1>4, <1>6, NotLogged DEF Closing
    <2>2. Logs(c, t, k, logged[p], faults)
      BY <1>1 DEF Runs
    <2> QED
      BY <1>4, <2>1, <2>2 DEF Logs
  <1>12. /\ overtaken' \in [Process -> BOOLEAN] /\ overtaken'[p] = overtaken[p]
         /\ \A q \in Process \ {p} :
               overtaken'[q] \/ (db' = db /\ overtaken'[q] = overtaken[q])
    <2>1. PICK b \in BOOLEAN : b = (db' = db)
      OBVIOUS
    <2>2. overtaken' = IF b THEN overtaken ELSE Others(p)
      BY <1>4, <2>1
    <2>3. /\ overtaken' \in [Process -> BOOLEAN] /\ overtaken'[p] = overtaken[p]
          /\ \A q \in Process \ {p} : overtaken'[q] \/ (b /\ overtaken'[q] = overtaken[q])
      BY <1>5, <2>2, Overtakes
    <2> QED
      BY <2>1, <2>3
  <1>13. /\ Right(p)'
         /\ pc' \in [Process -> {"idle", "run", "done", "failed"}]
         /\ DOMAIN left' = Process
         /\ \A q \in Process \ {p} : pc'[q] = pc[q] /\ left'[q] = left[q]
    <2>1. CASE db' = after /\ faults' = faults /\ Take(p, 1)
      <3>1. KeyIn(c, t, k + 1, keys')
        <4>1. t[k + 1] # "key"
          BY <1>4, <1>6 DEF Statements
        <4> QED
          BY <1>1, <1>4, <1>6, <4>1, KeyOn DEF Runs
      <3>2. Logs(c, t, k + 1, logged'[p], faults')
        <4>1. t[k + 1] # "audit"
          BY <1>4, <1>6 DEF Statements
        <4> QED
          BY <1>1, <1>4, <1>6, <2>1, <4>1, LogsOn DEF Runs
      <3>3. ASSUME ~overtaken'[p]
            PROVE  Repeats(c, t, k + 1, db') /\ Checked(c, t, k + 1, db', mail')
        <4>1. Repeats(c, t, k, db) /\ Checked(c, t, k, db, mail)
          BY <1>1, <1>12, <3>3 DEF Runs
        <4>2. db' = Executed(t[k + 1], db, c) /\ t[k + 1] \in Statements /\ mail' = mail
          BY <1>3, <1>4, <1>6, <2>1
        <4> QED
          BY <1>5, <1>6, <1>7, <4>1, <4>2, MadeStaysMade, StaysChecked
      <3>4. Mirrors(t, k + 1, db', list'[p], file', served')
        <4>1. t[k + 1] \in Statements
          BY <1>4, <1>6
        <4> QED
          BY <1>6, <4>1, NothingPut
      <3> QED
        BY <1>1, <1>4, <1>6, <1>11, <2>1, <3>1, <3>2, <3>3, <3>4, GoesOn
    <2>2. CASE Quit(p, "failed")
      BY <1>1, <1>4, <1>11, <2>2, Quits
    <2> QED
      BY <1>4, <2>1, <2>2
  <1>14. Typed'
    BY <1>4, <1>5, <1>12, <1>13 DEF Typed
  <1>15. \A q \in Process \ {p} : Same(q) /\ Passed(q)
    BY <1>4, <1>5, <1>12, <1>13 DEF Same, Passed, Typed
  <1> QED
    BY <1>9, <1>10, <1>13, <1>14, <1>15 DEF StepRight

LEMMA GenerateDKIMIsRight ==
    ASSUME AccountsInv, NEW p \in Process, GenerateDKIM(p)
    PROVE  StepRight(p)
  <1>1. PICK c, t, l, k : Runs(p, c, t, l, k)
    BY Running DEF GenerateDKIM, At
  <1>2. /\ pc[p] = "run" /\ Head(left[p]) = "key"
        /\ \/ keys' = keys \union {KeyOf(p)} /\ faults' = faults /\ Take(p, 1)
           \/ keys \subseteq keys' /\ faults' = faults + 1 /\ Quit(p, "failed")
        /\ UNCHANGED <<db, mail, file, served, cmd, list, logged, warned, overtaken>>
    BY DEF GenerateDKIM, At, Fault, NoFault
  <1>3. Typed /\ IsTables(db) /\ KeyBeforeRow
    BY DEF AccountsInv
  <1>4. t[k + 1] = "key" /\ k \in Nat /\ 1 \in 1 .. Len(l) /\ Len(t) \in Nat
    BY <1>1, <1>2, Position
  <1>5. ~overtaken'[p] /\ logged'[p] => Repeats(c, t, Len(t), db')
    BY <1>1, <1>2 DEF Runs
  <1>6. /\ Right(p)'
        /\ pc' \in [Process -> {"idle", "run", "done", "failed"}]
        /\ DOMAIN left' = Process
        /\ \A q \in Process \ {p} : pc'[q] = pc[q] /\ left'[q] = left[q]
    <2>1. CASE keys' = keys \union {KeyOf(p)} /\ faults' = faults /\ Take(p, 1)
      <3>1. KeyIn(c, t, k + 1, keys')
        <4>1. c = cmd[p].order
          BY <1>1 DEF Runs
        <4>2. c.op # "domain.regen-dkim" => KeyOf(p) = <<c.dom, c.selector>>
          BY <4>1 DEF KeyOf
        <4> QED
          BY <2>1, <4>2 DEF KeyIn
      <3>2. Logs(c, t, k + 1, logged'[p], faults')
        BY <1>1, <1>2, <1>4, <2>1, LogsOn DEF Runs
      <3>3. ~overtaken'[p] => Repeats(c, t, k + 1, db')
        <4>1. t[k + 1] \notin Statements
          BY <1>4 DEF Statements
        <4> QED
          BY <1>1, <1>2, <1>4, <4>1, RepeatsOn DEF Runs
      <3>4. ~overtaken'[p] => Checked(c, t, k + 1, db', mail')
        BY <1>1, <1>2, <1>4, CheckedOn DEF Runs
      <3>5. ~overtaken'[p] /\ ~warned'[p] =>
               Mirrors(t, k + 1, db', list'[p], file', served')
        BY <1>1, <1>2, <1>4, MirrorsOn DEF Runs
      <3> QED
        BY <1>1, <1>2, <1>4, <1>5, <2>1, <3>1, <3>2, <3>3, <3>4, <3>5, GoesOn
    <2>2. CASE Quit(p, "failed")
      BY <1>1, <1>2, <1>5, <2>2, Quits
    <2> QED
      BY <1>2, <2>1, <2>2
  <1>7. keys \subseteq keys'
    BY <1>2
  <1>8. Typed' /\ IsTables(db)' /\ KeyBeforeRow'
    BY <1>2, <1>3, <1>6, <1>7 DEF Typed, KeyBeforeRow, Domains
  <1>9. \A q \in Process \ {p} : Same(q) /\ Passed(q)
    BY <1>2, <1>3, <1>6, <1>7 DEF Same, Passed, Typed
  <1> QED
    BY <1>6, <1>8, <1>9 DEF StepRight

LEMMA PurgeIsRight ==
    ASSUME AccountsInv, NEW p \in Process, Purge(p)
    PROVE  StepRight(p)
  <1>1. PICK c, t, l, k : Runs(p, c, t, l, k)
    BY Running DEF Purge, At
  <1>2. c = cmd[p].order
    BY <1>1 DEF Runs
  <1>3. /\ pc[p] = "run" /\ Head(left[p]) = "purge"
        /\ \/ mail' = mail \ {c.addr} /\ faults' = faults /\ Take(p, 1)
           \/ faults' \in {faults, faults + 1} /\ Quit(p, "failed")
        /\ overtaken' = IF mail' = mail THEN overtaken ELSE Others(p)
        /\ UNCHANGED <<db, keys, file, served, cmd, list, logged, warned>>
    BY <1>2 DEF Purge, At, Fault, NoFault
  <1>4. Typed /\ IsTables(db) /\ KeyBeforeRow
    BY DEF AccountsInv
  <1>5. t[k + 1] = "purge" /\ k \in Nat /\ 1 \in 1 .. Len(l) /\ Len(t) \in Nat
    BY <1>1, <1>3, Position
  <1>6. /\ overtaken' \in [Process -> BOOLEAN] /\ overtaken'[p] = overtaken[p]
        /\ \A q \in Process \ {p} :
              overtaken'[q] \/ (mail' = mail /\ overtaken'[q] = overtaken[q])
    <2>1. PICK b \in BOOLEAN : b = (mail' = mail)
      OBVIOUS
    <2>2. overtaken' = IF b THEN overtaken ELSE Others(p)
      BY <1>3, <2>1
    <2>3. /\ overtaken' \in [Process -> BOOLEAN] /\ overtaken'[p] = overtaken[p]
          /\ \A q \in Process \ {p} : overtaken'[q] \/ (b /\ overtaken'[q] = overtaken[q])
      BY <1>4, <2>2, Overtakes
    <2> QED
      BY <2>1, <2>3
  <1>7. ~overtaken'[p] /\ logged'[p] => Repeats(c, t, Len(t), db')
    BY <1>1, <1>3, <1>6 DEF Runs
  <1>8. /\ Right(p)'
        /\ pc' \in [Process -> {"idle", "run", "done", "failed"}]
        /\ DOMAIN left' = Process
        /\ \A q \in Process \ {p} : pc'[q] = pc[q] /\ left'[q] = left[q]
    <2>1. CASE mail' = mail \ {c.addr} /\ faults' = faults /\ Take(p, 1)
      <3>1. KeyIn(c, t, k + 1, keys')
        BY <1>1, <1>3, <1>5, KeyOn DEF Runs
      <3>2. Logs(c, t, k + 1, logged'[p], faults')
        BY <1>1, <1>3, <1>5, <2>1, LogsOn DEF Runs
      <3>3. ~overtaken'[p] => Repeats(c, t, k + 1, db')
        <4>1. t[k + 1] \notin Statements
          BY <1>5 DEF Statements
        <4> QED
          BY <1>1, <1>3, <1>5, <1>6, <4>1, RepeatsOn DEF Runs
      <3>4. ~overtaken'[p] => Checked(c, t, k + 1, db', mail')
        BY <1>1, <1>3, <1>6, <2>1 DEF Runs, Checked
      <3>5. ~overtaken'[p] /\ ~warned'[p] =>
               Mirrors(t, k + 1, db', list'[p], file', served')
        BY <1>1, <1>3, <1>5, <1>6, MirrorsOn DEF Runs
      <3> QED
        BY <1>1, <1>3, <1>5, <1>7, <2>1, <3>1, <3>2, <3>3, <3>4, <3>5, GoesOn
    <2>2. CASE Quit(p, "failed")
      BY <1>1, <1>3, <1>7, <2>2, Quits
    <2> QED
      BY <1>3, <2>1, <2>2
  <1>9. Typed' /\ IsTables(db)' /\ KeyBeforeRow'
    BY <1>3, <1>4, <1>6, <1>8 DEF Typed, KeyBeforeRow, Domains
  <1>10. \A q \in Process \ {p} : Same(q) /\ Passed(q)
    BY <1>3, <1>4, <1>6, <1>8 DEF Same, Passed, Typed
  <1> QED
    BY <1>8, <1>9, <1>10 DEF StepRight

(* The audit row comes after all of the statements.                        *)
LEMMA AllMade ==
    ASSUME NEW c, NEW t, Form(c, t), NEW k \in Nat, t[k + 1] = "audit", NEW d,
           Repeats(c, t, k, d), Len(t) \in Nat
    PROVE  Repeats(c, t, Len(t), d)
  <1>1. ASSUME NEW i \in 1 .. Len(t), t[i] \in Statements
        PROVE  i \in 1 .. k
    <2>1. \A j \in 1 .. i - 1 : t[j] \notin Closing
      BY <1>1, Order DEF Ordered
    <2>2. k + 1 \notin 1 .. i - 1
      BY <2>1 DEF Closing
    <2>3. i # k + 1
      BY <1>1 DEF Statements
    <2> QED
      BY <2>2, <2>3
  <1> QED
    BY <1>1 DEF Repeats

LEMMA RecordIsRight ==
    ASSUME AccountsInv, NEW p \in Process, Record(p)
    PROVE  StepRight(p)
  <1>1. PICK c, t, l, k : Runs(p, c, t, l, k)
    BY Running DEF Record, At
  <1>2. c = cmd[p].order
    BY <1>1 DEF Runs
  <1>3. /\ pc[p] = "run" /\ Head(left[p]) = "audit"
        /\ \/ logged' = [logged EXCEPT ![p] = TRUE] /\ faults' = faults /\ Take(p, 1)
           \/ /\ logged' \in {logged, [logged EXCEPT ![p] = TRUE]} /\ faults' = faults + 1
              /\ IF IgnoresAuditError(c) THEN Take(p, 1) ELSE Quit(p, "failed")
        /\ UNCHANGED <<db, keys, mail, file, served, cmd, list, warned, overtaken>>
    BY <1>2 DEF Record, At, Fault, NoFault, system
  <1>4. Typed /\ IsTables(db) /\ KeyBeforeRow
    BY DEF AccountsInv
  <1>5. t[k + 1] = "audit" /\ k \in Nat /\ 1 \in 1 .. Len(l) /\ Len(t) \in Nat
    BY <1>1, <1>3, Position
  <1>6. logged' \in [Process -> BOOLEAN] /\ \A q \in Process \ {p} : logged'[q] = logged[q]
    <2>1. logged' = logged \/ logged' = [logged EXCEPT ![p] = TRUE]
      BY <1>3
    <2> QED
      BY <1>4, <2>1 DEF Typed
  <1>7. ~overtaken'[p] => Repeats(c, t, Len(t), db')
    <2>1. Form(c, t)
      BY <1>1 DEF Runs, Placed
    <2> QED
      BY <1>1, <1>3, <1>5, <2>1, AllMade DEF Runs
  <1>8. /\ Right(p)'
        /\ pc' \in [Process -> {"idle", "run", "done", "failed"}]
        /\ DOMAIN left' = Process
        /\ \A q \in Process \ {p} : pc'[q] = pc[q] /\ left'[q] = left[q]
    <2>1. CASE Take(p, 1)
      <3>1. KeyIn(c, t, k + 1, keys')
        BY <1>1, <1>3, <1>5, KeyOn DEF Runs
      <3>2. Logs(c, t, k + 1, logged'[p], faults')
        <4>1. Past(t, k + 1, "audit")
          BY <1>5 DEF Past
        <4>2. CASE logged' = [logged EXCEPT ![p] = TRUE]
          <5>1. logged'[p]
            BY <1>4, <4>2 DEF Typed
          <5> QED
            BY <4>1, <5>1 DEF Logs
        <4>3. CASE faults' = faults + 1 /\ IgnoresAuditError(c)
          <5>1. faults' > 0
            BY <1>4, <4>3 DEF Typed
          <5> QED
            BY <4>1, <4>3, <5>1 DEF Logs
        <4>4. Quit(p, "failed") => ~Take(p, 1)
          <5>1. Quit(p, "failed") => pc'[p] = "failed"
            BY <1>4 DEF Quit, Typed
          <5>2. Take(p, 1) => pc'[p] \in {"done", "run"}
            BY <1>4 DEF Take, Typed
          <5> QED
            BY <5>1, <5>2
        <4> QED
          BY <1>3, <2>1, <4>2, <4>3, <4>4
      <3>3. ~overtaken'[p] => Repeats(c, t, k + 1, db')
        <4>1. t[k + 1] \notin Statements
          BY <1>5 DEF Statements
        <4> QED
          BY <1>1, <1>3, <1>5, <4>1, RepeatsOn DEF Runs
      <3>4. ~overtaken'[p] => Checked(c, t, k + 1, db', mail')
        BY <1>1, <1>3, <1>5, CheckedOn DEF Runs
      <3>5. ~overtaken'[p] /\ ~warned'[p] =>
               Mirrors(t, k + 1, db', list'[p], file', served')
        BY <1>1, <1>3, <1>5, MirrorsOn DEF Runs
      <3> QED
        BY <1>1, <1>3, <1>5, <1>7, <2>1, <3>1, <3>2, <3>3, <3>4, <3>5, GoesOn
    <2>2. CASE Quit(p, "failed")
      BY <1>1, <1>3, <1>7, <2>2, Quits
    <2> QED
      BY <1>3, <2>1, <2>2
  <1>9. faults' \in Nat /\ faults' >= faults
    BY <1>3, <1>4 DEF Typed
  <1>10. Typed' /\ IsTables(db)' /\ KeyBeforeRow'
    BY <1>3, <1>4, <1>6, <1>8, <1>9 DEF Typed, KeyBeforeRow, Domains
  <1>11. \A q \in Process \ {p} : Same(q) /\ Passed(q)
    BY <1>3, <1>4, <1>6, <1>8, <1>9 DEF Same, Passed, Typed
  <1> QED
    BY <1>8, <1>10, <1>11 DEF StepRight

LEMMA ListDomainsIsRight ==
    ASSUME AccountsInv, NEW p \in Process, ListDomains(p)
    PROVE  StepRight(p)
  <1>1. PICK c, t, l, k : Runs(p, c, t, l, k)
    BY Running DEF ListDomains, At
  <1>2. /\ pc[p] = "run" /\ Head(left[p]) \in {"list-auto", "list-sts"}
        /\ \/ /\ list' = [list EXCEPT ![p] = Listed(p)] /\ faults' = faults /\ Take(p, 1)
              /\ warned' = warned
           \/ /\ faults' = faults + 1 /\ Take(p, 2)
              /\ warned' = [warned EXCEPT ![p] = TRUE] /\ list' = list
        /\ UNCHANGED <<db, keys, mail, file, served, cmd, logged, overtaken>>
    BY DEF ListDomains, At, Fault, NoFault, system
  <1>3. Typed /\ IsTables(db) /\ KeyBeforeRow
    BY DEF AccountsInv
  <1>4. /\ t[k + 1] = Head(left[p]) /\ k \in Nat /\ 1 \in 1 .. Len(l) /\ Len(t) \in Nat
        /\ Ordered(c, t, k + 1) /\ k = Len(t) - Len(l) /\ Len(l) \in Nat
    BY <1>1, Position
  <1>5. t[k + 1] \in {"list-auto", "list-sts"}
    BY <1>2, <1>4
  <1>6. /\ t[(k + 1) + 1] \in {"put-auto", "put-sts"} /\ 2 \in 1 .. Len(l)
        /\ (k + 1) + 1 = k + 2
    BY <1>4, <1>5 DEF Ordered
  <1>7. ~overtaken'[p] /\ logged'[p] => Repeats(c, t, Len(t), db')
    BY <1>1, <1>2 DEF Runs
  <1>8. /\ KeyIn(c, t, k + 1, keys') /\ KeyIn(c, t, k + 2, keys')
        /\ Logs(c, t, k + 1, logged'[p], faults') /\ Logs(c, t, k + 2, logged'[p], faults')
        /\ ~overtaken'[p] =>
              /\ Repeats(c, t, k + 1, db') /\ Checked(c, t, k + 1, db', mail')
              /\ Repeats(c, t, k + 2, db') /\ Checked(c, t, k + 2, db', mail')
    <2>1. k + 1 \in Nat
      BY <1>4
    <2>2. KeyIn(c, t, k + 1, keys')
      BY <1>1, <1>2, <1>4, <1>5, KeyOn DEF Runs
    <2>3. KeyIn(c, t, (k + 1) + 1, keys')
      BY <1>6, <2>1, <2>2, KeyOn
    <2>4. Logs(c, t, k, logged'[p], faults')
      <3>1. Logs(c, t, k, logged[p], faults)
        BY <1>1 DEF Runs
      <3>2. faults > 0 => faults' > 0
        BY <1>2, <1>3 DEF Typed
      <3> QED
        BY <1>2, <3>1, <3>2 DEF Logs
    <2>5. Logs(c, t, k + 1, logged'[p], faults')
      BY <1>4, <1>5, <2>4, LogsOn
    <2>6. Logs(c, t, (k + 1) + 1, logged'[p], faults')
      BY <1>6, <2>1, <2>5, LogsOn
    <2>7. ASSUME ~overtaken'[p]
          PROVE  /\ Repeats(c, t, k + 1, db') /\ Checked(c, t, k + 1, db', mail')
                 /\ Repeats(c, t, (k + 1) + 1, db')
                 /\ Checked(c, t, (k + 1) + 1, db', mail')
      <3>1. Repeats(c, t, k, db') /\ Checked(c, t, k, db', mail')
        BY <1>1, <1>2, <2>7 DEF Runs
      <3>2. t[k + 1] \notin Statements /\ t[(k + 1) + 1] \notin Statements
        BY <1>5, <1>6 DEF Statements
      <3>3. Repeats(c, t, k + 1, db')
        BY <1>4, <3>1, <3>2, RepeatsOn
      <3>4. Repeats(c, t, (k + 1) + 1, db')
        BY <2>1, <3>2, <3>3, RepeatsOn
      <3>5. Checked(c, t, k + 1, db', mail')
        BY <1>4, <1>5, <3>1, CheckedOn
      <3>6. Checked(c, t, (k + 1) + 1, db', mail')
        BY <1>4, <1>6, <2>1, <3>5, CheckedOn
      <3> QED
        BY <3>3, <3>4, <3>5, <3>6
    <2> QED
      BY <1>6, <2>2, <2>3, <2>5, <2>6, <2>7
  <1>9. CASE /\ list' = [list EXCEPT ![p] = Listed(p)] /\ faults' = faults /\ Take(p, 1)
             /\ warned' = warned
    <2>1. list'[p] = Listed(p)
      BY <1>3, <1>9 DEF Typed
    <2>2. ~overtaken'[p] /\ ~warned'[p] =>
             Mirrors(t, k + 1, db', list'[p], file', served')
      <3>1. /\ t[k + 1] = "list-auto" => list'[p] = DOMAIN db.domain
            /\ t[k + 1] = "list-sts" => list'[p] = ActiveOf(db)
        BY <1>4, <2>1 DEF Listed, Domains, Active, ActiveOf
      <3>2. /\ Past(t, k + 1, "put-auto") => Past(t, k, "put-auto")
            /\ Past(t, k + 1, "put-sts") => Past(t, k, "put-sts")
        BY <1>4, <1>5, PastOne
      <3>3. ~overtaken[p] /\ ~warned[p] => Mirrors(t, k, db, list[p], file, served)
        BY <1>1 DEF Runs
      <3> QED
        BY <1>2, <1>9, <3>1, <3>2, <3>3 DEF Mirrors
    <2>3. /\ Right(p)'
          /\ pc' \in [Process -> {"idle", "run", "done", "failed"}]
          /\ DOMAIN left' = Process
          /\ \A q \in Process \ {p} : pc'[q] = pc[q] /\ left'[q] = left[q]
      BY <1>1, <1>2, <1>4, <1>7, <1>8, <1>9, <2>2, GoesOn
    <2>4. Typed' /\ IsTables(db)' /\ KeyBeforeRow'
      BY <1>2, <1>3, <1>9, <2>3 DEF Typed, KeyBeforeRow, Domains
    <2>5. \A q \in Process \ {p} : Same(q) /\ Passed(q)
      BY <1>2, <1>3, <1>9, <2>3 DEF Same, Passed, Typed
    <2> QED
      BY <2>3, <2>4, <2>5 DEF StepRight
  <1>10. CASE /\ faults' = faults + 1 /\ Take(p, 2)
              /\ warned' = [warned EXCEPT ![p] = TRUE] /\ list' = list
    <2>1. /\ warned' \in [Process -> BOOLEAN] /\ warned'[p]
          /\ \A q \in Process \ {p} : warned'[q] = warned[q]
      BY <1>3, <1>10 DEF Typed
    <2>2. /\ Right(p)'
          /\ pc' \in [Process -> {"idle", "run", "done", "failed"}]
          /\ DOMAIN left' = Process
          /\ \A q \in Process \ {p} : pc'[q] = pc[q] /\ left'[q] = left[q]
      BY <1>1, <1>2, <1>6, <1>7, <1>8, <1>10, <2>1, GoesOn
    <2>3. Typed' /\ IsTables(db)' /\ KeyBeforeRow'
      BY <1>2, <1>3, <1>10, <2>1, <2>2 DEF Typed, KeyBeforeRow, Domains
    <2>4. \A q \in Process \ {p} : Same(q) /\ Passed(q)
      BY <1>2, <1>3, <1>10, <2>1, <2>2 DEF Same, Passed, Typed
    <2> QED
      BY <2>2, <2>3, <2>4 DEF StepRight
  <1> QED
    BY <1>2, <1>9, <1>10

(* Writing the list to the file makes file and Caddy agree with the tables.*)
LEMMA PutMirrors ==
    ASSUME NEW c, NEW t, NEW k \in Nat, Ordered(c, t, k + 1),
           t[k + 1] \in {"put-auto", "put-sts"}, NEW d, NEW x, NEW f, NEW s,
           Mirrors(t, k, d, x, f, s), f = [auto |-> f.auto, sts |-> f.sts],
           NEW g, g = IF t[k + 1] = "put-auto" THEN [f EXCEPT !.auto = x]
                                               ELSE [f EXCEPT !.sts = x]
    PROVE  Mirrors(t, k + 1, d, {}, g, g)
  <1>1. k >= 1 /\ (k + 1) - 1 = k
    BY DEF Ordered
  <1>2. CASE t[k + 1] = "put-auto"
    <2>1. t[k] = "list-auto"
      BY <1>1, <1>2 DEF Ordered
    <2>2. x = DOMAIN d.domain
      BY <1>1, <2>1 DEF Mirrors
    <2>3. g.auto = x /\ g.sts = f.sts
      BY <1>2
    <2>4. Past(t, k + 1, "put-sts") => Past(t, k, "put-sts")
      BY <1>2, PastOne
    <2> QED
      BY <1>2, <2>2, <2>3, <2>4 DEF Mirrors
  <1>3. CASE t[k + 1] = "put-sts"
    <2>1. t[k] = "list-sts"
      BY <1>1, <1>3 DEF Ordered
    <2>2. x = ActiveOf(d)
      BY <1>1, <2>1 DEF Mirrors
    <2>3. g.sts = x /\ g.auto = f.auto
      BY <1>3
    <2>4. Past(t, k + 1, "put-auto") => Past(t, k, "put-auto")
      BY <1>3, PastOne
    <2> QED
      BY <1>3, <2>2, <2>3, <2>4 DEF Mirrors
  <1> QED
    BY <1>2, <1>3

LEMMA PutIncludeIsRight ==
    ASSUME AccountsInv, NEW p \in Process, PutInclude(p)
    PROVE  StepRight(p)
  <1>1. PICK c, t, l, k : Runs(p, c, t, l, k)
    BY Running DEF PutInclude, At
  <1>2. PICK new : new = IF Head(left[p]) = "put-auto" THEN [file EXCEPT !.auto = list[p]]
                                                       ELSE [file EXCEPT !.sts = list[p]]
    OBVIOUS
  <1>3. /\ pc[p] = "run" /\ Head(left[p]) \in {"put-auto", "put-sts"} /\ Take(p, 1)
        /\ list' = [list EXCEPT ![p] = {}]
        /\ \/ file' = new /\ served' = new /\ faults' = faults /\ warned' = warned
           \/ /\ faults' = faults + 1 /\ warned' = [warned EXCEPT ![p] = TRUE]
              /\ \/ file' = file /\ served' = served
                 \/ file' = new /\ served' \in {served, new}
        /\ overtaken' = IF file' = file THEN overtaken ELSE Others(p)
        /\ UNCHANGED <<db, keys, mail, cmd, logged>>
    BY <1>2 DEF PutInclude, At, Fault, NoFault
  <1>4. Typed /\ IsTables(db) /\ KeyBeforeRow
    BY DEF AccountsInv
  <1>5. /\ t[k + 1] = Head(left[p]) /\ k \in Nat /\ 1 \in 1 .. Len(l) /\ Len(t) \in Nat
        /\ Ordered(c, t, k + 1)
    BY <1>1, Position
  <1>6. t[k + 1] \in {"put-auto", "put-sts"}
    BY <1>3, <1>5
  <1>7. /\ overtaken' \in [Process -> BOOLEAN] /\ overtaken'[p] = overtaken[p]
        /\ \A q \in Process \ {p} :
              overtaken'[q] \/ (file' = file /\ overtaken'[q] = overtaken[q])
    <2>1. PICK b \in BOOLEAN : b = (file' = file)
      OBVIOUS
    <2>2. overtaken' = IF b THEN overtaken ELSE Others(p)
      BY <1>3, <2>1
    <2>3. /\ overtaken' \in [Process -> BOOLEAN] /\ overtaken'[p] = overtaken[p]
          /\ \A q \in Process \ {p} : overtaken'[q] \/ (b /\ overtaken'[q] = overtaken[q])
      BY <1>4, <2>2, Overtakes
    <2> QED
      BY <2>1, <2>3
  <1>8. file = [auto |-> file.auto, sts |-> file.sts]
    BY <1>4 DEF Typed
  <1>9. file' = [auto |-> file'.auto, sts |-> file'.sts]
    <2>1. new = [auto |-> new.auto, sts |-> new.sts]
      BY <1>2, <1>8
    <2> QED
      BY <1>3, <1>8, <2>1
  <1>10. /\ warned' \in [Process -> BOOLEAN]
         /\ \A q \in Process \ {p} : warned'[q] = warned[q]
         /\ warned'[p] \/ (warned' = warned /\ file' = new /\ served' = new)
         /\ DOMAIN list' = Process /\ \A q \in Process \ {p} : list'[q] = list[q]
         /\ list'[p] = {} /\ faults' \in Nat /\ faults' >= faults
    <2>1. /\ faults' \in Nat /\ faults' >= faults
          /\ DOMAIN list' = Process /\ \A q \in Process \ {p} : list'[q] = list[q]
          /\ list'[p] = {}
      BY <1>3, <1>4 DEF Typed
    <2>2. \/ warned' = [warned EXCEPT ![p] = TRUE]
          \/ warned' = warned /\ file' = new /\ served' = new
      BY <1>3, Zenon
    <2>3. warned \in [Process -> BOOLEAN]
      BY <1>4 DEF Typed
    <2>4. CASE warned' = [warned EXCEPT ![p] = TRUE]
      <3>1. /\ warned' \in [Process -> BOOLEAN] /\ warned'[p]
            /\ \A q \in Process \ {p} : warned'[q] = warned[q]
        BY <2>3, <2>4
      <3> QED
        BY <2>1, <3>1
    <2>5. CASE warned' = warned /\ file' = new /\ served' = new
      BY <2>1, <2>3, <2>5
    <2> QED
      BY <2>2, <2>4, <2>5
  <1>11. ~overtaken'[p] /\ logged'[p] => Repeats(c, t, Len(t), db')
    BY <1>1, <1>3, <1>7 DEF Runs
  <1>12. /\ Right(p)'
         /\ pc' \in [Process -> {"idle", "run", "done", "failed"}]
         /\ DOMAIN left' = Process
         /\ \A q \in Process \ {p} : pc'[q] = pc[q] /\ left'[q] = left[q]
    <2>1. KeyIn(c, t, k + 1, keys')
      BY <1>1, <1>3, <1>5, <1>6, KeyOn DEF Runs
    <2>2. Logs(c, t, k + 1, logged'[p], faults')
      <3>1. Logs(c, t, k, logged[p], faults)
        BY <1>1 DEF Runs
      <3>2. faults > 0 => faults' > 0
        BY <1>4, <1>10 DEF Typed
      <3>3. Logs(c, t, k, logged'[p], faults')
        BY <1>3, <3>1, <3>2 DEF Logs
      <3> QED
        BY <1>5, <1>6, <3>3, LogsOn
    <2>3. ~overtaken'[p] => Repeats(c, t, k + 1, db')
      <3>1. t[k + 1] \notin Statements
        BY <1>6 DEF Statements
      <3> QED
        BY <1>1, <1>3, <1>5, <1>7, <3>1, RepeatsOn DEF Runs
    <2>4. ~overtaken'[p] => Checked(c, t, k + 1, db', mail')
      BY <1>1, <1>3, <1>5, <1>6, <1>7, CheckedOn DEF Runs
    <2>5. ASSUME ~overtaken'[p], ~warned'[p]
          PROVE  Mirrors(t, k + 1, db', list'[p], file', served')
      <3>1. warned' = warned /\ file' = new /\ served' = new
        BY <1>10, <2>5
      <3>2. Mirrors(t, k, db, list[p], file, served)
        BY <1>1, <1>7, <2>5, <3>1 DEF Runs
      <3>3. new = IF t[k + 1] = "put-auto" THEN [file EXCEPT !.auto = list[p]]
                                           ELSE [file EXCEPT !.sts = list[p]]
        BY <1>2, <1>5
      <3>4. Mirrors(t, k + 1, db, {}, new, new)
        BY <1>5, <1>6, <1>8, <3>2, <3>3, PutMirrors
      <3> QED
        BY <1>3, <1>10, <3>1, <3>4
    <2> QED
      BY <1>1, <1>3, <1>5, <1>11, <2>1, <2>2, <2>3, <2>4, <2>5, GoesOn
  <1>13. Typed' /\ IsTables(db)' /\ KeyBeforeRow'
    BY <1>3, <1>4, <1>7, <1>9, <1>10, <1>12 DEF Typed, KeyBeforeRow, Domains
  <1>14. \A q \in Process \ {p} : Same(q) /\ Passed(q)
    <2>1. file' = file => served' \in {served, file}
      BY <1>3
    <2> QED
      BY <1>3, <1>4, <1>7, <1>10, <1>12, <2>1 DEF Same, Passed, Typed
  <1> QED
    BY <1>12, <1>13, <1>14 DEF StepRight

LEMMA StartIsRight ==
    ASSUME AccountsInv, NEW p \in Process, NEW c \in Command, Start(p, c)
    PROVE  StepRight(p)
  <1>1. PICK t : t = Handler(c).steps
    OBVIOUS
  <1>2. /\ Handler(c).ok
        /\ pc' = [pc EXCEPT ![p] = "run"]
        /\ cmd' = [cmd EXCEPT ![p] = [order |-> c, tables |-> db, steps |-> t]]
        /\ left' = [left EXCEPT ![p] = t]
        /\ logged' = [logged EXCEPT ![p] = FALSE]
        /\ warned' = [warned EXCEPT ![p] = FALSE]
        /\ overtaken' = [overtaken EXCEPT ![p] = FALSE]
        /\ UNCHANGED <<db, keys, mail, file, served, list, faults>>
    BY <1>1 DEF Start, system
  <1>3. Typed /\ IsTables(db) /\ KeyBeforeRow
    BY DEF AccountsInv
  <1>4. /\ pc' \in [Process -> {"idle", "run", "done", "failed"}]
        /\ DOMAIN cmd' = Process /\ DOMAIN left' = Process
        /\ \A q \in Process \ {p} :
              pc'[q] = pc[q] /\ cmd'[q] = cmd[q] /\ left'[q] = left[q]
        /\ pc'[p] = "run" /\ left'[p] = t
        /\ cmd'[p].order = c /\ cmd'[p].steps = t
    BY <1>2, <1>3 DEF Typed
  <1>5. /\ logged' \in [Process -> BOOLEAN] /\ warned' \in [Process -> BOOLEAN]
        /\ overtaken' \in [Process -> BOOLEAN]
        /\ ~logged'[p]
        /\ \A q \in Process \ {p} :
              /\ logged'[q] = logged[q] /\ warned'[q] = warned[q]
              /\ overtaken'[q] = overtaken[q]
    BY <1>2, <1>3 DEF Typed
  <1>6. Form(c, t)
    BY <1>1, FormOfHandler
  <1>7. Placed(c, t, t) /\ Taken(t, t) = 0 /\ Len(t) # 0
    BY <1>6, Begins
  <1>8. Len(t) \in 2 .. 8
    BY <1>6, Order DEF Ends
  <1>9. Checked(c, t, 0, db, mail)
    <2>1. c.op = "domain.remove" => \A a \in DOMAIN db.mailbox : DomainOf[a] # c.dom
      <3>1. c.op = "domain.remove" => Handler(c) = RunDomainRemove(c)
        BY HandlerOf
      <3> QED
        BY <1>2, <3>1 DEF RunDomainRemove
    <2>2. c.op = "mailbox.add" => DomainOf[c.addr] \in DOMAIN db.domain
      <3>1. c.op = "mailbox.add" => Handler(c) = MailboxAdd(c)
        BY HandlerOf
      <3>2. MailboxAdd(c).ok => DomainOf[c.addr] \in DOMAIN db.domain
        BY DEF MailboxAdd, Domains
      <3> QED
        BY <1>2, <3>1, <3>2
    <2>3. c.op = "mailbox.app-password.add" => c.addr \in DOMAIN db.mailbox
      <3>1. c.op = "mailbox.app-password.add" => Handler(c) = AppPasswordAdd(c)
        BY HandlerOf
      <3>2. AppPasswordAdd(c).ok => c.addr \in DOMAIN db.mailbox
        BY DEF AppPasswordAdd
      <3> QED
        BY <1>2, <3>1, <3>2
    <2>4. ASSUME c.op = "mailbox.remove", c.addr \in mail
          PROVE  \E i \in 0 + 1 .. Len(t) : t[i] = "purge"
      <3>1. Handler(c) = MailboxRemove(c)
        BY <2>4, HandlerOf
      <3>2. t = <<"confirm">> \o <<"purge">>
                   \o <<"DeleteAppPasswordsByMailbox", "DeleteMailbox", "audit">>
        BY <1>1, <2>4, <3>1 DEF MailboxRemove
      <3>3. t = PurgeSteps
        BY <3>2, SyncSteps, Zenon
      <3>4. t[2] = "purge" /\ Len(t) = 5
        BY <3>3 DEF PurgeSteps
      <3> QED
        BY <3>4
    <2> QED
      BY <2>1, <2>2, <2>3, <2>4 DEF Checked
  <1>10. /\ KeyIn(c, t, 0, keys) /\ Repeats(c, t, 0, db) /\ \A w : ~Past(t, 0, w)
         /\ \A x : Mirrors(t, 0, db, x, file, served)
    <2>1. \A i : i \notin 1 .. 0
      OBVIOUS
    <2>2. \A w : ~Past(t, 0, w)
      BY <2>1 DEF Past
    <2> QED
      BY <2>1, <2>2 DEF KeyIn, Repeats, Mirrors
  <1>11. Far(p)' = 0
    BY <1>4, <1>7 DEF Far
  <1>12. Logs(c, t, 0, logged'[p], faults')
    BY <1>5, <1>10 DEF Logs
  <1>13. Right(p)'
    <2>1. /\ Placed(cmd'[p].order, cmd'[p].steps, left'[p])
          /\ pc'[p] = "done" <=> Len(left'[p]) = 0
      BY <1>4, <1>7
    <2>2. /\ KeyIn(cmd'[p].order, cmd'[p].steps, Far(p)', keys')
          /\ Logs(cmd'[p].order, cmd'[p].steps, Far(p)', logged'[p], faults')
      BY <1>2, <1>4, <1>10, <1>11, <1>12
    <2>3. /\ Repeats(cmd'[p].order, cmd'[p].steps, Far(p)', db')
          /\ Checked(cmd'[p].order, cmd'[p].steps, Far(p)', db', mail')
          /\ Mirrors(cmd'[p].steps, Far(p)', db', list'[p], file', served')
      BY <1>2, <1>4, <1>9, <1>10, <1>11
    <2> QED
      BY <1>5, <2>1, <2>2, <2>3 DEF Right
  <1>14. Typed' /\ IsTables(db)' /\ KeyBeforeRow'
    BY <1>2, <1>3, <1>4, <1>5 DEF Typed, KeyBeforeRow, Domains
  <1>15. \A q \in Process \ {p} : Same(q) /\ Passed(q)
    BY <1>2, <1>3, <1>4, <1>5 DEF Same, Passed, Typed
  <1> QED
    BY <1>13, <1>14, <1>15 DEF StepRight

LEMMA DeliverIsRight ==
    ASSUME AccountsInv, NEW a \in Address, Deliver(a)
    PROVE  AccountsInv'
  <1>1. /\ overtaken' = [q \in Process |-> TRUE]
        /\ UNCHANGED <<db, keys, file, served, pc, cmd, left, list, logged, warned, faults>>
    BY DEF Deliver, process
  <1>2. Typed /\ IsTables(db) /\ KeyBeforeRow /\ \A q \in Process : Right(q)
    BY DEF AccountsInv
  <1>3. Typed' /\ IsTables(db)' /\ KeyBeforeRow'
    BY <1>1, <1>2 DEF Typed, KeyBeforeRow, Domains
  <1>4. ASSUME NEW q \in Process
        PROVE  Right(q)'
    <2>1. Same(q) /\ Passed(q) /\ faults \in Nat
      BY <1>1, <1>2 DEF Same, Passed, Typed
    <2> QED
      BY <1>2, <2>1, OthersStay
  <1> QED
    BY <1>3, <1>4 DEF AccountsInv

LEMMA StepIsRight ==
    ASSUME AccountsInv, NEW p \in Process, StepRight(p)
    PROVE  AccountsInv'
  <1>1. ASSUME NEW q \in Process \ {p}
        PROVE  Right(q)'
    <2>1. Same(q) /\ Passed(q) /\ faults \in Nat /\ Right(q)
      BY DEF StepRight, AccountsInv, Typed
    <2> QED
      BY <2>1, OthersStay
  <1> QED
    BY <1>1 DEF StepRight, AccountsInv

LEMMA InitIsRight ==
    ASSUME Init
    PROVE  AccountsInv
  <1>1. /\ served = file /\ faults = 0
        /\ pc = [p \in Process |-> "idle"] /\ cmd = [p \in Process |-> NoCommand]
        /\ left = [p \in Process |-> <<>>] /\ list = [p \in Process |-> {}]
        /\ logged = [p \in Process |-> FALSE] /\ warned = [p \in Process |-> FALSE]
        /\ overtaken = [p \in Process |-> FALSE]
    BY DEF Init
  <1>2. PICK D \in SUBSET Domain, A \in SUBSET Address, s \in FirstSelector :
           /\ db = [domain  |-> [d \in D |-> [active |-> TRUE, selector |-> s,
                                              provider |-> Manual]],
                    mailbox |-> [a \in A |-> [active |-> TRUE, password |-> "first",
                                              quota |-> 0]],
                    app |-> {}, alias |-> {}]
           /\ keys = D \X ({s} \ {NoSelector})
           /\ file \in [auto : SUBSET Domain, sts : SUBSET Domain]
    BY DEF Init
  <1>3. Typed
    <2>1. file = [auto |-> file.auto, sts |-> file.sts]
      BY <1>2
    <2> QED
      BY <1>1, <2>1 DEF Typed
  <1>4. PICK row : row = [active |-> TRUE, selector |-> s, provider |-> Manual]
    OBVIOUS
  <1>5. PICK first : first = [active |-> TRUE, password |-> "first", quota |-> 0]
    OBVIOUS
  <1>6. PICK doms, boxes : /\ doms = [d \in D |-> row] /\ boxes = [a \in A |-> first]
    OBVIOUS
  <1>7. db = Tables(doms, boxes, {}, {})
    BY <1>2, <1>4, <1>5, <1>6, Zenon DEF Tables
  <1>8. row \in DomainRow /\ row.selector = s
    BY <1>4 DEF DomainRow, Selectors, Providers
  <1>9. IsTables(db)
    <2>1. doms \in [DOMAIN doms -> DomainRow] /\ Mapping(boxes)
      BY <1>6, <1>8 DEF Mapping
    <2> QED
      BY <1>7, <2>1, Parts
  <1>10. KeyBeforeRow
    <2>1. db.domain = doms
      BY <1>7, Parts
    <2> QED
      BY <1>2, <1>6, <1>8, <2>1 DEF KeyBeforeRow, Domains
  <1>11. \A p \in Process : Right(p)
    BY <1>1 DEF Right, Under
  <1> QED
    BY <1>3, <1>9, <1>10, <1>11 DEF AccountsInv

(* The inductive invariant holds.                                          *)
LEMMA AccountsInvHolds == Spec => []AccountsInv
  <1>1. Init => AccountsInv
    BY InitIsRight
  <1>2. AccountsInv /\ [Next]_vars => AccountsInv'
    <2> SUFFICES ASSUME AccountsInv, [Next]_vars
                 PROVE  AccountsInv'
      OBVIOUS
    <2>1. ASSUME NEW p \in Process, Step(p) PROVE AccountsInv'
      BY <2>1, ConfirmIsRight, ExecuteIsRight, GenerateDKIMIsRight, PurgeIsRight,
         RecordIsRight, ListDomainsIsRight, PutIncludeIsRight, StepIsRight DEF Step
    <2>2. ASSUME NEW p \in Process, Crash(p) PROVE AccountsInv'
      BY <2>2, CrashIsRight, StepIsRight
    <2>3. ASSUME NEW p \in Process, NEW c \in Command, Start(p, c) PROVE AccountsInv'
      BY <2>3, StartIsRight, StepIsRight
    <2>4. ASSUME NEW a \in Address, Deliver(a) PROVE AccountsInv'
      BY <2>4, DeliverIsRight
    <2>5. CASE UNCHANGED vars
      <3>1. UNCHANGED <<db, keys, mail, file, served, pc, cmd, left, list, logged, warned,
                        overtaken, faults>>
        BY <2>5 DEF vars, system, process
      <3>2. Typed /\ IsTables(db) /\ KeyBeforeRow /\ \A q \in Process : Right(q)
        BY DEF AccountsInv
      <3>3. Typed' /\ IsTables(db)' /\ KeyBeforeRow'
        BY <3>1, <3>2 DEF Typed, KeyBeforeRow, Domains
      <3>4. ASSUME NEW q \in Process
            PROVE  Right(q)'
        <4>1. Same(q) /\ Passed(q) /\ faults \in Nat
          BY <3>1, <3>2 DEF Same, Passed, Typed
        <4> QED
          BY <3>2, <4>1, OthersStay
      <3> QED
        BY <3>3, <3>4 DEF AccountsInv
    <2> QED
      BY <2>1, <2>2, <2>3, <2>4, <2>5 DEF Next
  <1> QED
    BY <1>1, <1>2, PTL DEF Spec

-----------------------------------------------------------------------------
(* What the invariant says of a command that has reported success.         *)
LEMMA Succeeded ==
    ASSUME AccountsInv, NEW p \in Process, pc[p] = "done",
           NEW c, c = cmd[p].order, NEW t, t = cmd[p].steps
    PROVE  /\ Form(c, t) /\ Ends(c, t) /\ DOMAIN t = 1 .. Len(t)
           /\ Logs(c, t, Len(t), logged[p], faults)
           /\ ~overtaken[p] => Repeats(c, t, Len(t), db)
           /\ ~overtaken[p] /\ ~warned[p] => Mirrors(t, Len(t), db, list[p], file, served)
  <1>1. Right(p) /\ Under(p)
    BY DEF AccountsInv, Under
  <1>2. Placed(c, t, left[p]) /\ Len(left[p]) = 0
    BY <1>1 DEF Right
  <1>3. Form(c, t) /\ Ends(c, t) /\ Len(t) \in Nat
    BY <1>2, Order DEF Placed, Ends
  <1>4. DOMAIN t = 1 .. Len(t)
    BY <1>3 DEF Ends
  <1>5. Far(p) = Len(t)
    <2>1. Far(p) = Len(t) - 0
      BY <1>2 DEF Far, Taken
    <2> QED
      BY <1>3, <2>1
  <1> QED
    BY <1>1, <1>3, <1>4, <1>5 DEF Right

(* Every row names a selector whose key file exists: runDomainAdd and      *)
(* runDomainSetDKIM make the key before the row, and nobody removes a key. *)
THEOREM RowsHaveTheirKey == Spec => []KeyBeforeRow
  <1>1. AccountsInv => KeyBeforeRow
    BY DEF AccountsInv
  <1> QED
    BY <1>1, AccountsInvHolds, PTL

(* An audit row is never there before the whole change it describes, and a *)
(* command that reports success has made its change and has its row, unless*)
(* it is one of those that drop the audit log's error.                     *)
THEOREM AuditRowsAreTrue == Spec => []AuditFollowsChange
  <1>1. ASSUME AccountsInv
        PROVE  AuditFollowsChange
    <2> SUFFICES ASSUME NEW p \in Process
                 PROVE  /\ logged[p] /\ ~overtaken[p] => Made(p)
                        /\ pc[p] = "done" /\ ~overtaken[p] => Made(p)
                        /\ pc[p] = "done" =>
                              logged[p] \/ (IgnoresAuditError(cmd[p].order) /\ faults > 0)
      BY DEF AuditFollowsChange
    <2>1. PICK c, t : c = cmd[p].order /\ t = cmd[p].steps
      OBVIOUS
    <2>2. DOMAIN t = 1 .. Len(t) /\ Repeats(c, t, Len(t), db) => Made(p)
      BY <2>1 DEF Repeats, Made
    <2>3. Right(p)
      BY <1>1 DEF AccountsInv
    <2>4. logged[p] /\ ~overtaken[p] => DOMAIN t = 1 .. Len(t) /\ Repeats(c, t, Len(t), db)
      BY <2>1, <2>3 DEF Right
    <2>5. pc[p] = "done" =>
             /\ Ends(c, t) /\ DOMAIN t = 1 .. Len(t) /\ Logs(c, t, Len(t), logged[p], faults)
             /\ ~overtaken[p] => Repeats(c, t, Len(t), db)
      BY <1>1, <2>1, Succeeded
    <2>6. Ends(c, t) => Past(t, Len(t), "audit")
      BY DEF Ends, Past
    <2> QED
      BY <2>1, <2>2, <2>4, <2>5, <2>6 DEF Logs
  <1> QED
    BY <1>1, AccountsInvHolds, PTL

(* A command that regenerates an include file, and neither warned nor was  *)
(* overtaken, leaves Caddy serving exactly the tables.                     *)
THEOREM CaddyServesTheTables == Spec => []SyncRepairs
  <1>1. ASSUME AccountsInv
        PROVE  SyncRepairs
    <2> SUFFICES ASSUME NEW p \in Process, pc[p] = "done", ~overtaken[p], ~warned[p]
                 PROVE  /\ cmd[p].order.op \in {"domain.add", "domain.remove"} =>
                              served.auto = Domains
                        /\ cmd[p].order.op \in {"domain.add", "domain.remove",
                                                "domain.enable", "domain.disable"} =>
                              served.sts = Active
      BY DEF SyncRepairs
    <2>1. PICK c, t : c = cmd[p].order /\ t = cmd[p].steps
      OBVIOUS
    <2>2. Ends(c, t) /\ Mirrors(t, Len(t), db, list[p], file, served)
      BY <1>1, <2>1, Succeeded
    <2>3. /\ c.op \in {"domain.add", "domain.remove"} => Past(t, Len(t), "put-auto")
          /\ c.op \in {"domain.add", "domain.remove", "domain.enable", "domain.disable"} =>
                Past(t, Len(t), "put-sts")
      BY <2>2 DEF Ends, Past
    <2> QED
      BY <2>1, <2>2, <2>3 DEF Mirrors, Domains, Active, ActiveOf
  <1> QED
    BY <1>1, AccountsInvHolds, PTL

(* A statement of a command nobody overtook orphans nothing.               *)
LEMMA StatementOrphansNothing ==
    ASSUME NEW c \in Command, NEW t, NEW k \in Nat, Ordered(c, t, k + 1), Len(t) \in Nat,
           t[k + 1] \in Statements, IsTables(db), Repeats(c, t, k, db),
           Checked(c, t, k, db, mail), db' = Executed(t[k + 1], db, c), mail' = mail
    PROVE  Orphans' \subseteq Orphans
  <1>1. PICK s : s = t[k + 1]
    OBVIOUS
  <1>2. Effects(s, db, db', c) /\ <<c.op, s>> \in Makes
    BY <1>1, After DEF Ordered
  <1>3. DOMAIN db'.domain = IF s = "CreateDomain" THEN DOMAIN db.domain \union {c.dom}
                            ELSE IF s = "DeleteDomain" THEN DOMAIN db.domain \ {c.dom}
                            ELSE DOMAIN db.domain
    BY <1>2 DEF Effects, DomainsAfter, OnDomain
  <1>4. DOMAIN db'.mailbox = IF s = "CreateMailbox" THEN DOMAIN db.mailbox \union {c.addr}
                             ELSE IF s = "DeleteMailbox" THEN DOMAIN db.mailbox \ {c.addr}
                             ELSE DOMAIN db.mailbox
    BY <1>2 DEF Effects, MailboxesAfter, OnMailbox
  <1>5. \/ db'.app \subseteq db.app
        \/ s = "CreateAppPassword" /\ db'.app = db.app \union {<<c.addr, c.label>>}
    BY <1>2 DEF Effects, AppsAfter, OnApp
  <1>6. ASSUME NEW a \in DOMAIN db'.mailbox, DomainOf[a] \notin DOMAIN db'.domain
        PROVE  a \in DOMAIN db.mailbox /\ DomainOf[a] \notin DOMAIN db.domain
    <2>1. s = "CreateMailbox" => c.op = "mailbox.add"
      BY <1>2 DEF Makes, Alone, Asked
    <2>2. s = "DeleteDomain" => c.op = "domain.remove"
      BY <1>2 DEF Makes, Alone, Asked
    <2> QED
      BY <1>3, <1>4, <1>6, <2>1, <2>2 DEF Checked
  <1>7. ASSUME s = "DeleteMailbox"
        PROVE  c.addr \notin mail /\ \A pw \in db.app : pw[1] # c.addr
    <2>1. c.op = "mailbox.remove"
      BY <1>2, <1>7 DEF Makes, Alone, Asked
    <2>2. c.addr \notin mail
      BY <1>1, <1>7, <2>1 DEF Checked, Ordered
    <2>3. Past(t, (k + 1) - 1, "DeleteAppPasswordsByMailbox") /\ (k + 1) - 1 = k
      BY <1>1, <1>7 DEF Ordered
    <2>4. PICK i \in 1 .. k : t[i] = "DeleteAppPasswordsByMailbox"
      BY <2>3 DEF Past
    <2>5. Executed("DeleteAppPasswordsByMailbox", db, c) = db
      BY <2>4 DEF Repeats, Statements
    <2>6. Effects("DeleteAppPasswordsByMailbox", db, db, c)
      BY <2>5, After DEF Statements
    <2>7. db.app = {pw \in db.app : pw[1] # c.addr}
      BY <2>6 DEF Effects, OnApp, AppsAfter
    <2> QED
      BY <2>2, <2>7
  <1>8. ASSUME NEW pw \in db'.app, pw[1] \notin DOMAIN db'.mailbox
        PROVE  pw \in db.app /\ pw[1] \notin DOMAIN db.mailbox
    <2>1. CASE s = "CreateAppPassword" /\ pw = <<c.addr, c.label>>
      <3>1. c.op = "mailbox.app-password.add"
        BY <1>2, <2>1 DEF Makes, Alone, Asked
      <3>2. pw[1] \in DOMAIN db.mailbox
        BY <2>1, <3>1 DEF Checked
      <3> QED
        BY <1>4, <1>8, <2>1, <3>2
    <2>2. CASE pw \in db.app
      BY <1>4, <1>7, <1>8, <2>2
    <2> QED
      BY <1>5, <2>1, <2>2
  <1>9. ASSUME NEW a \in mail' \ DOMAIN db'.mailbox
        PROVE  a \in mail \ DOMAIN db.mailbox
    BY <1>4, <1>7, <1>9
  <1> QED
    BY <1>6, <1>8, <1>9 DEF Orphans, Domains

(* A command nobody overtook since its checks orphans no mailbox, no app   *)
(* password and no maildir at any of its steps, whatever fails.            *)
THEOREM CommandsOrphanNothing == Spec => NoOrphansUnlessOvertaken
  <1>1. ASSUME AccountsInv, NEW p \in Process, ~overtaken[p], pc[p] = "run", Step(p)
        PROVE  Orphans' \subseteq Orphans
    <2>1. CASE Execute(p)
      <3>1. PICK c, t, l, k : Runs(p, c, t, l, k)
        BY <1>1, Running
      <3>2. c = cmd[p].order /\ c \in Command
        BY <3>1 DEF Runs
      <3>3. /\ t[k + 1] = Head(left[p]) /\ k \in Nat /\ Len(t) \in Nat
            /\ Ordered(c, t, k + 1)
        BY <3>1, Position
      <3>4. /\ t[k + 1] \in Statements /\ mail' = mail
            /\ db' = db \/ db' = Executed(t[k + 1], db, c)
        BY <2>1, <3>2, <3>3 DEF Execute, At
      <3>5. CASE db' = db
        BY <3>4, <3>5 DEF Orphans, Domains
      <3>6. CASE db' = Executed(t[k + 1], db, c)
        <4>1. Repeats(c, t, k, db) /\ Checked(c, t, k, db, mail)
          BY <1>1, <3>1 DEF Runs
        <4>2. IsTables(db)
          BY <1>1 DEF AccountsInv
        <4> QED
          BY <3>2, <3>3, <3>4, <3>6, <4>1, <4>2, StatementOrphansNothing
      <3> QED
        BY <3>4, <3>5, <3>6
    <2>2. CASE Purge(p)
      <3>1. db' = db /\ mail' \subseteq mail
        BY <2>2 DEF Purge
      <3> QED
        BY <3>1 DEF Orphans, Domains
    <2>3. CASE Confirm(p) \/ GenerateDKIM(p) \/ Record(p) \/ ListDomains(p) \/ PutInclude(p)
      <3>1. db' = db /\ mail' = mail
        BY <2>3 DEF Confirm, GenerateDKIM, Record, ListDomains, PutInclude, system
      <3> QED
        BY <3>1 DEF Orphans, Domains
    <2> QED
      BY <1>1, <2>1, <2>2, <2>3 DEF Step
  <1>2. AccountsInv =>
            (\A p \in Process :
                ~overtaken[p] /\ pc[p] = "run" /\ Step(p) => Orphans' \subseteq Orphans)
    BY <1>1
  <1> QED
    BY <1>2, AccountsInvHolds, PTL DEF NoOrphansUnlessOvertaken

=============================================================================
