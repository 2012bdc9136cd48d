----------------------------- MODULE MCAccounts -----------------------------
(* One domain with one mailbox, one alias and one app password label: each *)
(* command has rivals that touch the same rows.                            *)
EXTENDS Accounts, TLC

Symmetry == Permutations(Process)

MCDomain == {"d"}
MCAddress == {"a@d"}
MCDomainOf == [x \in {"a@d", "@d"} |-> "d"]

DomainCommands ==
    {[op |-> "domain.add", dom |-> "d", selector |-> s, provider |-> v] :
        s \in {"s1"}, v \in {"njalla"}}
    \union {[op |-> o, dom |-> "d"] :
              o \in {"domain.remove", "domain.enable", "domain.disable",
                     "domain.regen-dkim"}}
    \union {[op |-> "domain.set-dkim", dom |-> "d", selector |-> "s2"],
            [op |-> "domain.set-provider", dom |-> "d", provider |-> "manual"]}

MailboxCommands ==
    {[op |-> "mailbox.add", addr |-> "a@d", password |-> "second", quota |-> 1],
     [op |-> "mailbox.passwd", addr |-> "a@d", password |-> "third"],
     [op |-> "mailbox.set-quota", addr |-> "a@d", quota |-> 2]}
    \union {[op |-> "mailbox.remove", addr |-> "a@d", purge |-> b] : b \in BOOLEAN}
    \union {[op |-> o, addr |-> "a@d"] : o \in {"mailbox.enable", "mailbox.disable"}}
    \union {[op |-> o, addr |-> "a@d", label |-> "phone"] :
              o \in {"mailbox.app-password.add", "mailbox.app-password.remove"}}

AliasCommands ==
    {[op |-> "alias.add", source |-> "@d", dest |-> x] : x \in {"a@d", "b@e"}}
    \union {[op |-> "alias.remove", source |-> "@d", dest |-> "a@d", all |-> b] :
              b \in BOOLEAN}

MCCommand == DomainCommands \union MailboxCommands \union AliasCommands
=============================================================================
