------------------------------- MODULE MCHost -------------------------------
(* Two processes, one failure; a release of a higher and of the same       *)
(* version and one of none; three places in two folders; and for each      *)
(* report answers of every verdict.                                        *)
EXTENDS Host, TLC

MCCommand ==
    {[op |-> "sieve.set", body |-> "b2"], [op |-> "sieve.edit"], [op |-> "queue.flush"]}
    \union {[op |-> o, qid |-> "Q1"] : o \in {"queue.hold", "queue.release", "queue.delete"}}
    \union {[op |-> o, ip |-> "192.0.2.1"] :
               o \in {"ban.add", "ban.remove", "allow.add", "allow.remove"}}
    \union {[op |-> o, port |-> "tcp/25"] : o \in {"port.open", "port.close"}}
    \union {[op |-> o, unit |-> u] : u \in {"postfix", "sshd"},
               o \in {"service.start", "service.stop", "service.restart", "service.reload"}}

MCTag == {[nums |-> <<1, 10, 0>>, suffix |-> ""], [nums |-> <<1, 2, 0>>, suffix |-> "rc1"],
          [nums |-> <<1>>, suffix |-> "nightly"]}
MCInstalled == [nums |-> <<1, 2, 0>>, suffix |-> ""]

MCFolderOf == [x \in Pos |-> IF x < 3 THEN 1 ELSE 2]

(* TXT answers.  The SPF limit is 5: warnings begin at 3.                  *)
T(version, tags) == [v |-> version, tags |-> tags, terms |-> <<>>]
Spf(terms) == [v |-> "spf1", tags |-> <<>>, terms |-> terms]
Term(mech, arg) == [mech |-> mech, q |-> "+", arg |-> arg]
Ends(q) == [mech |-> "all", q |-> q, arg |-> ""]
Follow(d) == Term("include", d)

MCTxt ==
    [q \in {"@", "dkim", "_dmarc", "_mta-sts", "_smtp._tls", "default._bimi"} |->
       CASE q = "@" ->
              {<<>>, <<T("none", <<>>), Spf(<<Term("mx", ""), Ends("-")>>)>>,
               <<Spf(<<Ends("-")>>), Spf(<<Ends("~")>>)>>,
               <<Spf(<<Ends("+"), Ends("-")>>)>>, <<Spf(<<Ends("?")>>)>>,
               <<Spf(<<Term("mx", "")>>)>>,
               <<Spf(<<Follow("d1"), Follow("d2"), Ends("~")>>)>>,
               <<Spf(<<Follow("d1"), Follow("d2"), Term("mx", "")>>)>>,
               <<Spf(<<Term("redirect", "d1")>>)>>,
               <<Spf(<<Follow("d1"), Ends("-")>>)>>}
         [] q = "dkim" ->
              {<<>>, <<T("DKIM1", [p |-> ""])>>, <<T("none", [p |-> "rsa2048"])>>,
               <<T("DKIM1", [p |-> "rsa1024"])>>, <<T("DKIM1", [p |-> "rsa512"])>>,
               <<T("DKIM1", [p |-> "garbled"])>>,
               <<T("DKIM1", [p |-> "ed", k |-> "ed25519"])>>}
         [] q = "_dmarc" ->
              {<<>>, <<T("DMARC1", [p |-> "reject", rua |-> "x"])>>,
               <<T("DMARC1", [p |-> "reject", rua |-> "x", pct |-> "50"])>>,
               <<T("DMARC1", [p |-> "none", rua |-> "x"])>>,
               <<T("DMARC1", [p |-> "quarantine"])>>, <<T("DMARC1", [rua |-> "x"])>>,
               <<T("DMARC1", [p |-> "reject", rua |-> "x"]),
                 T("DMARC1", [p |-> "none", rua |-> "x"])>>}
         [] q = "_mta-sts" ->
              {<<>>, <<T("STSv1", [id |-> "1"])>>, <<T("STSv1", <<>>)>>,
               <<T("STSv1", [id |-> "1"]), T("STSv1", [id |-> "2"])>>}
         [] q = "_smtp._tls" ->
              {<<>>, <<T("TLSRPTv1", [rua |-> "x"])>>, <<T("TLSRPTv1", <<>>)>>}
         [] q = "default._bimi" ->
              {<<>>, <<T("BIMI1", [l |-> "logo", a |-> "vmc"])>>,
               <<T("BIMI1", [l |-> "logo"])>>, <<T("BIMI1", <<>>)>>}]

MCTarget == {"d1", "d2", "d3"}
MCSpfZones ==
    LET one == <<Spf(<<Term("a", "")>>)>>
        two == <<Spf(<<Term("a", ""), Term("exists", "")>>)>>
        all == <<Spf(<<Term("a", ""), Term("mx", ""), Term("exists", ""),
                       Follow("d3"), Follow("d1"), Follow("d2"), Ends("-")>>)>>
    IN [d1 : {<<>>, one, two, all}, d2 : {<<>>, two, all}, d3 : {<<>>, all}]
MCKeyBits == [p \in {"rsa512", "rsa1024", "rsa2048", "garbled"} |->
                CASE p = "rsa512" -> 512 [] p = "rsa1024" -> 1024
                  [] p = "rsa2048" -> 2048 [] p = "garbled" -> 0]

L(key, val) == [key |-> key, val |-> val]
MCPolicies ==
    {<<L("mode", "enforce"), L("mx", "mail")>>, <<L("mode", "enforce")>>,
     <<L("mode", "testing"), L("mx", "mail"), L("mode", "enforce")>>,
     <<L("mode", "none")>>, <<L("html", "")>>}

(* dns check: a record and a verification string of one name, and a host   *)
(* of two spellings.                                                       *)
MCValue == {"spf", "verify", "MX mail", "MX Mail", "MX old"}
MCQueryOf == [v \in MCValue |-> IF v \in {"spf", "verify"} THEN "TXT @" ELSE "MX @"]
MCSlotOf == [v \in MCValue |-> CASE v = "spf" -> "SPF" [] v = "verify" -> "other TXT"
                                 [] OTHER -> "MX"]
MCClassOf == [v \in MCValue |-> IF v = "MX Mail" THEN "MX mail" ELSE v]

Symmetric == Permutations(Process)
=============================================================================
