----------------------------- MODULE Diagnostics -----------------------------
(***************************************************************************)
(* The commands that look and report: dns audit grades the mail security   *)
(* of a domain from public DNS (internal/dnsaudit), doctor the health of   *)
(* the host (cli/doctor.go), dns check compares public DNS with the        *)
(* desired records (internal/dnscheck) and config check the configuration. *)
(* Each asks many sources one after the other.  What a source holds is     *)
(* chosen when it is asked, and any source may stay silent, as only what   *)
(* was answered can be reported on.                                        *)
(*                                                                         *)
(* A TXT record is [v, tags, terms]: its version tag, its key=value pairs  *)
(* as a function, and for SPF its terms [mech, q, arg].  "@" stands for    *)
(* the domain that is audited.                                             *)
(***************************************************************************)
EXTENDS ZonePlan, SequencesExt

CONSTANTS
    Txt,         \* Txt[q]: the answers the TXT query q may get
    Target,      \* the other domains an SPF record may include
    SpfZones,    \* the answers the targets may give, as functions
    KeyBits,     \* KeyBits[p]: the length of the RSA key p, 0 for no key
    SpfLimit, SpfDepth,    \* 10 and 10 in the code
    Policies,    \* the policy bodies, as sequences of [key, val]
    MaxHosts,    \* bound: MX hosts
    TlsaValue, Usable311,    \* the TLSA values, those that are "3 1 1"
    Allowed, ExpectedPort,             \* the units and ports doctor looks after
    QueryOf,     \* QueryOf[v]: the type and name asked to find value v
    MaxDomains     \* bound: active domains whose policy doctor fetches

SpfTerm == [mech : STRING, q : {"+", "-", "~", "?"}, arg : Target \union {"@", ""}]
Answers(a) == \A i \in DOMAIN a : i \in Nat /\ a[i].terms \in Seq(SpfTerm)

DiagnosticsAssumption ==
    /\ SpfLimit \in Nat
    /\ Target \intersect {"@", ""} = {}
    /\ {"@", "dkim", "_dmarc", "_mta-sts", "_smtp._tls", "default._bimi"} \subseteq DOMAIN Txt
    /\ \A q \in DOMAIN Txt : \A a \in Txt[q] : Answers(a)
    /\ \A zone \in SpfZones : \A d \in Target : Answers(zone[d])
    /\ Policies \subseteq Seq([key : STRING, val : STRING])

VARIABLES
    report,      \* the command that runs
    stage,       \* how many of its checks are done
    statuses,    \* the verdicts of its findings so far
    walk,        \* how far the SPF lookups are counted
    policy,      \* the DMARC policy found, for BIMI
    seenLive,    \* dns check: the values the answers held
    counted,     \* dns check: the desired values counted as correct
    sound,       \* history: checks whose source answered and was sound
    flaw, silent \* history: did a source show a flaw, did one not answer?

reported == <<report, stage, statuses, policy, seenLive, counted, sound, flaw, silent>>
vars == <<walk, reported>>

-----------------------------------------------------------------------------
(* The evaluators: from what was answered to verdicts.                     *)
Get(r, k) == IF k \in DOMAIN r.tags THEN r.tags[k] ELSE ""

(* filterByTag: where the records of a version are, and the first of them. *)
Tagged(records, tag) == {i \in DOMAIN records : records[i].v = tag}
Sole(records, tag) == \E i \in DOMAIN records : Tagged(records, tag) = {i}
First(I) == CHOOSE i \in I : \A j \in I : i <= j
FirstOf(records, tag) == records[First(Tagged(records, tag))]

(* The terms of the sole SPF record at d.                                  *)
TermsOf(dns, d) == IF Sole(dns[d], "spf1") THEN FirstOf(dns[d], "spf1").terms ELSE <<>>

(* The qualifier of the first all, or "none".                              *)
SpfAllQualifier(terms) ==
    LET alls == {i \in DOMAIN terms : terms[i].mech = "all"}
    IN IF alls = {} THEN "none" ELSE terms[First(alls)].q

EvalSPF(records) ==
    IF ~Sole(records, "spf1") THEN "fail"
    ELSE CASE SpfAllQualifier(FirstOf(records, "spf1").terms) \in {"none", "?"} -> "warn"
           [] SpfAllQualifier(FirstOf(records, "spf1").terms) = "+" -> "fail"
           [] OTHER -> "pass"

Querying == {"a", "mx", "ptr", "exists"}
Following == {"include", "redirect"}

SpfLookupFinding(n, capped) ==
    CASE capped \/ n > SpfLimit -> "fail"
      [] ~capped /\ n \in SpfLimit - 2 .. SpfLimit -> "warn"
      [] OTHER -> "pass"

(* A record without the version tag counts if it has a p; then the first   *)
(* record decides.  "none" when there is none at all.                      *)
EvalDKIM(records) ==
    LET tagged == Tagged(records, "DKIM1")
        dk == IF tagged # {} THEN tagged
              ELSE {i \in DOMAIN records : "p" \in DOMAIN records[i].tags}
        key == records[First(dk)]
    IN CASE dk = {} -> "none"
         [] dk # {} /\ Get(key, "p") = "" -> "fail"
         [] dk # {} /\ Get(key, "p") # "" ->
              IF Get(key, "k") = "ed25519" THEN "pass"
              ELSE LET bits == KeyBits[key.tags["p"]]
                   IN CASE bits \in 1 .. 1023 -> "fail"
                        [] bits = 0 \/ bits \in 1024 .. 2047 -> "warn"
                        [] OTHER -> "pass"

EvalDMARC(records) ==
    LET dm == FirstOf(records, "DMARC1")
        p == Get(dm, "p")
    IN IF ~Sole(records, "DMARC1") THEN [policy |-> "", found |-> {"fail"}]
       ELSE [policy |-> p,
             found  |->
               {CASE p \in {"reject", "quarantine"} -> "pass"
                  [] p = "none" -> "warn"
                  [] OTHER -> "fail"}
               \union (IF "pct" \in DOMAIN dm.tags /\ dm.tags["pct"] # "100"
                       THEN {"warn"} ELSE {})
               \union {IF Get(dm, "rua") # "" THEN "pass" ELSE "warn"}]

EvalDNSSEC(dnskey, ds, ad) ==
    CASE ~dnskey -> "fail"
      [] dnskey /\ ~(ds /\ ad) -> "warn"
      [] OTHER -> "pass"

(* Hosts go by their place in the MX order: tlsa[h] is [vals, ad], without *)
(* values where the lookup fails; cert[h] is a "3 1 1" value or "down".    *)
Publishing(tlsa) == {h \in DOMAIN tlsa : tlsa[h].vals # {}}
Published(tlsa) == UNION {tlsa[h].vals : h \in DOMAIN tlsa}

ClassifyDANE(tlsa) ==
    CASE Publishing(tlsa) = {} -> "info"
      [] Publishing(tlsa) # {} /\ \E h \in Publishing(tlsa) : ~tlsa[h].ad -> "fail"
      [] OTHER -> "pass"

(* The first host that answers decides, against the values of all of them. *)
VerifyDANEMatch(tlsa, cert) ==
    LET up == {h \in Publishing(tlsa) : cert[h] # "down"}
    IN CASE Published(tlsa) \intersect Usable311 = {} -> "pass"
         [] Published(tlsa) \intersect Usable311 # {} /\ up = {} -> "warn"
         [] OTHER -> IF cert[First(up)] \in Published(tlsa) THEN "pass" ELSE "fail"

EvalDANE(tlsa, cert) ==
    IF ClassifyDANE(tlsa) # "pass" THEN ClassifyDANE(tlsa) ELSE VerifyDANEMatch(tlsa, cert)

EvalMTASTSRecord(records) ==
    CASE Tagged(records, "STSv1") = {} -> "info"
      [] Sole(records, "STSv1") -> IF Get(FirstOf(records, "STSv1"), "id") # "" THEN "pass"
                                   ELSE "fail"
      [] OTHER -> "fail"

(* The first mode of the body decides; enforce and testing need an mx.     *)
Keyed(body, key) == {i \in DOMAIN body : body[i].key = key}
EvalMTASTSPolicy(body) ==
    LET modes == Keyed(body, "mode")
        mode == IF modes = {} THEN "" ELSE body[First(modes)].val
        noMx == Keyed(body, "mx") = {}
    IN CASE mode = "enforce" /\ ~noMx -> "pass"
         [] mode = "testing" /\ ~noMx -> "warn"
         [] mode = "none" -> "warn"
         [] OTHER -> "fail"

(* doctor and dns publish ask less: any line that says enforce.  No body   *)
(* when the endpoint is down or its answer is not 200.                     *)
PolicyEnforces(body) == \E i \in Keyed(body, "mode") : body[i].val = "enforce"
MtaStsReady(body) == body # <<>> /\ PolicyEnforces(body)

EvalTLSRPT(records) ==
    IF Tagged(records, "TLSRPTv1") = {} THEN "info"
    ELSE IF Get(FirstOf(records, "TLSRPTv1"), "rua") # "" THEN "pass" ELSE "warn"

EvalBIMI(records, dmarcPolicy) ==
    LET bimi == FirstOf(records, "BIMI1")
    IN CASE Tagged(records, "BIMI1") = {} -> "info"
         [] Tagged(records, "BIMI1") # {} /\ Get(bimi, "l") = "" -> "fail"
         [] OTHER -> IF dmarcPolicy \in {"quarantine", "reject"} /\ Get(bimi, "a") # ""
                     THEN "pass" ELSE "warn"

(* The worst verdict that is not info.                                     *)
Grade(found) ==
    CASE "fail" \in found -> "fail"
      [] "fail" \notin found /\ "warn" \in found -> "warn"
      [] OTHER -> "pass"

-----------------------------------------------------------------------------
(* What is sound, said of the sources and not of the verdicts.             *)

(* The domains reached from "@" by include and redirect, however they are  *)
(* come by, and the queries that the records of all of them cost.          *)
Sources == Target \union {"@"}
Follows(dns, d) ==
    {TermsOf(dns, d)[i].arg :
        i \in {k \in DOMAIN TermsOf(dns, d) : TermsOf(dns, d)[k].mech \in Following}} \ {""}
Reached(dns) ==
    {d \in Sources : \A S \in SUBSET Sources :
        "@" \in S /\ (\A e \in S : Follows(dns, e) \subseteq S) => d \in S}
Costs(dns, d) ==
    {i \in DOMAIN TermsOf(dns, d) : TermsOf(dns, d)[i].mech \in Querying \union Following}
Queries(dns) == UNION {{d} \X Costs(dns, d) : d \in Reached(dns)}

SoundSPF(dns) ==
    LET records == dns["@"] IN
    \E k \in DOMAIN records :
        /\ records[k].v = "spf1" /\ \A j \in DOMAIN records : records[j].v = "spf1" => j = k
        /\ \E i \in DOMAIN records[k].terms :
              /\ records[k].terms[i].mech = "all" /\ records[k].terms[i].q \in {"-", "~"}
              /\ \A j \in 1 .. i - 1 : records[k].terms[j].mech # "all"
        /\ Cardinality(Queries(dns)) <= SpfLimit

SoundDMARC(records) ==
    \E k \in DOMAIN records :
        /\ records[k].v = "DMARC1"
        /\ \A j \in DOMAIN records : records[j].v = "DMARC1" => j = k
        /\ Get(records[k], "p") \in {"quarantine", "reject"} /\ Get(records[k], "rua") # ""
        /\ Get(records[k], "pct") \in {"", "100"}

(* Every host that publishes TLSA is signed; and where a single one does,  *)
(* with a usable value, it answers with a certificate it publishes itself. *)
(* Where several do, the code goes by the first that answers and by the    *)
(* values of them all, so that it does not see the mismatch of another,    *)
(* though "a reachable non-match is a hard Fail" (audit.go:314); of their  *)
(* certificates nothing is said here.                                      *)
ShowsItsOwn(tlsa, cert, h) ==
    tlsa[h].vals \intersect Usable311 # {} => cert[h] \in tlsa[h].vals
SoundDANE(tlsa, cert) ==
    \A h \in Publishing(tlsa) :
        tlsa[h].ad /\ (Publishing(tlsa) = {h} => ShowsItsOwn(tlsa, cert, h))

-----------------------------------------------------------------------------
(* The checks of each command, in their order.                             *)
Audit == <<"SPF", "DKIM", "DMARC", "DNSSEC", "DANE", "STS", "STS policy", "TLS-RPT", "BIMI">>
RunDoctor == <<"services", "ports", "rspamd", "tls", "dane out", "dane cert", "resolver",
               "mta-sts">>
ResolveLive == SetToSeq({QueryOf[d] : d \in Desired}) \o <<"compare">>
ConfigCheck == <<"load", "files", "secrets">>

Auditing == report \in {"audit", "audit guessed"}
Checks ==
    CASE Auditing -> Audit
      [] report = "doctor" -> RunDoctor
      [] report = "dns check" -> ResolveLive
      [] report = "config check" -> ConfigCheck
      [] report = "none" -> <<>>

Required == {"SPF", "DMARC", "DNSSEC"}

(* No SPF record is gone through.                                          *)
NoWalk == [dns |-> <<>>, stack |-> <<>>, met |-> {}, mute |-> {}, n |-> 0]

Init ==
    /\ report = "none" /\ stage = 0 /\ statuses = {} /\ walk = NoWalk /\ policy = ""
    /\ seenLive = {} /\ counted = {} /\ sound = {} /\ flaw = FALSE /\ silent = FALSE

(* Without a selector on the command line or in the database dns audit     *)
(* tries well-known ones and passes over those that do not exist.          *)
Start ==
    /\ report = "none"
    /\ report' \in {"audit", "audit guessed", "doctor", "dns check", "config check"}
    /\ UNCHANGED <<stage, statuses, walk, policy, seenLive, counted, sound, flaw, silent>>

At(check) == stage < Len(Checks) /\ Checks[stage + 1] = check
Ended == report # "none" /\ stage = Len(Checks)

(* A check comes to its verdicts: did all it asks answer, and is what did  *)
(* answer sound?                                                           *)
Judged(check, verdicts, answered, ok) ==
    /\ At(check)
    /\ stage' = stage + 1
    /\ statuses' = statuses \union verdicts
    /\ sound' = IF answered /\ ok THEN sound \union ({check} \intersect Required) ELSE sound
    /\ flaw' = (flaw \/ ~ok)
    /\ silent' = (silent \/ ~answered)
    /\ UNCHANGED <<report, seenLive, counted>>

(* A check with a single source: silent, it shows no flaw.                 *)
Found(check, verdicts, answered, ok) == Judged(check, verdicts, answered, answered => ok)

(* An answer to a TXT query, or none: the audit takes an error for the     *)
(* absence of records.                                                     *)
Answered(q) == {<<r, TRUE>> : r \in Txt[q]} \union {<<<<>>, FALSE>>}

-----------------------------------------------------------------------------
(* The SPF record, and the DNS lookups it and what it includes cost: the   *)
(* records that are gone through, each with the next term and the count it *)
(* began with, the domains met, those of them whose lookup failed and the  *)
(* count.                                                                  *)
AuditSPF ==
    /\ At("SPF") /\ walk = NoWalk
    /\ \E a \in Answered("@"), zone \in SpfZones :
          LET dns == [d \in Sources |-> IF d = "@" THEN a[1] ELSE zone[d]]
          IN \/ /\ Sole(a[1], "spf1")
                /\ walk' = [dns |-> dns, stack |-> <<[dom |-> "@", next |-> 1, from |-> 0]>>,
                            met |-> {"@"}, mute |-> {}, n |-> 0]
                /\ UNCHANGED reported
             \/ /\ ~Sole(a[1], "spf1")
                /\ Found("SPF", {EvalSPF(a[1])}, a[2], SoundSPF(dns))
                /\ UNCHANGED <<policy, walk>>

SpfDone(w, capped) ==
    /\ Judged("SPF", {EvalSPF(w.dns["@"]), SpfLookupFinding(w.n, capped)}, w.mute = {},
              SoundSPF(w.dns))
    /\ walk' = [NoWalk EXCEPT !.mute = w.mute]
    /\ UNCHANGED policy

Top(w) == w.stack[Len(w.stack)]
Terms == TermsOf(walk.dns, Top(walk).dom)
Term == Terms[Top(walk).next]
Walking == walk.stack # <<>>
AtTerm == Walking /\ Top(walk).next \in DOMAIN Terms
PastTerm(cost) ==
    [walk EXCEPT !.stack[Len(walk.stack)].next = @ + 1, !.n = @ + cost]

(* A record whose own count is over the limit ends it all.                 *)
GoOn(w) ==
    \/ w.n - Top(w).from > SpfLimit /\ SpfDone(w, TRUE)
    \/ w.n - Top(w).from <= SpfLimit /\ walk' = w /\ UNCHANGED reported

CountTerm ==
    /\ AtTerm
    /\ \/ Term.mech \in Querying /\ GoOn(PastTerm(1))
       \/ Term.mech \notin Querying \union Following /\ GoOn(PastTerm(0))

(* A domain met before is counted and passed by, whatever the limit.       *)
PassByTarget ==
    /\ AtTerm /\ Term.mech \in Following /\ Term.arg \in walk.met \union {""}
    /\ walk' = PastTerm(1)
    /\ UNCHANGED reported

(* A target that does not answer is taken for one without a record: dns    *)
(* holds what was answered, and the failure leaves no other trace.         *)
Unanswered(w, d) == [w EXCEPT !.dns[d] = <<>>, !.mute = @ \union {d}]

FollowTarget ==
    /\ AtTerm /\ Term.mech \in Following /\ Term.arg \notin walk.met \union {""}
    /\ LET met == [PastTerm(1) EXCEPT !.met = @ \union {Term.arg}]
           frame == [dom |-> Term.arg, next |-> 1, from |-> met.n]
           sole == Sole(walk.dns[Term.arg], "spf1")
           tooDeep == Len(walk.stack) > SpfDepth
       IN \/ GoOn(Unanswered(met, Term.arg))
          \/ ~sole /\ GoOn(met)
          \/ sole /\ tooDeep /\ SpfDone(met, TRUE)
          \/ /\ sole /\ ~tooDeep
             /\ walk' = [met EXCEPT !.stack = Append(@, frame)]
             /\ UNCHANGED reported

(* A bug the return might have: what the included record cost is not added *)
(* to the count of the one that includes it.                               *)
ReturnedUncounted(w) ==
    [w EXCEPT !.stack = SubSeq(@, 1, Len(@) - 1), !.n = Top(w).from]

Returned(w) == [w EXCEPT !.stack = SubSeq(@, 1, Len(@) - 1)]

EndOfRecord ==
    /\ Walking /\ ~AtTerm
    /\ \/ Len(walk.stack) > 1 /\ GoOn(Returned(walk))
       \/ Len(walk.stack) = 1 /\ SpfDone(walk, FALSE)

AuditDKIM ==
    \E a, b \in Answered("dkim") :
        LET found == IF report = "audit" THEN {EvalDKIM(a[1])}
                     ELSE {EvalDKIM(a[1]), EvalDKIM(b[1])} \ {"none"}
        IN Found("DKIM", {IF f = "none" THEN "warn" ELSE f : f \in found},
                 a[2] /\ (report = "audit" \/ b[2]), TRUE)
           /\ UNCHANGED <<policy, walk>>

AuditDMARC ==
    \E a \in Answered("_dmarc") :
        /\ Found("DMARC", EvalDMARC(a[1]).found, a[2], SoundDMARC(a[1]))
        /\ policy' = EvalDMARC(a[1]).policy
        /\ UNCHANGED walk

(* A DS query that fails counts as no DS; without a DNSKEY answer there is *)
(* no verdict but a warning.                                               *)
AuditDNSSEC ==
    /\ \/ \E dnskey, ds, ad, asked \in BOOLEAN :
             Found("DNSSEC", {EvalDNSSEC(dnskey, ds /\ asked, ad)}, asked, dnskey /\ ds /\ ad)
       \/ Found("DNSSEC", {"warn"}, FALSE, FALSE)
    /\ UNCHANGED <<policy, walk>>

AuditDANE ==
    /\ \/ \E n \in 0 .. MaxHosts :
             \E tlsa \in [1 .. n -> [vals : SUBSET TlsaValue, ad : BOOLEAN]],
                cert \in [1 .. n -> Usable311 \union {"down"}] :
             Found("DANE", {EvalDANE(tlsa, cert)}, TRUE, SoundDANE(tlsa, cert))
       \/ Found("DANE", {"warn"}, FALSE, FALSE)
    /\ UNCHANGED <<policy, walk>>

AuditMTASTSRecord ==
    \E a \in Answered("_mta-sts") :
        Found("STS", {EvalMTASTSRecord(a[1])}, a[2],
              \A i, j \in Tagged(a[1], "STSv1") : i = j /\ Get(a[1][i], "id") # "")
        /\ UNCHANGED <<policy, walk>>

(* A policy that cannot be fetched is none; one cut short is a failure.    *)
FetchMTASTSPolicy ==
    /\ \/ \E body \in Policies :
             Found("STS policy", {EvalMTASTSPolicy(body)}, TRUE,
                   PolicyEnforces(body) /\ Keyed(body, "mx") # {})
       \/ \E s \in {"info", "fail"} : Found("STS policy", {s}, FALSE, FALSE)
    /\ UNCHANGED <<policy, walk>>

AuditTLSRPT ==
    \E a \in Answered("_smtp._tls") :
        Found("TLS-RPT", {EvalTLSRPT(a[1])}, a[2], TRUE) /\ UNCHANGED <<policy, walk>>

(* A logo is shown only under a DMARC policy that is enforced.             *)
AuditBIMI ==
    \E a \in Answered("default._bimi") :
        Found("BIMI", {EvalBIMI(a[1], policy)}, a[2],
              Tagged(a[1], "BIMI1") # {} => policy \in {"quarantine", "reject"})
        /\ UNCHANGED <<policy, walk>>

-----------------------------------------------------------------------------
(* doctor.  The first unit whose state cannot be read hides all others.    *)
ServiceChecks ==
    \E state \in [Allowed -> {"active", "failed", "unreadable"}] :
        LET unread == \E u \in Allowed : state[u] = "unreadable"
        IN Found("services",
                 IF unread THEN {"error"}
                 ELSE {IF state[u] = "active" THEN "ok" ELSE "fail" : u \in Allowed},
                 ~unread, \A u \in Allowed : state[u] = "active")
           /\ UNCHANGED <<policy, walk>>

PortCheck ==
    /\ \/ \E listening \in SUBSET ExpectedPort :
             Found("ports", {IF ExpectedPort \ listening = {} THEN "ok" ELSE "fail"},
                   TRUE, ExpectedPort \subseteq listening)
       \/ Found("ports", {"error"}, FALSE, FALSE)
    /\ UNCHANGED <<policy, walk>>

(* A configtest that cannot be run fails like one that finds an error.     *)
RspamdCheck ==
    /\ \E ok, ran \in BOOLEAN :
          Found("rspamd", {IF ok /\ ran THEN "ok" ELSE "fail"}, ran, ok)
    /\ UNCHANGED <<policy, walk>>

(* No readable certificate is only a warning: it may be yet to be issued.  *)
TlsCheck ==
    /\ \E read \in BOOLEAN :
          Found("tls", {IF read THEN "ok" ELSE "warn"}, TRUE, TRUE)
    /\ UNCHANGED <<policy, walk>>

ClassifyDANEOutbound(level, support) ==
    CASE level \notin {"dane", "dane-only"} -> "warn"
      [] level \in {"dane", "dane-only"} /\ support # "dnssec" -> "fail"
      [] OTHER -> "ok"

DaneOutboundCheck ==
    /\ \/ \E level \in {"may", "dane", "dane-only", ""}, support \in {"dnssec", "enabled", ""} :
             Found("dane out", {ClassifyDANEOutbound(level, support)}, TRUE,
                   level \in {"dane", "dane-only"} => support = "dnssec")
       \/ Found("dane out", {"error"}, FALSE, FALSE)
    /\ UNCHANGED <<policy, walk>>

DaneCertCheck ==
    /\ \/ \E got \in {"", "the DANE source", "another"} :
             Found("dane cert", {IF got = "the DANE source" THEN "ok" ELSE "warn"}, TRUE, TRUE)
       \/ Found("dane cert", {"error"}, FALSE, FALSE)
    /\ UNCHANGED <<policy, walk>>

ClassifyResolver(servers) == IF "loopback" \in ToSet(servers) THEN "ok" ELSE "warn"

ResolverCheck ==
    /\ \E servers \in {<<>>, <<"remote">>, <<"remote", "loopback">>} :
          Found("resolver", {ClassifyResolver(servers)}, TRUE, TRUE)
    /\ UNCHANGED <<policy, walk>>

(* One verdict per active domain; an endpoint that is down is a warning.   *)
MtaStsEndpointChecks ==
    /\ \/ \E n \in 0 .. MaxDomains : \E body \in [1 .. n -> Policies \union {<<>>}] :
             Found("mta-sts", {IF MtaStsReady(body[i]) THEN "ok" ELSE "warn" : i \in 1 .. n},
                   TRUE, TRUE)
       \/ Found("mta-sts", {"error"}, FALSE, FALSE)
    /\ UNCHANGED <<policy, walk>>

(* Only a failure makes doctor exit with an error.                         *)
AnyFailed(found) == "fail" \in found

-----------------------------------------------------------------------------
(* dns check: one query per type and name; one that fails yields nothing.  *)
Query ==
    /\ stage < Len(Checks) - 1
    /\ \E got \in SUBSET {v \in Value : QueryOf[v] = Checks[stage + 1]} :
          seenLive' = seenLive \union got
    /\ stage' = stage + 1
    /\ UNCHANGED <<report, statuses, walk, policy, counted, sound, flaw, silent>>

(* What the plan of provider.go leaves unchanged is counted as correct.    *)
Compare ==
    /\ At("compare")
    /\ \E plan \in Plans({[id |-> v, val |-> v] : v \in seenLive}) :
          counted' = Desired \ (plan.add \union {e.to : e \in plan.edit})
    /\ stage' = stage + 1
    /\ UNCHANGED <<report, statuses, walk, policy, seenLive, sound, flaw, silent>>

(* config check, after the load every command begins with: directories and *)
(* the service file are there, secrets.env is its owner's, and a secret is *)
(* set for each provider there is.                                         *)
RunConfigCheck ==
    \/ /\ Found("load", {"ok"}, TRUE, TRUE) /\ UNCHANGED <<policy, walk>>
    \/ /\ \E there \in BOOLEAN : Found("files", {IF there THEN "ok" ELSE "fail"}, TRUE, there)
       /\ UNCHANGED <<policy, walk>>
    \/ /\ \E private, complete \in BOOLEAN :
             Found("secrets", {IF private THEN "ok" ELSE "fail", IF complete THEN "ok" ELSE "fail"},
                   TRUE, private)
       /\ UNCHANGED <<policy, walk>>

Next ==
    \/ Start
    \/ /\ Auditing
       /\ \/ AuditSPF \/ CountTerm \/ PassByTarget \/ FollowTarget \/ EndOfRecord
          \/ AuditDKIM \/ AuditDMARC \/ AuditDNSSEC \/ AuditDANE
          \/ AuditMTASTSRecord \/ FetchMTASTSPolicy \/ AuditTLSRPT \/ AuditBIMI
    \/ /\ report = "doctor"
       /\ \/ ServiceChecks \/ PortCheck \/ RspamdCheck \/ TlsCheck \/ DaneOutboundCheck
          \/ DaneCertCheck \/ ResolverCheck \/ MtaStsEndpointChecks
    \/ report = "dns check" /\ (Query \/ Compare)
    \/ report = "config check" /\ RunConfigCheck

Spec == Init /\ [][Next]_vars

-----------------------------------------------------------------------------
(* A good report is earned, whatever its sources hold and whichever do not *)
(* answer.  An audit graded PASS had DMARC and DNSSEC answered and found   *)
(* sound, and SPF with the queries of every record it includes, unless the *)
(* lookup of an include failed (audit.go:217 drops the error): then SPF is *)
(* sound as far as it was answered, and the count may be too low.  And it  *)
(* saw no flaw in what is optional (audit.go:67-69).  A doctor or a config *)
(* check that exits with 0 and had every answer saw none either            *)
(* (doctor.go:379-380); and a record dns check counts as correct is one    *)
(* that public DNS was seen to hold.                                       *)
PassIsEarned ==
    /\ Ended /\ Auditing /\ Grade(statuses) = "pass" =>
          ~flaw /\ sound = (IF walk.mute = {} THEN Required ELSE Required \ {"SPF"})
    /\ Ended /\ report \in {"doctor", "config check"} /\ ~AnyFailed(statuses) /\ ~silent
          => ~flaw
    /\ \A d \in counted : \E v \in seenLive : SameContent(v, d)

=============================================================================
