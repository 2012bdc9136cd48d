---------------------------- MODULE MCZoneMigrate ----------------------------
(* A source with a wildcard, a delegated name and a type that is left      *)
(* behind; a target that may hold its delegation, one record of the source *)
(* already, and one of its own.                                            *)
EXTENDS ZoneMigrate

V(t, n, c) == [type |-> t, name |-> n, content |-> c, port |-> 0]

ApexNS == V("NS", "@", "ns1.old")
TargetNS == V("NS", "@", "ns1.target")
SubNS == V("NS", "lab", "ns.lab")
MX == V("MX", "@", "mail")
Wild == V("A", "*", "ip1")
Www == V("A", "www", "ip2")
Stray == V("A", "old", "ip3")
WildAlias == V("CNAME", "*", "host")

MCSourceZone == {ApexNS, SubNS, MX, Wild}
AliasSourceZone == {ApexNS, MX, WildAlias}
MCTransferable == {"A", "AAAA", "CNAME", "MX", "TXT", "SRV", "NS", "CAA", "PTR"}
MCProbed == {<<"@", "MX">>, <<"@", "NS">>, <<"www", "A">>}
MCTargetZones == {{}, {TargetNS, MX, Stray}}
MCDesired == {V("MX", "@", "mail")}
MCSchemeOf == [c \in {} |-> ""]
MCEditTo == {Www}
MCTlsa == V("TLSA", "_25._tcp", "3 1 1 new")

Migration(how, create, clean) ==
    [op |-> "migrate", how |-> how, create |-> create, clean |-> clean]
MCCommand ==
    [p \in Process |->
        IF p = "operator"
        THEN {Migration("from", FALSE, TRUE), Migration("probe", FALSE, FALSE),
              Migration("zonefile", TRUE, FALSE)}
        ELSE {Migration("axfr", FALSE, FALSE), [op |-> "check"], [op |-> "dane"]}]
=============================================================================
