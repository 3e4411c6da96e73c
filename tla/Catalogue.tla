------------------------------ MODULE Catalogue ------------------------------
(***************************************************************************)
(* The data the program is built with: the category table (main.c), the    *)
(* known-failures profiles (known_failures.c), and which of the documented *)
(* tests need the helper or ask known_crash() first (the test files).      *)
(***************************************************************************)
EXTENDS Naturals, Sequences

Category(name, tier, size) == [name |-> name, tier |-> tier, size |-> size]

Loopback == {"loopback"}
Both     == {"loopback", "network"}

\* A category's size is the number of tests its run function reports
RealTable ==
    << Category("socket", Loopback, 23),     Category("sendrecv", Both, 19),
       Category("sockopt", Loopback, 15),    Category("waitselect", Loopback, 15),
       Category("signals", Loopback, 15),    Category("dns", Both, 17),
       Category("utility", Loopback, 10),    Category("transfer", Loopback, 5),
       Category("errno", Loopback, 7),       Category("misc", Loopback, 5),
       Category("icmp", Both, 5),            Category("throughput", Both, 6) >>

Names    == {RealTable[c].name : c \in DOMAIN RealTable}
AllTests == 1..142

\* Tests that are skipped when helper_is_connected() is false
SendrecvNetwork   == 39..42
DnsNetwork        == {103, 104}
IcmpNetwork       == 133..135
ThroughputNetwork == {138, 140, 142}

HelperTests == SendrecvNetwork \union DnsNetwork \union IcmpNetwork \union ThroughputNetwork

\* Tests whose code asks known_crash() with a literal number
WaitselectGuarded == {70}
SignalsGuarded    == 79..85 \union {87}

AskKnownCrash == WaitselectGuarded \union SignalsGuarded
-----------------------------------------------------------------------------
(***************************************************************************)
(* The profiles, in the order known_init() tries them.  A token of a       *)
(* version string ends where the match strings do.                         *)
(***************************************************************************)
RoadshowProfile ==
    [match |-> <<"Roadshow">>, failures |-> {27, 35, 76, 77}, crashes |-> {}]

Amiberry711Profile ==
    [match |-> <<"UAE", "7.1.1">>,
     failures |-> {12, 15, 31, 32, 33, 35, 49, 50, 52, 55, 63, 78, 93, 94, 98,
                   111, 112, 113, 116, 125, 126, 128},
     crashes |-> {70} \union 79..85 \union {87}]

WinUAEProfile ==
    [match |-> <<"UAE", "6.0.2">>,
     failures |-> {35, 48, 52, 63, 69, 78, 98, 111, 112, 113, 116, 128},
     crashes |-> 79..85 \union {87}]

RealProfiles ==
    << RoadshowProfile,
       Amiberry711Profile,
       [match |-> <<"UAE", "8.0.0">>, failures |-> {}, crashes |-> {}],
       WinUAEProfile >>
=============================================================================
