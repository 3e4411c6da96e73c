------------------------------ MODULE MCSuite ------------------------------
(* Three categories of two, two and one tests, of which the second category *)
(* has a network test; a profile with a known failure and a known crash.    *)
EXTENDS SuiteProperties

MCTable == <<[name |-> "socket", tier |-> {"loopback"}, size |-> 2],
             [name |-> "dns", tier |-> {"loopback", "network"}, size |-> 2],
             [name |-> "misc", tier |-> {"loopback"}, size |-> 1]>>
MCProfiles == <<[match |-> <<"UAE">>, failures |-> {2}, crashes |-> {3}]>>
MCVersions == {<<"UAE", "7.1.1">>}
MCFilters  == {"none", "dns", "bogus"}
=============================================================================
