------------------------------- MODULE MCData -------------------------------
(* An echo test and a sink test at the same time, of two Amigas.           *)
EXTENDS DataProperties

MCService == [t \in Transfers |-> IF t = "test42" THEN "echo" ELSE "sink"]
MCSize    == [t \in Transfers |-> IF t = "test42" THEN 4 ELSE 3]
MCNeeded  == [t \in Transfers |-> IF t = "test42" THEN 4 ELSE 1]
=============================================================================
