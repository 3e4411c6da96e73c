------------------------------- MODULE MCPing -------------------------------
(* Two pings of test 135 and one that nobody answers, with a timeout of    *)
(* two milliseconds of four microseconds.  A second has eight of them, and *)
(* the seconds wrap at 16: a ping that starts at 126 sees both.            *)
EXTENDS Ping

FreshAndWrapping == {0, 126}

(* Timing against its definition, over every pair of instants of more than *)
(* two turns of the seconds.                                               *)
ASSUME \A s \in 0..300, e \in 0..300 :
    timer_elapsed_us(bst_timestamp(s), bst_timestamp(e)) = (e - s) % ULongRange
=============================================================================
