------------------------------- MODULE Timing -------------------------------
(***************************************************************************)
(* The stopwatch of testutil.c: two readings of the system clock, in       *)
(* seconds and microseconds of a ULONG each, and what lies between them.   *)
(***************************************************************************)
EXTENDS Integers

CONSTANTS
    MicrosPerSec,   \* 1000000
    PerMs,          \* microseconds in a millisecond (1000)
    ULongRange      \* 2^32: a ULONG holds 0..ULongRange-1

ASSUME TimingAssumption == {MicrosPerSec, PerMs, ULongRange} \subseteq Nat \ {0}

ULong(n) == n % ULongRange

\* timer_now, at an instant counted in microseconds
bst_timestamp(t) == [ts_secs |-> ULong(t \div MicrosPerSec), ts_micro |-> t % MicrosPerSec]

\* A ULONG of seconds, which may wrap below 0, and a LONG of microseconds
timer_elapsed_us(start, end) ==
    LET micro  == end.ts_micro - start.ts_micro
        borrow == IF micro < 0 THEN 1 ELSE 0
        secs   == ULong(end.ts_secs - start.ts_secs - borrow)
    IN  ULong(secs * MicrosPerSec + micro + borrow * MicrosPerSec)

\* us % 1000 >= 500 rounds up
Milliseconds(us) == us \div PerMs + IF 2 * (us % PerMs) >= PerMs THEN 1 ELSE 0

timer_elapsed_ms(start, end) == Milliseconds(timer_elapsed_us(start, end))
=============================================================================
