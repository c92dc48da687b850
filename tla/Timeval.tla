------------------------------- MODULE Timeval -------------------------------
(****************************************************************************)
(* timeval.c: instants and the millisecond arithmetic on them.              *)
(*                                                                          *)
(* A struct timeval is modelled by the number of clock ticks since the      *)
(* epoch.  A tick is the resolution of gettimeofday, and the program counts *)
(* in milliseconds of TicksPerMs ticks (1000 in the code) and in seconds of *)
(* MsPerSec milliseconds (1000 in the code).  The second matters because    *)
(* time_elapsed works on the two fields of a timeval apart.                 *)
(****************************************************************************)
EXTENDS Integers

CONSTANTS TicksPerMs,   \* ticks of the clock in a millisecond
          MsPerSec      \* milliseconds in a second

ASSUME TimevalAssumption == /\ TicksPerMs \in Nat \ {0}
                            /\ MsPerSec \in Nat \ {0}

TicksPerSec == MsPerSec * TicksPerMs

\* The fields of a normalised timeval.
tv_sec(t)  == t \div TicksPerSec
tv_usec(t) == t % TicksPerSec

\* timeval_adjust: the instant ms milliseconds after t.
timeval_adjust(t, ms) == t + ms * TicksPerMs

\* C division truncates towards zero, \div rounds down.
TruncMs(x) == IF x >= 0 THEN x \div TicksPerMs ELSE -((-x) \div TicksPerMs)

\* time_elapsed: the seconds are subtracted exactly and the microseconds are
\* truncated, so the result is rounded down when the microseconds of end are
\* at least those of start and rounded up otherwise.
time_elapsed(start, end) ==
    (tv_sec(end) - tv_sec(start)) * MsPerSec
        + TruncMs(tv_usec(end) - tv_usec(start))

AtLeastZero(ms) == IF ms < 0 THEN 0 ELSE ms

\* The clamped forms, with the reading of the clock as first argument.
time_from_now(now, t) == AtLeastZero(time_elapsed(now, t))
time_since(now, t)    == AtLeastZero(time_elapsed(t, now))
==============================================================================
