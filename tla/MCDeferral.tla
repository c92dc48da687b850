----------------------------- MODULE MCDeferral ------------------------------
(****************************************************************************)
(* Two receivers for TLC.  The clock has two ticks to the millisecond and a *)
(* second of four milliseconds, so that the fields of a timeval carry and   *)
(* the rounding of time_elapsed goes both ways.                             *)
(****************************************************************************)
EXTENDS Deferral, TLC

CONSTANTS d1, d2, left, stop

MCDpkts == {d1, d2}
MCCmds  == {left, stop}
MCStops == {stop}

\* d1 is written by a protocol without a gap, as manchester is, and d2 by one that
\* has a gap and drops a motion after 3 ms.
GapMixed     == d1 :> 0 @@ d2 :> 2
TimeoutMixed == d1 :> 1 @@ d2 :> 3

Holds    == {1, 5}
==============================================================================
