---------------------------- MODULE MCSubmitWait ----------------------------
(***************************************************************************)
(* Small instances of SubmitWait.  A second is three poll intervals, the   *)
(* cap two seconds, and durations wrap at 32: eleven seconds is the first  *)
(* wait whose product is negative.                                         *)
(***************************************************************************)
EXTENDS SubmitWait

CONSTANTS k1, s1

Waits     == {-1, 0, 1, 11}
Timeouts  == {0, 1, 2, 11}
SmallCaps == {0, 1, 3}

=============================================================================
