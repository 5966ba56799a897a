---------------------------- MODULE ActiveTime ----------------------------
(***************************************************************************)
(* The idle-excluded active time of a session, as SQL derives it.          *)
(***************************************************************************)
EXTENDS Integers, FiniteSetsExt

(* eventGapActiveMs: the gaps between consecutive instants that are within *)
(* the idle cutoff, summed.  Ties of the (timestamp, id) order add zero,   *)
(* so the set of instants is enough.                                       *)
EventGapActiveMs(T, cutoff) ==
    LET gap(t) == IF t = Min(T) THEN 0 ELSE t - Max({u \in T : u < t})
    IN  MapThenSumSet(LAMBDA t : IF gap(t) <= cutoff THEN gap(t) ELSE 0, T)
============================================================================
