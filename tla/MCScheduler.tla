---------------------------- MODULE MCScheduler ----------------------------
(***************************************************************************)
(* Small instances of Scheduler.                                           *)
(***************************************************************************)
EXTENDS Scheduler, TLC

\* The slots for requests and the valid schedules are interchangeable.
Symmetry == Permutations(Requests) \cup Permutations(ValidSchedules)
===========================================================================
