------------------------ MODULE MCServiceScheduler ------------------------
(***************************************************************************)
(* Two schedules, one with the interval of one unit of time and one with   *)
(* two, which users may make one; two ticks, a manual run and two patches: *)
(* a tick may find both due, and run the second one long after it has read *)
(* it, when its interval has changed.                                      *)
(***************************************************************************)
EXTENDS ServiceScheduler
CONSTANTS a, b
MCInterval == [id \in Schedule |-> IF id = a THEN 1 ELSE 2]
=============================================================================
