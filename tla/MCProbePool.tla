---------------------------- MODULE MCProbePool ----------------------------
(***************************************************************************)
(* Five targets and three workers: workers take one, two or three targets  *)
(* each, in any order, and abort or fail at any of them.                   *)
(***************************************************************************)
EXTENDS ProbePool
=============================================================================
