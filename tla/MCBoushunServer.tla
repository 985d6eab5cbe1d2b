------------------------- MODULE MCBoushunServer -------------------------
(***************************************************************************)
(* MCBoushunServer.cfg: a manual scan, one run of the schedule by a tick   *)
(* or on demand, an import or reset, and a request that enables the        *)
(* schedule come in any order; the manual scan may give the baseline that  *)
(* the run is compared with.                                               *)
(***************************************************************************)
EXTENDS BoushunServer
=============================================================================
