---------------------------- MODULE MCUdpProbes ----------------------------
(***************************************************************************)
(* Three addresses with one port, two workers, one retry and timers that   *)
(* may be one interval late.                                               *)
(***************************************************************************)
EXTENDS UdpProbes
=============================================================================
