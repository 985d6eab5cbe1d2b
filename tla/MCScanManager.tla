-------------------------- MODULE MCScanManager --------------------------
(***************************************************************************)
(* Four jobs and a map of two: start() trims twice, among finished jobs of *)
(* every kind.                                                             *)
(***************************************************************************)
EXTENDS ScanManager
=============================================================================
