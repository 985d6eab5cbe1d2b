---------------------------- MODULE MCWebClient ----------------------------
(***************************************************************************)
(* One page: two hardware addresses, a file with a database and one        *)
(* without.                                                                *)
(***************************************************************************)
EXTENDS WebClient
=============================================================================
