--------------------------- MODULE MCJsonStore ---------------------------
(***************************************************************************)
(* One update, two replacements and a reader, one backup kept, one crash:  *)
(* the second replacement prunes the backup of the first one, and the      *)
(* crash may leave a backup whose replacement never happened.              *)
(***************************************************************************)
EXTENDS JsonStore
=============================================================================
