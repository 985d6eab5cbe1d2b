---------------------------- MODULE SerialStore ----------------------------
(***************************************************************************)
(* What the store promises the server: operations take effect one after    *)
(* the other in the order in which they were called, each completely or    *)
(* not at all; one that is reported done took effect, one that is reported *)
(* failed did not; a crash loses the calls that were not reported yet and  *)
(* nothing else.  There are no files here, no temporary ones and no reads  *)
(* and writes that could be interrupted.                                   *)
(***************************************************************************)
EXTENDS Sequences

CONSTANTS Update,   \* calls that change part of the database
          Replace   \* calls that replace the whole database: import and reset

Op == Update \cup Replace

VARIABLES db,       \* the database: the calls it is the result of
          pending,  \* the calls not reported yet, in the order they were made
          applied,  \* whether the first pending call has been decided to succeed
          outcome   \* what every call was told

vars == <<db, pending, applied, outcome>>

Init == /\ db = <<>>
        /\ pending = <<>>
        /\ applied = FALSE
        /\ outcome = [o \in Op |-> "none"]

Call(o) == /\ outcome[o] = "none"
           /\ pending' = Append(pending, o)
           /\ outcome' = [outcome EXCEPT ![o] = "pending"]
           /\ UNCHANGED <<db, applied>>

\* The first pending call succeeds; an update may find that it changes nothing.
Apply(o) == /\ pending # <<>>
            /\ o = Head(pending)
            /\ ~applied
            /\ applied' = TRUE
            /\ \/ o \in Update /\ db' = Append(db, o)
               \/ o \in Update /\ db' = db
               \/ o \in Replace /\ db' = <<o>>
            /\ UNCHANGED <<pending, outcome>>

Report(o) == /\ pending # <<>>
             /\ o = Head(pending)
             /\ pending' = Tail(pending)
             /\ outcome' = [outcome EXCEPT ![o] = IF applied THEN "done" ELSE "failed"]
             /\ applied' = FALSE
             /\ UNCHANGED db

Crash == /\ pending' = <<>>
         /\ applied' = FALSE
         /\ outcome' = [o \in Op |-> IF outcome[o] = "pending" THEN "lost" ELSE outcome[o]]
         /\ UNCHANGED db

Next == \/ \E o \in Op : Call(o) \/ Apply(o) \/ Report(o)
        \/ Crash

Spec == Init /\ [][Next]_vars
=============================================================================
