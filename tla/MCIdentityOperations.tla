---------------------- MODULE MCIdentityOperations ----------------------
(***************************************************************************)
(* A device a with three addresses on one interface, a device b with one,  *)
(* which also advertises a virtual address, and the devices that splits    *)
(* make.  Older files: none, one with its whole log, in which a split came *)
(* after a merge, and one that has lost the log.                           *)
(***************************************************************************)
EXTENDS IdentityOperations

MCRaw ==
    [devices |-> [d \in {"a", "b"} |->
                     IF d = "a" THEN [interfaces |-> {<<"a", "ma">>}, assignments |-> {1, 2, 3}, sources |-> {}]
                     ELSE [interfaces |-> {<<"b", "mb">>}, assignments |-> {4, 5}, sources |-> {}]],
     interfaces |-> [i \in {<<"a", "ma">>, <<"b", "mb">>} |-> [device |-> i[1], mac |-> i[2], visible |-> TRUE]],
     assignments |-> [n \in 1..5 |->
                         CASE n <= 3 -> [device |-> "a", interface |-> <<"a", "ma">>, advertisedBy |-> {}, visible |-> TRUE]
                           [] n = 4 -> [device |-> "b", interface |-> <<"b", "mb">>, advertisedBy |-> {}, visible |-> TRUE]
                           [] n = 5 -> [device |-> "none", interface |-> <<>>, advertisedBy |-> {"b"}, visible |-> TRUE]]]

MCMergeInput == [sources : {{"a", "b"}, {"a", "x"}}, target : {"a", "x"}]
MCSplitInput == [source : {"a", "x"}, addresses : {{2}, {1, 4}}, target : {"x", "y"}]
MCManualId == [n \in 1..5 |-> IF n = 2 THEN "x" ELSE "y"]

AMerge == [id |-> 1, sequence |-> 0, sources |-> {"a", "b"}, target |-> "b"]
ASplit == [id |-> 2, sequence |-> 0, source |-> "b", addresses |-> {4}, target |-> "x"]
Log == <<<<<<"merge", 1>>>>, <<<<"split", 2>>>>>>
MCLegacy ==
    {[overrides |-> [merges |-> <<>>, splits |-> <<>>, audit |-> <<>>], history |-> <<>>],
     [overrides |-> [merges |-> <<AMerge>>, splits |-> <<ASplit>>, audit |-> Log],
      history |-> <<<<"merge", 1>>, <<"split", 2>>>>],
     [overrides |-> [merges |-> <<AMerge>>, splits |-> <<ASplit>>, audit |-> <<<<>>, <<>>>>],
      history |-> <<<<"split", 2>>, <<"merge", 1>>>>]}
=============================================================================
