------------------------ MODULE IdentityOperations ------------------------
(***************************************************************************)
(* Manual corrections of device identities: saveMerge, saveSplit and       *)
(* saveSplitBatch of the store, the order of the operations                *)
(* (domain/identity-operations.js), and the projection that applies them   *)
(* to a snapshot, in that order, each time it is shown.                    *)
(*                                                                         *)
(* The operations of older files have no sequence number: their order is   *)
(* that of the audit log, which keeps only its last entries.               *)
(***************************************************************************)
EXTENDS Inventory, Selection, FiniteSetsExt, SequencesExt

CONSTANTS Raw,           \* the inventory of a snapshot, before any correction
          MergeInput,    \* what users ask for: [sources, target]
          SplitInput,    \* and [source, addresses, target]
          ManualId,      \* the target of a recommended split, by address
          Legacy,        \* the overrides that older versions may have left, with the history
                         \* that they stand for
          AuditLimit,    \* the audit log keeps so many entries
          MaxOperations  \* bound: how many operations are recorded

\* Addresses are numbers: a recommended split orders them.
ASSUME IdentityAssumption ==
    /\ Address \subseteq Nat /\ IsFiniteSet(Address)
    /\ IsInventory(Raw) /\ ReferencesHold(Raw)
    /\ MergeInput \subseteq MergeOperation /\ SplitInput \subseteq SplitOperation
    /\ ManualId \in [Address -> DeviceId]
    /\ AuditLimit \in Nat \ {0} /\ MaxOperations \in Nat

VARIABLES overrides, \* merges, splits and audit as they are stored
          history    \* history: the operations in the order in which they were recorded

correctionVars == <<overrides, history>>

Unset == 0   \* the sequence number of an operation that has none

\* The file: recorded operations, and the keys of operations in each entry of the log.
Merge == [id : Nat, sequence : Nat, sources : SUBSET DeviceId, target : DeviceId]
Split == [id : Nat, sequence : Nat, source : DeviceId, addresses : SUBSET Address, target : DeviceId]
OperationKey == {"merge", "split"} \X Nat
Overrides == [merges : Seq(Merge), splits : Seq(Split), audit : Seq(Seq(OperationKey))]

Key(kind, operation) == <<kind, operation.id>>
Keys(kind, operations) == [i \in 1..Len(operations) |-> Key(kind, operations[i])]
Sequences(o) == {x.sequence : x \in ToSet(o.merges) \cup ToSet(o.splits)} \ {Unset}

\* What the audit log says, one entry after the other, of operations without a number;
\* the ids of operations are unique.
Audited(o) == FlattenSeq([i \in 1..Len(o.audit) |-> o.audit[i]])
Unnumbered(o) == {<<"merge", x.id>> : x \in {y \in ToSet(o.merges) : y.sequence = Unset}}
                 \cup {<<"split", x.id>> : x \in {y \in ToSet(o.splits) : y.sequence = Unset}}
Numbered(o) == {<<"merge", x.id, x.sequence>> : x \in {y \in ToSet(o.merges) : y.sequence # Unset}}
               \cup {<<"split", x.id, x.sequence>> : x \in {y \in ToSet(o.splits) : y.sequence # Unset}}
Recorded(o) == {Key("merge", x) : x \in ToSet(o.merges)} \cup {Key("split", x) : x \in ToSet(o.splits)}

\* orderedIdentityOperations: first those of the log, in its order, then the other ones
\* without a number, splits before merges, and then those with a number.
Ordered(o) ==
    LET logged == Kept(Audited(o), Unnumbered(o))
        others == Kept(Keys("split", o.splits) \o Keys("merge", o.merges), Unnumbered(o) \ ToSet(logged))
        numbers == InOrder(Sequences(o))
        WithNumber(n) == CHOOSE x \in Numbered(o) : x[3] = n
    IN  logged \o others \o [k \in DOMAIN numbers |-> <<WithNumber(numbers[k])[1], WithNumber(numbers[k])[2]>>]

\* A file of an older version names each of its operations once, and what it stands for is
\* the order that the first read gives them; ids are counted from 1 in the model.
ASSUME LegacyAssumption ==
    \A start \in Legacy :
        /\ start.overrides \in Overrides /\ Len(start.overrides.audit) <= AuditLimit
        /\ Cardinality(Sequences(start.overrides)) = Cardinality(Numbered(start.overrides))
        /\ start.history \in Seq(OperationKey) /\ IsInjective(start.history)
        /\ ToSet(start.history) = Recorded(start.overrides)
        /\ \A i \in 1..Len(start.history) : start.history[i][2] \in 1..Len(start.history)
        /\ Ordered(start.overrides) = start.history

\* Mutant: numbers are not written back.
NormalizedNot(o) == o

\* normalizeIdentityOperations, at every read: the order becomes the number.
Normalized(o) ==
    LET order == Ordered(o)
        Numbering(kind, operations) ==
            [i \in 1..Len(operations) |->
                [operations[i] EXCEPT !.sequence = CHOOSE n \in 1..Len(order) : order[n] = <<kind, operations[i].id>>]]
    IN  [o EXCEPT !.merges = Numbering("merge", @), !.splits = Numbering("split", @)]

\* nextIdentityOperationSequence
NextSequence(o) == Max(Sequences(o) \cup {0}) + 1

\* appendAudit, of the entry that names these operations; the log is cut at its limit.
KeptAudit(log) == SubSeq(log, Max({1, Len(log) - AuditLimit + 1}), Len(log))

AppendAudit(o, keys) == [o EXCEPT !.audit = KeptAudit(Append(@, keys))]
-----------------------------------------------------------------------------
\* The operation of a key, and the projection: all operations in their order.
Operation(o, key) ==
    CHOOSE x \in ToSet(IF key[1] = "merge" THEN o.merges ELSE o.splits) : x.id = key[2]

Apply(inv, key) == LET x == Operation(overrides, key)
                   IN  IF key[1] = "merge" THEN ApplyMerge(inv, x) ELSE ApplySplit(inv, x)

AddressesOf(inv, d) == {a \in DOMAIN inv.assignments : inv.assignments[a].device = d}

Projection == FoldLeft(Apply, Raw, Ordered(Normalized(overrides)))

CorrectionsTypeOK ==
    /\ overrides \in Overrides /\ history \in Seq(OperationKey)
    /\ IsInventory(Projection)
    /\ Len(overrides.audit) <= AuditLimit
    /\ Cardinality(Sequences(overrides)) = Cardinality(Numbered(overrides))

CorrectionsInit == \E start \in Legacy : overrides = start.overrides /\ history = start.history

Id == Len(history) + 1

SaveMerge(input) ==
    /\ Len(history) < MaxOperations
    /\ LET o == Normalized(overrides)
           merge == [id |-> Id, sequence |-> NextSequence(o),
                     sources |-> input.sources, target |-> input.target]
       IN  overrides' = AppendAudit([o EXCEPT !.merges = Append(@, merge)], <<Key("merge", merge)>>)
    /\ history' = Append(history, <<"merge", Id>>)

\* A batch is recorded with consecutive numbers and one entry in the log.
SaveSplits(inputs) ==
    /\ Len(history) + Len(inputs) <= MaxOperations
    /\ LET o == Normalized(overrides)
           splits == [i \in 1..Len(inputs) |->
                         [id |-> Id + i - 1, sequence |-> NextSequence(o) + i - 1, source |-> inputs[i].source,
                          addresses |-> inputs[i].addresses, target |-> inputs[i].target]]
       IN  /\ overrides' = AppendAudit([o EXCEPT !.splits = @ \o splits], Keys("split", splits))
           /\ history' = history \o Keys("split", splits)

SaveSplit(input) == SaveSplits(<<input>>)

\* POST /api/devices/:id/recommended-split: a device with three addresses and more keeps
\* the first one, and each of the others becomes a device.  That it has to come from the
\* neighbor cache and not from a split is left out: it is recommended too often here.
RecommendedSplit(d) ==
    LET own == AddressesOf(Projection, d)
        leaving == InOrder(own \ {Min(own)})
    IN  /\ Cardinality(own) >= 3
        /\ SaveSplits([i \in 1..Len(leaving) |->
                          [source |-> d, addresses |-> {leaving[i]}, target |-> ManualId[leaving[i]]]])

\* Every other change that writes to the log: it reads and writes the whole state.
SaveOther ==
    /\ overrides' = AppendAudit(Normalized(overrides), <<>>)
    /\ UNCHANGED history

CorrectionsNext ==
        \/ \E input \in MergeInput : SaveMerge(input)
        \/ \E input \in SplitInput : SaveSplit(input)
        \/ \E d \in DeviceId : RecommendedSplit(d)
        \/ SaveOther

CorrectionsSpec == CorrectionsInit /\ [][CorrectionsNext]_correctionVars
-----------------------------------------------------------------------------
\* INV-16: operations are applied in the order in which they were recorded, whatever the
\* log has lost since.
OrderIsKept == Ordered(overrides) = history

\* INV-15: whatever users ask for, no reference of the projection dangles.
ProjectionHolds == ReferencesHold(Projection)

\* INV-16: a split moves the selected addresses to the new device and to an interface of it.
InterfacesFollow ==
    LET p == Projection
    IN  \A a \in DOMAIN p.assignments : p.assignments[a].device # NoDevice =>
            p.interfaces[p.assignments[a].interface].device = p.assignments[a].device
=============================================================================
