--------------------------- MODULE MCRegistrySchema ---------------------------
(* Instances of RegistrySchema for TLC. *)
EXTENDS RegistrySchema, TLC

CONSTANT OneBlock

VARIABLE given  \* whether there was a card from the beginning

\* All fields are in one block.
FieldsInOneBlock == [f \in Fields |-> OneBlock]

\* A card that is given stands for the request that would have created it.
MCInit == Init /\ given = IsLive(db)
MCNext == Next /\ given' = given /\ (given => started' < MaxRequests)
MCSpec == MCInit /\ [][MCNext]_<<schemaVars, given>>

\* Requests are interchangeable, and so are fields of one block.
SchemaSymmetry == Permutations(Requests) \cup Permutations(Fields)
=============================================================================
