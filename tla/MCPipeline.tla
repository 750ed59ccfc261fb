------------------------------ MODULE MCPipeline ------------------------------
(* Small instances of Pipeline: every record comes from the same address.     *)
EXTENDS Pipeline, TLC

SourceOf == [r \in Records |-> CHOOSE ip \in Ips : TRUE]

\* No record has a timestamp of its own.
AnyStamp == [r \in Records |-> Stamps]

\* The first line of every file is no event.
FirstLines == {r \in Records : r[2] = 1}

PipelineSymmetry == Permutations(Inodes)
==============================================================================
