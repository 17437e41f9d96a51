---------------------------- MODULE MCMeshSetup -----------------------------
EXTENDS MeshSetup

MCMeshes == [g \in Programs |-> IF g \in {"cppRelay", "cppDirect"} THEN 2 ELSE 1]

MCFragile == [g \in Programs |-> Party]
=============================================================================
