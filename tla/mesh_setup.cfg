CONSTANTS
  Programs = {"goRelay", "goDirect", "cppRelay", "cppDirect"}
  Meshes <- MCMeshes
  RelayKinds = {"ios"}
  MaxFaults = 2
  Fragile <- MCFragile
SPECIFICATION Spec
INVARIANTS
  TypeOK
  SocketsMatch
  ReadyHasAll
PROPERTY MeshCompletes
CHECK_DEADLOCK FALSE
