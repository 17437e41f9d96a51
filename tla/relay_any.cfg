CONSTANTS
  a1 = a1
  a2 = a2
  b1 = b1
  b2 = b2
  c1 = c1
  d1 = d1
  Nil = Nil
  Party <- MCParty
  Tags = {"sign", "io"}
  Conn = {a1, a2, b1, b2, c1}
  Req <- MCReq
  Certified = {a1, a2, b1, b2}
  Fragile = {a1}
  Reuse = "any"
SPECIFICATION Spec
INVARIANTS
  TypeOK
  JoinsMatch
  RolesDiffer
CHECK_DEADLOCK FALSE
PROPERTY ImplementsRendezvous
