SPECIFICATION Spec
CONSTANTS
  User = {u1, u2}
  Discord = {d1, d2}
  Link = {l1, l2, l3, l4}
  Worker = {w1, w2, w3}
  None = None
SYMMETRY Symmetry
INVARIANTS
  TypeOK
  OneLinkEach
  WrittenByOwner
  DeleteHitsTarget
PROPERTIES
  LinkContractHolds
  DeletedStaysDeleted
  ResolvedAsAsked
