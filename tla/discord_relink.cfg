SPECIFICATION Spec
CONSTANTS
  User = {u1}
  Discord = {d1, d2}
  Link = {l1, l2, l3}
  Worker = {w1}
  None = None
SYMMETRY Symmetry
INVARIANT LinkedAsAsked
