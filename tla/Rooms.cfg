CONSTANTS
  Users = {owner, guest}
  Creator = owner
  Requests = {r1, r2}
SPECIFICATION Spec
SYMMETRY Symmetry
CONSTRAINT Bound
INVARIANTS Mirrors CacheCurrent
