SPECIFICATION Spec
CONSTANTS
  Users = {u1, u2}
  NoUser = NoUser
  Turns = {t1, t2}
  MaxEpoch = 1
  HostV3 = TRUE
  OtherHooks = FALSE
  Reruns = FALSE
SYMMETRY Symmetry
INVARIANTS TypeOK RecordOutlivesCalls
PROPERTIES InvalidationIsSelective
