SPECIFICATION Spec
CONSTANTS
  Users = {u1}
  Bots = {b1}
  Tags = {t1}
  Statuses = {like}
  NoStatus = NoStatus
  Conns = {c1, c2}
  NoConn = NoConn
  NoOwner = NoOwner
  MaxId = 2
  MaxRev = 2
  MaxEpoch = 1
PROPERTIES ProfileLossIsReported
