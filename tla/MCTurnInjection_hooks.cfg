SPECIFICATION FairSpec
CONSTANTS
  Users = {u1}
  NoUser = NoUser
  Turns = {t1}
  MaxEpoch = 2
  HostV3 = TRUE
  OtherHooks = TRUE
  Reruns = TRUE
INVARIANTS NoRevokedDelivery ConsentInv StaleTextOnlyWithoutHook BlockOnce
PROPERTIES OtherCopiesKept ImplementsContract AttachedRecordsDrain
