SPECIFICATION ExclusionSpec
CONSTANTS
  Users = {u1}
  NoUser = NoUser
  Turns = {t1}
  MaxEpoch = 2
  HostV3 = FALSE
  OtherHooks = TRUE
  Reruns = TRUE
INVARIANTS UnpatchedInv StaleTextOnlyWithoutHook GuidedTurnsStayPrivate
PROPERTIES OtherCopiesKept
