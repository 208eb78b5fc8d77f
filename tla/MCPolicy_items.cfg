SPECIFICATION Spec
CONSTANTS
  Tags = {1, 2, 3}
  UserStatuses = {"like", "dislike"}
  BotStatuses = {"like", "neutral", "forbidden"}
  Intensities = {1, 3}
  Limits <- Typed
  HeaderLen = 84
  PauseLen = 31
  SlowLen = 20
  TokenLen = 14
  AvoidLen <- ItemAvoidLen
  PositiveLen <- ItemPositiveLen
INVARIANTS ItemsWithinLimit
