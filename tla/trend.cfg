SPECIFICATION Spec
CONSTANTS
  WindowSamples = 4
  MaxAge = 1500
  Bytes <- SomeBytes
  Paces <- SomePaces
  MaxSamples = 5
INVARIANTS WindowIsRecent DirectionIsBorneOut
