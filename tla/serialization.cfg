SPECIFICATION Spec
CONSTANTS
  Scale = 10
  Word = 64
  Exact = 8
  DefaultQueue = 4
  DefaultAge = 7
  NotFinite = NotFinite
  Things <- SomeThings
  MaxSamples = 3
INVARIANTS LosslessWithinLimit TraceIsWhole ReplayIsTheRecording NothingInflated
