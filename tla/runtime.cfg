SPECIFICATION Spec
CONSTANTS
  Scale = 10
  Word = 32
  ClockModulus = 1
  Domains = {"gpu", "host"}
  Type <- SomeType
  Providers = {"cuda", "windows"}
  Source <- SomeSource
  Samples <- UnreliableSamples
  Policies <- SomePolicies
  InitialPolicy <- PromptPolicy
  Candidates <- NoBudgets
  Scores = {0}
  Limits = {2}
  Steps = {0}
  MaxRefreshes = 4
INVARIANTS TypeOK TrackedMatchesPublished LevelsAgree EventsCarryLevels
PROPERTIES NoReliefWithoutEvidence
