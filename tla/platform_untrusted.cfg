SPECIFICATION PlatformSpec
CONSTANTS
  Scale = 10
  Word = 32
  ClockModulus = 1
  Domains = {"host-memory", "system-commit", "process-commit", "storage", "uuid-a", "uuid-b", "name#0", "name#1", "#0", "#1", "simulated"}
  Type <- SomeType
  Providers = {"windows", "cuda", "storage", "synthetic"}
  Source <- SomeSource
  Samples <- SomeSamples
  Policies <- NoPolicies
  InitialPolicy <- SomePolicy
  Candidates <- SomeBudgets
  Scores = {0}
  Limits = {1, 3}
  Steps = {0}
  MaxRefreshes = 3
  Ordinals <- SomeOrdinals
  UuidId <- SomeUuidIds
  FallbackId <- SomeFallbackIds
  NamelessId <- SomeNamelessIds
  SyntheticDomains = {"simulated"}
  FailureAfter = 1
  Starts <- SomeStarts
  Capacity = 10
  Loads = {3, 9}
  Setups <- SomeSetups
  Governed = {"host-memory"}
  MaxFaults = 1
PROPERTY UntrustedIsUnknown
