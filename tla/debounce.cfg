SPECIFICATION FairSpec
CONSTANTS
  Scale = 100
  ClockModulus = 8
  Policy <- DefaultThresholds
  Config <- DelayedConfig
  Utils <- EdgeUtils
  Steps = {0, 1, 2}
  HistoryCap = 5
INVARIANTS TypeOK WindowIsRun NoFlap
PROPERTIES EmergencyIsImmediate ConfirmedMoves EvidencePastThreshold HeldLongEnough ImplementsPromise Settles
