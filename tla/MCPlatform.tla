------------------------------- MODULE MCPlatform -------------------------------
(***************************************************************************)
(* TLC instances of Platform: two devices that driver and runtime may      *)
(* count differently, the three Windows domains, a volume, and a simulated *)
(* accelerator.                                                            *)
(***************************************************************************)
EXTENDS Platform

SomeOrdinals == 0..1
SomeUuidIds     == [i \in SomeOrdinals |-> IF i = 0 THEN "uuid-a" ELSE "uuid-b"]
SomeFallbackIds == [i \in SomeOrdinals |-> IF i = 0 THEN "name#0" ELSE "name#1"]
SomeNamelessIds == [i \in SomeOrdinals |-> IF i = 0 THEN "#0" ELSE "#1"]
CudaIds == {"uuid-a", "uuid-b", "name#0", "name#1", "#0", "#1"}

SomeType == [d \in Domains |->
  CASE d \in CudaIds \cup {"simulated"} -> "AcceleratorMemory"
    [] d = "host-memory"    -> "HostMemory"
    [] d = "system-commit"  -> "SystemCommit"
    [] d = "process-commit" -> "ProcessCommit"
    [] d = "storage"        -> "PersistentStorageCapacity"]

SomeSource == [d \in Domains |->
  CASE d \in CudaIds      -> "cuda"
    [] d = "simulated"    -> "synthetic"
    [] d = "storage"      -> "storage"
    [] OTHER              -> "windows"]

\* Driver and runtime agree, disagree, lack each other, or see nothing; and a
\* simulation from its start and from its third step.
Counting(n, m) == [driver |-> n, runtime |-> m]
SomeStarts ==
  {[devices |-> c, scenario |-> "ProviderFailure", tick |-> 0] :
     c \in {Counting(1, 1), Counting(2, 1), Counting(0, 1)}}
  \cup {[devices |-> Counting(0, 0), scenario |-> "StaleProvider", tick |-> 2]}

SomeSetups == {{"windows", "cuda", "storage"}, {"synthetic"}}

\* What the providers can return at all.
SomeSamples ==
  [windows   |-> {WindowsSample(f, u) : f \in Faults, u \in Loads},
   cuda      |-> {CudaSample(m.devices, f, u) : m \in Starts, f \in Faults, u \in Loads},
   storage   |-> {StorageSample(f, u) : f \in Faults, u \in Loads},
   synthetic |-> {SyntheticSample(m.scenario, m.tick + n, u) : m \in Starts, n \in 0..MaxRefreshes, u \in Loads}]

SomeThresholds ==
  [normal_exit |-> 1, elevated_exit |-> 1, elevated_enter |-> 2, high_exit |-> 3, high_enter |-> 4,
   critical_exit |-> 5, critical_enter |-> 6, exhausted_exit |-> 7, exhausted_enter |-> 8]

SomePolicy ==
  [version |-> 1, thresholds |-> SomeThresholds,
   hysteresis |-> [min_dwell_observations |-> 1, max_debounce_observations |-> 2,
                   min_dwell_duration_ms |-> 0, escalation_delay_ms |-> 0, recovery_delay_ms |-> 0,
                   immediate_emergency_escalation |-> TRUE]]

\* With it, a full host is as exhausted as without.
SomeBudgets == {[DefaultBudget EXCEPT !.hard_capacity = 10, !.reserves = 5]}
NoPolicies   == {}
===============================================================================
