------------------------------- MODULE Responses -------------------------------
(***************************************************************************)
(* What the runtime recommends at a level (initial_actions, runtime.cpp)   *)
(* and the cross-tier rule that takes a demotion back when the host tier   *)
(* could not absorb it.                                                    *)
(***************************************************************************)
EXTENDS PressureLevels, Sequences, Functions

\* enum DomainType.
DomainTypes ==
  {"Unknown", "AcceleratorMemory", "HostMemory", "PinnedHostMemory", "SharedHostMemory",
   "ProcessCommit", "SystemCommit", "FileBackedMemory", "PersistentStorageCapacity", "Custom"}

IsAccelerator(type) == type = "AcceleratorMemory"

IsHostlike(type) ==
  type \in {"HostMemory", "PinnedHostMemory", "SharedHostMemory", "ProcessCommit", "SystemCommit"}

\* initial_actions: the recommendations a level comes with, most urgent first.
InitialActions(level) ==
  CASE level = Elevated  -> <<"Warn">>
    [] level = High      -> <<"Warn", "RequestReclaim">>
    [] level = Critical  -> <<"RequestDemotion", "RequestReclaim", "ReduceAdmission", "Throttle">>
    [] level = Exhausted -> <<"EmergencyStopGrowth", "RejectNewWork", "RequestDemotion",
                              "RequestReclaim">>
    [] OTHER             -> <<"None">>

\* Demotion has somewhere to go: a host-like domain exists and none of them is
\* at CRITICAL or above.  level and type are functions on the same domains.
HostCanTake(level, type) ==
  LET hosts == {d \in DOMAIN level : IsHostlike(type[d])}
  IN  hosts # {} /\ \A d \in hosts : SeverityRank(level[d]) < Critical

\* The cross-tier rule: which of its initial actions domain d keeps.
KeepsAction(d, level, type, action) ==
  \/ action # "RequestDemotion"
  \/ ~IsAccelerator(type[d]) \/ SeverityRank(level[d]) < High
  \/ HostCanTake(level, type)

\* What is left of them, as a set: refresh only removes, and nothing it does
\* next depends on the order.
ResponsesOf(d, level, type) ==
  {action \in Range(InitialActions(level[d])) : KeepsAction(d, level, type, action)}
===============================================================================
