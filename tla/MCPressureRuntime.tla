--------------------------- MODULE MCPressureRuntime ---------------------------
(***************************************************************************)
(* TLC instances of PressureRuntime: an accelerator and a host domain,     *)
(* each reported by a provider of its own.  Every utilization that occurs  *)
(* is a whole number of tenths, so that integer division is exact.         *)
(***************************************************************************)
EXTENDS PressureRuntime

SomeType   == [gpu |-> "AcceleratorMemory", host |-> "HostMemory"]
SomeSource == [gpu |-> "cuda", host |-> "windows"]

\* Ten bytes, so many of them committed; and an observation that failed.
Reading(n) == [reading |-> [total |-> 10, usable |-> 10, committed |-> n], validity |-> "Valid"]
FailedReading == [reading |-> [total |-> 0, usable |-> 0, committed |-> 0], validity |-> "Failed"]

Only(d, o) == [x \in {d} |-> o]
Silent(status) == [status |-> status, observed |-> NoDomains]
Says(status, d, os) == {[status |-> status, observed |-> Only(d, o)] : o \in os}

\* What the two providers may return: a device that comes and goes or cannot
\* be read, and a host that is out in each of the ways a provider can be.
UnreliableSamples ==
  [cuda |-> Says("Healthy", "gpu", {Reading(0), Reading(9)})
              \cup Says("Partial", "gpu", {FailedReading})
              \cup {Silent("Failed"), Silent("Unavailable"), Silent("Healthy")},
   windows |-> Says("Healthy", "host", {Reading(0), Reading(7)})
              \cup Says("Stale", "host", {Reading(3)})
              \cup {Silent("Threw"), Silent("Stale"), Silent("Partial")}]

SomeThresholds ==
  [normal_exit |-> 1, elevated_exit |-> 1, elevated_enter |-> 2, high_exit |-> 3, high_enter |-> 4,
   critical_exit |-> 5, critical_enter |-> 6, exhausted_exit |-> 7, exhausted_enter |-> 8]

PolicyWith(version, dwell, emergency) ==
  [version |-> version, thresholds |-> SomeThresholds,
   hysteresis |-> [min_dwell_observations |-> dwell, max_debounce_observations |-> 2,
                   min_dwell_duration_ms |-> 0, escalation_delay_ms |-> 0, recovery_delay_ms |-> 0,
                   immediate_emergency_escalation |-> emergency]]

PromptPolicy  == PolicyWith(1, 1, TRUE)
PatientPolicy == PolicyWith(2, 2, FALSE)
InvalidPolicy == PolicyWith(3, 0, TRUE)

SomePolicies == {PatientPolicy, InvalidPolicy}

NoBudgets == {}
===============================================================================
