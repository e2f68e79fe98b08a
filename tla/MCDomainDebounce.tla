--------------------------- MODULE MCDomainDebounce ---------------------------
(***************************************************************************)
(* TLC instances of DomainDebounce.  Fractions are percent.                *)
(***************************************************************************)
EXTENDS DomainDebounce

\* default_policy's thresholds, exhausted_enter (98.5) rounded to 98.
DefaultThresholds ==
  [normal_exit |-> 40, elevated_exit |-> 50, elevated_enter |-> 60, high_exit |-> 78,
   high_enter |-> 85, critical_exit |-> 86, critical_enter |-> 92, exhausted_exit |-> 93,
   exhausted_enter |-> 98]

\* Every knob turned: three confirmations, which may take more or less time
\* than the dwell time and the two delays, and the emergency path.
\* (default_policy asks for two confirmations and has no delays.)
DelayedConfig ==
  [min_dwell_observations |-> 3, max_debounce_observations |-> 4,
   min_dwell_duration_ms |-> 1, escalation_delay_ms |-> 2, recovery_delay_ms |-> 3,
   immediate_emergency_escalation |-> TRUE]

\* One utilization on each threshold and one inside each band.
EdgeUtils == {20, 40, 50, 60, 78, 85, 86, 92, 93, 98}
===============================================================================
