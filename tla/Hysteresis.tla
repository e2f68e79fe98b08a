------------------------------ MODULE Hysteresis ------------------------------
(***************************************************************************)
(* class HysteresisState (hysteresis.h, core.cpp): the debounce machine    *)
(* that turns raw levels into a sticky resolved level, as operators on a   *)
(* record [level, pending, obs, since].                                    *)
(***************************************************************************)
EXTENDS PressureLevels

CONSTANT ClockModulus  \* timestamps are unsigned: 2^64 in the code

ASSUME ClockAssumption == ClockModulus \in Nat \ {0}

Times == 0..(ClockModulus - 1)

\* struct HysteresisConfig, as far as validate_policy lets it vary:
\* min_dwell_observations > 0, nothing relating it to max_debounce_observations.
HysteresisConfigs ==
  [min_dwell_observations         : Nat \ {0},
   max_debounce_observations      : Nat,
   min_dwell_duration_ms          : Nat,
   escalation_delay_ms            : Nat,
   recovery_delay_ms              : Nat,
   immediate_emergency_escalation : BOOLEAN]

HysteresisStates ==
  [level : Levels, pending : Levels \cup {Unknown}, obs : Nat, since : Times]

\* A new machine; HysteresisState(cfg) and reset() differ only in since, which
\* is dead while nothing is pending.
NewHysteresis == [level |-> Normal, pending |-> Unknown, obs |-> 0, since |-> 0]

\* The clock, and now_ms - pending_since_ms_, in unsigned arithmetic.
Advance(now, dt) == IF now + dt < ClockModulus THEN now + dt ELSE now + dt - ClockModulus
Elapsed(now, since) == IF now >= since THEN now - since ELSE now - since + ClockModulus

InHold(h) == h.pending # Unknown

Escalates(h, raw) == SeverityRank(raw) > SeverityRank(h.level)

\* Mistakes, for mutation: the emergency path only while nothing is pending;
\* a window that survives a change of the pending level, and one that starts
\* again with every sample; a count that keeps the confirmations of another
\* level, one confirmation too few, and a count that is never capped.
EmergencyWhenIdle(h, cfg, raw) ==
  raw = Exhausted /\ cfg.immediate_emergency_escalation /\ Escalates(h, raw) /\ ~InHold(h)
WindowStartKept(h, raw, now) == IF InHold(h) THEN h.since ELSE now
WindowStartRenewed(h, raw, now) == now
ConfirmationsOfAny(h, cfg, raw) ==
  LET n == IF InHold(h) THEN h.obs + 1 ELSE 1
  IN  IF n > cfg.max_debounce_observations THEN cfg.max_debounce_observations ELSE n
ConfirmationsOneTooMany(h, cfg, raw) ==
  LET n == IF h.pending = raw THEN h.obs + 2 ELSE 2
  IN  IF n > cfg.max_debounce_observations THEN cfg.max_debounce_observations ELSE n

ConfirmationsUncapped(h, cfg, raw) == IF h.pending = raw THEN h.obs + 1 ELSE 1

\* The path that skips confirmation altogether.
Emergency(h, cfg, raw) ==
  raw = Exhausted /\ cfg.immediate_emergency_escalation /\ Escalates(h, raw)

\* The pending window once raw has been counted into it.
WindowStart(h, raw, now) == IF h.pending = raw THEN h.since ELSE now
Confirmations(h, cfg, raw) ==
  LET n == IF h.pending = raw THEN h.obs + 1 ELSE 1
  IN  IF n > cfg.max_debounce_observations THEN cfg.max_debounce_observations ELSE n

Confirmed(h, cfg, raw, now) ==
  LET held == Elapsed(now, WindowStart(h, raw, now))
  IN  /\ Confirmations(h, cfg, raw) >= cfg.min_dwell_observations
      /\ held >= cfg.min_dwell_duration_ms
      /\ held >= IF Escalates(h, raw) THEN cfg.escalation_delay_ms ELSE cfg.recovery_delay_ms

\* A sample that agrees with the level leaves the pending window (mistake, for
\* mutation).
UpdateKeepsWindow(h, cfg, raw, now) ==
  IF raw = h.level THEN h
  ELSE IF Emergency(h, cfg, raw)
    THEN [h EXCEPT !.level = raw, !.pending = Unknown, !.obs = 0]
  ELSE IF Confirmed(h, cfg, raw, now)
    THEN [level |-> raw, pending |-> Unknown, obs |-> 0, since |-> WindowStart(h, raw, now)]
  ELSE [level |-> h.level, pending |-> raw, obs |-> Confirmations(h, cfg, raw),
        since |-> WindowStart(h, raw, now)]

\* HysteresisState::update.
Update(h, cfg, raw, now) ==
  IF raw = h.level THEN [h EXCEPT !.pending = Unknown, !.obs = 0]
  ELSE IF Emergency(h, cfg, raw)
    THEN [h EXCEPT !.level = raw, !.pending = Unknown, !.obs = 0]
  ELSE IF Confirmed(h, cfg, raw, now)
    THEN [level |-> raw, pending |-> Unknown, obs |-> 0, since |-> WindowStart(h, raw, now)]
  ELSE [level |-> h.level, pending |-> raw, obs |-> Confirmations(h, cfg, raw),
        since |-> WindowStart(h, raw, now)]
===============================================================================
