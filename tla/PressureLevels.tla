---------------------------- MODULE PressureLevels ----------------------------
(***************************************************************************)
(* Pressure levels, thresholds and the raw classifier: the pure part of    *)
(* include/memory_pressure/types.h, policy.h and src/core.cpp that every   *)
(* other module builds on.                                                 *)
(*                                                                         *)
(* The code's fractions in [0,1] are integers in 0..Scale here (Scale      *)
(* stands for 1.0): thresholds and utilizations are only ever compared,    *)
(* never combined, so the order is all that matters.                       *)
(***************************************************************************)
EXTENDS Integers

CONSTANT Scale

ASSUME ScaleAssumption == Scale \in Nat \ {0}

\* enum PressureLevel, with the values the code gives it.
Normal    == 0
Elevated  == 1
High      == 2
Critical  == 3
Exhausted == 4
Unknown   == 5

\* is_known_level: the five levels that take part in escalation.
Levels == Normal..Exhausted

\* Unknown ranks below every measured level.
SeverityRank(level) == IF level = Unknown THEN -1 ELSE level

\* struct Thresholds.
Thresholds ==
  [normal_exit     : 0..Scale, elevated_exit  : 0..Scale, elevated_enter  : 0..Scale,
   high_exit       : 0..Scale, high_enter     : 0..Scale, critical_exit   : 0..Scale,
   critical_enter  : 0..Scale, exhausted_exit : 0..Scale, exhausted_enter : 0..Scale]

\* The ordering validate_policy demands before a policy may be published.
Ascending(t) ==
  /\ t.normal_exit    <= t.elevated_exit   /\ t.elevated_exit  <= t.elevated_enter
  /\ t.elevated_enter <= t.high_exit       /\ t.high_exit      <= t.high_enter
  /\ t.high_enter     <= t.critical_exit   /\ t.critical_exit  <= t.critical_enter
  /\ t.critical_enter <= t.exhausted_exit  /\ t.exhausted_exit <= t.exhausted_enter

\* The utilization at which each level is entered, and the one at which it is
\* left for the level below.  ELEVATED is left at normal_exit: elevated_exit
\* is validated but the classifier never reads it.
Enter(level, t) ==
  <<t.elevated_enter, t.high_enter, t.critical_enter, t.exhausted_enter>>[level]

Exit(level, t) ==
  <<t.normal_exit, t.high_exit, t.critical_exit, t.exhausted_exit>>[level]

\* The first enter threshold reached, tried from the most severe down.
Climb(u, t) ==
  IF u >= t.exhausted_enter THEN Exhausted
  ELSE IF u >= t.critical_enter THEN Critical
  ELSE IF u >= t.high_enter     THEN High
  ELSE IF u >= t.elevated_enter THEN Elevated
  ELSE Normal

-------------------------------------------------------------------------------
\* Plausible mistakes in the classifier, each to be caught by a property:
\* no band between entering and leaving a level, and a fall at the enter
\* threshold.
EvaluateLevelBandless(u, current, t) ==
  IF current \in {Normal, Unknown} THEN Climb(u, t)
  ELSE IF u <= Enter(current, t) THEN current - 1
  ELSE IF Climb(u, t) >= current THEN Climb(u, t) ELSE current

EvaluateLevelEarlyFall(u, current, t) ==
  IF current \in {Normal, Unknown} \/ Climb(u, t) >= current THEN Climb(u, t)
  ELSE current - 1

-------------------------------------------------------------------------------
\* evaluate_level: climb by enter thresholds, fall one band by the current
\* level's exit threshold, stay inside the band between the two.
EvaluateLevel(u, current, t) ==
  IF current \in {Normal, Unknown} \/ Climb(u, t) >= current THEN Climb(u, t)
  ELSE IF u <= Exit(current, t) THEN current - 1
  ELSE current
===============================================================================
