---------------------------- MODULE DomainDebounce ----------------------------
(***************************************************************************)
(* One domain as PressureRuntime::refresh drives it: every refresh samples *)
(* a utilization, classifies it against the level the debounce machine     *)
(* holds, and feeds the raw level back to the machine (runtime.cpp,        *)
(* 249-255).  The driver chooses the samples and how much time passes      *)
(* between them.                                                           *)
(***************************************************************************)
EXTENDS Hysteresis

CONSTANTS Policy,      \* the thresholds in force
          Config,      \* the debounce configuration in force
          Utils,       \* the utilizations a sample may show
          Steps,       \* milliseconds between two refreshes
          HistoryCap   \* where the history variables stop counting

ASSUME DebounceAssumption ==
  /\ Policy \in Thresholds /\ Ascending(Policy)
  /\ Config \in HysteresisConfigs
  /\ Utils \subseteq Nat /\ Utils # {}
  /\ Steps \subseteq Times
  /\ HistoryCap \in Nat
  /\ HistoryCap >= Config.min_dwell_observations
  /\ HistoryCap > Config.max_debounce_observations
  /\ HistoryCap >= Config.min_dwell_duration_ms
  /\ HistoryCap >= Config.escalation_delay_ms
  /\ HistoryCap >= Config.recovery_delay_ms

VARIABLES
  hyst,   \* the domain's HysteresisState
  util,   \* the utilization last sampled
  now,    \* the timestamp of the last refresh
  run     \* history: the unbroken run of samples that point to one same level

vars == <<hyst, util, now, run>>

(***************************************************************************)
(* The history is kept from the samples alone, never from the machine's    *)
(* own counters: which level the run points to, how many samples it has,   *)
(* the least and the greatest utilization in it and the time since it      *)
(* began.                                                                  *)
(***************************************************************************)
Capped(n) == IF n > HistoryCap THEN HistoryCap ELSE n
Lesser(a, b) == IF a < b THEN a ELSE b
Greater(a, b) == IF a > b THEN a ELSE b

NoRun == [target |-> Unknown, count |-> 0, low |-> 0, high |-> 0, held |-> 0]

Witness(raw, u, dt) ==
  IF raw = hyst.level THEN NoRun
  ELSE IF raw = run.target
    THEN [target |-> raw, count |-> Capped(run.count + 1), low |-> Lesser(run.low, u),
          high |-> Greater(run.high, u), held |-> Capped(run.held + dt)]
  ELSE [target |-> raw, count |-> 1, low |-> u, high |-> u, held |-> 0]

Init == hyst = NewHysteresis /\ util = 0 /\ now = 0 /\ run = NoRun

\* One refresh of the domain, dt milliseconds after the one before.
Observe(u, dt) ==
  LET raw == EvaluateLevel(u, hyst.level, Policy)
  IN  /\ now' = Advance(now, dt)
      /\ hyst' = Update(hyst, Config, raw, now')
      /\ util' = u
      /\ run' = Witness(raw, u, dt)

Next == \E u \in Utils, dt \in Steps : Observe(u, dt)

Spec == Init /\ [][Next]_vars

\* The caller keeps refreshing, and the clock it passes moves on with every
\* refresh, as in the loop of the CLI's watch command (refresh_all).
FairSpec == Spec /\ WF_vars(\E u \in Utils, dt \in Steps \ {0} : Observe(u, dt))

-------------------------------------------------------------------------------
(* Properties *)

Runs == [target : Levels \cup {Unknown}, count : 0..HistoryCap, low : Nat, high : Nat,
         held : 0..HistoryCap]

\* The machine's fields, the clock and the history keep their ranges; the count
\* of confirmations stays within max_debounce_observations however long a
\* window is held open by the delays (HysteresisState::update).
TypeOK ==
  /\ hyst \in HysteresisStates
  /\ hyst.obs <= Config.max_debounce_observations
  /\ util \in Nat
  /\ now \in Times
  /\ run \in Runs

\* The machine's pending window is exactly the unbroken run of samples: it is
\* never carried over a sample that confirmed the level or pointed elsewhere,
\* and never cleared while the run goes on.
WindowIsRun ==
  IF InHold(hyst)
  THEN /\ hyst.pending = run.target /\ hyst.pending # hyst.level
       /\ hyst.obs = Lesser(run.count, Config.max_debounce_observations)
  ELSE hyst.obs = 0 /\ run.target \in {Unknown, hyst.level}

\* A level never changes on less than min_dwell_observations samples in a row
\* that pointed to the new level, EXHAUSTED excepted when the policy allows
\* immediate emergency escalation (HysteresisState::update).
ConfirmedMoves ==
  [][hyst'.level # hyst.level =>
       \/ run'.target = hyst'.level /\ run'.count >= Config.min_dwell_observations
       \/ Config.immediate_emergency_escalation /\ hyst'.level = Exhausted]_vars

\* Every sample of the run that moved the level was past the threshold of the
\* move: at or above the new level's enter threshold when rising, at or below
\* the old level's exit threshold when falling.  A value inside the band
\* between the two never contributes to a move.
EvidencePastThreshold ==
  [][/\ hyst'.level > hyst.level => run'.low >= Enter(hyst'.level, Policy)
     /\ hyst'.level < hyst.level => run'.high <= Exit(hyst.level, Policy)]_vars

\* A level is left downwards one band at a time, whatever the utilization
\* dropped to.
OneBandDown == [][hyst'.level < hyst.level => hyst'.level = hyst.level - 1]_vars

\* A move other than an emergency waits out the dwell time and the delay of
\* its direction, measured on the real clock: also when the timestamps wrap.
HeldLongEnough ==
  [][\/ hyst'.level = hyst.level
     \/ Config.immediate_emergency_escalation /\ hyst'.level = Exhausted
     \/ /\ run'.held >= Config.min_dwell_duration_ms
        /\ run'.held >= IF hyst'.level > hyst.level THEN Config.escalation_delay_ms
                                                    ELSE Config.recovery_delay_ms]_vars

\* Full memory is never hidden: with immediate emergency escalation a sample
\* at or above exhausted_enter leaves the domain EXHAUSTED in the same refresh,
\* whatever the machine was waiting for.
EmergencyIsImmediate ==
  [][Config.immediate_emergency_escalation /\ util' >= Policy.exhausted_enter
       => hyst'.level = Exhausted]_vars

\* A level the domain rose to is not questioned by the utilization that raised
\* it: whatever the level, applying the classifier to its own answer never
\* turns back (no flapping at a constant utilization).
NoFlap ==
  \A u \in Utils :
    LET first  == EvaluateLevel(u, hyst.level, Policy)
        second == EvaluateLevel(u, first, Policy)
    IN  /\ first > hyst.level => second = first
        /\ first < hyst.level => second <= first

\* If the utilization stays put, the level comes to rest at one the
\* classifier agrees with: all pending moves are confirmed, band after band.
Settles ==
  \A u \in Utils :
    <>[](util = u) => <>[](hyst.level = EvaluateLevel(u, hyst.level, Policy))

\* The debounce machine implements the promise.
Promise == INSTANCE StickyLevel WITH
  Needed        <- Config.min_dwell_observations,
  Immediate     <- Config.immediate_emergency_escalation,
  level         <- hyst.level,
  candidate     <- hyst.pending,
  evidence      <- IF InHold(hyst) THEN Lesser(run.count, Config.min_dwell_observations) ELSE 0

ImplementsPromise == Promise!Spec
===============================================================================
