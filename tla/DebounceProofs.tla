---------------------------- MODULE DebounceProofs ----------------------------
(***************************************************************************)
(* The debounce machine, for every valid policy and configuration.         *)
(***************************************************************************)
EXTENDS DomainDebounce, TLAPS

USE DEF Normal, Elevated, High, Critical, Exhausted, Unknown, Levels

-------------------------------------------------------------------------------
(* The classifier *)

\* The classifier answers with a level for every utilization and every level.
LEMMA EvaluateLevelType ==
  ASSUME NEW t, NEW u, NEW l \in Levels
  PROVE  EvaluateLevel(u, l, t) \in Levels
BY DEF EvaluateLevel, Climb

\* A raw level above the current one is one whose enter threshold the sample
\* reached; one below it is the next band down, and the sample is at or below
\* the current level's exit threshold.
LEMMA RawLevelEvidence ==
  ASSUME NEW t \in Thresholds, NEW u \in Nat, NEW l \in Levels
  PROVE  /\ EvaluateLevel(u, l, t) > l => u >= Enter(EvaluateLevel(u, l, t), t)
         /\ EvaluateLevel(u, l, t) < l =>
               EvaluateLevel(u, l, t) = l - 1 /\ u <= Exit(l, t)
BY DEF EvaluateLevel, Climb, Enter, Exit, Thresholds

\* Applied to its own answer the classifier never turns back, whatever the
\* thresholds validate_policy lets through (evaluate_level and its bands).
LEMMA ClassifierNeverTurnsBack ==
  ASSUME NEW t \in Thresholds, Ascending(t), NEW u \in Nat, NEW l \in Levels,
         NEW m, m = EvaluateLevel(u, l, t)
  PROVE  /\ m > l => EvaluateLevel(u, m, t) = m
         /\ m < l => EvaluateLevel(u, m, t) <= m
BY DEF EvaluateLevel, Climb, Exit, Ascending, Thresholds

-------------------------------------------------------------------------------
(* The inductive invariant *)

\* The run's utilizations justify the level it points to.
RunEvidence ==
  run.target \notin {Unknown, hyst.level} =>
    /\ run.target > hyst.level => run.low >= Enter(run.target, Policy)
    /\ run.target < hyst.level => run.target = hyst.level - 1 /\ run.high <= Exit(hyst.level, Policy)

\* The window's age on the unsigned clock never exceeds the run's real age.
WindowAge ==
  InHold(hyst) => run.held = HistoryCap \/ Elapsed(now, hyst.since) <= run.held

IInv == TypeOK /\ WindowIsRun /\ RunEvidence /\ WindowAge

\* The four ways HysteresisState::update ends, and the run after each.
Confirms(raw) ==
  raw = hyst.level /\ hyst' = [hyst EXCEPT !.pending = Unknown, !.obs = 0] /\ run' = NoRun

Jumps(raw, u, dt) ==
  /\ Emergency(hyst, Config, raw)
  /\ hyst' = [hyst EXCEPT !.level = raw, !.pending = Unknown, !.obs = 0]
  /\ run' = Witness(raw, u, dt)

Moves(raw, u, dt) ==
  /\ raw # hyst.level /\ Confirmed(hyst, Config, raw, now')
  /\ hyst' = [level |-> raw, pending |-> Unknown, obs |-> 0,
              since |-> WindowStart(hyst, raw, now')]
  /\ run' = Witness(raw, u, dt)

Waits(raw, u, dt) ==
  /\ raw # hyst.level
  /\ hyst' = [level |-> hyst.level, pending |-> raw,
              obs |-> Confirmations(hyst, Config, raw), since |-> WindowStart(hyst, raw, now')]
  /\ run' = Witness(raw, u, dt)

LEMMA ObserveCases ==
  ASSUME IInv, NEW u \in Utils, NEW dt \in Steps, Observe(u, dt),
         NEW raw, raw = EvaluateLevel(u, hyst.level, Policy)
  PROVE  /\ raw \in Levels /\ u \in Nat /\ dt \in Times
         /\ now' = Advance(now, dt) /\ now' \in Times /\ util' = u
         /\ Confirms(raw) \/ Jumps(raw, u, dt) \/ Moves(raw, u, dt) \/ Waits(raw, u, dt)
<1>1. raw \in Levels /\ u \in Nat /\ dt \in Times
  BY EvaluateLevelType, DebounceAssumption DEF IInv, TypeOK, HysteresisStates
<1>2. now' = Advance(now, dt) /\ now' \in Times /\ util' = u
  BY <1>1, ClockAssumption DEF Observe, Advance, Times, IInv, TypeOK
<1>3. Confirms(raw) \/ Jumps(raw, u, dt) \/ Moves(raw, u, dt) \/ Waits(raw, u, dt)
  BY DEF Observe, Update, Confirms, Jumps, Moves, Waits, Witness, Emergency, Escalates
<1>4. QED  BY <1>1, <1>2, <1>3

LEMMA TypeStep ==
  ASSUME IInv, NEW u \in Utils, NEW dt \in Steps, Observe(u, dt)
  PROVE  TypeOK'
<1> DEFINE raw == EvaluateLevel(u, hyst.level, Policy)
<1>1. /\ raw \in Levels /\ u \in Nat /\ dt \in Times
      /\ now' \in Times /\ util' = u
      /\ Confirms(raw) \/ Jumps(raw, u, dt) \/ Moves(raw, u, dt) \/ Waits(raw, u, dt)
  BY ObserveCases
<1> HIDE DEF raw
<1>2. Config.max_debounce_observations \in Nat /\ HistoryCap \in Nat /\ HistoryCap >= 1
  BY DebounceAssumption DEF HysteresisConfigs
<1>3. NoRun \in Runs
  BY <1>2 DEF NoRun, Runs
<1>4. Witness(raw, u, dt) \in Runs
  BY <1>1, <1>2, <1>3 DEF Witness, Runs, Capped, Lesser, Greater, IInv, TypeOK, Times
<1>5. /\ WindowStart(hyst, raw, now') \in Times
      /\ Confirmations(hyst, Config, raw) \in Nat
      /\ Confirmations(hyst, Config, raw) <= Config.max_debounce_observations
  BY <1>1, <1>2 DEF WindowStart, Confirmations, IInv, TypeOK, HysteresisStates
<1>6. hyst' \in HysteresisStates
  <2>1. hyst \in HysteresisStates
    BY DEF IInv, TypeOK
  <2>2. CASE Confirms(raw)      BY <2>1, <2>2 DEF Confirms, HysteresisStates
  <2>3. CASE Jumps(raw, u, dt)  BY <1>1, <2>1, <2>3 DEF Jumps, HysteresisStates
  <2>4. CASE Moves(raw, u, dt)  BY <1>1, <1>5, <2>4 DEF Moves, HysteresisStates
  <2>5. CASE Waits(raw, u, dt)  BY <1>1, <1>5, <2>1, <2>5 DEF Waits, HysteresisStates
  <2>6. QED  BY <1>1, <2>2, <2>3, <2>4, <2>5
<1>7. run' \in Runs
  BY <1>1, <1>3, <1>4 DEF Confirms, Jumps, Moves, Waits
<1>8. hyst'.obs <= Config.max_debounce_observations
  <2>1. hyst \in HysteresisStates
    BY DEF IInv, TypeOK
  <2>2. CASE Confirms(raw)      BY <1>2, <2>1, <2>2 DEF Confirms, HysteresisStates
  <2>3. CASE Jumps(raw, u, dt)  BY <1>2, <2>1, <2>3 DEF Jumps, HysteresisStates
  <2>4. CASE Moves(raw, u, dt)  BY <1>2, <2>4 DEF Moves
  <2>5. CASE Waits(raw, u, dt)  BY <1>5, <2>5 DEF Waits
  <2>6. QED  BY <1>1, <2>2, <2>3, <2>4, <2>5
<1>9. QED  BY <1>1, <1>6, <1>7, <1>8 DEF TypeOK

LEMMA WindowStep ==
  ASSUME IInv, NEW u \in Utils, NEW dt \in Steps, Observe(u, dt)
  PROVE  WindowIsRun'
<1> DEFINE raw == EvaluateLevel(u, hyst.level, Policy)
<1>1. /\ raw \in Levels
      /\ Confirms(raw) \/ Jumps(raw, u, dt) \/ Moves(raw, u, dt) \/ Waits(raw, u, dt)
  BY ObserveCases
<1> HIDE DEF raw
<1>2. /\ hyst \in HysteresisStates /\ run \in Runs
      /\ Config.max_debounce_observations \in Nat
      /\ HistoryCap \in Nat /\ HistoryCap > Config.max_debounce_observations
  BY DebounceAssumption DEF IInv, TypeOK, HysteresisConfigs
<1>3. CASE Confirms(raw)
  BY <1>2, <1>3 DEF Confirms, WindowIsRun, InHold, NoRun, HysteresisStates
<1>4. CASE Jumps(raw, u, dt)
  BY <1>1, <1>2, <1>4
     DEF Jumps, Emergency, Escalates, SeverityRank, WindowIsRun, InHold, Witness, HysteresisStates
<1>5. CASE Moves(raw, u, dt)
  BY <1>1, <1>2, <1>5 DEF Moves, WindowIsRun, InHold, Witness, HysteresisStates
<1>6. CASE Waits(raw, u, dt)
  <2>1. hyst'.level = hyst.level /\ hyst'.pending = raw /\ raw # hyst.level /\ raw # Unknown
        /\ hyst'.obs = Confirmations(hyst, Config, raw) /\ run'.target = raw
    BY <1>1, <1>6 DEF Waits, Witness
  <2>2. raw = hyst.pending <=> raw = run.target
    BY <2>1 DEF IInv, WindowIsRun, InHold
  <2>3. CASE raw = hyst.pending
    <3>1. hyst.obs = Lesser(run.count, Config.max_debounce_observations)
      BY <2>1, <2>3 DEF IInv, WindowIsRun, InHold
    <3>2. run'.count = Capped(run.count + 1)
      BY <1>6, <2>1, <2>2, <2>3 DEF Waits, Witness
    <3>3. hyst'.obs = Lesser(run'.count, Config.max_debounce_observations)
      BY <1>2, <2>1, <2>3, <3>1, <3>2 DEF Confirmations, Capped, Lesser, Runs
    <3>4. QED  BY <2>1, <3>3 DEF WindowIsRun, InHold
  <2>4. CASE raw # hyst.pending
    <3>1. run'.count = 1
      BY <1>6, <2>1, <2>2, <2>4 DEF Waits, Witness
    <3>2. hyst'.obs = Lesser(run'.count, Config.max_debounce_observations)
      BY <1>2, <2>1, <2>4, <3>1 DEF Confirmations, Lesser
    <3>3. QED  BY <2>1, <3>2 DEF WindowIsRun, InHold
  <2>5. QED  BY <2>3, <2>4
<1>7. QED  BY <1>1, <1>3, <1>4, <1>5, <1>6

LEMMA EvidenceStep ==
  ASSUME IInv, NEW u \in Utils, NEW dt \in Steps, Observe(u, dt),
         NEW raw, raw = EvaluateLevel(u, hyst.level, Policy), raw # hyst.level
  PROVE  /\ run' = Witness(raw, u, dt) /\ run'.target = raw
         /\ raw > hyst.level => run'.low >= Enter(raw, Policy)
         /\ raw < hyst.level => raw = hyst.level - 1 /\ run'.high <= Exit(hyst.level, Policy)
<1>1. /\ raw \in Levels /\ u \in Nat /\ hyst.level \in Levels
      /\ Confirms(raw) \/ Jumps(raw, u, dt) \/ Moves(raw, u, dt) \/ Waits(raw, u, dt)
  BY ObserveCases DEF IInv, TypeOK, HysteresisStates
<1>2. run' = Witness(raw, u, dt) /\ run'.target = raw
  BY <1>1 DEF Confirms, Jumps, Moves, Waits, Witness
<1>3. /\ raw > hyst.level => u >= Enter(raw, Policy)
      /\ raw < hyst.level => raw = hyst.level - 1 /\ u <= Exit(hyst.level, Policy)
  BY <1>1, RawLevelEvidence, DebounceAssumption
<1>4. CASE raw = run.target
  <2>1. run.target \notin {Unknown, hyst.level}
    BY <1>1, <1>4
  <2>2. /\ raw > hyst.level => run.low >= Enter(raw, Policy)
        /\ raw < hyst.level => run.high <= Exit(hyst.level, Policy)
    BY <1>4, <2>1 DEF IInv, RunEvidence
  <2>3. run'.low \in {run.low, u} /\ run'.high \in {run.high, u}
    BY <1>2, <1>4 DEF Witness, Lesser, Greater
  <2>4. QED  BY <1>2, <1>3, <2>2, <2>3
<1>5. CASE raw # run.target
  BY <1>2, <1>3, <1>5 DEF Witness
<1>6. QED  BY <1>4, <1>5

LEMMA RunEvidenceStep ==
  ASSUME IInv, NEW u \in Utils, NEW dt \in Steps, Observe(u, dt)
  PROVE  RunEvidence'
<1> DEFINE raw == EvaluateLevel(u, hyst.level, Policy)
<1>1. /\ hyst \in HysteresisStates
      /\ Confirms(raw) \/ Jumps(raw, u, dt) \/ Moves(raw, u, dt) \/ Waits(raw, u, dt)
  BY ObserveCases DEF IInv, TypeOK
<1>2. raw # hyst.level =>
         /\ run'.target = raw
         /\ raw > hyst.level => run'.low >= Enter(raw, Policy)
         /\ raw < hyst.level => raw = hyst.level - 1 /\ run'.high <= Exit(hyst.level, Policy)
  BY EvidenceStep
<1> HIDE DEF raw
<1>3. CASE Confirms(raw)
  BY <1>3 DEF Confirms, RunEvidence, NoRun
<1>4. CASE Jumps(raw, u, dt) \/ Moves(raw, u, dt)
  <2>1. raw # hyst.level
    BY <1>4 DEF Jumps, Moves, Emergency, Escalates, SeverityRank
  <2>2. hyst'.level = raw
    <3>1. CASE Jumps(raw, u, dt)  BY <1>1, <3>1 DEF Jumps, HysteresisStates
    <3>2. CASE Moves(raw, u, dt)  BY <3>2 DEF Moves
    <3>3. QED  BY <1>4, <3>1, <3>2
  <2>3. QED  BY <1>2, <2>1, <2>2 DEF RunEvidence
<1>5. CASE Waits(raw, u, dt)
  <2>1. raw # hyst.level /\ hyst'.level = hyst.level
    BY <1>5 DEF Waits
  <2>2. QED  BY <1>2, <2>1 DEF RunEvidence
<1>6. QED  BY <1>1, <1>3, <1>4, <1>5

\* The clock moves on by dt, so a window that stays open ages by at most dt.
LEMMA WindowAgeStep ==
  ASSUME IInv, NEW u \in Utils, NEW dt \in Steps, Observe(u, dt),
         NEW raw, raw = EvaluateLevel(u, hyst.level, Policy), raw # hyst.level
  PROVE  \/ run'.held = HistoryCap
         \/ Elapsed(now', WindowStart(hyst, raw, now')) <= run'.held
<1>1. /\ raw \in Levels /\ dt \in Times /\ now' = Advance(now, dt) /\ now' \in Times
      /\ hyst \in HysteresisStates /\ now \in Times /\ run \in Runs
      /\ HistoryCap \in Nat /\ ClockModulus \in Nat
  BY ObserveCases, DebounceAssumption, ClockAssumption DEF IInv, TypeOK
<1>2. run' = Witness(raw, u, dt)
  BY EvidenceStep
<1>3. raw = hyst.pending <=> raw = run.target
  BY <1>1 DEF IInv, WindowIsRun, InHold
<1>4. CASE raw = hyst.pending
  <2>1. run.held = HistoryCap \/ Elapsed(now, hyst.since) <= run.held
    BY <1>1, <1>4 DEF IInv, WindowAge, InHold
  <2>2. run'.held = Capped(run.held + dt)
    BY <1>2, <1>3, <1>4 DEF Witness
  <2>3. Elapsed(now', hyst.since) <= Elapsed(now, hyst.since) + dt
    BY <1>1 DEF Elapsed, Advance, Times, HysteresisStates
  <2>4. /\ Elapsed(now', hyst.since) \in Int /\ Elapsed(now, hyst.since) \in Int
        /\ dt \in Nat /\ run.held \in 0..HistoryCap
    BY <1>1 DEF Elapsed, Times, HysteresisStates, Runs
  <2>5. QED  BY <1>1, <1>4, <2>1, <2>2, <2>3, <2>4 DEF Capped, WindowStart
<1>5. CASE raw # hyst.pending
  <2>1. run'.held = 0
    BY <1>2, <1>3, <1>5 DEF Witness
  <2>2. Elapsed(now', WindowStart(hyst, raw, now')) = 0
    BY <1>1, <1>5 DEF Elapsed, WindowStart, Times
  <2>3. QED  BY <2>1, <2>2
<1>6. QED  BY <1>4, <1>5

LEMMA InvariantInit == Init => IInv
<1> SUFFICES ASSUME Init PROVE IInv
  OBVIOUS
<1>1. HistoryCap \in Nat /\ Config.max_debounce_observations \in Nat
  BY DebounceAssumption DEF HysteresisConfigs
<1>2. TypeOK
  BY <1>1, ClockAssumption
     DEF Init, TypeOK, NewHysteresis, NoRun, Runs, HysteresisStates, Times
<1>3. WindowIsRun /\ RunEvidence /\ WindowAge
  BY DEF Init, NewHysteresis, NoRun, WindowIsRun, RunEvidence, WindowAge, InHold
<1>4. QED  BY <1>2, <1>3 DEF IInv

LEMMA InvariantStep == IInv /\ [Next]_vars => IInv'
<1> SUFFICES ASSUME IInv, [Next]_vars PROVE IInv'
  OBVIOUS
<1>1. ASSUME NEW u \in Utils, NEW dt \in Steps, Observe(u, dt)  PROVE IInv'
  <2> DEFINE raw == EvaluateLevel(u, hyst.level, Policy)
  <2>1. TypeOK' /\ WindowIsRun' /\ RunEvidence'
    BY <1>1, TypeStep, WindowStep, RunEvidenceStep
  <2>2. hyst \in HysteresisStates
        /\ (Confirms(raw) \/ Jumps(raw, u, dt) \/ Moves(raw, u, dt) \/ Waits(raw, u, dt))
    BY <1>1, ObserveCases DEF IInv, TypeOK
  <2>3. raw # hyst.level =>
           \/ run'.held = HistoryCap
           \/ Elapsed(now', WindowStart(hyst, raw, now')) <= run'.held
    BY <1>1, WindowAgeStep
  <2> HIDE DEF raw
  <2>4. WindowAge'
    <3>1. CASE Confirms(raw)
      BY <2>2, <3>1 DEF Confirms, WindowAge, InHold, HysteresisStates
    <3>2. CASE Jumps(raw, u, dt)
      BY <2>2, <3>2 DEF Jumps, WindowAge, InHold, HysteresisStates
    <3>3. CASE Moves(raw, u, dt)
      BY <3>3 DEF Moves, WindowAge, InHold
    <3>4. CASE Waits(raw, u, dt)
      BY <2>3, <3>4 DEF Waits, WindowAge
    <3>5. QED  BY <2>2, <3>1, <3>2, <3>3, <3>4
  <2>5. QED  BY <2>1, <2>4 DEF IInv
<1>2. CASE UNCHANGED vars
  BY <1>2 DEF vars, IInv, TypeOK, WindowIsRun, RunEvidence, WindowAge, InHold
<1>3. QED  BY <1>1, <1>2 DEF Next

LEMMA Invariance == Spec => []IInv
BY InvariantInit, InvariantStep, PTL DEF Spec

-------------------------------------------------------------------------------
(* What holds of every behaviour *)

\* The machine's and the history's state stay in their types.
THEOREM TypeCorrect == Spec => []TypeOK
BY Invariance, PTL DEF IInv

\* The pending window is the unbroken run of samples pointing elsewhere.
THEOREM WindowCorrect == Spec => []WindowIsRun
BY Invariance, PTL DEF IInv

\* The classifier never turns back on its own answer, at any reachable level.
THEOREM NoFlapping == Spec => []NoFlap
<1>1. IInv => NoFlap
  <2> SUFFICES ASSUME IInv, NEW u \in Utils
               PROVE  LET first  == EvaluateLevel(u, hyst.level, Policy)
                          second == EvaluateLevel(u, first, Policy)
                      IN  /\ first > hyst.level => second = first
                          /\ first < hyst.level => second <= first
    BY DEF NoFlap
  <2>1. hyst.level \in Levels /\ u \in Nat /\ Policy \in Thresholds /\ Ascending(Policy)
    BY DebounceAssumption DEF IInv, TypeOK, HysteresisStates
  <2>2. QED  BY <2>1, ClassifierNeverTurnsBack
<1>2. QED  BY <1>1, Invariance, PTL

\* What a step that changes the level looks like: the sample points to the new
\* level, and the move is confirmed or an emergency.
LEMMA LevelChange ==
  ASSUME IInv, [Next]_vars, hyst'.level # hyst.level
  PROVE  \E u \in Utils, dt \in Steps :
           LET raw == EvaluateLevel(u, hyst.level, Policy)
           IN  /\ Observe(u, dt) /\ raw # hyst.level /\ hyst'.level = raw
               /\ Jumps(raw, u, dt) \/ Moves(raw, u, dt)
<1>1. PICK u \in Utils, dt \in Steps : Observe(u, dt)
  BY DEF Next, vars
<1> DEFINE raw == EvaluateLevel(u, hyst.level, Policy)
<1>2. /\ hyst \in HysteresisStates
      /\ Confirms(raw) \/ Jumps(raw, u, dt) \/ Moves(raw, u, dt) \/ Waits(raw, u, dt)
  BY <1>1, ObserveCases DEF IInv, TypeOK
<1> HIDE DEF raw
<1>3. ~Confirms(raw) /\ ~Waits(raw, u, dt)
  <2>1. ASSUME Confirms(raw)      PROVE FALSE  BY <1>2, <2>1 DEF Confirms, HysteresisStates
  <2>2. ASSUME Waits(raw, u, dt)  PROVE FALSE  BY <2>2 DEF Waits
  <2>3. QED  BY <2>1, <2>2
<1>4. hyst'.level = raw
  <2>1. CASE Jumps(raw, u, dt)  BY <1>2, <2>1 DEF Jumps, HysteresisStates
  <2>2. CASE Moves(raw, u, dt)  BY <2>2 DEF Moves
  <2>3. QED  BY <1>2, <1>3, <2>1, <2>2
<1>5. raw # hyst.level /\ hyst'.level = raw /\ (Jumps(raw, u, dt) \/ Moves(raw, u, dt))
  BY <1>2, <1>3, <1>4
<1> USE DEF raw
<1>6. WITNESS u \in Utils, dt \in Steps
<1>7. QED  BY <1>1, <1>5

\* A level change is backed by enough samples of the run, or is an emergency.
LEMMA ConfirmedStep ==
  ASSUME IInv, [Next]_vars, hyst'.level # hyst.level
  PROVE  \/ run'.target = hyst'.level /\ run'.count >= Config.min_dwell_observations
         \/ Config.immediate_emergency_escalation /\ hyst'.level = Exhausted
<1>1. PICK u \in Utils, dt \in Steps :
         LET raw == EvaluateLevel(u, hyst.level, Policy)
         IN  /\ Observe(u, dt) /\ raw # hyst.level /\ hyst'.level = raw
             /\ Jumps(raw, u, dt) \/ Moves(raw, u, dt)
  BY LevelChange
<1> DEFINE raw == EvaluateLevel(u, hyst.level, Policy)
<1>2. raw # hyst.level /\ hyst'.level = raw /\ (Jumps(raw, u, dt) \/ Moves(raw, u, dt))
  BY <1>1
<1>3. run' = Witness(raw, u, dt) /\ run'.target = raw
  BY <1>1, EvidenceStep
<1>4. raw \in Levels
  BY <1>1, ObserveCases
<1>5. /\ run \in Runs /\ HistoryCap \in Nat
      /\ Config.min_dwell_observations \in Nat \ {0} /\ Config.max_debounce_observations \in Nat
      /\ HistoryCap >= Config.min_dwell_observations
  BY DebounceAssumption DEF IInv, TypeOK, HysteresisConfigs
<1> HIDE DEF raw
<1>6. CASE Jumps(raw, u, dt)
  BY <1>2, <1>6 DEF Jumps, Emergency
<1>7. CASE Moves(raw, u, dt)
  <2>1. Confirmations(hyst, Config, raw) >= Config.min_dwell_observations
    BY <1>7 DEF Moves, Confirmed
  <2>2. CASE raw = hyst.pending
    <3>1. raw = run.target /\ hyst.obs = Lesser(run.count, Config.max_debounce_observations)
      BY <1>4, <2>2 DEF IInv, WindowIsRun, InHold
    <3>2. run'.count = Capped(run.count + 1)
      BY <1>2, <1>3, <3>1 DEF Witness
    <3>3. run'.count >= Config.min_dwell_observations
      BY <1>5, <2>1, <2>2, <3>1, <3>2 DEF Confirmations, Capped, Lesser, Runs
    <3>4. QED  BY <1>2, <1>3, <3>3
  <2>3. CASE raw # hyst.pending
    <3>1. Config.min_dwell_observations = 1
      BY <1>5, <2>1, <2>3 DEF Confirmations
    <3>2. run'.count >= 1
      BY <1>2, <1>3, <1>5 DEF Witness, Capped, Runs
    <3>3. QED  BY <1>2, <1>3, <3>1, <3>2
  <2>4. QED  BY <2>2, <2>3
<1>8. QED  BY <1>2, <1>6, <1>7

\* No level change without min_dwell_observations samples in a row, other than
\* the emergency (HysteresisState::update).
THEOREM MovesAreConfirmed == Spec => ConfirmedMoves
BY ConfirmedStep, Invariance, PTL DEF Spec, ConfirmedMoves

\* Every sample of the run that moved the level was past the threshold of the
\* move (evaluate_level's bands and update's window together).
THEOREM MovesHaveEvidence == Spec => EvidencePastThreshold
<1>1. ASSUME IInv, [Next]_vars, hyst'.level # hyst.level
      PROVE  /\ hyst'.level > hyst.level => run'.low >= Enter(hyst'.level, Policy)
             /\ hyst'.level < hyst.level => run'.high <= Exit(hyst.level, Policy)
  <2>1. PICK u \in Utils, dt \in Steps :
           LET raw == EvaluateLevel(u, hyst.level, Policy)
           IN  /\ Observe(u, dt) /\ raw # hyst.level /\ hyst'.level = raw
               /\ Jumps(raw, u, dt) \/ Moves(raw, u, dt)
    BY <1>1, LevelChange
  <2>2. QED  BY <1>1, <2>1, EvidenceStep
<1>2. IInv => hyst.level \in Levels
  BY DEF IInv, TypeOK, HysteresisStates
<1>3. IInv /\ [Next]_vars =>
        [/\ hyst'.level > hyst.level => run'.low >= Enter(hyst'.level, Policy)
         /\ hyst'.level < hyst.level => run'.high <= Exit(hyst.level, Policy)]_vars
  BY <1>1, <1>2
<1>4. QED  BY <1>3, Invariance, PTL DEF Spec, EvidencePastThreshold

\* A level is left downwards one band at a time.
THEOREM DescendsOneBand == Spec => OneBandDown
<1>1. ASSUME IInv, [Next]_vars, hyst'.level < hyst.level
      PROVE  hyst'.level = hyst.level - 1
  <2>1. hyst'.level # hyst.level
    BY <1>1 DEF IInv, TypeOK, HysteresisStates
  <2>2. PICK u \in Utils, dt \in Steps :
           LET raw == EvaluateLevel(u, hyst.level, Policy)
           IN  /\ Observe(u, dt) /\ raw # hyst.level /\ hyst'.level = raw
               /\ Jumps(raw, u, dt) \/ Moves(raw, u, dt)
    BY <1>1, <2>1, LevelChange
  <2>3. QED  BY <1>1, <2>2, EvidenceStep
<1>2. QED  BY <1>1, Invariance, PTL DEF Spec, OneBandDown

\* A confirmed move waits out the dwell time and its direction's delay, on the
\* real clock, also when the unsigned timestamps wrap around.
THEOREM MovesWaitLongEnough == Spec => HeldLongEnough
<1>1. ASSUME IInv, [Next]_vars, hyst'.level # hyst.level
      PROVE  \/ Config.immediate_emergency_escalation /\ hyst'.level = Exhausted
             \/ /\ run'.held >= Config.min_dwell_duration_ms
                /\ run'.held >= IF hyst'.level > hyst.level THEN Config.escalation_delay_ms
                                                            ELSE Config.recovery_delay_ms
  <2>1. PICK u \in Utils, dt \in Steps :
           LET raw == EvaluateLevel(u, hyst.level, Policy)
           IN  /\ Observe(u, dt) /\ raw # hyst.level /\ hyst'.level = raw
               /\ Jumps(raw, u, dt) \/ Moves(raw, u, dt)
    BY <1>1, LevelChange
  <2> DEFINE raw == EvaluateLevel(u, hyst.level, Policy)
             age == Elapsed(now', WindowStart(hyst, raw, now'))
  <2>2. raw # hyst.level /\ hyst'.level = raw /\ (Jumps(raw, u, dt) \/ Moves(raw, u, dt))
    BY <2>1
  <2>3. run'.held = HistoryCap \/ age <= run'.held
    BY <1>1, <2>1, WindowAgeStep
  <2>4. /\ raw \in Levels /\ dt \in Times /\ now' \in Times /\ ClockModulus \in Nat
        /\ hyst \in HysteresisStates /\ run' \in Runs
    BY <1>1, <2>1, ObserveCases, TypeStep, ClockAssumption DEF IInv, TypeOK
  <2> HIDE DEF raw
  <2>5. age \in Int /\ run'.held \in Int
    BY <2>4 DEF Elapsed, WindowStart, HysteresisStates, Runs, Times
  <2>6. /\ HistoryCap \in Nat
        /\ Config.min_dwell_duration_ms \in Nat /\ HistoryCap >= Config.min_dwell_duration_ms
        /\ Config.escalation_delay_ms \in Nat /\ HistoryCap >= Config.escalation_delay_ms
        /\ Config.recovery_delay_ms \in Nat /\ HistoryCap >= Config.recovery_delay_ms
    BY DebounceAssumption DEF HysteresisConfigs
  <2>7. CASE Jumps(raw, u, dt)
    BY <2>2, <2>7 DEF Jumps, Emergency
  <2>8. CASE Moves(raw, u, dt)
    <3>1. /\ age >= Config.min_dwell_duration_ms
          /\ age >= IF Escalates(hyst, raw) THEN Config.escalation_delay_ms
                                            ELSE Config.recovery_delay_ms
      BY <2>8 DEF Moves, Confirmed
    <3>2. Escalates(hyst, raw) <=> hyst'.level > hyst.level
      BY <2>2, <2>4 DEF Escalates, SeverityRank, HysteresisStates
    <3> HIDE DEF age
    <3>3. QED  BY <2>3, <2>5, <2>6, <3>1, <3>2
  <2>9. QED  BY <2>2, <2>7, <2>8
<1>2. IInv /\ [Next]_vars =>
        [\/ hyst'.level = hyst.level
         \/ Config.immediate_emergency_escalation /\ hyst'.level = Exhausted
         \/ /\ run'.held >= Config.min_dwell_duration_ms
            /\ run'.held >= IF hyst'.level > hyst.level THEN Config.escalation_delay_ms
                                                        ELSE Config.recovery_delay_ms]_vars
  BY <1>1
<1>3. QED  BY <1>2, Invariance, PTL DEF Spec, HeldLongEnough

\* With immediate escalation a sample at or above exhausted_enter leaves the
\* domain EXHAUSTED in the same refresh.
THEOREM EmergencyNeverWaits == Spec => EmergencyIsImmediate
<1>1. ASSUME IInv, [Next]_vars, ~UNCHANGED vars, Config.immediate_emergency_escalation,
             util' >= Policy.exhausted_enter
      PROVE  hyst'.level = Exhausted
  <2>1. PICK u \in Utils, dt \in Steps : Observe(u, dt)
    BY <1>1 DEF Next
  <2> DEFINE raw == EvaluateLevel(u, hyst.level, Policy)
  <2>2. util' = u /\ hyst \in HysteresisStates /\ hyst' = Update(hyst, Config, raw, now')
    BY <1>1, <2>1, ObserveCases DEF Observe, IInv, TypeOK
  <2>3. raw = Exhausted
    BY <1>1, <2>2 DEF EvaluateLevel, Climb, HysteresisStates
  <2> HIDE DEF raw
  <2>4. CASE hyst.level = Exhausted
    <3>1. hyst' = [hyst EXCEPT !.pending = Unknown, !.obs = 0]
      BY <2>2, <2>3, <2>4 DEF Update
    <3>2. QED  BY <2>2, <2>4, <3>1 DEF HysteresisStates
  <2>5. CASE hyst.level # Exhausted
    <3>1. Emergency(hyst, Config, raw)
      BY <1>1, <2>2, <2>3, <2>5 DEF Emergency, Escalates, SeverityRank, HysteresisStates
    <3>2. hyst' = [hyst EXCEPT !.level = raw, !.pending = Unknown, !.obs = 0]
      BY <2>2, <2>3, <2>5, <3>1 DEF Update
    <3>3. QED  BY <2>2, <2>3, <3>2 DEF HysteresisStates
  <2>6. QED  BY <2>4, <2>5
<1>2. IInv /\ [Next]_vars =>
        [Config.immediate_emergency_escalation /\ util' >= Policy.exhausted_enter
           => hyst'.level = Exhausted]_vars
  BY <1>1
<1>3. QED  BY <1>2, Invariance, PTL DEF Spec, EmergencyIsImmediate

-------------------------------------------------------------------------------
(* Refinement *)

USE DEF Promise!Normal, Promise!Exhausted, Promise!Unknown, Promise!Levels

LEMMA PromiseInit == Init => Promise!Init
BY DEF Init, Promise!Init, NewHysteresis, InHold

\* What the refinement mapping makes of the evidence, before and after a sample
\* that points away from the level.
LEMMA PromisedEvidence ==
  ASSUME IInv, NEW u \in Utils, NEW dt \in Steps, Observe(u, dt),
         NEW raw, raw = EvaluateLevel(u, hyst.level, Policy), raw # hyst.level
  PROVE  Promise!Weighed(raw) = Lesser(run'.count, Config.min_dwell_observations)
<1>1. /\ raw \in Levels /\ run \in Runs /\ HistoryCap \in Nat
      /\ Config.min_dwell_observations \in Nat \ {0}
      /\ HistoryCap >= Config.min_dwell_observations
  BY ObserveCases, DebounceAssumption DEF IInv, TypeOK, HysteresisConfigs
<1>2. run' = Witness(raw, u, dt)
  BY EvidenceStep
<1>3. raw = hyst.pending <=> raw = run.target
  BY <1>1 DEF IInv, WindowIsRun, InHold
<1>4. CASE raw = hyst.pending
  <2>1. run'.count = Capped(run.count + 1)
    BY <1>2, <1>3, <1>4 DEF Witness
  <2>2. InHold(hyst)
    BY <1>1, <1>4 DEF InHold
  <2>3. QED  BY <1>1, <1>4, <2>1, <2>2 DEF Promise!Weighed, Lesser, Capped, Runs
<1>5. CASE raw # hyst.pending
  <2>1. run'.count = 1
    BY <1>2, <1>3, <1>5 DEF Witness
  <2>2. QED  BY <1>1, <1>5, <2>1 DEF Promise!Weighed, Lesser
<1>6. QED  BY <1>4, <1>5

LEMMA PromiseStep == IInv /\ [Next]_vars => [Promise!Next]_(Promise!stickyVars)
<1> SUFFICES ASSUME IInv, [Next]_vars PROVE [Promise!Next]_(Promise!stickyVars)
  OBVIOUS
<1>1. ASSUME NEW u \in Utils, NEW dt \in Steps, Observe(u, dt)  PROVE Promise!Next
  <2> DEFINE raw == EvaluateLevel(u, hyst.level, Policy)
  <2>1. /\ raw \in Levels /\ hyst \in HysteresisStates
        /\ Confirms(raw) \/ Jumps(raw, u, dt) \/ Moves(raw, u, dt) \/ Waits(raw, u, dt)
    BY <1>1, ObserveCases DEF IInv, TypeOK
  <2>2. raw # hyst.level =>
           /\ run'.target = raw
           /\ raw < hyst.level => raw = hyst.level - 1
           /\ Promise!Weighed(raw) = Lesser(run'.count, Config.min_dwell_observations)
    BY <1>1, EvidenceStep, PromisedEvidence
  <2> HIDE DEF raw
  <2>3. hyst.level \in Levels /\ (raw # hyst.level => raw >= hyst.level - 1)
    BY <2>1, <2>2 DEF HysteresisStates
  <2>4. CASE Confirms(raw)
    <3>1. hyst'.level = hyst.level /\ hyst'.pending = Unknown
      BY <2>1, <2>4 DEF Confirms, HysteresisStates
    <3>2. Promise!Confirm
      BY <3>1 DEF Promise!Confirm, InHold
    <3>3. QED  BY <3>2 DEF Promise!Next
  <2>5. CASE Jumps(raw, u, dt)
    <3>1. /\ raw = Exhausted /\ Config.immediate_emergency_escalation /\ raw # hyst.level
          /\ hyst'.level = raw /\ hyst'.pending = Unknown
      BY <2>1, <2>5 DEF Jumps, Emergency, Escalates, SeverityRank, HysteresisStates
    <3>2. Promise!Move(raw)
      BY <2>3, <3>1 DEF Promise!Move, InHold
    <3>3. QED  BY <2>1, <3>2 DEF Promise!Next
  <2>6. CASE Moves(raw, u, dt)
    <3>1. raw # hyst.level /\ hyst'.level = raw /\ hyst'.pending = Unknown
      BY <2>6 DEF Moves
    <3>2. \/ Promise!Weighed(raw) >= Config.min_dwell_observations
          \/ Config.immediate_emergency_escalation /\ raw = Exhausted
      <4>1. \/ run'.count >= Config.min_dwell_observations
            \/ Config.immediate_emergency_escalation /\ raw = Exhausted
        BY <1>1, <3>1, ConfirmedStep
      <4>2. Config.min_dwell_observations \in Nat /\ run' \in Runs
        BY <1>1, TypeStep, DebounceAssumption DEF TypeOK, HysteresisConfigs
      <4>3. QED  BY <2>2, <3>1, <4>1, <4>2 DEF Lesser, Runs
    <3>3. Promise!Move(raw)
      BY <2>3, <3>1, <3>2 DEF Promise!Move, InHold
    <3>4. QED  BY <2>1, <3>3 DEF Promise!Next
  <2>7. CASE Waits(raw, u, dt)
    <3>1. raw # hyst.level /\ hyst'.level = hyst.level /\ hyst'.pending = raw
      BY <2>7 DEF Waits
    <3>2. Promise!Doubt(raw)
      BY <2>1, <2>2, <2>3, <3>1 DEF Promise!Doubt, InHold
    <3>3. QED  BY <2>1, <3>2 DEF Promise!Next
  <2>8. QED  BY <2>1, <2>4, <2>5, <2>6, <2>7
<1>2. CASE UNCHANGED vars
  BY <1>2 DEF vars, Promise!stickyVars, InHold
<1>3. QED  BY <1>1, <1>2 DEF Next

\* The debounce machine implements the sticky level it promises: a level that
\* moves only on agreed evidence and one band down at a time.
THEOREM Refinement == Spec => ImplementsPromise
BY PromiseInit, PromiseStep, Invariance, PTL DEF Spec, ImplementsPromise, Promise!Spec

===============================================================================
