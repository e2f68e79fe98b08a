------------------------- MODULE PressureRuntimeProofs -------------------------
(***************************************************************************)
(* The runtime, for every set of domains and providers, whatever the       *)
(* providers return, and for every sequence of calls and refreshes; then   *)
(* the runtime on the platform.                                            *)
(*                                                                         *)
(* The in-tree providers are providers the runtime is specified for, and   *)
(* what the runtime publishes of them is what they measured: for every     *)
(* number of devices, every way driver and runtime count them, and however *)
(* many calls fail in one refresh.  PlatformAssumption is a fact of that   *)
(* second half only: nothing that is said about Spec rests on it.          *)
(***************************************************************************)
EXTENDS Platform, SequenceTheorems, FiniteSetTheorems, TLAPS

-------------------------------------------------------------------------------
(* What a refresh does, read off its stages *)

Seen(samples)  == ObservedIn(samples)
Out(samples)   == Kept(HealthOf(samples), Seen(samples))
Lost(samples)  == Gone(HealthOf(samples), Seen(samples))
Sampled(samples, d) == samples[Source[d]].observed[d]
Digested(samples, dt, d) == Digest(d, Sampled(samples, d), Advance(now, dt))

States(samples, dt) ==
  [d \in Seen(samples) \cup Out(samples) |->
     IF d \in Seen(samples) THEN Published(d, Sampled(samples, d), Digested(samples, dt, d))
     ELSE [level |-> snapshot.domains[d].level,
           peak |-> snapshot.domains[d].peak, validity |-> "Stale",
           state |-> snapshot.domains[d].state]]

LevelsOf(domains) == [d \in DOMAIN domains |-> domains[d].level]

\* The snapshot that is published, field by field.
LEMMA Publication ==
  ASSUME NEW samples, NEW score, NEW dt, Refresh(samples, score, dt)
  PROVE  /\ snapshot'.id = snapshot.id + 1 /\ snapshot.id < MaxRefreshes
         /\ snapshot'.version = policy.version
         /\ snapshot'.health = HealthOf(samples)
         /\ snapshot'.domains = Respond(States(samples, dt))
         /\ snapshot'.aggregate = AggregateLevel(States(samples, dt))
         /\ snapshot'.generation =
              IF Changed(snapshot, snapshot') THEN generation + 1 ELSE generation
         /\ generation' = snapshot'.generation
<1> DEFINE draft ==
      [id |-> snapshot.id + 1, generation |-> 0, version |-> policy.version,
       health |-> HealthOf(samples), domains |-> Respond(States(samples, dt)),
       aggregate |-> AggregateLevel(States(samples, dt)), score |-> score]
<1>1. /\ snapshot' = NewSnapshot(States(samples, dt), HealthOf(samples), score)
      /\ generation' = snapshot'.generation /\ snapshot.id < MaxRefreshes
  BY DEF Refresh, States, Seen, Out, Sampled, Digested
<1>2. snapshot' = [draft EXCEPT !.generation =
                     IF Changed(snapshot, draft) THEN generation + 1 ELSE generation]
  BY <1>1 DEF NewSnapshot
<1>3. Changed(snapshot, draft) <=> Changed(snapshot, snapshot')
  BY <1>2 DEF Changed
<1>4. QED  BY <1>1, <1>2, <1>3

\* Its domains: those observed, at the level of their machine, and those whose
\* provider is out, as they were; each with the responses of the levels.
LEMMA DomainsStep ==
  ASSUME NEW samples, NEW score, NEW dt, Refresh(samples, score, dt)
  PROVE  /\ DOMAIN snapshot'.domains = Seen(samples) \cup Out(samples)
         /\ \A d \in Seen(samples) :
              /\ snapshot'.domains[d].level = Digested(samples, dt, d).hyst.level
              /\ snapshot'.domains[d].peak  = Digested(samples, dt, d).peak
              /\ snapshot'.domains[d].state = Interpret(BudgetOf(d), Sampled(samples, d).reading)
         /\ \A d \in Out(samples) :
              /\ d \in DOMAIN snapshot.domains \ Seen(samples)
              /\ snapshot'.domains[d].validity = "Stale"
              /\ snapshot'.domains[d].level = snapshot.domains[d].level
              /\ snapshot'.domains[d].peak  = snapshot.domains[d].peak
              /\ snapshot'.domains[d].state = snapshot.domains[d].state
         /\ \A d \in DOMAIN snapshot'.domains :
              snapshot'.domains[d].responses =
                ResponsesOf(d, LevelsOf(snapshot'.domains), Restrict(Type, DOMAIN snapshot'.domains))
<1>1. snapshot'.domains = Respond(States(samples, dt))
  BY Publication
<1>2. DOMAIN States(samples, dt) = Seen(samples) \cup Out(samples)
  BY DEF States
<1>3. /\ DOMAIN snapshot'.domains = DOMAIN States(samples, dt)
      /\ \A d \in DOMAIN States(samples, dt) :
           /\ snapshot'.domains[d].level = States(samples, dt)[d].level
           /\ snapshot'.domains[d].peak  = States(samples, dt)[d].peak
           /\ snapshot'.domains[d].state = States(samples, dt)[d].state
           /\ snapshot'.domains[d].validity = States(samples, dt)[d].validity
           /\ snapshot'.domains[d].responses =
                ResponsesOf(d, LevelsOf(States(samples, dt)), Restrict(Type, DOMAIN States(samples, dt)))
  BY <1>1 DEF Respond, LevelsOf
<1>4. LevelsOf(States(samples, dt)) = LevelsOf(snapshot'.domains)
  BY <1>3 DEF LevelsOf
<1>5. \A d \in Seen(samples) :
        States(samples, dt)[d] = Published(d, Sampled(samples, d), Digested(samples, dt, d))
  BY DEF States
<1>6. \A d \in Seen(samples) :
        /\ States(samples, dt)[d].level = Digested(samples, dt, d).hyst.level
        /\ States(samples, dt)[d].peak  = Digested(samples, dt, d).peak
        /\ States(samples, dt)[d].state = Interpret(BudgetOf(d), Sampled(samples, d).reading)
  <2>1. ASSUME NEW d, NEW o, NEW g
        PROVE  /\ Published(d, o, g).level = g.hyst.level /\ Published(d, o, g).peak = g.peak
               /\ Published(d, o, g).state = Interpret(BudgetOf(d), o.reading)
    BY DEF Published
  <2>2. QED  BY <1>5, <2>1
<1>7. \A d \in Out(samples) : d \in DOMAIN snapshot.domains \ Seen(samples)
  BY DEF Out, Kept
<1>8. \A d \in Out(samples) :
        /\ States(samples, dt)[d].level = snapshot.domains[d].level
        /\ States(samples, dt)[d].peak  = snapshot.domains[d].peak
        /\ States(samples, dt)[d].state = snapshot.domains[d].state
        /\ States(samples, dt)[d].validity = "Stale"
  BY <1>7 DEF States
<1>9. QED  BY <1>2, <1>3, <1>4, <1>6, <1>7, <1>8

\* The machines afterwards.
LEMMA TrackedStep ==
  ASSUME NEW samples, NEW score, NEW dt, Refresh(samples, score, dt)
  PROVE  /\ DOMAIN tracked' = (DOMAIN tracked \cup Seen(samples)) \ Lost(samples)
         /\ \A d \in DOMAIN tracked' :
              tracked'[d] = IF d \in Seen(samples) THEN Digested(samples, dt, d) ELSE tracked[d]
         /\ tracked' = [d \in DOMAIN tracked' |-> tracked'[d]]
         /\ resets' = resets \ (Seen(samples) \cup Lost(samples))
         /\ sampled' = Seen(samples)
         /\ now' = Advance(now, dt)
         /\ UNCHANGED config
<1> DEFINE digests == [d \in Seen(samples) |-> Digested(samples, dt, d)]
<1>1. /\ tracked' = TrackedAfter(digests, Lost(samples))
      /\ resets' = resets \ (Seen(samples) \cup Lost(samples))
      /\ sampled' = Seen(samples)
      /\ now' = Advance(now, dt)
      /\ UNCHANGED config
  BY DEF Refresh, Seen, Lost, Sampled, Digested
<1>2. tracked' = [d \in (DOMAIN tracked \cup Seen(samples)) \ Lost(samples) |->
                    IF d \in Seen(samples) THEN Digested(samples, dt, d) ELSE tracked[d]]
  BY <1>1 DEF TrackedAfter
<1>3. QED  BY <1>1, <1>2

-------------------------------------------------------------------------------
(* Samples and machines *)

\* What a provider reports is about its own domains, and one that is out
\* reports nothing.
LEMMA SamplesAreValid ==
  ASSUME TypeOK, NEW samples \in SamplesOf(registered)
  PROVE  /\ DOMAIN HealthOf(samples) = registered
         /\ \A d \in Seen(samples) :
              /\ d \in Domains /\ Source[d] \in registered
              /\ HealthOf(samples)[Source[d]] \notin {"Failed", "Unavailable"}
<1>1. /\ DOMAIN samples = registered /\ registered \subseteq Providers
      /\ \A p \in registered : samples[p] \in Samples[p]
  BY DEF SamplesOf, TypeOK
<1>2. DOMAIN HealthOf(samples) = registered
  BY <1>1 DEF HealthOf
<1>3. ASSUME NEW d \in Seen(samples)
      PROVE  /\ d \in Domains /\ Source[d] \in registered
             /\ HealthOf(samples)[Source[d]] \notin {"Failed", "Unavailable"}
  <2>1. PICK p \in registered : d \in DOMAIN samples[p].observed
    BY <1>1 DEF Seen, ObservedIn
  <2>2. ValidSample(p, samples[p])
    BY <1>1, RuntimeAssumption
  <2>3. /\ d \in Domains /\ Source[d] = p
        /\ samples[p].status \notin {"Threw", "Failed", "Unavailable"}
    BY <2>1, <2>2 DEF ValidSample
  <2>4. HealthOf(samples)[p] = samples[p].status
    BY <1>1, <2>3 DEF HealthOf
  <2>5. QED  BY <2>3, <2>4
<1>4. QED  BY <1>2, <1>3

Machines == [hyst : HysteresisStates, peak : Levels]

LEMMA MachineType ==
  ASSUME TypeOK, NEW d
  PROVE  MachineOf(d) \in Machines
<1>1. NewHysteresis \in HysteresisStates
  BY ClockAssumption DEF NewHysteresis, HysteresisStates, Levels, Normal, Exhausted, Unknown, Times
<1>2. [hyst |-> NewHysteresis, peak |-> 0] \in Machines
  BY <1>1 DEF Machines, Levels, Normal, Exhausted
<1>3. tracked \in [DOMAIN tracked -> Machines]
  BY DEF TypeOK, Machines
<1>4. QED  BY <1>2, <1>3 DEF MachineOf

\* The classifier and the machine: a level, never more than a band lower, and
\* lower only at or below the exit threshold.
LEMMA RawLevel ==
  ASSUME NEW u, NEW t, NEW l \in Levels
  PROVE  /\ EvaluateLevel(u, l, t) \in Levels /\ EvaluateLevel(u, l, t) >= l - 1
         /\ EvaluateLevel(u, l, t) < l => u <= Exit(l, t)
BY DEF EvaluateLevel, Climb, Levels, Normal, Elevated, High, Critical, Exhausted, Unknown

LEMMA UpdateType ==
  ASSUME NEW h \in HysteresisStates, NEW cfg, cfg.max_debounce_observations \in Nat,
         NEW raw \in Levels, NEW t \in Times
  PROVE  /\ Update(h, cfg, raw, t) \in HysteresisStates
         /\ Update(h, cfg, raw, t).level \in {h.level, raw}
<1>1. Confirmations(h, cfg, raw) \in Nat
  BY DEF Confirmations, HysteresisStates
<1>2. WindowStart(h, raw, t) \in Times
  BY DEF WindowStart, HysteresisStates
<1>3. QED  BY <1>1, <1>2 DEF Update, HysteresisStates

LEMMA DigestType ==
  ASSUME TypeOK, NEW d, NEW o, NEW t \in Times
  PROVE  /\ Digest(d, o, t) \in Machines
         /\ Digest(d, o, t).peak >= Digest(d, o, t).hyst.level
         /\ Digest(d, o, t).hyst.level >= MachineOf(d).hyst.level - 1
         /\ Digest(d, o, t).hyst.level < MachineOf(d).hyst.level =>
              Utilization(Interpret(BudgetOf(d), o.reading))
                <= Exit(MachineOf(d).hyst.level, policy.thresholds)
<1> DEFINE st  == MachineOf(d)
           raw == EvaluateLevel(Utilization(Interpret(BudgetOf(d), o.reading)), st.hyst.level,
                                policy.thresholds)
           h   == Update(st.hyst, policy.hysteresis, raw, t)
<1>1. st \in Machines /\ st.hyst \in HysteresisStates /\ st.hyst.level \in Levels /\ st.peak \in Levels
  BY MachineType DEF Machines, HysteresisStates
<1>2. policy.hysteresis.max_debounce_observations \in Nat
  BY DEF TypeOK, PolicyRecords
<1>3. /\ raw \in Levels /\ raw >= st.hyst.level - 1
      /\ raw < st.hyst.level =>
           Utilization(Interpret(BudgetOf(d), o.reading)) <= Exit(st.hyst.level, policy.thresholds)
  BY <1>1, RawLevel
<1>4. h \in HysteresisStates /\ h.level \in {st.hyst.level, raw} /\ h.level \in Levels
  BY <1>1, <1>2, <1>3, UpdateType DEF HysteresisStates
<1>5. Digest(d, o, t) = [hyst |-> h, peak |-> IF h.level > st.peak THEN h.level ELSE st.peak]
  BY DEF Digest
<1>6. st.hyst.level = MachineOf(d).hyst.level
  OBVIOUS
<1> HIDE DEF st, raw, h
<1>7. Digest(d, o, t).hyst = h /\ Digest(d, o, t).peak = IF h.level > st.peak THEN h.level ELSE st.peak
  BY <1>5
<1>8. Digest(d, o, t) \in Machines
  BY <1>1, <1>4, <1>5 DEF Machines
<1>9. st.peak \in Int /\ h.level \in Int /\ st.hyst.level \in Int
  BY <1>1, <1>4 DEF Levels, Normal, Exhausted
<1>10. QED  BY <1>3, <1>4, <1>6, <1>7, <1>8, <1>9

LEMMA AdvanceType == ASSUME NEW t \in Times, NEW dt \in Times PROVE Advance(t, dt) \in Times
BY ClockAssumption DEF Advance, Times

-------------------------------------------------------------------------------
(* The inductive invariant *)

ResponsesFollowLevels ==
  \A d \in DOMAIN snapshot.domains :
    snapshot.domains[d].responses =
      ResponsesOf(d, LevelsOf(snapshot.domains), Restrict(Type, DOMAIN snapshot.domains))

IInv ==
  /\ TypeOK /\ TrackedMatchesPublished /\ LevelsAgree
  /\ ResponsesFollowLevels
  /\ snapshot.generation = generation

\* The calls other than refresh that the runtime answers.
ConfigurationStep ==
  \/ \E p \in Policies : SetPolicy(p)
  \/ \E p \in Providers : RegisterProvider(p)
  \/ \E d \in Domains : ClearBudget(d)
  \/ \E d \in Domains, b \in Candidates : SetBudget(d, b)
  \/ \E n \in Limits : SetHistoryLimit(n)

LEMMA StepCases ==
  ASSUME Next
  PROVE  \/ ConfigurationStep
         \/ \E samples \in SamplesOf(registered), score \in Scores, dt \in Steps :
              Refresh(samples, score, dt)
BY DEF Next, ConfigurationStep

\* No other call touches what is published.
LEMMA ConfigurationPublishesNothing ==
  ASSUME ConfigurationStep
  PROVE  UNCHANGED <<snapshot, generation, history, now, events, sampled, heard>>
BY DEF ConfigurationStep, SetPolicy, RegisterProvider, ClearBudget, SetBudget, SetHistoryLimit, output

LEMMA InitInvariant == Init => IInv
<1> SUFFICES ASSUME Init PROVE IInv
  OBVIOUS
<1>1. DOMAIN NoDomains = {} /\ snapshot.domains = NoDomains /\ tracked = NoDomains
  BY DEF Init, NoDomains, NoSnapshot
<1>2. TypeOK
  <2>1. tracked \in [DOMAIN tracked -> [hyst : HysteresisStates, peak : Levels]] /\ budgets \in [DOMAIN budgets -> Budget]
    BY <1>1 DEF Init, NoDomains
  <2>2. 0 \in Times
    BY ClockAssumption DEF Times
  <2>3. snapshot.id = 0 /\ generation = 0 /\ history = << >>
    BY DEF Init, NoSnapshot
  <2>4. QED  BY <1>1, <2>1, <2>2, <2>3, RuntimeAssumption DEF TypeOK, Init
<1>3. QED  BY <1>1, <1>2 DEF Init, IInv, TrackedMatchesPublished, LevelsAgree, ResponsesFollowLevels, NoSnapshot

LEMMA ConfigurationInvariant ==
  ASSUME IInv, ConfigurationStep
  PROVE  IInv'
<1>1. UNCHANGED <<snapshot, generation, history, now, events, sampled, heard>>
  BY ConfigurationPublishesNothing
<1>2. CASE \E p \in Policies : SetPolicy(p)
  <2>1. PICK p \in Policies : SetPolicy(p)
    BY <1>2
  <2>2. p \in PolicyRecords /\ ValidPolicy(p) /\ policy' = p
    BY <2>1, RuntimeAssumption DEF SetPolicy
  <2>3. /\ DOMAIN tracked' = DOMAIN tracked
        /\ tracked' \in [DOMAIN tracked -> Machines]
    <3>1. NewHysteresis \in HysteresisStates
      BY ClockAssumption DEF NewHysteresis, HysteresisStates, Levels, Normal, Exhausted, Unknown, Times
    <3>2. \A d \in DOMAIN tracked : tracked[d] \in Machines
      BY DEF IInv, TypeOK, Machines
    <3>3. \A d \in DOMAIN tracked : [tracked[d] EXCEPT !.hyst = NewHysteresis] \in Machines
      BY <3>1, <3>2 DEF Machines
    <3>4. QED  BY <2>1, <3>3 DEF SetPolicy
  <2>4. UNCHANGED <<budgets, registered, limit>> /\ resets' = DOMAIN tracked
    BY <2>1 DEF SetPolicy
  <2>5. TypeOK'
    BY <1>1, <2>2, <2>3, <2>4 DEF IInv, TypeOK, Machines
  <2>6. TrackedMatchesPublished' /\ LevelsAgree'
    BY <1>1, <2>3, <2>4 DEF IInv, TrackedMatchesPublished, LevelsAgree
  <2>7. ResponsesFollowLevels'
    BY <1>1 DEF IInv, ResponsesFollowLevels, LevelsOf
  <2>8. QED  BY <1>1, <2>5, <2>6, <2>7 DEF IInv
<1>3. ASSUME UNCHANGED <<policy, tracked, resets>>, TypeOK'  PROVE IInv'
  <2>1. TrackedMatchesPublished' /\ LevelsAgree'
    BY <1>1, <1>3 DEF IInv, TrackedMatchesPublished, LevelsAgree
  <2>2. ResponsesFollowLevels'
    BY <1>1 DEF IInv, ResponsesFollowLevels, LevelsOf
  <2>3. QED  BY <1>1, <1>3, <2>1, <2>2 DEF IInv
<1>4. CASE \E p \in Providers : RegisterProvider(p)
  <2>1. UNCHANGED <<policy, budgets, limit, tracked, resets>> /\ registered' \subseteq Providers
    BY <1>4 DEF RegisterProvider, output, IInv, TypeOK
  <2>2. TypeOK'
    BY <1>1, <2>1 DEF IInv, TypeOK
  <2>3. QED  BY <1>3, <2>1, <2>2
<1>5. CASE \E d \in Domains : ClearBudget(d)
  <2>1. PICK d \in Domains : ClearBudget(d)
    BY <1>5
  <2>2. UNCHANGED <<policy, registered, limit, tracked, resets>>
    BY <2>1 DEF ClearBudget, output
  <2>3. budgets' = [x \in DOMAIN budgets \ {d} |-> budgets[x]]
    BY <2>1 DEF ClearBudget, Restrict
  <2>4. /\ budgets' \in [DOMAIN budgets' -> Budget] /\ DOMAIN budgets' \subseteq Domains
        /\ \A x \in DOMAIN budgets' : ValidBudget(budgets'[x])
    BY <2>3 DEF IInv, TypeOK
  <2>5. TypeOK'
    BY <1>1, <2>2, <2>4 DEF IInv, TypeOK
  <2>6. QED  BY <1>3, <2>2, <2>5
<1>6. CASE \E d \in Domains, b \in Candidates : SetBudget(d, b)
  <2>1. PICK d \in Domains, b \in Candidates : SetBudget(d, b)
    BY <1>6
  <2>2. UNCHANGED <<policy, registered, limit, tracked, resets>>
    BY <2>1 DEF SetBudget, output
  <2>3. /\ budgets' = [x \in DOMAIN budgets \cup {d} |-> IF x = d THEN b ELSE budgets[x]]
        /\ b \in Budget /\ ValidBudget(b)
    BY <2>1, RuntimeAssumption DEF SetBudget
  <2>4. /\ budgets' \in [DOMAIN budgets' -> Budget] /\ DOMAIN budgets' \subseteq Domains
        /\ \A x \in DOMAIN budgets' : ValidBudget(budgets'[x])
    BY <2>3 DEF IInv, TypeOK
  <2>5. TypeOK'
    BY <1>1, <2>2, <2>4 DEF IInv, TypeOK
  <2>6. QED  BY <1>3, <2>2, <2>5
<1>7. CASE \E n \in Limits : SetHistoryLimit(n)
  <2>1. UNCHANGED <<policy, budgets, registered, tracked, resets>> /\ limit' \in Limits
    BY <1>7 DEF SetHistoryLimit, output
  <2>2. TypeOK'
    BY <1>1, <2>1 DEF IInv, TypeOK
  <2>3. QED  BY <1>3, <2>1, <2>2
<1>8. QED  BY <1>2, <1>4, <1>5, <1>6, <1>7 DEF ConfigurationStep

\* What SubSeq keeps of a sequence.
LEMMA TailPart ==
  ASSUME NEW S, NEW h \in Seq(S), NEW n \in Nat, n < Len(h)
  PROVE  /\ SubSeq(h, Len(h) - n + 1, Len(h)) \in Seq(S)
         /\ Len(SubSeq(h, Len(h) - n + 1, Len(h))) = n
         /\ \A i \in 1..n : SubSeq(h, Len(h) - n + 1, Len(h))[i] = h[Len(h) - n + i]
<1>1. Len(h) \in Nat /\ \A i \in 1..Len(h) : h[i] \in S
  OBVIOUS
<1>2. \A i \in (Len(h) - n + 1)..Len(h) : h[i] \in S
  BY <1>1
<1>3. QED  BY <1>1, <1>2, SubSeqProperties

\* The history holds ids of snapshots.
LEMMA RememberedType ==
  ASSUME TypeOK, NEW id \in 1..MaxRefreshes
  PROVE  Remembered(history, id) \in Seq(1..MaxRefreshes)
<1>1. Append(history, id) \in Seq(1..MaxRefreshes) /\ limit \in Nat
  BY RuntimeAssumption DEF TypeOK
<1>2. QED  BY <1>1, TailPart DEF Remembered

LEMMA RefreshInvariant ==
  ASSUME IInv, NEW samples \in SamplesOf(registered), NEW score \in Scores, NEW dt \in Steps,
         Refresh(samples, score, dt)
  PROVE  IInv'
<1>1. /\ DOMAIN HealthOf(samples) = registered
      /\ \A d \in Seen(samples) : d \in Domains
  BY SamplesAreValid DEF IInv
<1>2. /\ now \in Times /\ dt \in Times /\ Advance(now, dt) \in Times
  BY RuntimeAssumption, AdvanceType DEF IInv, TypeOK
<1>3. \A d : /\ Digested(samples, dt, d) \in Machines
             /\ Digested(samples, dt, d).peak >= Digested(samples, dt, d).hyst.level
             /\ Digested(samples, dt, d).hyst.level \in Levels
  BY <1>2, DigestType DEF IInv, Digested, Machines, HysteresisStates
<1>4. /\ DOMAIN snapshot'.domains = Seen(samples) \cup Out(samples)
      /\ \A d \in Seen(samples) :
           /\ snapshot'.domains[d].level = Digested(samples, dt, d).hyst.level
           /\ snapshot'.domains[d].peak  = Digested(samples, dt, d).peak
      /\ \A d \in Out(samples) :
           /\ d \in DOMAIN snapshot.domains \ Seen(samples)
           /\ snapshot'.domains[d].level = snapshot.domains[d].level
           /\ snapshot'.domains[d].peak  = snapshot.domains[d].peak
      /\ ResponsesFollowLevels'
  BY DomainsStep DEF ResponsesFollowLevels, LevelsOf
<1>5. /\ DOMAIN tracked' = (DOMAIN tracked \cup Seen(samples)) \ Lost(samples)
      /\ \A d \in DOMAIN tracked' :
           tracked'[d] = IF d \in Seen(samples) THEN Digested(samples, dt, d) ELSE tracked[d]
      /\ tracked' = [d \in DOMAIN tracked' |-> tracked'[d]]
      /\ resets' = resets \ (Seen(samples) \cup Lost(samples))
      /\ now' \in Times
      /\ UNCHANGED config
  BY <1>2, TrackedStep
<1>6. Lost(samples) = DOMAIN snapshot.domains \ (Seen(samples) \cup Out(samples))
  BY DEF Lost, Gone, Out
<1>7. TrackedMatchesPublished'
  BY <1>4, <1>5, <1>6 DEF IInv, TrackedMatchesPublished
<1>8. LevelsAgree'
  <2> SUFFICES ASSUME NEW d \in DOMAIN snapshot'.domains \ resets'
               PROVE  /\ snapshot'.domains[d].level = tracked'[d].hyst.level
                      /\ snapshot'.domains[d].peak >= snapshot'.domains[d].level
    BY DEF LevelsAgree
  <2>1. d \in DOMAIN tracked'
    BY <1>7 DEF TrackedMatchesPublished
  <2>2. CASE d \in Seen(samples)
    <3>1. tracked'[d] = Digested(samples, dt, d)
      BY <1>5, <2>1, <2>2
    <3>2. QED  BY <1>3, <1>4, <2>2, <3>1
  <2>3. CASE d \notin Seen(samples)
    <3>1. d \in Out(samples) /\ tracked'[d] = tracked[d]
      BY <1>4, <1>5, <2>1, <2>3
    <3>2. d \in DOMAIN snapshot.domains \ resets
      BY <1>4, <1>5, <1>6, <2>3, <3>1
    <3>3. QED  BY <1>4, <3>1, <3>2 DEF IInv, LevelsAgree
  <2>4. QED  BY <2>2, <2>3
<1>9. /\ snapshot'.id = snapshot.id + 1 /\ snapshot.id < MaxRefreshes
      /\ generation' = snapshot'.generation
      /\ generation' \in {generation, generation + 1}
  BY Publication
<1>10. TypeOK'
  <2>1. /\ UNCHANGED <<policy, budgets, registered, limit>>
    BY <1>5 DEF config
  <2>2. tracked' \in [DOMAIN tracked' -> [hyst : HysteresisStates, peak : Levels]]
    <3>1. \A d \in DOMAIN tracked : tracked[d] \in Machines
      BY DEF IInv, TypeOK, Machines
    <3>2. \A d \in DOMAIN tracked' : tracked'[d] \in Machines
      BY <1>3, <1>5, <3>1
    <3>3. tracked' = [d \in DOMAIN tracked' |-> tracked'[d]]
      BY <1>5
    <3>4. QED  BY <3>2, <3>3 DEF Machines
  <2>3. DOMAIN tracked' \subseteq Domains /\ resets' \subseteq DOMAIN tracked'
    BY <1>1, <1>5 DEF IInv, TypeOK
  <2>4. \A d \in DOMAIN snapshot'.domains : snapshot'.domains[d].level \in Levels
    <3>1. \A d \in DOMAIN snapshot.domains : snapshot.domains[d].level \in Levels
      BY DEF IInv, TypeOK
    <3>2. QED  BY <1>3, <1>4, <3>1
  <2>5. snapshot'.id \in 1..MaxRefreshes /\ generation' \in 0..snapshot'.id
    BY <1>9, RuntimeAssumption DEF IInv, TypeOK
  <2>6. history' \in Seq(1..MaxRefreshes)
    <3>1. history' = Remembered(history, snapshot'.id)
      BY DEF Refresh
    <3>2. QED  BY <2>5, <3>1, RememberedType DEF IInv
  <2>7. /\ policy' \in PolicyRecords /\ ValidPolicy(policy)'
        /\ budgets' \in [DOMAIN budgets' -> Budget] /\ DOMAIN budgets' \subseteq Domains
        /\ \A d \in DOMAIN budgets' : ValidBudget(budgets[d])'
        /\ registered' \subseteq Providers /\ limit' \in Limits
    BY <2>1 DEF IInv, TypeOK, ValidPolicy, ValidBudget
  <2>8. snapshot'.id \in 0..MaxRefreshes
    BY <2>5
  <2>9. QED  BY <1>5, <2>2, <2>3, <2>4, <2>5, <2>6, <2>7, <2>8 DEF TypeOK
<1>11. QED  BY <1>4, <1>7, <1>8, <1>9, <1>10 DEF IInv

THEOREM Invariance == Spec => []IInv
<1>1. IInv /\ [Next]_vars => IInv'
  <2> SUFFICES ASSUME IInv, [Next]_vars PROVE IInv'
    OBVIOUS
  <2>1. CASE Next
    BY <2>1, StepCases, ConfigurationInvariant, RefreshInvariant
  <2>2. CASE UNCHANGED vars
    BY <2>2 DEF vars, config, output, IInv, TypeOK, ValidPolicy, ValidBudget, TrackedMatchesPublished,
                LevelsAgree, ResponsesFollowLevels, LevelsOf
  <2>3. QED  BY <2>1, <2>2
<1>2. QED  BY <1>1, InitInvariant, PTL DEF Spec

-------------------------------------------------------------------------------
(* Safety *)

\* Policies, budgets and machines stay well formed (set_policy, set_budget and
\* refresh), and the generation never runs ahead of the snapshots.
THEOREM TypeCorrect == Spec => []TypeOK
BY Invariance, PTL DEF IInv

\* The runtime keeps a debounce machine for exactly the domains it publishes
\* (refresh's domain_states_ and its removal of domains).
THEOREM MachinesMatchDomains == Spec => []TrackedMatchesPublished
BY Invariance, PTL DEF IInv

\* What is published is the level of the machine, also through an outage.
THEOREM PublishedLevelsAgree == Spec => []LevelsAgree
BY Invariance, PTL DEF IInv

\* A published domain keeps the responses that follow from the levels beside it.
LEMMA SameLevelsSameResponses ==
  ASSUME IInv, IInv',
         DOMAIN snapshot'.domains = DOMAIN snapshot.domains,
         \A d \in DOMAIN snapshot.domains : snapshot'.domains[d].level = snapshot.domains[d].level
  PROVE  \A d \in DOMAIN snapshot.domains :
           snapshot'.domains[d].responses = snapshot.domains[d].responses
<1>1. LevelsOf(snapshot'.domains) = LevelsOf(snapshot.domains)
  BY DEF LevelsOf
<1>2. QED  BY <1>1 DEF IInv, ResponsesFollowLevels

\* The content of a snapshot changes exactly when diff_snapshots says so.
LEMMA ChangedIsContent ==
  ASSUME IInv, IInv'
  PROVE  Changed(snapshot, snapshot') <=> Content(snapshot') # Content(snapshot)
<1> DEFINE old == snapshot.domains
           new == snapshot'.domains
<1>1. ASSUME ~Changed(snapshot, snapshot')  PROVE Content(snapshot') = Content(snapshot)
  <2>1. /\ DOMAIN new = DOMAIN old
        /\ \A d \in DOMAIN old :
             /\ new[d].level = old[d].level
             /\ new[d].state.budget.hard_capacity = old[d].state.budget.hard_capacity
             /\ ReserveBytes(new[d].state.budget) = ReserveBytes(old[d].state.budget)
        /\ snapshot'.aggregate = snapshot.aggregate /\ snapshot'.score = snapshot.score
        /\ snapshot'.version = snapshot.version /\ snapshot'.health = snapshot.health
    BY <1>1 DEF Changed, BudgetChanged
  <2>2. \A d \in DOMAIN old : new[d].responses = old[d].responses
    BY <2>1, SameLevelsSameResponses
  <2>3. QED  BY <2>1, <2>2 DEF Content
<1>2. ASSUME Content(snapshot') = Content(snapshot)  PROVE ~Changed(snapshot, snapshot')
  <2>1. /\ snapshot'.version = snapshot.version /\ snapshot'.health = snapshot.health
        /\ snapshot'.aggregate = snapshot.aggregate /\ snapshot'.score = snapshot.score
        /\ Content(snapshot').domains = Content(snapshot).domains
    BY <1>2 DEF Content
  <2>2. DOMAIN new = DOMAIN old
    BY <2>1 DEF Content
  <2>3. ASSUME NEW d \in DOMAIN old
        PROVE  /\ new[d].level = old[d].level
               /\ new[d].state.budget.hard_capacity = old[d].state.budget.hard_capacity
               /\ ReserveBytes(new[d].state.budget) = ReserveBytes(old[d].state.budget)
    <3>1. Content(snapshot').domains[d] = Content(snapshot).domains[d]
      BY <2>1
    <3>2. QED  BY <2>2, <3>1 DEF Content
  <2>4. QED  BY <2>1, <2>2, <2>3 DEF Changed, BudgetChanged
<1>3. QED  BY <1>1, <1>2

\* A generation number identifies the material content of the snapshots that
\* carry it (refresh's generation_ and diff_snapshots).
THEOREM GenerationsIdentify == Spec => GenerationIdentifiesContent
<1>1. ASSUME IInv, [Next]_vars, IInv'
      PROVE  IF snapshot'.generation = snapshot.generation THEN Content(snapshot') = Content(snapshot)
             ELSE /\ snapshot'.generation = snapshot.generation + 1
                  /\ Content(snapshot') # Content(snapshot)
  <2>1. CASE snapshot' = snapshot
    BY <2>1
  <2>2. CASE snapshot' # snapshot
    <3>1. PICK samples \in SamplesOf(registered), score \in Scores, dt \in Steps :
             Refresh(samples, score, dt)
      BY <1>1, <2>2, StepCases, ConfigurationPublishesNothing DEF vars, output
    <3>2. /\ snapshot'.generation =
               IF Changed(snapshot, snapshot') THEN generation + 1 ELSE generation
          /\ generation = snapshot.generation /\ generation \in Int
      BY <1>1, <3>1, Publication DEF IInv, TypeOK
    <3>3. Changed(snapshot, snapshot') <=> Content(snapshot') # Content(snapshot)
      BY <1>1, ChangedIsContent
    <3>4. QED  BY <3>2, <3>3
  <2>3. QED  BY <2>1, <2>2
<1>2. IInv /\ [Next]_vars /\ IInv' =>
        [IF snapshot'.generation = snapshot.generation THEN Content(snapshot') = Content(snapshot)
         ELSE /\ snapshot'.generation = snapshot.generation + 1
              /\ Content(snapshot') # Content(snapshot)]_vars
  BY <1>1
<1>3. QED  BY <1>2, Invariance, PTL DEF Spec, GenerationIdentifiesContent

\* A step that publishes is a refresh.
LEMMA PublishingStep ==
  ASSUME [Next]_vars, snapshot' # snapshot
  PROVE  \E samples \in SamplesOf(registered), score \in Scores, dt \in Steps :
           Refresh(samples, score, dt)
BY StepCases, ConfigurationPublishesNothing DEF vars, output

\* The provider of a published domain is registered, and has a status.
SourcesRegistered == \A d \in DOMAIN snapshot.domains : Source[d] \in registered

LEMMA SourcesStayRegistered == Spec => []SourcesRegistered
<1>1. Init => SourcesRegistered
  BY DEF Init, SourcesRegistered, NoSnapshot, NoDomains
<1>2. ASSUME IInv, SourcesRegistered, [Next]_vars  PROVE SourcesRegistered'
  <2>1. CASE snapshot' = snapshot
    <3>1. registered \subseteq registered'
      <4>1. CASE UNCHANGED vars
        BY <4>1 DEF vars, config
      <4>2. CASE ConfigurationStep
        BY <4>2 DEF ConfigurationStep, SetPolicy, RegisterProvider, ClearBudget, SetBudget, SetHistoryLimit
      <4>3. CASE \E samples \in SamplesOf(registered), score \in Scores, dt \in Steps :
                   Refresh(samples, score, dt)
        BY <4>3, TrackedStep DEF config
      <4>4. QED  BY <1>2, <4>1, <4>2, <4>3, StepCases
    <3>2. QED  BY <1>2, <2>1, <3>1 DEF SourcesRegistered
  <2>2. CASE snapshot' # snapshot
    <3>1. PICK samples \in SamplesOf(registered), score \in Scores, dt \in Steps :
             Refresh(samples, score, dt)
      BY <1>2, <2>2, PublishingStep
    <3>2. DOMAIN snapshot'.domains = Seen(samples) \cup Out(samples) /\ registered' = registered
      BY <3>1, DomainsStep, TrackedStep DEF config
    <3>3. Out(samples) \subseteq DOMAIN snapshot.domains
      BY DEF Out, Kept
    <3>4. \A d \in Seen(samples) : Source[d] \in registered
      BY <1>2, SamplesAreValid DEF IInv
    <3>5. QED  BY <1>2, <3>2, <3>3, <3>4 DEF SourcesRegistered
  <2>3. QED  BY <2>1, <2>2
<1>3. QED  BY <1>1, <1>2, Invariance, PTL DEF Spec

LEMMA HealthType ==
  ASSUME TypeOK, NEW samples \in SamplesOf(registered), NEW p \in registered
  PROVE  HealthOf(samples)[p] \in Statuses
<1>1. DOMAIN samples = registered /\ p \in Providers /\ samples[p] \in Samples[p]
  BY DEF SamplesOf, TypeOK
<1>2. samples[p].status \in Statuses \cup {"Threw"}
  BY <1>1, RuntimeAssumption DEF ValidSample
<1>3. QED  BY <1>1, <1>2 DEF HealthOf, Statuses

\* An outage never looks like relief: a domain is withdrawn only when its
\* provider answered without it, one that was not observed keeps its level and
\* its bytes, and a level falls only by a band, in a refresh that observed the
\* domain at or below the exit threshold of that level (refresh's retention,
\* evaluate_level and the machine).  That leaves out a domain first observed
\* after set_policy, whose machine was reset; and a reading that failed is an
\* observation here, of the bytes it carries.
THEOREM OutageIsNoRelief == Spec => NoReliefWithoutEvidence
<1> DEFINE Evidenced(d) ==
      LET old    == snapshot.domains[d]
          new    == snapshot'.domains[d]
          status == snapshot'.health[Source[d]]
      IN  IF d \notin DOMAIN snapshot'.domains
          THEN d \notin sampled' /\ status \in {"Healthy", "Partial"}
          ELSE IF d \notin sampled'
          THEN /\ status \in Outages /\ new.validity = "Stale"
               /\ new.level = old.level /\ new.peak = old.peak /\ new.state = old.state
          ELSE new.level < old.level /\ d \notin resets =>
                 /\ new.level = old.level - 1
                 /\ Utilization(new.state) <= Exit(old.level, policy.thresholds)
<1>1. ASSUME IInv, SourcesRegistered, [Next]_vars, Refreshed, NEW d \in DOMAIN snapshot.domains
      PROVE  Evidenced(d)
  <2>1. PICK samples \in SamplesOf(registered), score \in Scores, dt \in Steps :
           Refresh(samples, score, dt)
    BY <1>1, PublishingStep DEF Refreshed
  <2>2. /\ DOMAIN snapshot'.domains = Seen(samples) \cup Out(samples)
        /\ sampled' = Seen(samples)
        /\ snapshot'.health = HealthOf(samples)
    BY <2>1, DomainsStep, TrackedStep, Publication
  <2>3. CASE d \in Seen(samples)
    <3> DEFINE from == snapshot.domains[d].level
               to   == snapshot'.domains[d].level
    <3>1. SUFFICES ASSUME to < from, d \notin resets
                   PROVE  /\ to = from - 1
                          /\ Utilization(snapshot'.domains[d].state) <= Exit(from, policy.thresholds)
      BY <2>2, <2>3
    <3>2. /\ to = Digested(samples, dt, d).hyst.level
          /\ snapshot'.domains[d].state = Interpret(BudgetOf(d), Sampled(samples, d).reading)
      BY <2>1, <2>3, DomainsStep
    <3>3. Advance(now, dt) \in Times
      BY <1>1, RuntimeAssumption, AdvanceType DEF IInv, TypeOK
    <3>4. from = MachineOf(d).hyst.level
      BY <1>1, <3>1 DEF IInv, TrackedMatchesPublished, LevelsAgree, MachineOf
    <3>5. /\ to \in Levels /\ to >= MachineOf(d).hyst.level - 1
          /\ to < MachineOf(d).hyst.level =>
               Utilization(Interpret(BudgetOf(d), Sampled(samples, d).reading))
                 <= Exit(MachineOf(d).hyst.level, policy.thresholds)
      BY <1>1, <3>2, <3>3, DigestType DEF IInv, Digested, Machines, HysteresisStates
    <3>6. from \in Int /\ to \in Int
      BY <1>1, <3>5 DEF IInv, TypeOK, Levels, Normal, Exhausted
    <3> HIDE DEF from, to
    <3>7. to = from - 1
      BY <3>1, <3>4, <3>5, <3>6
    <3>8. QED  BY <3>1, <3>2, <3>4, <3>5, <3>7
  <2>4. CASE d \in Out(samples)
    <3>1. /\ d \in DOMAIN snapshot'.domains /\ d \notin sampled'
          /\ snapshot'.domains[d].validity = "Stale"
          /\ snapshot'.domains[d].level = snapshot.domains[d].level
          /\ snapshot'.domains[d].peak  = snapshot.domains[d].peak
          /\ snapshot'.domains[d].state = snapshot.domains[d].state
      BY <2>1, <2>2, <2>4, DomainsStep
    <3>2. snapshot'.health[Source[d]] \in Outages
      BY <2>2, <2>4 DEF Out, Kept
    <3>3. QED  BY <3>1, <3>2
  <2>5. CASE d \notin Seen(samples) /\ d \notin Out(samples)
    <3>1. HealthOf(samples)[Source[d]] \notin Outages
      BY <1>1, <2>5 DEF Out, Kept
    <3>2. HealthOf(samples)[Source[d]] \in Statuses
      BY <1>1, HealthType DEF IInv, SourcesRegistered
    <3>3. HealthOf(samples)[Source[d]] \in {"Healthy", "Partial"}
      BY <3>1, <3>2 DEF Outages, Statuses
    <3>4. QED  BY <2>2, <2>5, <3>3
  <2>6. QED  BY <2>3, <2>4, <2>5
<1>2. IInv /\ SourcesRegistered /\ [Next]_vars =>
        [Refreshed => \A d \in DOMAIN snapshot.domains : Evidenced(d)]_vars
  BY <1>1
<1>3. QED  BY <1>2, Invariance, SourcesStayRegistered, PTL DEF Spec, NoReliefWithoutEvidence

\* The history counts up to the snapshot that is published.
Consecutive == \A i \in 1..Len(history) : history[i] = snapshot.id - Len(history) + i

\* What becomes of it in a refresh.
LEMMA HistoryStep ==
  ASSUME IInv, Consecutive, NEW samples \in SamplesOf(registered), NEW score \in Scores,
         NEW dt \in Steps, Refresh(samples, score, dt)
  PROVE  /\ Consecutive'
         /\ history' \in Seq(1..MaxRefreshes) /\ Len(history') <= limit
         /\ limit > 0 => Len(history') > 0
<1> DEFINE h == Append(history, snapshot'.id)
<1>1. /\ snapshot'.id = snapshot.id + 1 /\ snapshot.id \in Nat /\ snapshot'.id \in 1..MaxRefreshes
      /\ limit \in Nat /\ history \in Seq(1..MaxRefreshes)
  BY Publication, RuntimeAssumption DEF IInv, TypeOK
<1>2. /\ h \in Seq(1..MaxRefreshes) /\ Len(h) = Len(history) + 1 /\ Len(history) \in Nat
      /\ \A i \in 1..Len(h) : h[i] = snapshot'.id - Len(h) + i
  <2>1. /\ h \in Seq(1..MaxRefreshes) /\ Len(h) = Len(history) + 1 /\ Len(history) \in Nat
        /\ \A i \in 1..Len(h) : h[i] = IF i = Len(history) + 1 THEN snapshot'.id ELSE history[i]
    BY <1>1
  <2>2. QED  BY <1>1, <2>1 DEF Consecutive
<1>3. history' = IF Len(h) > limit THEN SubSeq(h, Len(h) - limit + 1, Len(h)) ELSE h
  BY DEF Refresh, Remembered
<1> HIDE DEF h
<1>4. CASE Len(h) > limit
  <2>1. /\ history' \in Seq(1..MaxRefreshes) /\ Len(history') = limit
        /\ \A i \in 1..limit : history'[i] = h[Len(h) - limit + i]
    BY <1>1, <1>2, <1>3, <1>4, TailPart
  <2>2. \A i \in 1..limit : Len(h) - limit + i \in 1..Len(h)
    BY <1>1, <1>2, <1>4
  <2>3. ASSUME NEW i \in 1..limit  PROVE history'[i] = snapshot'.id - limit + i
    <3>1. h[Len(h) - limit + i] = snapshot'.id - Len(h) + (Len(h) - limit + i)
      BY <1>2, <2>2
    <3>2. snapshot'.id \in Int /\ Len(h) \in Int /\ limit \in Int
      BY <1>1, <1>2
    <3>3. QED  BY <2>1, <3>1, <3>2
  <2>4. QED  BY <1>1, <2>1, <2>3 DEF Consecutive
<1>5. CASE ~(Len(h) > limit)
  BY <1>1, <1>2, <1>3, <1>5 DEF Consecutive
<1>6. QED  BY <1>4, <1>5

\* After a refresh the history holds the last snapshots, without a gap and
\* within the limit in force (refresh's history_, set_history_limit).
THEOREM HistoryHoldsTheLatest == Spec => HistoryIsRecent
<1>1. Init => Consecutive
  BY DEF Init, Consecutive, NoSnapshot
<1>2. IInv /\ Consecutive /\ [Next]_vars => Consecutive'
  <2> SUFFICES ASSUME IInv, Consecutive, [Next]_vars PROVE Consecutive'
    OBVIOUS
  <2>1. CASE UNCHANGED vars
    BY <2>1 DEF Consecutive, vars, output
  <2>2. CASE ConfigurationStep
    BY <2>2, ConfigurationPublishesNothing DEF Consecutive
  <2>3. CASE \E samples \in SamplesOf(registered), score \in Scores, dt \in Steps :
               Refresh(samples, score, dt)
    BY <2>3, HistoryStep
  <2>4. QED  BY <2>1, <2>2, <2>3, StepCases
<1>3. ASSUME IInv, Consecutive, [Next]_vars, Refreshed
      PROVE  /\ Len(history') <= limit
             /\ limit > 0 => history' # <<>>
             /\ \A i \in DOMAIN history' : history'[i] = snapshot'.id - Len(history') + i
  <2>1. PICK samples \in SamplesOf(registered), score \in Scores, dt \in Steps :
           Refresh(samples, score, dt)
    BY <1>3, PublishingStep DEF Refreshed
  <2>2. /\ Consecutive' /\ history' \in Seq(1..MaxRefreshes) /\ Len(history') <= limit
        /\ limit > 0 => Len(history') > 0
    BY <1>3, <2>1, HistoryStep
  <2>3. DOMAIN history' = 1..Len(history')
    BY <2>2
  <2>4. QED  BY <2>2, <2>3 DEF Consecutive
<1>4. IInv /\ Consecutive /\ [Next]_vars =>
        [Refreshed => /\ Len(history') <= limit
                      /\ limit > 0 => history' # <<>>
                      /\ \A i \in DOMAIN history' :
                           history'[i] = snapshot'.id - Len(history') + i]_vars
  BY <1>3
<1>5. QED  BY <1>1, <1>2, <1>4, Invariance, PTL DEF Spec, HistoryIsRecent

-------------------------------------------------------------------------------
(* Events *)

LevelEventTypes == {"PressureEntered", "PressureEscalated", "PressureRelieved", "PressureRecovered"}

LevelEvent(d, from, to) ==
  IF to > from THEN Event(IF from = Normal THEN "PressureEntered" ELSE "PressureEscalated", d, to)
  ELSE IF to = Normal THEN Event("PressureRecovered", d, 0)
  ELSE Event("PressureRelieved", d, to)

\* The domains a refresh announces a new level of.
Moved(old, new) ==
  {x \in DOMAIN old.domains \cap DOMAIN new.domains : old.domains[x].level # new.domains[x].level}

LEMMA EventFields ==
  ASSUME NEW t, NEW d, NEW v
  PROVE  Event(t, d, v).type = t /\ Event(t, d, v).subject = d /\ Event(t, d, v).severity = v
BY DEF Event

LEMMA LevelEventFields ==
  ASSUME NEW d, NEW from, NEW to
  PROVE  /\ LevelEvent(d, from, to).type \in LevelEventTypes
         /\ LevelEvent(d, from, to).subject = d
         /\ LevelEvent(d, from, to).severity = to
BY EventFields DEF LevelEvent, LevelEventTypes, Normal

LEMMA LevelEventsAre ==
  ASSUME NEW old, NEW new
  PROVE  LevelEvents(old, new) =
           {LevelEvent(d, old.domains[d].level, new.domains[d].level) : d \in Moved(old, new)}
BY DEF LevelEvents, LevelEvent, Moved

\* No two kinds of events share a type.
LEMMA EventTypes ==
  ASSUME NEW samples, NEW old, NEW new, NEW kept
  PROVE  /\ \A e \in ProviderEvents(samples) : e.type \in {"ProviderFailed", "ProviderStale"}
         /\ \A e \in LifecycleEvents(old, new, kept) :
              e.type \in {"ProviderStale", "DomainRemoved", "DomainAdded"}
         /\ \A e \in LevelEvents(old, new) : e.type \in LevelEventTypes
         /\ \A e \in ResponseEvents(new) :
              e.type \in {"ReclaimRequested", "DemotionRequested", "BackpressureIssued"}
<1>1. \A e \in ProviderEvents(samples) : e.type \in {"ProviderFailed", "ProviderStale"}
  BY EventFields DEF ProviderEvents
<1>2. \A e \in LifecycleEvents(old, new, kept) :
        e.type \in {"ProviderStale", "DomainRemoved", "DomainAdded"}
  BY EventFields DEF LifecycleEvents
<1>3. \A e \in LevelEvents(old, new) : e.type \in LevelEventTypes
  BY LevelEventsAre, LevelEventFields
<1>4. \A e \in ResponseEvents(new) :
        e.type \in {"ReclaimRequested", "DemotionRequested", "BackpressureIssued"}
  <2>1. \A a \in DOMAIN Announced :
          Announced[a] \in {"ReclaimRequested", "DemotionRequested", "BackpressureIssued"}
    BY DEF Announced
  <2>2. QED  BY <2>1, EventFields DEF ResponseEvents
<1>5. QED  BY <1>1, <1>2, <1>3, <1>4

LEMMA EventsByType ==
  ASSUME NEW samples, NEW old, NEW new, NEW kept, NEW e
  PROVE  /\ e.type \in LevelEventTypes =>
              (e \in EventsOf(samples, old, new, kept) <=> e \in LevelEvents(old, new))
         /\ e.type \in {"DomainAdded", "DomainRemoved"} =>
              (e \in EventsOf(samples, old, new, kept) <=> e \in LifecycleEvents(old, new, kept))
<1> DEFINE generations ==
      IF new.generation # old.generation THEN {Event("GenerationChanged", "runtime", 0)} ELSE {}
<1>1. e \in EventsOf(samples, old, new, kept) <=>
        \/ e \in ProviderEvents(samples) \/ e \in LifecycleEvents(old, new, kept)
        \/ e \in LevelEvents(old, new) \/ e \in ResponseEvents(new) \/ e \in generations
  BY DEF EventsOf
<1>2. e \in generations => e.type = "GenerationChanged"
  BY EventFields
<1> HIDE DEF generations
<1>3. QED  BY <1>1, <1>2, EventTypes DEF LevelEventTypes

LEMMA DomainEvents ==
  ASSUME NEW old, NEW new, NEW kept, NEW d
  PROVE  /\ Event("DomainAdded", d, 0) \in LifecycleEvents(old, new, kept) <=>
              d \in DOMAIN new.domains \ DOMAIN old.domains
         /\ Event("DomainRemoved", d, 0) \in LifecycleEvents(old, new, kept) <=>
              d \in DOMAIN old.domains \ DOMAIN new.domains
BY EventFields DEF LifecycleEvents

\* What the events of a refresh say of the domains that come and go.
LEMMA EventsOnDomains ==
  ASSUME NEW samples, NEW old, NEW new, NEW kept
  PROVE  /\ SubjectsOf("DomainAdded", EventsOf(samples, old, new, kept)) =
              DOMAIN new.domains \ DOMAIN old.domains
         /\ SubjectsOf("DomainRemoved", EventsOf(samples, old, new, kept)) =
              DOMAIN old.domains \ DOMAIN new.domains
<1> DEFINE evs == EventsOf(samples, old, new, kept)
           life == LifecycleEvents(old, new, kept)
<1>1. \A e : e.type \in {"DomainAdded", "DomainRemoved"} => (e \in evs <=> e \in life)
  BY EventsByType
<1>2. \A e \in life :
        /\ e.type = "DomainAdded"   => e.subject \in DOMAIN new.domains \ DOMAIN old.domains
        /\ e.type = "DomainRemoved" => e.subject \in DOMAIN old.domains \ DOMAIN new.domains
  BY EventFields DEF LifecycleEvents
<1>3. ASSUME NEW d
      PROVE  /\ d \in DOMAIN new.domains \ DOMAIN old.domains =>
                  \E e \in life : e.type = "DomainAdded" /\ e.subject = d
             /\ d \in DOMAIN old.domains \ DOMAIN new.domains =>
                  \E e \in life : e.type = "DomainRemoved" /\ e.subject = d
  <2>1. /\ Event("DomainAdded", d, 0).type = "DomainAdded" /\ Event("DomainAdded", d, 0).subject = d
        /\ Event("DomainRemoved", d, 0).type = "DomainRemoved"
        /\ Event("DomainRemoved", d, 0).subject = d
    BY EventFields
  <2>2. QED  BY <2>1, DomainEvents
<1> HIDE DEF evs, life
<1>4. /\ SubjectsOf("DomainAdded", evs) = DOMAIN new.domains \ DOMAIN old.domains
      /\ SubjectsOf("DomainRemoved", evs) = DOMAIN old.domains \ DOMAIN new.domains
  BY <1>1, <1>2, <1>3 DEF SubjectsOf
<1>5. QED  BY <1>4 DEF evs

\* Every event that carries a level carries the one that is published with it.
LEMMA EventsTellTheLevel ==
  ASSUME NEW samples, NEW old, NEW new, NEW kept, NEW e \in EventsOf(samples, old, new, kept),
         e.type \in CarryLevel
  PROVE  e.severity = new.domains[e.subject].level
<1>1. e \in LevelEvents(old, new) \/ e \in ResponseEvents(new)
  <2>1. e.type \in LevelEventTypes => e \in LevelEvents(old, new)
    BY EventsByType
  <2>2. e \in EventsOf(samples, old, new, kept) =>
          \/ e \in ProviderEvents(samples) \/ e \in LifecycleEvents(old, new, kept)
          \/ e \in LevelEvents(old, new) \/ e \in ResponseEvents(new)
          \/ e = Event("GenerationChanged", "runtime", 0)
    BY DEF EventsOf
  <2>3. QED  BY <2>1, <2>2, EventTypes, EventFields DEF CarryLevel
<1>2. CASE e \in LevelEvents(old, new)
  <2>1. PICK d \in Moved(old, new) : e = LevelEvent(d, old.domains[d].level, new.domains[d].level)
    BY <1>2, LevelEventsAre
  <2>2. QED  BY <2>1, LevelEventFields
<1>3. CASE e \in ResponseEvents(new)
  <2>1. PICK d \in DOMAIN new.domains :
           \E a \in new.domains[d].responses \cap DOMAIN Announced :
             e = Event(Announced[a], d, new.domains[d].level)
    BY <1>3 DEF ResponseEvents
  <2>2. QED  BY <2>1, EventFields
<1>4. QED  BY <1>1, <1>2, <1>3

\* A reclaim is asked for from HIGH on, whatever the other tiers are at.
LEMMA ReclaimFromHighOn ==
  ASSUME NEW d, NEW level, NEW type, level[d] \in Levels, level[d] >= High
  PROVE  "RequestReclaim" \in ResponsesOf(d, level, type)
<1>1. level[d] \in {High, Critical, Exhausted}
  BY DEF Levels, Normal, High, Critical, Exhausted
<1>2. "RequestReclaim" \in Range(InitialActions(level[d]))
  <2>1. CASE level[d] = High
    <3>1. InitialActions(level[d]) = <<"Warn", "RequestReclaim">>
      BY <2>1 DEF InitialActions, Elevated, High, Critical, Exhausted
    <3>2. QED  BY <3>1 DEF Range
  <2>2. CASE level[d] = Critical
    <3>1. InitialActions(level[d]) =
            <<"RequestDemotion", "RequestReclaim", "ReduceAdmission", "Throttle">>
      BY <2>2 DEF InitialActions, Elevated, High, Critical, Exhausted
    <3>2. QED  BY <3>1 DEF Range
  <2>3. CASE level[d] = Exhausted
    <3>1. InitialActions(level[d]) =
            <<"EmergencyStopGrowth", "RejectNewWork", "RequestDemotion", "RequestReclaim">>
      BY <2>3 DEF InitialActions, Elevated, High, Critical, Exhausted
    <3>2. QED  BY <3>1 DEF Range
  <2>4. QED  BY <1>1, <2>1, <2>2, <2>3
<1>3. QED  BY <1>2 DEF ResponsesOf, KeepsAction

\* A level that has moved, and one from HIGH on, is told.
LEMMA LevelIsTold ==
  ASSUME IInv, IInv', NEW samples, NEW kept,
         NEW d \in DOMAIN snapshot'.domains,
         snapshot'.domains[d].level >= High \/ d \in Moved(snapshot, snapshot')
  PROVE  SeveritiesOf(d, EventsOf(samples, snapshot, snapshot', kept)) # {}
<1> DEFINE evs == EventsOf(samples, snapshot, snapshot', kept)
           level == LevelsOf(snapshot'.domains)
<1>1. SUFFICES \E e \in evs : e.subject = d /\ e.type \in CarryLevel
  BY DEF SeveritiesOf
<1>2. CASE d \in Moved(snapshot, snapshot')
  <2> DEFINE e == LevelEvent(d, snapshot.domains[d].level, snapshot'.domains[d].level)
  <2>1. e \in LevelEvents(snapshot, snapshot')
    BY <1>2, LevelEventsAre
  <2>2. e \in evs
    BY <2>1 DEF EventsOf
  <2>3. e.subject = d /\ e.type \in CarryLevel
    BY LevelEventFields DEF LevelEventTypes, CarryLevel
  <2>4. QED  BY <2>2, <2>3
<1>3. CASE snapshot'.domains[d].level >= High
  <2> DEFINE e == Event("ReclaimRequested", d, snapshot'.domains[d].level)
  <2>1. level[d] = snapshot'.domains[d].level /\ level[d] \in Levels
    BY DEF LevelsOf, IInv, TypeOK
  <2>2. snapshot'.domains[d].responses =
          ResponsesOf(d, level, Restrict(Type, DOMAIN snapshot'.domains))
    BY DEF IInv, ResponsesFollowLevels
  <2> HIDE DEF level
  <2>3. "RequestReclaim" \in snapshot'.domains[d].responses
    BY <1>3, <2>1, <2>2, ReclaimFromHighOn
  <2>4. "RequestReclaim" \in DOMAIN Announced /\ Announced["RequestReclaim"] = "ReclaimRequested"
    BY DEF Announced
  <2>5. e \in ResponseEvents(snapshot')
    BY <2>3, <2>4 DEF ResponseEvents
  <2>6. e \in evs
    BY <2>5 DEF EventsOf
  <2>7. e.subject = d /\ e.type \in CarryLevel
    BY EventFields DEF CarryLevel
  <2>8. QED  BY <2>6, <2>7
<1>4. QED  BY <1>2, <1>3

\* What a follower of the events knows, after the events of one more refresh.
LEMMA FollowerStep ==
  ASSUME IInv, IInv', EventsCarryLevels, NEW samples, NEW kept,
         events' = EventsOf(samples, snapshot, snapshot', kept), heard' = HeardFrom(events')
  PROVE  EventsCarryLevels'
<1> DEFINE old == snapshot.domains
           new == snapshot'.domains
<1>1. DOMAIN heard = DOMAIN old
  BY DEF EventsCarryLevels
<1>2. /\ SubjectsOf("DomainAdded", events') = DOMAIN new \ DOMAIN old
      /\ SubjectsOf("DomainRemoved", events') = DOMAIN old \ DOMAIN new
  BY EventsOnDomains
<1>3. heard' = [d \in DOMAIN new |-> IF SeveritiesOf(d, events') # {} THEN SeveritiesOf(d, events')
                                     ELSE IF d \in DOMAIN old THEN heard[d] ELSE {}]
  <2>1. DOMAIN heard \ SubjectsOf("DomainRemoved", events') = DOMAIN old \cap DOMAIN new
    BY <1>1, <1>2
  <2>2. (DOMAIN old \cap DOMAIN new) \cup SubjectsOf("DomainAdded", events') = DOMAIN new
    BY <1>2
  <2>3. QED  BY <2>1, <2>2 DEF HeardFrom
<1>4. ASSUME NEW d \in DOMAIN new
      PROVE  heard'[d] = {new[d].level} \/ (heard'[d] = {} /\ new[d].level < High)
  <2>1. SeveritiesOf(d, events') \subseteq {new[d].level}
    BY EventsTellTheLevel DEF SeveritiesOf
  <2>2. CASE SeveritiesOf(d, events') # {}
    BY <1>3, <2>1, <2>2
  <2>3. CASE SeveritiesOf(d, events') = {}
    <3>1. ~(new[d].level >= High) /\ d \notin Moved(snapshot, snapshot')
      BY <2>3, LevelIsTold
    <3>2. new[d].level < High
      <4>1. TypeOK'
        BY DEF IInv
      <4>2. new[d].level \in Levels
        BY <4>1 DEF TypeOK
      <4>3. QED  BY <3>1, <4>2 DEF Levels, Normal, High, Exhausted
    <3>3. CASE d \in DOMAIN old
      <4>1. heard'[d] = heard[d] /\ new[d].level = old[d].level
        BY <1>3, <2>3, <3>1, <3>3 DEF Moved
      <4>2. heard[d] = {old[d].level} \/ heard[d] = {}
        BY <1>1, <3>3 DEF EventsCarryLevels
      <4>3. QED  BY <3>2, <4>1, <4>2
    <3>4. CASE d \notin DOMAIN old
      BY <1>3, <2>3, <3>2, <3>4
    <3>5. QED  BY <3>3, <3>4
  <2>4. QED  BY <2>2, <2>3
<1>5. DOMAIN heard' = DOMAIN new
  BY <1>3
<1>6. QED  BY <1>4, <1>5 DEF EventsCarryLevels

\* Who follows the events from the start, and never sees a snapshot, knows the
\* domains that are published and never holds a wrong level of one; a level it
\* was not told is below HIGH (the event generation of refresh).
THEOREM EventsKeepUp == Spec => []EventsCarryLevels
<1>1. Init => EventsCarryLevels
  BY DEF Init, EventsCarryLevels, NoSnapshot, NoDomains
<1>2. ASSUME IInv, IInv', EventsCarryLevels, [Next]_vars  PROVE EventsCarryLevels'
  <2>1. CASE UNCHANGED <<snapshot, heard>>
    BY <1>2, <2>1 DEF EventsCarryLevels
  <2>2. CASE \E samples \in SamplesOf(registered), score \in Scores, dt \in Steps :
               Refresh(samples, score, dt)
    <3>1. PICK samples \in SamplesOf(registered), score \in Scores, dt \in Steps :
             Refresh(samples, score, dt)
      BY <2>2
    <3>2. /\ events' = EventsOf(samples, snapshot, snapshot', Out(samples))
          /\ heard' = HeardFrom(events')
      BY <3>1 DEF Refresh, Out, Seen
    <3>3. QED  BY <1>2, <3>2, FollowerStep
  <2>3. CASE ConfigurationStep
    BY <2>1, <2>3, ConfigurationPublishesNothing
  <2>4. QED  BY <1>2, <2>1, <2>2, <2>3, StepCases DEF vars, output
<1>3. QED  BY <1>1, <1>2, Invariance, PTL DEF Spec

-------------------------------------------------------------------------------
(* What the providers return *)

LEMMA MeasuredType ==
  ASSUME NEW used \in Loads
  PROVE  /\ Measured(used) \in Observations /\ Measured(used).reading.committed = used
         /\ Unmeasured \in Observations /\ Unmeasured.validity # "Valid"
         /\ [Measured(used) EXCEPT !.validity = "Stale"] \in Observations
<1>1. used \in Bytes /\ Capacity \in Bytes /\ 0 \in Bytes
  BY PlatformAssumption, WordAssumption DEF Bytes
<1>2. QED  BY <1>1 DEF Measured, Unmeasured, Observations, Observation, Validities

\* The domains of a provider, each measured or not valid.
Answer(p, s, used) ==
  /\ ValidSample(p, s)
  /\ \A d \in DOMAIN s.observed :
       s.observed[d].validity = "Valid" => s.observed[d].reading.committed = used

LEMMA NothingIsAnAnswer ==
  ASSUME NEW p, NEW used, NEW status \in {"Failed", "Unavailable"}
  PROVE  Answer(p, Sample(status, NoDomains), used)
BY DEF Answer, ValidSample, Sample, NoDomains, Statuses

LEMMA WindowsAnswers ==
  ASSUME NEW faults, NEW used \in Loads
  PROVE  Answer("windows", WindowsSample(faults, used), used)
<1> DEFINE answers(call) == call \notin faults.system
           ids == {"host-memory"}
             \cup IF answers("GetPerformanceInfo")
                  THEN {"system-commit"} \cup IF answers("GetProcessMemoryInfo") THEN {"process-commit"} ELSE {}
                  ELSE {}
           status == IF answers("GetPerformanceInfo") THEN "Healthy" ELSE "Partial"
           all == Sample(status, [d \in ids |-> Measured(used)])
<1>1. CASE ~answers("GlobalMemoryStatusEx")
  BY <1>1, NothingIsAnAnswer DEF WindowsSample
<1>2. CASE answers("GlobalMemoryStatusEx")
  <2>1. WindowsSample(faults, used) = all
    BY <1>2 DEF WindowsSample
  <2>2. ids \subseteq {"host-memory", "system-commit", "process-commit"} /\ status \in {"Healthy", "Partial"}
    OBVIOUS
  <2>3. ids \in SUBSET Domains /\ \A d \in ids : Source[d] = "windows"
    BY <2>2, PlatformAssumption
  <2> HIDE DEF ids, status
  <2>4. Answer("windows", all, used)
    BY <2>2, <2>3, MeasuredType DEF Answer, ValidSample, Sample, Statuses
  <2>5. QED  BY <2>1, <2>4
<1>3. QED  BY <1>1, <1>2

LEMMA StorageAnswers ==
  ASSUME NEW faults, NEW used \in Loads
  PROVE  Answer("storage", StorageSample(faults, used), used)
<1>1. CASE "GetDiskFreeSpaceExW" \in faults.system
  BY <1>1, NothingIsAnAnswer DEF StorageSample
<1>2. CASE "GetDiskFreeSpaceExW" \notin faults.system
  <2>1. "storage" \in Domains /\ Source["storage"] = "storage"
    BY PlatformAssumption
  <2>2. Answer("storage", Sample("Healthy", [d \in {"storage"} |-> Measured(used)]), used)
    BY <2>1, MeasuredType DEF Answer, ValidSample, Sample, Statuses
  <2>3. QED  BY <1>2, <2>2 DEF StorageSample
<1>3. QED  BY <1>1, <1>2

LEMMA SyntheticAnswers ==
  ASSUME NEW sc, NEW t, NEW used \in Loads
  PROVE  Answer("synthetic", SyntheticSample(sc, t, used), used)
<1> DEFINE stale == sc = "StaleProvider" /\ t >= 3
           o == [Measured(used) EXCEPT !.validity = IF stale THEN "Stale" ELSE "Valid"]
           status == IF stale THEN "Stale" ELSE "Healthy"
<1>1. CASE sc = "ProviderFailure" /\ t >= FailureAfter
  BY <1>1, NothingIsAnAnswer DEF SyntheticSample
<1>2. CASE ~(sc = "ProviderFailure" /\ t >= FailureAfter)
  <2>1. SyntheticSample(sc, t, used) = Sample(status, [d \in SyntheticDomains |-> o])
    BY <1>2 DEF SyntheticSample
  <2>2. o \in Observations /\ o.reading.committed = used /\ status \in {"Healthy", "Stale"}
    <3>1. o = IF stale THEN [Measured(used) EXCEPT !.validity = "Stale"] ELSE Measured(used)
      BY DEF Measured
    <3>2. [Measured(used) EXCEPT !.validity = "Stale"].reading.committed = used
      BY DEF Measured
    <3>3. QED  BY <3>1, <3>2, MeasuredType
  <2>3. SyntheticDomains \subseteq Domains /\ \A d \in SyntheticDomains : Source[d] = "synthetic"
    BY PlatformAssumption
  <2> HIDE DEF o, status
  <2>4. Answer("synthetic", Sample(status, [d \in SyntheticDomains |-> o]), used)
    BY <2>2, <2>3 DEF Answer, ValidSample, Sample, Statuses
  <2>5. QED  BY <2>1, <2>4
<1>3. QED  BY <1>1, <1>2

\* The devices a sample lists, those it measures and the ids it gives them.
Listed(dev) == {i \in Ordinals : i < DeviceCount(dev)}
Answering(dev, faults) == {i \in Listed(dev) : i < dev.runtime} \ faults.memory
IdsOf(dev, faults) ==
  [i \in Listed(dev) |-> DeviceDomainId(i, dev.driver > 0 /\ i \notin faults.uuid,
                                           dev.driver > 0 /\ i \notin faults.name)]

LEMMA CudaSampleIs ==
  ASSUME NEW dev, NEW faults, NEW used
  PROVE  CudaSample(dev, faults, used) =
           IF Listed(dev) = {} THEN Sample("Unavailable", NoDomains)
           ELSE Sample(IF Answering(dev, faults) = Listed(dev) THEN "Healthy" ELSE "Partial",
                       [d \in Range(IdsOf(dev, faults)) |->
                          IF \E i \in Answering(dev, faults) : IdsOf(dev, faults)[i] = d
                          THEN Measured(used) ELSE Unmeasured])
BY DEF CudaSample, Listed, Answering, IdsOf

LEMMA DeviceIds ==
  ASSUME NEW dev, NEW faults
  PROVE  /\ DOMAIN IdsOf(dev, faults) = Listed(dev)
         /\ \A i \in Listed(dev) : IdsOf(dev, faults)[i] \in IdsOfDevice(i)
         /\ \A d \in Range(IdsOf(dev, faults)) : d \in Domains /\ Source[d] = "cuda"
<1>1. \A i \in Listed(dev) : IdsOf(dev, faults)[i] \in IdsOfDevice(i)
  BY DEF IdsOf, DeviceDomainId, IdsOfDevice
<1>2. DOMAIN IdsOf(dev, faults) = Listed(dev) /\ Listed(dev) \subseteq Ordinals
  BY DEF IdsOf, Listed
<1>3. \A i \in Ordinals : \A d \in IdsOfDevice(i) : d \in Domains /\ Source[d] = "cuda"
  BY PlatformAssumption DEF IdsOfDevice
<1>4. QED  BY <1>1, <1>2, <1>3 DEF Range

LEMMA CudaAnswers ==
  ASSUME NEW dev, NEW faults, NEW used \in Loads
  PROVE  Answer("cuda", CudaSample(dev, faults, used), used)
<1> DEFINE ids == Range(IdsOf(dev, faults))
           status == IF Answering(dev, faults) = Listed(dev) THEN "Healthy" ELSE "Partial"
           observed == [d \in ids |-> IF \E i \in Answering(dev, faults) : IdsOf(dev, faults)[i] = d
                                     THEN Measured(used) ELSE Unmeasured]
<1>1. CASE Listed(dev) = {}
  BY <1>1, CudaSampleIs, NothingIsAnAnswer
<1>2. CASE Listed(dev) # {}
  <2>1. CudaSample(dev, faults, used) = Sample(status, observed)
    BY <1>2, CudaSampleIs
  <2>2. status \in {"Healthy", "Partial"} /\ \A d \in ids : d \in Domains /\ Source[d] = "cuda"
    BY DeviceIds
  <2>3. /\ observed \in [ids -> Observations] /\ DOMAIN observed = ids
        /\ \A d \in ids : observed[d].validity = "Valid" => observed[d].reading.committed = used
    BY MeasuredType
  <2> HIDE DEF ids, status, observed
  <2>4. Answer("cuda", Sample(status, observed), used)
    BY <2>2, <2>3 DEF Answer, ValidSample, Sample, Statuses
  <2>5. QED  BY <2>1, <2>4
<1>3. QED  BY <1>1, <1>2

LEMMA EveryProviderAnswers ==
  ASSUME NEW p \in InTree, NEW faults, NEW used \in Loads
  PROVE  Answer(p, SampleOf(p, faults, used), used)
<1>1. CASE p = "windows"
  <2>1. SampleOf(p, faults, used) = WindowsSample(faults, used)
    BY <1>1 DEF SampleOf
  <2>2. QED  BY <1>1, <2>1, WindowsAnswers
<1>2. CASE p = "cuda"
  <2>1. SampleOf(p, faults, used) = CudaSample(devices, faults, used)
    BY <1>2 DEF SampleOf
  <2>2. QED  BY <1>2, <2>1, CudaAnswers
<1>3. CASE p = "storage"
  <2>1. SampleOf(p, faults, used) = StorageSample(faults, used)
    BY <1>3 DEF SampleOf
  <2>2. QED  BY <1>3, <2>1, StorageAnswers
<1>4. CASE p = "synthetic"
  <2>1. SampleOf(p, faults, used) = SyntheticSample(scenario, tick, used)
    BY <1>4 DEF SampleOf
  <2>2. QED  BY <1>4, <2>1, SyntheticAnswers
<1>5. QED  BY <1>1, <1>2, <1>3, <1>4 DEF InTree

-------------------------------------------------------------------------------
(* The platform implements the runtime *)

\* A runtime that is specified for whatever a provider may return.
AnySample(p) ==
  {s \in [status : Statuses \cup {"Threw"}, observed : UNION {[D -> Observations] : D \in SUBSET Domains}] :
     ValidSample(p, s)}

\* What the providers return together.
Answers(faults, used) == [p \in registered |-> SampleOf(p, faults, used)]

LEMMA SamplesAreRecords ==
  ASSUME NEW p \in InTree, NEW faults, NEW used \in Loads
  PROVE  SampleOf(p, faults, used) \in AnySample(p)
<1> DEFINE s == SampleOf(p, faults, used)
<1>1. \E status, observed : s = Sample(status, observed)
  <2>1. /\ \E status, observed : WindowsSample(faults, used) = Sample(status, observed)
        /\ \E status, observed : StorageSample(faults, used) = Sample(status, observed)
        /\ \E status, observed : SyntheticSample(scenario, tick, used) = Sample(status, observed)
    BY DEF WindowsSample, StorageSample, SyntheticSample
  <2>2. \E status, observed : CudaSample(devices, faults, used) = Sample(status, observed)
    BY CudaSampleIs
  <2>3. /\ p = "windows"   => s = WindowsSample(faults, used)
        /\ p = "cuda"      => s = CudaSample(devices, faults, used)
        /\ p = "storage"   => s = StorageSample(faults, used)
        /\ p = "synthetic" => s = SyntheticSample(scenario, tick, used)
    BY DEF SampleOf
  <2> HIDE DEF s
  <2>4. QED  BY <2>1, <2>2, <2>3 DEF InTree
<1>2. ValidSample(p, s)
  BY EveryProviderAnswers DEF Answer
<1>3. s.observed \in UNION {[D -> Observations] : D \in SUBSET Domains}
  BY <1>2 DEF ValidSample
<1>4. PICK status, observed : s = [status |-> status, observed |-> observed]
  BY <1>1 DEF Sample
<1> HIDE DEF s
<1>5. s \in [status : Statuses \cup {"Threw"}, observed : UNION {[D -> Observations] : D \in SUBSET Domains}]
  BY <1>2, <1>3, <1>4 DEF ValidSample
<1>6. s \in AnySample(p)
  BY <1>2, <1>5 DEF AnySample
<1>7. QED  BY <1>6 DEF s

LEMMA TogetherTheyAnswer ==
  ASSUME registered \in Setups, NEW faults, NEW used \in Loads
  PROVE  /\ DOMAIN Answers(faults, used) = registered /\ registered \subseteq Providers \cap InTree
         /\ \A p \in registered : Answer(p, Answers(faults, used)[p], used)
<1>1. registered \subseteq Providers \cap InTree
  BY PlatformAssumption
<1>2. QED  BY <1>1, EveryProviderAnswers DEF Answers

\* Whatever calls fail, the providers return samples the runtime is specified
\* for, and the programs call it as its callers may: if any valid sample may
\* come, every behaviour of the platform is one of the runtime (the sample
\* functions of the providers under refresh).
THEOREM PlatformImplementsRuntime ==
  ASSUME \A p \in Providers \cap InTree : AnySample(p) \subseteq Samples[p]
  PROVE  PlatformSpec => Spec
<1>1. PlatformInit => Init
  BY DEF PlatformInit
<1>2. [PlatformNext]_<<vars, platform>> => [Next]_vars
  <2> SUFFICES ASSUME [PlatformNext]_<<vars, platform>>  PROVE [Next]_vars
    OBVIOUS
  <2>1. CASE Setup
    <3>1. PICK s \in Setups : \E p \in s : RegisterProvider(p)
      BY <2>1 DEF Setup
    <3>2. s \subseteq Providers
      BY PlatformAssumption
    <3>3. QED  BY <3>1, <3>2 DEF Next
  <2>2. CASE Reconfigure
    <3>1. Governed \subseteq Domains
      BY PlatformAssumption
    <3>2. QED  BY <2>2, <3>1 DEF Reconfigure, Next
  <2>3. ASSUME NEW faults \in FaultsWithinBound, NEW used \in Loads, NEW score \in Scores, NEW dt \in Steps,
               RefreshPlatform(faults, used, score, dt)
        PROVE  Next
    <3> DEFINE samples == Answers(faults, used)
    <3>1. registered \in Setups /\ Refresh(samples, score, dt)
      BY <2>3 DEF RefreshPlatform, Answers
    <3>2. \A p \in registered : samples[p] \in Samples[p]
      <4> TAKE p \in registered
      <4>1. p \in Providers \cap InTree
        BY <3>1, PlatformAssumption
      <4>2. samples[p] = SampleOf(p, faults, used)
        BY DEF Answers
      <4>3. QED  BY <4>1, <4>2, SamplesAreRecords
    <3>3. samples \in [registered -> UNION {Samples[p] : p \in registered}]
      <4>1. samples = [p \in registered |-> samples[p]]
        BY DEF Answers
      <4> HIDE DEF samples
      <4>2. QED  BY <3>2, <4>1
    <3> HIDE DEF samples
    <3>4. samples \in SamplesOf(registered)
      BY <3>2, <3>3 DEF SamplesOf
    <3>5. QED  BY <3>1, <3>4 DEF Next
  <2>4. CASE UNCHANGED <<vars, platform>>
    BY <2>4
  <2>5. QED  BY <2>1, <2>2, <2>3, <2>4 DEF PlatformNext
<1>3. QED  BY <1>1, <1>2, PTL DEF PlatformSpec, Spec

-------------------------------------------------------------------------------
(* What is published of a machine *)

\* A domain that is observed is published with what was observed, any other as
\* stale.
LEMMA PublishedAsObserved ==
  ASSUME NEW samples, NEW score, NEW dt, Refresh(samples, score, dt)
  PROVE  /\ DOMAIN snapshot'.domains = Seen(samples) \cup Out(samples)
         /\ \A d \in DOMAIN snapshot'.domains :
              IF d \in Seen(samples)
              THEN /\ snapshot'.domains[d].validity = Sampled(samples, d).validity
                   /\ snapshot'.domains[d].state.committed = Sampled(samples, d).reading.committed
              ELSE snapshot'.domains[d].validity = "Stale"
<1>1. snapshot'.domains = Respond(States(samples, dt))
  BY Publication
<1>2. /\ DOMAIN snapshot'.domains = DOMAIN States(samples, dt)
      /\ \A d \in DOMAIN States(samples, dt) :
           /\ snapshot'.domains[d].validity = States(samples, dt)[d].validity
           /\ snapshot'.domains[d].state    = States(samples, dt)[d].state
  BY <1>1 DEF Respond
<1>3. DOMAIN States(samples, dt) = Seen(samples) \cup Out(samples)
  BY DEF States
<1>4. ASSUME NEW d, NEW o, NEW g
      PROVE  Published(d, o, g).validity = o.validity /\ Published(d, o, g).state.committed = o.reading.committed
  BY DEF Published, Interpret
<1>5. ASSUME NEW d \in Seen(samples)
      PROVE  /\ States(samples, dt)[d].validity = Sampled(samples, d).validity
             /\ States(samples, dt)[d].state.committed = Sampled(samples, d).reading.committed
  <2>1. States(samples, dt)[d] = Published(d, Sampled(samples, d), Digested(samples, dt, d))
    BY DEF States
  <2>2. QED  BY <1>4, <2>1
<1>6. ASSUME NEW d \in Out(samples), d \notin Seen(samples)
      PROVE  States(samples, dt)[d].validity = "Stale"
  BY <1>6 DEF States
<1>7. QED  BY <1>2, <1>3, <1>5, <1>6

\* Only a refresh touches what is published, and the machine.
LEMMA PlatformCases ==
  ASSUME [PlatformNext]_<<vars, platform>>
  PROVE  \/ \E faults \in FaultsWithinBound, used \in Loads, score \in Scores, dt \in Steps :
              RefreshPlatform(faults, used, score, dt)
         \/ UNCHANGED <<snapshot, devices, memory>> /\ (snapshot.id = 0 \/ UNCHANGED registered)
<1>1. CASE Setup
  BY <1>1 DEF Setup, RegisterProvider, output, platform
<1>2. CASE Reconfigure
  BY <1>2 DEF Reconfigure, ClearBudget, SetBudget, SetHistoryLimit, output, platform
<1>3. CASE UNCHANGED <<vars, platform>>
  BY <1>3 DEF vars, config, output, platform
<1>4. QED  BY <1>1, <1>2, <1>3 DEF PlatformNext

\* A reading that is published as VALID is the machine's, taken in this very
\* refresh: no failed call and no outage leaves one behind.
THEOREM ValidIsMeasured == PlatformSpec => []ValidMeansMeasured
<1>1. PlatformInit => ValidMeansMeasured
  BY DEF PlatformInit, Init, NoSnapshot, NoDomains, ValidMeansMeasured
<1>2. ValidMeansMeasured /\ [PlatformNext]_<<vars, platform>> => ValidMeansMeasured'
  <2> SUFFICES ASSUME ValidMeansMeasured, [PlatformNext]_<<vars, platform>>  PROVE ValidMeansMeasured'
    OBVIOUS
  <2>1. ASSUME NEW faults \in FaultsWithinBound, NEW used \in Loads, NEW score \in Scores, NEW dt \in Steps,
               RefreshPlatform(faults, used, score, dt)
        PROVE  ValidMeansMeasured'
    <3> DEFINE samples == Answers(faults, used)
    <3>1. registered \in Setups /\ Refresh(samples, score, dt) /\ memory' = used
      BY <2>1 DEF RefreshPlatform, Answers
    <3>2. DOMAIN samples = registered /\ \A p \in registered : Answer(p, samples[p], used)
      BY <3>1, TogetherTheyAnswer
    <3> HIDE DEF samples
    <3>3. ASSUME NEW d \in DOMAIN snapshot'.domains, snapshot'.domains[d].validity = "Valid"
          PROVE  snapshot'.domains[d].state.committed = used
      <4>1. d \in Seen(samples)
        BY <3>1, <3>3, PublishedAsObserved
      <4>2. PICK p \in registered : d \in DOMAIN samples[p].observed
        BY <3>2, <4>1 DEF Seen, ObservedIn
      <4>3. Source[d] = p
        BY <3>2, <4>2 DEF Answer, ValidSample
      <4>4. Sampled(samples, d).validity = "Valid" => Sampled(samples, d).reading.committed = used
        BY <3>2, <4>2, <4>3 DEF Answer, Sampled
      <4>5. QED  BY <3>1, <3>3, <4>1, <4>4, PublishedAsObserved
    <3>4. QED  BY <3>1, <3>3 DEF ValidMeansMeasured
  <2>2. CASE UNCHANGED <<snapshot, devices, memory>>
    BY <2>2 DEF ValidMeansMeasured
  <2>3. QED  BY <2>1, <2>2, PlatformCases
<1>3. QED  BY <1>1, <1>2, PTL DEF PlatformSpec

-------------------------------------------------------------------------------
(* Devices *)

Entries(i) == IdsOfDevice(i) \cap DOMAIN snapshot.domains

\* OneEntryPerDevice made inductive: with no snapshot yet there are no domains,
\* and after the first nobody registers a provider.
OneEntry(i) == IF i \in Listed(devices) THEN snapshot.id > 0 => \E d : Entries(i) = {d} ELSE Entries(i) = {}

EntriesInv ==
  /\ snapshot.id \in Nat /\ (snapshot.id = 0 => DOMAIN snapshot.domains = {})
  /\ "cuda" \in registered => \A i \in Ordinals : OneEntry(i)

LEMMA EntriesInvSuffices == EntriesInv => OneEntryPerDevice
<1> SUFFICES ASSUME EntriesInv, snapshot.id > 0, "cuda" \in registered, NEW i \in Ordinals
             PROVE  Cardinality(Entries(i)) = IF i < DeviceCount(devices) THEN 1 ELSE 0
  BY DEF OneEntryPerDevice, Entries
<1>1. CASE i < DeviceCount(devices)
  <2>1. PICK d : Entries(i) = {d}
    BY <1>1 DEF EntriesInv, OneEntry, Listed
  <2>2. QED  BY <1>1, <2>1, FS_Singleton
<1>2. CASE ~(i < DeviceCount(devices))
  <2>1. Entries(i) = {}
    BY <1>2 DEF EntriesInv, OneEntry, Listed
  <2>2. QED  BY <1>2, <2>1, FS_EmptySet
<1>3. QED  BY <1>1, <1>2

\* One of the ids of a device is among those of a sample, and no other
\* device has it.
LEMMA IdsTellDevicesApart ==
  ASSUME NEW dev, NEW faults, NEW i \in Ordinals
  PROVE  IdsOfDevice(i) \cap Range(IdsOf(dev, faults)) =
           IF i \in Listed(dev) THEN {IdsOf(dev, faults)[i]} ELSE {}
<1>1. \A j \in Listed(dev) : j \in Ordinals /\ IdsOf(dev, faults)[j] \in IdsOfDevice(j)
  BY DeviceIds DEF Listed
<1>2. \A j \in Ordinals : IdsOfDevice(i) \cap IdsOfDevice(j) # {} => i = j
  BY PlatformAssumption
<1>3. \A d : d \in Range(IdsOf(dev, faults)) <=> \E j \in Listed(dev) : d = IdsOf(dev, faults)[j]
  BY DeviceIds DEF Range
<1>4. CASE i \in Listed(dev)
  <2>1. IdsOf(dev, faults)[i] \in IdsOfDevice(i) \cap Range(IdsOf(dev, faults))
    BY <1>1, <1>3, <1>4
  <2>2. \A d \in IdsOfDevice(i) \cap Range(IdsOf(dev, faults)) : d = IdsOf(dev, faults)[i]
    BY <1>1, <1>2, <1>3
  <2>3. QED  BY <1>4, <2>1, <2>2
<1>5. CASE i \notin Listed(dev)
  <2>1. \A d \in Range(IdsOf(dev, faults)) : d \notin IdsOfDevice(i)
    BY <1>1, <1>2, <1>3, <1>5
  <2>2. QED  BY <1>5, <2>1
<1>6. QED  BY <1>4, <1>5

\* The entries of a device after a refresh are those of its sample: the
\* provider of devices is only out when it never listed any.
LEMMA EntriesAfterRefresh ==
  ASSUME EntriesInv, NEW faults, NEW used \in Loads, NEW score, NEW dt, registered \in Setups,
         Refresh(Answers(faults, used), score, dt), "cuda" \in registered, NEW i \in Ordinals
  PROVE  IF i \in Listed(devices) THEN \E d : Entries(i)' = {d} ELSE Entries(i)' = {}
<1> DEFINE samples == Answers(faults, used)
           ids == IdsOf(devices, faults)
           of == IdsOfDevice(i)
<1>1. /\ DOMAIN samples = registered /\ samples["cuda"] = CudaSample(devices, faults, used)
      /\ \A p \in registered : Answer(p, samples[p], used)
  <2>1. SampleOf("cuda", faults, used) = CudaSample(devices, faults, used)
    BY DEF SampleOf
  <2>2. QED  BY <2>1, TogetherTheyAnswer DEF Answers
<1>2. Refresh(samples, score, dt)
  OBVIOUS
<1> HIDE DEF samples
<1>3. DOMAIN snapshot'.domains = Seen(samples) \cup Out(samples)
  BY <1>2, PublishedAsObserved
<1>4. \A d \in of : Source[d] = "cuda"
  BY PlatformAssumption
<1>5. of \cap Seen(samples) = of \cap DOMAIN samples["cuda"].observed
  <2>1. ASSUME NEW d \in of, d \in Seen(samples)
        PROVE  d \in DOMAIN samples["cuda"].observed
    <3>1. PICK p \in registered : d \in DOMAIN samples[p].observed
      BY <1>1, <2>1 DEF Seen, ObservedIn
    <3>2. Source[d] = p
      BY <1>1, <3>1 DEF Answer, ValidSample
    <3>3. QED  BY <1>4, <3>1, <3>2
  <2>2. DOMAIN samples["cuda"].observed \subseteq Seen(samples)
    BY <1>1 DEF Seen, ObservedIn
  <2>3. QED  BY <2>1, <2>2
<1>6. HealthOf(samples)["cuda"] =
        IF samples["cuda"].status = "Threw" THEN "Failed" ELSE samples["cuda"].status
  BY <1>1 DEF HealthOf
<1>7. \A d \in of : d \in Out(samples) <=>
                     /\ d \in DOMAIN snapshot.domains \ Seen(samples)
                     /\ HealthOf(samples)["cuda"] \in Outages
  BY <1>4 DEF Out, Kept
<1>8. CASE Listed(devices) = {}
  <2>1. samples["cuda"].observed = NoDomains
    BY <1>1, <1>8, CudaSampleIs DEF Sample
  <2>2. of \cap Seen(samples) = {}
    BY <1>5, <2>1 DEF NoDomains
  <2>3. of \cap DOMAIN snapshot.domains = {}
    BY <1>8 DEF EntriesInv, OneEntry, Entries
  <2>4. QED  BY <1>3, <1>7, <1>8, <2>2, <2>3 DEF Entries
<1>9. CASE Listed(devices) # {}
  <2>1. /\ samples["cuda"].status \in {"Healthy", "Partial"}
        /\ DOMAIN samples["cuda"].observed = Range(ids)
    BY <1>1, <1>9, CudaSampleIs DEF Sample
  <2>2. of \cap Out(samples) = {}
    BY <1>6, <1>7, <2>1 DEF Outages
  <2>3. of \cap DOMAIN snapshot'.domains = IF i \in Listed(devices) THEN {ids[i]} ELSE {}
    BY <1>3, <1>5, <2>1, <2>2, IdsTellDevicesApart
  <2>4. QED  BY <2>3 DEF Entries
<1>10. QED  BY <1>8, <1>9

\* A device is never published twice nor left out, whatever its id is made of
\* at a refresh and however driver and runtime count.
THEOREM DevicesHaveOneEntry == PlatformSpec => []OneEntryPerDevice
<1>1. PlatformInit => EntriesInv
  BY DEF PlatformInit, Init, NoSnapshot, NoDomains, EntriesInv, Entries
<1>2. EntriesInv /\ [PlatformNext]_<<vars, platform>> => EntriesInv'
  <2> SUFFICES ASSUME EntriesInv, [PlatformNext]_<<vars, platform>>  PROVE EntriesInv'
    OBVIOUS
  <2>1. ASSUME NEW faults \in FaultsWithinBound, NEW used \in Loads, NEW score \in Scores, NEW dt \in Steps,
               RefreshPlatform(faults, used, score, dt)
        PROVE  EntriesInv'
    <3>1. registered \in Setups /\ Refresh(Answers(faults, used), score, dt) /\ devices' = devices
      BY <2>1 DEF RefreshPlatform, Answers
    <3>2. snapshot'.id = snapshot.id + 1 /\ registered' = registered
      BY <3>1, Publication, TrackedStep DEF config
    <3>3. Listed(devices)' = Listed(devices)
      BY <3>1 DEF Listed, DeviceCount
    <3>4. "cuda" \in registered => \A i \in Ordinals : OneEntry(i)'
      BY <3>1, <3>3, EntriesAfterRefresh DEF OneEntry
    <3>5. QED  BY <3>2, <3>3, <3>4 DEF EntriesInv
  <2>2. CASE UNCHANGED <<snapshot, devices, memory>> /\ (snapshot.id = 0 \/ UNCHANGED registered)
    <3>1. \A i \in Ordinals : Entries(i)' = Entries(i)
      BY <2>2 DEF Entries
    <3>2. Listed(devices)' = Listed(devices)
      BY <2>2 DEF Listed, DeviceCount
    <3>3. snapshot.id = 0 => \A i \in Ordinals : Entries(i) = {}
      BY DEF EntriesInv, OneEntry, Entries
    <3>4. "cuda" \in registered' => \A i \in Ordinals : OneEntry(i)'
      BY <2>2, <3>1, <3>2, <3>3 DEF EntriesInv, OneEntry
    <3>5. QED  BY <2>2, <3>4 DEF EntriesInv
  <2>3. QED  BY <2>1, <2>2, PlatformCases
<1>3. QED  BY <1>1, <1>2, EntriesInvSuffices, PTL DEF PlatformSpec
===============================================================================
