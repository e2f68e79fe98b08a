---------------------------- MODULE PressureRuntime ----------------------------
(***************************************************************************)
(* class PressureRuntime (runtime.h, runtime.cpp): providers, budgets and  *)
(* a policy on one side, a published snapshot and events on the other, and *)
(* refresh between them.  refresh runs under one mutex and is one step     *)
(* here, with everything it does: sampling, interpretation, retention of   *)
(* domains whose provider is out, cross-tier rule, aggregate, generation,  *)
(* events, publication and history.                                        *)
(*                                                                         *)
(* Scores, trends, wording, timestamps and counters are abstracted; the    *)
(* aggregate score is any member of Scores, because it takes part in       *)
(* deciding whether a generation is new.                                   *)
(***************************************************************************)
EXTENDS Budgets, Hysteresis, Responses, Functions, FiniteSets

CONSTANTS Domains, Type,        \* domain ids and the DomainType of each
          Providers, Source,    \* providers and the one that reports each domain
          Samples,              \* the samples each provider may return
          Policies, InitialPolicy,
          Candidates,           \* budgets a caller may configure
          Scores,               \* values of the aggregate score; 0 among them
          Limits,               \* history limits a caller may set
          Steps,                \* milliseconds between two refreshes
          MaxRefreshes          \* bound: how often refresh runs

Statuses == {"Healthy", "Partial", "Stale", "Unavailable", "Failed"}
Outages  == {"Failed", "Stale", "Unavailable"}

Validities == {"Valid", "Stale", "Partial", "Failed", "Unavailable"}

Observations == [reading : Observation, validity : Validities]

\* What sample returns, or that it throws.  A provider that failed or is
\* unavailable reports nothing, and no two providers report one domain.
ValidSample(p, s) ==
  /\ s.status \in Statuses \cup {"Threw"}
  /\ s.observed \in [DOMAIN s.observed -> Observations]
  /\ \A d \in DOMAIN s.observed : d \in Domains /\ Source[d] = p
  /\ s.status \in {"Threw", "Failed", "Unavailable"} => DOMAIN s.observed = {}

\* The part of PressurePolicy that refresh decides by.
PolicyRecords == [version : Nat, thresholds : Thresholds, hysteresis : [
  min_dwell_observations : Nat, max_debounce_observations : Nat, min_dwell_duration_ms : Nat,
  escalation_delay_ms : Nat, recovery_delay_ms : Nat, immediate_emergency_escalation : BOOLEAN]]

\* validate_policy.
ValidPolicy(p) == Ascending(p.thresholds) /\ p.hysteresis.min_dwell_observations # 0

ASSUME RuntimeAssumption ==
  /\ Type \in [Domains -> DomainTypes] /\ Source \in [Domains -> Providers]
  /\ \A p \in Providers : \A s \in Samples[p] : ValidSample(p, s)
  /\ Policies \subseteq PolicyRecords
  /\ InitialPolicy \in PolicyRecords /\ ValidPolicy(InitialPolicy) /\ InitialPolicy.version > 0
  /\ Candidates \subseteq Budget
  /\ Scores \subseteq Nat /\ 0 \in Scores
  /\ Limits \subseteq Nat /\ Steps \subseteq Times /\ MaxRefreshes \in Nat

VARIABLES
  policy,      \* policy_
  budgets,     \* budgets_: a budget for some domains
  registered,  \* providers_
  tracked,     \* domain_states_: [hyst, peak] for some domains
  snapshot,    \* current_snapshot_
  generation,  \* generation_; snapshot_id_ is always that of the snapshot
  history,     \* history_, the ids of the snapshots in it, oldest first
  limit,       \* history_limit_
  now,         \* now_ms of the refresh last run
  events,      \* the events of the refresh last run
  resets,      \* history: domains not observed since set_policy reset their machine
  sampled,     \* history: the domains observed in the refresh last run
  heard        \* history: the domains and levels one knows who only follows the events

config == <<policy, budgets, registered, limit>>
output == <<tracked, snapshot, generation, history, now, events, resets, sampled, heard>>
vars   == <<config, output>>

NoDomains == [d \in {} |-> 0]

NoSnapshot ==
  [id |-> 0, generation |-> 0, version |-> 0, health |-> NoDomains, domains |-> NoDomains,
   aggregate |-> Unknown, score |-> 0]

Init ==
  /\ policy = InitialPolicy /\ budgets = NoDomains /\ registered = {}
  /\ tracked = NoDomains /\ snapshot = NoSnapshot
  /\ generation = 0 /\ history = <<>> /\ limit \in Limits
  /\ now = 0 /\ events = {} /\ resets = {} /\ sampled = {} /\ heard = NoDomains

\* Mistake, for mutation: a policy that is applied before it is validated.
SetPolicyUnchecked(p) ==
  /\ policy' = p
  /\ tracked' = [d \in DOMAIN tracked |-> [tracked[d] EXCEPT !.hyst = NewHysteresis]]
  /\ resets' = DOMAIN tracked
  /\ UNCHANGED <<budgets, registered, limit, snapshot, generation, history, now, events,
                 sampled, heard>>

\* set_policy: refused when invalid; every debounce machine starts anew.
SetPolicy(p) ==
  /\ ValidPolicy(p)
  /\ policy' = p
  /\ tracked' = [d \in DOMAIN tracked |-> [tracked[d] EXCEPT !.hyst = NewHysteresis]]
  /\ resets' = DOMAIN tracked
  /\ UNCHANGED <<budgets, registered, limit, snapshot, generation, history, now, events,
                 sampled, heard>>

RegisterProvider(p) ==
  /\ registered' = registered \cup {p}
  /\ UNCHANGED <<policy, budgets, limit, output>>

\* set_budget: refused when invalid.
SetBudget(d, b) ==
  /\ ValidBudget(b)
  /\ budgets' = [x \in DOMAIN budgets \cup {d} |-> IF x = d THEN b ELSE budgets[x]]
  /\ UNCHANGED <<policy, registered, limit, output>>

ClearBudget(d) ==
  /\ budgets' = Restrict(budgets, DOMAIN budgets \ {d})
  /\ UNCHANGED <<policy, registered, limit, output>>

SetHistoryLimit(n) ==
  /\ limit' = n
  /\ UNCHANGED <<policy, budgets, registered, output>>
-------------------------------------------------------------------------------
(* Refresh, stage by stage.  samples gives the sample of every registered    *)
(* provider; old and new are snapshots.                                      *)

\* A provider that throws counts as failed.
HealthOf(samples) ==
  [p \in DOMAIN samples |-> IF samples[p].status = "Threw" THEN "Failed" ELSE samples[p].status]

ObservedIn(samples) == UNION {DOMAIN samples[p].observed : p \in DOMAIN samples}

BudgetOf(d) == IF d \in DOMAIN budgets THEN budgets[d] ELSE DefaultBudget

\* committed / usable in units of 1/Scale; zero when nothing is usable.
Utilization(state) == IF state.usable = 0 THEN 0 ELSE (state.committed * Scale) \div state.usable

MachineOf(d) == IF d \in DOMAIN tracked THEN tracked[d] ELSE [hyst |-> NewHysteresis, peak |-> 0]

\* The domain's runtime state once its observation is digested at time t.
Digest(d, o, t) ==
  LET st  == MachineOf(d)
      raw == EvaluateLevel(Utilization(Interpret(BudgetOf(d), o.reading)), st.hyst.level,
                           policy.thresholds)
      h   == Update(st.hyst, policy.hysteresis, raw, t)
  IN  [hyst |-> h, peak |-> IF h.level > st.peak THEN h.level ELSE st.peak]

\* Its published state, before the responses of the whole system are known.
Published(d, o, digest) ==
  [level |-> digest.hyst.level, peak |-> digest.peak, validity |-> o.validity,
   state |-> Interpret(BudgetOf(d), o.reading)]

\* Mistakes, for mutation: a provider that answered in part counts as out, a
\* stale one does not.
KeptWhenPartial(health, seen) ==
  {d \in DOMAIN snapshot.domains \ seen : health[Source[d]] \in Outages \cup {"Partial"}}
KeptUnlessStale(health, seen) ==
  {d \in DOMAIN snapshot.domains \ seen : health[Source[d]] \in Outages \ {"Stale"}}

\* Domains that nothing reported but whose provider is out: retained as stale.
Kept(health, seen) == {d \in DOMAIN snapshot.domains \ seen : health[Source[d]] \in Outages}

\* Domains that nothing reported although their provider answered: removed.
Gone(health, seen) == DOMAIN snapshot.domains \ (seen \cup Kept(health, seen))

\* Every published domain, the retained ones included, gets the responses of
\* its level as the cross-tier rule leaves them.
Respond(states) ==
  LET level == [d \in DOMAIN states |-> states[d].level]
      type  == Restrict(Type, DOMAIN states)
  IN  [d \in DOMAIN states |->
         [level |-> states[d].level, peak |-> states[d].peak, validity |-> states[d].validity,
          state |-> states[d].state, responses |-> ResponsesOf(d, level, type)]]

\* The level of the worst domain; UNKNOWN when there is none.
AggregateLevel(states) ==
  IF DOMAIN states = {} THEN Unknown
  ELSE CHOOSE l \in Levels : /\ \E d \in DOMAIN states : states[d].level = l
                             /\ \A d \in DOMAIN states : states[d].level <= l

-------------------------------------------------------------------------------
(* What counts as a material change: diff_snapshots.                         *)

\* Mistake, for mutation: a diff that overlooks budgets.
ChangedButForBudgets(old, new) ==
  \/ DOMAIN old.domains # DOMAIN new.domains
  \/ \E d \in DOMAIN old.domains \cap DOMAIN new.domains :
       old.domains[d].level # new.domains[d].level
  \/ old.aggregate # new.aggregate \/ old.score # new.score
  \/ old.version # new.version \/ old.health # new.health

BudgetChanged(old, new) ==
  \/ old.hard_capacity # new.hard_capacity
  \/ ReserveBytes(old) # ReserveBytes(new)

Changed(old, new) ==
  \/ DOMAIN old.domains # DOMAIN new.domains
  \/ \E d \in DOMAIN old.domains \cap DOMAIN new.domains :
       \/ old.domains[d].level # new.domains[d].level
       \/ BudgetChanged(old.domains[d].state.budget, new.domains[d].state.budget)
  \/ old.aggregate # new.aggregate \/ old.score # new.score
  \/ old.version # new.version \/ old.health # new.health
-------------------------------------------------------------------------------
(* The events of a refresh, as a set: what about, and how severe.            *)

Event(type, subject, severity) == [type |-> type, subject |-> subject, severity |-> severity]

\* A provider that threw is not among them.
ProviderEvents(samples) ==
  {Event("ProviderFailed", p, 0) :
     p \in {q \in DOMAIN samples : samples[q].status \in {"Failed", "Unavailable"}}}
  \cup {Event("ProviderStale", p, 0) : p \in {q \in DOMAIN samples : samples[q].status = "Stale"}}

LifecycleEvents(old, new, kept) ==
  {Event("ProviderStale", d, 0) : d \in kept}
  \cup {Event("DomainRemoved", d, 0) : d \in DOMAIN old.domains \ DOMAIN new.domains}
  \cup {Event("DomainAdded", d, 0) : d \in DOMAIN new.domains \ DOMAIN old.domains}

\* Mistake, for mutation: the level before is the machine's, not the one that
\* consumers know.
LevelEventsByMachine(old, new) ==
  LET EventOf(d, from, to) ==
        IF to > from THEN Event(IF from = Normal THEN "PressureEntered" ELSE "PressureEscalated", d, to)
        ELSE IF to = Normal THEN Event("PressureRecovered", d, 0)
        ELSE Event("PressureRelieved", d, to)
  IN  {EventOf(d, MachineOf(d).hyst.level, new.domains[d].level) :
         d \in {x \in DOMAIN old.domains \cap DOMAIN new.domains :
                  MachineOf(x).hyst.level # new.domains[x].level}}

\* A domain that was published before and is published with another level now.
LevelEvents(old, new) ==
  LET EventOf(d, from, to) ==
        IF to > from THEN Event(IF from = Normal THEN "PressureEntered" ELSE "PressureEscalated", d, to)
        ELSE IF to = Normal THEN Event("PressureRecovered", d, 0)
        ELSE Event("PressureRelieved", d, to)
  IN  {EventOf(d, old.domains[d].level, new.domains[d].level) :
         d \in {x \in DOMAIN old.domains \cap DOMAIN new.domains :
                  old.domains[x].level # new.domains[x].level}}

\* The event an action gives rise to, for the actions that do.
Announced == [RequestReclaim  |-> "ReclaimRequested",  RequestDemotion |-> "DemotionRequested",
              ReduceAdmission |-> "BackpressureIssued", RejectNewWork  |-> "BackpressureIssued"]

ResponseEvents(new) ==
  UNION {{Event(Announced[a], d, new.domains[d].level) :
            a \in new.domains[d].responses \cap DOMAIN Announced} : d \in DOMAIN new.domains}

EventsOf(samples, old, new, kept) ==
  ProviderEvents(samples) \cup LifecycleEvents(old, new, kept) \cup LevelEvents(old, new)
  \cup ResponseEvents(new)
  \cup IF new.generation # old.generation THEN {Event("GenerationChanged", "runtime", 0)} ELSE {}

\* History: a follower of the events, who never sees a snapshot, knows of the
\* domains that were added, and of each the severity of the last batch in which
\* an event of a kind that carries the level was about it; {} before the first.
CarryLevel == {"PressureEntered", "PressureEscalated", "PressureRelieved", "PressureRecovered",
               "ReclaimRequested", "DemotionRequested", "BackpressureIssued"}

SubjectsOf(type, evs) == {e.subject : e \in {x \in evs : x.type = type}}
SeveritiesOf(d, evs)  == {e.severity : e \in {x \in evs : x.subject = d /\ x.type \in CarryLevel}}

HeardFrom(evs) ==
  LET left == DOMAIN heard \ SubjectsOf("DomainRemoved", evs)
  IN  [d \in left \cup SubjectsOf("DomainAdded", evs) |->
         IF SeveritiesOf(d, evs) # {} THEN SeveritiesOf(d, evs)
         ELSE IF d \in left THEN heard[d] ELSE {}]

-------------------------------------------------------------------------------
(* The refresh itself. *)

\* Mistake, for mutation: a history that gives up one entry per refresh.
RememberedOnePop(ids, id) ==
  LET h == Append(ids, id) IN IF Len(h) > limit THEN Tail(h) ELSE h

\* The ids in the history once id has been added to it.
Remembered(ids, id) ==
  LET h == Append(ids, id) IN IF Len(h) > limit THEN SubSeq(h, Len(h) - limit + 1, Len(h)) ELSE h

\* Mistakes, for mutation: a removed domain leaves its runtime state behind, a
\* retained one starts anew.
TrackedRestarting(digests, gone) ==
  [d \in (DOMAIN tracked \cup DOMAIN digests) \ gone |->
     IF d \in DOMAIN digests THEN digests[d] ELSE [tracked[d] EXCEPT !.hyst = NewHysteresis]]
TrackedLeaking(digests, gone) ==
  [d \in DOMAIN tracked \cup DOMAIN digests |-> IF d \in DOMAIN digests THEN digests[d] ELSE tracked[d]]

\* domain_states_ afterwards: the digested domains, and the ones not removed.
TrackedAfter(digests, gone) ==
  [d \in (DOMAIN tracked \cup DOMAIN digests) \ gone |->
     IF d \in DOMAIN digests THEN digests[d] ELSE tracked[d]]

\* The snapshot a refresh publishes, given the states of its domains, the
\* health of its providers and the aggregate score.
NewSnapshot(states, health, score) ==
  LET draft == [id |-> snapshot.id + 1, generation |-> 0, version |-> policy.version,
                health |-> health, domains |-> Respond(states),
                aggregate |-> AggregateLevel(states), score |-> score]
  IN  [draft EXCEPT !.generation = IF Changed(snapshot, draft) THEN generation + 1 ELSE generation]

Refresh(samples, score, dt) ==
  LET t       == Advance(now, dt)
      health  == HealthOf(samples)
      seen    == ObservedIn(samples)
      kept    == Kept(health, seen)
      gone    == Gone(health, seen)
      reading == [d \in seen |-> samples[Source[d]].observed[d]]
      digests == [d \in seen |-> Digest(d, reading[d], t)]
      states  == [d \in seen \cup kept |->
                    IF d \in seen THEN Published(d, reading[d], digests[d])
                    ELSE [level |-> snapshot.domains[d].level,
                          peak |-> snapshot.domains[d].peak, validity |-> "Stale",
                          state |-> snapshot.domains[d].state]]
      new     == NewSnapshot(states, health, score)
  IN  /\ snapshot.id < MaxRefreshes
      /\ DOMAIN states = {} => score = 0
      /\ now' = t
      /\ tracked' = TrackedAfter(digests, gone)
      /\ snapshot' = new
      /\ generation' = new.generation
      /\ history' = Remembered(history, new.id)
      /\ events' = EventsOf(samples, snapshot, new, kept)
      /\ resets' = resets \ (seen \cup gone)
      /\ sampled' = seen
      /\ heard' = HeardFrom(events')
      /\ UNCHANGED config

\* What the registered providers return, together.
SamplesOf(ps) == {f \in [ps -> UNION {Samples[p] : p \in ps}] : \A p \in ps : f[p] \in Samples[p]}

Next ==
  \/ \E p \in Policies : SetPolicy(p)
  \/ \E p \in Providers : RegisterProvider(p)
  \/ \E d \in Domains : ClearBudget(d) \/ \E b \in Candidates : SetBudget(d, b)
  \/ \E n \in Limits : SetHistoryLimit(n)
  \/ \E samples \in SamplesOf(registered), score \in Scores, dt \in Steps :
       Refresh(samples, score, dt)

Spec == Init /\ [][Next]_vars
-------------------------------------------------------------------------------
(* Properties *)

Refreshed == snapshot'.id # snapshot.id

\* The material content of a snapshot: what its generation number stands for.
Content(snap) ==
  [version |-> snap.version, health |-> snap.health, aggregate |-> snap.aggregate,
   score   |-> snap.score,
   domains |-> [d \in DOMAIN snap.domains |->
     LET b == snap.domains[d].state.budget
     IN  [level |-> snap.domains[d].level, responses |-> snap.domains[d].responses,
          capacity |-> b.hard_capacity, reserve |-> ReserveBytes(b)]]]

\* What the modules below rely on: a valid policy, valid budgets and a domain
\* state for each domain that is published.
TypeOK ==
  /\ policy \in PolicyRecords /\ ValidPolicy(policy)
  /\ budgets \in [DOMAIN budgets -> Budget] /\ DOMAIN budgets \subseteq Domains
  /\ \A d \in DOMAIN budgets : ValidBudget(budgets[d])
  /\ registered \subseteq Providers
  /\ tracked \in [DOMAIN tracked -> [hyst : HysteresisStates, peak : Levels]]
  /\ DOMAIN tracked \subseteq Domains /\ resets \subseteq DOMAIN tracked
  /\ \A d \in DOMAIN snapshot.domains : snapshot.domains[d].level \in Levels
  /\ snapshot.id \in 0..MaxRefreshes /\ generation \in 0..snapshot.id
  /\ history \in Seq(1..MaxRefreshes) /\ limit \in Limits /\ now \in Times

\* The runtime keeps a debounce machine for exactly the domains it publishes:
\* an outage loses none, a removal leaves none behind, and a domain that comes
\* back after its removal starts afresh (refresh, set_policy).
TrackedMatchesPublished == DOMAIN tracked = DOMAIN snapshot.domains

\* The published level is the level of the domain's machine, also while the
\* domain is retained through an outage: when its provider returns, debouncing
\* goes on from the level consumers were told.  Only set_policy pulls the two
\* apart, until the domain is observed again.
LevelsAgree ==
  \A d \in DOMAIN snapshot.domains \ resets :
    /\ snapshot.domains[d].level = tracked[d].hyst.level
    /\ snapshot.domains[d].peak >= snapshot.domains[d].level

\* A generation number identifies what diff_snapshots compares, and with it the
\* responses, of all snapshots that carry it: a consumer that has acted on the
\* levels and responses of a generation may ignore further snapshots of it, but
\* learns nothing of bytes available and validity, which change without it.
\* Generations grow by at most one, and only when that content changed.
GenerationIdentifiesContent ==
  [][IF snapshot'.generation = snapshot.generation THEN Content(snapshot') = Content(snapshot)
     ELSE /\ snapshot'.generation = snapshot.generation + 1
          /\ Content(snapshot') # Content(snapshot)]_vars

\* Who only follows the events, from the start, knows exactly the domains that
\* are published, and never holds a wrong level of one: each is known at its
\* published level, or its level was never told, which only happens while it
\* is below HIGH (refresh announces a new domain with DomainAdded, severity 0,
\* whatever its level; from HIGH on a request or signal tells it at once, but
\* one that appears at ELEVATED looks like one that appears at NORMAL until it
\* moves).  Resets, outages and removals do not get in the way.
EventsCarryLevels ==
  /\ DOMAIN heard = DOMAIN snapshot.domains
  /\ \A d \in DOMAIN heard :
       \/ heard[d] = {snapshot.domains[d].level}
       \/ heard[d] = {} /\ snapshot.domains[d].level < High

\* An outage never looks like relief, whichever way the provider is out: a
\* domain is withdrawn only when its provider answered without it; one that was
\* not observed keeps its level, its peak and its capacities as they were; and
\* a level falls only by one band, in a refresh that observed the domain at or
\* below the exit threshold of the level it leaves.  The exception is a domain
\* first observed after set_policy: its level starts again at NORMAL.  A reading
\* that failed is an observation of zero bytes to refresh, and counts as one.
NoReliefWithoutEvidence ==
  [][Refreshed =>
       \A d \in DOMAIN snapshot.domains :
         LET old    == snapshot.domains[d]
             new    == snapshot'.domains[d]
             status == snapshot'.health[Source[d]]
         IN  IF d \notin DOMAIN snapshot'.domains
             THEN d \notin sampled' /\ status \in {"Healthy", "Partial"}
             ELSE IF d \notin sampled'
             THEN /\ status \in Outages /\ new.validity = "Stale"
                  /\ new.level = old.level /\ new.peak = old.peak /\ new.state = old.state
             ELSE new.level < old.level /\ d \notin resets =>
                    /\ new.level = old.level - 1
                    /\ Utilization(new.state) <= Exit(old.level, policy.thresholds)]_vars

\* After a refresh, snapshot_by_id finds the snapshots of the last refreshes,
\* without a gap and never more than the limit in force, also when
\* set_history_limit lowered it in between.
HistoryIsRecent ==
  [][Refreshed =>
       /\ Len(history') <= limit
       /\ limit > 0 => history' # <<>>
       /\ \A i \in DOMAIN history' : history'[i] = snapshot'.id - Len(history') + i]_vars

-------------------------------------------------------------------------------
(* What the documents say, and the code does not do. *)

\* PRESSURE_MODEL.md:35, "A domain with no trustworthy observation resolves to
\* `Unknown`": one that has just appeared with a failed observation, say.
UntrustedIsUnknown ==
  [][\A d \in DOMAIN snapshot'.domains \ DOMAIN snapshot.domains :
       snapshot'.domains[d].validity = "Failed" => snapshot'.domains[d].level = Unknown]_vars
===============================================================================
