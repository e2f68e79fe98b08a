# Memory Pressure in TLA+

A TLA+ development of the Memory Pressure runtime: modules that model its parts, TLC instances
that check them on small instances, and TLAPS proofs of the results that matter most. Paths like
`core.cpp:290` are below `src/src/` or `src/include/memory_pressure/` of the repository.

- [The system](#the-system): parts, state, interaction, what is hard
- [Modules](#modules): which module models what, and how it corresponds to the code
- [Runs](#runs): what each instance checks, its bounds, its fairness
- [Proofs](#proofs): what holds for every value of the constants, and why
- [Where the code and its documents disagree](#where-the-code-and-its-documents-disagree)
- [Not modelled](#not-modelled) and [Plan](#plan)

## The system

`PressureRuntime` samples memory providers, turns what they report into a level per memory domain
(NORMAL, ELEVATED, HIGH, CRITICAL, EXHAUSTED), publishes an immutable snapshot, tells subscribers
what changed, and answers consumers who ask whether an allocation is wise. It allocates nothing.

| Part | State it keeps | Operations |
|---|---|---|
| Level classifier (`core.cpp:249`) | none | `evaluate_level(utilization, current, policy)`: which level a sample points to, given the level held |
| `HysteresisState` (`core.cpp:290`) | level, pending level, confirmations, time the window opened | `update(raw, now)`, `reset` |
| `Budget` (`budget.h`) | capacities and reserves per domain | `validate_budget`, `usable_capacity`, `reserve_bytes` |
| Queries (`runtime.cpp:481-586`) | none, they read the last snapshot | `admit`, `backpressure`, `response_for`, `explain` |
| `Subscription` (`events.h`, `core.cpp:340`) | bounded queue, filter, callback, counters, closed flag | `push`, `try_pop`, `drain`, `clear`, `set_callback`, `close` |
| `PressureRuntime` (`runtime.cpp`) | providers, budgets, policy, machine per domain, current snapshot, history, counters, subscriptions | `register_provider`, `set_budget`, `clear_budget`, `set_policy`, `set_history_limit`, `subscribe`, `close_subscription`, `refresh` |
| Cross-tier rule (`runtime.cpp:72-84, 345-366`) | none | actions at a level; a demotion is withdrawn if the host tier cannot take it |
| Windows, CUDA, storage providers (`providers/`) | number of devices, libraries found | `sample(now)`: observations and a status, from calls that may fail |
| Synthetic provider (`synthetic.cpp`) | samples taken so far | `sample(now)`: curves, or the scripted failure or staleness of a scenario |
| Serialization (`serialize.cpp`) | none | every model type to a JSON value and most of them back |
| JSON (`json.cpp`) | position and depth in the text | `json_parse` within limits, `json_serialize` |
| `TrendEstimator` (`velocity.h`, `core.cpp:204-246`) | the samples of the last while | `add_sample`, `reset`, `estimate` |
| Scores (`core.cpp:161-202`) | none | weighted score of a domain and of the aggregate |
| Trace replay (`trace.cpp`) | position in the trace | a provider that plays recorded frames |
| CLI (`cli/main.cpp`) | none | one runtime per command, `watch` refreshes in a loop |

**How they interact.** Everything meets in `refresh`. Under `refresh_mutex_` it samples every
provider, classifies each observation against the level the domain's machine holds, feeds the
result to the machine, computes capacities under the budget, keeps the domains of providers that
are out, applies the cross-tier rule, decides whether the result is a new generation, makes events,
publishes the snapshot by replacing a `shared_ptr`, and pushes the events into the subscriptions,
whose callbacks run inside the push. Queries only read the published snapshot. `set_policy` resets
the machines under the same mutex and replaces the policy after releasing it.

**What is hard**, and what correctness means for each part:

- *Debouncing.* A level depends on a whole run of samples, two or more delays and a clock that is
  an unsigned counter. It must never move without enough agreeing samples past the right threshold,
  never skip a band downwards, always move at once when memory is full, and come to rest when the
  utilization does.
- *Budgets and admission.* Arithmetic on 64-bit words: bytes let in may never reach into a reserve.
- *Subscriptions.* Producers, consumers and callbacks meet on one queue, and the callback is run after the
  lock is released: nothing may be lost without being counted, reordered, duplicated, or appear
  after `close`.
- *Refresh.* Providers fail one by one and in different ways; domains come, go and come back;
  policy and budgets change in between. A generation must identify the content; levels, machines and
  events must agree; an outage must not look like relief.
- *Threads.* Two refreshes at once, a policy change in the middle, callbacks that call back:
  order of snapshots and events, and no thread waiting for itself.
- *Serialization.* Counts are 64-bit words in the program and doubles in a document.
- *JSON.* The parser must accept the documents of the grammar within its limits and no others, come back from every container
  at the depth it went in with, and take no text that was cut off for a whole one.
- *Providers.* Calls fail one at a time, in any refresh. The id of a device is made anew at every sample, from
  one of these calls; driver and runtime may not count the same devices. A device must be published once, and
  what is published as valid must have been measured in this refresh.
- *Trend.* The window loses samples by age and by number, several at a time after a silence.

The complete list, line by line, with the properties that guard each, is under `hazards` in `PROJECT.json`.

## Modules

```
PressureLevels --- Hysteresis --- DomainDebounce ......... implements StickyLevel
      |                 |               '-- MCDomainDebounce, DebounceProofs
      '-- Budgets ------+-- Admission -- MCAdmission, AdmissionProofs       (with Responses)
             |          |
             |          '-- PressureRuntime -- MCPressureRuntime, PressureRuntimeProofs  (with Responses)
             |                   |
             |                   '-- Platform -- MCPlatform  implements PressureRuntime (in PressureRuntimeProofs)
             '-- Serialization -- MCSerialization, SerializationProofs
Subscription .................. implements LossyFifo ; MCSubscription, SubscriptionProofs
RuntimeLocks .................. implements EventFeed ; MCRuntimeLocks, RuntimeLocksProofs
JsonParser -- JsonWriter -- JsonText -- MCJsonText
                  '-- JsonProofs
TrendWindow -- MCTrendWindow, TrendProofs
```

`map` in `PROJECT.json` gives the source lines of every definition.

**PressureLevels** has the level vocabulary, `Thresholds` and `EvaluateLevel` (`core.cpp:249-288`).
Fractions are whole numbers in `0..Scale`: the code only compares them. *Hysteresis* is
`HysteresisState` as operators on a record; the clock counts modulo `ClockModulus`.

**DomainDebounce** drives one machine as `refresh` does: `Observe(u, dt)` samples a utilization,
classifies it against the level held and updates the machine. `run` is a history variable: how many
samples in a row pointed to the same level, between which utilizations, over how much real time.
**StickyLevel** is what the machine promises, with no thresholds and no clock.

**Budgets** has `validate_budget` and what `refresh` makes of an observation under a budget
(`Interpret`). Sums of reserves wrap at `Word` as in the code; `HeldAside` is the sum before it
wraps. **Admission** puts one domain's budget, its published state and the queries side by side: the
state published last answers, whatever was configured since, and a domain that is not published gets the defaults of each answer.

**Subscription** has one action per method. `push` is two: `Push` under the mutex, `Invoke` for the
callback that the code copies and runs after unlocking, so that any other caller's step may come in
between. **LossyFifo** is the promise: a bounded, numbered, order-keeping queue that may lose
events and nothing else.

**Responses** and **PressureRuntime**: one action per public mutator and one for the whole of
`refresh`, built from stages named after what they compute (`HealthOf`, `Digest`, `Kept`, `Gone`,
`Respond`, `AggregateLevel`, `Changed`, `EventsOf`, `Remembered`). Providers return any sample of
`Samples`, may be healthy, partial, stale, failed or unavailable, and may throw. A domain that a
working provider stops reporting is removed, one whose provider is out is retained with its level.
`snapshot` is what `current_snapshot` returns, `tracked` the machines, `events` those of the last
refresh. `resets`, `sampled` and `heard` are history variables: the domains whose machine `set_policy` reset, those observed in the
last refresh, and what one knows of domains and levels who only follows the events. The aggregate score is an arbitrary member of `Scores`, because a changed score makes a new generation.

**RuntimeLocks** opens up what `PressureRuntime` takes as one step. Every thread has a program
counter inside `refresh` or `set_policy`; locals of the calls are variables per thread. A step is
what the code does between two points where another thread can be seen: taking `refresh_mutex_`,
publishing, copying the list of subscriptions for each event, each push, each callback, the release,
and the policy replacement outside the mutex. Locks that guard a few lines and no call are one step. A
machine is reduced to the policy it was built for, an event to its id. **EventFeed** is what those who watch the runtime may rely on,
with neither threads nor locks: snapshots are published one after the other, each only when the events of the one before have
reached every open subscription, and a subscription reads on in the one log of events, from where it came in until it is closed.
One that is made while events go out may get some of those, since each event goes to those registered when its turn comes.

**Serialization** follows a budget, policy, trace or snapshot through `*_to_json`, the writer, the parser and
`*_from_json`. Only counts change on the way (`Wire`: cast to signed, rounded to a double;
`AsUint64`: whole numbers up to 2^53), so only they are numbers; what every reader does about a
count it cannot read is kept apart: refuse (an observation, and with it the trace; a hard capacity; a policy
version), zero (snapshot and domain counts, other budget fields), or a default (queue bound, relief cap).
`SampleTrace` is `TraceProvider::sample` (`trace.cpp`) on the trace held, always healthy and empty once the trace is over.
`Saveable` says what a program may have to save: budgets and policies that `set_budget` and `set_policy` accept, traces and snapshots
with any number of frames, domains and counts. `SerializationAssumption` asks no more of `Things`, and of `Exact` that it is a power of two
that a signed word holds twice. For counts next to 2^63 the writer's cast back to `int64_t` is undefined (`json.cpp:258`); in the
model as on common targets the result is a number no reader accepts.

**Platform** puts the in-tree providers under `PressureRuntime`. `WindowsSample`, `CudaSample`, `StorageSample` and
`SyntheticSample` are the four `sample` functions: what each returns when any of the calls into the operating system, the
driver or the CUDA runtime fails. The calls are external and fail in any refresh (`Faults`); the name of a device goes into its id only
without a UUID, so it only fails then (`NamelessId`). A `cuDeviceGet` that fails leaves the ordinal as the handle, which is what it returns on CUDA
(`cuda.cpp:190` notes that this is not guaranteed). `Setup` registers the
providers a program starts with, as the CLI does; `Reconfigure` is a caller that changes budgets and the history limit between refreshes.
Every resource has `Capacity` bytes, and in one refresh the same number of them in use, which is what `memory` remembers.

**JsonParser** is `json_parse` as a pushdown automaton: `stack` is the C++ call stack, `mode` where the innermost
function stands, and `Read` takes one unit of text, a character of a class or a whole escape sequence. The text is
made up as the parser gets to it. **JsonWriter** says what text: any, or the one `json_dump` writes for a value, cut off at any point. The value is
made up, too, while `serialize_to` walks over it: `writer` is where the walk stands, with a call stack of its own, and each unit it writes is
read at once. What `std::to_chars` prints is the constant `Printed`, of which it is only assumed that it holds numbers of RFC 8259; that it stays in
the range of a double is built in (no `OutOfRange` in such a text). **JsonText** has the grammar, written without reference to the parser (RFC 8259 with the limits).

**TrendWindow** is `TrendEstimator`: `AddSample` drops what is too old, adds, and drops what is too much; `Direction` is the sign of the fitted
slope, in whole numbers (deviations times the number of samples); `Sums` are the running sums of its loops. `added` is a history variable.

**Modelling assumptions.** Each domain is reported by one provider, which the observation names
(`ValidSample`); `refresh` does not enforce that, and the hazards say what happens otherwise.
The plain `shared_ptr` of the policy and unlocked counters are read and written atomically.
Utilizations in `PressureRuntime` are exact because all instances use whole tenths. `TrendWindow` assumes that time does not run backwards
(the caller passes it). A unit of JSON text is a code unit of a string also when it takes several bytes.

## Runs

| Run | Module | Shows |
|---|---|---|
| `debounce` | MCDomainDebounce | what may move a level, by how much, on what evidence, after how long; refinement of StickyLevel; it settles |
| `admission` | MCAdmission | admitted bytes leave what is held back untouched; a worse level never admits more; a suggested allocation is admitted |
| `subscription` | MCSubscription | accounting, callback order, silence after close, refinement of LossyFifo, under all overflow policies |
| `runtime` | MCPressureRuntime | four refreshes with two unreliable providers and a policy change anywhere |
| `locks` | MCRuntimeLocks | two threads, two subscriptions: order, completeness, refinement of EventFeed, progress |
| `locks_policy` | MCRuntimeLocks | *fails*: a refresh between the two halves of `set_policy` leaves a machine on the old policy |
| `locks_reentry` | MCRuntimeLocks | *fails*: `set_policy` from a callback waits for its own thread |
| `platform` | MCPlatform | the in-tree providers with a failing call in any refresh and callers who reconfigure: devices, readings, generations, history |
| `platform_untrusted` | MCPlatform | *fails*: a device whose memory could not be read is published as NORMAL |
| `serialization` | MCSerialization | what comes back of budgets, policies, traces and snapshots |
| `json` | MCJsonText | the parser against the grammar; what is written can be read; what is cut off is noticed |
| `trend` | MCTrendWindow | what the window holds, and that the direction is one the samples show |

**Properties, and why the bounds are enough.**

`debounce`: utilizations on every threshold of `default_policy` and inside every band, so that all
comparisons occur with `<`, `=` and `>`. Three confirmations, a dwell of 1 and delays of 2 and 3
ticks make every one of the conditions for a move the last to be met in some behaviour; a clock of eight ticks
wraps within a few samples. `WindowIsRun`, `ConfirmedMoves`, `EvidencePastThreshold`, `OneBandDown`,
`HeldLongEnough` and `EmergencyIsImmediate` say what moves a level; `NoFlap` that the classifier never
turns back; `Settles` that a constant utilization brings the machine to rest.

`admission`: four-bit words; budgets whose reserves leave some, no or negative room, or wrap around the word; observations
within and beyond capacity. `AdmissionKeepsReserves` is about the emergency reserve and the listed reserves: all of their sum if it fits a word,
what is left of it otherwise. `minimum_free_reserve` is not among them, because the code does not hold it back.

`subscription`: a queue of two and five events fill, overflow and drain it more than once, with one
producer (`refresh` is the only caller of `push`) against a consumer, a filter that both matches
and rejects, and a callback that may be replaced in between.

`runtime`: an accelerator and a host domain are the smallest system in which the cross-tier rule, retention of
one domain next to a fresh one, and an aggregate occur. Four refreshes suffice to appear, be confirmed at a
level, lose the provider and come back; a policy change with another dwell may happen at any point,
and an invalid policy is tried. `TrackedMatchesPublished` and `LevelsAgree` tie machines and snapshot together. `EventsCarryLevels` follows the events from the start
(`heard`): who does that knows which domains are published and never holds a wrong level of one, but may not have been told one below HIGH.
`NoReliefWithoutEvidence` guards outages of every kind, a stale provider's included: what was not observed keeps level, peak and capacities, and a level
falls by one band on an observation below its exit threshold. A failed reading, with its zero bytes, is such an observation (see below).

`platform`: two devices, so that one may fail, or be missing from one of the two counts, next to one that does not; the three Windows
domains, a volume and a simulated accelerator. The machine is one of `SomeStarts`: driver and runtime both see two devices, the
runtime one of the driver's two, only the runtime one, or neither any. The simulation starts at its first step, and fails at the second, or at
its third, and is stale at the fourth. One call fails per refresh (`MaxFaults`), the name of a device along with its UUID if that is the one, another in the next, and after three refreshes each has had the time
to fail, be published as failed, and come back. `OneEntryPerDevice` and `ValidMeansMeasured` are about the providers and the retention of domains
together; `GenerationIdentifiesContent` and `HistoryIsRecent` are about callers who set, change and clear a budget or move the history limit
both ways in between. A generation identifies what `diff_snapshots` compares and the responses; bytes available and validity change without one.

`locks`: two threads are enough for a lost exclusion, two subscriptions for one that closes while
the other must get everything, two events per refresh for a batch to interleave, two refreshes for
batches to mix. `ImplementsFeed` says that no snapshot comes before the one it follows or while events are still going out, and nothing
of an event after closing. Callbacks only query here, and return; `locks_reentry` lets them call `set_policy`.
One that throws would leave the rest of its batch undelivered, and is not modelled.

`serialization`: words of six bits, of which a double keeps three; the counts lie below, on and
above the last exact double, on both sides of a tie, and on both sides of the sign bit.
`LosslessWithinLimit` is the documented promise with two exceptions that `Persisted` spells out, neither of them in terms of the writer: the freshness
bounds of a policy, and PARTIAL health, which comes back as UNAVAILABLE (both below);
`TraceIsWhole` and `NothingInflated` say what must not happen beyond the limit, the second for
reserves that add up within a word. `ReplayIsTheRecording` follows a
recorded trace of two frames through the document into the samples of a `TraceProvider`; three samples go past its end.

`json`: two levels, eight units, strings of one character. Arbitrary texts range over all classes the parser tells apart except
those that behave as another one everywhere; that covers every container inside every other, empty, with one element and with two, numbers with all of
their parts, and each limit reached and exceeded. `AcceptsTheGrammar` compares verdicts with the grammar in both directions: since the parser refuses at
the first unit that cannot go on, for a refused text it is enough that no ending in `SomeEndings` completes it. The values are all those whose text has
up to eight units, with every character the writer escapes, an integer without and with a sign, a number with a fraction and an exponent, and one that is
not finite; of larger values the first eight units. They leave each limit, and `WrittenIsReadable` has the parser notice it at that very unit.
`DepthIsNesting` ties the depth counter to the call stack. A literal and an escape sequence are one unit each: one that is cut off inside, or
misspelt, is a unit that the parser refuses (`json.cpp:97, 190-206`), and is not among the cuts of `TruncationIsNoticed`.

`trend`: windows of four samples and 1500 ms; paces of 0, 1 and 1100 ms let samples share a timestamp, two grow old at once, and the slope
fall on either side of a byte per second. Five samples overflow the window. The slope is compared in exact numbers: what doubles round when it is just a byte per second, and the
quotient that `core.cpp:232` guards, are not in the model.

**Fairness.** `debounce` assumes that the caller keeps refreshing and that the timestamps it passes move on, as the CLI's
`watch` loop does, whose clock advances with every refresh (`cli/main.cpp:66-70, 147-157`). Nothing is assumed about *what* is sampled.
`locks` assumes weak fairness of each thread's steps inside a call, since an operating system runs
its threads. Nothing is assumed about who gets a free mutex: waiting threads may starve, and `RefreshReturns`
does not need them.

**Deadlock** is checked except in `subscription` and the `locks` runs, where callers make a bounded number of
calls (`MaxEvents`, `MaxRefreshes`, `MaxPolicies`) and then stop, and in `json`, where parsing ends.

**Bounds by name:** `HistoryCap` (history of a run of samples), `ClockModulus`, `Word`, `Exact`, `MaxEvents`,
`MaxRefreshes`, `MaxPolicies`, `EventsEach`, `MaxSamples`, `MaxFaults`. `HistoryCap` only bounds history variables, `ClockModulus`,
`Word` and `Exact` stand for 2^64, 2^64 and 2^53, `MaxDepth`, `MaxBytes`, `MaxString` for `JsonParseLimits`; the others limit how many calls are made or fail.

## Proofs

Forty-four theorems, each for every value of the constants allowed by the module's named assumptions.

**DebounceProofs.** All safety properties of `debounce` and the refinement of `StickyLevel`, for every valid
policy, configuration, clock and pace. `WindowIsRun` alone is inductive with the types; the
properties about moves also need to know what every sample behind the pending window was
(`RunEvidence`: all of it past the threshold of the move) and how old the window is (`WindowAge`: the
elapsed clock time never exceeds the real time since it opened, also across wrap-around). `IInv` is the conjunction.

**AdmissionProofs.** `ReservesAreKept`, for every word size and every budget, those whose reserves wrap included. The inductive fact is
that a published governed state accounts for its reserves: available bytes, committed bytes and
what is held back (the sum modulo `Word`) fit under the capacity. For `AdmissionNeverRelaxes` and `SuggestionsAreAdmitted` it is enough that a
published state has a level and a natural number of bytes available (`Sized`).

**SubscriptionProofs.** Types and accounting are inductive together; with them `close` is final and every
step is a step or a stutter of `LossyFifo`, for every capacity, filter, policy and number of producers. `CallbackInOrder` holds if there is one
producer, as in the runtime, whose refreshes exclude each other: what was heard lies before what is being announced, and that before what is
published next. With two producers it is false, because the callback runs after the unlocking.

**PressureRuntimeProofs, the runtime.** Eight theorems, for every set of domains and providers and every sample they may return.
`IInv` is the types, `TrackedMatchesPublished`, `LevelsAgree`, that responses are a function of the
levels published (`ResponsesFollowLevels`), and that the snapshot carries the generation counter.
`StepCases` reduces every step to a refresh or a configuration change that publishes nothing; `Publication` and `DomainsStep`
read off a refresh what the theorems use. `OutageIsNoRelief` (withdrawn, not observed, observed: one case each) also needs that published domains
belong to registered providers, `HistoryHoldsTheLatest` that the ids of the history are consecutive. `EventsKeepUp` is about a follower who never
sees a snapshot: every event that carries a level carries the one published with it (`EventsTellTheLevel`), a level that changed makes one, and so does
any level from HIGH on, where reclaim is asked for (`ReclaimFromHighOn`); so what was told last is still right (`LevelIsTold`, `FollowerStep`).

**PressureRuntimeProofs, the platform.** `PlatformImplementsRuntime`: if `Samples` admits every well-formed sample, every step of `Platform` is one of
`PressureRuntime` or a stutter, so all theorems above hold with these providers, for any number of devices, calls that fail, and budgets. `ValidIsMeasured`: a
domain published as VALID was observed in the refresh that published it, because a retained one is marked STALE. `DevicesHaveOneEntry`: the ids a
device may have are told apart from those of all others, a refresh with an answering provider publishes exactly the ids of its sample, and the
CUDA provider never fails as a whole once it has counted a device.

**RuntimeLocksProofs.** `RefreshIsExclusive` and `SnapshotsArePublishedInOrder`, whatever callbacks call. Exclusion
is not inductive: a thread whose callback waits for the mutex holds it too (`Held`), and only that keeps the
second lock from being granted. With it the published id trails the counter by at most the refresh under way (`Numbered`).
`EventsComeInOrder` and `NoEventIsMissed` are about what is still to be delivered: the thread that holds the mutex has a batch of consecutive event ids, and
each subscription has heard exactly the events up to the point the batch has reached for it (`Reached`), from the one it was made after. Order
follows because batches continue each other, completeness because outside a refresh nothing is left of a batch.
`LocksImplementFeed`: every step is one of `EventFeed` or not seen from outside, also when callbacks call `refresh` or `set_policy` and their thread
hangs. That a push hands out the *next* event needs, besides `Delivery`, that an open subscription with an event has all later ones whose turn has come
(`Gapless`), and that only subscriptions that were made get any (`Joined`). `DeliveryCases` leaves few kinds of steps to look at.

**JsonProofs.** All limits, texts and values. `DepthIsTheNesting`: `depth` is the length of the call stack, and modes inside an object or array have a
container on it, so that leaving one never takes what is not there (`Sound`). `WrittenIsRead` and `TruncationIsCaught` rest on `TextInv`: writer and parser
are in the same containers and, between them, at the same place (`Matches`), until the parser fails, which it does just when the value leaves the limits (`Tracks`). One lemma per
thing that is written (`Keeps...`) shows that. Numbers are what makes it hard, since they have no closing character: the writer has gone on while the parser
still waits for digits, and only the comma or bracket that follows brings the two together (`ConsumeBetween`). That `parse_number` scans every
number of RFC 8259 to its end, and stops at none of its units before, is `NumberFollows`, from where integer, fraction and exponent end (`Shape`).

**TrendProofs.** `WindowIsTheRecentPast`, for every window size, age and pace. Samples are ordered in time, so what is recent is a suffix of all that was
added; `WindowInv` says the window is that suffix, and dropping first what is old and then what is too much yields the next one.
`DirectionIsTrue`: no rise or fall is estimated that no two samples show, and what all pairs of samples show is estimated. The slope compares two sums
of products of deviations. If no two samples rise faster than a byte per second, then what that rate would add, less what the bytes did add,
grows whenever time does; rows that move together like this satisfy Chebyshev's inequality for sums, which decides the comparison
(`PairsDecide`). The inequality, and what the loops add up, are shown by induction over the rounds (`UpTo`): a first round that is an exception has a predecessor that is none.

**SerializationProofs.** The four properties of `serialization`, for every word size and for things of any size. The inductive
invariant is `Held` (the program only holds what can be saved, also after loading), `Documented` (the document is of what was saved last), `Loaded`
(what is held after a load is what can be read of it) and `Playing` (the samples of a replay are the frames up to its index). Two arguments carry it.
Doubles beyond `Exact` are a power of two, hence an even number, apart, so that only `Exact + 1` is rounded down to it and every other count beyond
stays unreadable (`RoundedValue`, `CountReads`). And a reader that puts zero for what it cannot read could make room by losing a reserve: but reserves fit under
the hard capacity of an accepted budget, so where that can be read, all of them can (`BudgetRead`).

**Only model-checked:** liveness (`Settles`, `RefreshReturns`), which TLAPS does not reach here; and `AcceptsTheGrammar`, because the grammar of `JsonText` is
made of recursive operators.

## Where the code and its documents disagree

Three disagreements have a run (`findings` in `PROJECT.json`): failed observations read as NORMAL, `set_policy` not atomic, callbacks
under the mutex. Others were met while modelling; the models follow the code, and no run states the document's version:

- `BUDGETS.md:63` says that a reserve is not available for general allocation. The sum of reserves wraps around the word
  (`budget.h:91`), so a vector of reserves beyond it passes validation and only what is left of the sum is held back. `AdmissionKeepsReserves` states that much.
- `BUDGETS.md:34` calls `minimum_free_reserve` "a hard floor that must remain free"; it is validated (`budget.h:80`) and never held back from
  what is available (`runtime.cpp:242`). `AdmissionKeepsReserves` leaves it out.
- `CROSS_TIER.md:36,50,52`, `LIMITATIONS.md:50` and `PRESSURE_MODEL.md:94` filter demotion of accelerators at HIGH and CRITICAL only, and keep it at EXHAUSTED whatever
  the host; `runtime.cpp:353-364` withdraws it there like elsewhere, as its comment says. No property of the project speaks for either.
- `PRESSURE_MODEL.md:35` has a domain without a trustworthy observation resolve to UNKNOWN. Besides what `platform_untrusted` shows of new domains, a device
  under pressure whose memory cannot be read (zero bytes, `cuda.cpp:220-226`) falls band by band while that lasts. `NoReliefWithoutEvidence` counts such
  a reading as an observation, as `refresh` does.
- `EVENTS.md:27` has `PressureEntered` for a domain that enters pressure; one that first appears under pressure makes only `DomainAdded` with severity 0
  (`runtime.cpp:336`) and, from HIGH on, its requests.
- `SERIALIZATION.md:82` calls snapshot and trace round trips exact below 2^53. PARTIAL health has no name to be written under (`types.h:287-295`, while
  `types.h:451` could read one) and comes back as UNAVAILABLE. `LosslessWithinLimit` states the exception.
- `CUDA.md:38` builds the identity of a device never from the transient ordinal alone; without a UUID the id is made of the device's name and its ordinal (`cuda.cpp:29`).
- `CUDA.md:58` has probes disabled by default; `probe_device` never looks at the flag, and if `cudaFree` was not found it keeps the memory (`cuda.cpp:233-244`).
- `POLICY.md:104` treats a provider beyond its freshness bound as stale; no code compares an age with the bound.
- `POLICY.md:46` weighs positive trend confidence; a falling trend adds a fifth of its confidence to the score (`runtime.cpp:266`).
- `BACKPRESSURE.md:32` rejects a signal after ten seconds; a retained domain gets a fresh timestamp at every refresh
  (`runtime.cpp:322`), so that its signals never expire.
- `SECURITY.md:17` calls every structure bounded; closed subscriptions stay in `subscriptions_` for good (`runtime.cpp:142`).
- `SERIALIZATION.md:28` calls `max_depth` the nesting depth; a string counts as one more level (`json.cpp:155`).
- `runtime.cpp:320` notes in the explanation of a domain that it was retained, and `runtime.cpp:366` builds the explanation anew.
- Two providers with one name replace each other without a word (`runtime.cpp:118`).
- Samples that alternate between two levels above the one held restart the window each time (`core.cpp:303`), and the level stays.
- `policy.h:44` calls `max_debounce_observations` a bound that forces a decision; `core.cpp:308` only stops
  counting there, so a bound below `min_dwell_observations` never lets a level move.
- `policy.h:43` limits immediate escalation by dwell in its wording; `core.cpp:299` skips dwell and delays.
- `elevated_exit` (`policy.h:25`) is validated and serialized, and no decision reads it (`core.cpp:266`).
- `BACKPRESSURE.md:39` calls `max_new_allocation` "the largest single allocation that is reasonably safe right now"; `runtime.cpp:543` suggests a quarter of what is
  available also at CRITICAL and EXHAUSTED, where `admit` rejects everything (`SuggestionIsAdmitted` is stated below CRITICAL).
- `max_relief_bytes` (`POLICY.md:116`, `SECURITY.md:24`, `DESIGN.md:51`) is never applied to a relief request (`runtime.cpp:564`).
- `domain.h:97` speaks of the peak of an episode; `runtime.cpp:256` keeps it until the domain is removed.
- `ARCHITECTURE.md:78,81` promise a ProviderFailed event; a provider that throws changes the health and makes none (`runtime.cpp:212`).
- `EVENTS.md:26,34` list BudgetChanged and PolicyChanged; no code makes either (`runtime.cpp:402`).
- `SERIALIZATION.md:82` says that values above 2^53 "are rejected by the reader rather than silently truncated".
  2^53 + 1 is rounded to 2^53 when it is written and loads as that (`TraceIsWhole` states the exception), and unreadable counts
  of snapshots, domains and most of a budget load as 0 (`serialize.cpp:229, 369-375`).
- `trace.h:25-27` says that replaying a trace reproduces the pressure transitions of the original. `TraceProvider` is healthy in every frame and
  drops the recorded health (`trace.cpp:16-22`), and every domain of a replay belongs to it, whatever provider the observation names (`runtime.cpp:284`). A
  domain that a frame does not have is therefore removed, also where an outage had retained it in the original.
- The freshness section and three aggregate penalties of a policy are written and never read back (`serialize.cpp:98-107, 169-177`).

## Not modelled

- *Scores, rates, explanations, telemetry counters:* floating-point sums and wording that no decision depends on, except the aggregate score
  (arbitrary in `PressureRuntime`) and the direction of a trend (`TrendWindow`).
- *Search for libraries, `probe_device`:* they change no state of the library. *Curves of the synthetic scenarios:* any value.
- *Timestamps and expiry of hints:* nothing in the library compares them.
- *`explain`, CLI, tests, examples, benchmarks:* printing and callers.
- *The runtime under a replayed trace:* `ReplayIsTheRecording` stops at the samples; of the runtime they are samples like any others.

## Plan

1. **Extend the model.** `TraceReplay`: the replayed trace as the only provider of `PressureRuntime`, against the run it was recorded
   from. The values `json_parse` builds, for documents with duplicate keys. What `PressureRuntime` promises, as an abstract specification of a
   refresh that does not name its stages.
2. **Prove more.** The refinement that comes with it.
