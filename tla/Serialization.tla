----------------------------- MODULE Serialization -----------------------------
(***************************************************************************)
(* What survives a round through JSON (serialize.cpp over json.cpp): a     *)
(* program saves a budget, a policy, a recorded trace or a snapshot as a   *)
(* document, loads it again later, and has a TraceProvider play back the   *)
(* trace (trace.cpp).                                                      *)
(*                                                                         *)
(* Every number of a document is a double.  A 64-bit count is cast to      *)
(* signed and rounded when it is written, and as_uint64 reads it back only *)
(* if it is a whole number up to 2^53; what a reader does with one it      *)
(* cannot read differs from type to type and from field to field.  Names,  *)
(* flags and fractions come back as they were written, except where a      *)
(* definition below says otherwise, and are left out or kept as they are.  *)
(***************************************************************************)
EXTENDS Budgets, Sequences, Functions

CONSTANTS Exact,          \* 2^53: all whole numbers up to it are doubles
          DefaultQueue,   \* 4096, max_queued_events when a document has none
          DefaultAge,     \* freshness.default_max_age_us of a new policy
          NotFinite,      \* a delay that is NaN or infinite
          Things,         \* what a program may have to save
          MaxSamples      \* how often a replay is sampled

PowerOfTwo(g) == \A d \in 2..g : g % d = 0 => d % 2 = 0

-------------------------------------------------------------------------------
(* What a program may have to save.  Some counts are optional, so that counts *)
(* are a function on those that are there.                                    *)

IsCounts(c)   == c \in [DOMAIN c -> Bytes]
IsSequence(s) == s \in Seq(Range(s))

ProviderStatus == {"Healthy", "Stale", "Failed", "Unavailable", "Partial"}
IsHealth(h) == h \in [DOMAIN h -> ProviderStatus]

\* What set_budget accepts, with at most one reserve.
AcceptedBudget(b) == b \in Budget /\ b.reserves \in Bytes /\ ValidBudget(b)

\* What set_policy accepts; it does not look at delays.
AcceptedPolicy(p) ==
  /\ p = [version |-> p.version, thresholds |-> p.thresholds, delay |-> p.delay,
          max_queued_events |-> p.max_queued_events, max_relief_bytes |-> p.max_relief_bytes,
          default_max_age_us |-> p.default_max_age_us]
  /\ {p.version, p.max_queued_events, p.max_relief_bytes, p.default_max_age_us} \subseteq Bytes
  /\ p.thresholds \in Thresholds /\ Ascending(p.thresholds) /\ p.max_queued_events # 0

DomainObservation(o) ==
  o = [id |-> o.id, validity |-> o.validity, counts |-> o.counts] /\ IsCounts(o.counts)

TraceFrame(f) ==
  /\ f = [timestamp_ms |-> f.timestamp_ms, health |-> f.health, observations |-> f.observations]
  /\ f.timestamp_ms \in Bytes /\ IsHealth(f.health) /\ IsSequence(f.observations)
  /\ \A k \in DOMAIN f.observations : DomainObservation(f.observations[k])

PressureTrace(t) ==
  /\ t = [policy_version |-> t.policy_version, frames |-> t.frames]
  /\ t.policy_version \in Bytes /\ IsSequence(t.frames)
  /\ \A i \in DOMAIN t.frames : TraceFrame(t.frames[i])

\* The budget of a domain was accepted, or there is none.
DomainState(d) ==
  /\ d = [id |-> d.id, level |-> d.level, governed |-> d.governed, counts |-> d.counts,
          budget |-> d.budget]
  /\ IsCounts(d.counts) /\ AcceptedBudget(d.budget)

Snapshot(s) ==
  /\ s = [counts |-> s.counts, health |-> s.health, domains |-> s.domains]
  /\ IsCounts(s.counts) /\ IsHealth(s.health) /\ IsSequence(s.domains)
  /\ \A i \in DOMAIN s.domains : DomainState(s.domains[i])

Saveable(thing) ==
  \/ thing.kind = "budget"   /\ AcceptedBudget(thing.value)
  \/ thing.kind = "policy"   /\ AcceptedPolicy(thing.value)
  \/ thing.kind = "trace"    /\ PressureTrace(thing.value)
  \/ thing.kind = "snapshot" /\ Snapshot(thing.value)

ASSUME SerializationAssumption ==
  /\ Exact \in Nat /\ Exact > 1 /\ PowerOfTwo(Exact) /\ 2 * Exact < Word
  /\ DefaultQueue \in Bytes \ {0} /\ DefaultAge \in Bytes
  /\ \A thing \in Things : Saveable(thing)
  /\ MaxSamples \in Nat

VARIABLES
  held,      \* what the program holds
  document,  \* the document last written
  saved,     \* history: what it was written from
  outcome,   \* of the last save or load
  index,     \* index_ of the TraceProvider that plays the trace held
  fed        \* history: what it returned, sample by sample

vars == <<held, document, saved, outcome, index, fed>>

Nothing == [kind |-> "nothing"]   \* std::nullopt

-------------------------------------------------------------------------------
(* Counts *)

\* static_cast<std::int64_t>.
Signed(n) == IF 2 * n < Word THEN n ELSE n - Word

\* Above Exact, doubles are 2, then 4, 8... apart; a tie goes to the even one.
Rounded(n) ==
  LET gap  == CHOOSE g \in 1..n : PowerOfTwo(g) /\ n < Exact * g /\ Exact * g <= 2 * n
      less == (n \div gap) * gap
  IN  IF 2 * (n - less) < gap \/ (2 * (n - less) = gap /\ (n \div gap) % 2 = 0)
      THEN less ELSE less + gap

\* Json(std::int64_t).
Double(v) == IF v > Exact THEN Rounded(v) ELSE IF -v > Exact THEN -Rounded(-v) ELSE v

Wire(n) == Double(Signed(n))

\* Json::as_uint64.
Unreadable == -1

\* Mistakes, for mutation: the bound itself turned away, and no bound.
AsUint64Strict(v) == IF v \in 0..(Exact - 1) THEN v ELSE Unreadable
AsUint64Unbounded(v) == IF v >= 0 THEN v ELSE Unreadable

AsUint64(v) == IF v \in 0..Exact THEN v ELSE Unreadable

\* as_uint64().value_or(fallback).
CountOr(v, fallback) == IF AsUint64(v) = Unreadable THEN fallback ELSE AsUint64(v)

WriteCounts(counts) == [x \in DOMAIN counts |-> Wire(counts[x])]
ReadCounts(counts)  == [x \in DOMAIN counts |-> CountOr(counts[x], 0)]
AllReadable(counts) == \A x \in DOMAIN counts : AsUint64(counts[x]) # Unreadable

-------------------------------------------------------------------------------
(* Readers and writers *)

WriteBudget(b) == WriteCounts(b)

\* Mistake, for mutation: the reserves of a budget are not read back.
ReadBudgetBare(doc) ==
  LET b == [ReadCounts(doc) EXCEPT !.reserves = 0]
  IN  IF AsUint64(doc.hard_capacity) = Unreadable \/ ~ValidBudget(b) THEN Nothing ELSE b

\* Only the hard capacity has to be readable, but the rest has to fit into it.
\* A budget here has at most one reserve; they are read one by one.
ReadBudget(doc) ==
  LET b == ReadCounts(doc)
  IN  IF AsUint64(doc.hard_capacity) = Unreadable \/ ~ValidBudget(b) THEN Nothing ELSE b

WriteObservation(o) ==
  [id |-> o.id, validity |-> o.validity, counts |-> WriteCounts(o.counts)]

\* Mistake, for mutation: an unreadable count is taken for zero.
ReadObservationAnyway(doc) ==
  [id |-> doc.id, validity |-> doc.validity, counts |-> ReadCounts(doc.counts)]

\* Every count that is present has to be readable.
ReadObservation(doc) ==
  IF AllReadable(doc.counts)
  THEN [id |-> doc.id, validity |-> doc.validity, counts |-> ReadCounts(doc.counts)]
  ELSE Nothing

\* to_string(ProviderStatus) has no case for Partial.
StatusName(status) == IF status = "Partial" THEN "Unavailable" ELSE status
WriteHealth(health) == [p \in DOMAIN health |-> StatusName(health[p])]

\* provider_status_from_string knows all five; any other name is Unavailable.
StatusNamed(name) ==
  IF name \in ProviderStatus THEN name ELSE "Unavailable"
ReadHealth(doc) == [p \in DOMAIN doc |-> StatusNamed(doc[p])]

WriteDomain(d) ==
  [id |-> d.id, level |-> d.level, governed |-> d.governed,
   counts |-> WriteCounts(d.counts), budget |-> WriteBudget(d.budget)]

\* An unreadable count of a domain state is zero, and a budget that cannot be
\* read is no budget; governed is what the document says.
ReadDomain(doc) ==
  [id |-> doc.id, level |-> doc.level, governed |-> doc.governed,
   counts |-> ReadCounts(doc.counts),
   budget |-> IF ReadBudget(doc.budget) = Nothing THEN DefaultBudget ELSE ReadBudget(doc.budget)]

WriteSnapshot(s) ==
  [counts |-> WriteCounts(s.counts), health |-> WriteHealth(s.health),
   domains |-> [i \in DOMAIN s.domains |-> WriteDomain(s.domains[i])]]

DistinctIds(domains) ==
  \A i, j \in DOMAIN domains : domains[i].id = domains[j].id => i = j

ReadSnapshot(doc) ==
  IF ~DistinctIds(doc.domains) THEN Nothing
  ELSE [counts |-> ReadCounts(doc.counts), health |-> ReadHealth(doc.health),
        domains |-> [i \in DOMAIN doc.domains |-> ReadDomain(doc.domains[i])]]

WriteFrame(f) ==
  [timestamp_ms |-> Wire(f.timestamp_ms), health |-> WriteHealth(f.health),
   observations |-> [i \in DOMAIN f.observations |-> WriteObservation(f.observations[i])]]

ReadFrame(doc) ==
  [timestamp_ms |-> CountOr(doc.timestamp_ms, 0), health |-> ReadHealth(doc.health),
   observations |-> [i \in DOMAIN doc.observations |-> ReadObservation(doc.observations[i])]]

WriteTrace(t) ==
  [policy_version |-> Wire(t.policy_version),
   frames |-> [i \in DOMAIN t.frames |-> WriteFrame(t.frames[i])]]

\* One observation that cannot be read fails the trace.
ReadTrace(doc) ==
  LET frames == [i \in DOMAIN doc.frames |-> ReadFrame(doc.frames[i])]
  IN  IF \E i \in DOMAIN frames : \E k \in DOMAIN frames[i].observations :
           frames[i].observations[k] = Nothing
      THEN Nothing
      ELSE [policy_version |-> CountOr(doc.policy_version, 1), frames |-> frames]

WritePolicy(p) ==
  [version |-> Wire(p.version), thresholds |-> p.thresholds, delay |-> p.delay,
   max_queued_events |-> Wire(p.max_queued_events), max_relief_bytes |-> Wire(p.max_relief_bytes),
   default_max_age_us |-> Wire(p.default_max_age_us)]

\* The freshness section and the penalties of the aggregate are written and
\* never read (default_max_age_us stands for them); a cap on relief that cannot
\* be read is no cap.
ReadPolicy(doc) ==
  LET p == [version |-> AsUint64(doc.version), thresholds |-> doc.thresholds, delay |-> doc.delay,
            max_queued_events  |-> CountOr(doc.max_queued_events, DefaultQueue),
            max_relief_bytes   |-> CountOr(doc.max_relief_bytes, Word - 1),
            default_max_age_us |-> DefaultAge]
  IN  IF p.version = Unreadable \/ ~Ascending(p.thresholds) \/ p.max_queued_events = 0
      THEN Nothing ELSE p

Write(thing) ==
  CASE thing.kind = "budget"   -> WriteBudget(thing.value)
    [] thing.kind = "policy"   -> WritePolicy(thing.value)
    [] thing.kind = "trace"    -> WriteTrace(thing.value)
    [] thing.kind = "snapshot" -> WriteSnapshot(thing.value)

Read(doc) ==
  CASE doc.kind = "budget"   -> ReadBudget(doc.value)
    [] doc.kind = "policy"   -> ReadPolicy(doc.value)
    [] doc.kind = "trace"    -> ReadTrace(doc.value)
    [] doc.kind = "snapshot" -> ReadSnapshot(doc.value)

\* json_serialize gives up on a number that is not finite; json_dump then
\* writes null, of which no reader makes anything.
Writable(thing) == thing.kind = "policy" => thing.value.delay # NotFinite

Document(thing) ==
  [kind |-> thing.kind, value |-> IF Writable(thing) THEN Write(thing) ELSE Nothing]

-------------------------------------------------------------------------------
Init ==
  /\ held \in Things
  /\ document = Nothing
  /\ saved = Nothing
  /\ outcome = "none"
  /\ index = 0 /\ fed = <<>>

Save ==
  /\ document' = Document(held)
  /\ saved' = held
  /\ outcome' = "none"
  /\ UNCHANGED <<held, index, fed>>

Load ==
  /\ document # Nothing
  /\ LET value == IF document.value = Nothing THEN Nothing ELSE Read(document)
     IN  IF value = Nothing
         THEN outcome' = "refused" /\ UNCHANGED <<held, index, fed>>
         ELSE /\ outcome' = "loaded"
              /\ held' = [kind |-> document.kind, value |-> value]
              /\ index' = 0 /\ fed' = <<>>   \* what is loaded gets a provider of its own
  /\ UNCHANGED <<document, saved>>

\* Mistake, for mutation: at its end a trace stays on the last frame.
PlayedAtLast(frames, i) == frames[IF i < Len(frames) THEN i + 1 ELSE Len(frames)].observations

\* TraceProvider::sample: a frame's observations, then none.
Played(frames, i) == IF i < Len(frames) THEN frames[i + 1].observations ELSE <<>>

\* The provider is healthy whatever the frame says of the providers it was
\* recorded from, and when it has nothing left to play.
SampleTrace ==
  /\ held.kind = "trace" /\ Len(fed) < MaxSamples
  /\ LET frames == held.value.frames
     IN  /\ fed' = Append(fed, [status |-> "Healthy", observations |-> Played(frames, index)])
         /\ index' = IF index < Len(frames) THEN index + 1 ELSE index
  /\ UNCHANGED <<held, document, saved, outcome>>

\* What was loaded may be saved again, and loaded again.
Next == Save \/ Load \/ SampleTrace

Spec == Init /\ [][Next]_vars

-------------------------------------------------------------------------------
(* Properties *)

Within(counts) == \A x \in DOMAIN counts : counts[x] <= Exact

\* Things whose every count is within the exact range, and that the runtime
\* accepts: what the documents promise to bring back.
Fits(thing) ==
  LET v == thing.value IN
  CASE thing.kind = "budget" -> Within(v)
    [] thing.kind = "policy" ->
         /\ Writable(thing) /\ v.version <= Exact /\ v.max_queued_events <= Exact
         /\ v.max_relief_bytes <= Exact \/ v.max_relief_bytes = Word - 1
    [] thing.kind = "trace" ->
         /\ v.policy_version <= Exact
         /\ \A i \in DOMAIN v.frames :
              /\ v.frames[i].timestamp_ms <= Exact
              /\ \A k \in DOMAIN v.frames[i].observations : Within(v.frames[i].observations[k].counts)
    [] thing.kind = "snapshot" ->
         /\ Within(v.counts) /\ DistinctIds(v.domains)
         /\ \A i \in DOMAIN v.domains : Within(v.domains[i].counts) /\ Within(v.domains[i].budget)

\* How a health has to come back: every status as it was saved, except that of
\* a provider that was healthy in part, which comes back UNAVAILABLE (there is
\* a name for it to read, types.h:451, and none to write, types.h:287).
HealthKept(h) == [p \in DOMAIN h |-> IF h[p] = "Partial" THEN "Unavailable" ELSE h[p]]

\* What a document has to bring back of a thing: all of it but the freshness
\* bounds of a policy, and a PARTIAL health.
Persisted(thing) ==
  LET v == thing.value IN
  CASE thing.kind = "budget"   -> v
    [] thing.kind = "policy"   -> [v EXCEPT !.default_max_age_us = DefaultAge]
    [] thing.kind = "trace"    ->
         [v EXCEPT !.frames = [i \in DOMAIN v.frames |->
            [v.frames[i] EXCEPT !.health = HealthKept(@)]]]
    [] thing.kind = "snapshot" -> [v EXCEPT !.health = HealthKept(@)]

\* Up to 2^53, that bound included, whatever was saved loads, and loads as it
\* was, with two exceptions: the freshness bounds of a policy, and the health of
\* a provider that was PARTIAL (policy_to_json and the readers, trace_to_json,
\* snapshot_to_json).  SERIALIZATION.md:82 promises it of snapshots and traces
\* without the second exception.
LosslessWithinLimit ==
  outcome # "none" /\ saved # Nothing /\ Fits(saved) =>
    outcome = "loaded" /\ held.value = Persisted(saved)

\* The observations of a recorded frame, all of them and in their order: only
\* 2^53 + 1 may have become another number.
Same(was, is) ==
  /\ DOMAIN is = DOMAIN was
  /\ \A k \in DOMAIN was :
       LET before == was[k].counts
           after  == is[k].counts
       IN  /\ is[k].id = was[k].id /\ DOMAIN after = DOMAIN before
           /\ \A x \in DOMAIN before :
                after[x] = before[x] \/ (before[x] = Exact + 1 /\ after[x] = Exact)

\* A recorded trace loads as a whole or not at all: a count that cannot be
\* read never turns into an empty device (observation_from_json).
TraceIsWhole ==
  outcome = "loaded" /\ saved.kind = "trace" =>
    LET loaded == held.value.frames
        frames == saved.value.frames
    IN  /\ DOMAIN loaded = DOMAIN frames
        /\ \A i \in DOMAIN frames : Same(frames[i].observations, loaded[i].observations)

\* From the recording through the document to the replay: the n-th sample a
\* runtime takes is the n-th frame that was recorded, and nothing is observed
\* beyond the last one.
ReplayIsTheRecording ==
  outcome = "loaded" /\ saved.kind = "trace" =>
    \A n \in DOMAIN fed :
      IF n <= Len(saved.value.frames)
      THEN Same(saved.value.frames[n].observations, fed[n].observations)
      ELSE fed[n].observations = <<>>

\* A round through a document never makes memory: a loaded budget leaves no
\* more to admit than the one that was saved, although its reserves are read
\* field by field and an unreadable one is taken for zero, and no count of a
\* loaded snapshot exceeds the one written.  Budgets whose reserves wrap past
\* 2^64 (HeldAside < Word does not hold) are left out: their sum is small as
\* saved, and an unreadable reserve makes it another number altogether.
NothingInflated ==
  outcome = "loaded" =>
    CASE saved.kind = "budget" ->
           HeldAside(saved.value) < Word => UsableCapacity(held.value) <= UsableCapacity(saved.value)
      [] saved.kind = "snapshot" ->
           \A i \in DOMAIN saved.value.domains :
             LET was == saved.value.domains[i]
                 is  == held.value.domains[i]
             IN  /\ \A x \in DOMAIN was.counts : is.counts[x] <= was.counts[x]
                 /\ HeldAside(was.budget) < Word =>
                      UsableCapacity(is.budget) <= UsableCapacity(was.budget)
      [] OTHER -> TRUE
===============================================================================
