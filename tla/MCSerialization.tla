---------------------------- MODULE MCSerialization ----------------------------
(***************************************************************************)
(* TLC instances of Serialization: words of six bits, of which a double    *)
(* keeps three.  The counts lie on both sides of the exact range, next to  *)
(* its bound, where rounding goes down and where it goes up, and where the *)
(* cast turns negative.                                                    *)
(***************************************************************************)
EXTENDS Serialization

SomeCounts == {0, 3, 7, 8, 9, 10, 11, 12, 31, 32, 40, 63}

\* Among them reserves that no longer fit once the capacity was rounded, and
\* ungoverned budgets, whose other fields nothing checks.
SomeBudgets ==
  {b \in {[DefaultBudget EXCEPT !.hard_capacity = h, !.emergency_reserve_bytes = e,
                                !.reserves = r, !.soft_capacity = s] :
            h \in SomeCounts, e \in {0, 3, 9}, r \in {0, 5, 9, 11, 60}, s \in {0, 3, 9}} : ValidBudget(b)}

PolicyOf(version, queue, relief, delay) ==
  [version |-> version, delay |-> delay, max_queued_events |-> queue, max_relief_bytes |-> relief,
   default_max_age_us |-> 5,
   thresholds |->
     [normal_exit |-> 1, elevated_exit |-> 1, elevated_enter |-> 2, high_exit |-> 3, high_enter |-> 4,
      critical_exit |-> 5, critical_enter |-> 6, exhausted_exit |-> 7, exhausted_enter |-> 8]]

SomePolicies ==
  {PolicyOf(v, q, r, d) : v \in {1, 8, 11}, q \in {3, 40}, r \in {8, 11, 63}, d \in {0, NotFinite}}

Observed(id, total, committed) ==
  [id |-> id, validity |-> "Valid", counts |-> [total_capacity |-> total, committed |-> committed]]

FrameOf(t, observations) ==
  [timestamp_ms |-> t, observations |-> observations,
   health |-> [cuda |-> "Partial", windows |-> "Healthy"]]

SomeTraces ==
  {[policy_version |-> 1,
    frames |-> <<FrameOf(3, <<Observed("gpu", 8, 3)>>),
                 FrameOf(t, <<Observed("gpu", 8, c), Observed("host", n, 3)>>)>>] :
     t \in {8, 40}, c \in SomeCounts, n \in SomeCounts}

StateOf(id, usable, budget) ==
  [id |-> id, level |-> High, governed |-> budget.hard_capacity # 0, budget |-> budget,
   counts |-> [usable_capacity |-> usable, committed |-> 3]]

SomeSnapshots ==
  {[counts |-> [id |-> i, generation |-> 2], health |-> [cuda |-> h],
    domains |-> <<StateOf("gpu", u, [DefaultBudget EXCEPT !.hard_capacity = b, !.reserves = 3]),
                  StateOf(other, 8, DefaultBudget)>>] :
     i \in {3, 11}, h \in {"Healthy", "Partial"}, u \in SomeCounts, b \in {8, 9, 11}, other \in {"host", "gpu"}}

All(kind, values) == {[kind |-> kind, value |-> v] : v \in values}

SomeThings ==
  All("budget", SomeBudgets) \cup All("policy", SomePolicies) \cup All("trace", SomeTraces)
    \cup All("snapshot", SomeSnapshots)
===============================================================================
