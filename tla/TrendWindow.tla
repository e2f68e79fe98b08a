------------------------------ MODULE TrendWindow ------------------------------
(***************************************************************************)
(* TrendEstimator (velocity.h, core.cpp): the samples of the last while,   *)
(* and the direction in which the committed bytes of a domain move.        *)
(* refresh adds a sample per observation and then asks for the estimate,   *)
(* which weighs on the domain's score and is published with it.  Rate and  *)
(* confidence, which are real numbers, are left out; time never runs       *)
(* backwards.                                                              *)
(***************************************************************************)
EXTENDS Integers, Sequences, FiniteSets

CONSTANTS WindowSamples,   \* window_samples_
          MaxAge,          \* max_window_age_ms_
          Bytes,           \* committed bytes that occur
          Paces,           \* milliseconds from one sample to the next
          MaxSamples       \* bound: samples added before a reset

ASSUME TrendAssumption ==
  /\ WindowSamples \in Nat \ {0} /\ MaxAge \in Nat /\ MaxSamples \in Nat
  /\ Bytes \subseteq Nat /\ Paces \subseteq Nat

VARIABLES samples,   \* samples_
          added      \* history: every sample added since the last reset

vars == <<samples, added>>

Init == samples = <<>> /\ added = <<>>

\* The time of the sample that was added last.
Now == IF added = <<>> THEN 0 ELSE added[Len(added)].t

\* Mistake, for mutation: one old sample leaves per call, as with an if for a while.
FreshFromByOne(window, cutoff) ==
  IF window # <<>> /\ window[1].t < cutoff THEN Tail(window) ELSE window

\* The window from its first sample that is not older than the cutoff.
FreshFrom(window, cutoff) ==
  LET old == CHOOSE n \in 0..Len(window) :
               /\ \A i \in 1..n : window[i].t < cutoff
               /\ n < Len(window) => window[n + 1].t >= cutoff
  IN  SubSeq(window, old + 1, Len(window))

AddSample(committed, dt) ==
  LET t      == Now + dt
      cutoff == IF MaxAge > t THEN 0 ELSE t - MaxAge
      sample == [t |-> t, committed |-> committed]
      all    == Append(FreshFrom(samples, cutoff), sample)
      excess == IF Len(all) > WindowSamples THEN Len(all) - WindowSamples ELSE 0
  IN  /\ Len(added) < MaxSamples
      /\ samples' = SubSeq(all, excess + 1, Len(all))
      /\ added' = Append(added, sample)

Reset == samples' = <<>> /\ added' = <<>>

Next == (\E c \in Bytes, dt \in Paces : AddSample(c, dt)) \/ Reset

Spec == Init /\ [][Next]_vars
-------------------------------------------------------------------------------
(* estimate.  Deviations from the mean are multiplied by the number of       *)
(* samples, so that they are whole numbers; the factor cancels in the slope. *)
(* The code computes in doubles and divides: rounding, which decides only    *)
(* at a slope of one byte per second itself, and the quotient that the guard *)
(* on the variance protects are abstracted from.                             *)

\* The sums of the first n terms, as the loops add them up.
Sums(f) ==
  LET sum[n \in 0..Len(f)] == IF n = 0 THEN 0 ELSE sum[n - 1] + f[n]
  IN  sum

Total(f) == Sums(f)[Len(f)]
Deviation(f) == [i \in DOMAIN f |-> Len(f) * f[i] - Total(f)]
SumOfProducts(f, g) == Total([i \in DOMAIN f |-> Deviation(f)[i] * Deviation(g)[i]])

Times  == [i \in DOMAIN samples |-> samples[i].t]
Committed == [i \in DOMAIN samples |-> samples[i].committed]

\* Mistake, for mutation: a covariance that never looks at the bytes.
CovarianceOfTimes == SumOfProducts(Times, Times)

Covariance == SumOfProducts(Times, Committed)
Variance   == SumOfProducts(Times, Times)

\* The slope, in bytes per millisecond, against a rate of one byte per second.
Direction ==
  IF Len(samples) < 2 THEN "Unknown"
  ELSE IF Variance <= 0 THEN "Flat"
  ELSE IF 1000 * Covariance > Variance THEN "Rising"
  ELSE IF 1000 * Covariance < -Variance THEN "Falling"
  ELSE "Flat"
-------------------------------------------------------------------------------
(* Properties *)

\* The window holds exactly the latest samples, no more than WindowSamples of
\* them and none older than MaxAge, however many grow old between two calls:
\* an estimate is never made of what happened before a long silence, and never
\* of fewer samples than there are (TrendEstimator::add_sample).
WindowIsRecent ==
  LET recent == {i \in DOMAIN added : i > Len(added) - WindowSamples /\ added[i].t + MaxAge >= Now}
      n      == Cardinality(recent)
  IN  samples = [i \in 1..n |-> added[Len(added) - n + i]]

\* The gain from sample i to a later sample j, and what a byte per second would gain.
Gain(i, j)  == 1000 * (samples[j].committed - samples[i].committed)
Lapse(i, j) == samples[j].t - samples[i].t

\* The direction is borne out by the samples: a rise by some pair of them that
\* rose faster than a byte per second, a fall by a pair that fell, and if all
\* the pairs agree, the direction is theirs; samples that share a timestamp say
\* nothing (TrendEstimator::estimate, in exact numbers).
DirectionIsBorneOut ==
  LET pairs == {p \in (DOMAIN samples) \X (DOMAIN samples) : Lapse(p[1], p[2]) > 0}
      rose  == {p \in pairs : Gain(p[1], p[2]) > Lapse(p[1], p[2])}
      fell  == {p \in pairs : Gain(p[1], p[2]) < -Lapse(p[1], p[2])}
  IN  /\ Direction = "Rising" => rose # {}
      /\ Direction = "Falling" => fell # {}
      /\ pairs # {} /\ rose = pairs => Direction = "Rising"
      /\ pairs # {} /\ fell = pairs => Direction = "Falling"
===============================================================================
