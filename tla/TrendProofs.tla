------------------------------ MODULE TrendProofs ------------------------------
(***************************************************************************)
(* The window of TrendWindow and the direction estimated from it, for      *)
(* every window size and age, whatever the bytes and the times between two *)
(* samples.  The direction rests on Chebyshev's inequality for sums: rows  *)
(* that move the same way over every two indices have a sum of products    *)
(* that is not below the product of their sums over n.                     *)
(***************************************************************************)
EXTENDS TrendWindow, SequenceTheorems, FiniteSetTheorems, WellFoundedInduction, TLAPS

\* A set of numbers that is not empty has a least one.
LEMMA LeastNumber ==
  ASSUME NEW T \in SUBSET Nat, T # {}
  PROVE  \E n \in T : \A m \in T : n <= m
<1>1. PICK n \in T : \A m \in T : <<m, n>> \notin OpToRel(<, Nat)
  BY WFMin, NatLessThanWellFounded
<1>2. \A m \in T : ~(m < n)
  BY <1>1 DEF OpToRel
<1>3. QED  BY <1>2

Samples == [t : Nat, committed : Nat]

Ordered(window) == \A i, j \in 1..Len(window) : i <= j => window[i].t <= window[j].t

\* What FreshFrom takes away is exactly what is older than the cutoff.
LEMMA FreshFromIs ==
  ASSUME NEW window \in Seq(Samples), NEW cutoff \in Nat, Ordered(window)
  PROVE  \E n \in 0..Len(window) :
           /\ FreshFrom(window, cutoff) = SubSeq(window, n + 1, Len(window))
           /\ \A i \in 1..Len(window) : window[i].t < cutoff <=> i <= n
<1> DEFINE Old(n) == /\ \A i \in 1..n : window[i].t < cutoff
                     /\ n < Len(window) => window[n + 1].t >= cutoff
           ends == {n \in 0..Len(window) : n < Len(window) => window[n + 1].t >= cutoff}
<1>1. Len(window) \in Nat /\ \A i \in 1..Len(window) : window[i].t \in Nat
  <2>1. \A i \in 1..Len(window) : window[i] \in Samples
    BY ElementOfSeq
  <2>2. QED  BY <2>1, LenProperties DEF Samples
<1>2. \E n \in 0..Len(window) : Old(n)
  <2>1. ends \in SUBSET Nat /\ Len(window) \in ends
    BY <1>1
  <2>2. PICK n \in ends : \A m \in ends : n <= m
    BY <2>1, LeastNumber
  <2>3. ASSUME NEW i \in 1..n  PROVE window[i].t < cutoff
    <3>1. i - 1 \in 0..Len(window) /\ i - 1 < Len(window) /\ i - 1 \notin ends /\ i \in 1..Len(window)
      BY <1>1, <2>2
    <3>2. ~(window[(i - 1) + 1].t >= cutoff)
      BY <3>1
    <3>3. (i - 1) + 1 = i
      OBVIOUS
    <3>4. QED  BY <1>1, <3>1, <3>2, <3>3
  <2>4. QED  BY <2>2, <2>3
<1>3. PICK n \in 0..Len(window) : Old(n) /\ FreshFrom(window, cutoff) = SubSeq(window, n + 1, Len(window))
  BY <1>2 DEF FreshFrom
<1>4. ASSUME NEW i \in 1..Len(window)  PROVE window[i].t < cutoff <=> i <= n
  <2>1. CASE i <= n
    BY <1>3, <2>1
  <2>2. CASE ~(i <= n)
    <3>1. n + 1 \in 1..Len(window) /\ n < Len(window) /\ n + 1 <= i
      BY <1>1, <2>2
    <3>2. window[n + 1].t >= cutoff /\ window[n + 1].t <= window[i].t
      BY <1>3, <3>1 DEF Ordered
    <3>3. QED  BY <1>1, <2>2, <3>1, <3>2
  <2>3. QED  BY <2>1, <2>2
<1>5. QED  BY <1>3, <1>4

-------------------------------------------------------------------------------
(* Suffixes *)

Drop(q, k) == SubSeq(q, k + 1, Len(q))

LEMMA DropIs ==
  ASSUME NEW S, NEW q \in Seq(S), NEW k \in 0..Len(q)
  PROVE  /\ Len(q) \in Nat /\ Drop(q, k) \in Seq(S) /\ Len(Drop(q, k)) = Len(q) - k
         /\ \A i \in 1..(Len(q) - k) : Drop(q, k)[i] = q[k + i]
<1>1. Len(q) \in Nat /\ \A i \in (k + 1)..Len(q) : q[i] \in S
  BY ElementOfSeq, LenProperties
<1>2. /\ Drop(q, k) \in Seq(S)
      /\ Len(Drop(q, k)) = IF k + 1 <= Len(q) THEN Len(q) - (k + 1) + 1 ELSE 0
      /\ \A i \in 1..(Len(q) - (k + 1) + 1) : Drop(q, k)[i] = q[(k + 1) + i - 1]
  BY <1>1, SubSeqProperties DEF Drop
<1>3. Len(Drop(q, k)) = Len(q) - k
  BY <1>1, <1>2
<1>4. ASSUME NEW i \in 1..(Len(q) - k)  PROVE Drop(q, k)[i] = q[k + i]
  <2>1. i \in 1..(Len(q) - (k + 1) + 1) /\ (k + 1) + i - 1 = k + i
    BY <1>1
  <2>2. QED  BY <1>2, <2>1
<1>5. QED  BY <1>1, <1>2, <1>3, <1>4

LEMMA DropTwice ==
  ASSUME NEW S, NEW q \in Seq(S), NEW k \in 0..Len(q), NEW n \in 0..(Len(q) - k)
  PROVE  Drop(Drop(q, k), n) = Drop(q, k + n)
<1>1. Len(q) \in Nat /\ k + n \in 0..Len(q) /\ n \in 0..Len(Drop(q, k)) /\ Drop(q, k) \in Seq(S)
  BY DropIs
<1>2. /\ Drop(Drop(q, k), n) \in Seq(S) /\ Len(Drop(Drop(q, k), n)) = Len(q) - k - n
      /\ \A i \in 1..(Len(q) - k - n) : Drop(Drop(q, k), n)[i] = Drop(q, k)[n + i]
  <2> DEFINE rest == Drop(q, k)
  <2>1. rest \in Seq(S) /\ n \in 0..Len(rest) /\ Len(rest) = Len(q) - k
    BY <1>1, DropIs
  <2> HIDE DEF rest
  <2>2. /\ Drop(rest, n) \in Seq(S) /\ Len(Drop(rest, n)) = Len(rest) - n
        /\ \A i \in 1..(Len(rest) - n) : Drop(rest, n)[i] = rest[n + i]
    BY <2>1, DropIs
  <2>3. /\ Drop(rest, n) \in Seq(S) /\ Len(Drop(rest, n)) = Len(q) - k - n
        /\ \A i \in 1..(Len(q) - k - n) : Drop(rest, n)[i] = rest[n + i]
    BY <2>1, <2>2
  <2>4. QED  BY <2>3 DEF rest
<1>3. /\ Drop(q, k + n) \in Seq(S) /\ Len(Drop(q, k + n)) = Len(q) - k - n
      /\ \A i \in 1..(Len(q) - k - n) : Drop(q, k + n)[i] = q[k + n + i]
  <2>1. Len(q) - (k + n) = Len(q) - k - n
    BY <1>1
  <2>2. QED  BY <1>1, <2>1, DropIs
<1>4. ASSUME NEW i \in 1..(Len(q) - k - n)  PROVE Drop(q, k)[n + i] = q[k + n + i]
  <2>1. n + i \in 1..(Len(q) - k) /\ k + (n + i) = k + n + i
    BY <1>1
  <2>2. QED  BY <2>1, DropIs
<1>5. QED  BY <1>2, <1>3, <1>4, SeqEqual

LEMMA DropOfLonger ==
  ASSUME NEW S, NEW q \in Seq(S), NEW e \in S, NEW k \in 0..Len(q)
  PROVE  Append(Drop(q, k), e) = Drop(Append(q, e), k)
<1>1. Len(q) \in Nat /\ Drop(q, k) \in Seq(S) /\ Len(Drop(q, k)) = Len(q) - k
  BY DropIs
<1>2. /\ Append(q, e) \in Seq(S) /\ Len(Append(q, e)) = Len(q) + 1 /\ k \in 0..Len(Append(q, e))
      /\ \A i \in 1..Len(q) : Append(q, e)[i] = q[i]
      /\ Append(q, e)[Len(q) + 1] = e
  BY <1>1, AppendProperties
<1>3. /\ Append(Drop(q, k), e) \in Seq(S) /\ Len(Append(Drop(q, k), e)) = Len(q) - k + 1
      /\ \A i \in 1..(Len(q) - k) : Append(Drop(q, k), e)[i] = Drop(q, k)[i]
      /\ Append(Drop(q, k), e)[Len(q) - k + 1] = e
  BY <1>1, AppendProperties
<1>4. /\ Drop(Append(q, e), k) \in Seq(S) /\ Len(Drop(Append(q, e), k)) = Len(q) + 1 - k
      /\ \A i \in 1..(Len(q) + 1 - k) : Drop(Append(q, e), k)[i] = Append(q, e)[k + i]
  <2> DEFINE longer == Append(q, e)
  <2>1. longer \in Seq(S) /\ k \in 0..Len(longer) /\ Len(longer) = Len(q) + 1
    BY <1>2
  <2> HIDE DEF longer
  <2>2. /\ Drop(longer, k) \in Seq(S) /\ Len(Drop(longer, k)) = Len(longer) - k
        /\ \A i \in 1..(Len(longer) - k) : Drop(longer, k)[i] = longer[k + i]
    BY <2>1, DropIs
  <2>3. /\ Drop(longer, k) \in Seq(S) /\ Len(Drop(longer, k)) = Len(q) + 1 - k
        /\ \A i \in 1..(Len(q) + 1 - k) : Drop(longer, k)[i] = longer[k + i]
    BY <2>1, <2>2
  <2>4. QED  BY <2>3 DEF longer
<1>5. ASSUME NEW i \in 1..(Len(q) - k + 1)
      PROVE  Append(Drop(q, k), e)[i] = Drop(Append(q, e), k)[i]
  <2>1. Drop(Append(q, e), k)[i] = Append(q, e)[k + i]
    <3>1. i \in 1..(Len(q) + 1 - k)
      BY <1>1
    <3>2. QED  BY <1>4, <3>1
  <2>2. CASE i <= Len(q) - k
    <3>1. i \in 1..(Len(q) - k) /\ k + i \in 1..Len(q)
      BY <1>1, <2>2
    <3>2. QED  BY <1>2, <1>3, <2>1, <3>1, DropIs
  <2>3. CASE i = Len(q) - k + 1
    <3>1. k + i = Len(q) + 1
      BY <1>1, <2>3
    <3>2. QED  BY <1>2, <1>3, <2>1, <2>3, <3>1
  <2>4. QED  BY <1>1, <2>2, <2>3
<1>6. QED  BY <1>1, <1>3, <1>4, <1>5, SeqEqual

-------------------------------------------------------------------------------
(* The window *)

\* The samples an estimate is to be made of.
Recent(i) == i > Len(added) - WindowSamples /\ added[i].t + MaxAge >= Now

\* WindowIsRecent made inductive: time does not run backwards, so the recent
\* samples are a suffix of all samples, and the window is that suffix.
WindowInv ==
  /\ added \in Seq(Samples) /\ Ordered(added)
  /\ \E k \in 0..Len(added) : /\ samples = Drop(added, k)
                             /\ \A i \in 1..Len(added) : Recent(i) <=> i > k

LEMMA InvSuffices == WindowInv => WindowIsRecent
<1> SUFFICES ASSUME WindowInv PROVE WindowIsRecent
  OBVIOUS
<1>1. PICK k \in 0..Len(added) : /\ samples = Drop(added, k)
                                /\ \A i \in 1..Len(added) : Recent(i) <=> i > k
  BY DEF WindowInv
<1> DEFINE recent == {i \in DOMAIN added : i > Len(added) - WindowSamples /\ added[i].t + MaxAge >= Now}
           n == Len(added) - k
<1>2. added \in Seq(Samples) /\ Len(added) \in Nat /\ DOMAIN added = 1..Len(added)
  BY LenProperties DEF WindowInv
<1>3. recent = (k + 1)..Len(added)
  BY <1>1, <1>2 DEF Recent
<1>4. Cardinality(recent) = n
  <2>1. k + 1 \in Int /\ Len(added) \in Int
    BY <1>2
  <2>2. Cardinality((k + 1)..Len(added)) = IF k + 1 > Len(added) THEN 0 ELSE Len(added) - (k + 1) + 1
    BY <2>1, FS_Interval
  <2>3. ASSUME NEW l \in Nat, NEW m \in 0..l  PROVE (IF m + 1 > l THEN 0 ELSE l - (m + 1) + 1) = l - m
    OBVIOUS
  <2>4. QED  BY <1>2, <1>3, <2>2, <2>3
<1>5. /\ samples \in Seq(Samples) /\ Len(samples) = n
      /\ \A i \in 1..n : samples[i] = added[k + i]
  BY <1>1, <1>2, DropIs
<1>6. \A i \in 1..n : Len(added) - n + i = k + i
  BY <1>2
<1>7. samples = [i \in 1..n |-> added[Len(added) - n + i]]
  <2>1. samples = [i \in 1..n |-> samples[i]]
    BY <1>5, LenProperties
  <2>2. \A i \in 1..n : samples[i] = added[Len(added) - n + i]
    BY <1>5, <1>6
  <2>3. QED  BY <2>1, <2>2
<1> HIDE DEF recent
<1>8. samples = [i \in 1..Cardinality(recent) |-> added[Len(added) - Cardinality(recent) + i]]
  BY <1>4, <1>7
<1>9. QED  BY <1>8 DEF WindowIsRecent, recent

LEMMA EmptyWindow == ASSUME samples = <<>>, added = <<>>  PROVE WindowInv
<1>1. added \in Seq(Samples) /\ Len(added) = 0
  BY EmptySeq
<1>2. samples = Drop(added, 0)
  BY <1>1, SubSeqEmpty DEF Drop
<1>3. QED  BY <1>1, <1>2 DEF WindowInv, Ordered

\* Of l + 1 samples that are not all recent, e more do not fit a window of w.
LEMMA ExcessIs ==
  ASSUME NEW l \in Nat, NEW s \in 0..l, NEW w \in Nat \ {0}, NEW e \in Int,
         e = IF l + 1 - s > w THEN l + 1 - s - w ELSE 0
  PROVE  /\ e \in 0..(l + 1 - s) /\ s + e \in 0..l
         /\ s + e = IF s > l + 1 - w THEN s ELSE l + 1 - w
OBVIOUS

\* Of the l + 1 samples the last l + 1 - (s + e) stay.
LEMMA StaysInRange ==
  ASSUME NEW l \in Nat, NEW s \in 0..l, NEW e \in 0..(l + 1 - s), s + e \in 0..l
  PROVE  s \in 0..(l + 1) /\ s + e \in 0..(l + 1)
OBVIOUS

LEMMA AboveBoth ==
  ASSUME NEW i \in Int, NEW a \in Int, NEW b \in Int
  PROVE  i > (IF a > b THEN a ELSE b) <=> i > a /\ i > b
OBVIOUS

LEMMA AddStep ==
  ASSUME WindowInv, NEW c \in Bytes, NEW dt \in Paces, AddSample(c, dt)
  PROVE  WindowInv'
<1>1. PICK k \in 0..Len(added) : /\ samples = Drop(added, k)
                                /\ \A i \in 1..Len(added) : Recent(i) <=> i > k
  BY DEF WindowInv
<1>2. /\ added \in Seq(Samples) /\ Len(added) \in Nat /\ c \in Nat /\ dt \in Nat
      /\ WindowSamples \in Nat \ {0} /\ MaxAge \in Nat
      /\ \A i \in 1..Len(added) : added[i] \in Samples /\ added[i].t \in Nat
  <2>1. \A i \in 1..Len(added) : added[i] \in Samples
    BY ElementOfSeq DEF WindowInv
  <2>2. QED  BY <2>1, TrendAssumption, LenProperties DEF WindowInv, Samples
\* The sample, which is not older than any other.
<1> DEFINE time   == Now + dt
           limit  == IF MaxAge > time THEN 0 ELSE time - MaxAge
           sample == [t |-> time, committed |-> c]
<1>3. PICK t \in Nat, cutoff \in Nat, new \in Samples :
        /\ t = time /\ cutoff = limit /\ new = sample /\ Now \in Nat /\ Now <= t
        /\ \A i \in 1..Len(added) : added[i].t <= Now
  <2>1. Now \in Nat /\ \A i \in 1..Len(added) : added[i].t <= Now
    <3>1. CASE added = <<>>
      BY <3>1 DEF Now
    <3>2. CASE added # <<>>
      <4>1. Len(added) \in 1..Len(added) /\ Now = added[Len(added)].t
        BY <1>2, <3>2, EmptySeq DEF Now
      <4>2. QED  BY <1>2, <4>1 DEF WindowInv, Ordered
    <3>3. QED  BY <3>1, <3>2
  <2>2. time \in Nat /\ limit \in Nat /\ Now <= time
    BY <1>2, <2>1
  <2>3. sample \in Samples
    BY <1>2, <2>2 DEF Samples
  <2> HIDE DEF time, limit, sample
  <2>4. QED  BY <2>1, <2>2, <2>3
<1>4. new.t = t /\ \A x \in Nat : x >= cutoff <=> x + MaxAge >= t
  BY <1>2, <1>3
<1> DEFINE all == Append(FreshFrom(samples, cutoff), new)
           excess == IF Len(all) > WindowSamples THEN Len(all) - WindowSamples ELSE 0
<1>5. added' = Append(added, new) /\ samples' = Drop(all, excess)
  BY <1>3 DEF AddSample, Drop
<1>6. /\ added' \in Seq(Samples) /\ Len(added') = Len(added) + 1
      /\ \A i \in 1..Len(added) : added'[i] = added[i]
      /\ added'[Len(added) + 1] = new /\ Now' = t
  <2>1. /\ added' \in Seq(Samples) /\ Len(added') = Len(added) + 1
        /\ \A i \in 1..Len(added) : added'[i] = added[i]
        /\ added'[Len(added) + 1] = new
    BY <1>2, <1>5, AppendProperties
  <2>2. added' # <<>>
    BY <1>2, <2>1, EmptySeq
  <2>3. QED  BY <1>4, <2>1, <2>2 DEF Now
<1>7. Ordered(added')
  <2> SUFFICES ASSUME NEW i \in 1..(Len(added) + 1), NEW j \in 1..(Len(added) + 1), i <= j
               PROVE  added'[i].t <= added'[j].t
    BY <1>6 DEF Ordered
  <2>1. CASE j \in 1..Len(added)
    <3>1. i \in 1..Len(added)
      BY <1>2, <2>1
    <3>2. added[i].t <= added[j].t
      BY <2>1, <3>1 DEF WindowInv, Ordered
    <3>3. QED  BY <1>6, <2>1, <3>1, <3>2
  <2>2. CASE j = Len(added) + 1
    <3>1. CASE i = j
      BY <1>3, <1>4, <1>6, <2>2, <3>1
    <3>2. CASE i # j
      <4>1. i \in 1..Len(added)
        BY <1>2, <2>2, <3>2
      <4>2. added[i].t \in Nat /\ added[i].t <= Now /\ Now <= t
        BY <1>2, <1>3, <4>1
      <4>3. Now \in Nat
        <5>1. Len(added) \in 1..Len(added) /\ added # <<>>
          BY <1>2, <4>1, EmptySeq
        <5>2. QED  BY <1>2, <5>1 DEF Now
      <4>4. QED  BY <1>4, <1>6, <2>2, <4>1, <4>2, <4>3
    <3>3. QED  BY <3>1, <3>2
  <2>3. QED  BY <1>2, <2>1, <2>2
\* What grew old leaves in front, and then what does not fit.
<1>8. /\ samples \in Seq(Samples) /\ Len(samples) = Len(added) - k /\ Ordered(samples)
      /\ \A i \in 1..(Len(added) - k) : samples[i] = added[k + i]
  <2>1. /\ samples \in Seq(Samples) /\ Len(samples) = Len(added) - k
        /\ \A i \in 1..(Len(added) - k) : samples[i] = added[k + i]
    BY <1>1, <1>2, DropIs
  <2>2. ASSUME NEW i \in 1..(Len(added) - k), NEW j \in 1..(Len(added) - k), i <= j
        PROVE  samples[i].t <= samples[j].t
    <3>1. k + i \in 1..Len(added) /\ k + j \in 1..Len(added) /\ k + i <= k + j
      BY <1>2, <2>2
    <3>2. added[k + i].t <= added[k + j].t
      BY <3>1 DEF WindowInv, Ordered
    <3>3. QED  BY <2>1, <3>2
  <2>3. QED  BY <2>1, <2>2 DEF Ordered
<1>9. PICK n \in 0..(Len(added) - k) :
        /\ FreshFrom(samples, cutoff) = Drop(samples, n)
        /\ \A i \in 1..(Len(added) - k) : samples[i].t < cutoff <=> i <= n
  BY <1>8, FreshFromIs DEF Drop
<1>10. /\ k + n \in 0..Len(added) /\ all = Drop(added', k + n) /\ Len(all) = Len(added) + 1 - (k + n)
  <2>1. k + n \in 0..Len(added)
    BY <1>2
  <2>2. FreshFrom(samples, cutoff) = Drop(added, k + n)
    BY <1>1, <1>2, <1>9, DropTwice
  <2>3. all = Drop(added', k + n)
    BY <1>2, <1>5, <2>1, <2>2, DropOfLonger
  <2>4. k + n \in 0..Len(added')
    BY <1>2, <1>6, <2>1
  <2>5. Len(all) = Len(added') - (k + n)
    BY <1>6, <2>3, <2>4, DropIs
  <2>6. QED  BY <1>6, <2>1, <2>3, <2>5
<1> HIDE DEF all
<1>11. /\ excess \in 0..(Len(added) + 1 - (k + n)) /\ k + n + excess \in 0..Len(added)
       /\ k + n + excess = IF k + n > Len(added) + 1 - WindowSamples THEN k + n ELSE Len(added) + 1 - WindowSamples
  <2>1. k + n \in 0..Len(added) /\ Len(added) \in Nat /\ WindowSamples \in Nat \ {0}
    BY <1>2, <1>10
  <2>2. excess = IF Len(all) > WindowSamples THEN Len(all) - WindowSamples ELSE 0
    OBVIOUS
  <2> HIDE DEF excess
  <2>3. Len(all) = Len(added) + 1 - (k + n)
    BY <1>10
  <2>4. excess = IF Len(added) + 1 - (k + n) > WindowSamples THEN Len(added) + 1 - (k + n) - WindowSamples ELSE 0
    BY <2>1, <2>2, <2>3
  <2>5. PICK e \in Int : e = excess
    <3>1. Len(added) + 1 - (k + n) \in Int /\ Len(added) + 1 - (k + n) - WindowSamples \in Int
      BY <2>1
    <3>2. CASE Len(added) + 1 - (k + n) > WindowSamples
      BY <2>4, <3>1, <3>2
    <3>3. CASE ~(Len(added) + 1 - (k + n) > WindowSamples)
      BY <2>4, <3>3
    <3>4. QED  BY <3>2, <3>3
  <2>6. PICK s \in 0..Len(added) : s = k + n
    BY <2>1
  <2>7. e = IF Len(added) + 1 - s > WindowSamples THEN Len(added) + 1 - s - WindowSamples ELSE 0
    BY <2>4, <2>5, <2>6
  <2>8. /\ e \in 0..(Len(added) + 1 - s) /\ s + e \in 0..Len(added)
        /\ s + e = IF s > Len(added) + 1 - WindowSamples THEN s ELSE Len(added) + 1 - WindowSamples
    BY <2>1, <2>7, ExcessIs
  <2>9. QED  BY <2>5, <2>6, <2>8
<1> HIDE DEF excess
<1>12. samples' = Drop(added', k + n + excess) /\ k + n + excess \in 0..Len(added')
  <2>1. k + n \in 0..Len(added') /\ excess \in 0..(Len(added') - (k + n)) /\ k + n + excess \in 0..Len(added')
    <3>1. Len(added) \in Nat /\ k + n \in 0..Len(added)
      BY <1>2, <1>10
    <3>2. k + n \in 0..(Len(added) + 1) /\ k + n + excess \in 0..(Len(added) + 1)
      BY <1>11, <3>1, StaysInRange
    <3>3. QED  BY <1>6, <1>11, <3>2
  <2>2. QED  BY <1>5, <1>6, <1>10, <2>1, DropTwice
\* So it is the recent samples that stay.
<1>13. ASSUME NEW i \in 1..(Len(added) + 1)
       PROVE  Recent(i)' <=> i > k + n + excess
  <2>1. Recent(i)' <=> i > Len(added) + 1 - WindowSamples /\ added'[i].t + MaxAge >= t
    <3>1. added' # <<>>
      BY <1>2, <1>6, EmptySeq
    <3>2. Len(added') = Len(added) + 1 /\ added'[Len(added')].t = t
      BY <1>4, <1>6
    <3>3. Recent(i)' <=> i > Len(added') - WindowSamples /\ added'[i].t + MaxAge >= added'[Len(added')].t
      BY <3>1 DEF Recent, Now
    <3>4. QED  BY <1>2, <3>2, <3>3
  <2>2. i > k + n + excess <=> i > k + n /\ i > Len(added) + 1 - WindowSamples
    <3>1. i \in Int /\ k + n \in Int /\ Len(added) + 1 - WindowSamples \in Int
      BY <1>2
    <3>2. QED  BY <1>11, <3>1, AboveBoth
  <2>3. CASE i = Len(added) + 1
    <3>1. added'[i].t + MaxAge >= t
      BY <1>2, <1>3, <1>4, <1>6, <2>3
    <3>2. i > k + n
      BY <1>2, <1>10, <2>3
    <3>3. QED  BY <2>1, <2>2, <3>1, <3>2
  <2>4. CASE i \in 1..Len(added) /\ i <= k
    <3>1. added'[i].t = added[i].t /\ added[i].t \in Nat /\ ~Recent(i)
      BY <1>1, <1>2, <1>6, <2>4
    <3>2. i <= Len(added) - WindowSamples \/ added[i].t + MaxAge < Now
      BY <1>2, <1>3, <3>1 DEF Recent
    <3>3. ~(i > Len(added) + 1 - WindowSamples /\ added'[i].t + MaxAge >= t)
      <4>1. CASE i <= Len(added) - WindowSamples
        BY <1>2, <4>1
      <4>2. CASE added[i].t + MaxAge < Now
        BY <1>2, <1>3, <3>1, <4>2
      <4>3. QED  BY <3>2, <4>1, <4>2
    <3>4. ~(i > k + n)
      BY <1>2, <2>4
    <3>5. QED  BY <2>1, <2>2, <3>3, <3>4
  <2>5. CASE i \in 1..Len(added) /\ i > k
    <3>1. i - k \in 1..(Len(added) - k) /\ k + (i - k) = i
      BY <1>2, <2>5
    <3>2. added[i].t < cutoff <=> i - k <= n
      BY <1>8, <1>9, <3>1
    <3>3. added'[i].t = added[i].t /\ added[i].t \in Nat
      BY <1>2, <1>6, <2>5
    <3>4. added[i].t >= cutoff <=> i > k + n
      BY <3>2, <3>3
    <3>5. added'[i].t + MaxAge >= t <=> i > k + n
      BY <1>4, <3>3, <3>4
    <3>6. QED  BY <2>1, <2>2, <3>5
  <2>6. QED  BY <1>2, <2>3, <2>4, <2>5
<1>14. QED  BY <1>6, <1>7, <1>12, <1>13 DEF WindowInv

\* The window is at all times the suffix of recent samples (add_sample, reset).
THEOREM WindowInvariance == Spec => []WindowInv
<1>1. Init => WindowInv
  BY EmptyWindow DEF Init
<1>2. WindowInv /\ [Next]_vars => WindowInv'
  <2> SUFFICES ASSUME WindowInv, [Next]_vars PROVE WindowInv'
    OBVIOUS
  <2>1. CASE Reset
    <3>1. samples' = <<>> /\ added' = <<>>
      BY <2>1 DEF Reset
    <3>2. added' \in Seq(Samples) /\ Len(added') = 0
      BY <3>1, EmptySeq
    <3>3. samples' = Drop(added', 0)
      BY <3>1, <3>2, SubSeqEmpty DEF Drop
    <3>4. QED  BY <3>2, <3>3 DEF WindowInv, Ordered
  <2>2. CASE UNCHANGED vars
    BY <2>2 DEF vars, WindowInv, Recent, Now
  <2>3. QED  BY <2>1, <2>2, AddStep DEF Next
<1>3. QED  BY <1>1, <1>2, PTL DEF Spec

\* Before an estimate, the window is what came in lately and no more: nothing
\* from before a long silence, and nothing that is missing (add_sample, reset).
THEOREM WindowIsTheRecentPast == Spec => []WindowIsRecent
BY WindowInvariance, InvSuffices, PTL

-------------------------------------------------------------------------------
(* Sums and sums of products, as estimate adds them up: induction over the   *)
(* rounds of a loop, by way of the first round that would be an exception.   *)

\* Induction up to n: if some number up to n were not in T, the least such
\* number would have its predecessor in T.
LEMMA UpTo ==
  ASSUME NEW n \in Nat, NEW T, 0 \in T, \A k \in 0..n : k < n /\ k \in T => k + 1 \in T
  PROVE  \A k \in 0..n : k \in T
<1> SUFFICES ASSUME NEW j \in 0..n, j \notin T  PROVE FALSE
  OBVIOUS
<1> DEFINE missing == {k \in 0..n : k \notin T}
<1>1. PICK m \in missing : \A k \in missing : m <= k
  <2>1. missing \in SUBSET Nat /\ missing # {}  OBVIOUS
  <2> HIDE DEF missing
  <2> QED  BY <2>1, LeastNumber
<1>2. m \in Nat /\ m # 0 /\ m <= n
  OBVIOUS
<1>3. m - 1 \in 0..n /\ m - 1 < n /\ m - 1 + 1 = m
  BY <1>2
<1>4. m - 1 \in T
  BY <1>1, <1>2, <1>3
<1> QED  BY <1>3, <1>4

Rows(n) == [1..n -> Int]

LEMMA RowLength ==
  ASSUME NEW n \in Nat, NEW f \in Rows(n)
  PROVE  f \in Seq(Int) /\ Len(f) = n /\ DOMAIN f = 1..n
<1>1. f \in Seq(Int)  BY DEF Rows
<1> QED  BY <1>1, LenProperties DEF Rows

\* The loop that adds up has a result: its first m rounds have one, for every m.
LEMMA SumsExist ==
  ASSUME NEW n \in Nat, NEW f \in Rows(n)
  PROVE  Sums(f) = [k \in 0..n |-> IF k = 0 THEN 0 ELSE Sums(f)[k - 1] + f[k]]
<1> DEFINE Is(g, m) == g = [k \in 0..m |-> IF k = 0 THEN 0 ELSE g[k - 1] + f[k]]
           T == {m \in 0..n : \E g : Is(g, m)}
<1>1. 0 \in T
  <2> DEFINE g == [k \in 0..0 |-> 0]
  <2>1. Is(g, 0)  OBVIOUS
  <2> HIDE DEF g, Is
  <2> QED  BY <2>1
<1>2. ASSUME NEW m \in 0..n, m < n, m \in T  PROVE m + 1 \in T
  <2>1. PICK g : Is(g, m)  BY <1>2
  <2> DEFINE h == [k \in 0..(m + 1) |-> IF k = 0 THEN 0 ELSE g[k - 1] + f[k]]
  <2>2. \A k \in 0..m : h[k] = g[k]  BY <2>1
  <2>3. \A k \in 0..(m + 1) : k # 0 => h[k - 1] = g[k - 1]
    <3> SUFFICES ASSUME NEW k \in 0..(m + 1), k # 0  PROVE h[k - 1] = g[k - 1]
      OBVIOUS
    <3>1. k - 1 \in 0..m  OBVIOUS
    <3> QED  BY <2>2, <3>1
  <2>4. \A k \in 0..(m + 1) : h[k] = IF k = 0 THEN 0 ELSE h[k - 1] + f[k]
    BY <2>3
  <2>5. h = [k \in 0..(m + 1) |-> h[k]]  OBVIOUS
  <2> HIDE DEF h
  <2>6. Is(h, m + 1)  BY <2>4, <2>5
  <2>7. m + 1 \in 0..n  BY <1>2
  <2> QED  BY <2>6, <2>7
<1>3. n \in T
  <2>1. \A k \in 0..n : k < n /\ k \in T => k + 1 \in T  BY <1>2
  <2> HIDE DEF T
  <2>2. \A k \in 0..n : k \in T  BY <1>1, <2>1, UpTo
  <2> QED  BY <2>2
<1>4. Sums(f) = CHOOSE g : Is(g, n)
  BY RowLength DEF Sums
<1>5. \E g : Is(g, n)
  BY <1>3
<1> HIDE DEF Is
<1>6. Is(Sums(f), n)
  BY <1>4, <1>5
<1> QED  BY <1>6 DEF Is

LEMMA SumsAre ==
  ASSUME NEW n \in Nat, NEW f \in Rows(n)
  PROVE  /\ Sums(f)[0] = 0
         /\ \A k \in 0..n : Sums(f)[k] \in Int
         /\ \A k \in 0..n : k < n => k + 1 \in 1..n /\ f[k + 1] \in Int /\ Sums(f)[k + 1] = Sums(f)[k] + f[k + 1]
<1> DEFINE s == Sums(f)
           T == {k \in 0..n : s[k] \in Int}
<1>1. s = [k \in 0..n |-> IF k = 0 THEN 0 ELSE s[k - 1] + f[k]]
  BY SumsExist
<1> HIDE DEF s
<1>2. s[0] = 0
  BY <1>1
<1>3. ASSUME NEW k \in 0..n, k < n
      PROVE  k + 1 \in 1..n /\ f[k + 1] \in Int /\ s[k + 1] = s[k] + f[k + 1] /\ k + 1 \in 0..n
  <2>1. k + 1 \in 0..n /\ k + 1 # 0 /\ k + 1 - 1 = k /\ k + 1 \in 1..n  BY <1>3
  <2>2. s[k + 1] = s[k] + f[k + 1]  BY <1>1, <2>1
  <2> QED  BY <2>1, <2>2 DEF Rows
<1>4. \A k \in 0..n : k \in T
  <2>1. 0 \in T  BY <1>2
  <2>2. \A k \in 0..n : k < n /\ k \in T => k + 1 \in T  BY <1>3
  <2> HIDE DEF T
  <2> QED  BY <2>1, <2>2, UpTo
<1> QED  BY <1>2, <1>3, <1>4 DEF s

LEMMA LinearTerm ==
  ASSUME NEW a \in Int, NEW b \in Int, NEW c \in Int, NEW e \in Int, NEW k \in Nat,
         NEW P \in Int, NEW F \in Int, NEW G \in Int, NEW x \in Int, NEW y \in Int, NEW z \in Int
  PROVE  (a * P + b * F + c * G + k * e) + (a * x + b * y + c * z + e)
           = a * (P + x) + b * (F + y) + c * (G + z) + (k + 1) * e
OBVIOUS

\* Sums of what is linear in the terms of other sums.
Linear(h, p, f, g, a, b, c, e, n) == \A i \in 1..n : h[i] = a * p[i] + b * f[i] + c * g[i] + e
SumsLinear(h, p, f, g, a, b, c, e, n) ==
  \A m \in 0..n : Sums(h)[m] = a * Sums(p)[m] + b * Sums(f)[m] + c * Sums(g)[m] + m * e

LEMMA LinearSum ==
  ASSUME NEW n \in Nat, NEW h \in Rows(n), NEW p \in Rows(n), NEW f \in Rows(n), NEW g \in Rows(n),
         NEW a \in Int, NEW b \in Int, NEW c \in Int, NEW e \in Int, Linear(h, p, f, g, a, b, c, e, n)
  PROVE  SumsLinear(h, p, f, g, a, b, c, e, n)
<1> DEFINE T == {m \in 0..n : Sums(h)[m] = a * Sums(p)[m] + b * Sums(f)[m] + c * Sums(g)[m] + m * e}
<1>1. 0 \in T
  <2>1. Sums(h)[0] = 0 /\ Sums(p)[0] = 0 /\ Sums(f)[0] = 0 /\ Sums(g)[0] = 0  BY SumsAre
  <2> QED  BY <2>1
<1>2. ASSUME NEW k \in 0..n, k < n, k \in T  PROVE k + 1 \in T
  <2>1. PICK H, P, F, G \in Int :
           H = Sums(h)[k] /\ P = Sums(p)[k] /\ F = Sums(f)[k] /\ G = Sums(g)[k]
    BY SumsAre
  <2>2. k + 1 \in 1..n
    BY <1>2
  <2>3. PICK x, y, z \in Int : x = p[k + 1] /\ y = f[k + 1] /\ z = g[k + 1]
    BY <2>2 DEF Rows
  <2>4. /\ Sums(h)[k + 1] = H + (a * x + b * y + c * z + e)
        /\ Sums(p)[k + 1] = P + x /\ Sums(f)[k + 1] = F + y /\ Sums(g)[k + 1] = G + z
    <3>1. h[k + 1] = a * x + b * y + c * z + e  BY <2>2, <2>3 DEF Linear
    <3>2. /\ Sums(h)[k + 1] = Sums(h)[k] + h[k + 1]
          /\ Sums(p)[k + 1] = Sums(p)[k] + p[k + 1]
          /\ Sums(f)[k + 1] = Sums(f)[k] + f[k + 1]
          /\ Sums(g)[k + 1] = Sums(g)[k] + g[k + 1]
      BY <1>2, SumsAre
    <3> QED  BY <2>1, <2>3, <3>1, <3>2
  <2>5. H = a * P + b * F + c * G + k * e
    BY <1>2, <2>1
  <2>6. (a * P + b * F + c * G + k * e) + (a * x + b * y + c * z + e)
           = a * (P + x) + b * (F + y) + c * (G + z) + (k + 1) * e
    BY LinearTerm
  <2>7. Sums(h)[k + 1] = a * Sums(p)[k + 1] + b * Sums(f)[k + 1] + c * Sums(g)[k + 1] + (k + 1) * e
    BY <2>4, <2>5, <2>6
  <2> QED  BY <1>2, <2>7
<1>3. \A k \in 0..n : k < n /\ k \in T => k + 1 \in T
  BY <1>2
<1>4. \A m \in 0..n : m \in T
  <2> HIDE DEF T
  <2> QED  BY <1>1, <1>3, UpTo
<1> QED  BY <1>4 DEF SumsLinear

\* Sums of what is nowhere negative.
LEMMA PositiveSum ==
  ASSUME NEW n \in Nat, NEW h \in Rows(n), NEW l \in 0..n, \A i \in 1..l : h[i] >= 0
  PROVE  Sums(h)[l] >= 0 /\ ((\E i \in 1..l : h[i] > 0) => Sums(h)[l] > 0)
<1> DEFINE T == {m \in 0..l : Sums(h)[m] >= 0 /\ ((\E i \in 1..m : h[i] > 0) => Sums(h)[m] > 0)}
<1>1. 0 \in T
  BY SumsAre
<1>2. ASSUME NEW k \in 0..l, k < l, k \in T  PROVE k + 1 \in T
  <2>1. k \in 0..n /\ k < n  BY <1>2
  <2>2. PICK s, x \in Int : s = Sums(h)[k] /\ x = h[k + 1] /\ Sums(h)[k + 1] = s + x
    BY <2>1, SumsAre
  <2>3. x >= 0 /\ s >= 0
    <3>1. k + 1 \in 1..l  BY <1>2
    <3> QED  BY <1>2, <2>2, <3>1
  <2>4. ASSUME NEW i \in 1..(k + 1), h[i] > 0  PROVE s + x > 0
    <3>1. CASE i \in 1..k  BY <1>2, <2>2, <2>3, <2>4, <3>1
    <3>2. CASE i = k + 1  BY <2>2, <2>3, <2>4, <3>2
    <3> QED  BY <3>1, <3>2
  <2> QED  BY <1>2, <2>2, <2>3, <2>4
<1>3. \A k \in 0..l : k < l /\ k \in T => k + 1 \in T
  BY <1>2
<1>4. l \in T
  <2>1. l \in Nat /\ l \in 0..l  OBVIOUS
  <2> HIDE DEF T
  <2> QED  BY <1>1, <1>3, <2>1, UpTo
<1> QED  BY <1>4

\* Whether two rows move together: over no two indices in opposite directions,
\* and strictly so wherever the first one moves.
Together(f, d, n) == \A i, j \in 1..n : (f[j] - f[i]) * (d[j] - d[i]) >= 0
Strictly(f, d, n) == \A i, j \in 1..n : f[j] # f[i] => (f[j] - f[i]) * (d[j] - d[i]) > 0

LEMMA ChebyshevTerm ==
  ASSUME NEW k \in Nat, NEW P \in Int, NEW A \in Int, NEW B \in Int, NEW x \in Int, NEW y \in Int
  PROVE  (k + 1) * (P + x * y) - (A + x) * (B + y)
           = (k * P - A * B) + (1 * P + (-y) * A + (-x) * B + k * (x * y))
OBVIOUS

\* Chebyshev's inequality for sums, one more term at a time.
LEMMA Chebyshev ==
  ASSUME NEW n \in Nat, NEW f \in Rows(n), NEW d \in Rows(n), NEW p \in Rows(n),
         \A i \in 1..n : p[i] = f[i] * d[i], Together(f, d, n)
  PROVE  /\ n * Sums(p)[n] - Sums(f)[n] * Sums(d)[n] >= 0
         /\ Strictly(f, d, n) /\ (\E i, j \in 1..n : f[i] # f[j])
            => n * Sums(p)[n] - Sums(f)[n] * Sums(d)[n] > 0
<1> DEFINE Gap(m) == m * Sums(p)[m] - Sums(f)[m] * Sums(d)[m]
           T == {m \in 0..n : /\ Gap(m) >= 0
                              /\ Strictly(f, d, n) /\ (\E i, j \in 1..m : f[i] # f[j]) => Gap(m) > 0}
<1>1. 0 \in T
  BY SumsAre
<1>2. ASSUME NEW k \in 0..n, k < n, k \in T  PROVE k + 1 \in T
  <2>1. PICK P, A, B, x, y \in Int :
          /\ P = Sums(p)[k] /\ A = Sums(f)[k] /\ B = Sums(d)[k]
          /\ x = f[k + 1] /\ y = d[k + 1]
    BY <1>2, SumsAre
  <2>2. k + 1 \in 1..n /\ p[k + 1] = x * y
    BY <1>2, <2>1
  <2>3. Sums(p)[k + 1] = P + x * y /\ Sums(f)[k + 1] = A + x /\ Sums(d)[k + 1] = B + y
    <3>1. /\ Sums(p)[k + 1] = Sums(p)[k] + p[k + 1]
          /\ Sums(f)[k + 1] = Sums(f)[k] + f[k + 1]
          /\ Sums(d)[k + 1] = Sums(d)[k] + d[k + 1]
      BY <1>2, SumsAre
    <3> QED  BY <2>1, <2>2, <3>1
  <2> DEFINE h == [i \in 1..n |-> (f[i] - x) * (d[i] - y)]
             E == 1 * P + (-y) * A + (-x) * B + k * (x * y)
  <2>4. \A i \in 1..n : f[i] \in Int /\ d[i] \in Int
    BY DEF Rows
  <2>5. h \in Rows(n) /\ \A i \in 1..n : h[i] = (f[i] - x) * (d[i] - y)
    BY <2>4 DEF Rows
  <2> HIDE DEF h
  <2>6. \A i \in 1..n : h[i] = 1 * p[i] + (-y) * f[i] + (-x) * d[i] + x * y
    <3> SUFFICES ASSUME NEW i \in 1..n  PROVE h[i] = 1 * p[i] + (-y) * f[i] + (-x) * d[i] + x * y
      OBVIOUS
    <3>1. PICK u, v \in Int : u = f[i] /\ v = d[i]  BY <2>4
    <3>2. p[i] = u * v /\ h[i] = (u - x) * (v - y)  BY <2>5, <3>1
    <3>3. (u - x) * (v - y) = 1 * (u * v) + (-y) * u + (-x) * v + x * y  OBVIOUS
    <3> QED  BY <3>1, <3>2, <3>3
  <2>7. Sums(h)[k] = E
    <3>1. x * y \in Int /\ -x \in Int /\ -y \in Int /\ 1 \in Int  OBVIOUS
    <3>2. Sums(h)[k] = 1 * Sums(p)[k] + (-y) * Sums(f)[k] + (-x) * Sums(d)[k] + k * (x * y)
      <4>1. Linear(h, p, f, d, 1, -y, -x, x * y, n)  BY <2>6 DEF Linear
      <4>2. SumsLinear(h, p, f, d, 1, -y, -x, x * y, n)  BY <2>5, <3>1, <4>1, LinearSum
      <4> QED  BY <4>2 DEF SumsLinear
    <3> QED  BY <2>1, <3>2
  <2>8. Gap(k + 1) = Gap(k) + Sums(h)[k]
    <3>1. Gap(k + 1) = (k + 1) * (P + x * y) - (A + x) * (B + y)  BY <2>3
    <3>2. Gap(k) = k * P - A * B  BY <2>1
    <3>3. (k + 1) * (P + x * y) - (A + x) * (B + y) = (k * P - A * B) + E  BY ChebyshevTerm
    <3> QED  BY <2>7, <3>1, <3>2, <3>3
  <2>9. \A i \in 1..k : h[i] >= 0
    <3> SUFFICES ASSUME NEW i \in 1..k  PROVE h[i] >= 0
      OBVIOUS
    <3>1. i \in 1..n  BY <1>2
    <3>2. (f[i] - f[k + 1]) * (d[i] - d[k + 1]) >= 0  BY <2>2, <3>1 DEF Together
    <3> QED  BY <2>1, <2>5, <3>1, <3>2
  <2>10. Sums(h)[k] >= 0 /\ ((\E i \in 1..k : h[i] > 0) => Sums(h)[k] > 0)
    BY <2>5, <2>9, PositiveSum
  <2>11. Gap(k) \in Int /\ Sums(h)[k] \in Int
    BY <2>1, <2>7
  <2>12. Gap(k) >= 0 /\ (Strictly(f, d, n) /\ (\E i, j \in 1..k : f[i] # f[j]) => Gap(k) > 0)
    BY <1>2
  <2> HIDE DEF Gap
  <2>13. ASSUME Strictly(f, d, n), NEW i \in 1..(k + 1), NEW j \in 1..(k + 1), f[i] # f[j]
         PROVE  Gap(k + 1) > 0
    <3>1. CASE i \in 1..k /\ j \in 1..k
      BY <2>8, <2>10, <2>11, <2>12, <2>13, <3>1
    <3>2. ASSUME NEW q \in 1..k, f[q] # f[k + 1]  PROVE Gap(k + 1) > 0
      <4>1. q \in 1..n  BY <1>2
      <4>2. (f[q] - f[k + 1]) * (d[q] - d[k + 1]) > 0  BY <2>2, <2>13, <3>2, <4>1 DEF Strictly
      <4>3. h[q] > 0  BY <2>1, <2>5, <4>1, <4>2
      <4> QED  BY <2>8, <2>10, <2>11, <2>12, <4>3
    <3>3. CASE i = k + 1 \/ j = k + 1
      <4>1. \E q \in 1..k : f[q] # f[k + 1]  BY <2>13, <3>3
      <4> QED  BY <3>2, <4>1
    <3> QED  BY <3>1, <3>3
  <2>14. Gap(k + 1) >= 0
    BY <2>8, <2>10, <2>11, <2>12
  <2> QED  BY <1>2, <2>13, <2>14
<1>3. \A k \in 0..n : k < n /\ k \in T => k + 1 \in T
  BY <1>2
<1>4. n \in T
  <2>1. n \in 0..n  OBVIOUS
  <2> HIDE DEF T
  <2> QED  BY <1>1, <1>3, <2>1, UpTo
<1> QED  BY <1>4

LEMMA ProductTerm ==
  ASSUME NEW n \in Nat, NEW F \in Int, NEW G \in Int, NEW u \in Int, NEW v \in Int
  PROVE  (n * u - F) * (n * v - G) = (n * n) * (u * v) + (-(n * G)) * u + (-(n * F)) * v + F * G
OBVIOUS

LEMMA ProductTotal ==
  ASSUME NEW n \in Nat, NEW F \in Int, NEW G \in Int, NEW P \in Int
  PROVE  (n * n) * P + (-(n * G)) * F + (-(n * F)) * G + n * (F * G) = n * (n * P - F * G)
OBVIOUS

\* Sums of products of deviations, without the deviations.
LEMMA SumOfProductsIs ==
  ASSUME NEW n \in Nat, NEW f \in Rows(n), NEW g \in Rows(n), NEW p \in Rows(n),
         \A i \in 1..n : p[i] = f[i] * g[i]
  PROVE  SumOfProducts(f, g) = n * (n * Sums(p)[n] - Sums(f)[n] * Sums(g)[n])
<1>1. PICK F, G, P \in Int : F = Sums(f)[n] /\ G = Sums(g)[n] /\ P = Sums(p)[n]
  BY SumsAre
<1>2. Len(f) = n /\ DOMAIN f = 1..n /\ Len(g) = n /\ DOMAIN g = 1..n
  BY RowLength
<1>3. Total(f) = F /\ Total(g) = G
  BY <1>1, <1>2 DEF Total
<1> DEFINE q == [i \in DOMAIN f |-> Deviation(f)[i] * Deviation(g)[i]]
<1>4. \A i \in 1..n : f[i] \in Int /\ g[i] \in Int
  BY DEF Rows
<1>5. \A i \in 1..n : Deviation(f)[i] = n * f[i] - F /\ Deviation(g)[i] = n * g[i] - G
  BY <1>2, <1>3 DEF Deviation
<1>6. q \in Rows(n) /\ \A i \in 1..n : q[i] = (n * f[i] - F) * (n * g[i] - G)
  <2>1. q = [i \in 1..n |-> (n * f[i] - F) * (n * g[i] - G)]
    BY <1>2, <1>5
  <2>2. \A i \in 1..n : (n * f[i] - F) * (n * g[i] - G) \in Int
    BY <1>4
  <2> HIDE DEF q
  <2> QED  BY <2>1, <2>2 DEF Rows
<1>7. SumOfProducts(f, g) = Sums(q)[n]
  <2>1. Len(q) = n
    <3> HIDE DEF q
    <3> QED  BY <1>6, RowLength
  <2> QED  BY <2>1 DEF SumOfProducts, Total
<1> HIDE DEF q
<1>8. Linear(q, p, f, g, n * n, -(n * G), -(n * F), F * G, n)
  <2> SUFFICES ASSUME NEW i \in 1..n
               PROVE  q[i] = (n * n) * p[i] + (-(n * G)) * f[i] + (-(n * F)) * g[i] + F * G
    BY DEF Linear
  <2>1. PICK u, v \in Int : u = f[i] /\ v = g[i]  BY <1>4
  <2>2. q[i] = (n * u - F) * (n * v - G) /\ p[i] = u * v  BY <1>6, <2>1
  <2>3. (n * u - F) * (n * v - G) = (n * n) * (u * v) + (-(n * G)) * u + (-(n * F)) * v + F * G
    BY ProductTerm
  <2> QED  BY <2>1, <2>2, <2>3
<1>9. SumsLinear(q, p, f, g, n * n, -(n * G), -(n * F), F * G, n)
  <2>1. n * n \in Int /\ -(n * G) \in Int /\ -(n * F) \in Int /\ F * G \in Int  OBVIOUS
  <2> QED  BY <1>6, <1>8, <2>1, LinearSum
<1>10. Sums(q)[n] = (n * n) * P + (-(n * G)) * F + (-(n * F)) * G + n * (F * G)
  BY <1>1, <1>9 DEF SumsLinear
<1> QED  BY <1>1, <1>7, <1>10, ProductTotal

LEMMA CombinedTerm ==
  ASSUME NEW n \in Nat, NEW a \in Int, NEW b \in Int, NEW P \in Int, NEW Q \in Int, NEW F \in Int, NEW G \in Int
  PROVE  a * (n * (n * P - F * F)) + b * (n * (n * Q - F * G))
           = n * (n * (a * P + b * Q + 0 * Q + n * 0) - F * (a * F + b * G + 0 * G + n * 0))
OBVIOUS

\* Wherever f grows, what it and g grow by is worth something, if f counts a
\* and g counts b.
Worth(f, g, a, b, n) ==
  \A i, j \in 1..n : f[j] - f[i] > 0 => a * (f[j] - f[i]) + b * (g[j] - g[i]) >= 0
MoreWorth(f, g, a, b, n) ==
  \A i, j \in 1..n : f[j] - f[i] > 0 => a * (f[j] - f[i]) + b * (g[j] - g[i]) > 0
Grows(f, n) == \E i, j \in 1..n : f[j] - f[i] > 0

\* Of two sums of products of deviations, weighed against each other, the pairs
\* of indices decide.
LEMMA PairsDecide ==
  ASSUME NEW n \in Nat, NEW f \in Rows(n), NEW g \in Rows(n), NEW a \in Int, NEW b \in Int,
         Worth(f, g, a, b, n)
  PROVE  /\ a * SumOfProducts(f, f) + b * SumOfProducts(f, g) >= 0
         /\ MoreWorth(f, g, a, b, n) /\ Grows(f, n)
            => a * SumOfProducts(f, f) + b * SumOfProducts(f, g) > 0
<1> DEFINE d == [i \in 1..n |-> a * f[i] + b * g[i]]
           p == [i \in 1..n |-> f[i] * f[i]]
           q == [i \in 1..n |-> f[i] * g[i]]
           r == [i \in 1..n |-> f[i] * d[i]]
<1>1. \A i \in 1..n : f[i] \in Int /\ g[i] \in Int
  BY DEF Rows
<1>2. d \in Rows(n) /\ p \in Rows(n) /\ q \in Rows(n)
  BY <1>1 DEF Rows
<1>3. \A i \in 1..n : d[i] = a * f[i] + b * g[i] /\ d[i] \in Int /\ p[i] = f[i] * f[i] /\ q[i] = f[i] * g[i]
  BY <1>1
<1> HIDE DEF d, p, q
<1>4. r \in Rows(n) /\ \A i \in 1..n : r[i] = f[i] * d[i]
  BY <1>1, <1>3 DEF Rows
<1> HIDE DEF r
<1>5. PICK F, G, D, P, Q, R \in Int :
        /\ F = Sums(f)[n] /\ G = Sums(g)[n] /\ D = Sums(d)[n]
        /\ P = Sums(p)[n] /\ Q = Sums(q)[n] /\ R = Sums(r)[n]
  <2>1. \A h \in Rows(n) : Sums(h)[n] \in Int
    <3>1. n \in 0..n  OBVIOUS
    <3> QED  BY <3>1, SumsAre
  <2> QED  BY <1>2, <1>4, <2>1
<1>6. D = a * F + b * G + 0 * G + n * 0
  <2>1. Linear(d, f, g, g, a, b, 0, 0, n)  BY <1>1, <1>3 DEF Linear
  <2>2. SumsLinear(d, f, g, g, a, b, 0, 0, n)  BY <1>2, <2>1, LinearSum
  <2> QED  BY <1>5, <2>2 DEF SumsLinear
<1>7. R = a * P + b * Q + 0 * Q + n * 0
  <2>1. Linear(r, p, q, q, a, b, 0, 0, n)
    <3> SUFFICES ASSUME NEW i \in 1..n  PROVE r[i] = a * p[i] + b * q[i] + 0 * q[i] + 0
      BY DEF Linear
    <3>1. PICK u, v \in Int : u = f[i] /\ v = g[i]  BY <1>1
    <3>2. r[i] = u * (a * u + b * v) /\ p[i] = u * u /\ q[i] = u * v  BY <1>3, <1>4, <3>1
    <3>3. u * (a * u + b * v) = a * (u * u) + b * (u * v) + 0 * (u * v) + 0  OBVIOUS
    <3> QED  BY <3>2, <3>3
  <2>2. SumsLinear(r, p, q, q, a, b, 0, 0, n)  BY <1>2, <1>4, <2>1, LinearSum
  <2> QED  BY <1>5, <2>2 DEF SumsLinear
<1> DEFINE weighed == a * SumOfProducts(f, f) + b * SumOfProducts(f, g)
<1>8. weighed = n * (n * R - F * D)
  <2>1. SumOfProducts(f, f) = n * (n * P - F * F) /\ SumOfProducts(f, g) = n * (n * Q - F * G)
    BY <1>2, <1>3, <1>5, SumOfProductsIs
  <2> QED  BY <1>6, <1>7, <2>1, CombinedTerm
<1> HIDE DEF weighed
<1>9. ASSUME NEW i \in 1..n, NEW j \in 1..n
      PROVE  /\ (f[j] - f[i]) * (d[j] - d[i]) >= 0
             /\ MoreWorth(f, g, a, b, n) /\ f[j] # f[i]
                => (f[j] - f[i]) * (d[j] - d[i]) > 0
  <2>1. PICK x, y \in Int : x = f[j] - f[i] /\ y = d[j] - d[i]
    BY <1>1, <1>3
  <2>2. y = a * (f[j] - f[i]) + b * (g[j] - g[i]) /\ -y = a * (f[i] - f[j]) + b * (g[i] - g[j])
    BY <1>1, <1>3, <2>1
  <2>3. CASE x > 0
    <3>1. y >= 0  BY <2>1, <2>2, <2>3 DEF Worth
    <3>2. x * y >= 0 /\ (y > 0 => x * y > 0)  BY <2>3, <3>1
    <3>3. MoreWorth(f, g, a, b, n) => y > 0  BY <2>1, <2>2, <2>3 DEF MoreWorth
    <3> QED  BY <2>1, <3>2, <3>3
  <2>4. CASE x < 0
    <3>1. f[i] - f[j] > 0  BY <1>1, <2>1, <2>4
    <3>2. -y >= 0 /\ (MoreWorth(f, g, a, b, n) => -y > 0)  BY <2>2, <3>1 DEF Worth, MoreWorth
    <3>3. x * y = (-x) * (-y)  OBVIOUS
    <3>4. x * y >= 0 /\ (-y > 0 => x * y > 0)  BY <2>4, <3>2, <3>3
    <3> QED  BY <2>1, <3>2, <3>4
  <2>5. CASE x = 0
    <3>1. x * y = 0 /\ f[j] = f[i]  BY <1>1, <2>1, <2>5
    <3> QED  BY <2>1, <3>1
  <2> QED  BY <2>3, <2>4, <2>5
<1>10. Together(f, d, n)
  BY <1>9 DEF Together
<1>11. n * R - F * D >= 0 /\ (Strictly(f, d, n) /\ (\E i, j \in 1..n : f[i] # f[j]) => n * R - F * D > 0)
  BY <1>2, <1>4, <1>5, <1>10, Chebyshev
<1>12. weighed >= 0
  <2>1. PICK m \in Int : m = n * R - F * D  OBVIOUS
  <2>2. n * m >= 0  BY <1>11, <2>1
  <2> QED  BY <1>8, <2>1, <2>2
<1>13. ASSUME MoreWorth(f, g, a, b, n), NEW i \in 1..n, NEW j \in 1..n, f[j] - f[i] > 0
       PROVE  weighed > 0
  <2>1. Strictly(f, d, n)  BY <1>9, <1>13 DEF Strictly
  <2>2. f[i] # f[j] /\ n > 0  BY <1>1, <1>13
  <2>3. PICK m \in Int : m = n * R - F * D  OBVIOUS
  <2>4. m > 0  BY <1>11, <2>1, <2>2, <2>3
  <2>5. n * m > 0  BY <2>2, <2>4
  <2> QED  BY <1>8, <2>3, <2>5
<1> QED  BY <1>12, <1>13 DEF weighed, Grows

\* The times and the bytes of the window, and the pairs of its samples.
LEMMA WindowRows ==
  ASSUME samples \in Seq(Samples), NEW n \in Nat, n = Len(samples)
  PROVE  /\ DOMAIN samples = 1..n /\ Times \in Rows(n) /\ Committed \in Rows(n)
         /\ \A i, j \in 1..n :
              /\ Lapse(i, j) \in Int /\ Gain(i, j) \in Int
              /\ Times[j] - Times[i] = Lapse(i, j)
              /\ 1000 * (Committed[j] - Committed[i]) = Gain(i, j)
<1>1. DOMAIN samples = 1..n
  BY LenProperties
<1>2. \A i \in 1..n : samples[i].t \in Nat /\ samples[i].committed \in Nat
  <2>1. \A i \in 1..n : samples[i] \in Samples  BY ElementOfSeq
  <2> QED  BY <2>1 DEF Samples
<1>3. /\ Times \in Rows(n) /\ Committed \in Rows(n)
      /\ \A i \in 1..n : Times[i] = samples[i].t /\ Committed[i] = samples[i].committed
  BY <1>1, <1>2 DEF Times, Committed, Rows
<1>4. ASSUME NEW i \in 1..n, NEW j \in 1..n
      PROVE  /\ Lapse(i, j) \in Int /\ Gain(i, j) \in Int
             /\ Times[j] - Times[i] = Lapse(i, j)
             /\ 1000 * (Committed[j] - Committed[i]) = Gain(i, j)
  BY <1>2, <1>3, <1>4 DEF Lapse, Gain
<1> QED  BY <1>1, <1>3, <1>4

\* The same for the samples, whose times count a and whose bytes count s.
Telling(a, s, n) == \A i, j \in 1..n : Lapse(i, j) > 0 => a * Lapse(i, j) + s * Gain(i, j) >= 0
MoreTelling(a, s, n) == \A i, j \in 1..n : Lapse(i, j) > 0 => a * Lapse(i, j) + s * Gain(i, j) > 0
Passes(n) == \E i, j \in 1..n : Lapse(i, j) > 0

LEMMA PairsOfSamples ==
  ASSUME samples \in Seq(Samples), NEW n \in Nat, n = Len(samples),
         NEW a \in Int, NEW s \in Int, Telling(a, s, n)
  PROVE  /\ Variance \in Int /\ Covariance \in Int
         /\ a * Variance + s * (1000 * Covariance) >= 0
         /\ MoreTelling(a, s, n) /\ Passes(n) => a * Variance + s * (1000 * Covariance) > 0
<1> DEFINE f == Times
           g == Committed
           b == s * 1000
<1>1. /\ f \in Rows(n) /\ g \in Rows(n)
      /\ \A i, j \in 1..n : /\ Lapse(i, j) \in Int /\ Gain(i, j) \in Int
                            /\ f[j] - f[i] = Lapse(i, j) /\ 1000 * (g[j] - g[i]) = Gain(i, j)
  BY WindowRows
<1>2. b \in Int
  OBVIOUS
<1> HIDE DEF f, g, b
<1>3. \A i \in 1..n : f[i] \in Int /\ g[i] \in Int
  <2>1. f \in Rows(n) /\ g \in Rows(n)  BY <1>1
  <2> QED  BY <2>1 DEF Rows
<1>4. ASSUME NEW i \in 1..n, NEW j \in 1..n
      PROVE  a * (f[j] - f[i]) + b * (g[j] - g[i]) = a * Lapse(i, j) + s * Gain(i, j)
  <2>1. PICK u \in Int : u = g[j] - g[i]  BY <1>3
  <2>2. b * u = s * (1000 * u)  BY DEF b
  <2> QED  BY <1>1, <2>1, <2>2
<1>5. /\ Worth(f, g, a, b, n) /\ (MoreTelling(a, s, n) => MoreWorth(f, g, a, b, n))
      /\ Passes(n) => Grows(f, n)
  BY <1>1, <1>4 DEF Worth, MoreWorth, Grows, Telling, MoreTelling, Passes
<1>6. /\ a * SumOfProducts(f, f) + b * SumOfProducts(f, g) >= 0
      /\ MoreTelling(a, s, n) /\ Passes(n) => a * SumOfProducts(f, f) + b * SumOfProducts(f, g) > 0
  BY <1>1, <1>2, <1>5, PairsDecide
<1>7. ASSUME NEW h \in Rows(n)  PROVE SumOfProducts(f, h) \in Int
  <2> DEFINE p == [i \in 1..n |-> f[i] * h[i]]
  <2>1. p \in Rows(n) /\ \A i \in 1..n : p[i] = f[i] * h[i]  BY <1>1, <1>7 DEF Rows
  <2> HIDE DEF p
  <2>2. PICK x, y, z \in Int : x = Sums(p)[n] /\ y = Sums(f)[n] /\ z = Sums(h)[n]
    <3>1. n \in 0..n  OBVIOUS
    <3> QED  BY <1>1, <1>7, <2>1, <3>1, SumsAre
  <2>3. SumOfProducts(f, h) = n * (n * x - y * z)  BY <1>1, <1>7, <2>1, <2>2, SumOfProductsIs
  <2> QED  BY <2>3
<1>8. PICK V, C \in Int : V = SumOfProducts(f, f) /\ C = SumOfProducts(f, g) /\ V = Variance /\ C = Covariance
  BY <1>1, <1>7 DEF f, g, Variance, Covariance
<1>9. b * C = s * (1000 * C)
  BY DEF b
<1> QED  BY <1>6, <1>8, <1>9

\* The direction of an estimate is one the samples show (estimate).
LEMMA DirectionFollows ==
  ASSUME samples \in Seq(Samples)
  PROVE  DirectionIsBorneOut
<1> DEFINE pairs == {p \in (DOMAIN samples) \X (DOMAIN samples) : Lapse(p[1], p[2]) > 0}
           rose  == {p \in pairs : Gain(p[1], p[2]) > Lapse(p[1], p[2])}
           fell  == {p \in pairs : Gain(p[1], p[2]) < -Lapse(p[1], p[2])}
<1>1. PICK n \in Nat : n = Len(samples)
  BY LenProperties
<1>2. DOMAIN samples = 1..n /\ \A i, j \in 1..n : Lapse(i, j) \in Int /\ Gain(i, j) \in Int
  BY <1>1, WindowRows
<1>3. /\ \A i, j \in 1..n : Lapse(i, j) > 0 => <<i, j>> \in pairs
      /\ \A p \in pairs : \E i, j \in 1..n : p = <<i, j>> /\ Lapse(i, j) > 0
  <2>1. ASSUME NEW i \in 1..n, NEW j \in 1..n, Lapse(i, j) > 0  PROVE <<i, j>> \in pairs
    <3>1. PICK p : p = <<i, j>>  OBVIOUS
    <3>2. p[1] = i /\ p[2] = j /\ p \in (DOMAIN samples) \X (DOMAIN samples)  BY <1>2, <3>1
    <3>3. Lapse(p[1], p[2]) > 0  BY <2>1, <3>2
    <3>4. p \in pairs  BY <3>2, <3>3
    <3> QED  BY <3>1, <3>4
  <2>2. ASSUME NEW p \in pairs  PROVE \E i, j \in 1..n : p = <<i, j>> /\ Lapse(i, j) > 0
    <3>1. p \in (1..n) \X (1..n) /\ Lapse(p[1], p[2]) > 0  BY <1>2
    <3>2. PICK i \in 1..n, j \in 1..n : p = <<i, j>>  BY <3>1
    <3>3. p[1] = i /\ p[2] = j  BY <3>2
    <3>4. Lapse(i, j) > 0  BY <3>1, <3>3
    <3> QED  BY <3>2, <3>4
  <2> QED  BY <2>1, <2>2
<1>4. ASSUME NEW i \in 1..n, NEW j \in 1..n
      PROVE  /\ <<i, j>> \in rose <=> Lapse(i, j) > 0 /\ Gain(i, j) > Lapse(i, j)
             /\ <<i, j>> \in fell <=> Lapse(i, j) > 0 /\ Gain(i, j) < -Lapse(i, j)
  <2>1. PICK p : p = <<i, j>>  OBVIOUS
  <2>2. p[1] = i /\ p[2] = j /\ p \in (DOMAIN samples) \X (DOMAIN samples)  BY <1>2, <2>1
  <2>3. p \in pairs <=> Lapse(p[1], p[2]) > 0  BY <2>2
  <2>4. p \in rose <=> p \in pairs /\ Gain(p[1], p[2]) > Lapse(p[1], p[2])  OBVIOUS
  <2>5. p \in fell <=> p \in pairs /\ Gain(p[1], p[2]) < -Lapse(p[1], p[2])  OBVIOUS
  <2>6. p \in pairs <=> Lapse(i, j) > 0  BY <2>2, <2>3
  <2>7. p \in rose <=> Lapse(i, j) > 0 /\ Gain(i, j) > Lapse(i, j)  BY <2>2, <2>4, <2>6
  <2>8. p \in fell <=> Lapse(i, j) > 0 /\ Gain(i, j) < -Lapse(i, j)  BY <2>2, <2>5, <2>6
  <2> QED  BY <2>1, <2>7, <2>8
<1> HIDE DEF pairs, rose, fell
<1>5. Variance \in Int /\ Covariance \in Int
  <2>1. Telling(1, 0, n)  BY <1>2 DEF Telling
  <2> QED  BY <1>1, <2>1, PairsOfSamples
<1>6. ASSUME Direction = "Rising", rose = {}  PROVE FALSE
  <2>1. 1000 * Covariance > Variance
    BY <1>6 DEF Direction
  <2>2. Telling(1, -1, n)
    <3> SUFFICES ASSUME NEW i \in 1..n, NEW j \in 1..n, Lapse(i, j) > 0
                 PROVE  1 * Lapse(i, j) + (-1) * Gain(i, j) >= 0
      BY DEF Telling
    <3>1. ~(Gain(i, j) > Lapse(i, j))  BY <1>4, <1>6
    <3> QED  BY <1>2, <3>1
  <2>3. 1 * Variance + (-1) * (1000 * Covariance) >= 0
    BY <1>1, <2>2, PairsOfSamples
  <2> QED  BY <1>5, <2>1, <2>3
<1>7. ASSUME Direction = "Falling", fell = {}  PROVE FALSE
  <2>1. 1000 * Covariance < -Variance
    BY <1>7 DEF Direction
  <2>2. Telling(1, 1, n)
    <3> SUFFICES ASSUME NEW i \in 1..n, NEW j \in 1..n, Lapse(i, j) > 0
                 PROVE  1 * Lapse(i, j) + 1 * Gain(i, j) >= 0
      BY DEF Telling
    <3>1. ~(Gain(i, j) < -Lapse(i, j))  BY <1>4, <1>7
    <3> QED  BY <1>2, <3>1
  <2>3. 1 * Variance + 1 * (1000 * Covariance) >= 0
    BY <1>1, <2>2, PairsOfSamples
  <2> QED  BY <1>5, <2>1, <2>3
<1>8. ASSUME pairs # {}  PROVE n >= 2 /\ Variance > 0 /\ Passes(n)
  <2>1. PICK i \in 1..n, j \in 1..n : Lapse(i, j) > 0  BY <1>3, <1>8
  <2>2. Lapse(i, i) = 0
    <3>1. samples[i] \in Samples  BY <1>1, ElementOfSeq
    <3>2. samples[i].t \in Nat  BY <3>1 DEF Samples
    <3> QED  BY <3>2 DEF Lapse
  <2>3. i # j  BY <2>1, <2>2
  <2>4. Passes(n)  BY <2>1 DEF Passes
  <2>5. Telling(1, 0, n) /\ MoreTelling(1, 0, n)
    <3>1. ASSUME NEW k \in 1..n, NEW l \in 1..n, Lapse(k, l) > 0
          PROVE  1 * Lapse(k, l) + 0 * Gain(k, l) > 0
      BY <1>2, <3>1
    <3>2. MoreTelling(1, 0, n)  BY <3>1 DEF MoreTelling
    <3>3. ASSUME NEW k \in 1..n, NEW l \in 1..n, Lapse(k, l) > 0
          PROVE  1 * Lapse(k, l) + 0 * Gain(k, l) >= 0
      BY <1>2, <3>3
    <3> QED  BY <3>2, <3>3 DEF Telling
  <2>6. 1 * Variance + 0 * (1000 * Covariance) > 0  BY <1>1, <2>4, <2>5, PairsOfSamples
  <2>7. Variance > 0  BY <1>5, <2>6
  <2> QED  BY <2>3, <2>4, <2>7
<1>9. ASSUME pairs # {}, rose = pairs  PROVE Direction = "Rising"
  <2>1. ASSUME NEW i \in 1..n, NEW j \in 1..n, Lapse(i, j) > 0
        PROVE  (-1) * Lapse(i, j) + 1 * Gain(i, j) > 0
    <3>1. <<i, j>> \in rose  BY <1>3, <1>9, <2>1
    <3> QED  BY <1>2, <1>4, <3>1
  <2>2. MoreTelling(-1, 1, n)
    BY <2>1 DEF MoreTelling
  <2>3. Telling(-1, 1, n)
    BY <1>2, <2>1 DEF Telling
  <2>4. (-1) * Variance + 1 * (1000 * Covariance) > 0
    BY <1>1, <1>8, <1>9, <2>2, <2>3, PairsOfSamples
  <2>5. 1000 * Covariance > Variance
    BY <1>5, <2>4
  <2> QED  BY <1>1, <1>5, <1>8, <1>9, <2>5 DEF Direction
<1>10. ASSUME pairs # {}, fell = pairs  PROVE Direction = "Falling"
  <2>1. ASSUME NEW i \in 1..n, NEW j \in 1..n, Lapse(i, j) > 0
        PROVE  (-1) * Lapse(i, j) + (-1) * Gain(i, j) > 0
    <3>1. <<i, j>> \in fell  BY <1>3, <1>10, <2>1
    <3> QED  BY <1>2, <1>4, <3>1
  <2>2. MoreTelling(-1, -1, n)
    BY <2>1 DEF MoreTelling
  <2>3. Telling(-1, -1, n)
    BY <1>2, <2>1 DEF Telling
  <2>4. (-1) * Variance + (-1) * (1000 * Covariance) > 0
    BY <1>1, <1>8, <1>10, <2>2, <2>3, PairsOfSamples
  <2>5. 1000 * Covariance < -Variance
    BY <1>5, <2>4
  <2> QED  BY <1>1, <1>5, <1>8, <1>10, <2>5 DEF Direction
<1> QED  BY <1>6, <1>7, <1>9, <1>10 DEF DirectionIsBorneOut, pairs, rose, fell

\* The estimate is never made up: a rise or a fall that estimate answers is one
\* that two samples of the window show, and what every two samples show is what
\* it answers, for every window size and whatever the bytes and the times
\* (TrendEstimator::estimate).
THEOREM DirectionIsTrue == Spec => []DirectionIsBorneOut
<1>1. WindowInv => DirectionIsBorneOut
  <2> SUFFICES ASSUME WindowInv PROVE DirectionIsBorneOut
    OBVIOUS
  <2>1. added \in Seq(Samples) /\ \E k \in 0..Len(added) : samples = Drop(added, k)
    BY DEF WindowInv
  <2>2. samples \in Seq(Samples)
    BY <2>1, DropIs
  <2> QED  BY <2>2, DirectionFollows
<1>2. QED  BY <1>1, WindowInvariance, PTL
===============================================================================
