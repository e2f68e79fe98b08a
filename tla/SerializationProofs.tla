-------------------------- MODULE SerializationProofs --------------------------
(***************************************************************************)
(* What a round through a document keeps, for every word size, and for     *)
(* budgets, policies, traces and snapshots of any size with any counts,    *)
(* saved, loaded and replayed in any order.                                *)
(*                                                                         *)
(* It rests on arithmetic.  Doubles beyond Exact are a power of two apart, *)
(* so that only the number next to Exact is rounded down to it, and every  *)
(* other one stays beyond what as_uint64 reads.  What follows goes up from *)
(* counts to the readers and writers and from these to the program.        *)
(***************************************************************************)
EXTENDS Serialization, SequenceTheorems, WellFoundedInduction, TLAPS

USE SerializationAssumption, WordAssumption

(***************************************************************************)
(* Quotients and remainders.                                               *)
(***************************************************************************)
\* The quotient and the remainder of natural numbers.
LEMMA Division ==
  ASSUME NEW a \in Nat, NEW b \in Nat \ {0}
  PROVE  /\ a \div b \in Nat /\ a % b \in 0..(b - 1)
         /\ a = b * (a \div b) + (a % b)
<1>1. a \div b \in Int /\ a % b \in 0..(b - 1)  OBVIOUS
<1>2. a = b * (a \div b) + (a % b)  OBVIOUS
<1>3. a \div b >= 0
  <2>1. ASSUME NEW q \in Int, NEW r \in 0..(b - 1), q <= -1, a = b * q + r  PROVE FALSE
    <3>1. b * (-q) >= b  BY <2>1
    <3>2. b * (-q) = -(b * q)  BY <2>1
    <3> QED  BY <2>1, <3>1, <3>2
  <2> QED  BY <1>1, <1>2, <2>1
<1> QED  BY <1>1, <1>2, <1>3

\* A multiple leaves no remainder.
LEMMA Multiple ==
  ASSUME NEW b \in Nat \ {0}, NEW q \in Nat
  PROVE  (b * q) % b = 0
<1> DEFINE a == b * q
<1>1. a \in Nat  OBVIOUS
<1>2. /\ a \div b \in Nat /\ a % b \in 0..(b - 1)
      /\ a = b * (a \div b) + (a % b)
  <2> HIDE DEF a
  <2> QED  BY <1>1, Division
<1>3. ASSUME NEW k \in Nat, NEW r \in 0..(b - 1), b * q = b * k + r  PROVE r = 0
  <2>1. b * (q - k) = r  BY <1>3
  <2>2. CASE q - k >= 1  
    <3>1. b * (q - k) >= b  BY <2>2
    <3> QED  BY <2>1, <3>1
  <2>3. CASE q - k <= 0
    <3>1. b * (q - k) <= 0  BY <2>3
    <3> QED  BY <2>1, <3>1
  <2> QED  BY <2>2, <2>3
<1> QED  BY <1>2, <1>3

\* A number is even or odd.
LEMMA Parity ==
  ASSUME NEW n \in Nat
  PROVE  \E m \in Nat : n = 2 * m + (n % 2) /\ n % 2 \in {0, 1}
<1>1. /\ n \div 2 \in Nat /\ n % 2 \in 0..(2 - 1)
      /\ n = 2 * (n \div 2) + (n % 2)
  BY Division
<1> QED  BY <1>1

(***************************************************************************)
(* Powers of two.                                                          *)
(***************************************************************************)
LEMMA PowerOfTwoIsEven ==
  ASSUME NEW g \in Nat, g > 1, PowerOfTwo(g)
  PROVE  \E h \in Nat : g = 2 * h /\ h >= 1
<1>1. (g * 1) % g = 0  BY Multiple
<1>2. g % g = 0  BY <1>1
<1>3. g % 2 = 0  BY <1>2 DEF PowerOfTwo
<1> QED  BY <1>3, Parity

\* A product of odd numbers is odd.
LEMMA OddProduct ==
  ASSUME NEW e \in Nat, NEW m \in Nat, NEW g \in Nat
  PROVE  2 * g # (2 * e + 1) * (2 * m + 1)
<1> DEFINE p == e * m
<1>1. p \in Nat  OBVIOUS
<1>2. (2 * e + 1) * (2 * m + 1) = 4 * p + 2 * e + 2 * m + 1  OBVIOUS
<1> HIDE DEF p
<1> QED  BY <1>1, <1>2

\* The gap doubles from one binade to the next.
LEMMA PowerOfTwoDoubles ==
  ASSUME NEW g \in Nat \ {0}, PowerOfTwo(g)
  PROVE  PowerOfTwo(2 * g)
<1> SUFFICES ASSUME NEW d \in 2..(2 * g), (2 * g) % d = 0, d % 2 # 0  PROVE FALSE
  BY DEF PowerOfTwo
<1>1. PICK k \in Nat : 2 * g = d * k
  <2> DEFINE n == 2 * g
  <2>1. n \in Nat /\ n % d = 0 /\ d \in Nat \ {0}  OBVIOUS
  <2> HIDE DEF n
  <2>2. n \div d \in Nat /\ n = d * (n \div d) + (n % d)  BY <2>1, Division
  <2>3. n = d * (n \div d)  BY <2>1, <2>2
  <2> QED  BY <2>2, <2>3 DEF n
<1>2. PICK e \in Nat : d = 2 * e + 1
  BY Parity
<1>3. PICK m \in Nat : k = 2 * m
  <2>1. PICK m \in Nat : k = 2 * m + (k % 2) /\ k % 2 \in {0, 1}  BY Parity
  <2> QED  BY <1>1, <1>2, <2>1, OddProduct
<1>4. g = d * m
  BY <1>1, <1>3
<1>5. g % d = 0
  <2>1. (d * m) % d = 0  BY Multiple
  <2> QED  BY <1>4, <2>1
<1>6. m >= 1
  BY <1>4
<1>7. d \in 2..g
  BY <1>4, <1>6
<1> QED  BY <1>5, <1>7 DEF PowerOfTwo

\* A set of numbers that is not empty has a least one.
LEMMA LeastNumber ==
  ASSUME NEW T \in SUBSET Nat, T # {}
  PROVE  \E n \in T : \A m \in T : n <= m
<1>1. PICK n \in T : \A m \in T : <<m, n>> \notin OpToRel(<, Nat)
  BY WFMin, NatLessThanWellFounded
<1>2. \A m \in T : ~(m < n)
  BY <1>1 DEF OpToRel
<1>3. QED  BY <1>2

\* Above Exact there is a gap between doubles, as the cast rounds to it.
LEMMA GapExists ==
  ASSUME NEW n \in Nat, n > Exact
  PROVE  \E g \in 1..n : PowerOfTwo(g) /\ n < Exact * g /\ Exact * g <= 2 * n
<1> DEFINE T == {k \in 0..(n - 1) : PowerOfTwo(n - k) /\ Exact * (n - k) <= 2 * n}
<1>1. n - 1 \in T
  <2>1. PowerOfTwo(1)  BY DEF PowerOfTwo
  <2>2. n - (n - 1) = 1 /\ Exact * 1 = Exact  OBVIOUS
  <2> QED  BY <2>1, <2>2
<1>2. PICK k \in T : \A m \in T : k <= m
  <2>1. T \in SUBSET Nat  OBVIOUS
  <2> QED  BY <1>1, <2>1, LeastNumber
<1>3. PICK g \in 1..n : g = n - k
  OBVIOUS
<1>4. PowerOfTwo(g) /\ Exact * g <= 2 * n
  BY <1>3
<1>5. ASSUME Exact * g <= n  PROVE FALSE
  <2>1. Exact * (2 * g) <= 2 * n  BY <1>5
  <2>2. PowerOfTwo(2 * g)  BY <1>4, PowerOfTwoDoubles
  <2>3. 2 * g <= n
    <3>1. Exact * g >= 2 * g  OBVIOUS
    <3> QED  BY <1>5, <3>1
  <2>4. n - (n - 2 * g) = 2 * g /\ n - 2 * g \in 0..(n - 1)  BY <2>3
  <2>5. n - 2 * g \in T  BY <2>1, <2>2, <2>4
  <2>6. k <= n - 2 * g  BY <1>2, <2>5
  <2> QED  BY <1>3, <2>6
<1> QED  BY <1>4, <1>5

\* Only the first number above Exact is rounded down to it.
LEMMA RoundedValue ==
  ASSUME NEW n \in Nat, n > Exact
  PROVE  /\ Rounded(n) \in Nat /\ Rounded(n) >= Exact
         /\ Rounded(n) = Exact => n = Exact + 1
<1> DEFINE gap  == CHOOSE g \in 1..n : PowerOfTwo(g) /\ n < Exact * g /\ Exact * g <= 2 * n
           less == (n \div gap) * gap
<1>1. gap \in 1..n /\ PowerOfTwo(gap) /\ n < Exact * gap /\ Exact * gap <= 2 * n
  BY GapExists
<1>2. Rounded(n) \in {less, less + gap}
  BY DEF Rounded
<1> HIDE DEF gap
<1>3. PICK h \in Nat : Exact = 2 * h /\ h >= 1
  BY PowerOfTwoIsEven
<1>4. gap > 1
  <2>1. ASSUME gap = 1  PROVE FALSE
    <3>1. Exact * 1 = Exact  OBVIOUS
    <3> QED  BY <1>1, <2>1, <3>1
  <2> QED  BY <1>1, <2>1
<1>5. PICK j \in Nat : gap = 2 * j /\ j >= 1
  BY <1>1, <1>4, PowerOfTwoIsEven
<1>6. PICK q \in Nat, r \in 0..(gap - 1) : n = gap * q + r /\ q = n \div gap
  <2>1. gap \in Nat \ {0}  BY <1>1
  <2> QED  BY <2>1, Division
<1>7. q >= h
  <2>1. gap * h <= n
    <3>1. Exact * gap = 2 * (gap * h)  BY <1>1, <1>3
    <3>2. gap * h \in Nat  BY <1>1, <1>3
    <3> QED  BY <1>1, <3>1, <3>2
  <2>2. ASSUME q + 1 <= h  PROVE FALSE
    <3>1. gap * (q + 1) <= gap * h  BY <1>1, <2>2
    <3>2. gap * (q + 1) = gap * q + gap  BY <1>1
    <3>3. gap * q \in Nat /\ gap * h \in Nat  BY <1>1
    <3> QED  BY <1>1, <1>6, <2>1, <3>1, <3>2, <3>3
  <2> QED  BY <2>2
<1>8. less = q * gap /\ less \in Nat /\ less >= Exact * j
  <2>1. q * gap >= h * gap  BY <1>1, <1>7
  <2>2. h * gap = Exact * j  BY <1>3, <1>5
  <2>3. q * gap \in Nat  BY <1>1
  <2> QED  BY <1>6, <2>1, <2>2, <2>3
<1> HIDE DEF less
<1>9. Exact * j >= Exact
  BY <1>5
<1>10. ASSUME less = Exact  PROVE n = Exact + 1
  <2>1. j = 1
    <3>1. j >= 2 => Exact * j >= 2 * Exact  OBVIOUS
    <3> QED  BY <1>5, <1>8, <1>10, <3>1
  <2>2. n = 2 * q + r /\ less = 2 * q /\ r \in 0..1  BY <1>5, <1>6, <1>8, <2>1
  <2> QED  BY <1>10, <2>2
<1>11. gap \in Nat /\ Exact * j \in Nat
  BY <1>1
<1> QED  BY <1>1, <1>2, <1>8, <1>9, <1>10, <1>11

\* What as_uint64 makes of a count that was written.
LEMMA CountReads ==
  ASSUME NEW n \in Bytes
  PROVE  /\ n <= Exact => AsUint64(Wire(n)) = n
         /\ n > Exact  =>
              \/ AsUint64(Wire(n)) = Unreadable
              \/ n = Exact + 1 /\ AsUint64(Wire(n)) = Exact
         /\ n = Word - 1 => AsUint64(Wire(n)) = Unreadable
<1>1. n \in Nat /\ n < Word  BY DEF Bytes
<1>2. CASE n <= Exact
  <2>1. Signed(n) = n  BY <1>1, <1>2 DEF Signed
  <2>2. Wire(n) = n  BY <1>1, <1>2, <2>1 DEF Wire, Double
  <2> QED  BY <1>1, <1>2, <2>2 DEF AsUint64
<1>3. CASE n > Exact /\ 2 * n < Word
  <2>1. Wire(n) = Rounded(n)  BY <1>1, <1>3 DEF Wire, Double, Signed
  <2>2. /\ Rounded(n) \in Nat /\ Rounded(n) >= Exact
        /\ Rounded(n) = Exact => n = Exact + 1
    BY <1>1, <1>3, RoundedValue
  <2>3. n # Word - 1  BY <1>1, <1>3
  <2> QED  BY <1>1, <1>3, <2>1, <2>2, <2>3 DEF AsUint64, Unreadable
<1>4. CASE n > Exact /\ 2 * n >= Word
  <2>1. Signed(n) = n - Word /\ Signed(n) < 0  BY <1>1, <1>4 DEF Signed
  <2>2. Wire(n) \in Int /\ Wire(n) < 0
    <3>1. CASE Word - n > Exact
      <4>1. PICK w \in Nat : w = Word - n  BY <1>1
      <4>2. Rounded(w) \in Nat /\ Rounded(w) >= Exact  BY <3>1, <4>1, RoundedValue
      <4>3. -(n - Word) = w  BY <1>1, <4>1
      <4>4. Wire(n) = -Rounded(w)  BY <1>1, <2>1, <3>1, <4>1, <4>3 DEF Wire, Double
      <4> QED  BY <4>2, <4>4
    <3>2. CASE ~(Word - n > Exact)
      <4>1. ~(-(n - Word) > Exact)  BY <1>1, <3>2
      <4>2. Wire(n) = n - Word  BY <1>1, <2>1, <4>1 DEF Wire, Double
      <4> QED  BY <1>1, <4>2
    <3> QED  BY <3>1, <3>2
  <2> QED  BY <1>1, <1>4, <2>2 DEF AsUint64, Unreadable
<1>5. n <= Exact \/ (n > Exact /\ 2 * n < Word) \/ (n > Exact /\ 2 * n >= Word)
  BY <1>1
<1> QED  BY <1>2, <1>3, <1>4, <1>5

\* No reader with a default makes a count larger.
LEMMA CountOrReads ==
  ASSUME NEW n \in Bytes
  PROVE  /\ CountOr(Wire(n), 0) \in Bytes /\ CountOr(Wire(n), 0) <= n
         /\ n <= Exact => \A fallback : CountOr(Wire(n), fallback) = n
         /\ AsUint64(Wire(n)) # Unreadable =>
              /\ CountOr(Wire(n), 0) = n \/ (n = Exact + 1 /\ CountOr(Wire(n), 0) = Exact)
              /\ n <= Exact + 1
<1>1. n \in Nat /\ n < Word  BY DEF Bytes
<1>2. CASE n <= Exact
  <2>1. AsUint64(Wire(n)) = n /\ n # Unreadable  BY <1>1, <1>2, CountReads DEF Unreadable
  <2> QED  BY <1>1, <1>2, <2>1 DEF CountOr
<1>3. CASE n > Exact /\ AsUint64(Wire(n)) = Unreadable
  <2>1. CountOr(Wire(n), 0) = 0  BY <1>3 DEF CountOr
  <2>2. 0 \in Bytes  BY DEF Bytes
  <2> QED  BY <1>1, <1>3, <2>1, <2>2
<1>4. CASE n > Exact /\ n = Exact + 1 /\ AsUint64(Wire(n)) = Exact
  <2>1. Exact # Unreadable /\ Exact \in Bytes  BY DEF Unreadable, Bytes
  <2>2. CountOr(Wire(n), 0) = Exact  BY <1>4, <2>1 DEF CountOr
  <2> QED  BY <1>1, <1>4, <2>1, <2>2
<1>5. \/ n <= Exact
      \/ n > Exact /\ AsUint64(Wire(n)) = Unreadable
      \/ n > Exact /\ n = Exact + 1 /\ AsUint64(Wire(n)) = Exact
  <2>1. n <= Exact \/ n > Exact  BY <1>1
  <2>2. n > Exact => AsUint64(Wire(n)) = Unreadable \/ (n = Exact + 1 /\ AsUint64(Wire(n)) = Exact)
    BY CountReads
  <2> QED  BY <2>1, <2>2
<1> QED  BY <1>2, <1>3, <1>4, <1>5

LEMMA SmallRemainder ==
  ASSUME NEW b \in Nat \ {0}, NEW a \in 0..(b - 1)
  PROVE  a % b = a
<1>1. PICK q \in Nat, r \in 0..(b - 1) : a = b * q + r /\ r = a % b
  <2>1. /\ a \div b \in Nat /\ a % b \in 0..(b - 1)
        /\ a = b * (a \div b) + (a % b)
    <3>1. a \in Nat  OBVIOUS
    <3> QED  BY <3>1, Division
  <2> QED  BY <2>1
<1>2. ASSUME q >= 1  PROVE FALSE
  <2>1. b * q >= b  BY <1>2
  <2> QED  BY <1>1, <2>1
<1>3. q = 0  BY <1>2
<1> QED  BY <1>1, <1>3

(***************************************************************************)
(* Records of counts, and budgets.                                         *)
(***************************************************************************)
\* Optional counts stay there or absent, and none grows (write_u64).
LEMMA CountsRead ==
  ASSUME NEW c, IsCounts(c),
         NEW is, is = ReadCounts(WriteCounts(c))
  PROVE  /\ IsCounts(is) /\ DOMAIN is = DOMAIN c
         /\ \A x \in DOMAIN c : c[x] \in Nat /\ is[x] \in Nat /\ is[x] <= c[x]
         /\ Within(c) => is = c /\ AllReadable(WriteCounts(c))
         /\ AllReadable(WriteCounts(c)) =>
              \A x \in DOMAIN c : is[x] = c[x] \/ (c[x] = Exact + 1 /\ is[x] = Exact)
<1>1. \A x \in DOMAIN c : c[x] \in Bytes
  BY DEF IsCounts
<1>2. /\ DOMAIN WriteCounts(c) = DOMAIN c
      /\ \A x \in DOMAIN c : WriteCounts(c)[x] = Wire(c[x])
  BY DEF WriteCounts
<1>3. is = [x \in DOMAIN c |-> CountOr(Wire(c[x]), 0)]
  BY <1>2 DEF ReadCounts
<1>4. /\ DOMAIN is = DOMAIN c
      /\ \A x \in DOMAIN c : is[x] = CountOr(Wire(c[x]), 0)
  BY <1>3
<1>5. \A x \in DOMAIN c : is[x] \in Bytes /\ is[x] <= c[x]
  BY <1>1, <1>4, CountOrReads
<1>6. IsCounts(is)
  BY <1>3, <1>4, <1>5 DEF IsCounts
<1>7. ASSUME Within(c)  PROVE is = c /\ AllReadable(WriteCounts(c))
  <2>1. \A x \in DOMAIN c : is[x] = c[x]
    BY <1>1, <1>4, <1>7, CountOrReads DEF Within
  <2>2. c = [x \in DOMAIN c |-> c[x]]
    BY DEF IsCounts
  <2>3. is = c
    BY <1>3, <1>4, <2>1, <2>2
  <2>4. \A x \in DOMAIN c : AsUint64(Wire(c[x])) = c[x] /\ c[x] # Unreadable
    BY <1>1, <1>7, CountReads DEF Within, Unreadable, Bytes
  <2>5. AllReadable(WriteCounts(c))
    BY <1>2, <2>4 DEF AllReadable
  <2> QED  BY <2>3, <2>5
<1>8. ASSUME AllReadable(WriteCounts(c)), NEW x \in DOMAIN c
      PROVE  is[x] = c[x] \/ (c[x] = Exact + 1 /\ is[x] = Exact)
  <2>1. AsUint64(Wire(c[x])) # Unreadable  BY <1>2, <1>8 DEF AllReadable
  <2> QED  BY <1>1, <1>4, <2>1, CountOrReads
<1>9. \A x \in DOMAIN c : c[x] \in Nat /\ is[x] \in Nat /\ is[x] <= c[x]
  BY <1>1, <1>5 DEF Bytes
<1> QED  BY <1>4, <1>6, <1>7, <1>8, <1>9

BudgetFields ==
  {"hard_capacity", "soft_capacity", "reserves", "emergency_reserve_bytes", "minimum_free_reserve",
   "reclaim_target", "demotion_target", "admission_headroom"}

LEMMA BudgetIsCounts ==
  ASSUME NEW b, b \in Budget, b.reserves \in Bytes
  PROVE  IsCounts(b) /\ DOMAIN b = BudgetFields
<1>1. b = [x \in BudgetFields |-> b[x]]
  BY DEF Budget, BudgetFields
<1>2. \A x \in BudgetFields : b[x] \in Bytes
  BY DEF Budget, BudgetFields
<1>3. DOMAIN b = BudgetFields
  BY <1>1
<1> QED  BY <1>1, <1>2, <1>3 DEF IsCounts

LEMMA CountsAreBudget ==
  ASSUME NEW c, IsCounts(c), DOMAIN c = BudgetFields
  PROVE  c \in Budget /\ c.reserves \in Bytes
<1>1. \A x \in BudgetFields : c[x] \in Bytes
  BY DEF IsCounts
<1>2. c = [x \in BudgetFields |-> c[x]]
  BY DEF IsCounts
<1>3. Bytes \subseteq Nat
  BY DEF Bytes
<1> QED  BY <1>1, <1>2, <1>3 DEF Budget, BudgetFields

\* A reserve that would no longer fit is not read as zero next to a capacity
\* that is read: where the capacity can be read, so can everything below it.
LEMMA BudgetRead ==
  ASSUME NEW b, AcceptedBudget(b),
         NEW is, is = ReadBudget(WriteBudget(b))
  PROVE  /\ Within(b) => is = b /\ b # Nothing
         /\ is # Nothing =>
              /\ AcceptedBudget(is)
              /\ HeldAside(b) < Word => UsableCapacity(is) <= UsableCapacity(b)
<1> DEFINE c == ReadCounts(WriteCounts(b))
<1>1. IsCounts(b) /\ DOMAIN b = BudgetFields /\ ValidBudget(b)
  BY BudgetIsCounts DEF AcceptedBudget
<1>2. /\ IsCounts(c) /\ DOMAIN c = DOMAIN b
      /\ \A x \in DOMAIN b : b[x] \in Nat /\ c[x] \in Nat /\ c[x] <= b[x]
      /\ Within(b) => c = b /\ AllReadable(WriteCounts(b))
  BY <1>1, CountsRead
<1>3. /\ DOMAIN WriteCounts(b) = BudgetFields
      /\ \A x \in BudgetFields : WriteCounts(b)[x] = Wire(b[x]) /\ c[x] = CountOr(Wire(b[x]), 0)
  BY <1>1 DEF WriteCounts, ReadCounts
<1>4. is = IF AsUint64(WriteCounts(b).hard_capacity) = Unreadable \/ ~ValidBudget(c)
           THEN Nothing ELSE c
  BY DEF ReadBudget, WriteBudget
<1> HIDE DEF c
<1>5. WriteCounts(b).hard_capacity = Wire(b.hard_capacity)
  BY <1>3 DEF BudgetFields
<1>6. b # Nothing /\ c # Nothing
  <2>1. "reserves" \in DOMAIN b /\ "reserves" \in DOMAIN c  BY <1>1, <1>2 DEF BudgetFields
  <2>2. "reserves" \notin DOMAIN Nothing  BY DEF Nothing
  <2> QED  BY <2>1, <2>2
<1>7. ASSUME Within(b)  PROVE is = b
  <2>1. c = b /\ AllReadable(WriteCounts(b))  BY <1>2, <1>7
  <2>2. AsUint64(WriteCounts(b).hard_capacity) # Unreadable
    BY <1>3, <2>1 DEF AllReadable, BudgetFields
  <2> QED  BY <1>1, <1>4, <2>1, <2>2
<1>8. ASSUME is # Nothing
      PROVE  /\ AcceptedBudget(is)
             /\ HeldAside(b) < Word => UsableCapacity(is) <= UsableCapacity(b)
  <2>1. is = c /\ ValidBudget(c) /\ AsUint64(Wire(b.hard_capacity)) # Unreadable
    BY <1>4, <1>5, <1>8
  <2>2. AcceptedBudget(c)
    BY <1>1, <1>2, <2>1, CountsAreBudget DEF AcceptedBudget
  <2>3. PICK hard, e, r, hardIs, eIs, rIs \in Bytes :
           /\ hard = b.hard_capacity /\ e = b.emergency_reserve_bytes /\ r = b.reserves
           /\ hardIs = c.hard_capacity /\ eIs = c.emergency_reserve_bytes /\ rIs = c.reserves
    BY <1>1, <2>2 DEF AcceptedBudget, Budget
  <2>4. hardIs = CountOr(Wire(hard), 0) /\ eIs = CountOr(Wire(e), 0) /\ rIs = CountOr(Wire(r), 0)
    BY <1>3, <2>3 DEF BudgetFields
  <2>5. hard \in Nat /\ e \in Nat /\ r \in Nat /\ hardIs \in Nat /\ eIs \in Nat /\ rIs \in Nat
    BY DEF Bytes
  <2>6. hardIs <= hard /\ eIs <= e /\ rIs <= r
    BY <2>4, CountOrReads
  <2>7. ASSUME HeldAside(b) < Word  PROVE UsableCapacity(c) <= UsableCapacity(b)
    <3>1. e + r < Word /\ eIs + rIs < Word
      BY <2>3, <2>5, <2>6, <2>7 DEF HeldAside
    <3>2. ReserveBytes(b) = e + r /\ ReserveBytes(c) = eIs + rIs
      <4>1. (e + r) % Word = e + r /\ (eIs + rIs) % Word = eIs + rIs
        <5>1. e + r \in 0..(Word - 1) /\ eIs + rIs \in 0..(Word - 1)  BY <2>5, <3>1
        <5> QED  BY <5>1, SmallRemainder
      <4> QED  BY <2>3, <4>1 DEF ReserveBytes, HeldAside
    <3>3. /\ UsableCapacity(b) = IF hard >= e + r THEN hard - (e + r) ELSE 0
          /\ UsableCapacity(c) = IF hardIs >= eIs + rIs THEN hardIs - (eIs + rIs) ELSE 0
      BY <2>3, <3>2 DEF UsableCapacity
    <3>4. CASE hardIs = 0
      BY <2>5, <3>3, <3>4
    <3>5. CASE hardIs # 0
      <4>1. hard # 0  BY <2>5, <2>6, <3>5
      <4>2. e + r <= hard /\ eIs + rIs <= hardIs
        BY <1>1, <2>1, <2>3, <3>2, <3>5, <4>1 DEF ValidBudget
      <4>3. CASE hard <= Exact
        <5>1. e <= Exact /\ r <= Exact  BY <2>5, <4>2, <4>3
        <5>2. hardIs = hard /\ eIs = e /\ rIs = r  BY <2>4, <4>3, <5>1, CountOrReads
        <5> QED  BY <3>3, <5>2, <2>5
      <4>4. CASE hard > Exact
        <5>1. hard = Exact + 1 /\ hardIs = Exact
          <6>1. /\ hardIs = hard \/ (hard = Exact + 1 /\ hardIs = Exact)
                /\ hard <= Exact + 1
            BY <2>1, <2>3, <2>4, CountOrReads
          <6>2. AsUint64(Wire(hard)) = Exact /\ hard = Exact + 1
            BY <2>1, <2>3, <4>4, CountReads
          <6>3. Exact # Unreadable  BY DEF Unreadable
          <6> QED  BY <2>4, <6>2, <6>3 DEF CountOr
        <5>2. CASE e <= Exact /\ r <= Exact
          <6>1. eIs = e /\ rIs = r  BY <2>4, <5>2, CountOrReads
          <6> QED  BY <2>5, <3>3, <4>2, <5>1, <6>1
        <5>3. CASE e > Exact
          <6>1. e = hard  BY <2>5, <4>2, <5>1, <5>3
          <6>2. eIs = hardIs  BY <2>4, <6>1
          <6> QED  BY <2>5, <3>3, <4>2, <6>2
        <5>4. CASE r > Exact
          <6>1. r = hard  BY <2>5, <4>2, <5>1, <5>4
          <6>2. rIs = hardIs  BY <2>4, <6>1
          <6> QED  BY <2>5, <3>3, <4>2, <6>2
        <5> QED  BY <2>5, <5>2, <5>3, <5>4
      <4> QED  BY <2>5, <4>3, <4>4
    <3> QED  BY <3>4, <3>5
  <2> QED  BY <2>1, <2>2, <2>7
<1> QED  BY <1>6, <1>7, <1>8

\* A domain whose budget cannot be read has none, and nothing to admit.
LEMMA NoBudget ==
  /\ AcceptedBudget(DefaultBudget) /\ UsableCapacity(DefaultBudget) = 0
  /\ \A b : AcceptedBudget(b) => UsableCapacity(b) \in Nat
<1>1. AcceptedBudget(DefaultBudget)
  <2>1. 0 \in Bytes  BY DEF Bytes
  <2>2. DefaultBudget \in Budget  BY <2>1 DEF DefaultBudget, Budget
  <2>3. DefaultBudget.hard_capacity = 0 /\ DefaultBudget.soft_capacity = 0 /\ DefaultBudget.reserves = 0
    BY DEF DefaultBudget
  <2>4. ValidBudget(DefaultBudget)  BY <2>3 DEF ValidBudget
  <2> QED  BY <2>1, <2>2, <2>3, <2>4 DEF AcceptedBudget
<1>2. ASSUME NEW b, AcceptedBudget(b)
      PROVE  /\ b.hard_capacity \in Nat /\ ReserveBytes(b) \in Nat /\ UsableCapacity(b) \in Nat
  <2>1. b.hard_capacity \in Nat /\ HeldAside(b) \in Nat
    BY <1>2 DEF AcceptedBudget, Budget, Bytes, HeldAside
  <2>2. ReserveBytes(b) \in Nat
    BY <2>1, Division DEF ReserveBytes
  <2> QED  BY <2>1, <2>2 DEF UsableCapacity
<1>3. UsableCapacity(DefaultBudget) = 0
  <2>1. ReserveBytes(DefaultBudget) \in Nat  BY <1>1, <1>2
  <2>2. DefaultBudget.hard_capacity = 0  BY DEF DefaultBudget
  <2> QED  BY <2>1, <2>2 DEF UsableCapacity
<1> QED  BY <1>1, <1>2, <1>3

(***************************************************************************)
(* Policies and provider health.                                           *)
(***************************************************************************)
\* A policy that is read is one set_policy would accept (policy_from_json).
LEMMA PolicyRead ==
  ASSUME NEW p, AcceptedPolicy(p),
         NEW is, is = ReadPolicy(WritePolicy(p))
  PROVE  /\ p # Nothing
         /\ is # Nothing => AcceptedPolicy(is)
         /\ p.version <= Exact /\ p.max_queued_events <= Exact
              /\ (p.max_relief_bytes <= Exact \/ p.max_relief_bytes = Word - 1)
            => is = [p EXCEPT !.default_max_age_us = DefaultAge] /\ is # Nothing
<1>1. PICK version, queue, relief, age \in Bytes :
         /\ p = [version |-> version, thresholds |-> p.thresholds, delay |-> p.delay,
                 max_queued_events |-> queue, max_relief_bytes |-> relief,
                 default_max_age_us |-> age]
         /\ p.thresholds \in Thresholds /\ Ascending(p.thresholds) /\ queue # 0
         /\ version = p.version /\ queue = p.max_queued_events /\ relief = p.max_relief_bytes
  BY DEF AcceptedPolicy
<1> DEFINE made == [version |-> AsUint64(Wire(version)), thresholds |-> p.thresholds, delay |-> p.delay,
                    max_queued_events  |-> CountOr(Wire(queue), DefaultQueue),
                    max_relief_bytes   |-> CountOr(Wire(relief), Word - 1),
                    default_max_age_us |-> DefaultAge]
<1>2. WritePolicy(p) = [version |-> Wire(version), thresholds |-> p.thresholds, delay |-> p.delay,
                        max_queued_events |-> Wire(queue), max_relief_bytes |-> Wire(relief),
                        default_max_age_us |-> Wire(p.default_max_age_us)]
  BY <1>1 DEF WritePolicy
<1>3. is = IF made.version = Unreadable \/ ~Ascending(made.thresholds) \/ made.max_queued_events = 0
           THEN Nothing ELSE made
  BY <1>2 DEF ReadPolicy
<1>4. is = IF AsUint64(Wire(version)) = Unreadable \/ CountOr(Wire(queue), DefaultQueue) = 0
           THEN Nothing ELSE made
  BY <1>1, <1>3
<1>5. p # Nothing /\ made # Nothing
  <2>1. "version" \in DOMAIN p  BY <1>1
  <2>2. "version" \in DOMAIN made  OBVIOUS
  <2>3. "version" \notin DOMAIN Nothing  BY DEF Nothing
  <2> QED  BY <2>1, <2>2, <2>3
<1>6. ASSUME is # Nothing  PROVE AcceptedPolicy(is)
  <2>1. AsUint64(Wire(version)) # Unreadable /\ CountOr(Wire(queue), DefaultQueue) # 0 /\ is = made
    BY <1>4, <1>6
  <2>2. \A n \in Bytes : AsUint64(Wire(n)) = Unreadable \/ AsUint64(Wire(n)) \in Bytes
    <3> SUFFICES ASSUME NEW n \in Bytes, AsUint64(Wire(n)) # Unreadable
                 PROVE  AsUint64(Wire(n)) \in Bytes
      OBVIOUS
    <3>1. CountOr(Wire(n), 0) \in Bytes  BY CountOrReads
    <3> QED  BY <3>1 DEF CountOr
  <2>3. Word - 1 \in Bytes  BY DEF Bytes
  <2>4. {AsUint64(Wire(version)), CountOr(Wire(queue), DefaultQueue), CountOr(Wire(relief), Word - 1),
         DefaultAge} \subseteq Bytes
    BY <2>1, <2>2, <2>3 DEF CountOr
  <2> HIDE DEF Bytes
  <2> QED  BY <1>1, <2>1, <2>4 DEF AcceptedPolicy
<1>7. ASSUME version <= Exact, queue <= Exact, relief <= Exact \/ relief = Word - 1
      PROVE  is = [p EXCEPT !.default_max_age_us = DefaultAge] /\ is # Nothing
  <2>1. AsUint64(Wire(version)) = version /\ version # Unreadable
    BY <1>7, CountReads DEF Bytes, Unreadable
  <2>2. CountOr(Wire(queue), DefaultQueue) = queue
    BY <1>7, CountOrReads
  <2>3. CountOr(Wire(relief), Word - 1) = relief
    <3>1. CASE relief <= Exact  BY <3>1, CountOrReads
    <3>2. CASE relief = Word - 1  BY <3>2, CountReads DEF CountOr
    <3> QED  BY <1>7, <3>1, <3>2
  <2>4. is = made  BY <1>1, <1>4, <2>1, <2>2
  <2>5. made = [version |-> version, thresholds |-> p.thresholds, delay |-> p.delay,
                max_queued_events |-> queue, max_relief_bytes |-> relief,
                default_max_age_us |-> DefaultAge]
    BY <2>1, <2>2, <2>3
  <2> HIDE DEF made
  <2>6. [p EXCEPT !.default_max_age_us = DefaultAge] = made  BY <1>1, <2>5
  <2> QED  BY <1>5, <2>4, <2>6
<1> QED  BY <1>1, <1>5, <1>6, <1>7

\* A second round changes no provider status (provider_status_from_string).
LEMMA HealthRead ==
  ASSUME NEW h, IsHealth(h)
  PROVE  /\ IsHealth(WriteHealth(h)) /\ ReadHealth(WriteHealth(h)) = WriteHealth(h)
         /\ WriteHealth(h) = HealthKept(h)
<1>1. \A x \in DOMAIN h : StatusName(h[x]) \in ProviderStatus
  BY DEF IsHealth, StatusName, ProviderStatus
<1>2. /\ WriteHealth(h) = [x \in DOMAIN h |-> StatusName(h[x])] /\ DOMAIN WriteHealth(h) = DOMAIN h
      /\ \A x \in DOMAIN h : WriteHealth(h)[x] = StatusName(h[x])
  BY DEF WriteHealth
<1>3. \A x \in DOMAIN h : StatusNamed(WriteHealth(h)[x]) = StatusName(h[x])
  BY <1>1, <1>2 DEF StatusNamed
<1>4. WriteHealth(h) = HealthKept(h)
  BY <1>2 DEF StatusName, HealthKept
<1> QED  BY <1>1, <1>2, <1>3, <1>4 DEF IsHealth, ReadHealth

(***************************************************************************)
(* Sequences, item by item.                                                *)
(***************************************************************************)
\* A loop over a vector makes a vector of the same length.
LEMMA Mapped ==
  ASSUME NEW s, IsSequence(s), NEW t, t = [i \in DOMAIN s |-> t[i]]
  PROVE  IsSequence(t) /\ DOMAIN t = DOMAIN s /\ Len(t) = Len(s)
<1>1. DOMAIN s = 1..Len(s) /\ Len(s) \in Nat
  BY DEF IsSequence
<1>2. DOMAIN t = 1..Len(s)
  BY <1>1
<1>3. \A i \in 1..Len(s) : t[i] \in Range(t)
  BY <1>2 DEF Range
<1>4. t \in Seq(Range(t))
  BY <1>1, <1>2, <1>3
<1> QED  BY <1>1, <1>2, <1>4 DEF IsSequence

(***************************************************************************)
(* Observations, frames and traces.                                        *)
(***************************************************************************)
\* An observation is read as it was written or not at all (observation_from_json).
LEMMA ObservationRead ==
  ASSUME NEW o, DomainObservation(o),
         NEW is, is = ReadObservation(WriteObservation(o))
  PROVE  /\ Within(o.counts) => is = o /\ is # Nothing
         /\ is # Nothing =>
              /\ DomainObservation(is) /\ is.id = o.id /\ DOMAIN is.counts = DOMAIN o.counts
              /\ \A x \in DOMAIN o.counts :
                   is.counts[x] = o.counts[x] \/ (o.counts[x] = Exact + 1 /\ is.counts[x] = Exact)
<1>1. IsCounts(o.counts) /\ o = [id |-> o.id, validity |-> o.validity, counts |-> o.counts]
  BY DEF DomainObservation
<1> DEFINE c == ReadCounts(WriteCounts(o.counts))
           made == [id |-> o.id, validity |-> o.validity, counts |-> c]
<1>2. is = IF AllReadable(WriteCounts(o.counts)) THEN made ELSE Nothing
  BY DEF ReadObservation, WriteObservation
<1>3. /\ IsCounts(c) /\ DOMAIN c = DOMAIN o.counts
      /\ Within(o.counts) => c = o.counts /\ AllReadable(WriteCounts(o.counts))
      /\ AllReadable(WriteCounts(o.counts)) =>
           \A x \in DOMAIN o.counts : c[x] = o.counts[x] \/ (o.counts[x] = Exact + 1 /\ c[x] = Exact)
  BY <1>1, CountsRead
<1> HIDE DEF c
<1>4. made # Nothing
  <2>1. "counts" \in DOMAIN made /\ "counts" \notin DOMAIN Nothing  BY DEF Nothing
  <2> QED  BY <2>1
<1>5. Within(o.counts) => is = o /\ is # Nothing
  BY <1>1, <1>2, <1>3, <1>4
<1>6. ASSUME is # Nothing
      PROVE  /\ DomainObservation(is) /\ is.id = o.id /\ DOMAIN is.counts = DOMAIN o.counts
             /\ \A x \in DOMAIN o.counts :
                  is.counts[x] = o.counts[x] \/ (o.counts[x] = Exact + 1 /\ is.counts[x] = Exact)
  <2>1. AllReadable(WriteCounts(o.counts)) /\ is = made  BY <1>2, <1>6
  <2>2. DomainObservation(made)  BY <1>3 DEF DomainObservation
  <2> QED  BY <1>3, <2>1, <2>2
<1> QED  BY <1>5, <1>6

\* Every count of a frame is within the exact range.
FrameFits(f) ==
  /\ f.timestamp_ms <= Exact
  /\ \A k \in DOMAIN f.observations : Within(f.observations[k].counts)

Readable(f) == \A k \in DOMAIN f.observations : f.observations[k] # Nothing

\* A frame whose observations were all read has the recorded ones (trace_from_json).
LEMMA FrameRead ==
  ASSUME NEW f, TraceFrame(f),
         NEW is, is = ReadFrame(WriteFrame(f))
  PROVE  /\ Readable(is) => TraceFrame(is) /\ Same(f.observations, is.observations)
         /\ FrameFits(f)  => Readable(is) /\ is = [f EXCEPT !.health = HealthKept(@)]
<1> DEFINE seq == f.observations
           obs == [k \in DOMAIN seq |-> ReadObservation(WriteObservation(seq[k]))]
           t   == CountOr(Wire(f.timestamp_ms), 0)
           h   == WriteHealth(f.health)
<1>1. /\ f = [timestamp_ms |-> f.timestamp_ms, health |-> f.health, observations |-> seq]
      /\ f.timestamp_ms \in Bytes /\ IsHealth(f.health) /\ IsSequence(seq)
      /\ \A k \in DOMAIN seq : DomainObservation(seq[k])
  BY DEF TraceFrame
<1>2. is = [timestamp_ms |-> t, health |-> h, observations |-> obs]
  <2>1. WriteFrame(f) =
          [timestamp_ms |-> Wire(f.timestamp_ms), health |-> h,
           observations |-> [k \in DOMAIN seq |-> WriteObservation(seq[k])]]
    BY DEF WriteFrame
  <2>2. ReadHealth(h) = h
    BY <1>1, HealthRead
  <2> HIDE DEF h
  <2> QED  BY <2>1, <2>2 DEF ReadFrame
<1>3. /\ t \in Bytes /\ (f.timestamp_ms <= Exact => t = f.timestamp_ms) /\ IsHealth(h)
      /\ h = HealthKept(f.health)
  BY <1>1, HealthRead, CountOrReads
<1>4. IsSequence(obs) /\ DOMAIN obs = DOMAIN seq /\ \A k \in DOMAIN seq : obs[k] = ReadObservation(WriteObservation(seq[k]))
  <2>1. obs = [k \in DOMAIN seq |-> obs[k]]  OBVIOUS
  <2> HIDE DEF obs
  <2>2. IsSequence(obs) /\ DOMAIN obs = DOMAIN seq  BY <1>1, <2>1, Mapped
  <2> QED  BY <2>2 DEF obs
<1> HIDE DEF t, h
<1>5. ASSUME NEW k \in DOMAIN seq
      PROVE  /\ Within(seq[k].counts) => obs[k] = seq[k] /\ obs[k] # Nothing
             /\ obs[k] # Nothing =>
                  /\ DomainObservation(obs[k]) /\ obs[k].id = seq[k].id
                  /\ DOMAIN obs[k].counts = DOMAIN seq[k].counts
                  /\ \A x \in DOMAIN seq[k].counts :
                       \/ obs[k].counts[x] = seq[k].counts[x]
                       \/ seq[k].counts[x] = Exact + 1 /\ obs[k].counts[x] = Exact
  <2>1. DomainObservation(seq[k]) /\ obs[k] = ReadObservation(WriteObservation(seq[k]))
    BY <1>1, <1>4
  <2> HIDE DEF seq, obs
  <2> QED  BY <2>1, ObservationRead
<1>6. is.observations = obs /\ is.timestamp_ms = t /\ is.health = h
  BY <1>2
<1>7. ASSUME Readable(is)  PROVE TraceFrame(is) /\ Same(seq, is.observations)
  <2>1. \A k \in DOMAIN seq : obs[k] # Nothing  BY <1>4, <1>6, <1>7 DEF Readable
  <2> HIDE DEF seq, obs
  <2>2. \A k \in DOMAIN obs : DomainObservation(obs[k])  BY <1>4, <1>5, <2>1
  <2>3. TraceFrame(is)  BY <1>2, <1>3, <1>4, <1>6, <2>2 DEF TraceFrame
  <2>4. Same(seq, obs)  BY <1>4, <1>5, <2>1 DEF Same
  <2> QED  BY <1>6, <2>3, <2>4
<1>8. ASSUME FrameFits(f)  PROVE Readable(is) /\ is = [f EXCEPT !.health = HealthKept(@)]
  <2>1. \A k \in DOMAIN seq : Within(seq[k].counts)  BY <1>8 DEF FrameFits
  <2>2. f.timestamp_ms <= Exact  BY <1>8 DEF FrameFits
  <2>3. seq = [k \in DOMAIN seq |-> seq[k]]  BY <1>1 DEF IsSequence
  <2>4. obs = [k \in DOMAIN seq |-> obs[k]]  OBVIOUS
  <2> HIDE DEF seq, obs
  <2>5. \A k \in DOMAIN seq : obs[k] = seq[k] /\ obs[k] # Nothing  BY <1>5, <2>1
  <2>6. obs = seq  BY <2>3, <2>4, <2>5
  <2>7. Readable(is)  BY <1>4, <1>6, <2>5 DEF Readable
  <2>8. is = [timestamp_ms |-> f.timestamp_ms, health |-> h, observations |-> seq]
    BY <1>2, <1>3, <2>2, <2>6
  <2>9. [f EXCEPT !.health = HealthKept(@)] =
           [timestamp_ms |-> f.timestamp_ms, health |-> h, observations |-> seq]
    BY <1>1, <1>3 DEF seq
  <2> QED  BY <2>7, <2>8, <2>9
<1> QED  BY <1>7, <1>8

\* What trace_from_json returns is a trace, and of the one written.
LEMMA TraceRead ==
  ASSUME NEW t, PressureTrace(t),
         NEW is, is = ReadTrace(WriteTrace(t))
  PROVE  /\ is # Nothing =>
              /\ PressureTrace(is)
              /\ DOMAIN is.frames = DOMAIN t.frames /\ Len(is.frames) = Len(t.frames)
              /\ \A i \in DOMAIN t.frames : Same(t.frames[i].observations, is.frames[i].observations)
         /\ t.policy_version <= Exact /\ (\A i \in DOMAIN t.frames : FrameFits(t.frames[i]))
            => /\ is # Nothing
               /\ is = [t EXCEPT !.frames = [i \in DOMAIN t.frames |->
                                               [t.frames[i] EXCEPT !.health = HealthKept(@)]]]
<1> DEFINE seq == t.frames
           frs == [i \in DOMAIN seq |-> ReadFrame(WriteFrame(seq[i]))]
           v   == CountOr(Wire(t.policy_version), 1)
           made == [policy_version |-> v, frames |-> frs]
<1>1. /\ t = [policy_version |-> t.policy_version, frames |-> seq]
      /\ t.policy_version \in Bytes /\ IsSequence(seq)
      /\ \A i \in DOMAIN seq : TraceFrame(seq[i])
  BY DEF PressureTrace
<1>2. is = IF \A i \in DOMAIN frs : Readable(frs[i]) THEN made ELSE Nothing
  <2>1. WriteTrace(t) = [policy_version |-> Wire(t.policy_version),
                         frames |-> [i \in DOMAIN seq |-> WriteFrame(seq[i])]]
    BY DEF WriteTrace
  <2> DEFINE doc == WriteTrace(t)
             all == [i \in DOMAIN doc.frames |-> ReadFrame(doc.frames[i])]
  <2>2. /\ DOMAIN doc.frames = DOMAIN seq /\ doc.policy_version = Wire(t.policy_version)
        /\ \A i \in DOMAIN seq : doc.frames[i] = WriteFrame(seq[i])
    BY <2>1
  <2> HIDE DEF doc
  <2>3. all = frs  BY <2>2
  <2>4. is = IF \E i \in DOMAIN all : \E k \in DOMAIN all[i].observations : all[i].observations[k] = Nothing
             THEN Nothing
             ELSE [policy_version |-> CountOr(doc.policy_version, 1), frames |-> all]
    BY DEF ReadTrace, doc
  <2> HIDE DEF all
  <2>5. (\A i \in DOMAIN all : Readable(all[i]))
        <=> ~\E i \in DOMAIN all : \E k \in DOMAIN all[i].observations : all[i].observations[k] = Nothing
    BY DEF Readable
  <2> HIDE DEF frs
  <2> QED  BY <2>2, <2>3, <2>4, <2>5
<1>3. v \in Bytes /\ (t.policy_version <= Exact => v = t.policy_version)
  <2>1. 1 \in Bytes  BY DEF Bytes
  <2>2. CountOr(Wire(t.policy_version), 0) \in Bytes  BY <1>1, CountOrReads
  <2>3. v \in Bytes  BY <2>1, <2>2 DEF CountOr
  <2> QED  BY <1>1, <2>3, CountOrReads
<1>4. /\ IsSequence(frs) /\ DOMAIN frs = DOMAIN seq /\ Len(frs) = Len(seq)
      /\ \A i \in DOMAIN seq : frs[i] = ReadFrame(WriteFrame(seq[i]))
  <2>1. frs = [i \in DOMAIN seq |-> frs[i]]  OBVIOUS
  <2> HIDE DEF frs
  <2>2. IsSequence(frs) /\ DOMAIN frs = DOMAIN seq /\ Len(frs) = Len(seq)  BY <1>1, <2>1, Mapped
  <2> QED  BY <2>2 DEF frs
<1>5. ASSUME NEW i \in DOMAIN seq
      PROVE  /\ Readable(frs[i]) => TraceFrame(frs[i]) /\ Same(seq[i].observations, frs[i].observations)
             /\ FrameFits(seq[i]) => Readable(frs[i]) /\ frs[i] = [seq[i] EXCEPT !.health = HealthKept(@)]
  <2>1. TraceFrame(seq[i]) /\ frs[i] = ReadFrame(WriteFrame(seq[i]))  BY <1>1, <1>4
  <2> HIDE DEF seq, frs
  <2> QED  BY <2>1, FrameRead
<1>6. made # Nothing
  <2>1. "frames" \in DOMAIN made /\ "frames" \notin DOMAIN Nothing  BY DEF Nothing
  <2> QED  BY <2>1
<1> HIDE DEF v
<1>7. ASSUME is # Nothing
      PROVE  /\ PressureTrace(is)
             /\ DOMAIN is.frames = DOMAIN seq /\ Len(is.frames) = Len(seq)
             /\ \A i \in DOMAIN seq : Same(seq[i].observations, is.frames[i].observations)
  <2> HIDE DEF seq, frs
  <2>1. is = made /\ \A i \in DOMAIN seq : Readable(frs[i])  BY <1>2, <1>4, <1>7
  <2>2. is.frames = frs /\ is.policy_version = v  BY <2>1
  <2>3. \A i \in DOMAIN seq : TraceFrame(frs[i]) /\ Same(seq[i].observations, frs[i].observations)
    BY <1>5, <2>1
  <2>4. PressureTrace(is)  BY <1>3, <1>4, <2>1, <2>2, <2>3 DEF PressureTrace
  <2> QED  BY <1>4, <2>2, <2>3, <2>4
<1>8. ASSUME t.policy_version <= Exact, \A i \in DOMAIN seq : FrameFits(seq[i])
      PROVE  /\ is # Nothing
             /\ is = [t EXCEPT !.frames = [i \in DOMAIN seq |-> [seq[i] EXCEPT !.health = HealthKept(@)]]]
  <2> DEFINE all == [i \in DOMAIN seq |-> [seq[i] EXCEPT !.health = HealthKept(@)]]
  <2>1. frs = [i \in DOMAIN seq |-> frs[i]]  OBVIOUS
  <2>2. \A i \in DOMAIN seq : Readable(frs[i]) /\ frs[i] = [seq[i] EXCEPT !.health = HealthKept(@)]
    <3> HIDE DEF seq, frs
    <3> QED  BY <1>5, <1>8
  <2>3. frs = all
    <3> HIDE DEF seq, frs
    <3> QED  BY <2>1, <2>2
  <2>4. is = made  BY <1>2, <1>4, <2>2
  <2>5. made = [policy_version |-> t.policy_version, frames |-> all]
    <3> HIDE DEF frs, all
    <3> QED  BY <1>3, <1>8, <2>3
  <2>6. [t EXCEPT !.frames = all] = [policy_version |-> t.policy_version, frames |-> all]
    <3> HIDE DEF all
    <3> QED  BY <1>1
  <2> QED  BY <1>6, <2>4, <2>5, <2>6
<1> QED  BY <1>7, <1>8

(***************************************************************************)
(* Domain states and snapshots.                                            *)
(***************************************************************************)
\* No count of a domain grows, and no room under its budget (domain_state_from_json).
LEMMA DomainRead ==
  ASSUME NEW d, DomainState(d),
         NEW is, is = ReadDomain(WriteDomain(d))
  PROVE  /\ DomainState(is) /\ is.id = d.id /\ DOMAIN is.counts = DOMAIN d.counts
         /\ \A x \in DOMAIN d.counts : is.counts[x] <= d.counts[x]
         /\ HeldAside(d.budget) < Word => UsableCapacity(is.budget) <= UsableCapacity(d.budget)
         /\ Within(d.counts) /\ Within(d.budget) => is = d
<1> DEFINE c == ReadCounts(WriteCounts(d.counts))
           r == ReadBudget(WriteBudget(d.budget))
           b == IF r = Nothing THEN DefaultBudget ELSE r
<1>1. /\ d = [id |-> d.id, level |-> d.level, governed |-> d.governed, counts |-> d.counts,
              budget |-> d.budget]
      /\ IsCounts(d.counts) /\ AcceptedBudget(d.budget)
  BY DEF DomainState
<1>2. is = [id |-> d.id, level |-> d.level, governed |-> d.governed, counts |-> c, budget |-> b]
  BY DEF ReadDomain, WriteDomain
<1>3. /\ IsCounts(c) /\ DOMAIN c = DOMAIN d.counts
      /\ \A x \in DOMAIN d.counts : c[x] <= d.counts[x]
      /\ Within(d.counts) => c = d.counts
  BY <1>1, CountsRead
<1>4. /\ Within(d.budget) => r = d.budget /\ d.budget # Nothing
      /\ r # Nothing =>
           /\ AcceptedBudget(r)
           /\ HeldAside(d.budget) < Word => UsableCapacity(r) <= UsableCapacity(d.budget)
  BY <1>1, BudgetRead
<1> HIDE DEF c, r
<1>5. /\ AcceptedBudget(b) /\ (Within(d.budget) => b = d.budget)
      /\ HeldAside(d.budget) < Word => UsableCapacity(b) <= UsableCapacity(d.budget)
  <2>1. CASE r = Nothing
    <3>1. UsableCapacity(d.budget) \in Nat  BY <1>1, NoBudget
    <3>2. UsableCapacity(b) = 0 /\ AcceptedBudget(b)  BY <2>1, NoBudget
    <3>3. ~Within(d.budget)  BY <1>4, <2>1
    <3> QED  BY <3>1, <3>2, <3>3
  <2>2. CASE r # Nothing
    <3>1. b = r  BY <2>2
    <3> HIDE DEF b
    <3> QED  BY <1>4, <2>2, <3>1
  <2> QED  BY <2>1, <2>2
<1> HIDE DEF b
<1>6. is.counts = c /\ is.budget = b /\ is.id = d.id
  BY <1>2
<1>7. DomainState(is)
  BY <1>2, <1>3, <1>5, <1>6 DEF DomainState
<1>8. Within(d.counts) /\ Within(d.budget) => is = d
  BY <1>1, <1>2, <1>3, <1>5
<1> QED  BY <1>3, <1>5, <1>6, <1>7, <1>8

\* What snapshot_from_json returns is a snapshot, and of the one written.
LEMMA SnapshotRead ==
  ASSUME NEW s, Snapshot(s),
         NEW is, is = ReadSnapshot(WriteSnapshot(s))
  PROVE  /\ is # Nothing =>
              /\ Snapshot(is)
              /\ \A i \in DOMAIN s.domains :
                   /\ \A x \in DOMAIN s.domains[i].counts :
                        is.domains[i].counts[x] <= s.domains[i].counts[x]
                   /\ HeldAside(s.domains[i].budget) < Word =>
                        UsableCapacity(is.domains[i].budget) <= UsableCapacity(s.domains[i].budget)
         /\ /\ Within(s.counts) /\ DistinctIds(s.domains)
            /\ \A i \in DOMAIN s.domains : Within(s.domains[i].counts) /\ Within(s.domains[i].budget)
            => is # Nothing /\ is = [s EXCEPT !.health = HealthKept(@)]
<1> DEFINE seq  == s.domains
           doms == [i \in DOMAIN seq |-> ReadDomain(WriteDomain(seq[i]))]
           c    == ReadCounts(WriteCounts(s.counts))
           h    == WriteHealth(s.health)
           made == [counts |-> c, health |-> h, domains |-> doms]
<1>1. /\ s = [counts |-> s.counts, health |-> s.health, domains |-> seq]
      /\ IsCounts(s.counts) /\ IsHealth(s.health) /\ IsSequence(seq)
      /\ \A i \in DOMAIN seq : DomainState(seq[i])
  BY DEF Snapshot
<1>2. is = IF DistinctIds(seq) THEN made ELSE Nothing
  <2> DEFINE doc == WriteSnapshot(s)
             all == [i \in DOMAIN doc.domains |-> ReadDomain(doc.domains[i])]
  <2>1. doc = [counts |-> WriteCounts(s.counts), health |-> h,
               domains |-> [i \in DOMAIN seq |-> WriteDomain(seq[i])]]
    BY DEF WriteSnapshot
  <2>2. /\ DOMAIN doc.domains = DOMAIN seq /\ doc.counts = WriteCounts(s.counts) /\ doc.health = h
        /\ \A i \in DOMAIN seq : doc.domains[i] = WriteDomain(seq[i])
    BY <2>1
  <2> HIDE DEF doc
  <2>3. \A i \in DOMAIN seq : doc.domains[i].id = seq[i].id
    <3>1. \A d : WriteDomain(d).id = d.id  BY DEF WriteDomain
    <3> HIDE DEF seq
    <3> QED  BY <2>2, <3>1
  <2>4. DistinctIds(doc.domains) <=> DistinctIds(seq)
    BY <2>2, <2>3 DEF DistinctIds
  <2>5. all = doms  BY <2>2
  <2>6. ReadHealth(h) = h  BY <1>1, HealthRead
  <2>7. is = IF ~DistinctIds(doc.domains) THEN Nothing
             ELSE [counts |-> ReadCounts(doc.counts), health |-> ReadHealth(doc.health), domains |-> all]
    BY DEF ReadSnapshot, doc
  <2> HIDE DEF all, doms, h
  <2> QED  BY <2>2, <2>4, <2>5, <2>6, <2>7
<1>3. /\ IsCounts(c) /\ (Within(s.counts) => c = s.counts) /\ IsHealth(h)
  BY <1>1, CountsRead, HealthRead
<1>4. /\ IsSequence(doms) /\ DOMAIN doms = DOMAIN seq
      /\ \A i \in DOMAIN seq : doms[i] = ReadDomain(WriteDomain(seq[i]))
  <2>1. doms = [i \in DOMAIN seq |-> doms[i]]  OBVIOUS
  <2> HIDE DEF doms
  <2>2. IsSequence(doms) /\ DOMAIN doms = DOMAIN seq  BY <1>1, <2>1, Mapped
  <2> QED  BY <2>2 DEF doms
<1>5. ASSUME NEW i \in DOMAIN seq
      PROVE  /\ DomainState(doms[i])
             /\ \A x \in DOMAIN seq[i].counts : doms[i].counts[x] <= seq[i].counts[x]
             /\ HeldAside(seq[i].budget) < Word =>
                  UsableCapacity(doms[i].budget) <= UsableCapacity(seq[i].budget)
             /\ Within(seq[i].counts) /\ Within(seq[i].budget) => doms[i] = seq[i]
  <2>1. DomainState(seq[i]) /\ doms[i] = ReadDomain(WriteDomain(seq[i]))  BY <1>1, <1>4
  <2> HIDE DEF seq, doms
  <2> QED  BY <2>1, DomainRead
<1>6. made # Nothing
  <2>1. "domains" \in DOMAIN made /\ "domains" \notin DOMAIN Nothing  BY DEF Nothing
  <2> QED  BY <2>1
<1>7. doms = [i \in DOMAIN seq |-> doms[i]]
  OBVIOUS
<1>8. seq = [i \in DOMAIN seq |-> seq[i]]
  BY <1>1 DEF IsSequence
<1>9. [s EXCEPT !.health = HealthKept(@)] = [counts |-> s.counts, health |-> h, domains |-> seq]
  <2>1. [s EXCEPT !.health = HealthKept(@)] =
          [counts |-> s.counts, health |-> HealthKept(s.health), domains |-> seq]
    BY <1>1
  <2>2. h = HealthKept(s.health)
    BY <1>1, HealthRead
  <2> QED  BY <2>1, <2>2
<1> HIDE DEF c, h, doms
<1>10. ASSUME is # Nothing
       PROVE  /\ Snapshot(is)
              /\ is.domains = doms
  <2>1. is = made  BY <1>2, <1>10
  <2>2. is.counts = c /\ is.health = h /\ is.domains = doms  BY <2>1
  <2> QED  BY <1>3, <1>4, <1>5, <2>1, <2>2 DEF Snapshot
<1>11. ASSUME Within(s.counts), DistinctIds(seq),
              \A i \in DOMAIN seq : Within(seq[i].counts) /\ Within(seq[i].budget)
       PROVE  is # Nothing /\ is = [s EXCEPT !.health = HealthKept(@)]
  <2>1. doms = seq  BY <1>4, <1>5, <1>7, <1>8, <1>11
  <2>2. is = made  BY <1>2, <1>11
  <2>3. made = [counts |-> s.counts, health |-> h, domains |-> seq]  BY <1>3, <1>11, <2>1
  <2> HIDE DEF made
  <2> QED  BY <1>6, <1>9, <2>2, <2>3
<1> HIDE DEF seq
<1>12. seq = s.domains  BY DEF seq
<1> QED  BY <1>5, <1>10, <1>11, <1>12

(***************************************************************************)
(* A round through a document, whatever was saved.                         *)
(***************************************************************************)
ReadBack(thing) == Read([kind |-> thing.kind, value |-> Write(thing)])

LEMMA ReadBackIs ==
  ASSUME NEW thing
  PROVE
    /\ thing.kind = "budget" =>
         /\ Write(thing) = WriteBudget(thing.value)
         /\ ReadBack(thing) = ReadBudget(WriteBudget(thing.value))
    /\ thing.kind = "policy" =>
         /\ Write(thing) = WritePolicy(thing.value)
         /\ ReadBack(thing) = ReadPolicy(WritePolicy(thing.value))
    /\ thing.kind = "trace" =>
         /\ Write(thing) = WriteTrace(thing.value)
         /\ ReadBack(thing) = ReadTrace(WriteTrace(thing.value))
    /\ thing.kind = "snapshot" =>
         /\ Write(thing) = WriteSnapshot(thing.value)
         /\ ReadBack(thing) = ReadSnapshot(WriteSnapshot(thing.value))
BY DEF ReadBack, Read, Write

\* A document of anything says more than nothing.
LEMMA SomethingWritten ==
  ASSUME NEW thing, Saveable(thing)
  PROVE  Write(thing) # Nothing /\ thing # Nothing
<1> DEFINE w == Write(thing)
<1>1. thing # Nothing
  BY DEF Saveable, Nothing
<1>2. DOMAIN Nothing = {"kind"}
  BY DEF Nothing
<1>3. CASE thing.kind = "budget"
  <2>1. thing.value \in Budget /\ thing.value.reserves \in Bytes
    BY <1>3 DEF Saveable, AcceptedBudget
  <2>2. DOMAIN w = BudgetFields
    BY <1>3, <2>1, BudgetIsCounts, ReadBackIs DEF WriteBudget, WriteCounts
  <2> QED  BY <1>1, <1>2, <2>2 DEF BudgetFields
<1>4. CASE thing.kind = "policy"
  <2>1. "version" \in DOMAIN WritePolicy(thing.value)  BY DEF WritePolicy
  <2>2. w = WritePolicy(thing.value)  BY <1>4, ReadBackIs
  <2> HIDE DEF w
  <2>3. w # Nothing  BY <1>2, <2>1, <2>2
  <2> QED  BY <1>1, <2>3 DEF w
<1>5. CASE thing.kind = "trace"
  <2>1. "frames" \in DOMAIN WriteTrace(thing.value)  BY DEF WriteTrace
  <2>2. w = WriteTrace(thing.value)  BY <1>5, ReadBackIs
  <2> HIDE DEF w
  <2>3. w # Nothing  BY <1>2, <2>1, <2>2
  <2> QED  BY <1>1, <2>3 DEF w
<1>6. CASE thing.kind = "snapshot"
  <2>1. "domains" \in DOMAIN WriteSnapshot(thing.value)  BY DEF WriteSnapshot
  <2>2. w = WriteSnapshot(thing.value)  BY <1>6, ReadBackIs
  <2> HIDE DEF w
  <2>3. w # Nothing  BY <1>2, <2>1, <2>2
  <2> QED  BY <1>1, <2>3 DEF w
<1> QED  BY <1>3, <1>4, <1>5, <1>6 DEF Saveable

\* What is read is something that can be saved again.
LEMMA ReadBackSaveable ==
  ASSUME NEW thing, Saveable(thing), ReadBack(thing) # Nothing
  PROVE  Saveable([kind |-> thing.kind, value |-> ReadBack(thing)])
<1>1. CASE thing.kind = "budget"
  BY <1>1, ReadBackIs, BudgetRead DEF Saveable
<1>2. CASE thing.kind = "policy"
  BY <1>2, ReadBackIs, PolicyRead DEF Saveable
<1>3. CASE thing.kind = "trace"
  BY <1>3, ReadBackIs, TraceRead DEF Saveable
<1>4. CASE thing.kind = "snapshot"
  BY <1>4, ReadBackIs, SnapshotRead DEF Saveable
<1> QED  BY <1>1, <1>2, <1>3, <1>4 DEF Saveable

\* Within the exact range everything is read, and is what can persist.
LEMMA FittingReadBack ==
  ASSUME NEW thing, Saveable(thing), Fits(thing)
  PROVE  Writable(thing) /\ ReadBack(thing) # Nothing /\ ReadBack(thing) = Persisted(thing)
<1> DEFINE v == thing.value
<1>1. CASE thing.kind = "budget"
  <2>1. AcceptedBudget(v) /\ Within(v) /\ Persisted(thing) = v
    BY <1>1 DEF Saveable, Fits, Persisted
  <2> QED  BY <1>1, <2>1, ReadBackIs, BudgetRead DEF Writable
<1>2. CASE thing.kind = "policy"
  <2>1. /\ AcceptedPolicy(v) /\ Writable(thing) /\ v.version <= Exact /\ v.max_queued_events <= Exact
        /\ v.max_relief_bytes <= Exact \/ v.max_relief_bytes = Word - 1
    BY <1>2 DEF Saveable, Fits
  <2>2. Persisted(thing) = [v EXCEPT !.default_max_age_us = DefaultAge]
    BY <1>2 DEF Persisted
  <2> QED  BY <1>2, <2>1, <2>2, ReadBackIs, PolicyRead
<1>3. CASE thing.kind = "trace"
  <2>1. /\ PressureTrace(v) /\ v.policy_version <= Exact
        /\ \A i \in DOMAIN v.frames : FrameFits(v.frames[i])
    BY <1>3 DEF Saveable, Fits, FrameFits
  <2>2. Persisted(thing) = [v EXCEPT !.frames = [i \in DOMAIN v.frames |->
                                                 [v.frames[i] EXCEPT !.health = HealthKept(@)]]]
    BY <1>3 DEF Persisted
  <2> QED  BY <1>3, <2>1, <2>2, ReadBackIs, TraceRead DEF Writable
<1>4. CASE thing.kind = "snapshot"
  <2>1. /\ Snapshot(v) /\ Within(v.counts) /\ DistinctIds(v.domains)
        /\ \A i \in DOMAIN v.domains : Within(v.domains[i].counts) /\ Within(v.domains[i].budget)
    BY <1>4 DEF Saveable, Fits
  <2>2. Persisted(thing) = [v EXCEPT !.health = HealthKept(@)]
    BY <1>4 DEF Persisted
  <2> QED  BY <1>4, <2>1, <2>2, ReadBackIs, SnapshotRead DEF Writable
<1> QED  BY <1>1, <1>2, <1>3, <1>4 DEF Saveable

(***************************************************************************)
(* The inductive invariant.                                                *)
(***************************************************************************)
\* Everything held or saved was accepted by a setter or read by a reader.
Held == Saveable(held) /\ (saved # Nothing => Saveable(saved))

Documented ==
  /\ document = Nothing <=> saved = Nothing
  /\ saved # Nothing => document = Document(saved)

\* What the last load made of the document.
Loaded ==
  /\ outcome \in {"none", "loaded", "refused"}
  /\ outcome # "none" => saved # Nothing
  /\ outcome = "loaded" =>
       Writable(saved) /\ ReadBack(saved) # Nothing /\ held = [kind |-> saved.kind, value |-> ReadBack(saved)]
  /\ outcome = "refused" => ~Writable(saved) \/ ReadBack(saved) = Nothing

\* Where a replay stands, and what it has returned.
Playing ==
  /\ IsSequence(fed)
  /\ held.kind = "trace" =>
       LET frames == held.value.frames
       IN  /\ index = IF Len(fed) < Len(frames) THEN Len(fed) ELSE Len(frames)
           /\ \A n \in DOMAIN fed : fed[n].observations = Played(frames, n - 1)

IInv == Held /\ Documented /\ Loaded /\ Playing

\* What Load gets out of the document of a thing.
LEMMA DocumentReads ==
  ASSUME NEW thing, Saveable(thing), NEW doc, doc = Document(thing)
  PROVE  /\ doc # Nothing /\ doc.kind = thing.kind
         /\ (IF doc.value = Nothing THEN Nothing ELSE Read(doc)) =
              (IF Writable(thing) THEN ReadBack(thing) ELSE Nothing)
<1>1. doc = [kind |-> thing.kind, value |-> IF Writable(thing) THEN Write(thing) ELSE Nothing]
  BY DEF Document
<1>2. doc # Nothing
  BY <1>1 DEF Saveable, Nothing
<1>3. Write(thing) # Nothing
  BY SomethingWritten
<1>4. CASE Writable(thing)
  <2>1. doc = [kind |-> thing.kind, value |-> Write(thing)]  BY <1>1, <1>4
  <2>2. Read(doc) = ReadBack(thing)  BY <2>1 DEF ReadBack
  <2>3. doc.kind = thing.kind /\ doc.value = Write(thing)  BY <2>1
  <2> QED  BY <1>2, <1>3, <1>4, <2>2, <2>3
<1>5. CASE ~Writable(thing)
  <2>1. doc.kind = thing.kind /\ doc.value = Nothing  BY <1>1, <1>5
  <2> QED  BY <1>2, <1>5, <2>1
<1> QED  BY <1>4, <1>5

Extended(s, e, t) ==
  /\ IsSequence(t) /\ Len(t) = Len(s) + 1 /\ Len(s) \in Nat
  /\ DOMAIN s = 1..Len(s) /\ DOMAIN t = 1..(Len(s) + 1)
  /\ (\A n \in 1..Len(s) : t[n] = s[n]) /\ t[Len(s) + 1] = e

\* push_back.
LEMMA Appended ==
  ASSUME NEW s, IsSequence(s), NEW e
  PROVE  Extended(s, e, Append(s, e))
<1> DEFINE t == Append(s, e)
<1>1. DOMAIN s = 1..Len(s) /\ Len(s) \in Nat
  BY DEF IsSequence
<1> DEFINE S == Range(s) \cup {e}
<1>2. s \in Seq(S)
  <2>1. \A n \in 1..Len(s) : s[n] \in Range(s)  BY <1>1 DEF Range
  <2>2. s = [n \in 1..Len(s) |-> s[n]]  BY DEF IsSequence
  <2> QED  BY <1>1, <2>1, <2>2
<1>3. /\ t \in Seq(S) /\ Len(t) = Len(s) + 1
      /\ (\A n \in 1..Len(s) : t[n] = s[n]) /\ t[Len(s) + 1] = e
  <2>1. e \in S  OBVIOUS
  <2> HIDE DEF S
  <2> QED  BY <1>2, <2>1, AppendProperties
<1>4. DOMAIN t = 1..(Len(s) + 1)
  BY <1>3
<1>5. IsSequence(t)
  <2>1. t = [n \in 1..Len(t) |-> t[n]]
    <3> HIDE DEF S
    <3>1. t \in [1..Len(t) -> S]  BY <1>3, LenProperties
    <3> QED  BY <3>1
  <2>2. \A n \in 1..Len(t) : t[n] \in Range(t)  BY <1>3, <1>4 DEF Range
  <2>3. Len(t) \in Nat  BY <1>1, <1>3
  <2> QED  BY <2>1, <2>2, <2>3 DEF IsSequence
<1> QED  BY <1>1, <1>3, <1>4, <1>5 DEF Extended

LEMMA Initially == Init => IInv
<1> SUFFICES ASSUME Init  PROVE IInv
  OBVIOUS
<1>1. Saveable(held) /\ saved = Nothing /\ document = Nothing /\ outcome = "none" /\ index = 0 /\ fed = <<>>
  BY DEF Init
<1>2. Held /\ Documented /\ Loaded
  BY <1>1 DEF Held, Documented, Loaded
<1>3. Playing
  <2>1. IsSequence(fed) /\ Len(fed) = 0 /\ DOMAIN fed = {}  BY <1>1 DEF IsSequence
  <2>2. ASSUME held.kind = "trace"  PROVE Len(held.value.frames) \in Nat
    BY <1>1, <2>2 DEF Saveable, PressureTrace, IsSequence
  <2> QED  BY <1>1, <2>1, <2>2 DEF Playing
<1> QED  BY <1>2, <1>3 DEF IInv

LEMMA SaveKeeps == IInv /\ Save => IInv'
<1> SUFFICES ASSUME IInv, Save  PROVE IInv'
  OBVIOUS
<1>1. /\ Saveable(held) /\ held' = held /\ saved' = held /\ document' = Document(held)
      /\ outcome' = "none" /\ index' = index /\ fed' = fed
  BY DEF IInv, Held, Save
<1>2. held # Nothing /\ Document(held) # Nothing
  BY <1>1, SomethingWritten, DocumentReads
<1>3. Held' /\ Documented' /\ Loaded'
  BY <1>1, <1>2 DEF Held, Documented, Loaded
<1>4. Playing'
  BY <1>1 DEF IInv, Playing
<1> QED  BY <1>3, <1>4 DEF IInv

LEMMA LoadKeeps == IInv /\ Load => IInv'
<1> SUFFICES ASSUME IInv, Load  PROVE IInv'
  OBVIOUS
<1> DEFINE value == IF document.value = Nothing THEN Nothing ELSE Read(document)
<1>1. saved # Nothing /\ Saveable(saved) /\ document = Document(saved) /\ document # Nothing
  BY DEF IInv, Held, Documented, Load
<1>2. /\ document.kind = saved.kind
      /\ value = IF Writable(saved) THEN ReadBack(saved) ELSE Nothing
  BY <1>1, DocumentReads
<1>3. /\ document' = document /\ saved' = saved
      /\ \/ value = Nothing /\ outcome' = "refused" /\ held' = held /\ index' = index /\ fed' = fed
         \/ /\ value # Nothing /\ outcome' = "loaded" /\ held' = [kind |-> document.kind, value |-> value]
            /\ index' = 0 /\ fed' = <<>>
  BY DEF Load
<1> HIDE DEF value
<1>4. Documented'
  BY <1>1, <1>3 DEF Documented
<1>5. CASE value = Nothing
  <2>1. outcome' = "refused" /\ held' = held /\ index' = index /\ fed' = fed  BY <1>3, <1>5
  <2>2. Held'  BY <1>3, <2>1 DEF IInv, Held
  <2>3. Loaded'  BY <1>1, <1>2, <1>3, <1>5, <2>1 DEF Loaded
  <2>4. Playing'  BY <2>1 DEF IInv, Playing
  <2> QED  BY <1>4, <2>2, <2>3, <2>4 DEF IInv
<1>6. CASE value # Nothing
  <2>1. outcome' = "loaded" /\ index' = 0 /\ fed' = <<>>  BY <1>3, <1>6
  <2>2. Writable(saved) /\ ReadBack(saved) # Nothing /\ held' = [kind |-> saved.kind, value |-> ReadBack(saved)]
    BY <1>2, <1>3, <1>6
  <2>3. Saveable(held')  BY <1>1, <2>2, ReadBackSaveable
  <2>4. Held'  BY <1>1, <1>3, <2>3 DEF Held
  <2>5. Loaded'  BY <1>1, <1>3, <2>1, <2>2 DEF Loaded
  <2>6. Playing'
    <3>1. IsSequence(fed') /\ Len(fed') = 0 /\ DOMAIN fed' = {}  BY <2>1 DEF IsSequence
    <3>2. ASSUME held'.kind = "trace"  PROVE Len(held'.value.frames) \in Nat
      BY <2>3, <3>2 DEF Saveable, PressureTrace, IsSequence
    <3> QED  BY <2>1, <3>1, <3>2 DEF Playing
  <2> QED  BY <1>4, <2>4, <2>5, <2>6 DEF IInv
<1> QED  BY <1>5, <1>6

LEMMA SampleKeeps == IInv /\ SampleTrace => IInv'
<1> SUFFICES ASSUME IInv, SampleTrace  PROVE IInv'
  OBVIOUS
<1>1. held' = held /\ document' = document /\ saved' = saved /\ outcome' = outcome
  BY DEF SampleTrace
<1>2. Held' /\ Documented' /\ Loaded'
  BY <1>1 DEF IInv, Held, Documented, Loaded
<1>3. Playing'
  <2> DEFINE e == [status |-> "Healthy", observations |-> Played(held.value.frames, index)]
  <2>1. PICK frames : frames = held.value.frames
    OBVIOUS
  <2>2. /\ held.kind = "trace" /\ fed' = Append(fed, e)
        /\ index' = IF index < Len(frames) THEN index + 1 ELSE index
    BY <2>1 DEF SampleTrace
  <2>3. Len(frames) \in Nat
    BY <2>1, <2>2 DEF IInv, Held, Saveable, PressureTrace, IsSequence
  <2>4. /\ IsSequence(fed) /\ index = IF Len(fed) < Len(frames) THEN Len(fed) ELSE Len(frames)
        /\ \A n \in DOMAIN fed : fed[n].observations = Played(frames, n - 1)
    BY <2>1, <2>2 DEF IInv, Playing
  <2>5. e.observations = Played(frames, index)
    BY <2>1
  <2> HIDE DEF e
  <2>6. /\ IsSequence(fed') /\ Len(fed') = Len(fed) + 1 /\ Len(fed) \in Nat
        /\ DOMAIN fed = 1..Len(fed) /\ DOMAIN fed' = 1..(Len(fed) + 1)
        /\ (\A n \in 1..Len(fed) : fed'[n] = fed[n]) /\ fed'[Len(fed) + 1] = e
    <3>1. Extended(fed, e, fed')
      <4>1. Extended(fed, e, Append(fed, e))  BY <2>4, Appended
      <4> QED  BY <2>2, <4>1
    <3> QED  BY <3>1 DEF Extended
  <2>7. index' = IF Len(fed') < Len(frames) THEN Len(fed') ELSE Len(frames)
    BY <2>2, <2>3, <2>4, <2>6
  <2>8. Played(frames, index) = Played(frames, Len(fed))
    BY <2>3, <2>4, <2>6 DEF Played
  <2>9. \A n \in 1..(Len(fed) + 1) : fed'[n].observations = Played(frames, n - 1)
    <3> SUFFICES ASSUME NEW n \in 1..(Len(fed) + 1)  PROVE fed'[n].observations = Played(frames, n - 1)
      OBVIOUS
    <3>1. CASE n \in 1..Len(fed)  BY <2>4, <2>6, <3>1
    <3>2. CASE n = Len(fed) + 1
      <4>1. n - 1 = Len(fed)  BY <2>6, <3>2
      <4> QED  BY <2>5, <2>6, <2>8, <3>2, <4>1
    <3> QED  BY <2>6, <3>1, <3>2
  <2>10. held'.value.frames = frames  BY <1>1, <2>1
  <2> QED  BY <2>6, <2>7, <2>9, <2>10 DEF Playing
<1> QED  BY <1>2, <1>3 DEF IInv

\* The program holds and has saved what can be saved, the document is of what was
\* saved last, what is loaded is what can be read of it, and the samples of a
\* replay follow its index (json_dump, json_parse, TraceProvider::sample).
THEOREM Invariance == Spec => []IInv
<1>1. IInv /\ [Next]_vars => IInv'
  <2> SUFFICES ASSUME IInv, [Next]_vars  PROVE IInv'
    OBVIOUS
  <2>1. CASE Save  BY <2>1, SaveKeeps
  <2>2. CASE Load  BY <2>2, LoadKeeps
  <2>3. CASE SampleTrace  BY <2>3, SampleKeeps
  <2>4. CASE UNCHANGED vars
    BY <2>4 DEF vars, IInv, Held, Documented, Loaded, Playing
  <2> QED  BY <2>1, <2>2, <2>3, <2>4 DEF Next
<1> QED  BY <1>1, Initially, PTL DEF Spec

(***************************************************************************)
(* What it gives.                                                          *)
(***************************************************************************)
\* What stays within 2^53 loads, and loads as it was saved except for the
\* freshness bounds of a policy and for a PARTIAL health, which comes back as
\* UNAVAILABLE (serialize.cpp, Json::as_uint64, to_string(ProviderStatus)).
THEOREM Lossless == Spec => []LosslessWithinLimit
<1>1. IInv => LosslessWithinLimit
  <2> SUFFICES ASSUME IInv, outcome # "none", saved # Nothing, Fits(saved)
               PROVE  outcome = "loaded" /\ held.value = Persisted(saved)
    BY DEF LosslessWithinLimit
  <2>1. Saveable(saved)  BY DEF IInv, Held
  <2>2. Writable(saved) /\ ReadBack(saved) # Nothing /\ ReadBack(saved) = Persisted(saved)
    BY <2>1, FittingReadBack
  <2>3. outcome = "loaded"  BY <2>2 DEF IInv, Loaded
  <2>4. held = [kind |-> saved.kind, value |-> ReadBack(saved)]  BY <2>3 DEF IInv, Loaded
  <2> QED  BY <2>2, <2>3, <2>4
<1> QED  BY <1>1, Invariance, PTL

\* What the loaded trace is of the saved one.
LEMMA LoadedTrace ==
  ASSUME IInv, outcome = "loaded", saved.kind = "trace"
  PROVE  /\ held.kind = "trace" /\ PressureTrace(held.value)
         /\ DOMAIN held.value.frames = DOMAIN saved.value.frames
         /\ Len(held.value.frames) = Len(saved.value.frames)
         /\ \A i \in DOMAIN saved.value.frames :
              Same(saved.value.frames[i].observations, held.value.frames[i].observations)
<1>1. saved # Nothing /\ ReadBack(saved) # Nothing /\ held = [kind |-> saved.kind, value |-> ReadBack(saved)]
  BY DEF IInv, Loaded
<1>2. Saveable(saved)
  BY <1>1 DEF IInv, Held
<1>3. PressureTrace(saved.value)
  BY <1>2 DEF Saveable
<1>4. PICK t, is : t = saved.value /\ is = ReadBack(saved) /\ is = ReadTrace(WriteTrace(t))
  BY ReadBackIs
<1>5. held.kind = "trace" /\ held.value = is
  BY <1>1, <1>4
<1>6. /\ PressureTrace(is) /\ DOMAIN is.frames = DOMAIN t.frames /\ Len(is.frames) = Len(t.frames)
      /\ \A i \in DOMAIN t.frames : Same(t.frames[i].observations, is.frames[i].observations)
  BY <1>1, <1>3, <1>4, TraceRead
<1> QED  BY <1>4, <1>5, <1>6

\* A recorded trace is read as a whole or refused: observation_from_json fails
\* on a count it cannot read, and trace_from_json on an observation.
THEOREM WholeTraces == Spec => []TraceIsWhole
<1>1. IInv => TraceIsWhole
  BY LoadedTrace DEF TraceIsWhole
<1> QED  BY <1>1, Invariance, PTL

\* The n-th sample of a TraceProvider over a loaded trace is the n-th recorded
\* frame, and no sample follows the last one (TraceProvider::sample).
THEOREM Replay == Spec => []ReplayIsTheRecording
<1>1. IInv => ReplayIsTheRecording
  <2> SUFFICES ASSUME IInv, outcome = "loaded", saved.kind = "trace", NEW n \in DOMAIN fed
               PROVE  IF n <= Len(saved.value.frames)
                      THEN Same(saved.value.frames[n].observations, fed[n].observations)
                      ELSE fed[n].observations = <<>>
    BY DEF ReplayIsTheRecording
  <2>1. PICK was, is : was = saved.value.frames /\ is = held.value.frames
    OBVIOUS
  <2>2. /\ held.kind = "trace" /\ IsSequence(is) /\ DOMAIN is = DOMAIN was /\ Len(is) = Len(was)
        /\ \A i \in DOMAIN was : Same(was[i].observations, is[i].observations)
    BY <2>1, LoadedTrace DEF PressureTrace
  <2>3. Len(is) \in Nat /\ DOMAIN is = 1..Len(is)
    BY <2>2 DEF IsSequence
  <2>4. n \in Nat /\ n >= 1 /\ n - 1 + 1 = n
    BY DEF IInv, Playing, IsSequence
  <2>5. fed[n].observations = Played(is, n - 1)
    BY <2>1, <2>2 DEF IInv, Playing
  <2>6. CASE n <= Len(is)
    <3>1. fed[n].observations = is[n].observations  BY <2>3, <2>4, <2>5, <2>6 DEF Played
    <3>2. n \in DOMAIN was  BY <2>2, <2>3, <2>4, <2>6
    <3> QED  BY <2>1, <2>2, <2>6, <3>1, <3>2
  <2>7. CASE ~(n <= Len(is))
    <3>1. fed[n].observations = <<>>  BY <2>3, <2>4, <2>5, <2>7 DEF Played
    <3> QED  BY <2>1, <2>2, <2>7, <3>1
  <2> QED  BY <2>6, <2>7
<1> QED  BY <1>1, Invariance, PTL

\* A round through a document makes no memory: budget_from_json and
\* domain_state_from_json never leave more usable capacity than was saved.
THEOREM NoInflation == Spec => []NothingInflated
<1>1. IInv => NothingInflated
  <2> SUFFICES ASSUME IInv, outcome = "loaded"
               PROVE  NothingInflated
    BY DEF NothingInflated
  <2>1. saved # Nothing /\ ReadBack(saved) # Nothing /\ held = [kind |-> saved.kind, value |-> ReadBack(saved)]
    BY DEF IInv, Loaded
  <2>2. Saveable(saved)
    BY <2>1 DEF IInv, Held
  <2>3. PICK was, is : was = saved.value /\ is = held.value /\ is = ReadBack(saved) /\ is # Nothing
    BY <2>1
  <2>4. CASE saved.kind = "budget"
    <3>1. AcceptedBudget(was) /\ is = ReadBudget(WriteBudget(was))  BY <2>2, <2>3, <2>4, ReadBackIs DEF Saveable
    <3>2. HeldAside(was) < Word => UsableCapacity(is) <= UsableCapacity(was)  BY <2>3, <3>1, BudgetRead
    <3> QED  BY <2>3, <2>4, <3>2 DEF NothingInflated
  <2>5. CASE saved.kind = "snapshot"
    <3>1. Snapshot(was) /\ is = ReadSnapshot(WriteSnapshot(was))  BY <2>2, <2>3, <2>5, ReadBackIs DEF Saveable
    <3>2. \A i \in DOMAIN was.domains :
            /\ \A x \in DOMAIN was.domains[i].counts :
                 is.domains[i].counts[x] <= was.domains[i].counts[x]
            /\ HeldAside(was.domains[i].budget) < Word =>
                 UsableCapacity(is.domains[i].budget) <= UsableCapacity(was.domains[i].budget)
      BY <2>3, <3>1, SnapshotRead
    <3> QED  BY <2>3, <2>5, <3>2 DEF NothingInflated
  <2>6. CASE saved.kind \notin {"budget", "snapshot"}
    BY <2>6 DEF NothingInflated
  <2> QED  BY <2>4, <2>5, <2>6
<1> QED  BY <1>1, Invariance, PTL
===============================================================================
