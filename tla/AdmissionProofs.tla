---------------------------- MODULE AdmissionProofs ----------------------------
(***************************************************************************)
(* Admission never eats into the reserves of a budget, for every word      *)
(* size, every set of budgets, those whose reserves overflow included, and *)
(* everything a provider may report.                                       *)
(***************************************************************************)
EXTENDS Admission, TLAPS

USE DEF Normal, Elevated, High, Critical, Exhausted, Unknown, Levels

\* A budget that set_budget takes.
Fits(b) == b \in Budget /\ ValidBudget(b)

\* What a published state says of its capacities.
Accounted(s) ==
  /\ s.committed \in Nat /\ s.available \in Nat /\ s.total \in Nat
  /\ s.governed =>
       /\ HeldAside(s.budget) % Word \in Nat
       /\ s.available = 0 \/ s.committed + s.available + (HeldAside(s.budget) % Word) <= s.total

IInv ==
  /\ Fits(budget)
  /\ published # NotPublished => Accounted(published.state)
  /\ Admitted => /\ published # NotPublished
                 /\ answer.bytes \in Nat /\ answer.bytes <= published.state.available

\* Interpret: whatever is committed, the bytes it calls available are free on
\* top of it and of what the budget holds aside.
LEMMA InterpretIsAccounted ==
  ASSUME NEW b, Fits(b), NEW o \in Observation
  PROVE  Accounted(Interpret(b, o))
<1> DEFINE s == Interpret(b, o)
<1>1. /\ b.hard_capacity \in Nat /\ b.emergency_reserve_bytes \in Nat /\ b.reserves \in Nat
      /\ o.committed \in Nat /\ o.usable \in Nat /\ o.total \in Nat /\ Word \in Nat
  BY WordAssumption DEF Fits, Budget, Observation, Bytes
<1>2. CASE b.hard_capacity = 0
  <2>1. /\ s.governed = FALSE /\ s.total = o.total /\ s.committed = o.committed
        /\ s.available = Saturating(o.usable, o.committed)
    BY <1>2 DEF Interpret
  <2>2. Saturating(o.usable, o.committed) \in Nat
    BY <1>1 DEF Saturating
  <2>3. QED  BY <1>1, <2>1, <2>2 DEF Accounted
<1>3. CASE b.hard_capacity # 0
  <2> DEFINE aside == HeldAside(b) % Word
  <2>1. ReserveBytes(b) = aside /\ aside \in Nat
    BY <1>1, WordAssumption DEF ReserveBytes, HeldAside
  <2>2. UsableCapacity(b) = b.hard_capacity - aside /\ aside <= b.hard_capacity
    BY <1>1, <1>3, <2>1 DEF UsableCapacity, Fits, ValidBudget
  <2>3. /\ s.budget = b /\ s.total = b.hard_capacity /\ s.committed = o.committed
        /\ s.available = Saturating(UsableCapacity(b), o.committed)
    BY <1>3 DEF Interpret
  <2> HIDE DEF s, aside
  <2>4. s.available \in Nat
        /\ (s.available = 0 \/ s.committed + s.available = UsableCapacity(b))
    BY <1>1, <2>1, <2>2, <2>3 DEF Saturating
  <2>5. Accounted(s)
    BY <1>1, <2>1, <2>2, <2>3, <2>4 DEF Accounted, aside
  <2>6. QED  BY <2>5 DEF s
<1>4. QED  BY <1>2, <1>3

\* admit lets in at most the available bytes, whatever the level.
LEMMA DecideWithinAvailable ==
  ASSUME NEW level, NEW state, NEW bytes \in Nat, state.available \in Nat,
         Decide(level, state, bytes) \in {"ACCEPT", "CAUTION"}
  PROVE  bytes <= state.available
<1>1. CASE level = Normal    BY <1>1 DEF Decide
<1>2. CASE level = Elevated  BY <1>2 DEF Decide
<1>3. CASE level = High      BY <1>3 DEF Decide
<1>4. CASE level \in {Critical, Exhausted}  BY <1>4 DEF Decide
<1>5. CASE level \notin {Normal, Elevated, High, Critical, Exhausted}  BY <1>5 DEF Decide
<1>6. QED  BY <1>1, <1>2, <1>3, <1>4, <1>5

LEMMA AdmissionInit == Init => IInv
BY WordAssumption
   DEF Init, IInv, Fits, Budget, Bytes, DefaultBudget, ValidBudget, HeldAside, Admitted, NoAnswer

LEMMA AdmissionStep ==
  ASSUME IInv, [Next]_vars
  PROVE  IInv'
<1>1. ASSUME NEW b \in Candidates, SetBudget(b)  PROVE IInv'
  <2>1. Fits(b)
    BY <1>1, AdmissionAssumption DEF Fits, SetBudget
  <2>2. QED  BY <1>1, <2>1 DEF IInv, SetBudget, Admitted, NoAnswer
<1>2. CASE ClearBudget
  <2>1. Fits(DefaultBudget)
    BY WordAssumption DEF Fits, Budget, Bytes, DefaultBudget, ValidBudget, HeldAside
  <2>2. QED  BY <1>2, <2>1 DEF IInv, ClearBudget, Admitted, NoAnswer
<1>3. ASSUME NEW o \in Observations, NEW level \in Levels, Refresh(o, level)  PROVE IInv'
  <2>1. Accounted(Interpret(budget, o))
    BY <1>3, InterpretIsAccounted, AdmissionAssumption DEF IInv
  <2>2. QED  BY <1>3, <2>1 DEF IInv, Refresh, Admitted, NoAnswer
<1>4. ASSUME NEW bytes \in Requests, Admit(bytes)  PROVE IInv'
  <2>1. bytes \in Nat
    BY AdmissionAssumption, WordAssumption DEF Bytes
  <2>2. CASE published = NotPublished
    <3>1. answer'.decision = "DEFER"
      BY <1>4, <2>2 DEF Admit
    <3>2. QED  BY <1>4, <2>2, <3>1 DEF IInv, Admit, Admitted
  <2>3. CASE published # NotPublished
    <3>1. /\ answer'.bytes = bytes
          /\ answer'.decision = Decide(published.level, published.state, bytes)
      BY <1>4, <2>3 DEF Admit
    <3>2. Admitted' => bytes <= published.state.available
      BY <2>1, <2>3, <3>1, DecideWithinAvailable DEF Admitted, IInv, Accounted
    <3>3. QED  BY <1>4, <2>1, <2>3, <3>1, <3>2 DEF IInv, Admit
  <2>4. QED  BY <2>2, <2>3
<1>5. CASE Backpressure
  <2>1. answer'.query = "backpressure"  BY <1>5 DEF Backpressure
  <2>2. QED  BY <1>5, <2>1 DEF IInv, Backpressure, Admitted
<1>6. CASE ResponseFor
  <2>1. answer'.query = "response"  BY <1>6 DEF ResponseFor, NoResponse
  <2>2. QED  BY <1>6, <2>1 DEF IInv, ResponseFor, Admitted
<1>7. CASE UNCHANGED vars
  BY <1>7 DEF IInv, vars, Admitted
<1>8. QED  BY <1>1, <1>2, <1>3, <1>4, <1>5, <1>6, <1>7 DEF Next

\* Bytes that admit lets in fit under the governed ceiling on top of what is
\* committed and of the emergency and listed reserves as the code can add them
\* up, their sum taken modulo the word (usable_capacity, refresh's accounting
\* and admit together).  The floor minimum_free_reserve is not among them.
THEOREM ReservesAreKept == Spec => []AdmissionKeepsReserves
<1>1. IInv => AdmissionKeepsReserves
  BY DEF IInv, Accounted, AdmissionKeepsReserves
<1>2. IInv /\ [Next]_vars => IInv'
  BY AdmissionStep
<1>3. QED  BY AdmissionInit, <1>1, <1>2, PTL DEF Spec

-------------------------------------------------------------------------------
(* The answers agree with each other, reserves that overflow included *)

Sized ==
  /\ budget \in Budget
  /\ published # NotPublished => published.level \in Levels /\ published.state.available \in Nat
  /\ answer.query = "backpressure" =>
       answer.max_new_allocation = IF published = NotPublished THEN 0
                                   ELSE LargestAllocation(published.state.available)

LEMMA InterpretIsSized ==
  ASSUME NEW b \in Budget, NEW o \in Observation
  PROVE  Interpret(b, o).available \in Nat
<1>1. /\ b.hard_capacity \in Nat /\ b.emergency_reserve_bytes \in Nat /\ b.reserves \in Nat
      /\ o.committed \in Nat /\ o.usable \in Nat /\ Word \in Nat /\ Word > 0
  BY WordAssumption DEF Budget, Observation, Bytes
<1>2. UsableCapacity(b) \in Nat
  <2>1. HeldAside(b) \in Nat
    BY <1>1 DEF HeldAside
  <2>2. ReserveBytes(b) \in Nat
    BY <1>1, <2>1 DEF ReserveBytes
  <2>3. QED  BY <1>1, <2>2 DEF UsableCapacity
<1>3. Interpret(b, o).available \in {Saturating(UsableCapacity(b), o.committed),
                                     Saturating(o.usable, o.committed)}
  BY DEF Interpret
<1>4. QED  BY <1>1, <1>2, <1>3 DEF Saturating

LEMMA SizedInit == Init => Sized
BY WordAssumption DEF Init, Sized, Budget, Bytes, DefaultBudget, NoAnswer

LEMMA SizedStep == Sized /\ [Next]_vars => Sized'
<1> SUFFICES ASSUME Sized, [Next]_vars  PROVE Sized'
  OBVIOUS
<1>1. ASSUME NEW b \in Candidates, SetBudget(b)  PROVE Sized'
  BY <1>1, AdmissionAssumption DEF Sized, SetBudget, NoAnswer
<1>2. CASE ClearBudget
  <2>1. DefaultBudget \in Budget
    BY WordAssumption DEF Budget, Bytes, DefaultBudget
  <2>2. QED  BY <1>2, <2>1 DEF Sized, ClearBudget, NoAnswer
<1>3. ASSUME NEW o \in Observations, NEW level \in Levels, Refresh(o, level)  PROVE Sized'
  <2>1. Interpret(budget, o).available \in Nat
    BY InterpretIsSized, AdmissionAssumption DEF Sized
  <2>2. QED  BY <1>3, <2>1 DEF Sized, Refresh, NoAnswer
<1>4. ASSUME NEW bytes \in Requests, Admit(bytes)  PROVE Sized'
  <2>1. answer'.query = "admit"  BY <1>4 DEF Admit
  <2>2. QED  BY <1>4, <2>1 DEF Sized, Admit
<1>5. CASE Backpressure
  <2>1. answer'.max_new_allocation = IF published = NotPublished THEN 0
                                     ELSE LargestAllocation(published.state.available)
    BY <1>5 DEF Backpressure
  <2>2. QED  BY <1>5, <2>1 DEF Sized, Backpressure
<1>6. CASE ResponseFor
  <2>1. answer'.query = "response"  BY <1>6 DEF ResponseFor, NoResponse
  <2>2. QED  BY <1>6, <2>1 DEF Sized, ResponseFor
<1>7. CASE UNCHANGED vars
  BY <1>7 DEF Sized, vars
<1>8. QED  BY <1>1, <1>2, <1>3, <1>4, <1>5, <1>6, <1>7 DEF Next

\* The decision table never lets a request in at a worse level that it turns
\* away at a better one (admit).
THEOREM AdmissionNeverRelaxes == Spec => []AdmissionIsMonotone
<1>1. ASSUME Sized  PROVE AdmissionIsMonotone
  <2> SUFFICES ASSUME published # NotPublished, NEW bytes \in Requests, NEW better \in Levels,
                      better < published.level,
                      Decide(published.level, published.state, bytes) = "CAUTION"
               PROVE  Decide(better, published.state, bytes) \in {"ACCEPT", "CAUTION"}
    BY DEF AdmissionIsMonotone
  <2> DEFINE available == published.state.available
  <2>1. bytes \in Nat /\ available \in Nat /\ published.level \in Levels
    BY <1>1, AdmissionAssumption, WordAssumption DEF Sized, Bytes
  <2>2. \/ published.level = Elevated /\ bytes <= available \div 2
        \/ published.level = High /\ bytes <= available \div 4
    BY <2>1 DEF Decide
  <2>3. available \div 4 <= available \div 2 /\ available \div 2 <= available
    BY <2>1
  <2>4. CASE better = Normal
    BY <2>1, <2>2, <2>3, <2>4 DEF Decide
  <2>5. CASE better = Elevated
    <3>1. bytes <= available \div 2
      BY <2>1, <2>2, <2>3
    <3>2. QED  BY <2>5, <3>1 DEF Decide
  <2>6. QED  BY <2>1, <2>2, <2>4, <2>5
<1>2. QED  BY <1>1, SizedInit, SizedStep, PTL DEF Spec

\* An allocation of the size that backpressure suggests is let in by admit at
\* every level below CRITICAL (the quarter of the one against the shares of the
\* other).
THEOREM SuggestionsAreAdmitted == Spec => []SuggestionIsAdmitted
<1>1. ASSUME Sized  PROVE SuggestionIsAdmitted
  <2> SUFFICES ASSUME answer.query = "backpressure", published # NotPublished,
                      published.level < Critical
               PROVE  Decide(published.level, published.state, answer.max_new_allocation)
                        \in {"ACCEPT", "CAUTION"}
    BY <1>1 DEF SuggestionIsAdmitted, Sized
  <2> DEFINE available == published.state.available
  <2>1. /\ published.level \in Levels /\ available \in Nat
        /\ answer.max_new_allocation = available \div 4
    BY <1>1 DEF Sized, LargestAllocation
  <2>2. available \div 4 <= available \div 2 /\ available \div 2 <= available
    BY <2>1
  <2>3. published.level \in {Normal, Elevated, High}
    BY <2>1
  <2>4. QED  BY <2>1, <2>2, <2>3 DEF Decide
<1>2. QED  BY <1>1, SizedInit, SizedStep, PTL DEF Spec
===============================================================================
