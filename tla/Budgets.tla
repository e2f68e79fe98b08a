-------------------------------- MODULE Budgets --------------------------------
(***************************************************************************)
(* Governed budgets (budget.h, validate_budget) and what a refresh makes   *)
(* of an observation under one (runtime.cpp, 237-307): the capacities of   *)
(* the published DomainState.  Byte counts are unsigned words.             *)
(***************************************************************************)
EXTENDS PressureLevels

CONSTANT Word   \* 2^64 in the code

ASSUME WordAssumption == Word \in Nat \ {0}

Bytes == 0..(Word - 1)

\* struct Budget.  reserves is the true sum of the reserve vector, which the
\* code only ever adds up; soft_capacity 0 also stands for "not set", which
\* validate_budget treats alike.
Budget ==
  [hard_capacity           : Bytes, soft_capacity        : Bytes, reserves       : Nat,
   emergency_reserve_bytes : Bytes, minimum_free_reserve : Bytes, reclaim_target : Bytes,
   demotion_target         : Bytes, admission_headroom   : Bytes]

DefaultBudget ==
  [hard_capacity           |-> 0, soft_capacity        |-> 0, reserves       |-> 0,
   emergency_reserve_bytes |-> 0, minimum_free_reserve |-> 0, reclaim_target |-> 0,
   demotion_target         |-> 0, admission_headroom   |-> 0]

\* What the owner of the budget set aside, and what the code computes for it.
HeldAside(b) == b.emergency_reserve_bytes + b.reserves
ReserveBytes(b) == HeldAside(b) % Word

\* Mistake, for mutation: only the emergency reserve is held back.
UsableOfEmergencyOnly(b) == b.hard_capacity - b.emergency_reserve_bytes

UsableCapacity(b) ==
  IF b.hard_capacity >= ReserveBytes(b) THEN b.hard_capacity - ReserveBytes(b) ELSE 0

\* validate_budget: a zero hard capacity (ungoverned) is not checked further.
ValidBudget(b) ==
  IF b.hard_capacity = 0 THEN b.soft_capacity = 0
  ELSE /\ b.soft_capacity           <= b.hard_capacity
       /\ ReserveBytes(b)           <= b.hard_capacity
       /\ b.emergency_reserve_bytes <= b.hard_capacity
       /\ b.minimum_free_reserve    <= b.hard_capacity
       /\ b.reclaim_target          <= b.hard_capacity
       /\ b.demotion_target         <= b.hard_capacity
       /\ b.admission_headroom      <= b.hard_capacity

\* What a provider reports for a domain; usable is usable_capacity.value_or
\* (total_capacity).
Observation == [total : Bytes, usable : Bytes, committed : Bytes]

Saturating(a, b) == IF a > b THEN a - b ELSE 0

\* The capacity part of the DomainState that refresh publishes for observation
\* o when the configured budget is b (DefaultBudget when there is none).
Interpret(b, o) ==
  LET governed == b.hard_capacity # 0
      bud      == IF governed THEN b ELSE DefaultBudget
      usable   == IF governed THEN UsableCapacity(bud) ELSE o.usable
  IN  [governed  |-> governed,
       budget    |-> bud,
       total     |-> IF governed THEN bud.hard_capacity ELSE o.total,
       usable    |-> usable,
       committed |-> o.committed,
       available |-> Saturating(usable, o.committed)]

\* relief_bytes_for.
ReliefBytes(level, b) ==
  CASE level = High ->
         IF b.reclaim_target # 0 THEN b.reclaim_target ELSE b.hard_capacity \div 8
    [] level = Critical ->
         IF b.reclaim_target # 0 THEN (b.reclaim_target + b.demotion_target) % Word
                                 ELSE b.hard_capacity \div 4
    [] level = Exhausted ->
         IF b.demotion_target # 0 THEN b.demotion_target ELSE b.hard_capacity \div 2
    [] OTHER -> 0
===============================================================================
