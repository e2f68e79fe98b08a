------------------------------ MODULE MCAdmission ------------------------------
(***************************************************************************)
(* TLC instances of Admission: words of four bits, budgets that differ in  *)
(* every field that matters to an answer.                                  *)
(***************************************************************************)
EXTENDS Admission

BudgetOf(hard, emergency, reserves, floor, reclaim, demotion) ==
  [DefaultBudget EXCEPT !.hard_capacity = hard, !.emergency_reserve_bytes = emergency,
     !.reserves = reserves, !.minimum_free_reserve = floor, !.reclaim_target = reclaim,
     !.demotion_target = demotion]

\* Sums of reserves that fit in a word and one that wraps around it (2 + 15),
\* valid and invalid budgets among them.
SomeBudgets ==
  {BudgetOf(8, e, r, 0, c, d) : e \in {0, 2}, r \in {3, 7, 15}, c \in {0, 6}, d \in {0, 5}}
    \cup {BudgetOf(0, 0, 0, 0, 0, 0), BudgetOf(12, 1, 0, 6, 0, 0)}

SomeObservations ==
  {[total |-> t, usable |-> u, committed |-> c] : t \in {10}, u \in {0, 10}, c \in {0, 1, 4, 9}}
===============================================================================
