SPECIFICATION Spec
CONSTANTS
  Scale = 100
  Word = 16
  Candidates <- SomeBudgets
  Observations <- SomeObservations
  Requests = {0, 1, 2, 4, 8}
INVARIANTS AdmissionKeepsReserves AdmissionIsMonotone SuggestionIsAdmitted
