------------------------------- MODULE Admission -------------------------------
(***************************************************************************)
(* One domain's budget, its published state, and the questions consumers   *)
(* ask about it: set_budget and clear_budget configure it, refresh         *)
(* publishes an interpretation of what a provider observed, and admit,     *)
(* backpressure and response_for answer from the snapshot published last.  *)
(* The level is whatever the debounce machine holds at the time: any       *)
(* level, whatever the utilization (it is sticky).                         *)
(***************************************************************************)
EXTENDS Budgets, Responses, FiniteSets

CONSTANTS Candidates,    \* budgets a caller may configure
          Observations,  \* what a provider may report
          Requests       \* request sizes

ASSUME AdmissionAssumption ==
  /\ Candidates \subseteq Budget
  /\ Observations \subseteq Observation
  /\ Requests \subseteq Bytes

VARIABLES
  budget,     \* budgets_[id], DefaultBudget when there is none
  published,  \* the domain's state in the current snapshot, or NotPublished
  answer      \* what the step just taken answered its caller

vars == <<budget, published, answer>>

NotPublished == [published |-> FALSE]
NoAnswer     == [query |-> "none"]

Init == budget = DefaultBudget /\ published = NotPublished /\ answer = NoAnswer

\* An invalid budget is refused and leaves the configured one in place.
SetBudget(b) ==
  /\ ValidBudget(b)
  /\ budget' = b /\ answer' = NoAnswer
  /\ UNCHANGED published

ClearBudget ==
  /\ budget' = DefaultBudget /\ answer' = NoAnswer
  /\ UNCHANGED published

Refresh(o, level) ==
  /\ published' = [published |-> TRUE, level |-> level, state |-> Interpret(budget, o)]
  /\ answer' = NoAnswer
  /\ UNCHANGED budget

-------------------------------------------------------------------------------
(* The queries *)

\* Mistake, for mutation: HIGH and ELEVATED change places.
DecideSwapped(level, state, bytes) ==
  CASE level = Normal   -> IF bytes <= state.available THEN "ACCEPT" ELSE "DEFER"
    [] level = Elevated -> IF bytes <= state.available \div 4 THEN "CAUTION" ELSE "DEFER"
    [] level = High     -> IF bytes <= state.available \div 2 THEN "CAUTION" ELSE "DEFER"
    [] OTHER            -> "REJECT"

\* The decision table of admit for a domain the snapshot holds.
Decide(level, state, bytes) ==
  CASE level = Normal   -> IF bytes <= state.available THEN "ACCEPT" ELSE "DEFER"
    [] level = Elevated -> IF bytes <= state.available \div 2 THEN "CAUTION" ELSE "DEFER"
    [] level = High     -> IF bytes <= state.available \div 4 THEN "CAUTION" ELSE "DEFER"
    [] level \in {Critical, Exhausted} -> "REJECT"
    [] OTHER            -> "DEFER"

\* admit, for a domain in the snapshot and for one that is not.
Admit(bytes) ==
  /\ answer' = [query |-> "admit", bytes |-> bytes,
                decision |-> IF published = NotPublished THEN "DEFER"
                             ELSE Decide(published.level, published.state, bytes)]
  /\ UNCHANGED <<budget, published>>

\* Fraction of new work to hold back, in tenths.
AdmissionReduction(level) ==
  CASE level = High -> 5 [] level = Critical -> 8 [] level = Exhausted -> 10 [] OTHER -> 0

\* Mistake, for mutation: the suggested allocation is not scaled down.
LargestAllocationUnscaled(available) == available

\* The allocation that backpressure calls reasonable at any level.
LargestAllocation(available) == available \div 4

\* backpressure: a domain that is not in the snapshot gets the signal's defaults.
Backpressure ==
  /\ answer' = IF published = NotPublished
                 THEN [query |-> "backpressure", max_new_allocation |-> 0, admission_reduction |-> 0]
                 ELSE [query |-> "backpressure",
                       max_new_allocation  |-> LargestAllocation(published.state.available),
                       admission_reduction |-> AdmissionReduction(published.level)]
  /\ UNCHANGED <<budget, published>>

\* response_for walks the actions in order and keeps the last relief request:
\* a reclaim replaces the demotion that precedes it in every list.
ReliefKind(actions) ==
  LET asks == {i \in 1..Len(actions) : actions[i] \in {"RequestReclaim", "RequestDemotion"}}
  IN  IF asks = {} THEN "NONE"
      ELSE IF actions[CHOOSE i \in asks : \A j \in asks : j <= i] = "RequestReclaim"
           THEN "RECLAIM" ELSE "DEMOTION"

Least(a, b) == IF a < b THEN a ELSE b
Greatest(a, b) == IF a > b THEN a ELSE b

NoResponse == [query |-> "response", kind |-> "NONE", target_bytes |-> 0,
               minimum_useful_relief |-> 0]

\* response_for: a domain that is not in the snapshot gets no relief request.
ResponseFor ==
  /\ LET kind   == ReliefKind(InitialActions(published.level))
         target == ReliefBytes(published.level, published.state.budget)
     IN  answer' = IF published = NotPublished THEN NoResponse
                   ELSE [query |-> "response", kind |-> kind,
                         target_bytes |-> IF kind = "NONE" THEN 0 ELSE target,
                         minimum_useful_relief |->
                           IF kind # "RECLAIM" THEN 0
                           ELSE Least(target \div 2, Greatest(1, published.state.committed \div 2))]
  /\ UNCHANGED <<budget, published>>

Next ==
  \/ \E b \in Candidates : SetBudget(b)
  \/ ClearBudget
  \/ \E o \in Observations, level \in Levels : Refresh(o, level)
  \/ \E bytes \in Requests : Admit(bytes)
  \/ Backpressure
  \/ ResponseFor

Spec == Init /\ [][Next]_vars

-------------------------------------------------------------------------------
(* Properties *)

Admitted == answer.query = "admit" /\ answer.decision \in {"ACCEPT", "CAUTION"}

\* Bytes admitted on top of what is committed leave untouched the emergency
\* reserve and the listed reserves of the budget the domain was published under
\* (usable_capacity and admit), every one of them if their sum fits a word, and
\* what is left of the sum if it wraps around.  minimum_free_reserve, which
\* BUDGETS.md calls a floor, is none of them: the code never holds it back.
AdmissionKeepsReserves ==
  Admitted /\ published.state.governed =>
    LET s == published.state IN
      answer.bytes = 0 \/ s.committed + answer.bytes + (HeldAside(s.budget) % Word) <= s.total

\* A worse level never lets in what a better one turns away (admit's table).
AdmissionIsMonotone ==
  published # NotPublished =>
    \A bytes \in Requests, better \in Levels :
      better < published.level /\ Decide(published.level, published.state, bytes) = "CAUTION"
        => Decide(better, published.state, bytes) \in {"ACCEPT", "CAUTION"}

\* The two queries agree while work is let in at all: for a published domain
\* below CRITICAL a request for the allocation that backpressure suggests is
\* never put off by admit (backpressure's available / 4 against the shares in
\* admit's table), and for any other domain backpressure suggests none.
SuggestionIsAdmitted ==
  answer.query = "backpressure" =>
    IF published = NotPublished THEN answer.max_new_allocation = 0
    ELSE published.level < Critical =>
           Decide(published.level, published.state, answer.max_new_allocation)
             \in {"ACCEPT", "CAUTION"}
===============================================================================
