------------------------------ MODULE StickyLevel ------------------------------
(***************************************************************************)
(* What the debounce machine promises its users, with no thresholds and no *)
(* clock: a level that moves only on evidence.  Each observation names the *)
(* level the sample points to.  The level follows it once Needed           *)
(* observations in a row have named the same one; only EXHAUSTED may be    *)
(* adopted at once; and an observation never points more than one band     *)
(* below the level.                                                        *)
(***************************************************************************)
EXTENDS PressureLevels

CONSTANTS Needed,         \* how many observations in a row a move needs
          Immediate       \* may EXHAUSTED be adopted on first sight?

VARIABLES level,          \* the resolved level
          candidate,      \* the level the latest observations agree on, or Unknown
          evidence        \* how many of them in a row, counted up to Needed

stickyVars == <<level, candidate, evidence>>

\* Evidence for target once one more observation has named it.
Weighed(target) ==
  LET n == IF candidate = target THEN evidence + 1 ELSE 1
  IN  IF n > Needed THEN Needed ELSE n

Init == level = Normal /\ candidate = Unknown /\ evidence = 0

\* The sample agrees with the level: earlier doubts are forgotten.
Confirm == candidate' = Unknown /\ evidence' = 0 /\ UNCHANGED level

\* The sample points elsewhere and the level waits for more.
Doubt(target) ==
  /\ target # level /\ target >= level - 1
  /\ candidate' = target /\ evidence' = Weighed(target)
  /\ UNCHANGED level

\* The level moves.
Move(target) ==
  /\ target # level /\ target >= level - 1
  /\ \/ Weighed(target) >= Needed
     \/ Immediate /\ target = Exhausted
  /\ level' = target /\ candidate' = Unknown /\ evidence' = 0

Next == Confirm \/ \E target \in Levels : Doubt(target) \/ Move(target)

Spec == Init /\ [][Next]_stickyVars
===============================================================================
