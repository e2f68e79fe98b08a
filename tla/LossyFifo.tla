------------------------------- MODULE LossyFifo -------------------------------
(***************************************************************************)
(* What a subscription promises its consumer, whatever its overflow policy *)
(* and however many callers use it: a bounded backlog of numbered events,  *)
(* handed out oldest first.  Events may get lost, but never duplicated,    *)
(* never reordered, and never invented.                                    *)
(***************************************************************************)
EXTENDS Integers, Sequences

CONSTANT Bound

VARIABLES backlog,   \* the numbers of the events that wait, oldest first
          taken,     \* the number of the event handed out last
          newest     \* the highest number offered so far

fifoVars == <<backlog, taken, newest>>

Init == backlog = <<>> /\ taken = 0 /\ newest = 0

\* An event arrives; it may be refused, and it may push the oldest one out.
Offer ==
  /\ newest' = newest + 1
  /\ backlog' \in {backlog} \cup {Append(backlog, newest')}
                    \cup IF backlog = <<>> THEN {} ELSE {Append(Tail(backlog), newest')}
  /\ Len(backlog') <= Bound
  /\ UNCHANGED taken

Take ==
  /\ backlog # <<>>
  /\ taken' = Head(backlog) /\ backlog' = Tail(backlog)
  /\ UNCHANGED newest

Forget == backlog' = <<>> /\ UNCHANGED <<taken, newest>>

Next == Offer \/ Take \/ Forget

Spec == Init /\ [][Next]_fifoVars
===============================================================================
