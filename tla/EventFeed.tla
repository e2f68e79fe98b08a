------------------------------ MODULE EventFeed ------------------------------
(***************************************************************************)
(* What the runtime promises those who watch it, with no threads and no    *)
(* locks: snapshots are published one after the other, and every           *)
(* subscription reads the same log of events, from where it came in,       *)
(* without a gap, until it is closed.  A snapshot is published only when   *)
(* the events before it have reached everybody.                            *)
(***************************************************************************)
EXTENDS Integers, Sequences

CONSTANT Subscribers

VARIABLES current,   \* the id of the snapshot published last
          newest,    \* the id of the event made last
          status,    \* of each subscription: "none", "open" or "closed"
          start,     \* newest when each subscription was made
          heard      \* the events each subscription was given

feedVars == <<current, newest, status, start, heard>>

Init ==
  /\ current = 0 /\ newest = 0
  /\ status = [s \in Subscribers |-> "none"]
  /\ start = [s \in Subscribers |-> 0] /\ heard = [s \in Subscribers |-> <<>>]

\* The last event that s has, or that was made before s.
Position(s) == IF heard[s] = <<>> THEN start[s] ELSE heard[s][Len(heard[s])]

Publish ==
  /\ \A s \in Subscribers : status[s] = "open" => Position(s) = newest
  /\ current' = current + 1
  /\ newest' \in Nat /\ newest' >= newest
  /\ UNCHANGED <<status, start, heard>>

\* The event after the last one.  A subscription made while events go out may
\* begin with one of those.
Deliver(s) ==
  /\ status[s] = "open"
  /\ \E e \in 1..newest : /\ e = Position(s) + 1 \/ (heard[s] = <<>> /\ e <= start[s])
                          /\ heard' = [heard EXCEPT ![s] = Append(@, e)]
  /\ UNCHANGED <<current, newest, status, start>>

Subscribe(s) ==
  /\ status[s] = "none"
  /\ status' = [status EXCEPT ![s] = "open"] /\ start' = [start EXCEPT ![s] = newest]
  /\ UNCHANGED <<current, newest, heard>>

Close(s) ==
  /\ status[s] = "open"
  /\ status' = [status EXCEPT ![s] = "closed"]
  /\ UNCHANGED <<current, newest, start, heard>>

Next == Publish \/ \E s \in Subscribers : Deliver(s) \/ Subscribe(s) \/ Close(s)

Spec == Init /\ [][Next]_feedVars
===============================================================================
