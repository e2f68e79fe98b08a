-------------------------- MODULE RuntimeLocksProofs --------------------------
(***************************************************************************)
(* Proofs about RuntimeLocks for every set of threads, every number of     *)
(* calls and whatever the callbacks do, also when they call back into      *)
(* refresh or set_policy.  OneRefreshAtATime is not inductive: a thread    *)
(* whose callback waits for the mutex holds it too (Held), and only that   *)
(* keeps the second lock from being granted.  With it, the published id    *)
(* trails the counter by at most the refresh under way (Numbered).         *)
(***************************************************************************)
EXTENDS RuntimeLocks, TLAPS

LockTypes ==
  /\ owner \in Threads \cup {NoThread}
  /\ pc \in [Threads -> Labels] /\ ret \in [Threads -> {"idle", "push"}]
  /\ id \in [Threads -> Nat]
  /\ snapshotId \in Nat /\ published \in Nat

\* A thread inside refresh, or in a callback of it that waits for the mutex.
Holds(t) ==
  \/ pc[t] \in Inside
  \/ pc[t] \in {"want_refresh", "want_policy"} /\ ret[t] = "push"

Held == \A t \in Threads : /\ Holds(t) <=> owner = t
                           /\ pc[t] \in Inside \cup {"swap"} => ret[t] = "idle"

\* While the mutex is free the newest snapshot is published; the refresh that
\* holds it has numbered the next one and publishes it when it leaves sampling.
Numbered ==
  /\ (\A t \in Threads : pc[t] # "sampling") => published = snapshotId
  /\ \A t \in Threads : pc[t] = "sampling" => id[t] = snapshotId /\ snapshotId = published + 1

IInv == LockTypes /\ Held /\ Numbered

\* Whatever Next does is one of these.
LEMMA StepCases ==
  ASSUME Next, NEW G,
         ASSUME NEW t \in Threads, CallRefresh(t) PROVE G,
         ASSUME NEW t \in Threads, LockRefresh(t) PROVE G,
         ASSUME NEW t \in Threads, NEW seen \in SUBSET Domains, NEW n \in 0..EventsEach,
                Publish(t, seen, n) PROVE G,
         ASSUME NEW t \in Threads, CopySubscriptions(t) \/ PassClosed(t) \/ Push(t) \/ EventDone(t)
                PROVE G,
         ASSUME NEW t \in Threads, NEW reaction \in Reactions, NEW p \in Policies,
                RunCallback(t, reaction, p) PROVE G,
         ASSUME NEW t \in Threads, ReturnFromRefresh(t) PROVE G,
         ASSUME NEW t \in Threads, NEW p \in Policies, CallSetPolicy(t, p) PROVE G,
         ASSUME NEW t \in Threads, ResetMachines(t) PROVE G,
         ASSUME NEW t \in Threads, SwapPolicy(t) PROVE G,
         ASSUME NEW s \in Subscribers, Subscribe(s) \/ CloseSubscription(s) PROVE G
  PROVE  G
BY DEF Next, Proceed

LEMMA InitHolds == Init => IInv
<1> SUFFICES ASSUME Init PROVE IInv
  OBVIOUS
<1> USE LocksAssumption DEF Init
<1>1. LockTypes
  BY DEF LockTypes, Labels
<1>2. Held
  BY DEF Held, Holds, Inside
<1>3. Numbered
  BY DEF Numbered
<1> QED BY <1>1, <1>2, <1>3 DEF IInv

\* Between two refreshes nobody is inside.
LEMMA FreeMeansOutside ==
  ASSUME IInv, owner = NoThread
  PROVE  /\ \A t \in Threads : ~Holds(t)
         /\ published = snapshotId
BY LocksAssumption DEF IInv, Held, Holds, Numbered, Inside

\* At most one thread is inside.
LEMMA OnlyOneHolds ==
  ASSUME IInv, NEW t \in Threads, NEW u \in Threads, Holds(t), Holds(u)
  PROVE  t = u
BY DEF IInv, Held

LEMMA StepHolds == IInv /\ [Next]_vars => IInv'
<1> SUFFICES ASSUME IInv, [Next]_vars PROVE IInv'
  OBVIOUS
<1> USE LocksAssumption
<1> USE DEF Goto, Labels, Inside
<1>i. LockTypes /\ Held /\ Numbered
  BY DEF IInv
<1>1. ASSUME NEW t \in Threads, CallRefresh(t) PROVE IInv'
  <2>1. LockTypes'
    BY <1>i, <1>1 DEF CallRefresh, locals, subs, LockTypes
  <2>2. Held'
    BY <1>i, <1>1 DEF CallRefresh, LockTypes, Held, Holds
  <2>3. Numbered'
    BY <1>i, <1>1 DEF CallRefresh, locals, LockTypes, Numbered
  <2> QED BY <2>1, <2>2, <2>3 DEF IInv
<1>2. ASSUME NEW t \in Threads, LockRefresh(t) PROVE IInv'
  <2>1. (\A u \in Threads : ~Holds(u)) /\ published = snapshotId
    BY <1>2, FreeMeansOutside DEF LockRefresh
  <2>2. LockTypes'
    BY <1>i, <1>2 DEF LockRefresh, BeginRefresh, LockTypes
  <2>3. ret[t] = "idle"
    BY <1>i, <1>2, <2>1 DEF LockRefresh, BeginRefresh, Holds, LockTypes
  <2>4. Held'
    BY <1>i, <1>2, <2>1, <2>3 DEF LockRefresh, BeginRefresh, LockTypes, Held, Holds
  <2>5. Numbered'
    <3>1. \A u \in Threads : pc'[u] = "sampling" => u = t
      BY <1>i, <1>2, <2>1 DEF LockRefresh, BeginRefresh, LockTypes, Holds
    <3>2. pc'[t] = "sampling" /\ id'[t] = snapshotId' /\ snapshotId' = snapshotId + 1
      BY <1>i, <1>2 DEF LockRefresh, BeginRefresh, LockTypes
    <3>3. published' = published
      BY <1>2 DEF LockRefresh, BeginRefresh
    <3> QED BY <2>1, <3>1, <3>2, <3>3 DEF Numbered
  <2> QED BY <2>2, <2>4, <2>5 DEF IInv
<1>3. ASSUME NEW t \in Threads, NEW seen \in SUBSET Domains, NEW n \in 0..EventsEach, Publish(t, seen, n)
      PROVE  IInv'
  <2>1. LockTypes'
    BY <1>i, <1>3 DEF Publish, PublishHolding, LockTypes
  <2>2. Held'
    BY <1>i, <1>3 DEF Publish, PublishHolding, LockTypes, Held, Holds
  <2>3. \A u \in Threads : pc[u] = "sampling" => u = t
    BY <1>3, OnlyOneHolds DEF Publish, PublishHolding, Holds
  <2>4. Numbered'
    <3>1. \A u \in Threads : pc'[u] # "sampling"
      BY <1>i, <1>3, <2>3 DEF Publish, PublishHolding, LockTypes
    <3>2. published' = snapshotId'
      BY <1>i, <1>3 DEF Publish, PublishHolding, Numbered
    <3> QED BY <3>1, <3>2 DEF Numbered
  <2> QED BY <2>1, <2>2, <2>4 DEF IInv
<1>4. ASSUME NEW t \in Threads, CopySubscriptions(t) \/ PassClosed(t) \/ Push(t) \/ EventDone(t)
      PROVE  IInv'
  <2>1. /\ pc[t] \in {"deliver", "push"}
        /\ \E label \in {"deliver", "push", "callback"} : pc' = [pc EXCEPT ![t] = label]
        /\ UNCHANGED <<owner, ret, id, snapshotId, published>>
    <3>1. CASE CopySubscriptions(t)
      BY <3>1 DEF CopySubscriptions
    <3>2. CASE PassClosed(t)
      <4>1. pc' = [pc EXCEPT ![t] = "push"]
        BY <1>i, <3>2 DEF PassClosed, LockTypes
      <4> QED BY <4>1, <3>2 DEF PassClosed
    <3>3. CASE Push(t)
      BY <3>3 DEF Push
    <3>4. CASE EventDone(t)
      BY <3>4 DEF EventDone
    <3> QED BY <1>4, <3>1, <3>2, <3>3, <3>4
  <2>2. LockTypes'
    BY <1>i, <2>1 DEF LockTypes
  <2>3. Held'
    BY <1>i, <2>1 DEF LockTypes, Held, Holds
  <2>4. Numbered'
    BY <1>i, <2>1 DEF LockTypes, Numbered
  <2> QED BY <2>2, <2>3, <2>4 DEF IInv
<1>5. ASSUME NEW t \in Threads, NEW reaction \in Reactions, NEW p \in Policies, RunCallback(t, reaction, p)
      PROVE  IInv'
  <2>1. CASE reaction = "query"
    <3>1. /\ pc[t] = "callback" /\ pc' = [pc EXCEPT ![t] = "push"]
          /\ UNCHANGED <<owner, ret, id, snapshotId, published>>
      BY <1>5, <2>1 DEF RunCallback
    <3>2. LockTypes'
      BY <1>i, <3>1 DEF LockTypes
    <3>3. Held'
      BY <1>i, <3>1 DEF LockTypes, Held, Holds
    <3>4. Numbered'
      BY <1>i, <3>1 DEF LockTypes, Numbered
    <3> QED BY <3>2, <3>3, <3>4 DEF IInv
  <2>2. CASE reaction # "query"
    <3>1. /\ pc[t] = "callback"
          /\ \E label \in {"want_refresh", "want_policy"} : pc' = [pc EXCEPT ![t] = label]
          /\ ret' = [ret EXCEPT ![t] = "push"]
          /\ UNCHANGED <<owner, id, snapshotId, published>>
      <4>1. CASE reaction = "set_policy"
        BY <1>5, <4>1 DEF RunCallback
      <4>2. CASE reaction = "refresh"
        BY <1>5, <4>2 DEF RunCallback
      <4> QED BY <2>2, <4>1, <4>2, LocksAssumption
    <3>2. LockTypes'
      BY <1>i, <3>1 DEF LockTypes
    <3>3. Held'
      BY <1>i, <3>1 DEF LockTypes, Held, Holds
    <3>4. Numbered'
      BY <1>i, <3>1 DEF LockTypes, Numbered
    <3> QED BY <3>2, <3>3, <3>4 DEF IInv
  <2> QED BY <2>1, <2>2
<1>6. ASSUME NEW t \in Threads, ReturnFromRefresh(t) PROVE IInv'
  <2>1. owner = t /\ ret[t] = "idle" /\ pc[t] = "deliver"
    BY <1>i, <1>6 DEF ReturnFromRefresh, Held, Holds
  <2>2. LockTypes'
    BY <1>i, <1>6 DEF ReturnFromRefresh, locals, LockTypes
  <2>3. Held'
    BY <1>i, <1>6, <2>1 DEF ReturnFromRefresh, LockTypes, Held, Holds
  <2>4. Numbered'
    BY <1>i, <1>6, <2>1 DEF ReturnFromRefresh, locals, LockTypes, Numbered
  <2> QED BY <2>2, <2>3, <2>4 DEF IInv
<1>7. ASSUME NEW t \in Threads, NEW p \in Policies, CallSetPolicy(t, p) PROVE IInv'
  <2>1. LockTypes'
    BY <1>i, <1>7 DEF CallSetPolicy, LockTypes
  <2>2. Held'
    BY <1>i, <1>7 DEF CallSetPolicy, LockTypes, Held, Holds
  <2>3. Numbered'
    BY <1>i, <1>7 DEF CallSetPolicy, LockTypes, Numbered
  <2> QED BY <2>1, <2>2, <2>3 DEF IInv
<1>8. ASSUME NEW t \in Threads, ResetMachines(t) PROVE IInv'
  <2>1. \A u \in Threads : ~Holds(u)
    BY <1>8, FreeMeansOutside DEF ResetMachines
  <2>2. ret[t] = "idle"
    BY <1>i, <1>8, <2>1 DEF ResetMachines, Holds, LockTypes
  <2>3. LockTypes'
    BY <1>i, <1>8 DEF ResetMachines, locals, LockTypes
  <2>4. Held'
    BY <1>i, <1>8, <2>1, <2>2 DEF ResetMachines, LockTypes, Held, Holds
  <2>5. Numbered'
    BY <1>i, <1>8 DEF ResetMachines, locals, LockTypes, Numbered
  <2> QED BY <2>3, <2>4, <2>5 DEF IInv
<1>9. ASSUME NEW t \in Threads, SwapPolicy(t) PROVE IInv'
  <2>1. ret[t] = "idle" /\ pc[t] = "swap"
    BY <1>i, <1>9 DEF SwapPolicy, Held
  <2>2. LockTypes'
    BY <1>i, <1>9 DEF SwapPolicy, locals, LockTypes
  <2>3. Held'
    BY <1>i, <1>9, <2>1 DEF SwapPolicy, LockTypes, Held, Holds
  <2>4. Numbered'
    BY <1>i, <1>9, <2>1 DEF SwapPolicy, locals, LockTypes, Numbered
  <2> QED BY <2>2, <2>3, <2>4 DEF IInv
<1>10. ASSUME NEW s \in Subscribers, Subscribe(s) \/ CloseSubscription(s) PROVE IInv'
  <2>1. UNCHANGED <<owner, pc, ret, id, snapshotId, published>>
    BY <1>10 DEF Subscribe, CloseSubscription, locals
  <2> QED BY <1>i, <2>1 DEF IInv, LockTypes, Held, Holds, Numbered
<1>11. CASE UNCHANGED vars
  BY <1>i, <1>11 DEF vars, locals, IInv, LockTypes, Held, Holds, Numbered
<1> QED BY <1>1, <1>2, <1>3, <1>4, <1>5, <1>6, <1>7, <1>8, <1>9, <1>10, <1>11, StepCases

\* refresh_mutex_ keeps refreshes apart, from the first line of refresh to the
\* return of its last callback, whatever threads and callbacks do.
THEOREM RefreshIsExclusive == Spec => []OneRefreshAtATime
<1>1. IInv => OneRefreshAtATime
  BY DEF IInv, Held, Holds, OneRefreshAtATime
<1> QED BY <1>1, InitHolds, StepHolds, PTL DEF Spec

LEMMA OnlyTheNextIsPublished ==
  IInv /\ [Next]_vars => [published' # published => published' = published + 1]_vars
<1> SUFFICES ASSUME IInv, Next, published' # published PROVE published' = published + 1
  OBVIOUS
<1>1. ASSUME NEW t \in Threads, NEW seen \in SUBSET Domains, NEW n \in 0..EventsEach, Publish(t, seen, n)
      PROVE  published' = published + 1
  BY <1>1 DEF Publish, PublishHolding, IInv, Numbered
<1>2. ASSUME NEW t \in Threads, CopySubscriptions(t) \/ PassClosed(t) \/ Push(t) \/ EventDone(t)
      PROVE  FALSE
  BY <1>2 DEF CopySubscriptions, PassClosed, Push, EventDone
<1> QED BY <1>1, <1>2, StepCases
        DEF CallRefresh, LockRefresh, BeginRefresh, RunCallback, ReturnFromRefresh, CallSetPolicy,
            ResetMachines, SwapPolicy, Subscribe, CloseSubscription

\* The snapshots that current_snapshot returns are numbered consecutively: no
\* refresh publishes an older one over a newer one, and none is left out.
THEOREM SnapshotsArePublishedInOrder == Spec => PublishedInOrder
<1>1. IInv /\ [Next]_vars => [published' # published => published' = published + 1]_vars
  BY OnlyTheNextIsPublished
<1> QED BY <1>1, InitHolds, StepHolds, PTL DEF Spec, PublishedInOrder

-------------------------------------------------------------------------------
(* Events, as they go out *)

\* A thread between the first push of an event and its last callback.
Pushing(t) ==
  \/ pc[t] \in {"push", "callback"}
  \/ pc[t] \in {"want_refresh", "want_policy"} /\ ret[t] = "push"

\* The last event thread t is done with, and the last one it has pushed to s.
Done(t) == eventId - Len(pending[t])
Reached(t, s) == IF Pushing(t) /\ s \notin Range(todo[t]) THEN Done(t) + 1 ELSE Done(t)

NoRepeats(q) == \A i, j \in DOMAIN q : q[i] = q[j] => i = j

EventTypes ==
  /\ eventId \in Nat /\ pending \in [Threads -> Seq(Nat)]
  /\ todo \in [Threads -> Seq(Subscribers)] /\ active \in Seq(Subscribers)
  /\ inbox \in [Subscribers -> Seq(Nat)] /\ since \in [Subscribers -> Nat]

\* Pending events are the last ones made, and only a thread that delivers has any.
Batches ==
  /\ NoRepeats(active)
  /\ \A t \in Threads :
       /\ pending[t] # <<>> => pc[t] = "deliver" \/ Pushing(t)
       /\ Pushing(t) => pending[t] # <<>>
       /\ Len(pending[t]) <= eventId
       /\ \A i \in 1..Len(pending[t]) : pending[t][i] = Done(t) + i
       /\ NoRepeats(todo[t])

\* EventsInOrder made inductive: nobody has an event before its turn.
Received ==
  \A s \in Subscribers :
    /\ \A i, j \in DOMAIN inbox[s] : i < j => inbox[s][i] < inbox[s][j]
    /\ \A i \in DOMAIN inbox[s] :
         inbox[s][i] <= eventId /\ \A t \in Threads : inbox[s][i] <= Reached(t, s)

\* NothingMissed made inductive: while events go out, nobody lacks one whose
\* turn is past.
Complete ==
  \A s \in Range(active) \ closed : \A e \in (since[s] + 1)..eventId :
    (\A t \in Threads : e <= Reached(t, s)) => e \in Range(inbox[s])

Delivery == EventTypes /\ Batches /\ Received /\ Complete

\* Numbers and lengths, from the types.
LEMMA DeliveryNumbers ==
  ASSUME EventTypes, NEW t \in Threads
  PROVE  /\ Len(pending[t]) \in Nat /\ eventId \in Nat /\ Done(t) \in Int
         /\ \A s : Reached(t, s) \in {Done(t), Done(t) + 1}
         /\ pending[t] = <<>> => Done(t) = eventId
         /\ pending[t] # <<>> => Len(pending[t]) >= 1 /\ Done(t) + 1 <= eventId
BY DEF EventTypes, Done, Reached

LEMMA InboxNumbers ==
  ASSUME EventTypes, NEW s \in Subscribers
  PROVE  /\ since[s] \in Nat /\ inbox[s] \in Seq(Nat) /\ Len(inbox[s]) \in Nat
         /\ DOMAIN inbox[s] = 1..Len(inbox[s]) /\ \A i \in DOMAIN inbox[s] : inbox[s][i] \in Nat
BY DEF EventTypes

\* A thread that holds no mutex has nothing pending, and one that samples neither.
LEMMA OnlyTheHolderDelivers ==
  ASSUME IInv, Delivery, NEW t \in Threads, ~Holds(t) \/ pc[t] = "sampling"
  PROVE  pending[t] = <<>> /\ ~Pushing(t)
BY DEF IInv, LockTypes, Delivery, Batches, Holds, Inside, Pushing

\* A step by which no event gets anywhere.
LEMMA NothingDelivered ==
  ASSUME Delivery, UNCHANGED <<eventId, pending, todo, active, inbox, since>>, closed \subseteq closed',
         \A t \in Threads : /\ Pushing(t)' <=> Pushing(t)
                            /\ pending[t] # <<>> => pc'[t] = "deliver" \/ Pushing(t)'
  PROVE  Delivery'
<1>1. \A t \in Threads : Done(t)' = Done(t) /\ \A s : Reached(t, s)' = Reached(t, s)
  BY DEF Done, Reached
<1>2. EventTypes'
  BY DEF Delivery, EventTypes
<1>3. Batches'
  BY <1>1 DEF Delivery, Batches
<1>4. Received'
  BY <1>1 DEF Delivery, Received
<1>5. Complete'
  BY <1>1 DEF Delivery, Complete
<1>6. QED  BY <1>2, <1>3, <1>4, <1>5 DEF Delivery

LEMMA DeliveryInit == Init => Delivery
<1> SUFFICES ASSUME Init PROVE Delivery
  OBVIOUS
<1>1. EventTypes
  BY DEF Init, EventTypes
<1>2. Batches
  BY DEF Init, Batches, NoRepeats, Pushing, Done
<1>3. Received
  BY DEF Init, Received
<1>4. Complete
  BY DEF Init, Complete, Range
<1>5. QED  BY <1>1, <1>2, <1>3, <1>4 DEF Delivery

\* A step by which only closed subscriptions are passed.
PassesOnlyClosed ==
  \A u \in Threads, s \in Subscribers :
    /\ Reached(u, s) <= Reached(u, s)'
    /\ s \in Range(active) \ closed => Reached(u, s)' = Reached(u, s)

LEMMA OnlyClosedArePassed ==
  ASSUME Delivery, UNCHANGED <<eventId, inbox, since, active, closed>>, EventTypes', PassesOnlyClosed
  PROVE  Received' /\ Complete'
<1>1. Received'
  <2> SUFFICES ASSUME NEW s \in Subscribers, NEW i \in DOMAIN inbox[s], NEW u \in Threads
               PROVE  inbox[s][i] <= Reached(u, s)'
    BY DEF Delivery, Received
  <2>1. inbox[s][i] \in Nat /\ Reached(u, s) \in Int /\ Reached(u, s)' \in Int
    <3>1. Reached(u, s) \in Int
      BY DeliveryNumbers DEF Delivery
    <3>2. Reached(u, s)' \in Int
      BY DEF EventTypes, Reached, Done
    <3>3. QED  BY <3>1, <3>2, InboxNumbers DEF Delivery
  <2>2. QED  BY <2>1 DEF Delivery, Received, PassesOnlyClosed
<1>2. Complete'
  <2>1. Range(active) \subseteq Subscribers
    BY DEF Delivery, EventTypes, Range
  <2>2. QED  BY <2>1 DEF Delivery, Complete, PassesOnlyClosed
<1>3. QED  BY <1>1, <1>2

\* The others, while t is inside.
LEMMA TheOthersAreDone ==
  ASSUME IInv, Delivery, NEW t \in Threads, Holds(t), NEW u \in Threads, u # t
  PROVE  /\ pending[u] = <<>> /\ ~Pushing(u) /\ Done(u) = eventId /\ \A s : Reached(u, s) = eventId
<1>1. ~Holds(u)
  BY OnlyOneHolds
<1>2. pending[u] = <<>> /\ ~Pushing(u)
  BY <1>1, OnlyTheHolderDelivers
<1>3. QED  BY <1>2, DeliveryNumbers DEF Delivery, Reached

LEMMA CopyDelivers ==
  ASSUME IInv, Delivery, NEW t \in Threads, CopySubscriptions(t)  PROVE Delivery' /\ PassesOnlyClosed
<1>1. /\ pc[t] = "deliver" /\ pending[t] # <<>> /\ ~Pushing(t) /\ Holds(t)
      /\ UNCHANGED <<eventId, inbox, since, active, closed, pending>>
  BY DEF CopySubscriptions, subs, Pushing, Holds, Inside
<1>2. /\ todo'[t] = active /\ pc'[t] = "push" /\ Pushing(t)'
      /\ \A u \in Threads : u # t => todo'[u] = todo[u] /\ pc'[u] = pc[u] /\ ret'[u] = ret[u]
      /\ todo' \in [Threads -> Seq(Subscribers)]
  BY DEF CopySubscriptions, Goto, Pushing, IInv, LockTypes, Delivery, EventTypes
<1>3. \A u \in Threads : Done(u)' = Done(u) /\ (u # t => (Pushing(u)' <=> Pushing(u)))
  BY <1>1, <1>2 DEF Done, Pushing
<1>4. EventTypes'
  BY <1>1, <1>2 DEF Delivery, EventTypes
<1>5. Batches'
  BY <1>1, <1>2, <1>3 DEF Delivery, Batches
<1>6. ASSUME NEW u \in Threads, NEW s \in Subscribers
      PROVE  /\ Reached(u, s) <= Reached(u, s)'
             /\ s \in Range(active) \ closed => Reached(u, s)' = Reached(u, s)
  BY <1>1, <1>2, <1>3, DeliveryNumbers DEF Delivery, Reached
<1>7. Received' /\ Complete'
  BY <1>1, <1>4, <1>6, OnlyClosedArePassed DEF PassesOnlyClosed
<1>8. QED  BY <1>4, <1>5, <1>7, <1>6 DEF Delivery, PassesOnlyClosed

\* What is left of a sequence without its head.
LEMMA TailOf ==
  ASSUME NEW S, NEW q \in Seq(S), q # <<>>
  PROVE  /\ Tail(q) \in Seq(S) /\ Len(Tail(q)) = Len(q) - 1 /\ Head(q) = q[1] /\ Head(q) \in S
         /\ Len(q) \in Nat \ {0} /\ \A i \in 1..(Len(q) - 1) : Tail(q)[i] = q[i + 1]
         /\ Range(q) = {Head(q)} \cup Range(Tail(q))
         /\ NoRepeats(q) => NoRepeats(Tail(q)) /\ Head(q) \notin Range(Tail(q))
<1>1. /\ Tail(q) \in Seq(S) /\ Len(Tail(q)) = Len(q) - 1 /\ Head(q) = q[1] /\ Head(q) \in S
      /\ Len(q) \in Nat \ {0} /\ \A i \in 1..(Len(q) - 1) : Tail(q)[i] = q[i + 1]
  OBVIOUS
<1>2. DOMAIN q = 1..Len(q) /\ DOMAIN Tail(q) = 1..(Len(q) - 1)
  BY <1>1
<1>3. Range(q) = {Head(q)} \cup Range(Tail(q))
  <2>1. \A x \in Range(q) : x = Head(q) \/ x \in Range(Tail(q))
    <3> TAKE x \in Range(q)
    <3>1. PICK i \in 1..Len(q) : x = q[i]
      BY <1>2 DEF Range
    <3>2. CASE i # 1
      <4>1. i - 1 \in 1..(Len(q) - 1) /\ Tail(q)[i - 1] = q[i]
        BY <1>1, <3>2
      <4>2. QED  BY <1>2, <3>1, <4>1 DEF Range
    <3>3. QED  BY <1>1, <3>1, <3>2
  <2>2. Head(q) \in Range(q)
    BY <1>1, <1>2 DEF Range
  <2>3. \A x \in Range(Tail(q)) : x \in Range(q)
    <3> TAKE x \in Range(Tail(q))
    <3>1. PICK i \in 1..(Len(q) - 1) : x = Tail(q)[i]
      BY <1>2 DEF Range
    <3>2. i + 1 \in 1..Len(q) /\ x = q[i + 1]
      BY <1>1, <3>1
    <3>3. QED  BY <1>2, <3>2 DEF Range
  <2>4. QED  BY <2>1, <2>2, <2>3
<1>4. ASSUME NoRepeats(q)  PROVE NoRepeats(Tail(q)) /\ Head(q) \notin Range(Tail(q))
  <2>1. ASSUME NEW i \in 1..(Len(q) - 1), NEW j \in 1..(Len(q) - 1), Tail(q)[i] = Tail(q)[j]
        PROVE  i = j
    <3>1. i + 1 \in 1..Len(q) /\ j + 1 \in 1..Len(q) /\ q[i + 1] = q[j + 1]
      BY <1>1, <2>1
    <3>2. QED  BY <1>2, <1>4, <3>1 DEF NoRepeats
  <2>2. ASSUME NEW i \in 1..(Len(q) - 1), Tail(q)[i] = Head(q)  PROVE FALSE
    <3>1. i + 1 \in 1..Len(q) /\ 1 \in 1..Len(q) /\ q[i + 1] = q[1]
      BY <1>1, <2>2
    <3>2. QED  BY <1>2, <1>4, <3>1 DEF NoRepeats
  <2>3. QED  BY <1>2, <2>1, <2>2 DEF NoRepeats, Range
<1>5. QED  BY <1>1, <1>3, <1>4

LEMMA PassClosedDelivers ==
  ASSUME IInv, Delivery, NEW t \in Threads, PassClosed(t)  PROVE Delivery' /\ PassesOnlyClosed
<1>1. /\ todo[t] # <<>> /\ Head(todo[t]) \in closed /\ Pushing(t)
      /\ UNCHANGED <<eventId, inbox, since, active, closed, pending, pc, ret>>
  BY DEF PassClosed, subs, Pushing
<1>2. todo[t] \in Seq(Subscribers)
  BY DEF Delivery, EventTypes
<1>3. /\ todo'[t] = Tail(todo[t]) /\ \A u \in Threads : u # t => todo'[u] = todo[u]
      /\ todo' \in [Threads -> Seq(Subscribers)]
  BY <1>1, <1>2, TailOf DEF PassClosed, Delivery, EventTypes
<1>4. \A u \in Threads : Done(u)' = Done(u) /\ (Pushing(u)' <=> Pushing(u))
  BY <1>1 DEF Done, Pushing
<1>5. EventTypes'
  BY <1>1, <1>3 DEF Delivery, EventTypes
<1>6. Batches'
  <2>1. NoRepeats(todo'[t])
    BY <1>1, <1>2, <1>3, TailOf DEF Delivery, Batches
  <2>2. QED  BY <1>1, <1>3, <1>4, <2>1 DEF Delivery, Batches
<1>7. ASSUME NEW u \in Threads, NEW s \in Subscribers
      PROVE  /\ Reached(u, s) <= Reached(u, s)'
             /\ s \in Range(active) \ closed => Reached(u, s)' = Reached(u, s)
  <2>1. Range(todo'[t]) \subseteq Range(todo[t]) /\ Range(todo[t]) \subseteq Range(todo'[t]) \cup closed
    BY <1>1, <1>2, <1>3, TailOf
  <2>2. Done(u) \in Int
    BY DeliveryNumbers DEF Delivery
  <2>3. CASE u = t
    <3>1. Reached(u, s)' = IF s \notin Range(todo'[t]) THEN Done(t) + 1 ELSE Done(t)
      BY <1>1, <1>4, <2>3 DEF Reached
    <3>2. Reached(u, s) = IF s \notin Range(todo[t]) THEN Done(t) + 1 ELSE Done(t)
      BY <1>1, <2>3 DEF Reached
    <3>3. QED  BY <2>1, <2>2, <2>3, <3>1, <3>2
  <2>4. CASE u # t
    <3>1. Reached(u, s)' = Reached(u, s) /\ Reached(u, s) \in Int
      BY <1>3, <1>4, <2>2, <2>4 DEF Reached
    <3>2. QED  BY <3>1
  <2>5. QED  BY <2>3, <2>4
<1>8. Received' /\ Complete'
  BY <1>1, <1>5, <1>7, OnlyClosedArePassed DEF PassesOnlyClosed
<1>9. QED  BY <1>5, <1>6, <1>8, <1>7 DEF Delivery, PassesOnlyClosed

LEMMA EventDoneDelivers ==
  ASSUME IInv, Delivery, NEW t \in Threads, EventDone(t)  PROVE Delivery' /\ PassesOnlyClosed
<1>1. /\ todo[t] = <<>> /\ Pushing(t) /\ pc[t] = "push"
      /\ UNCHANGED <<eventId, inbox, since, active, closed, todo, ret>>
  BY DEF EventDone, subs, Pushing
<1>2. pending[t] \in Seq(Nat) /\ pending[t] # <<>>
  BY <1>1 DEF Delivery, EventTypes, Batches
<1>3. /\ pending'[t] = Tail(pending[t]) /\ pc'[t] = "deliver" /\ ~Pushing(t)'
      /\ \A u \in Threads : u # t => pending'[u] = pending[u] /\ pc'[u] = pc[u]
      /\ pending' \in [Threads -> Seq(Nat)]
  BY <1>1, <1>2, TailOf DEF EventDone, Goto, Pushing, IInv, LockTypes, Delivery, EventTypes
<1>4. \A u \in Threads : u # t => Done(u)' = Done(u) /\ (Pushing(u)' <=> Pushing(u))
  BY <1>1, <1>3 DEF Done, Pushing
<1>5. Done(t)' = Done(t) + 1 /\ Done(t) \in Int /\ eventId \in Nat
  BY <1>1, <1>2, <1>3, TailOf DEF Done, Delivery, EventTypes
<1>6. EventTypes'
  BY <1>1, <1>3 DEF Delivery, EventTypes
<1>7. Batches'
  <2>1. /\ Len(pending'[t]) <= eventId'
        /\ \A i \in 1..Len(pending'[t]) : pending'[t][i] = Done(t)' + i
    <3>1. Len(pending'[t]) = Len(pending[t]) - 1 /\ Len(pending[t]) \in Nat /\ Len(pending[t]) <= eventId
      BY <1>2, <1>3, TailOf DEF Delivery, Batches
    <3>2. ASSUME NEW i \in 1..Len(pending'[t])  PROVE pending'[t][i] = Done(t)' + i
      <4>1. i + 1 \in 1..Len(pending[t]) /\ pending'[t][i] = pending[t][i + 1]
        BY <1>2, <1>3, <3>1, TailOf
      <4>2. pending[t][i + 1] = Done(t) + (i + 1)
        BY <4>1 DEF Delivery, Batches
      <4>3. QED  BY <1>5, <4>1, <4>2
    <3>3. QED  BY <1>1, <1>5, <3>1, <3>2
  <2>2. QED  BY <1>1, <1>3, <1>4, <2>1 DEF Delivery, Batches
<1>8. \A u \in Threads, s \in Subscribers : Reached(u, s)' = Reached(u, s) /\ Reached(u, s) \in Int
  <2>1. Range(todo[t]) = {}
    BY <1>1 DEF Range
  <2>2. \A s : Reached(t, s)' = Reached(t, s)
    BY <1>1, <1>3, <1>5, <2>1 DEF Reached
  <2>3. \A u \in Threads, s \in Subscribers : u # t => Reached(u, s)' = Reached(u, s)
    BY <1>1, <1>4 DEF Reached
  <2>4. QED  BY <2>2, <2>3, DeliveryNumbers DEF Delivery
<1>9. Received' /\ Complete'
  BY <1>1, <1>6, <1>8, OnlyClosedArePassed DEF PassesOnlyClosed
<1>10. QED  BY <1>6, <1>7, <1>9, <1>8 DEF Delivery, PassesOnlyClosed

\* What has been received once a sequence is one longer.
LEMMA AppendedTo ==
  ASSUME NEW q \in Seq(Nat), NEW e \in Nat
  PROVE  /\ Append(q, e) \in Seq(Nat) /\ Len(q) \in Nat /\ DOMAIN q = 1..Len(q)
         /\ DOMAIN Append(q, e) = 1..(Len(q) + 1) /\ Append(q, e)[Len(q) + 1] = e
         /\ \A i \in 1..Len(q) : Append(q, e)[i] = q[i]
         /\ Range(q) \cup {e} \subseteq Range(Append(q, e))
<1>1. /\ Append(q, e) \in Seq(Nat) /\ Len(q) \in Nat /\ DOMAIN q = 1..Len(q)
      /\ DOMAIN Append(q, e) = 1..(Len(q) + 1) /\ Append(q, e)[Len(q) + 1] = e
      /\ \A i \in 1..Len(q) : Append(q, e)[i] = q[i]
  OBVIOUS
<1>2. Len(q) + 1 \in 1..(Len(q) + 1) /\ \A i \in 1..Len(q) : i \in 1..(Len(q) + 1)
  BY <1>1
<1>3. e \in Range(Append(q, e))
  BY <1>1, <1>2 DEF Range
<1>4. ASSUME NEW x \in Range(q)  PROVE x \in Range(Append(q, e))
  <2>1. PICK i \in 1..Len(q) : x = q[i]
    BY <1>1 DEF Range
  <2>2. QED  BY <1>1, <1>2, <2>1 DEF Range
<1>5. QED  BY <1>1, <1>3, <1>4

\* What a push of t to the subscription "to" does: e, the first pending event,
\* goes to the end of its inbox, and t has reached it there.
PushesTo(t, to, e) ==
  /\ Pushing(t) /\ Holds(t) /\ to \notin closed
  /\ UNCHANGED <<eventId, since, active, closed, pending, ret>>
  /\ todo[t] \in Seq(Subscribers) /\ to \in Range(todo[t]) /\ NoRepeats(Tail(todo[t]))
  /\ e = Done(t) + 1 /\ e <= eventId /\ Done(t) \in Int /\ eventId \in Nat
  /\ todo'[t] = Tail(todo[t]) /\ Pushing(t)' /\ todo' \in [Threads -> Seq(Subscribers)]
  /\ \A u \in Threads : u # t => todo'[u] = todo[u]
  /\ inbox'[to] = Append(inbox[to], e) /\ inbox' = [inbox EXCEPT ![to] = Append(inbox[to], e)]
  /\ \A s \in Subscribers : s # to => inbox'[s] = inbox[s]
  /\ inbox' \in [Subscribers -> Seq(Nat)]
  /\ \A u \in Threads : Done(u)' = Done(u) /\ (Pushing(u)' <=> Pushing(u))
  /\ Reached(t, to) = e - 1 /\ Reached(t, to)' = e
  /\ \A s \in Subscribers : s # to => Reached(t, s)' = Reached(t, s)
  /\ \A u \in Threads, s \in Subscribers : u # t => Reached(u, s)' = Reached(u, s) /\ Reached(u, s) = eventId

LEMMA WhatPushDoes ==
  ASSUME IInv, Delivery, NEW t \in Threads, Push(t)
  PROVE  \E to \in Subscribers, e \in Nat : PushesTo(t, to, e)
<1>a. todo[t] # <<>> /\ pending[t] # <<>> /\ todo[t] \in Seq(Subscribers) /\ pending[t] \in Seq(Nat)
  BY DEF Push, Pushing, Delivery, EventTypes, Batches
<1>b. PICK to \in Subscribers, e \in Nat : to = Head(todo[t]) /\ e = Head(pending[t])
  BY <1>a, TailOf
<1>1. /\ Pushing(t) /\ Holds(t) /\ pc[t] = "push" /\ to \notin closed
      /\ UNCHANGED <<eventId, since, active, closed, pending, ret>>
  BY <1>b DEF Push, Pushing, Holds, Inside
<1>2. /\ todo[t] \in Seq(Subscribers) /\ to \in Range(todo[t]) /\ to \in Subscribers
      /\ to \notin Range(Tail(todo[t])) /\ NoRepeats(Tail(todo[t]))
      /\ Range(todo[t]) = {to} \cup Range(Tail(todo[t]))
  BY <1>a, <1>b, TailOf DEF Delivery, Batches
<1>3. /\ pending[t] # <<>> /\ e = Done(t) + 1 /\ e \in Nat /\ e <= eventId /\ Done(t) \in Int /\ eventId \in Nat
  <2>1. e = pending[t][1] /\ 1 \in 1..Len(pending[t])
    BY <1>a, <1>b, TailOf
  <2>2. pending[t][1] = Done(t) + 1
    BY <2>1 DEF Delivery, Batches
  <2>3. QED  BY <1>a, <2>1, <2>2, DeliveryNumbers DEF Delivery
<1>4. /\ todo'[t] = Tail(todo[t]) /\ pc'[t] = "callback" /\ Pushing(t)'
      /\ \A u \in Threads : u # t => todo'[u] = todo[u] /\ pc'[u] = pc[u]
      /\ todo' \in [Threads -> Seq(Subscribers)]
  BY <1>1, <1>2, TailOf DEF Push, Goto, Pushing, IInv, LockTypes, Delivery, EventTypes
<1>5. /\ inbox'[to] = Append(inbox[to], e) /\ \A s \in Subscribers : s # to => inbox'[s] = inbox[s]
      /\ inbox' \in [Subscribers -> Seq(Nat)] /\ inbox' = [inbox EXCEPT ![to] = Append(inbox[to], e)]
  <2>1. inbox \in [Subscribers -> Seq(Nat)]
    BY DEF Delivery, EventTypes
  <2>2. inbox' = [inbox EXCEPT ![to] = Append(inbox[to], e)]
    BY <1>b, <2>1 DEF Push
  <2>3. Append(inbox[to], e) \in Seq(Nat)
    BY <2>1
  <2>4. QED  BY <2>1, <2>2, <2>3, Zenon
<1>6. \A u \in Threads : Done(u)' = Done(u) /\ (Pushing(u)' <=> Pushing(u))
  BY <1>1, <1>4 DEF Done, Pushing
<1>9. /\ Reached(t, to) = e - 1 /\ Reached(t, to)' = e
      /\ \A s \in Subscribers : s # to => Reached(t, s)' = Reached(t, s)
      /\ \A u \in Threads, s \in Subscribers : u # t => Reached(u, s)' = Reached(u, s) /\ Reached(u, s) = eventId
  <2>1. Reached(t, to) = e - 1 /\ Reached(t, to)' = e
    <3>1. to \in Range(todo[t]) /\ to \notin Range(todo'[t])
      BY <1>2, <1>4
    <3>2. Reached(t, to) = Done(t)
      BY <3>1 DEF Reached
    <3>3. Reached(t, to)' = Done(t)' + 1
      BY <1>4, <3>1 DEF Reached
    <3>4. QED  BY <1>3, <1>6, <3>2, <3>3
  <2>2. \A s \in Subscribers : s # to => Reached(t, s)' = Reached(t, s)
    BY <1>1, <1>2, <1>4, <1>6 DEF Reached
  <2>3. \A u \in Threads, s \in Subscribers : u # t => Reached(u, s)' = Reached(u, s) /\ Reached(u, s) = eventId
    BY <1>1, <1>4, <1>6, TheOthersAreDone DEF Reached
  <2>4. QED  BY <2>1, <2>2, <2>3
<1>10. PushesTo(t, to, e)
  BY <1>1, <1>2, <1>3, <1>4, <1>5, <1>6, <1>9 DEF PushesTo
<1>11. QED  BY <1>10

LEMMA PushDelivers ==
  ASSUME IInv, Delivery, NEW t \in Threads, Push(t)  PROVE Delivery'
<1>b. PICK to \in Subscribers, e \in Nat : PushesTo(t, to, e)
  BY WhatPushDoes
<1>1. UNCHANGED <<eventId, since, active, closed, pending, ret>>
  BY <1>b DEF PushesTo
<1>2. /\ todo[t] \in Seq(Subscribers) /\ NoRepeats(Tail(todo[t]))
      /\ pc'[t] = "callback" /\ \A u \in Threads : u # t => todo'[u] = todo[u] /\ pc'[u] = pc[u]
  BY <1>b DEF PushesTo, Push, Goto, IInv, LockTypes
<1>3. e \in Nat /\ e <= eventId /\ eventId \in Nat
  BY <1>b DEF PushesTo
<1>4. /\ todo'[t] = Tail(todo[t]) /\ Pushing(t)' /\ Pushing(t) /\ todo' \in [Threads -> Seq(Subscribers)]
  BY <1>b DEF PushesTo
<1>5. /\ inbox'[to] = Append(inbox[to], e) /\ \A s \in Subscribers : s # to => inbox'[s] = inbox[s]
      /\ inbox' \in [Subscribers -> Seq(Nat)]
  BY <1>b DEF PushesTo
<1>6. \A u \in Threads : Done(u)' = Done(u) /\ (Pushing(u)' <=> Pushing(u))
  BY <1>b DEF PushesTo
<1>7. EventTypes'
  BY <1>1, <1>4, <1>5 DEF Delivery, EventTypes
<1>8. Batches'
  BY <1>1, <1>2, <1>4, <1>6 DEF Delivery, Batches
<1>9. /\ Reached(t, to) = e - 1 /\ Reached(t, to)' = e
      /\ \A s \in Subscribers : s # to => Reached(t, s)' = Reached(t, s)
      /\ \A u \in Threads, s \in Subscribers : u # t => Reached(u, s)' = Reached(u, s) /\ Reached(u, s) = eventId
  BY <1>b DEF PushesTo
<1>10. Received'
  <2>1. ASSUME NEW s \in Subscribers, s # to
        PROVE  /\ \A i, j \in DOMAIN inbox'[s] : i < j => inbox'[s][i] < inbox'[s][j]
               /\ \A i \in DOMAIN inbox'[s] :
                    inbox'[s][i] <= eventId' /\ \A u \in Threads : inbox'[s][i] <= Reached(u, s)'
    BY <1>1, <1>5, <1>9, <2>1 DEF Delivery, Received
  <2> DEFINE q == inbox[to]
  <2>2. /\ q \in Seq(Nat) /\ inbox'[to] = Append(q, e)
        /\ \A i, j \in DOMAIN q : i < j => q[i] < q[j]
        /\ \A i \in DOMAIN q : q[i] <= e - 1 /\ q[i] \in Nat
    <3>1. q \in Seq(Nat) /\ \A i \in DOMAIN q : q[i] \in Nat
      BY <1>2, InboxNumbers DEF Delivery
    <3>2. QED  BY <1>2, <1>5, <1>9, <3>1 DEF Delivery, Received
  <2> HIDE DEF q
  <2>3. /\ DOMAIN inbox'[to] = 1..(Len(q) + 1) /\ DOMAIN q = 1..Len(q) /\ Len(q) \in Nat
        /\ inbox'[to][Len(q) + 1] = e /\ \A i \in 1..Len(q) : inbox'[to][i] = q[i]
    BY <1>3, <2>2, AppendedTo
  <2>4. ASSUME NEW i \in 1..(Len(q) + 1), NEW j \in 1..(Len(q) + 1), i < j
        PROVE  inbox'[to][i] < inbox'[to][j]
    <3>1. i \in 1..Len(q)
      BY <2>3, <2>4
    <3>2. CASE j \in 1..Len(q)
      BY <2>2, <2>3, <2>4, <3>1, <3>2
    <3>3. CASE j = Len(q) + 1
      <4>1. inbox'[to][j] = e /\ inbox'[to][i] = q[i]
        BY <2>3, <3>1, <3>3
      <4>2. q[i] <= e - 1 /\ q[i] \in Nat
        BY <2>2, <2>3, <3>1
      <4>3. QED  BY <1>3, <4>1, <4>2
    <3>4. QED  BY <2>3, <3>2, <3>3
  <2>5. ASSUME NEW i \in 1..(Len(q) + 1)
        PROVE  inbox'[to][i] <= eventId' /\ \A u \in Threads : inbox'[to][i] <= Reached(u, to)'
    <3>1. inbox'[to][i] <= e /\ inbox'[to][i] \in Nat
      BY <1>3, <2>2, <2>3
    <3>2. ASSUME NEW u \in Threads  PROVE Reached(u, to)' \in {e, eventId}
      <4>1. CASE u = t
        BY <1>9, <4>1
      <4>2. CASE u # t
        BY <1>2, <1>9, <4>2
      <4>3. QED  BY <4>1, <4>2
    <3>3. QED  BY <1>1, <1>3, <3>1, <3>2
  <2>6. /\ \A i, j \in DOMAIN inbox'[to] : i < j => inbox'[to][i] < inbox'[to][j]
        /\ \A i \in DOMAIN inbox'[to] :
             inbox'[to][i] <= eventId' /\ \A u \in Threads : inbox'[to][i] <= Reached(u, to)'
    BY <2>3, <2>4, <2>5
  <2>7. ASSUME NEW s \in Subscribers
        PROVE  /\ \A i, j \in DOMAIN inbox'[s] : i < j => inbox'[s][i] < inbox'[s][j]
               /\ \A i \in DOMAIN inbox'[s] :
                    inbox'[s][i] <= eventId' /\ \A u \in Threads : inbox'[s][i] <= Reached(u, s)'
    <3>1. CASE s = to
      BY <2>6, <3>1
    <3>2. CASE s # to
      BY <2>1, <3>2
    <3>3. QED  BY <3>1, <3>2
  <2>8. QED  BY <2>7 DEF Received
<1>11. Complete'
  <2> SUFFICES ASSUME NEW s \in Range(active) \ closed, NEW x \in (since[s] + 1)..eventId,
                      \A u \in Threads : x <= Reached(u, s)'
               PROVE  x \in Range(inbox'[s])
    BY <1>1 DEF Complete
  <2>1. s \in Subscribers /\ since[s] \in Nat /\ x \in Int
    <3>1. s \in Subscribers
      BY DEF Delivery, EventTypes, Range
    <3>2. QED  BY <1>3, <3>1, InboxNumbers DEF Delivery
  <2>2. CASE s # to
    BY <1>5, <1>9, <2>1, <2>2 DEF Delivery, Complete
  <2>3. CASE s = to
    <3>1. inbox[to] \in Seq(Nat) /\ Range(inbox[to]) \cup {e} \subseteq Range(inbox'[to])
      BY <1>2, <1>3, <1>5, AppendedTo, InboxNumbers DEF Delivery
    <3>2. CASE x = e
      BY <2>3, <3>1, <3>2
    <3>3. CASE x # e
      <4>1. x <= e
        <5>1. x <= Reached(t, s)'
          OBVIOUS
        <5>2. QED  BY <1>9, <2>3, <5>1
      <4>2. x <= e - 1
        BY <1>3, <2>1, <3>3, <4>1
      <4>3. \A u \in Threads : x <= Reached(u, s)
        BY <1>2, <1>9, <2>3, <4>2
      <4>4. x \in Range(inbox[s])
        BY <4>3 DEF Delivery, Complete
      <4>5. QED  BY <2>3, <3>1, <4>4
    <3>4. QED  BY <3>2, <3>3
  <2>4. QED  BY <2>2, <2>3
<1>12. QED  BY <1>7, <1>8, <1>10, <1>11 DEF Delivery

LEMMA PublishDelivers ==
  ASSUME IInv, Delivery, NEW t \in Threads, NEW seen \in SUBSET Domains, NEW n \in 0..EventsEach,
         Publish(t, seen, n)
  PROVE  /\ Delivery'
         /\ \A u \in Threads, s \in Subscribers : Reached(u, s) = eventId /\ Reached(t, s)' = eventId
<1>1. /\ pc[t] = "sampling" /\ Holds(t) /\ UNCHANGED <<inbox, since, active, closed, todo, ret>>
      /\ eventId' = eventId + n /\ n \in Nat /\ eventId \in Nat
  BY LocksAssumption DEF Publish, PublishHolding, subs, Holds, Inside, Delivery, EventTypes
<1>2. \A u \in Threads : pending[u] = <<>> /\ ~Pushing(u) /\ Done(u) = eventId
  <2>1. ASSUME NEW u \in Threads, u # t  PROVE pending[u] = <<>> /\ ~Pushing(u) /\ Done(u) = eventId
    BY <1>1, <2>1, TheOthersAreDone
  <2>2. pending[t] = <<>> /\ ~Pushing(t)
    BY <1>1, OnlyTheHolderDelivers
  <2>3. QED  BY <2>1, <2>2, DeliveryNumbers DEF Delivery
<1>3. /\ pending'[t] = [i \in 1..n |-> eventId + i] /\ pending'[t] \in Seq(Nat)
      /\ Len(pending'[t]) = n /\ pc'[t] = "deliver"
      /\ \A u \in Threads : u # t => pending'[u] = pending[u] /\ pc'[u] = pc[u]
      /\ pending' \in [Threads -> Seq(Nat)]
  <2>1. [i \in 1..n |-> eventId + i] \in Seq(Nat) /\ Len([i \in 1..n |-> eventId + i]) = n
    BY <1>1
  <2>2. QED  BY <2>1 DEF Publish, PublishHolding, Goto, IInv, LockTypes, Delivery, EventTypes
<1>4. \A u \in Threads : ~Pushing(u)' /\ (u # t => pending'[u] = <<>>)
  BY <1>1, <1>2, <1>3 DEF Pushing
<1>5. EventTypes'
  BY <1>1, <1>3 DEF Delivery, EventTypes
<1>6. Done(t)' = eventId /\ \A u \in Threads : u # t => Done(u)' = eventId'
  <2>1. Done(t)' = eventId
    BY <1>1, <1>3 DEF Done
  <2>2. ASSUME NEW u \in Threads, u # t  PROVE Done(u)' = eventId'
    <3>1. Len(pending'[u]) = 0
      BY <1>4, <2>2
    <3>2. QED  BY <1>1, <3>1 DEF Done
  <2>3. QED  BY <2>1, <2>2
<1>7. Batches'
  <2>1. \A i \in 1..Len(pending'[t]) : pending'[t][i] = Done(t)' + i
    BY <1>3, <1>6
  <2>2. Len(pending'[t]) <= eventId'
    BY <1>1, <1>3
  <2>3. ASSUME NEW u \in Threads, u # t
        PROVE  Len(pending'[u]) <= eventId' /\ \A i \in 1..Len(pending'[u]) : pending'[u][i] = Done(u)' + i
    <3>1. Len(pending'[u]) = 0
      BY <1>4, <2>3
    <3>2. QED  BY <1>1, <3>1
  <2>4. QED  BY <1>1, <1>3, <1>4, <2>1, <2>2, <2>3 DEF Delivery, Batches
<1>8. /\ \A s : Reached(t, s)' = eventId
      /\ \A u \in Threads, s \in Subscribers :
           eventId <= Reached(u, s)' /\ Reached(u, s)' \in Int /\ Reached(u, s) = eventId
  BY <1>1, <1>2, <1>4, <1>6 DEF Reached
<1>9. Received'
  <2> SUFFICES ASSUME NEW s \in Subscribers, NEW i \in DOMAIN inbox[s]
               PROVE  inbox[s][i] <= eventId' /\ \A u \in Threads : inbox[s][i] <= Reached(u, s)'
    BY <1>1 DEF Delivery, Received
  <2>1. inbox[s][i] \in Nat /\ inbox[s][i] <= eventId
    BY InboxNumbers DEF Delivery, Received
  <2>2. QED  BY <1>1, <1>8, <2>1
<1>10. Complete'
  <2> SUFFICES ASSUME NEW s \in Range(active) \ closed, NEW x \in (since[s] + 1)..eventId',
                      \A u \in Threads : x <= Reached(u, s)'
               PROVE  x \in Range(inbox[s])
    BY <1>1 DEF Complete
  <2>1. s \in Subscribers
    BY DEF Delivery, EventTypes, Range
  <2>2. since[s] \in Nat
    BY <2>1, InboxNumbers DEF Delivery
  <2>3. x <= eventId
    BY <1>8
  <2>4. x \in (since[s] + 1)..eventId
    BY <1>1, <2>2, <2>3
  <2>5. \A u \in Threads : x <= Reached(u, s)
    BY <1>8, <2>1, <2>3
  <2>6. QED  BY <2>4, <2>5 DEF Delivery, Complete
<1>11. QED  BY <1>5, <1>7, <1>8, <1>9, <1>10 DEF Delivery

LEMMA SubscribeDelivers ==
  ASSUME IInv, Delivery, NEW new \in Subscribers, Subscribe(new)  PROVE Delivery'
<1>1. /\ UNCHANGED <<eventId, inbox, closed, pending, todo, pc, ret>>
      /\ active' = Append(active, new) /\ new \notin Range(active) /\ active \in Seq(Subscribers)
      /\ since' = [since EXCEPT ![new] = eventId] /\ eventId \in Nat
  BY DEF Subscribe, locals, Delivery, EventTypes
<1>2. \A u \in Threads : /\ Done(u)' = Done(u) /\ (Pushing(u)' <=> Pushing(u))
                         /\ \A s : Reached(u, s)' = Reached(u, s)
  BY <1>1 DEF Done, Pushing, Reached
<1>3. EventTypes'
  BY <1>1 DEF Delivery, EventTypes
<1>4. /\ active' \in Seq(Subscribers) /\ DOMAIN active = 1..Len(active) /\ Len(active) \in Nat
      /\ DOMAIN active' = 1..(Len(active) + 1) /\ active'[Len(active) + 1] = new
      /\ \A i \in 1..Len(active) : active'[i] = active[i]
  BY <1>1
<1>5. NoRepeats(active')
  <2> SUFFICES ASSUME NEW i \in 1..(Len(active) + 1), NEW j \in 1..(Len(active) + 1), active'[i] = active'[j]
               PROVE  i = j
    BY <1>4 DEF NoRepeats
  <2>1. \A k \in 1..Len(active) : active[k] # new
    BY <1>1, <1>4 DEF Range
  <2>2. CASE i \in 1..Len(active) /\ j \in 1..Len(active)
    BY <1>4, <2>2 DEF Delivery, Batches, NoRepeats
  <2>3. CASE i = Len(active) + 1 \/ j = Len(active) + 1
    BY <1>4, <2>1, <2>3
  <2>4. QED  BY <1>4, <2>2, <2>3
<1>6. Batches'
  BY <1>1, <1>2, <1>5 DEF Delivery, Batches
<1>7. Received'
  BY <1>1, <1>2 DEF Delivery, Received
<1>8. Complete'
  <2> SUFFICES ASSUME NEW s \in Range(active') \ closed, NEW x \in (since'[s] + 1)..eventId,
                      \A u \in Threads : x <= Reached(u, s)'
               PROVE  x \in Range(inbox[s])
    BY <1>1 DEF Complete
  <2>1. CASE s = new
    <3>1. since'[s] = eventId
      BY <1>1, <2>1 DEF Delivery, EventTypes
    <3>2. QED  BY <1>1, <3>1
  <2>2. CASE s # new
    <3>1. s \in Range(active) \ closed
      BY <1>4, <2>2 DEF Range
    <3>2. since'[s] = since[s]
      BY <1>1, <2>2, <3>1 DEF Delivery, EventTypes, Range
    <3>3. QED  BY <1>2, <3>1, <3>2 DEF Delivery, Complete
  <2>3. QED  BY <2>1, <2>2
<1>9. QED  BY <1>3, <1>6, <1>7, <1>8 DEF Delivery

\* A step of t that only moves it outside of its deliveries.
MovesElsewhere(t) ==
  /\ ~Holds(t) \/ (pc[t] = "deliver" /\ pending[t] = <<>>)
  /\ UNCHANGED <<published, eventId, pending, todo, subs>> /\ ~Pushing(t)'
  /\ \A u \in Threads : u # t => pc'[u] = pc[u] /\ ret'[u] = ret[u]

\* A step that is not seen from outside.
Uneventful ==
  /\ UNCHANGED <<published, eventId, pending, todo, subs>>
  /\ \A t \in Threads : /\ Pushing(t)' <=> Pushing(t)
                        /\ pending[t] # <<>> => pc'[t] = "deliver" \/ Pushing(t)'

LEMMA ElsewhereIsUneventful ==
  ASSUME IInv, Delivery, NEW t \in Threads, MovesElsewhere(t)  PROVE Uneventful
<1>1. pending[t] = <<>> /\ ~Pushing(t)
  <2>1. CASE ~Holds(t)
    BY <2>1, OnlyTheHolderDelivers
  <2>2. CASE pc[t] = "deliver" /\ pending[t] = <<>>
    BY <2>2 DEF Pushing
  <2>3. QED  BY <2>1, <2>2 DEF MovesElsewhere
<1>2. ASSUME NEW u \in Threads
      PROVE  /\ Pushing(u)' <=> Pushing(u)
             /\ pending[u] # <<>> => pc'[u] = "deliver" \/ Pushing(u)'
  <2>1. CASE u = t
    BY <1>1, <2>1 DEF MovesElsewhere
  <2>2. CASE u # t
    BY <2>2 DEF MovesElsewhere, Pushing, Delivery, Batches
  <2>3. QED  BY <2>1, <2>2
<1>3. QED  BY <1>2 DEF MovesElsewhere, Uneventful

\* As far as events go, whatever Next does is one of these.
LEMMA DeliveryCases ==
  ASSUME IInv, Delivery, [Next]_vars, NEW G,
         ASSUME Uneventful PROVE G,
         ASSUME NEW t \in Threads, NEW seen \in SUBSET Domains, NEW n \in 0..EventsEach,
                Publish(t, seen, n) PROVE G,
         ASSUME NEW t \in Threads, CopySubscriptions(t) PROVE G,
         ASSUME NEW t \in Threads, PassClosed(t) PROVE G,
         ASSUME NEW t \in Threads, Push(t) PROVE G,
         ASSUME NEW t \in Threads, EventDone(t) PROVE G,
         ASSUME NEW s \in Subscribers, Subscribe(s) PROVE G,
         ASSUME NEW s \in Subscribers, CloseSubscription(s) PROVE G
  PROVE  G
<1> USE DEF Goto
<1>i. LockTypes /\ Held
  BY DEF IInv
<1>1. ASSUME NEW t \in Threads, CallRefresh(t) PROVE Uneventful
  <2>1. MovesElsewhere(t)
    BY <1>1, <1>i DEF CallRefresh, locals, LockTypes, Holds, Inside, Pushing, MovesElsewhere
  <2>2. QED  BY <2>1, ElsewhereIsUneventful
<1>2. ASSUME NEW t \in Threads, LockRefresh(t) PROVE Uneventful
  <2>1. ~Holds(t)
    BY <1>2, FreeMeansOutside DEF LockRefresh
  <2>2. MovesElsewhere(t)
    BY <1>2, <1>i, <2>1 DEF LockRefresh, BeginRefresh, LockTypes, Pushing, MovesElsewhere
  <2>3. QED  BY <2>2, ElsewhereIsUneventful
<1>3. ASSUME NEW t \in Threads, NEW reaction \in Reactions, NEW p \in Policies, RunCallback(t, reaction, p)
      PROVE  Uneventful
  <2>1. /\ pc[t] = "callback" /\ Pushing(t) /\ Pushing(t)'
        /\ \A u \in Threads : u # t => pc'[u] = pc[u] /\ ret'[u] = ret[u]
        /\ UNCHANGED <<published, eventId, pending, todo, subs>>
    <3>1. CASE reaction = "query"
      BY <1>3, <1>i, <3>1 DEF RunCallback, LockTypes, Pushing
    <3>2. CASE reaction = "set_policy"
      BY <1>3, <1>i, <3>2 DEF RunCallback, LockTypes, Pushing
    <3>3. CASE reaction = "refresh"
      BY <1>3, <1>i, <3>3 DEF RunCallback, LockTypes, Pushing
    <3>4. QED  BY <3>1, <3>2, <3>3, LocksAssumption
  <2>2. ASSUME NEW u \in Threads
        PROVE  /\ Pushing(u)' <=> Pushing(u)
               /\ pending[u] # <<>> => pc'[u] = "deliver" \/ Pushing(u)'
    BY <2>1 DEF Pushing, Delivery, Batches
  <2>3. QED  BY <2>1, <2>2 DEF Uneventful
<1>4. ASSUME NEW t \in Threads, ReturnFromRefresh(t) PROVE Uneventful
  <2>1. MovesElsewhere(t)
    BY <1>4, <1>i DEF ReturnFromRefresh, locals, LockTypes, Held, Inside, Pushing, MovesElsewhere
  <2>2. QED  BY <2>1, ElsewhereIsUneventful
<1>5. ASSUME NEW t \in Threads, NEW p \in Policies, CallSetPolicy(t, p) PROVE Uneventful
  <2>1. MovesElsewhere(t)
    BY <1>5, <1>i DEF CallSetPolicy, LockTypes, Holds, Inside, Pushing, MovesElsewhere
  <2>2. QED  BY <2>1, ElsewhereIsUneventful
<1>6. ASSUME NEW t \in Threads, ResetMachines(t) PROVE Uneventful
  <2>1. ~Holds(t)
    BY <1>6, FreeMeansOutside DEF ResetMachines
  <2>2. MovesElsewhere(t)
    BY <1>6, <1>i, <2>1 DEF ResetMachines, locals, LockTypes, Holds, Pushing, MovesElsewhere
  <2>3. QED  BY <2>2, ElsewhereIsUneventful
<1>7. ASSUME NEW t \in Threads, SwapPolicy(t) PROVE Uneventful
  <2>1. MovesElsewhere(t)
    BY <1>7, <1>i DEF SwapPolicy, locals, LockTypes, Held, Holds, Inside, Pushing, MovesElsewhere
  <2>2. QED  BY <2>1, ElsewhereIsUneventful
<1>8. CASE UNCHANGED vars
  BY <1>8 DEF vars, locals, Uneventful, Pushing, Delivery, Batches
<1>9. QED  BY <1>1, <1>2, <1>3, <1>4, <1>5, <1>6, <1>7, <1>8, StepCases

LEMMA DeliveryStep ==
  ASSUME IInv, Delivery, [Next]_vars  PROVE Delivery'
<1>1. ASSUME Uneventful  PROVE Delivery'
  BY <1>1, NothingDelivered DEF Uneventful, subs
<1>2. ASSUME NEW s \in Subscribers, CloseSubscription(s)  PROVE Delivery'
  <2>1. UNCHANGED <<eventId, pending, todo, active, inbox, since, pc, ret>> /\ closed \subseteq closed'
    BY <1>2 DEF CloseSubscription, locals
  <2>2. QED  BY <2>1, NothingDelivered DEF Pushing, Delivery, Batches
<1>3. QED  BY <1>1, <1>2, DeliveryCases, PublishDelivers, CopyDelivers, PassClosedDelivers, PushDelivers,
              EventDoneDelivers, SubscribeDelivers

\* Every subscription gets its events in the order of their ids, each once and
\* none before it was made (refresh's delivery loop under refresh_mutex_).
THEOREM EventsComeInOrder == Spec => []EventsInOrder
<1>1. Delivery => EventsInOrder
  BY DEF Delivery, Received, EventsInOrder
<1>2. QED  BY <1>1, InitHolds, StepHolds, DeliveryInit, DeliveryStep, PTL DEF Spec

\* Between refreshes an open subscription has every event made since it was
\* created, whatever others were closed or made while the events went out.
THEOREM NoEventIsMissed == Spec => []NothingMissed
<1>1. IInv /\ Delivery => NothingMissed
  <2> SUFFICES ASSUME IInv, Delivery, owner = NoThread, NEW s \in Range(active) \ closed,
                      NEW x \in (since[s] + 1)..eventId
               PROVE  x \in Range(inbox[s])
    BY DEF NothingMissed
  <2>1. s \in Subscribers
    BY DEF Delivery, EventTypes, Range
  <2>2. ASSUME NEW u \in Threads  PROVE Reached(u, s) = eventId
    <3>1. ~Holds(u)
      BY FreeMeansOutside
    <3>2. pending[u] = <<>> /\ ~Pushing(u)
      BY <3>1, OnlyTheHolderDelivers
    <3>3. QED  BY <3>2, DeliveryNumbers DEF Delivery, Reached
  <2>3. x <= eventId
    BY <2>1, InboxNumbers DEF Delivery, EventTypes
  <2>4. QED  BY <2>2, <2>3 DEF Delivery, Complete
<1>2. QED  BY <1>1, InitHolds, StepHolds, DeliveryInit, DeliveryStep, PTL DEF Spec

-------------------------------------------------------------------------------
(* The runtime implements the event feed. *)

\* Only subscriptions that were made get events, and none from the future.
Joined ==
  /\ \A t \in Threads : Range(todo[t]) \subseteq Range(active)
  /\ closed \subseteq Range(active)
  /\ \A s \in Subscribers : since[s] <= eventId /\ (inbox[s] # <<>> => s \in Range(active))

LastOf(s) == inbox[s][Len(inbox[s])]

\* The other half of Received: an open subscription that has an event has all
\* those after it, but for the ones whose turn has not come.
Gapless ==
  \A s \in Range(active) \ closed : inbox[s] # <<>> =>
    \A e \in (LastOf(s) + 1)..eventId : \E t \in Threads : Reached(t, s) < e

LEMMA FeedInvInit == Init => Joined /\ Gapless
BY DEF Init, Joined, Gapless, Range

LEMMA Everyone ==
  ASSUME EventTypes  PROVE Range(active) \subseteq Subscribers /\ \A t \in Threads : todo[t] \in Seq(Subscribers)
BY DEF EventTypes, Range

\* A sequence that is one longer.
LEMMA OneMore ==
  ASSUME NEW S, NEW q \in Seq(S), NEW x \in S
  PROVE  Range(Append(q, x)) = Range(q) \cup {x}
<1>1. /\ Len(q) \in Nat /\ DOMAIN q = 1..Len(q) /\ DOMAIN Append(q, x) = 1..(Len(q) + 1)
      /\ Append(q, x)[Len(q) + 1] = x /\ \A i \in 1..Len(q) : Append(q, x)[i] = q[i]
  OBVIOUS
<1>2. \A i : i \in 1..(Len(q) + 1) <=> i \in 1..Len(q) \/ i = Len(q) + 1
  BY <1>1
<1>3. QED  BY <1>1, <1>2 DEF Range

LEMMA JoinedStep ==
  ASSUME IInv, Delivery, Joined, [Next]_vars  PROVE Joined'
<1>i. EventTypes /\ Range(active) \subseteq Subscribers /\ \A t \in Threads : todo[t] \in Seq(Subscribers)
  BY Everyone DEF Delivery
<1>1. ASSUME Uneventful  PROVE Joined'
  BY <1>1 DEF Uneventful, subs, Joined
<1>2. ASSUME NEW t \in Threads, NEW seen \in SUBSET Domains, NEW n \in 0..EventsEach, Publish(t, seen, n)
      PROVE  Joined'
  <2>1. UNCHANGED <<todo, subs>> /\ eventId' = eventId + n /\ n \in Nat /\ eventId \in Nat
    BY <1>2, <1>i, LocksAssumption DEF Publish, PublishHolding, EventTypes
  <2>2. \A s \in Subscribers : since[s] <= eventId'
    BY <1>i, <2>1 DEF Joined, EventTypes
  <2>3. QED  BY <2>1, <2>2 DEF subs, Joined
<1>3. ASSUME NEW t \in Threads, CopySubscriptions(t)  PROVE Joined'
  BY <1>3, <1>i DEF CopySubscriptions, subs, Joined, EventTypes
<1>4. ASSUME NEW t \in Threads, PassClosed(t)  PROVE Joined'
  <2>1. /\ UNCHANGED <<eventId, subs>> /\ Range(todo'[t]) \subseteq Range(todo[t])
        /\ \A u \in Threads : u # t => todo'[u] = todo[u]
    BY <1>4, <1>i, TailOf DEF PassClosed, EventTypes
  <2>2. QED  BY <2>1 DEF subs, Joined
<1>5. ASSUME NEW t \in Threads, Push(t)  PROVE Joined'
  <2>1. PICK to \in Subscribers, e \in Nat : PushesTo(t, to, e)
    BY <1>5, WhatPushDoes
  <2>2. /\ UNCHANGED <<eventId, active, closed, since>> /\ to \in Range(active)
        /\ \A s \in Subscribers : s # to => inbox'[s] = inbox[s]
    BY <2>1 DEF PushesTo, Joined
  <2>3. Range(todo'[t]) \subseteq Range(todo[t]) /\ \A u \in Threads : u # t => todo'[u] = todo[u]
    BY <1>5, <1>i, TailOf DEF Push, EventTypes
  <2>4. QED  BY <2>2, <2>3 DEF Joined
<1>6. ASSUME NEW t \in Threads, EventDone(t)  PROVE Joined'
  BY <1>6 DEF EventDone, subs, Joined
<1>7. ASSUME NEW s \in Subscribers, Subscribe(s)  PROVE Joined'
  <2>1. UNCHANGED <<eventId, todo, closed, inbox>> /\ Range(active') = Range(active) \cup {s}
    BY <1>7, <1>i, OneMore DEF Subscribe, locals, EventTypes
  <2>2. eventId \in Nat /\ \A u \in Subscribers : since'[u] \in {since[u], eventId}
    BY <1>7, <1>i DEF Subscribe, EventTypes
  <2>3. QED  BY <2>1, <2>2 DEF Joined
<1>8. ASSUME NEW s \in Subscribers, CloseSubscription(s)  PROVE Joined'
  BY <1>8 DEF CloseSubscription, locals, Joined
<1>9. QED  BY <1>1, <1>2, <1>3, <1>4, <1>5, <1>6, <1>7, <1>8, DeliveryCases

\* Nobody who is open and has an event falls behind by the step.
NobodyFallsBehind ==
  /\ UNCHANGED <<eventId, inbox>>
  /\ \A s \in Range(active') \ closed' : inbox[s] # <<>> =>
       s \in Range(active) \ closed /\ \A t \in Threads : Reached(t, s)' = Reached(t, s)

LEMMA StillGapless == ASSUME Gapless, NobodyFallsBehind  PROVE Gapless'
BY DEF Gapless, NobodyFallsBehind, LastOf

LEMMA NobodyMoves ==
  ASSUME UNCHANGED <<eventId, pending, todo>>, \A t \in Threads : Pushing(t)' <=> Pushing(t)
  PROVE  \A t \in Threads : \A s : Reached(t, s)' = Reached(t, s)
BY DEF Reached, Done

\* Between batches those who are open and have an event have the newest.
LEMMA UpToDate ==
  ASSUME Delivery, Joined, Gapless, NEW s \in Range(active) \ closed,
         \A t \in Threads : Reached(t, s) = eventId
  PROVE  Feed!Position(s) = eventId /\ (inbox[s] # <<>> => LastOf(s) = eventId)
<1>1. s \in Subscribers /\ eventId \in Nat
  BY Everyone DEF Delivery, EventTypes
<1>2. CASE inbox[s] = <<>>
  <2>1. Range(inbox[s]) = {}
    BY <1>2 DEF Range
  <2>2. since[s] \in Nat /\ since[s] <= eventId
    BY <1>1, InboxNumbers DEF Delivery, Joined
  <2>3. ASSUME since[s] < eventId  PROVE FALSE
    <3>1. eventId \in (since[s] + 1)..eventId /\ \A t \in Threads : eventId <= Reached(t, s)
      BY <1>1, <2>2, <2>3
    <3>2. QED  BY <2>1, <3>1 DEF Delivery, Complete
  <2>4. QED  BY <1>1, <1>2, <2>2, <2>3 DEF Feed!Position
<1>3. CASE inbox[s] # <<>>
  <2>1. Len(inbox[s]) \in DOMAIN inbox[s] /\ LastOf(s) \in Nat
    BY <1>1, <1>3, InboxNumbers DEF Delivery, LastOf
  <2>2. LastOf(s) <= eventId
    BY <1>1, <2>1 DEF Delivery, Received, LastOf
  <2>3. ASSUME LastOf(s) < eventId  PROVE FALSE
    <3>1. eventId \in (LastOf(s) + 1)..eventId
      BY <1>1, <2>1, <2>3
    <3>2. PICK t \in Threads : Reached(t, s) < eventId
      BY <1>3, <3>1 DEF Gapless
    <3>3. QED  BY <1>1, <3>2
  <2>4. LastOf(s) = eventId
    BY <1>1, <2>1, <2>2, <2>3
  <2>5. QED  BY <1>3, <2>4 DEF Feed!Position, LastOf
<1>4. QED  BY <1>2, <1>3

LEMMA GaplessStep ==
  ASSUME IInv, Delivery, Joined, Gapless, [Next]_vars  PROVE Gapless'
<1>i. EventTypes /\ Range(active) \subseteq Subscribers
  BY Everyone DEF Delivery
<1>1. ASSUME Uneventful  PROVE Gapless'
  <2>1. NobodyFallsBehind
    BY <1>1, NobodyMoves DEF Uneventful, subs, NobodyFallsBehind
  <2>2. QED  BY <2>1, StillGapless
<1>2. ASSUME NEW t \in Threads, NEW seen \in SUBSET Domains, NEW n \in 0..EventsEach, Publish(t, seen, n)
      PROVE  Gapless'
  <2>1. UNCHANGED subs
    BY <1>2 DEF Publish, PublishHolding
  <2>2. \A u \in Threads, s \in Subscribers : Reached(u, s) = eventId /\ Reached(t, s)' = eventId
    BY <1>2, PublishDelivers
  <2>3. ASSUME NEW s \in Range(active) \ closed, inbox[s] # <<>>, NEW e \in (LastOf(s) + 1)..eventId'
        PROVE  Reached(t, s)' < e
    <3>1. LastOf(s) = eventId /\ eventId \in Nat
      BY <1>i, <2>2, <2>3, UpToDate DEF EventTypes
    <3>2. Reached(t, s)' = eventId
      BY <1>i, <2>2
    <3>3. QED  BY <3>1, <3>2
  <2>4. QED  BY <2>1, <2>3 DEF Gapless, LastOf, subs
<1>3. ASSUME NEW t \in Threads, CopySubscriptions(t) \/ PassClosed(t) \/ EventDone(t)  PROVE Gapless'
  <2>1. UNCHANGED <<eventId, active, closed, inbox>> /\ PassesOnlyClosed
    BY <1>3, CopyDelivers, PassClosedDelivers, EventDoneDelivers
       DEF CopySubscriptions, PassClosed, EventDone, subs
  <2>2. NobodyFallsBehind
    BY <1>i, <2>1 DEF PassesOnlyClosed, NobodyFallsBehind
  <2>3. QED  BY <2>2, StillGapless
<1>4. ASSUME NEW t \in Threads, Push(t)  PROVE Gapless'
  <2>1. PICK to \in Subscribers, e \in Nat : PushesTo(t, to, e)
    BY <1>4, WhatPushDoes
  <2>2. /\ UNCHANGED <<eventId, active, closed>> /\ inbox'[to] = Append(inbox[to], e)
        /\ \A s \in Subscribers : s # to =>
             inbox'[s] = inbox[s] /\ \A u \in Threads : Reached(u, s)' = Reached(u, s)
        /\ Reached(t, to)' = e
    BY <2>1 DEF PushesTo
  <2>3. LastOf(to)' = e
    BY <1>i, <2>2, AppendedTo, InboxNumbers DEF LastOf
  <2>4. ASSUME NEW s \in Range(active) \ closed, inbox'[s] # <<>>, NEW x \in (LastOf(s)' + 1)..eventId
        PROVE  \E u \in Threads : Reached(u, s)' < x
    <3>1. CASE s = to
      BY <2>2, <2>3, <2>4, <3>1
    <3>2. CASE s # to
      BY <1>i, <2>2, <2>4, <3>2 DEF Gapless, LastOf
    <3>3. QED  BY <3>1, <3>2
  <2>5. QED  BY <2>2, <2>4 DEF Gapless
<1>5. ASSUME NEW s \in Subscribers, Subscribe(s)  PROVE Gapless'
  <2>1. /\ UNCHANGED <<eventId, inbox, closed, pending, todo, pc, ret>> /\ inbox[s] = <<>>
        /\ Range(active') = Range(active) \cup {s}
    BY <1>5, <1>i, OneMore DEF Subscribe, locals, EventTypes, Joined
  <2>2. NobodyFallsBehind
    BY <2>1, NobodyMoves DEF Pushing, NobodyFallsBehind
  <2>3. QED  BY <2>2, StillGapless
<1>6. ASSUME NEW s \in Subscribers, CloseSubscription(s)  PROVE Gapless'
  <2>1. UNCHANGED <<eventId, inbox, active, pending, todo, pc, ret>> /\ closed \subseteq closed'
    BY <1>6 DEF CloseSubscription, locals
  <2>2. NobodyFallsBehind
    BY <2>1, NobodyMoves DEF Pushing, NobodyFallsBehind
  <2>3. QED  BY <2>2, StillGapless
<1>7. QED  BY <1>1, <1>2, <1>3, <1>4, <1>5, <1>6, DeliveryCases

LEMMA FeedInit == Init => Feed!Init
BY DEF Init, Feed!Init, Status, Range

\* A pushed event is the next one of the subscription, or comes before it began.
LEMMA PushedIsNext ==
  ASSUME IInv, Delivery, Joined, Gapless, NEW t \in Threads, NEW to \in Subscribers, NEW e \in Nat,
         PushesTo(t, to, e)
  PROVE  /\ to \in Range(active) \ closed /\ e \in 1..eventId
         /\ e = Feed!Position(to) + 1 \/ (inbox[to] = <<>> /\ e <= since[to])
<1>1. /\ to \in Range(active) \ closed /\ e = Done(t) + 1 /\ e <= eventId /\ eventId \in Nat
      /\ Reached(t, to) = e - 1 /\ \A u \in Threads : u # t => Reached(u, to) = eventId
  BY DEF PushesTo, Joined
<1>2. e \in 1..eventId
  <2>1. Len(pending[t]) \in Nat /\ Len(pending[t]) <= eventId
    BY DeliveryNumbers DEF Delivery, Batches
  <2>2. QED  BY <1>1, <2>1 DEF Done
<1>3. \A u \in Threads : e - 1 <= Reached(u, to)
  <2>1. \A u \in Threads : Reached(u, to) \in {e - 1, eventId}
    BY <1>1
  <2>2. QED  BY <1>1, <2>1
<1>4. CASE inbox[to] = <<>>
  <2>1. since[to] \in Nat /\ Range(inbox[to]) = {} /\ Feed!Position(to) = since[to]
    BY <1>4, InboxNumbers DEF Delivery, Range, Feed!Position
  <2>2. ASSUME e > since[to] + 1  PROVE FALSE
    <3>1. e - 1 \in (since[to] + 1)..eventId
      BY <1>1, <2>1, <2>2
    <3>2. QED  BY <1>1, <1>3, <2>1, <3>1 DEF Delivery, Complete
  <2>3. QED  BY <1>1, <1>2, <1>4, <2>1, <2>2
<1>5. CASE inbox[to] # <<>>
  <2>1. Len(inbox[to]) \in DOMAIN inbox[to] /\ LastOf(to) \in Nat /\ Feed!Position(to) = LastOf(to)
    BY <1>5, InboxNumbers DEF Delivery, LastOf, Feed!Position
  <2>2. LastOf(to) <= e - 1
    BY <1>1, <2>1 DEF Delivery, Received, LastOf
  <2>3. ASSUME LastOf(to) < e - 1  PROVE FALSE
    <3>1. e - 1 \in (LastOf(to) + 1)..eventId
      BY <1>1, <2>1, <2>3
    <3>2. PICK u \in Threads : Reached(u, to) < e - 1
      BY <1>1, <1>5, <3>1 DEF Gapless
    <3>3. Reached(u, to) \in {e - 1, eventId}
      BY <1>1
    <3>4. QED  BY <1>1, <3>2, <3>3
  <2>4. QED  BY <1>1, <1>2, <2>1, <2>2, <2>3
<1>6. QED  BY <1>1, <1>2, <1>4, <1>5

LEMMA FeedStep ==
  ASSUME IInv, Delivery, Joined, Gapless, [Next]_vars  PROVE [Feed!Next]_(Feed!feedVars)
<1> USE DEF Feed!feedVars
<1>i. /\ EventTypes /\ Range(active) \subseteq Subscribers
      /\ \A s \in Subscribers : /\ Status[s] = "open" <=> s \in Range(active) \ closed
                                /\ Status[s] = "none" <=> s \notin Range(active)
  BY Everyone DEF Delivery, Joined, Status
<1>s. UNCHANGED <<active, closed>> => UNCHANGED Status
  BY DEF Status
<1>1. ASSUME Uneventful  PROVE UNCHANGED Feed!feedVars
  BY <1>1, <1>s DEF Uneventful, subs
<1>2. ASSUME NEW t \in Threads, NEW seen \in SUBSET Domains, NEW n \in 0..EventsEach, Publish(t, seen, n)
      PROVE  Feed!Publish
  <2>1. UNCHANGED subs /\ eventId' = eventId + n /\ n \in Nat /\ eventId \in Nat
    BY <1>2, <1>i, LocksAssumption DEF Publish, PublishHolding, EventTypes
  <2>2. published' = published + 1
    BY <1>2 DEF Publish, PublishHolding, IInv, Numbered
  <2>3. ASSUME NEW s \in Subscribers, Status[s] = "open"  PROVE Feed!Position(s) = eventId
    <3>1. s \in Range(active) \ closed /\ \A u \in Threads : Reached(u, s) = eventId
      BY <1>2, <1>i, <2>3, PublishDelivers
    <3>2. QED  BY <3>1, UpToDate
  <2>4. eventId' \in Nat /\ eventId' >= eventId
    BY <2>1
  <2>5. QED  BY <1>s, <2>1, <2>2, <2>3, <2>4 DEF Feed!Publish, subs
<1>3. ASSUME NEW t \in Threads, CopySubscriptions(t) \/ PassClosed(t) \/ EventDone(t)
      PROVE  UNCHANGED Feed!feedVars
  BY <1>3, <1>s DEF CopySubscriptions, PassClosed, EventDone, subs
<1>4. ASSUME NEW t \in Threads, Push(t)  PROVE \E s \in Subscribers : Feed!Deliver(s)
  <2>1. PICK to \in Subscribers, e \in Nat : PushesTo(t, to, e)
    BY <1>4, WhatPushDoes
  <2>2. /\ Status[to] = "open" /\ e \in 1..eventId
        /\ e = Feed!Position(to) + 1 \/ (inbox[to] = <<>> /\ e <= since[to])
    BY <1>i, <2>1, PushedIsNext
  <2>3. UNCHANGED <<published, eventId, Status, since>>
    BY <1>4, <1>s DEF Push
  <2>4. inbox' = [inbox EXCEPT ![to] = Append(@, e)]
    BY <2>1 DEF PushesTo
  <2>5. Feed!Deliver(to)
    BY <2>2, <2>3, <2>4 DEF Feed!Deliver
  <2>6. QED  BY <2>5
<1>5. ASSUME NEW s \in Subscribers, Subscribe(s)  PROVE Feed!Subscribe(s)
  <2>1. /\ Status[s] = "none" /\ since' = [since EXCEPT ![s] = eventId]
        /\ UNCHANGED <<published, eventId, closed, inbox>> /\ Range(active') = Range(active) \cup {s}
    BY <1>5, <1>i, OneMore DEF Subscribe, locals, EventTypes
  <2>2. Status' = [Status EXCEPT ![s] = "open"]
    BY <1>5, <2>1 DEF Subscribe, Status, Joined
  <2>3. QED  BY <2>1, <2>2 DEF Feed!Subscribe
<1>6. ASSUME NEW s \in Subscribers, CloseSubscription(s)
      PROVE  Feed!Close(s) \/ UNCHANGED Feed!feedVars
  <2>1. /\ s \in Range(active) /\ closed' = closed \cup {s}
        /\ UNCHANGED <<published, eventId, active, since, inbox>>
    BY <1>6 DEF CloseSubscription, locals
  <2>2. CASE s \in closed
    <3>1. closed' = closed
      BY <2>1, <2>2
    <3>2. QED  BY <1>s, <2>1, <3>1
  <2>3. CASE s \notin closed
    <3>1. Status' = [Status EXCEPT ![s] = "closed"]
      BY <2>1 DEF Status
    <3>2. QED  BY <1>i, <2>1, <2>3, <3>1 DEF Feed!Close
  <2>4. QED  BY <2>2, <2>3
<1>7. QED  BY <1>1, <1>2, <1>3, <1>4, <1>5, <1>6, DeliveryCases DEF Feed!Next

\* Seen from outside, refresh with its threads, its mutexes and its callbacks
\* is the event feed: every publication comes when the events before it have
\* reached all who are open, and each push hands out the next event.
THEOREM LocksImplementFeed == Spec => ImplementsFeed
<1>1. IInv /\ Delivery /\ Joined /\ Gapless /\ [Next]_vars =>
        /\ Joined' /\ Gapless'
        /\ [Feed!Next]_(Feed!feedVars)
  BY JoinedStep, GaplessStep, FeedStep
<1>2. IInv /\ Delivery /\ [Next]_vars => Delivery'
  BY DeliveryStep
<1>3. Init => Joined /\ Gapless
  BY FeedInvInit
<1>4. QED  BY <1>1, <1>2, <1>3, FeedInit, InitHolds, StepHolds, DeliveryInit, PTL
            DEF Spec, ImplementsFeed, Feed!Spec
===============================================================================
