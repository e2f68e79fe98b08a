------------------------------ MODULE Subscription ------------------------------
(***************************************************************************)
(* class Subscription (events.h, core.cpp): a bounded queue of events      *)
(* behind a mutex, with an overflow policy, counters and an optional       *)
(* callback.  Every method is one step under the mutex, except push, which *)
(* copies the callback under the mutex and invokes it after unlocking:     *)
(* the callback step may come after any other caller's step.               *)
(*                                                                         *)
(* Events are numbered in the order in which they are pushed; Kinds are    *)
(* the (domain, type, severity) combinations the filter can tell apart.    *)
(***************************************************************************)
EXTENDS Integers, Sequences

CONSTANTS MaxQueue,     \* max_queue_
          Producers,    \* threads that push (the runtime's refresh is one)
          Callbacks,    \* callbacks a consumer may install
          NoCallback,
          Filter,       \* the subscription's filter
          Kinds,        \* the kinds of events pushed
          MaxEvents     \* bound: how many events are pushed

\* A queue of capacity 0 makes DropOldest pop an empty deque; the runtime
\* creates its subscriptions with 256.
ASSUME SubscriptionAssumption ==
  /\ MaxQueue \in Nat \ {0}
  /\ MaxEvents \in Nat
  /\ NoCallback \notin Callbacks

OverflowPolicies == {"DropNewest", "DropOldest", "Reject"}

\* Subscription::matches; an empty filter list lets everything pass.  The
\* domain_types list is not consulted.
Matches(filter, kind) ==
  /\ filter.domains     = {} \/ kind.domain   \in filter.domains
  /\ filter.event_types = {} \/ kind.type     \in filter.event_types
  /\ filter.severities  = {} \/ kind.severity \in filter.severities

VARIABLES
  overflow,    \* overflow_policy_, fixed by the constructor
  queue,       \* queue_: the numbers of the queued events, oldest first
  closed,      \* closed_
  callback,    \* callback_
  delivered, dropped, rejected,   \* the counters
  calling,     \* per producer, the callback invocation it has yet to make
  pushed,      \* how many events were pushed
  offered,     \* history: matching events pushed while the subscription was open
  popped,      \* history: events handed out by try_pop, in order
  cleared,     \* history: events discarded by clear
  called       \* history: callback invocations, in order

counters == <<delivered, dropped, rejected>>
history  == <<offered, popped, cleared, called>>
vars == <<overflow, queue, closed, callback, counters, calling, pushed, history>>

NoCall == [callback |-> NoCallback, event |-> 0]

Init ==
  /\ overflow \in OverflowPolicies
  /\ queue = <<>> /\ closed = FALSE
  /\ callback \in Callbacks \cup {NoCallback}
  /\ delivered = 0 /\ dropped = 0 /\ rejected = 0
  /\ calling = [p \in Producers |-> NoCall]
  /\ pushed = 0 /\ offered = 0 /\ popped = <<>> /\ cleared = 0 /\ called = <<>>

Full == Len(queue) >= MaxQueue

\* push of an event the filter does not let through, or on a closed subscription.
PushIgnored(p, kind) ==
  /\ calling[p] = NoCall /\ pushed < MaxEvents
  /\ ~Matches(Filter, kind) \/ closed
  /\ pushed' = pushed + 1
  /\ UNCHANGED <<overflow, queue, closed, callback, counters, calling, history>>

\* push into a full queue that turns new events away.
PushRefused(p, kind) ==
  /\ calling[p] = NoCall /\ pushed < MaxEvents
  /\ Matches(Filter, kind) /\ ~closed
  /\ Full /\ overflow # "DropOldest"
  /\ IF overflow = "Reject" THEN rejected' = rejected + 1 /\ UNCHANGED dropped
                            ELSE dropped' = dropped + 1 /\ UNCHANGED rejected
  /\ pushed' = pushed + 1 /\ offered' = offered + 1
  /\ UNCHANGED <<overflow, queue, closed, callback, delivered, calling, popped, cleared, called>>

\* The event enters a queue that now is q, with d events dropped so far, and
\* the callback is copied for the time after the mutex is released.
Enqueue(p, kind, q, d) ==
  /\ calling[p] = NoCall /\ pushed < MaxEvents
  /\ Matches(Filter, kind)
  /\ pushed' = pushed + 1 /\ offered' = offered + 1
  /\ queue' = q /\ dropped' = d /\ delivered' = delivered + 1
  /\ calling' = [calling EXCEPT ![p] = [callback |-> callback, event |-> pushed']]
  /\ UNCHANGED <<overflow, closed, callback, rejected, popped, cleared, called>>

\* The queue once the oldest event has made room, if it has to.
Room == IF Full THEN Tail(queue) ELSE queue

DroppedNow == IF Full THEN dropped + 1 ELSE dropped

\* Mistakes, for mutation: an eviction that goes uncounted, an event that lands
\* in front, a closed flag ignored.
PushAcceptedUncounted(p, kind) ==
  ~closed /\ (Full => overflow = "DropOldest") /\ Enqueue(p, kind, Append(Room, pushed + 1), dropped)
PushAcceptedInFront(p, kind) ==
  ~closed /\ (Full => overflow = "DropOldest") /\ Enqueue(p, kind, <<pushed + 1>> \o Room, DroppedNow)
PushAcceptedAnyway(p, kind) ==
  (Full => overflow = "DropOldest") /\ Enqueue(p, kind, Append(Room, pushed + 1), DroppedNow)

\* push that enqueues, evicting the oldest event if it must.
PushAccepted(p, kind) ==
  /\ ~closed
  /\ Full => overflow = "DropOldest"
  /\ Enqueue(p, kind, Append(Room, pushed + 1), DroppedNow)

\* Mistake, for mutation: an invocation that is made again.
InvokeCallbackAgain(p) ==
  /\ calling[p] # NoCall
  /\ called' = IF calling[p].callback = NoCallback THEN called ELSE Append(called, calling[p])
  /\ calling' = [calling EXCEPT ![p] = IF calling[p].event \in {c.event : c \in {called[i] : i \in DOMAIN called}} THEN NoCall ELSE @]
  /\ UNCHANGED <<overflow, queue, closed, callback, counters, pushed, offered, popped, cleared>>

\* The rest of push: the copied callback runs, or there is none.
InvokeCallback(p) ==
  /\ calling[p] # NoCall
  /\ called' = IF calling[p].callback = NoCallback THEN called ELSE Append(called, calling[p])
  /\ calling' = [calling EXCEPT ![p] = NoCall]
  /\ UNCHANGED <<overflow, queue, closed, callback, counters, pushed, offered, popped, cleared>>

TryPop ==
  /\ queue # <<>>
  /\ popped' = Append(popped, Head(queue)) /\ queue' = Tail(queue)
  /\ UNCHANGED <<overflow, closed, callback, counters, calling, pushed, offered, cleared, called>>

SetCallback(cb) ==
  /\ callback' = cb
  /\ UNCHANGED <<overflow, queue, closed, counters, calling, pushed, history>>

Close ==
  /\ closed' = TRUE /\ callback' = NoCallback
  /\ UNCHANGED <<overflow, queue, counters, calling, pushed, history>>

Clear ==
  /\ cleared' = cleared + Len(queue) /\ queue' = <<>>
  /\ UNCHANGED <<overflow, closed, callback, counters, calling, pushed, offered, popped, called>>

Push(p, kind) == PushIgnored(p, kind) \/ PushRefused(p, kind) \/ PushAccepted(p, kind)

Next ==
  \/ \E p \in Producers : (\E kind \in Kinds : Push(p, kind)) \/ InvokeCallback(p)
  \/ TryPop \/ Close \/ Clear
  \/ \E cb \in Callbacks \cup {NoCallback} : SetCallback(cb)

Spec == Init /\ [][Next]_vars

-------------------------------------------------------------------------------
(* Properties *)

\* Types, and the bound of the queue.
TypeOK ==
  /\ overflow \in OverflowPolicies /\ closed \in BOOLEAN
  /\ callback \in Callbacks \cup {NoCallback}
  /\ queue \in Seq(Nat) /\ Len(queue) <= MaxQueue
  /\ delivered \in Nat /\ dropped \in Nat /\ rejected \in Nat
  /\ calling \in [Producers -> [callback : Callbacks \cup {NoCallback}, event : Nat]]
  /\ pushed \in Nat /\ offered \in Nat /\ popped \in Seq(Nat) /\ cleared \in Nat
  /\ called \in Seq([callback : Callbacks, event : Nat])

\* No event is lost silently: whatever the order of pushes, pops and clears,
\* each matching event offered while the subscription was open is queued, was
\* handed out, was discarded by clear, or is counted as dropped or rejected;
\* and delivered counts what entered the queue, which only the policy that
\* evicts lets exceed what is queued, handed out or cleared.
NothingLostSilently ==
  /\ offered = Len(queue) + Len(popped) + cleared + dropped + rejected
  /\ delivered = Len(queue) + Len(popped) + cleared
                   + (IF overflow = "DropOldest" THEN dropped ELSE 0)

\* After close returns nothing enters the queue any more and the counters
\* stand still, whatever producers are still busy; what is queued can still be
\* popped.  A callback may still run after close, but only an invocation whose
\* push had released the mutex before: no new one is prepared.
QuietAfterClose ==
  [][closed => /\ closed' /\ UNCHANGED counters
               /\ \E n \in 0..Len(queue) : queue' = SubSeq(queue, n + 1, Len(queue))
               /\ \A p \in Producers : calling'[p] \in {calling[p], NoCall}]_vars

\* With one producer, which is what the refresh mutex makes of the runtime, a
\* callback hears of events in the order in which they were queued, each once.
CallbackInOrder ==
  \A i \in 1..Len(called), j \in 1..Len(called) : i < j => called[i].event < called[j].event

\* The subscription implements the lossy queue it promises.
Fifo == INSTANCE LossyFifo WITH
  Bound   <- MaxQueue,
  backlog <- queue,
  taken   <- IF popped = <<>> THEN 0 ELSE popped[Len(popped)],
  newest  <- pushed

ImplementsFifo == Fifo!Spec
===============================================================================
