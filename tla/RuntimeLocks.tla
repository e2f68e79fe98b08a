----------------------------- MODULE RuntimeLocks -----------------------------
(***************************************************************************)
(* Threads inside PressureRuntime: refresh and set_policy calls from       *)
(* several threads, subscriptions that come and go, and callbacks that     *)
(* call back into the runtime.                                             *)
(*                                                                         *)
(* refresh holds refresh_mutex_ from its first line to its last.  The      *)
(* other mutexes (config, registry, current, stats, a subscription's own)  *)
(* guard a few lines without calls, so the lines under them are one step.  *)
(* A domain's machine is reduced to the policy it was built for, an event  *)
(* to its id.                                                              *)
(***************************************************************************)
EXTENDS Integers, Sequences, Functions

CONSTANTS Threads, NoThread,
          Policies, InitialPolicy,
          Domains,
          Subscribers,   \* subscriptions that may be created
          Reactions,     \* what a callback may do: "query", "set_policy", "refresh"
          EventsEach,    \* bound: events of one refresh
          MaxRefreshes,  \* bound: refresh calls
          MaxPolicies    \* bound: set_policy calls

ASSUME LocksAssumption ==
  /\ NoThread \notin Threads /\ InitialPolicy \in Policies
  /\ Reactions \subseteq {"query", "set_policy", "refresh"}
  /\ EventsEach \in Nat /\ MaxRefreshes \in Nat /\ MaxPolicies \in Nat

VARIABLES
  owner,      \* the thread that holds refresh_mutex_
  pc, ret,    \* where each thread is, and where its present call returns to
  policy,     \* policy_
  machines,   \* domain_states_: for tracked domains, the policy their machine has
  snapshotId, \* snapshot_id_
  eventId,    \* event_id_
  published,  \* the id of current_snapshot_
  pol, id,    \* locals of refresh: pol, new_snap->id
  pending,    \* locals of refresh: the events still to deliver, and for the
  todo,       \*   event at hand the subscriptions still to push it to
  arg,        \* the policy passed to set_policy
  active,     \* subscriptions_
  closed,     \* the subscriptions that were closed
  inbox,      \* the events pushed to each subscription, in order
  since,      \* history: eventId when each subscription was made
  calls       \* how many refresh and set_policy calls were made

locals == <<pol, id, pending, todo, arg>>
subs   == <<active, closed, inbox, since>>
vars   == <<owner, pc, ret, policy, machines, snapshotId, eventId, published, locals, subs, calls>>

Init ==
  /\ owner = NoThread
  /\ pc = [t \in Threads |-> "idle"] /\ ret = [t \in Threads |-> "idle"]
  /\ policy = InitialPolicy /\ machines = [d \in {} |-> InitialPolicy]
  /\ snapshotId = 0 /\ eventId = 0 /\ published = 0
  /\ pol = [t \in Threads |-> InitialPolicy] /\ id = [t \in Threads |-> 0]
  /\ pending = [t \in Threads |-> <<>>] /\ todo = [t \in Threads |-> <<>>]
  /\ arg = [t \in Threads |-> InitialPolicy]
  /\ active = <<>> /\ closed = {} /\ inbox = [s \in Subscribers |-> <<>>]
  /\ since = [s \in Subscribers |-> 0]
  /\ calls = [refresh |-> 0, set_policy |-> 0]

Goto(t, label) == pc' = [pc EXCEPT ![t] = label]

-------------------------------------------------------------------------------
(* refresh *)

CallRefresh(t) ==
  /\ pc[t] = "idle" /\ calls.refresh < MaxRefreshes
  /\ calls' = [calls EXCEPT !.refresh = @ + 1]
  /\ Goto(t, "want_refresh") /\ ret' = [ret EXCEPT ![t] = "idle"]
  /\ UNCHANGED <<owner, policy, machines, snapshotId, eventId, published, locals, subs>>

\* What refresh does once it has the mutex: read the policy, number the snapshot.
BeginRefresh(t) ==
  /\ pc[t] = "want_refresh"
  /\ owner' = t
  /\ pol' = [pol EXCEPT ![t] = policy]
  /\ snapshotId' = snapshotId + 1 /\ id' = [id EXCEPT ![t] = snapshotId']
  /\ Goto(t, "sampling")
  /\ UNCHANGED <<ret, policy, machines, eventId, published, pending, todo, arg, subs, calls>>

\* Mistake, for mutation: refresh does not wait for the mutex.
LockRefreshAnyway(t) == BeginRefresh(t)

LockRefresh(t) == owner = NoThread /\ BeginRefresh(t)

\* Interpretation and publication: new domains get a machine of the policy read
\* at the start, domains that are gone lose theirs, n events are pending.
PublishHolding(t, seen, n, holder) ==
  /\ pc[t] = "sampling"
  /\ machines' = [d \in seen |-> IF d \in DOMAIN machines THEN machines[d] ELSE pol[t]]
  /\ published' = id[t]
  /\ eventId' = eventId + n
  /\ pending' = [pending EXCEPT ![t] = [i \in 1..n |-> eventId + i]]
  /\ owner' = holder
  /\ Goto(t, "deliver")
  /\ UNCHANGED <<ret, policy, snapshotId, pol, id, todo, arg, subs, calls>>

\* Mistake, for mutation: the mutex is released before the events are out.
PublishAndUnlock(t, seen, n) == PublishHolding(t, seen, n, NoThread)

\* The mutex stays with the refresh.
Publish(t, seen, n) == PublishHolding(t, seen, n, owner)

\* The next event, for the subscriptions registered at this moment.
CopySubscriptions(t) ==
  /\ pc[t] = "deliver" /\ pending[t] # <<>>
  /\ todo' = [todo EXCEPT ![t] = active]
  /\ Goto(t, "push")
  /\ UNCHANGED <<owner, ret, policy, machines, snapshotId, eventId, published, pol, id, pending, arg,
                 subs, calls>>

\* Mistakes, for mutation: a closed subscription ends the round, or blocks it.
PassClosedBreaking(t) ==
  /\ pc[t] = "push" /\ todo[t] # <<>> /\ Head(todo[t]) \in closed
  /\ todo' = [todo EXCEPT ![t] = <<>>]
  /\ UNCHANGED <<owner, pc, ret, policy, machines, snapshotId, eventId, published, pol, id, pending,
                 arg, subs, calls>>
PassClosedNever(t) == FALSE /\ PassClosedBreaking(t)

PassClosed(t) ==
  /\ pc[t] = "push" /\ todo[t] # <<>> /\ Head(todo[t]) \in closed
  /\ todo' = [todo EXCEPT ![t] = Tail(@)]
  /\ UNCHANGED <<owner, pc, ret, policy, machines, snapshotId, eventId, published, pol, id, pending,
                 arg, subs, calls>>

\* push on an open subscription; its callback comes next.
Push(t) ==
  /\ pc[t] = "push" /\ todo[t] # <<>> /\ Head(todo[t]) \notin closed
  /\ inbox' = [inbox EXCEPT ![Head(todo[t])] = Append(@, Head(pending[t]))]
  /\ todo' = [todo EXCEPT ![t] = Tail(@)]
  /\ Goto(t, "callback")
  /\ UNCHANGED <<owner, ret, policy, machines, snapshotId, eventId, published, pol, id, pending, arg,
                 active, closed, since, calls>>

EventDone(t) ==
  /\ pc[t] = "push" /\ todo[t] = <<>>
  /\ pending' = [pending EXCEPT ![t] = Tail(@)]
  /\ Goto(t, "deliver")
  /\ UNCHANGED <<owner, ret, policy, machines, snapshotId, eventId, published, pol, id, todo, arg, subs,
                 calls>>

\* The callback runs, on the thread of the refresh.  A query (admit,
\* backpressure, current_snapshot) is over at once; a call that needs the
\* refresh mutex waits for it, and would return to the round of pushes.
RunCallback(t, reaction, p) ==
  /\ pc[t] = "callback"
  /\ Goto(t, CASE reaction = "query" -> "push" [] reaction = "set_policy" -> "want_policy"
               [] reaction = "refresh" -> "want_refresh")
  /\ IF reaction = "query" THEN UNCHANGED ret ELSE ret' = [ret EXCEPT ![t] = "push"]
  /\ IF reaction = "set_policy" THEN arg' = [arg EXCEPT ![t] = p] ELSE UNCHANGED arg
  /\ UNCHANGED <<owner, policy, machines, snapshotId, eventId, published, pol, id, pending, todo, subs,
                 calls>>

\* All events are out: refresh returns, and the mutex is released.
ReturnFromRefresh(t) ==
  /\ pc[t] = "deliver" /\ pending[t] = <<>>
  /\ owner' = NoThread /\ Goto(t, ret[t])
  /\ UNCHANGED <<ret, policy, machines, snapshotId, eventId, published, locals, subs, calls>>
-------------------------------------------------------------------------------
(* set_policy, and subscriptions *)

CallSetPolicy(t, p) ==
  /\ pc[t] = "idle" /\ calls.set_policy < MaxPolicies
  /\ calls' = [calls EXCEPT !.set_policy = @ + 1]
  /\ arg' = [arg EXCEPT ![t] = p]
  /\ Goto(t, "want_policy") /\ ret' = [ret EXCEPT ![t] = "idle"]
  /\ UNCHANGED <<owner, policy, machines, snapshotId, eventId, published, pol, id, pending, todo, subs>>

\* Under the refresh mutex, every machine is replaced by one of the new policy.
ResetMachines(t) ==
  /\ pc[t] = "want_policy" /\ owner = NoThread
  /\ machines' = [d \in DOMAIN machines |-> arg[t]]
  /\ Goto(t, "swap")
  /\ UNCHANGED <<owner, ret, policy, snapshotId, eventId, published, locals, subs, calls>>

\* The mutex is free again when the policy is replaced.
SwapPolicy(t) ==
  /\ pc[t] = "swap"
  /\ policy' = arg[t]
  /\ Goto(t, ret[t])
  /\ UNCHANGED <<owner, ret, machines, snapshotId, eventId, published, locals, subs, calls>>

Subscribe(s) ==
  /\ s \notin Range(active)
  /\ active' = Append(active, s) /\ since' = [since EXCEPT ![s] = eventId]
  /\ UNCHANGED <<owner, pc, ret, policy, machines, snapshotId, eventId, published, locals, closed,
                 inbox, calls>>

CloseSubscription(s) ==
  /\ s \in Range(active)
  /\ closed' = closed \cup {s}
  /\ UNCHANGED <<owner, pc, ret, policy, machines, snapshotId, eventId, published, locals, active,
                 inbox, since, calls>>

\* A step inside a call, once it is under way.
Proceed(t) ==
  \/ \E seen \in SUBSET Domains, n \in 0..EventsEach : Publish(t, seen, n)
  \/ CopySubscriptions(t) \/ PassClosed(t) \/ Push(t) \/ EventDone(t) \/ ReturnFromRefresh(t)
  \/ \E reaction \in Reactions, p \in Policies : RunCallback(t, reaction, p)
  \/ SwapPolicy(t)

Next ==
  \/ \E t \in Threads : \/ CallRefresh(t) \/ LockRefresh(t) \/ Proceed(t) \/ ResetMachines(t)
                        \/ \E p \in Policies : CallSetPolicy(t, p)
  \/ \E s \in Subscribers : Subscribe(s) \/ CloseSubscription(s)

Spec == Init /\ [][Next]_vars

\* Threads run; nothing is said about who gets the mutex.
FairSpec == Spec /\ \A t \in Threads : WF_vars(Proceed(t))

-------------------------------------------------------------------------------
(* Properties *)

Labels == {"idle", "want_refresh", "sampling", "deliver", "push", "callback", "want_policy", "swap"}

TypeOK ==
  /\ owner \in Threads \cup {NoThread}
  /\ pc \in [Threads -> Labels] /\ ret \in [Threads -> {"idle", "push"}]
  /\ policy \in Policies /\ machines \in [DOMAIN machines -> Policies] /\ DOMAIN machines \subseteq Domains
  /\ snapshotId \in Nat /\ eventId \in Nat /\ published \in Nat
  /\ pol \in [Threads -> Policies] /\ arg \in [Threads -> Policies] /\ id \in [Threads -> Nat]
  /\ pending \in [Threads -> Seq(Nat)] /\ todo \in [Threads -> Seq(Subscribers)]
  /\ active \in Seq(Subscribers) /\ closed \subseteq Subscribers
  /\ inbox \in [Subscribers -> Seq(Nat)] /\ since \in [Subscribers -> Nat]
  /\ calls \in [refresh : Nat, set_policy : Nat]

\* Where a thread is when it is inside refresh.
Inside == {"sampling", "deliver", "push", "callback"}

\* One refresh at a time, from its first line to the return of its last
\* callback: no set_policy resets a machine under it, no second refresh
\* publishes or delivers next to it.
OneRefreshAtATime == \A t \in Threads : pc[t] \in Inside => owner = t

\* Snapshots are published in the order of their ids, one after the other, and
\* a reader of current_snapshot never sees an older one after a newer one,
\* however many threads refresh.
PublishedInOrder == [][published' # published => published' = published + 1]_vars

\* Every subscription gets its events in the order of their ids, each once,
\* and none that the event counter has not reached: the batches of two
\* refreshes never mix, because delivery still holds the refresh mutex.
EventsInOrder ==
  \A s \in Subscribers : \A i, j \in DOMAIN inbox[s] :
    inbox[s][i] <= eventId /\ (i < j => inbox[s][i] < inbox[s][j])

\* Between refreshes, a subscription that is open has every event made since
\* it was created, whatever other subscriptions were closed or added while the
\* events went out.
NothingMissed ==
  owner = NoThread =>
    \A s \in Range(active) \ closed : (since[s] + 1)..eventId \subseteq Range(inbox[s])

Status ==
  [s \in Subscribers |-> IF s \in closed THEN "closed" ELSE IF s \in Range(active) THEN "open" ELSE "none"]

Feed == INSTANCE EventFeed WITH
          current <- published, newest <- eventId, status <- Status, start <- since, heard <- inbox

\* Threads and mutexes are not to be seen from outside: what happens to the
\* published snapshot and to the subscriptions could have happened without
\* them.  A snapshot is published when the events of the one before are out to
\* all, each subscription gets the next event or none, and a closed one
\* nothing more.
ImplementsFeed == Feed!Spec

\* A refresh that has begun comes to its end and releases the mutex, if every
\* callback confines itself to queries.
RefreshReturns == \A t \in Threads : owner = t ~> owner # t

\* runtime.h:64 says that set_policy "Applies a validated policy atomically":
\* once no call is under way, every machine runs under the policy in force.
MachinesFollowPolicy ==
  (\A t \in Threads : pc[t] = "idle") => \A d \in DOMAIN machines : machines[d] = policy

\* EVENTS.md says that a callback may call back into set_policy "without any
\* risk of deadlock": no thread waits for a mutex that it holds itself.
NoSelfDeadlock == \A t \in Threads : pc[t] \in {"want_refresh", "want_policy"} => owner # t
===============================================================================
