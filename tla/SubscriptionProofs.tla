-------------------------- MODULE SubscriptionProofs --------------------------
(***************************************************************************)
(* Proofs about Subscription for every capacity, filter, set of producers  *)
(* and number of events.  The accounting needs no strengthening beyond the *)
(* types: TypeOK and NothingLostSilently are inductive together.           *)
(***************************************************************************)
EXTENDS Subscription, TLAPS

\* Types and accounting together, inductive.
Accounting == TypeOK /\ NothingLostSilently

\* Whatever Next does is one of these.
LEMMA StepCases ==
  ASSUME Next, NEW G,
         ASSUME NEW p \in Producers, NEW kind \in Kinds, PushIgnored(p, kind) PROVE G,
         ASSUME NEW p \in Producers, NEW kind \in Kinds, PushRefused(p, kind) PROVE G,
         ASSUME NEW p \in Producers, NEW kind \in Kinds, PushAccepted(p, kind) PROVE G,
         ASSUME NEW p \in Producers, InvokeCallback(p) PROVE G,
         TryPop => G, Close => G, Clear => G,
         ASSUME NEW cb \in Callbacks \cup {NoCallback}, SetCallback(cb) PROVE G
  PROVE  G
BY DEF Next, Push

\* Making room in a queue of at most MaxQueue numbers leaves a place for one
\* more, and costs an event exactly when the queue was full.
LEMMA RoomForOne ==
  ASSUME TypeOK
  PROVE  /\ Room \in Seq(Nat) /\ Len(Room) < MaxQueue
         /\ Len(Room) = IF Full THEN Len(queue) - 1 ELSE Len(queue)
         /\ Full => queue # <<>>
BY SubscriptionAssumption DEF TypeOK, Room, Full

LEMMA AccountingInit == Init => Accounting
<1> SUFFICES ASSUME Init PROVE Accounting
  OBVIOUS
<1>1. NoCall \in [callback : Callbacks \cup {NoCallback}, event : Nat]
  BY DEF NoCall
<1>2. called \in Seq([callback : Callbacks, event : Nat])
  BY DEF Init
<1>3. calling \in [Producers -> [callback : Callbacks \cup {NoCallback}, event : Nat]]
  BY <1>1 DEF Init
<1>4. TypeOK
  <2>1. queue \in Seq(Nat) /\ Len(queue) <= MaxQueue /\ popped \in Seq(Nat)
    BY SubscriptionAssumption DEF Init
  <2> QED BY <1>2, <1>3, <2>1 DEF Init, TypeOK
<1>5. NothingLostSilently
  BY DEF Init, NothingLostSilently
<1> QED BY <1>4, <1>5 DEF Accounting

LEMMA AccountingStep == Accounting /\ [Next]_vars => Accounting'
<1> SUFFICES ASSUME Accounting, [Next]_vars PROVE Accounting'
  OBVIOUS
<1> USE SubscriptionAssumption
<1> USE DEF Accounting
<1>1. ASSUME NEW p \in Producers, NEW kind \in Kinds, PushIgnored(p, kind) PROVE Accounting'
  BY <1>1 DEF PushIgnored, counters, history, TypeOK, NothingLostSilently
<1>2. ASSUME NEW p \in Producers, NEW kind \in Kinds, PushRefused(p, kind) PROVE Accounting'
  <2>1. TypeOK'
    BY <1>2 DEF PushRefused, TypeOK
  <2>2. CASE overflow = "Reject"
    BY <1>2, <2>2 DEF PushRefused, TypeOK, NothingLostSilently
  <2>3. CASE overflow # "Reject"
    BY <1>2, <2>3 DEF PushRefused, TypeOK, NothingLostSilently
  <2> QED BY <2>1, <2>2, <2>3
<1>3. ASSUME NEW p \in Producers, NEW kind \in Kinds, PushAccepted(p, kind) PROVE Accounting'
  <2>1. Enqueue(p, kind, Append(Room, pushed + 1), DroppedNow) /\ (Full => overflow = "DropOldest")
    BY <1>3 DEF PushAccepted
  <2>2. /\ Room \in Seq(Nat) /\ Len(Room) < MaxQueue
        /\ Len(Room) = IF Full THEN Len(queue) - 1 ELSE Len(queue)
    BY RoomForOne
  <2>3. /\ queue' \in Seq(Nat) /\ Len(queue') = Len(Room) + 1
        /\ DroppedNow \in Nat /\ dropped' = DroppedNow
    BY <2>1, <2>2 DEF Enqueue, TypeOK, DroppedNow
  <2>4. [callback |-> callback, event |-> pushed'] \in [callback : Callbacks \cup {NoCallback}, event : Nat]
    BY <2>1 DEF Enqueue, TypeOK
  <2>5. TypeOK'
    BY <2>1, <2>2, <2>3, <2>4 DEF Enqueue, TypeOK
  <2>6. /\ delivered' = delivered + 1 /\ offered' = offered + 1 /\ dropped' = DroppedNow
        /\ UNCHANGED <<overflow, rejected, popped, cleared>>
    BY <2>1 DEF Enqueue
  <2>7. /\ Len(queue) \in Nat /\ Len(popped) \in Nat /\ Len(queue') \in Nat
        /\ cleared \in Nat /\ rejected \in Nat /\ dropped \in Nat
    BY <2>3 DEF TypeOK
  <2>8. CASE Full
    <3>1. overflow = "DropOldest" /\ DroppedNow = dropped + 1 /\ Len(queue') = Len(queue)
      BY <2>1, <2>2, <2>3, <2>7, <2>8 DEF DroppedNow
    <3> QED BY <2>5, <2>6, <2>7, <3>1 DEF NothingLostSilently
  <2>9. CASE ~Full
    <3>1. DroppedNow = dropped /\ Len(queue') = Len(queue) + 1
      BY <2>1, <2>2, <2>3, <2>7, <2>9 DEF DroppedNow
    <3>2. NothingLostSilently'
      BY <2>6, <2>7, <3>1 DEF NothingLostSilently
    <3> QED BY <2>5, <3>2
  <2> QED BY <2>8, <2>9
<1>4. ASSUME NEW p \in Producers, InvokeCallback(p) PROVE Accounting'
  <2>1. NoCall \in [callback : Callbacks \cup {NoCallback}, event : Nat]
    BY DEF NoCall
  <2>2. calling[p].callback # NoCallback => calling[p] \in [callback : Callbacks, event : Nat]
    BY DEF TypeOK
  <2>3. called' \in Seq([callback : Callbacks, event : Nat])
    <3>1. CASE calling[p].callback = NoCallback
      BY <1>4, <3>1 DEF InvokeCallback, TypeOK
    <3>2. CASE calling[p].callback # NoCallback
      BY <1>4, <2>2, <3>2 DEF InvokeCallback, TypeOK
    <3> QED BY <3>1, <3>2
  <2>4. calling' \in [Producers -> [callback : Callbacks \cup {NoCallback}, event : Nat]]
    BY <1>4, <2>1 DEF InvokeCallback, TypeOK
  <2> QED BY <1>4, <2>3, <2>4 DEF InvokeCallback, counters, TypeOK, NothingLostSilently
<1>5. TryPop => Accounting'
  BY DEF TryPop, counters, TypeOK, NothingLostSilently
<1>6. Close => Accounting'
  BY DEF Close, counters, history, TypeOK, NothingLostSilently
<1>7. Clear => Accounting'
  BY DEF Clear, counters, TypeOK, NothingLostSilently
<1>8. ASSUME NEW cb \in Callbacks \cup {NoCallback}, SetCallback(cb) PROVE Accounting'
  BY <1>8 DEF SetCallback, counters, history, TypeOK, NothingLostSilently
<1>9. CASE UNCHANGED vars
  BY <1>9 DEF vars, counters, history, TypeOK, NothingLostSilently
<1> QED BY <1>1, <1>2, <1>3, <1>4, <1>5, <1>6, <1>7, <1>8, <1>9, StepCases

\* Every matching event offered to an open subscription is queued, was handed
\* out, was cleared or is counted as lost (push, try_pop and clear), and
\* delivered counts what entered the queue.
THEOREM EveryEventIsAccountedFor == Spec => [](TypeOK /\ NothingLostSilently)
BY AccountingInit, AccountingStep, PTL DEF Spec, Accounting

-------------------------------------------------------------------------------
(* What a step may do. *)

LEMMA CloseIsQuiet ==
  Accounting /\ [Next]_vars =>
    [closed => /\ closed' /\ UNCHANGED counters
               /\ \E n \in 0..Len(queue) : queue' = SubSeq(queue, n + 1, Len(queue))
               /\ \A p \in Producers : calling'[p] \in {calling[p], NoCall}]_vars
<1> SUFFICES ASSUME Accounting, Next, closed
             PROVE  /\ closed' /\ UNCHANGED counters
                    /\ \E n \in 0..Len(queue) : queue' = SubSeq(queue, n + 1, Len(queue))
                    /\ \A p \in Producers : calling'[p] \in {calling[p], NoCall}
  OBVIOUS
<1> DEFINE Quiet == /\ closed' /\ UNCHANGED counters
                    /\ \A p \in Producers : calling'[p] \in {calling[p], NoCall}
           Shrinks == \E n \in 0..Len(queue) : queue' = SubSeq(queue, n + 1, Len(queue))
<1>q. queue \in Seq(Nat) /\ Len(queue) \in Nat
  BY DEF Accounting, TypeOK
<1>s. queue' = queue => Shrinks
  <2>1. queue = SubSeq(queue, 0 + 1, Len(queue)) /\ 0 \in 0..Len(queue)
    BY <1>q
  <2> QED BY <2>1
<1>1. ASSUME NEW p \in Producers, NEW kind \in Kinds, PushIgnored(p, kind) PROVE Quiet /\ Shrinks
  BY <1>1, <1>s DEF PushIgnored
<1>2. ASSUME NEW p \in Producers, NEW kind \in Kinds, PushRefused(p, kind) PROVE Quiet /\ Shrinks
  BY <1>2 DEF PushRefused
<1>3. ASSUME NEW p \in Producers, NEW kind \in Kinds, PushAccepted(p, kind) PROVE Quiet /\ Shrinks
  BY <1>3 DEF PushAccepted
<1>4. ASSUME NEW p \in Producers, InvokeCallback(p) PROVE Quiet /\ Shrinks
  BY <1>4, <1>s DEF InvokeCallback, Accounting, TypeOK
<1>5. TryPop => Quiet /\ Shrinks
  <2> SUFFICES ASSUME TryPop PROVE Quiet /\ Shrinks
    OBVIOUS
  <2>1. Quiet
    BY DEF TryPop
  <2>2. queue # <<>> /\ queue' = Tail(queue)
    BY DEF TryPop
  <2>3. Tail(queue) = SubSeq(queue, 1 + 1, Len(queue)) /\ 1 \in 0..Len(queue)
    BY <1>q, <2>2
  <2> QED BY <2>1, <2>2, <2>3
<1>6. Close => Quiet /\ Shrinks
  BY <1>s DEF Close
<1>7. Clear => Quiet /\ Shrinks
  <2> SUFFICES ASSUME Clear PROVE Quiet /\ Shrinks
    OBVIOUS
  <2>1. Quiet /\ queue' = <<>>
    BY DEF Clear
  <2>2. <<>> = SubSeq(queue, Len(queue) + 1, Len(queue)) /\ Len(queue) \in 0..Len(queue)
    BY <1>q
  <2> QED BY <2>1, <2>2
<1>8. ASSUME NEW cb \in Callbacks \cup {NoCallback}, SetCallback(cb) PROVE Quiet /\ Shrinks
  BY <1>8, <1>s DEF SetCallback
<1>9. Quiet /\ Shrinks
  BY <1>1, <1>2, <1>3, <1>4, <1>5, <1>6, <1>7, <1>8, StepCases
<1> QED BY <1>9

\* Once closed, a subscription takes in nothing and counts nothing, and no
\* further callback is prepared (close against push).
THEOREM ClosedStaysQuiet == Spec => QuietAfterClose
<1>1. Accounting /\ [Next]_vars =>
    [closed => /\ closed' /\ UNCHANGED counters
               /\ \E n \in 0..Len(queue) : queue' = SubSeq(queue, n + 1, Len(queue))
               /\ \A p \in Producers : calling'[p] \in {calling[p], NoCall}]_vars
  BY CloseIsQuiet
<1> QED BY <1>1, AccountingInit, AccountingStep, PTL DEF Spec, QuietAfterClose

-------------------------------------------------------------------------------
(* The subscription implements the lossy queue. *)

LEMMA FifoInit == Init => Fifo!Init
BY DEF Init, Fifo!Init

LEMMA FifoStep == Accounting /\ [Next]_vars => [Fifo!Next]_(Fifo!fifoVars)
<1> SUFFICES ASSUME Accounting, [Next]_vars PROVE [Fifo!Next]_(Fifo!fifoVars)
  OBVIOUS
<1> USE DEF Fifo!fifoVars
<1>q. /\ queue \in Seq(Nat) /\ Len(queue) \in Nat /\ Len(queue) <= MaxQueue
      /\ popped \in Seq(Nat) /\ pushed \in Nat /\ MaxQueue \in Nat
  BY SubscriptionAssumption DEF Accounting, TypeOK
<1>1. ASSUME NEW p \in Producers, NEW kind \in Kinds, PushIgnored(p, kind) PROVE Fifo!Next
  BY <1>1, <1>q DEF PushIgnored, history, Fifo!Next, Fifo!Offer
<1>2. ASSUME NEW p \in Producers, NEW kind \in Kinds, PushRefused(p, kind) PROVE Fifo!Next
  BY <1>2, <1>q DEF PushRefused, Fifo!Next, Fifo!Offer
<1>3. ASSUME NEW p \in Producers, NEW kind \in Kinds, PushAccepted(p, kind) PROVE Fifo!Next
  <2>1. Enqueue(p, kind, Append(Room, pushed + 1), DroppedNow)
    BY <1>3 DEF PushAccepted
  <2>2. /\ queue' = Append(Room, pushed + 1) /\ pushed' = pushed + 1 /\ UNCHANGED popped
    BY <2>1 DEF Enqueue
  <2>3. Room \in Seq(Nat) /\ Len(Room) < MaxQueue /\ (Full => queue # <<>>)
    BY RoomForOne DEF Accounting
  <2>4. Len(queue') <= MaxQueue
    BY <2>2, <2>3, <1>q
  <2>5. CASE Full
    <3>1. queue # <<>> /\ queue' = Append(Tail(queue), pushed')
      BY <2>2, <2>3, <2>5 DEF Room
    <3> QED BY <2>2, <2>4, <3>1 DEF Fifo!Next, Fifo!Offer
  <2>6. CASE ~Full
    BY <2>2, <2>4, <2>6 DEF Room, Fifo!Next, Fifo!Offer
  <2> QED BY <2>5, <2>6
<1>4. ASSUME NEW p \in Producers, InvokeCallback(p) PROVE UNCHANGED Fifo!fifoVars
  BY <1>4 DEF InvokeCallback
<1>5. TryPop => Fifo!Next
  <2> SUFFICES ASSUME TryPop PROVE Fifo!Next
    OBVIOUS
  <2>1. /\ queue # <<>> /\ popped' = Append(popped, Head(queue)) /\ queue' = Tail(queue)
        /\ pushed' = pushed
    BY DEF TryPop
  <2>2. Head(queue) \in Nat
    BY <1>q, <2>1
  <2>3. popped' # <<>> /\ popped'[Len(popped')] = Head(queue)
    BY <1>q, <2>1, <2>2
  <2> QED BY <2>1, <2>3 DEF Fifo!Next, Fifo!Take
<1>6. Close => UNCHANGED Fifo!fifoVars
  BY DEF Close, history
<1>7. Clear => Fifo!Next
  BY DEF Clear, Fifo!Next, Fifo!Forget
<1>8. ASSUME NEW cb \in Callbacks \cup {NoCallback}, SetCallback(cb) PROVE UNCHANGED Fifo!fifoVars
  BY <1>8 DEF SetCallback, history
<1>9. CASE UNCHANGED vars
  BY <1>9 DEF vars, history
<1> QED BY <1>1, <1>2, <1>3, <1>4, <1>5, <1>6, <1>7, <1>8, <1>9, StepCases

\* A subscription implements the lossy queue: what it hands out was pushed, in
\* the order of the pushes, and its backlog stays bounded (push, try_pop, clear).
THEOREM SubscriptionImplementsFifo == Spec => ImplementsFifo
BY FifoInit, FifoStep, AccountingInit, AccountingStep, PTL DEF Spec, ImplementsFifo, Fifo!Spec

-------------------------------------------------------------------------------
(* Callbacks, with one producer *)

\* CallbackInOrder made inductive: the invocation still to come is of an event
\* newer than those the callback has heard of, and all of them were pushed.
HeardInOrder(p) ==
  /\ CallbackInOrder
  /\ \A i \in 1..Len(called) : called[i].event <= pushed
  /\ calling[p] # NoCall =>
       calling[p].event <= pushed /\ \A i \in 1..Len(called) : called[i].event < calling[p].event

LEMMA HeardStep ==
  ASSUME NEW only, Producers = {only}, Accounting, HeardInOrder(only), [Next]_vars
  PROVE  HeardInOrder(only)'
<1>t. /\ called \in Seq([callback : Callbacks, event : Nat]) /\ pushed \in Nat /\ Len(called) \in Nat
      /\ calling[only] \in [callback : Callbacks \cup {NoCallback}, event : Nat]
      /\ \A i \in 1..Len(called) : called[i].event \in Nat
  <2>1. /\ called \in Seq([callback : Callbacks, event : Nat]) /\ pushed \in Nat
        /\ calling[only] \in [callback : Callbacks \cup {NoCallback}, event : Nat]
    BY DEF Accounting, TypeOK
  <2>2. ASSUME NEW S, NEW q \in Seq(S)  PROVE Len(q) \in Nat /\ \A i \in 1..Len(q) : q[i] \in S
    OBVIOUS
  <2>3. \A i \in 1..Len(called) : called[i] \in [callback : Callbacks, event : Nat]
    BY <2>1, <2>2
  <2>4. QED  BY <2>1, <2>2, <2>3
<1>h. /\ CallbackInOrder
      /\ \A i \in 1..Len(called) : called[i].event <= pushed
      /\ calling[only] # NoCall =>
           calling[only].event <= pushed /\ \A i \in 1..Len(called) : called[i].event < calling[only].event
  BY DEF HeardInOrder
\* Most steps add nothing to what was heard or is to be heard.
<1>s. ASSUME called' = called, calling' = calling, pushed' \in {pushed, pushed + 1}
      PROVE  HeardInOrder(only)'
  <2>1. pushed <= pushed'
    BY <1>s, <1>t
  <2>2. CallbackInOrder'
    BY <1>h, <1>s DEF CallbackInOrder
  <2>3. \A i \in 1..Len(called') : called'[i].event <= pushed'
    BY <1>h, <1>s, <1>t
  <2>4. calling'[only] # NoCall =>
          calling'[only].event <= pushed' /\ \A i \in 1..Len(called') : called'[i].event < calling'[only].event
    BY <1>h, <1>s, <1>t
  <2>5. QED  BY <2>2, <2>3, <2>4 DEF HeardInOrder
<1>1. ASSUME NEW p \in Producers, NEW kind \in Kinds, PushIgnored(p, kind) PROVE HeardInOrder(only)'
  BY <1>1, <1>s DEF PushIgnored, history
<1>2. ASSUME NEW p \in Producers, NEW kind \in Kinds, PushRefused(p, kind) PROVE HeardInOrder(only)'
  BY <1>2, <1>s DEF PushRefused
<1>3. ASSUME NEW p \in Producers, NEW kind \in Kinds, PushAccepted(p, kind) PROVE HeardInOrder(only)'
  <2>1. /\ pushed' = pushed + 1 /\ called' = called
        /\ calling' = [calling EXCEPT ![only] = [callback |-> callback, event |-> pushed']]
    BY <1>3 DEF PushAccepted, Enqueue
  <2>2. calling'[only].event = pushed + 1
    BY <2>1 DEF Accounting, TypeOK
  <2>3. CallbackInOrder'
    BY <1>h, <2>1 DEF CallbackInOrder
  <2>4. \A i \in 1..Len(called') : called'[i].event <= pushed' /\ called'[i].event < pushed + 1
    BY <1>h, <1>t, <2>1
  <2>5. QED  BY <1>t, <2>1, <2>2, <2>3, <2>4 DEF HeardInOrder
<1>4. ASSUME NEW p \in Producers, InvokeCallback(p) PROVE HeardInOrder(only)'
  <2>1. /\ p = only /\ calling[only] # NoCall /\ pushed' = pushed
        /\ called' = IF calling[only].callback = NoCallback THEN called ELSE Append(called, calling[only])
        /\ calling'[only] = NoCall
    BY <1>4 DEF InvokeCallback, Accounting, TypeOK
  <2>2. CASE called' = called
    <3>1. CallbackInOrder'
      BY <1>h, <2>2 DEF CallbackInOrder
    <3>2. QED  BY <1>h, <2>1, <2>2, <3>1 DEF HeardInOrder
  <2>3. CASE called' = Append(called, calling[only])
    <3>1. /\ Len(called') = Len(called) + 1 /\ called'[Len(called) + 1] = calling[only]
          /\ \A i \in 1..Len(called) : called'[i] = called[i]
      BY <1>t, <2>3
    <3>2. \A i \in 1..Len(called') : i \in 1..Len(called) \/ i = Len(called) + 1
      BY <1>t, <3>1
    <3>3. \A i \in 1..Len(called') : called'[i].event <= pushed'
      BY <1>h, <1>t, <2>1, <3>1, <3>2
    <3>4. ASSUME NEW i \in 1..Len(called'), NEW j \in 1..Len(called'), i < j
          PROVE  called'[i].event < called'[j].event
      <4>1. i \in 1..Len(called)
        BY <1>t, <3>1, <3>4
      <4>2. CASE j \in 1..Len(called)
        BY <1>h, <3>1, <3>4, <4>1, <4>2 DEF CallbackInOrder
      <4>3. CASE j = Len(called) + 1
        BY <1>h, <2>1, <3>1, <4>1, <4>3
      <4>4. QED  BY <3>2, <4>2, <4>3
    <3>5. CallbackInOrder'
      BY <3>4 DEF CallbackInOrder
    <3>6. QED  BY <2>1, <3>3, <3>5 DEF HeardInOrder
  <2>4. QED  BY <2>1, <2>2, <2>3
<1>5. TryPop => HeardInOrder(only)'
  BY <1>s DEF TryPop
<1>6. Close => HeardInOrder(only)'
  BY <1>s DEF Close, history
<1>7. Clear => HeardInOrder(only)'
  BY <1>s DEF Clear
<1>8. ASSUME NEW cb \in Callbacks \cup {NoCallback}, SetCallback(cb) PROVE HeardInOrder(only)'
  BY <1>8, <1>s DEF SetCallback, history
<1>9. CASE UNCHANGED vars
  BY <1>9, <1>s DEF vars, history
<1>10. QED  BY <1>1, <1>2, <1>3, <1>4, <1>5, <1>6, <1>7, <1>8, <1>9, StepCases

\* With one producer, as the refresh mutex provides, a callback hears of events
\* in the order in which they were queued, each once, whatever is popped,
\* cleared or closed and however often the callback is replaced.
THEOREM CallbacksHearInOrder ==
  ASSUME NEW only, Producers = {only}
  PROVE  Spec => []CallbackInOrder
<1>1. Init => HeardInOrder(only)
  <2> SUFFICES ASSUME Init PROVE HeardInOrder(only)
    OBVIOUS
  <2>1. called = <<>> /\ calling[only] = NoCall
    BY DEF Init
  <2>2. Len(called) = 0
    BY <2>1
  <2>3. QED  BY <2>1, <2>2 DEF HeardInOrder, CallbackInOrder
<1>2. Accounting /\ HeardInOrder(only) /\ [Next]_vars => HeardInOrder(only)'
  BY HeardStep
<1>3. HeardInOrder(only) => CallbackInOrder
  BY DEF HeardInOrder
<1>4. QED  BY <1>1, <1>2, <1>3, AccountingInit, AccountingStep, PTL DEF Spec
===============================================================================
