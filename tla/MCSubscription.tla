---------------------------- MODULE MCSubscription ----------------------------
(***************************************************************************)
(* TLC instances of Subscription: a filter on one domain, and events of    *)
(* that domain and of no domain.                                           *)
(***************************************************************************)
EXTENDS Subscription

SomeFilter == [domains |-> {"gpu"}, event_types |-> {}, severities |-> {}]
SomeKinds ==
  {[domain |-> "gpu", type |-> "PressureEntered", severity |-> 2],
   [domain |-> "none", type |-> "GenerationChanged", severity |-> 0]}
===============================================================================
