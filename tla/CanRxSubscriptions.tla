------------------------- MODULE CanRxSubscriptions -------------------------
(***************************************************************************)
(* What the receive side of the simulated CAN promises to the application: *)
(* a bounded set of subscriptions, and for every injected frame one call   *)
(* of each subscription that accepts it, those added by a callback during  *)
(* the delivery included, and of no other.  CanRxRegistry implements this  *)
(* with a table of slots and one scan per frame.                           *)
(***************************************************************************)
EXTENDS Naturals, FiniteSets

CONSTANTS
  Subscription,  \* what the application may subscribe to
  Frame,         \* what may be injected
  NoFrame,       \* no delivery in progress
  RegMax,        \* capacity
  Accepts(_, _)  \* Accepts(s, f): subscription s wants frame f

VARIABLES
  subs,          \* the subscriptions
  frame,         \* the frame being delivered, or NoFrame
  delivered,     \* the subscriptions the frame has been delivered to
  ret            \* what the last call returned

vars == <<subs, frame, delivered, ret>>

Init ==
  /\ subs = {}
  /\ frame = NoFrame
  /\ delivered = {}
  /\ ret = "RC_OK"

Subscribe(s) ==
  /\ s \notin subs
  /\ Cardinality(subs) < RegMax
  /\ subs' = subs \cup {s}
  /\ ret' = "RC_OK"
  /\ UNCHANGED <<frame, delivered>>

SubscribeAgain(s) ==
  /\ s \in subs
  /\ ret' = "RC_WARNING_ALREADY_CONFIGURED"
  /\ UNCHANGED <<subs, frame, delivered>>

SubscribeFull(s) ==
  /\ s \notin subs
  /\ Cardinality(subs) = RegMax
  /\ ret' = "RC_ERROR_LIMIT_REACHED"
  /\ UNCHANGED <<subs, frame, delivered>>

Start(f) ==
  /\ frame = NoFrame
  /\ frame' = f
  /\ delivered' = {}
  /\ UNCHANGED <<subs, ret>>

Refuse ==
  /\ frame = NoFrame
  /\ ret' = "RC_ERROR_PARAM_INVALID"
  /\ UNCHANGED <<subs, frame, delivered>>

Deliver(s) ==
  /\ frame # NoFrame
  /\ s \in subs \ delivered
  /\ Accepts(s, frame)
  /\ delivered' = delivered \cup {s}
  /\ UNCHANGED <<subs, frame, ret>>

Finish ==
  /\ frame # NoFrame
  /\ \A s \in subs : Accepts(s, frame) => s \in delivered
  /\ frame' = NoFrame
  /\ ret' = "RC_OK"
  /\ UNCHANGED <<subs, delivered>>

Next ==
  \/ \E s \in Subscription :
       Subscribe(s) \/ SubscribeAgain(s) \/ SubscribeFull(s) \/ Deliver(s)
  \/ \E f \in Frame : Start(f)
  \/ Refuse
  \/ Finish

Spec == Init /\ [][Next]_vars
=============================================================================
