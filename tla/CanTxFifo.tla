----------------------------- MODULE CanTxFifo -----------------------------
(***************************************************************************)
(* What the CAN transmit logs promise to their two readers: a bounded      *)
(* queue per reader.  Every transmitted frame is appended to both queues,  *)
(* a queue that is full gives up its oldest frame, and a reader sees the   *)
(* frames of its own queue in the order of transmission.  There are no     *)
(* indices here; CanTxLogs implements this with two ring buffers.          *)
(***************************************************************************)
EXTENDS Naturals, Sequences

CONSTANTS
  Frame,     \* the frames the application may transmit
  NoFrame,   \* "no frame": what a call that pops nothing leaves to its caller
  Log,       \* the readers, each with a queue of its own
  LogMax     \* capacity of a queue

VARIABLES
  pending,   \* [Log -> Seq(Frame)]: transmitted and not read yet, oldest first
  ret        \* what the last call returned

vars == <<pending, ret>>

Ret(rc, f, n) == [rc |-> rc, frame |-> f, count |-> n]

Init ==
  /\ pending = [l \in Log |-> <<>>]
  /\ ret = Ret("RC_OK", NoFrame, 0)

(* The queue q after frame f, its oldest frame dropped when it was full.   *)
Push(q, f) == IF Len(q) < LogMax THEN Append(q, f) ELSE Append(Tail(q), f)

Send(f) ==
  /\ pending' = [l \in Log |-> Push(pending[l], f)]
  /\ ret' = Ret("RC_OK", NoFrame, 0)

Pop(l) ==
  /\ pending[l] # <<>>
  /\ pending' = [pending EXCEPT ![l] = Tail(@)]
  /\ ret' = Ret("RC_OK", Head(pending[l]), 0)

PopEmpty(l) ==
  /\ pending[l] = <<>>
  /\ ret' = Ret("RC_WARNING_NO_OPERATION", NoFrame, 0)
  /\ UNCHANGED pending

PopNull ==
  /\ ret' = Ret("RC_ERROR_PTR_NULL", NoFrame, 0)
  /\ UNCHANGED pending

Clear(l) ==
  /\ pending' = [pending EXCEPT ![l] = <<>>]
  /\ ret' = Ret("RC_OK", NoFrame, 0)

GetCount(l) ==
  /\ ret' = Ret("RC_OK", NoFrame, Len(pending[l]))
  /\ UNCHANGED pending

Next ==
  \/ \E f \in Frame : Send(f)
  \/ \E l \in Log : Pop(l) \/ PopEmpty(l) \/ Clear(l) \/ GetCount(l)
  \/ PopNull

Spec == Init /\ [][Next]_vars
=============================================================================
