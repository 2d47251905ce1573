----------------------------- MODULE CanTxLogs -----------------------------
(***************************************************************************)
(* The CAN transmit path of the simulator (pc_sim_fmk_can.c): every frame  *)
(* the application transmits is pushed to two ring buffers, one read by    *)
(* the HMI and one read by the broker.  The two readers are independent    *)
(* UDP clients: they poll, and clear, at their own pace, and a log nobody  *)
(* reads simply wraps around.  The program is single threaded, so each     *)
(* call below is one step; calls of the three parties come in any order.   *)
(***************************************************************************)
EXTENDS Naturals, Sequences

CONSTANTS
  Frame,     \* the frames the application may transmit
  NoFrame,   \* content of a slot that was never written, and of no answer
  LogMax     \* PCSIM_CAN_TX_LOG_MAX: slots of a log

ASSUME LogMaxAssumption == LogMax \in Nat \ {0}

ASSUME FrameAssumption == NoFrame \notin Frame

Log == {"ihm", "broker"}
Slot == 0 .. LogMax - 1

VARIABLES
  log,       \* [Log -> ring buffer]
  ret        \* what the last call returned to its caller

vars == <<log, ret>>

Ring == [items : [Slot -> Frame \cup {NoFrame}],
         head : Slot, tail : Slot, count : 0 .. LogMax]

ReturnCode == {"RC_OK", "RC_WARNING_NO_OPERATION", "RC_ERROR_PTR_NULL"}

Ret(rc, f, n) == [rc |-> rc, frame |-> f, count |-> n]

----------------------------------------------------------------------------
(* The operations on one ring buffer.                                      *)

EmptyRing == [items |-> [s \in Slot |-> NoFrame],
              head |-> 0, tail |-> 0, count |-> 0]

(* Only the indices are reset: the items keep their old frames.            *)
ClearLog(r) == [items |-> r.items, head |-> 0, tail |-> 0, count |-> 0]

(* Read position after the oldest frame was taken.                         *)
PopLogFrame(r) ==
  [items |-> r.items, head |-> r.head,
   tail |-> (r.tail + 1) % LogMax, count |-> r.count - 1]

(* Seeded fault of PushLogFrame: the write position leaves the ring.       *)
PushLogFrameNoWrap(r, f) ==
  [r EXCEPT !.items[r.head % LogMax] = f, !.head = @ + 1,
            !.count = IF @ = LogMax THEN @ ELSE @ + 1]

(* A push to a full log moves the read position over the oldest frame,     *)
(* whose slot the new frame just took.                                     *)
PushLogFrame(r, f) ==
  LET full == r.count = LogMax
  IN [items |-> [r.items EXCEPT ![r.head] = f],
      head |-> (r.head + 1) % LogMax,
      tail |-> IF full THEN (r.tail + 1) % LogMax ELSE r.tail,
      count |-> IF full THEN r.count ELSE r.count + 1]

----------------------------------------------------------------------------
(* The calls.                                                              *)

Init ==
  /\ log = [l \in Log |-> EmptyRing]
  /\ ret = Ret("RC_OK", NoFrame, 0)

(* Seeded fault: a log that is full refuses the frame.                     *)
SendTxItemIfRoom(f) ==
  /\ log' = [l \in Log |-> IF log[l].count = LogMax THEN log[l]
                           ELSE PushLogFrame(log[l], f)]
  /\ ret' = Ret("RC_OK", NoFrame, 0)

SendTxItem(f) ==
  /\ log' = [l \in Log |-> PushLogFrame(log[l], f)]
  /\ ret' = Ret("RC_OK", NoFrame, 0)

PopFrame(l) ==
  /\ log[l].count # 0
  /\ log' = [log EXCEPT ![l] = PopLogFrame(@)]
  /\ ret' = Ret("RC_OK", log[l].items[log[l].tail], 0)

PopEmpty(l) ==
  /\ log[l].count = 0
  /\ ret' = Ret("RC_WARNING_NO_OPERATION", NoFrame, 0)
  /\ UNCHANGED log

PopNull ==
  /\ ret' = Ret("RC_ERROR_PTR_NULL", NoFrame, 0)
  /\ UNCHANGED log

(* Seeded fault: one reader's clear reaches the other reader's log.        *)
ClearFramesOfBoth(l) ==
  /\ log' = [k \in Log |-> ClearLog(log[k])]
  /\ ret' = Ret("RC_OK", NoFrame, 0)

ClearFrames(l) ==
  /\ log' = [log EXCEPT ![l] = ClearLog(@)]
  /\ ret' = Ret("RC_OK", NoFrame, 0)

GetCount(l) ==
  /\ ret' = Ret("RC_OK", NoFrame, log[l].count)
  /\ UNCHANGED log

Next ==
  \/ \E f \in Frame : SendTxItem(f)
  \/ \E l \in Log : PopFrame(l) \/ PopEmpty(l) \/ ClearFrames(l) \/ GetCount(l)
  \/ PopNull

Spec == Init /\ [][Next]_vars

----------------------------------------------------------------------------
(* Properties.                                                             *)

(* Every index stays inside items_as and the count inside 0..LogMax, for   *)
(* every order of sends, pops and clears.                                  *)
TypeOK ==
  /\ log \in [Log -> Ring]
  /\ ret \in [rc : ReturnCode, frame : Frame \cup {NoFrame}, count : 0 .. LogMax]

(* The slot i places after t in the ring.                                  *)
After(t, i) == IF t + i < LogMax THEN t + i ELSE t + i - LogMax

(* The three redundant indices of a log agree: the write position is count *)
(* slots after the read position, so head = tail means empty or full and   *)
(* the count tells which; and every slot between them holds a frame.       *)
WellFormed(r) ==
  /\ r.head = After(r.tail, r.count)
  /\ \A i \in Slot : i < r.count => r.items[After(r.tail, i)] \in Frame

(* Both logs are well formed after every order of sends, pops and clears   *)
(* by the three parties, so no pop answers with a slot never written.      *)
RingInv == \A l \in Log : WellFormed(log[l])

(* The frame pushed to r k frames before its newest one.                   *)
Newest(r, k) == r.items[After(r.tail, r.count - 1 - k)]

(* "Les trames TX sont dupliquees dans 2 files": the readers may have      *)
(* popped or cleared different amounts, or lost different amounts to a     *)
(* wrap, but what both have not read yet is the same frames in the same    *)
(* order, counted from the newest.                                         *)
LogsAgree ==
  \A k \in Slot :
    k < log["ihm"].count /\ k < log["broker"].count
      => Newest(log["ihm"], k) = Newest(log["broker"], k)

(* The unread frames of ring r, oldest first.                              *)
Contents(r) == [i \in 1 .. r.count |-> r.items[After(r.tail, i - 1)]]

Fifo == INSTANCE CanTxFifo WITH pending <- [l \in Log |-> Contents(log[l])]

(* Each log is a bounded first-in first-out queue that loses only its      *)
(* oldest frames, only on overflow, and whose reader never disturbs the    *)
(* other one ("sans perturber l'affichage IHM").                           *)
ImplementsFifo == Fifo!Spec
=============================================================================
