-------------------------- MODULE CanTxLogsProofs --------------------------
(***************************************************************************)
(* Proofs about CanTxLogs for every log size and every set of frames: the  *)
(* invariants of the two ring buffers, the agreement of the two logs, and  *)
(* that the ring buffers implement the bounded queues of CanTxFifo.        *)
(***************************************************************************)
EXTENDS CanTxLogs, SequenceTheorems, TLAPS

----------------------------------------------------------------------------
(* Arithmetic of the ring.                                                 *)

(* The code's increment modulo LogMax is one place further in the ring.    *)
LEMMA NextSlot ==
  ASSUME NEW s \in Slot
  PROVE  (s + 1) % LogMax = After(s, 1) /\ After(s, 1) \in Slot
BY LogMaxAssumption DEF Slot, After

(* After stays inside the ring for every distance up to its size.          *)
LEMMA AfterType ==
  ASSUME NEW s \in Slot, NEW i \in 0 .. LogMax
  PROVE  After(s, i) \in Slot
BY LogMaxAssumption DEF Slot, After

(* One more place, counted from either end.                                *)
LEMMA AfterStep ==
  ASSUME NEW s \in Slot, NEW i \in 0 .. LogMax - 1
  PROVE  /\ After(After(s, 1), i) = After(s, i + 1)
         /\ After(After(s, i), 1) = After(s, i + 1)
BY LogMaxAssumption DEF Slot, After

(* Different distances below the size reach different slots.               *)
LEMMA AfterInjective ==
  ASSUME NEW s \in Slot, NEW i \in 0 .. LogMax - 1, NEW j \in 0 .. LogMax - 1,
         i # j
  PROVE  After(s, i) # After(s, j)
BY LogMaxAssumption DEF Slot, After

(* Going once around the ring.                                             *)
LEMMA AfterFull ==
  ASSUME NEW s \in Slot
  PROVE  After(s, LogMax) = s /\ After(s, 0) = s
BY LogMaxAssumption DEF Slot, After

----------------------------------------------------------------------------
(* One ring buffer.                                                        *)

(* A push keeps a ring a well-formed ring, full or not.                    *)
LEMMA PushRing ==
  ASSUME NEW r \in Ring, WellFormed(r), NEW f \in Frame
  PROVE  PushLogFrame(r, f) \in Ring /\ WellFormed(PushLogFrame(r, f))
<1> DEFINE p == PushLogFrame(r, f)
<1>0. /\ r.head \in Slot /\ r.tail \in Slot /\ r.count \in 0 .. LogMax
      /\ r.items \in [Slot -> Frame \cup {NoFrame}]
  BY DEF Ring
<1>1. p = [items |-> [r.items EXCEPT ![r.head] = f],
           head |-> After(r.head, 1),
           tail |-> IF r.count = LogMax THEN After(r.tail, 1) ELSE r.tail,
           count |-> IF r.count = LogMax THEN r.count ELSE r.count + 1]
  BY <1>0, NextSlot DEF PushLogFrame
<1>2. p \in Ring
  BY <1>0, <1>1, NextSlot, LogMaxAssumption DEF Ring
<1>3. CASE r.count = LogMax
  <2>1. r.head = r.tail
    BY <1>0, <1>3, AfterFull DEF WellFormed
  <2>2. p.head = After(p.tail, p.count)
    BY <1>0, <1>1, <1>3, <2>1, NextSlot, AfterFull
  <2>3. ASSUME NEW i \in Slot, i < p.count
        PROVE  p.items[After(p.tail, i)] \in Frame
    <3>1. After(p.tail, i) = After(r.tail, i + 1)
      BY <1>0, <1>1, <1>3, AfterStep DEF Slot
    <3>2. CASE i = LogMax - 1
      BY <1>0, <1>1, <1>3, <2>1, <3>1, <3>2, AfterFull, LogMaxAssumption
      DEF Slot
    <3>3. CASE i # LogMax - 1
      <4>1. i + 1 \in Slot /\ i + 1 < r.count
        BY <1>3, <3>3, LogMaxAssumption DEF Slot
      <4>2. r.items[After(r.tail, i + 1)] \in Frame
        BY <4>1 DEF WellFormed
      <4> QED
        BY <1>0, <1>1, <3>1, <4>1, <4>2, AfterType DEF Slot
    <3> QED
      BY <3>2, <3>3
  <2> QED
    BY <1>2, <2>2, <2>3 DEF WellFormed
<1>4. CASE r.count # LogMax
  <2>1. r.count \in 0 .. LogMax - 1
    BY <1>0, <1>4, LogMaxAssumption
  <2>2. p.head = After(p.tail, p.count)
    BY <1>0, <1>1, <1>4, <2>1, AfterStep DEF WellFormed
  <2>3. ASSUME NEW i \in Slot, i < p.count
        PROVE  p.items[After(p.tail, i)] \in Frame
    <3>1. p.tail = r.tail /\ i <= r.count
      BY <1>1, <1>4, <2>1, <2>3 DEF Slot
    <3>2. CASE i = r.count
      BY <1>0, <1>1, <3>1, <3>2 DEF WellFormed
    <3>3. CASE i < r.count
      <4>1. r.items[After(r.tail, i)] \in Frame
        BY <3>3 DEF WellFormed
      <4> QED
        BY <1>0, <1>1, <3>1, <4>1, AfterType DEF Slot
    <3> QED
      BY <2>1, <3>1, <3>2, <3>3 DEF Slot
  <2> QED
    BY <1>2, <2>2, <2>3 DEF WellFormed
<1> QED
  BY <1>3, <1>4

(* A pop of a log that is not empty keeps a ring a well-formed ring.       *)
LEMMA PopRing ==
  ASSUME NEW r \in Ring, WellFormed(r), r.count # 0
  PROVE  /\ PopLogFrame(r) \in Ring
         /\ WellFormed(PopLogFrame(r))
         /\ r.items[r.tail] \in Frame
<1> DEFINE p == PopLogFrame(r)
<1>0. /\ r.head \in Slot /\ r.tail \in Slot /\ r.count \in 1 .. LogMax
      /\ r.items \in [Slot -> Frame \cup {NoFrame}]
  BY DEF Ring
<1>1. p = [items |-> r.items, head |-> r.head,
           tail |-> After(r.tail, 1), count |-> r.count - 1]
  BY <1>0, NextSlot DEF PopLogFrame
<1>2. p \in Ring
  BY <1>0, <1>1, NextSlot, LogMaxAssumption DEF Ring
<1>3. r.count - 1 \in 0 .. LogMax - 1
  BY <1>0, LogMaxAssumption
<1>4. p.head = After(p.tail, p.count)
  BY <1>0, <1>1, <1>3, AfterStep DEF WellFormed
<1>5. ASSUME NEW i \in Slot, i < p.count
      PROVE  p.items[After(p.tail, i)] \in Frame
  <2>1. i + 1 \in Slot /\ i + 1 < r.count
    BY <1>0, <1>1, <1>5, LogMaxAssumption DEF Slot
  <2>2. After(p.tail, i) = After(r.tail, i + 1)
    BY <1>0, <1>1, AfterStep DEF Slot
  <2> QED
    BY <1>1, <2>1, <2>2 DEF WellFormed
<1>6. r.items[r.tail] \in Frame
  <2>1. 0 \in Slot /\ 0 < r.count
    BY <1>0, LogMaxAssumption DEF Slot
  <2> QED
    BY <1>0, <2>1, AfterFull DEF WellFormed
<1> QED
  BY <1>2, <1>4, <1>5, <1>6 DEF WellFormed

(* A clear keeps the frames in their slots and leaves a well-formed ring.  *)
LEMMA ClearRing ==
  ASSUME NEW r \in Ring
  PROVE  /\ ClearLog(r) \in Ring
         /\ WellFormed(ClearLog(r))
         /\ ClearLog(r).count = 0
BY LogMaxAssumption DEF ClearLog, Ring, WellFormed, Slot, After

(* The log at start-up.                                                    *)
LEMMA EmptyRingWellFormed ==
  EmptyRing \in Ring /\ WellFormed(EmptyRing)
BY LogMaxAssumption DEF EmptyRing, Ring, WellFormed, Slot, After

----------------------------------------------------------------------------
(* The ring invariants hold in every reachable state.                      *)

Inv == TypeOK /\ RingInv

LEMMA InitInv == Init => Inv
<1> SUFFICES ASSUME Init
             PROVE  TypeOK /\ RingInv
  BY DEF Inv
<1>1. log \in [Log -> Ring] /\ RingInv
  BY EmptyRingWellFormed DEF Init, RingInv
<1>2. ret \in [rc : ReturnCode, frame : Frame \cup {NoFrame}, count : 0 .. LogMax]
  BY LogMaxAssumption DEF Init, Ret, ReturnCode
<1> QED
  BY <1>1, <1>2 DEF TypeOK

LEMMA NextInv == Inv /\ [Next]_vars => Inv'
<1> DEFINE Rets == [rc : ReturnCode, frame : Frame \cup {NoFrame},
                    count : 0 .. LogMax]
<1> SUFFICES ASSUME Inv, [Next]_vars
             PROVE  log' \in [Log -> Ring] /\ RingInv' /\ ret' \in Rets
  BY DEF Inv, TypeOK
<1>0. /\ log \in [Log -> Ring] /\ ret \in Rets
      /\ \A l \in Log : log[l] \in Ring /\ WellFormed(log[l])
  BY DEF Inv, TypeOK, RingInv
<1>1. ASSUME NEW f \in Frame, SendTxItem(f)
      PROVE  log' \in [Log -> Ring] /\ RingInv' /\ ret' \in Rets
  <2>1. \A l \in Log : PushLogFrame(log[l], f) \in Ring
                      /\ WellFormed(PushLogFrame(log[l], f))
    BY <1>0, PushRing
  <2>2. ret' \in Rets
    BY <1>1, LogMaxAssumption DEF SendTxItem, Ret, ReturnCode
  <2> QED
    BY <1>1, <2>1, <2>2 DEF SendTxItem, RingInv
<1>2. ASSUME NEW l \in Log, PopFrame(l)
      PROVE  log' \in [Log -> Ring] /\ RingInv' /\ ret' \in Rets
  <2>1. /\ PopLogFrame(log[l]) \in Ring
        /\ WellFormed(PopLogFrame(log[l]))
        /\ log[l].items[log[l].tail] \in Frame
    BY <1>0, <1>2, PopRing DEF PopFrame
  <2>2. ret' \in Rets
    BY <1>2, <2>1, LogMaxAssumption DEF PopFrame, Ret, ReturnCode
  <2> QED
    BY <1>0, <1>2, <2>1, <2>2 DEF PopFrame, RingInv
<1>3. ASSUME NEW l \in Log, ClearFrames(l)
      PROVE  log' \in [Log -> Ring] /\ RingInv' /\ ret' \in Rets
  <2>1. ClearLog(log[l]) \in Ring /\ WellFormed(ClearLog(log[l]))
    BY <1>0, ClearRing
  <2>2. ret' \in Rets
    BY <1>3, LogMaxAssumption DEF ClearFrames, Ret, ReturnCode
  <2> QED
    BY <1>0, <1>3, <2>1, <2>2 DEF ClearFrames, RingInv
<1>4. ASSUME NEW l \in Log, GetCount(l)
      PROVE  log' \in [Log -> Ring] /\ RingInv' /\ ret' \in Rets
  <2>1. log[l].count \in 0 .. LogMax
    BY <1>0 DEF Ring
  <2> QED
    BY <1>0, <1>4, <2>1 DEF GetCount, Ret, ReturnCode, RingInv
<1>5. ASSUME NEW l \in Log, PopEmpty(l)
      PROVE  log' \in [Log -> Ring] /\ RingInv' /\ ret' \in Rets
  BY <1>0, <1>5, LogMaxAssumption DEF PopEmpty, Ret, ReturnCode, RingInv
<1>6. CASE PopNull
  BY <1>0, <1>6, LogMaxAssumption DEF PopNull, Ret, ReturnCode, RingInv
<1>7. CASE UNCHANGED vars
  BY <1>0, <1>7 DEF vars, RingInv
<1> QED
  BY <1>1, <1>2, <1>3, <1>4, <1>5, <1>6, <1>7 DEF Next

(* The inductive invariant of the two logs.                                *)
THEOREM InvHolds == Spec => []Inv
<1> QED
  BY InitInv, NextInv, PTL DEF Spec

(* Indices, counts and answers keep their ranges: no call of the program   *)
(* reads or writes outside items_as, whatever the log size.                *)
THEOREM TypeCorrect == Spec => []TypeOK
<1>1. Inv => TypeOK
  BY DEF Inv
<1> QED
  BY InvHolds, <1>1, PTL

(* Head, tail and count agree and no reader is ever given a slot that was  *)
(* never written.                                                          *)
THEOREM RingsWellFormed == Spec => []RingInv
<1>1. Inv => RingInv
  BY DEF Inv
<1> QED
  BY InvHolds, <1>1, PTL

----------------------------------------------------------------------------
(* The two logs agree on what neither reader has read.                     *)

(* A push ages every unread frame by one and makes f the newest.           *)
LEMMA PushNewest ==
  ASSUME NEW r \in Ring, WellFormed(r), NEW f \in Frame,
         NEW k \in Slot, k < PushLogFrame(r, f).count
  PROVE  /\ k = 0 => Newest(PushLogFrame(r, f), k) = f
         /\ k # 0 => /\ k - 1 \in Slot /\ k - 1 < r.count
                    /\ Newest(PushLogFrame(r, f), k) = Newest(r, k - 1)
<1> DEFINE p == PushLogFrame(r, f)
           d == p.count - 1 - k
<1>0. /\ r.head \in Slot /\ r.tail \in Slot /\ r.count \in 0 .. LogMax
      /\ r.items \in [Slot -> Frame \cup {NoFrame}]
  BY DEF Ring
<1>1. /\ p.items = [r.items EXCEPT ![r.head] = f]
      /\ p.tail = IF r.count = LogMax THEN After(r.tail, 1) ELSE r.tail
      /\ p.count = IF r.count = LogMax THEN r.count ELSE r.count + 1
  BY <1>0, NextSlot DEF PushLogFrame
<1>2. d \in 0 .. LogMax - 1
  BY <1>0, <1>1, LogMaxAssumption DEF Slot
<1>n. Newest(p, k) = p.items[After(p.tail, d)]
  BY DEF Newest
<1> HIDE DEF p
<1>3. CASE r.count = LogMax
  <2>1. r.head = r.tail
    BY <1>0, <1>3, AfterFull DEF WellFormed
  <2>2. After(p.tail, d) = After(r.tail, d + 1)
    BY <1>0, <1>1, <1>2, <1>3, AfterStep
  <2>3. d + 1 = r.count - k
    BY <1>0, <1>1, <1>3 DEF Slot
  <2>4. CASE k = 0
    <3>1. d + 1 = LogMax
      BY <1>3, <2>3, <2>4, LogMaxAssumption
    <3>2. After(p.tail, d) = r.head
      BY <1>0, <2>1, <2>2, <3>1, AfterFull
    <3>3. Newest(p, k) = f
      BY <1>0, <1>1, <1>n, <3>2
    <3> QED
      BY <2>4, <3>3 DEF p
  <2>5. CASE k # 0
    <3>1. /\ k - 1 \in Slot /\ k - 1 < r.count /\ d + 1 = r.count - 1 - (k - 1)
          /\ d + 1 \in 0 .. LogMax - 1 /\ d + 1 # 0
      BY <1>0, <1>2, <1>3, <2>3, <2>5, LogMaxAssumption DEF Slot
    <3>2. After(r.tail, d + 1) # r.head
      BY <1>0, <2>1, <3>1, AfterInjective, AfterFull, LogMaxAssumption
    <3>3. After(r.tail, d + 1) \in Slot
      BY <1>0, <3>1, AfterType, LogMaxAssumption
    <3>4. p.items[After(r.tail, d + 1)] = r.items[After(r.tail, d + 1)]
      BY <1>0, <1>1, <3>2, <3>3
    <3> QED
      BY <1>n, <2>2, <2>5, <3>1, <3>4 DEF Newest, p
  <2> QED
    BY <2>4, <2>5
<1>4. CASE r.count # LogMax
  <2>1. r.count \in 0 .. LogMax - 1 /\ d = r.count - k /\ p.tail = r.tail
    BY <1>0, <1>1, <1>4, LogMaxAssumption DEF Slot
  <2>2. CASE k = 0
    <3>1. After(p.tail, d) = r.head
      BY <2>1, <2>2 DEF WellFormed
    <3>2. Newest(p, k) = f
      BY <1>0, <1>1, <1>n, <3>1
    <3> QED
      BY <2>2, <3>2 DEF p
  <2>3. CASE k # 0
    <3>1. /\ k - 1 \in Slot /\ k - 1 < r.count /\ d = r.count - 1 - (k - 1)
          /\ d # r.count
      BY <1>1, <1>2, <2>1, <2>3, LogMaxAssumption DEF Slot
    <3>2. After(r.tail, d) # r.head
      BY <1>0, <1>2, <2>1, <3>1, AfterInjective DEF WellFormed
    <3>3. After(r.tail, d) \in Slot
      BY <1>0, <1>2, AfterType, LogMaxAssumption
    <3>4. p.items[After(r.tail, d)] = r.items[After(r.tail, d)]
      BY <1>0, <1>1, <3>2, <3>3
    <3> QED
      BY <1>n, <2>1, <2>3, <3>1, <3>4 DEF Newest, p
  <2> QED
    BY <2>2, <2>3
<1> QED
  BY <1>3, <1>4

(* A pop takes the oldest frame: the others keep their age.                *)
LEMMA PopNewest ==
  ASSUME NEW r \in Ring, r.count # 0,
         NEW k \in Slot, k < PopLogFrame(r).count
  PROVE  /\ k < r.count
         /\ Newest(PopLogFrame(r), k) = Newest(r, k)
<1> DEFINE p == PopLogFrame(r)
           d == p.count - 1 - k
<1>0. r.tail \in Slot /\ r.count \in 1 .. LogMax
  BY DEF Ring
<1>1. p.items = r.items /\ p.tail = After(r.tail, 1) /\ p.count = r.count - 1
  BY <1>0, NextSlot DEF PopLogFrame
<1>2. d \in 0 .. LogMax - 1 /\ d + 1 = r.count - 1 - k
  BY <1>0, <1>1, LogMaxAssumption DEF Slot
<1>3. After(p.tail, d) = After(r.tail, d + 1)
  BY <1>0, <1>1, <1>2, AfterStep
<1>4. k < r.count
  BY <1>0, <1>1 DEF Slot
<1> QED
  BY <1>1, <1>2, <1>3, <1>4 DEF Newest

LEMMA InitLogsAgree == Init => LogsAgree
BY DEF Init, LogsAgree, EmptyRing, Log, Slot

LEMMA NextLogsAgree == Inv /\ LogsAgree /\ [Next]_vars => LogsAgree'
<1> SUFFICES ASSUME Inv, LogsAgree, [Next]_vars,
                    NEW k \in Slot,
                    k < log'["ihm"].count, k < log'["broker"].count
             PROVE  Newest(log'["ihm"], k) = Newest(log'["broker"], k)
  BY DEF LogsAgree, Newest
<1>0. /\ log \in [Log -> Ring]
      /\ \A l \in Log : log[l] \in Ring /\ WellFormed(log[l])
  BY DEF Inv, TypeOK, RingInv
<1>a. "ihm" \in Log /\ "broker" \in Log
  BY DEF Log
<1>1. ASSUME NEW f \in Frame, SendTxItem(f)
      PROVE  Newest(log'["ihm"], k) = Newest(log'["broker"], k)
  <2>1. \A l \in Log : log'[l] = PushLogFrame(log[l], f)
    BY <1>1 DEF SendTxItem
  <2>2. CASE k = 0
    BY <1>0, <1>a, <2>1, <2>2, PushNewest
  <2>3. CASE k # 0
    <3>1. \A l \in {"ihm", "broker"} :
            /\ k - 1 \in Slot /\ k - 1 < log[l].count
            /\ Newest(log'[l], k) = Newest(log[l], k - 1)
      BY <1>0, <1>a, <2>1, <2>3, PushNewest
    <3> QED
      BY <3>1 DEF LogsAgree
  <2> QED
    BY <2>2, <2>3
<1>2. ASSUME NEW l \in Log, PopFrame(l)
      PROVE  Newest(log'["ihm"], k) = Newest(log'["broker"], k)
  <2>1. \A m \in Log : log'[m] = IF m = l THEN PopLogFrame(log[m]) ELSE log[m]
    BY <1>0, <1>2 DEF PopFrame
  <2>2. log[l].count # 0
    BY <1>2 DEF PopFrame
  <2>3. \A m \in {"ihm", "broker"} :
          k < log[m].count /\ Newest(log'[m], k) = Newest(log[m], k)
    BY <1>0, <1>a, <2>1, <2>2, PopNewest
  <2> QED
    BY <2>3 DEF LogsAgree
<1>3. ASSUME NEW l \in Log, ClearFrames(l)
      PROVE  Newest(log'["ihm"], k) = Newest(log'["broker"], k)
  <2>1. log'[l].count = 0
    BY <1>0, <1>3, ClearRing DEF ClearFrames
  <2> QED
    BY <2>1 DEF Log, Slot
<1>4. CASE UNCHANGED log
  BY <1>4 DEF LogsAgree
<1> QED
  BY <1>1, <1>2, <1>3, <1>4
  DEF Next, vars, PopEmpty, PopNull, GetCount

(* However far the two readers are apart, the frames both have still to    *)
(* read are the same frames in the same order.                             *)
THEOREM LogsAlwaysAgree == Spec => []LogsAgree
<1> QED
  BY InvHolds, InitLogsAgree, NextLogsAgree, PTL DEF Spec

----------------------------------------------------------------------------
(* The ring buffers implement the bounded queues of CanTxFifo.             *)

(* The unread frames of a ring are a sequence of count frames.             *)
LEMMA ContentsType ==
  ASSUME NEW r \in Ring, WellFormed(r)
  PROVE  /\ Contents(r) \in Seq(Frame)
         /\ Len(Contents(r)) = r.count
         /\ r.count \in 0 .. LogMax
         /\ \A i \in 1 .. r.count :
              Contents(r)[i] = r.items[After(r.tail, i - 1)]
<1>1. r.count \in 0 .. LogMax /\ r.count \in Nat
  BY LogMaxAssumption DEF Ring
<1>2. \A i \in 1 .. r.count : r.items[After(r.tail, i - 1)] \in Frame
  <2> TAKE i \in 1 .. r.count
  <2>1. i - 1 \in Slot /\ i - 1 < r.count
    BY <1>1, LogMaxAssumption DEF Slot
  <2> QED
    BY <2>1 DEF WellFormed
<1>3. Contents(r) \in [1 .. r.count -> Frame]
  BY <1>2 DEF Contents
<1>4. Contents(r) \in Seq(Frame)
  BY <1>1, <1>3, SeqDef
<1>5. DOMAIN Contents(r) = 1 .. r.count
  BY DEF Contents
<1>6. Len(Contents(r)) = r.count
  BY <1>1, <1>4, <1>5, LenProperties
<1> QED
  BY <1>1, <1>4, <1>6 DEF Contents

(* A push appends, and drops the oldest frame of a full ring.              *)
LEMMA ContentsPush ==
  ASSUME NEW r \in Ring, WellFormed(r), NEW f \in Frame
  PROVE  Contents(PushLogFrame(r, f)) = Fifo!Push(Contents(r), f)
<1> DEFINE p == PushLogFrame(r, f)
           c == Contents(r)
           q == Fifo!Push(c, f)
<1>0. /\ r.head \in Slot /\ r.tail \in Slot /\ r.count \in 0 .. LogMax
      /\ r.items \in [Slot -> Frame \cup {NoFrame}]
  BY DEF Ring
<1>1. /\ p.items = [r.items EXCEPT ![r.head] = f]
      /\ p.tail = IF r.count = LogMax THEN After(r.tail, 1) ELSE r.tail
      /\ p.count = IF r.count = LogMax THEN r.count ELSE r.count + 1
  BY <1>0, NextSlot DEF PushLogFrame
<1>2. /\ c \in Seq(Frame) /\ Len(c) = r.count
      /\ \A i \in 1 .. r.count : c[i] = r.items[After(r.tail, i - 1)]
  BY ContentsType
<1>3. /\ Contents(p) \in Seq(Frame) /\ Len(Contents(p)) = p.count
      /\ \A i \in 1 .. p.count :
           Contents(p)[i] = p.items[After(p.tail, i - 1)]
  BY PushRing, ContentsType
<1> HIDE DEF p, c
<1>4. CASE r.count = LogMax
  <2>1. q = Append(Tail(c), f)
    BY <1>2, <1>4, LogMaxAssumption DEF Fifo!Push
  <2>2. c # <<>>
    BY <1>2, <1>4, LogMaxAssumption
  <2>3. /\ Tail(c) \in Seq(Frame) /\ Len(Tail(c)) = LogMax - 1
        /\ \A i \in 1 .. LogMax - 1 : Tail(c)[i] = c[i + 1]
    BY <1>2, <1>4, <2>2, HeadTailProperties
  <2>4. /\ q \in Seq(Frame) /\ Len(q) = LogMax
        /\ \A i \in 1 .. LogMax - 1 : q[i] = c[i + 1]
        /\ q[LogMax] = f
    BY <2>1, <2>3, LogMaxAssumption
  <2> HIDE DEF q
  <2>5. ASSUME NEW i \in 1 .. LogMax
        PROVE  Contents(p)[i] = q[i]
    <3>1. After(p.tail, i - 1) = After(r.tail, i)
      <4>1. i - 1 \in 0 .. LogMax - 1
        BY LogMaxAssumption
      <4> QED
        BY <1>0, <1>1, <1>4, <4>1, AfterStep
    <3>2. Contents(p)[i] = p.items[After(r.tail, i)]
      BY <1>1, <1>3, <1>4, <3>1
    <3>3. r.head = After(r.tail, 0) /\ After(r.tail, LogMax) = r.head
      BY <1>0, <1>4, AfterFull DEF WellFormed
    <3>4. CASE i = LogMax
      BY <1>0, <1>1, <2>4, <3>2, <3>3, <3>4
    <3>5. CASE i # LogMax
      <4>1. i \in 0 .. LogMax - 1 /\ 0 \in 0 .. LogMax - 1 /\ i # 0
            /\ i \in 0 .. LogMax
        BY <3>5, LogMaxAssumption
      <4>2. After(r.tail, i) # r.head /\ After(r.tail, i) \in Slot
        BY <1>0, <3>3, <4>1, AfterInjective, AfterType
      <4>3. Contents(p)[i] = r.items[After(r.tail, i)]
        BY <1>0, <1>1, <3>2, <4>2
      <4>4. i + 1 \in 1 .. r.count /\ (i + 1) - 1 = i /\ i \in 1 .. LogMax - 1
        BY <1>4, <4>1, LogMaxAssumption
      <4> QED
        BY <1>2, <2>4, <4>3, <4>4
    <3> QED
      BY <3>4, <3>5
  <2>6. Contents(p) = q
    BY <1>1, <1>3, <1>4, <2>4, <2>5, SeqEqual
  <2> QED
    BY <2>6 DEF p, q, c
<1>5. CASE r.count # LogMax
  <2>1. r.count \in 0 .. LogMax - 1 /\ p.tail = r.tail /\ p.count = r.count + 1
    BY <1>0, <1>1, <1>5, LogMaxAssumption
  <2>2. q = Append(c, f)
    BY <1>2, <2>1, LogMaxAssumption DEF Fifo!Push
  <2>3. /\ q \in Seq(Frame) /\ Len(q) = r.count + 1
        /\ \A i \in 1 .. r.count : q[i] = c[i]
        /\ q[r.count + 1] = f
    BY <1>2, <2>1, <2>2
  <2> HIDE DEF q
  <2>4. ASSUME NEW i \in 1 .. r.count + 1
        PROVE  Contents(p)[i] = q[i]
    <3>1. Contents(p)[i] = p.items[After(r.tail, i - 1)]
      BY <1>3, <2>1
    <3>2. CASE i = r.count + 1
      <4>1. After(r.tail, i - 1) = r.head
        BY <2>1, <3>2 DEF WellFormed
      <4> QED
        BY <1>0, <1>1, <2>3, <3>1, <3>2, <4>1
    <3>3. CASE i # r.count + 1
      <4>1. /\ i \in 1 .. r.count /\ i - 1 \in 0 .. LogMax - 1
            /\ i - 1 # r.count /\ i - 1 \in 0 .. LogMax
        BY <2>1, <3>3, LogMaxAssumption
      <4>2. After(r.tail, i - 1) # r.head /\ After(r.tail, i - 1) \in Slot
        BY <1>0, <2>1, <4>1, AfterInjective, AfterType DEF WellFormed
      <4>3. Contents(p)[i] = r.items[After(r.tail, i - 1)]
        BY <1>0, <1>1, <3>1, <4>2
      <4> QED
        BY <1>2, <2>3, <4>1, <4>3
    <3> QED
      BY <3>2, <3>3
  <2>5. Contents(p) = q
    BY <1>3, <2>1, <2>3, <2>4, SeqEqual
  <2> QED
    BY <2>5 DEF p, q, c
<1> QED
  BY <1>4, <1>5 DEF p, c

(* A pop answers with the head of the sequence and leaves its tail.        *)
LEMMA ContentsPop ==
  ASSUME NEW r \in Ring, WellFormed(r), r.count # 0
  PROVE  /\ Contents(r) # <<>>
         /\ Head(Contents(r)) = r.items[r.tail]
         /\ Contents(PopLogFrame(r)) = Tail(Contents(r))
<1> DEFINE p == PopLogFrame(r)
           c == Contents(r)
<1>0. r.tail \in Slot /\ r.count \in 1 .. LogMax
  BY DEF Ring
<1>1. p.items = r.items /\ p.tail = After(r.tail, 1) /\ p.count = r.count - 1
  BY <1>0, NextSlot DEF PopLogFrame
<1>2. /\ c \in Seq(Frame) /\ Len(c) = r.count
      /\ \A i \in 1 .. r.count : c[i] = r.items[After(r.tail, i - 1)]
  BY ContentsType
<1>3. /\ Contents(p) \in Seq(Frame) /\ Len(Contents(p)) = p.count
      /\ \A i \in 1 .. p.count :
           Contents(p)[i] = p.items[After(p.tail, i - 1)]
  BY PopRing, ContentsType
<1> HIDE DEF p, c
<1>4. c # <<>> /\ Head(c) = c[1]
  BY <1>0, <1>2
<1>5. c[1] = r.items[r.tail]
  <2>1. 1 \in 1 .. r.count /\ 1 - 1 = 0
    BY <1>0
  <2> QED
    BY <1>0, <1>2, <2>1, AfterFull
<1>6. /\ Tail(c) \in Seq(Frame) /\ Len(Tail(c)) = r.count - 1
      /\ \A i \in 1 .. r.count - 1 : Tail(c)[i] = c[i + 1]
  BY <1>2, <1>4, HeadTailProperties
<1>7. ASSUME NEW i \in 1 .. r.count - 1
      PROVE  Contents(p)[i] = Tail(c)[i]
  <2>1. /\ i - 1 \in 0 .. LogMax - 1 /\ (i - 1) + 1 = i
        /\ i + 1 \in 1 .. r.count /\ (i + 1) - 1 = i
    BY <1>0, LogMaxAssumption
  <2>2. After(p.tail, i - 1) = After(r.tail, i)
    BY <1>0, <1>1, <2>1, AfterStep
  <2>3. Contents(p)[i] = r.items[After(r.tail, i)]
    BY <1>1, <1>3, <2>2
  <2> QED
    BY <1>2, <1>6, <2>1, <2>3
<1>8. Contents(p) = Tail(c)
  BY <1>1, <1>3, <1>6, <1>7, SeqEqual
<1> QED
  BY <1>4, <1>5, <1>8 DEF p, c

LEMMA RefineInit == Init => Fifo!Init
<1> SUFFICES ASSUME Init
             PROVE  Fifo!Init
  OBVIOUS
<1>1. \A l \in Log : Contents(log[l]) = <<>>
  <2> TAKE l \in Log
  <2>1. Contents(log[l]) \in Seq(Frame) /\ Len(Contents(log[l])) = log[l].count
    BY EmptyRingWellFormed, ContentsType DEF Init
  <2>2. log[l].count = 0
    BY DEF Init, EmptyRing
  <2> QED
    BY <2>1, <2>2, EmptySeq
<1> QED
  BY <1>1 DEF Init, Fifo!Init, Ret, Fifo!Ret

LEMMA RefineNext == Inv /\ [Next]_vars => [Fifo!Next]_Fifo!vars
<1> SUFFICES ASSUME Inv, [Next]_vars
             PROVE  [Fifo!Next]_Fifo!vars
  OBVIOUS
<1>0. /\ log \in [Log -> Ring]
      /\ \A l \in Log : log[l] \in Ring /\ WellFormed(log[l])
  BY DEF Inv, TypeOK, RingInv
<1>1. ASSUME NEW f \in Frame, SendTxItem(f)
      PROVE  Fifo!Send(f)
  <2>1. \A l \in Log : Contents(log'[l]) = Fifo!Push(Contents(log[l]), f)
    BY <1>0, <1>1, ContentsPush DEF SendTxItem
  <2> QED
    BY <1>1, <2>1 DEF SendTxItem, Fifo!Send, Ret, Fifo!Ret
<1>2. ASSUME NEW l \in Log, PopFrame(l)
      PROVE  Fifo!Pop(l)
  <2>1. /\ Contents(log[l]) # <<>>
        /\ Head(Contents(log[l])) = log[l].items[log[l].tail]
        /\ Contents(log'[l]) = Tail(Contents(log[l]))
    BY <1>0, <1>2, ContentsPop DEF PopFrame
  <2>2. \A m \in Log : m # l => log'[m] = log[m]
    BY <1>0, <1>2 DEF PopFrame
  <2>3. [m \in Log |-> Contents(log'[m])]
        = [[m \in Log |-> Contents(log[m])] EXCEPT ![l] = Tail(Contents(log[l]))]
    BY <2>1, <2>2
  <2> QED
    BY <1>2, <2>1, <2>3 DEF PopFrame, Fifo!Pop, Ret, Fifo!Ret
<1>3. ASSUME NEW l \in Log, ClearFrames(l)
      PROVE  Fifo!Clear(l)
  <2>1. ClearLog(log[l]) \in Ring /\ WellFormed(ClearLog(log[l]))
        /\ ClearLog(log[l]).count = 0
    BY <1>0, ClearRing
  <2>2. Contents(ClearLog(log[l])) = <<>>
    BY <2>1, ContentsType, EmptySeq
  <2>3. \A m \in Log : log'[m] = IF m = l THEN ClearLog(log[l]) ELSE log[m]
    BY <1>0, <1>3 DEF ClearFrames
  <2>4. [m \in Log |-> Contents(log'[m])]
        = [[m \in Log |-> Contents(log[m])] EXCEPT ![l] = <<>>]
    BY <2>2, <2>3
  <2> QED
    BY <1>3, <2>4 DEF ClearFrames, Fifo!Clear, Ret, Fifo!Ret
<1>4. ASSUME NEW l \in Log, PopEmpty(l)
      PROVE  Fifo!PopEmpty(l)
  <2>1. Contents(log[l]) = <<>>
    BY <1>0, <1>4, ContentsType, EmptySeq DEF PopEmpty
  <2> QED
    BY <1>4, <2>1 DEF PopEmpty, Fifo!PopEmpty, Ret, Fifo!Ret
<1>5. ASSUME NEW l \in Log, GetCount(l)
      PROVE  Fifo!GetCount(l)
  <2>1. Len(Contents(log[l])) = log[l].count
    BY <1>0, ContentsType
  <2> QED
    BY <1>5, <2>1 DEF GetCount, Fifo!GetCount, Ret, Fifo!Ret
<1>6. CASE PopNull
  BY <1>6 DEF PopNull, Fifo!PopNull, Fifo!Next, Ret, Fifo!Ret
<1>7. CASE UNCHANGED vars
  BY <1>7 DEF vars, Fifo!vars
<1> QED
  BY <1>1, <1>2, <1>3, <1>4, <1>5, <1>6, <1>7 DEF Next, Fifo!Next

(* Each log behaves as a bounded first-in first-out queue that loses only  *)
(* its oldest frame and only when full, whatever its size, and neither     *)
(* reader disturbs the other.                                              *)
THEOREM Refinement == Spec => ImplementsFifo
<1> QED
  BY InvHolds, RefineInit, RefineNext, PTL DEF Spec, ImplementsFifo, Fifo!Spec
=============================================================================
