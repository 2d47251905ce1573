------------------------ MODULE CanRxRegistryProofs ------------------------
(***************************************************************************)
(* Proofs about CanRxRegistry for every table size, every set of           *)
(* registrations and frames, and callbacks that register again during the  *)
(* scan.                                                                   *)
(***************************************************************************)
EXTENDS CanRxRegistry, FiniteSetTheorems, TLAPS

(* Slots the scan has dealt with.                                          *)
Scanned == IF inCallback THEN 0 .. idx ELSE 0 .. idx - 1

(* A registration made during the scan lands beyond what was scanned, so   *)
(* the scanned slots that match are the ones called, from first to last.   *)
ScanInv ==
  /\ inCallback => Hit
  /\ \A i \in calls : Used(i)
  /\ frame # NoFrame => calls = {i \in Scanned : Used(i) /\ Matches(reg[i], frame)}

(* A callback can only run at a used slot: every free slot is beyond it.   *)
IInv == TypeOK /\ NoDuplicateRegistration /\ UsedSlotsFirst /\ ScanInv

LEMMA SlotArithmetic ==
  /\ \A i \in 0 .. RegMax : i < RegMax => i \in Slot /\ i + 1 \in 0 .. RegMax
  /\ Slot \subseteq Nat
BY RegMaxAssumption DEF Slot

LEMMA InitIInv == Init => IInv
<1> SUFFICES ASSUME Init PROVE IInv
  OBVIOUS
<1>1. TypeOK
  <2>1. reg \in [Slot -> Entry \cup {Free}]
    BY DEF Init
  <2>2. idx \in 0 .. RegMax
    BY RegMaxAssumption DEF Init
  <2>3. inCallback \in BOOLEAN /\ ~ inCallback
    BY DEF Init
  <2> QED
    BY <2>1, <2>2, <2>3 DEF Init, TypeOK
<1>2. NoDuplicateRegistration /\ UsedSlotsFirst
  BY DEF Init, NoDuplicateRegistration, UsedSlotsFirst, Used
<1>3. ScanInv
  BY DEF Init, ScanInv
<1> QED
  BY <1>1, <1>2, <1>3 DEF IInv

(* A new registration takes the first free slot.                           *)
LEMMA ConfigureRxIInv ==
  ASSUME IInv, NEW e \in Entry, NEW i \in Slot, ConfigureRx(e, i)
  PROVE  IInv'
<1> USE EntryAssumption
<1>1. /\ e # Free /\ reg[i] = Free
      /\ reg' = [reg EXCEPT ![i] = e]
      /\ reg' \in [Slot -> Entry \cup {Free}]
      /\ reg'[i] = e
      /\ \A j \in Slot : j # i => reg'[j] = reg[j]
  BY DEF IInv, TypeOK, ConfigureRx, FirstFree, Used
<1>2. \A j \in Slot : Used(j) => reg[j] # e
  BY DEF ConfigureRx, Registered, SameRegistration
<1>3. TypeOK'
  BY <1>1 DEF IInv, TypeOK, ConfigureRx
<1>4. NoDuplicateRegistration'
  BY <1>1, <1>2 DEF IInv, NoDuplicateRegistration, Used
<1>5. UsedSlotsFirst'
  <2> SUFFICES ASSUME NEW j \in Slot, NEW k \in Slot, reg'[j] # Free, k < j
               PROVE  reg'[k] # Free
    BY DEF UsedSlotsFirst, Used
  <2>1. CASE k = i
    BY <2>1, <1>1
  <2>2. CASE k # i /\ j = i
    BY <2>2, <1>1 DEF ConfigureRx, FirstFree, Used
  <2>3. CASE k # i /\ j # i
    BY <2>3, <1>1 DEF IInv, UsedSlotsFirst, Used
  <2> QED
    BY <2>1, <2>2, <2>3
<1>6. ScanInv'
  <2>1. frame' = frame /\ idx' = idx /\ inCallback' = inCallback /\ calls' = calls
    BY DEF ConfigureRx
  <2>0. \A j \in calls : Used(j)'
    <3>1. calls \subseteq Slot /\ \A j \in calls : Used(j)
      BY DEF IInv, TypeOK, ScanInv
    <3> QED
      BY <3>1, <1>1 DEF Used
  <2>2. CASE frame = NoFrame
    BY <2>0, <2>1, <2>2 DEF ScanInv, IInv, TypeOK
  <2>3. CASE inCallback
    <3>1. idx \in Slot /\ Used(idx) /\ frame # NoFrame
      BY <2>3, SlotArithmetic DEF IInv, TypeOK, ScanInv, Hit
    <3>2. \A j \in 0 .. idx : j \in Slot /\ Used(j) /\ j # i
      <4> SUFFICES ASSUME NEW j \in 0 .. idx
                   PROVE  j \in Slot /\ Used(j) /\ j # i
        OBVIOUS
      <4>1. j \in Slot /\ (j = idx \/ j < idx)
        BY <3>1, RegMaxAssumption DEF Slot
      <4>2. Used(j)
        BY <4>1, <3>1 DEF IInv, UsedSlotsFirst
      <4> QED
        BY <4>1, <4>2, <1>1 DEF Used
    <3>3. \A j \in 0 .. idx : reg'[j] = reg[j] /\ (Used(j) <=> Used(j)')
      BY <3>2, <1>1 DEF Used
    <3>4. Hit' /\ idx \in 0 .. idx
      BY <3>1, <3>3, <2>1, <2>3 DEF Hit, IInv, ScanInv, Slot, Used
    <3> QED
      BY <3>3, <3>4, <2>0, <2>1, <2>3 DEF ScanInv, Scanned, IInv
  <2> QED
    BY <2>2, <2>3 DEF ConfigureRx, AppRuns
<1> QED
  BY <1>3, <1>4, <1>5, <1>6 DEF IInv

(* The steps that leave the table alone.                                   *)
LEMMA ScanStepIInv ==
  ASSUME IInv,
         \/ \E e \in Entry : ConfigureRxAgain(e) \/ ConfigureRxFull(e)
         \/ \E f \in Frame : InjectStart(f)
         \/ InjectInvalid \/ InjectCall \/ CallbackReturn \/ InjectSkip \/ InjectEnd
  PROVE  IInv'
<1> USE DEF Used
<1>1. reg' = reg
  BY DEF ConfigureRxAgain, ConfigureRxFull, InjectStart, InjectInvalid,
         InjectCall, CallbackReturn, InjectSkip, InjectEnd
<1>2. NoDuplicateRegistration' /\ UsedSlotsFirst'
  BY <1>1 DEF IInv, NoDuplicateRegistration, UsedSlotsFirst
<1>3. TypeOK'
  <2>1. CASE \E e \in Entry : ConfigureRxAgain(e) \/ ConfigureRxFull(e)
    BY <2>1 DEF IInv, TypeOK, ConfigureRxAgain, ConfigureRxFull
  <2>2. CASE (\E f \in Frame : InjectStart(f)) \/ InjectInvalid
    BY <2>2, RegMaxAssumption DEF IInv, TypeOK, InjectStart, InjectInvalid
  <2>3. CASE InjectCall
    BY <2>3, SlotArithmetic DEF IInv, TypeOK, InjectCall
  <2>4. CASE CallbackReturn
    BY <2>4, SlotArithmetic DEF IInv, TypeOK, CallbackReturn
  <2>5. CASE InjectSkip
    BY <2>5, SlotArithmetic DEF IInv, TypeOK, InjectSkip
  <2>6. CASE InjectEnd
    BY <2>6 DEF IInv, TypeOK, InjectEnd
  <2> QED
    BY <2>1, <2>2, <2>3, <2>4, <2>5, <2>6
<1>4. ScanInv'
  <2>1. CASE \E e \in Entry : ConfigureRxAgain(e) \/ ConfigureRxFull(e)
    BY <2>1 DEF ConfigureRxAgain, ConfigureRxFull, IInv, ScanInv, Scanned, Hit
  <2>2. CASE \E f \in Frame : InjectStart(f)
    BY <2>2 DEF InjectStart, IInv, TypeOK, ScanInv, Scanned
  <2>3. CASE InjectInvalid
    BY <2>3 DEF InjectInvalid, IInv, ScanInv, Scanned, Hit
  <2>4. CASE InjectCall
    <3>1. idx \in Nat /\ 0 .. idx = (0 .. idx - 1) \cup {idx}
      BY SlotArithmetic, RegMaxAssumption DEF IInv, TypeOK
    <3> QED
      BY <3>1, <2>4 DEF InjectCall, IInv, ScanInv, Scanned, Hit
  <2>5. CASE CallbackReturn
    <3>1. idx \in Nat /\ 0 .. idx = 0 .. (idx + 1) - 1
      BY SlotArithmetic, RegMaxAssumption DEF IInv, TypeOK
    <3> QED
      BY <3>1, <2>5 DEF CallbackReturn, IInv, ScanInv, Scanned
  <2>6. CASE InjectSkip
    <3>1. idx \in Nat /\ 0 .. (idx + 1) - 1 = (0 .. idx - 1) \cup {idx}
      BY SlotArithmetic, RegMaxAssumption DEF IInv, TypeOK
    <3> QED
      BY <3>1, <2>6 DEF InjectSkip, IInv, ScanInv, Scanned, Hit
  <2>7. CASE InjectEnd
    BY <2>7 DEF InjectEnd, IInv, ScanInv
  <2> QED
    BY <2>1, <2>2, <2>3, <2>4, <2>5, <2>6, <2>7
<1> QED
  BY <1>2, <1>3, <1>4 DEF IInv

LEMMA NextIInv == IInv /\ [Next]_vars => IInv'
<1> SUFFICES ASSUME IInv, [Next]_vars PROVE IInv'
  OBVIOUS
<1>1. CASE Next
  BY <1>1, ConfigureRxIInv, ScanStepIInv DEF Next
<1>2. CASE UNCHANGED vars
  BY <1>2 DEF vars, IInv, TypeOK, NoDuplicateRegistration, UsedSlotsFirst,
              ScanInv, Scanned, Hit, Used
<1> QED
  BY <1>1, <1>2

(* The inductive invariant of the table and the scan.                      *)
THEOREM IInvHolds == Spec => []IInv
BY InitIInv, NextIInv, PTL DEF Spec

(* The scan never leaves the table.                                        *)
THEOREM TypeCorrect == Spec => []TypeOK
BY IInvHolds, PTL DEF IInv

(* No registration is in two slots, for every number of slots and every    *)
(* interleaving of registrations with injections.                          *)
THEOREM NoDuplicates == Spec => []NoDuplicateRegistration
BY IInvHolds, PTL DEF IInv

(* The used slots are always the first ones.                               *)
THEOREM UsedFirst == Spec => []UsedSlotsFirst
BY IInvHolds, PTL DEF IInv

----------------------------------------------------------------------------
(* What a dump tells.                                                      *)

(* The used slots are those below the count of them.                       *)
LEMMA UsedBelowCount ==
  ASSUME UsedSlotsFirst
  PROVE  Count \in 0 .. RegMax /\ \A i \in Slot : Used(i) <=> i < Count
<1> DEFINE U == {i \in Slot : Used(i)}
<1>1. IsFiniteSet(Slot) /\ Cardinality(Slot) = RegMax
  BY RegMaxAssumption, FS_Interval DEF Slot
<1>2. /\ U \subseteq Slot /\ IsFiniteSet(U) /\ Cardinality(U) \in Nat
      /\ Cardinality(U) <= RegMax
  BY <1>1, FS_Subset, FS_CardinalityType
<1>3. Count = Cardinality(U)
  BY DEF Count
<1>4. ASSUME NEW i \in Slot, Used(i)
      PROVE  i < Cardinality(U)
  <2>1. i \in Nat /\ i < RegMax
    BY RegMaxAssumption DEF Slot
  <2>2. 0 .. i \subseteq U
    <3> SUFFICES ASSUME NEW j \in 0 .. i PROVE j \in U
      OBVIOUS
    <3>1. j \in Slot /\ (j < i \/ j = i)
      BY <2>1, RegMaxAssumption DEF Slot
    <3> QED
      BY <1>4, <3>1 DEF UsedSlotsFirst
  <2>3. Cardinality(0 .. i) = i + 1
    BY <2>1, FS_Interval
  <2>4. Cardinality(0 .. i) <= Cardinality(U)
    BY <1>2, <2>2, FS_Subset
  <2> QED
    BY <1>2, <2>1, <2>3, <2>4
<1>5. ASSUME NEW i \in Slot, ~ Used(i)
      PROVE  Cardinality(U) <= i
  <2>1. i \in Nat /\ i < RegMax
    BY RegMaxAssumption DEF Slot
  <2>2. U \subseteq 0 .. i - 1
    <3> SUFFICES ASSUME NEW j \in U PROVE j \in 0 .. i - 1
      OBVIOUS
    <3>1. j \in Nat /\ ~ (i < j) /\ j # i
      BY <1>5, RegMaxAssumption DEF UsedSlotsFirst, Slot
    <3> QED
      BY <2>1, <3>1
  <2>3. IsFiniteSet(0 .. i - 1) /\ Cardinality(0 .. i - 1) = i
    BY <2>1, FS_Interval
  <2> QED
    BY <2>2, <2>3, FS_Subset
<1> HIDE DEF U
<1>6. \A i \in Slot : i \in Nat
  BY RegMaxAssumption DEF Slot
<1> QED
  BY <1>2, <1>3, <1>4, <1>5, <1>6, RegMaxAssumption

(* So the scan for the k-th registration finds it in slot k.               *)
LEMMA RegAtIsSlot ==
  ASSUME UsedSlotsFirst, NEW k \in Nat, k < Count
  PROVE  RegAt(k) = k /\ k \in Slot
<1>1. Count \in 0 .. RegMax /\ \A i \in Slot : Used(i) <=> i < Count
  BY UsedBelowCount
<1>2. \A i \in Slot : i \in Nat
  BY RegMaxAssumption DEF Slot
<1>3. k \in Slot
  BY <1>1, RegMaxAssumption DEF Slot
<1>4. ASSUME NEW i \in Slot, Used(i)
      PROVE  Cardinality({j \in Slot : j < i /\ Used(j)}) = i
  <2>1. {j \in Slot : j < i /\ Used(j)} = 0 .. i - 1
    <3>1. ASSUME NEW j \in Slot, j < i
          PROVE  Used(j) /\ j \in 0 .. i - 1
      BY <1>2, <1>4, <3>1 DEF UsedSlotsFirst
    <3>2. \A j \in 0 .. i - 1 : j \in Slot /\ j < i
      BY <1>2, RegMaxAssumption DEF Slot
    <3> QED
      BY <3>1, <3>2
  <2>2. Cardinality(0 .. i - 1) = i
    BY <1>2, FS_Interval
  <2> QED
    BY <2>1, <2>2
<1> DEFINE at(i) == Used(i) /\ Cardinality({j \in Slot : j < i /\ Used(j)}) = k
<1>5. \A i \in Slot : at(i) <=> i = k
  BY <1>1, <1>3, <1>4
<1>6. RegAt(k) = CHOOSE i \in Slot : at(i)
  BY DEF RegAt
<1> HIDE DEF at
<1> QED
  BY <1>3, <1>5, <1>6

(* A dump of n tells the first registrations, each once.                   *)
LEMMA DumpFirst ==
  ASSUME IInv, NEW n \in Int
  PROVE  /\ DumpSize(n) \in 0 .. Count
         /\ Dump(n) = {reg[k] : k \in 0 .. DumpSize(n) - 1}
         /\ \A k \in 0 .. DumpSize(n) - 1 : k \in Slot /\ Used(k)
         /\ Cardinality(Dump(n)) = DumpSize(n)
<1> DEFINE m == DumpSize(n)
           D == {reg[k] : k \in 0 .. m - 1}
           f == [k \in 0 .. m - 1 |-> reg[k]]
<1>1. UsedSlotsFirst /\ Count \in Nat
      /\ \A i \in Slot : Used(i) <=> i < Count
  BY UsedBelowCount, RegMaxAssumption DEF IInv
<1>2. m \in 0 .. Count
  <2>1. Wanted(n) \in Nat
    BY RegMaxAssumption DEF Wanted, Least
  <2>2. Least(Count, Wanted(n)) \in 0 .. Count
    BY <1>1, <2>1 DEF Least
  <2> QED
    BY <1>1, <2>2, RegMaxAssumption DEF DumpSize, Least
<1> HIDE DEF m
<1>3. \A k \in 0 .. m - 1 : RegAt(k) = k /\ k \in Slot /\ Used(k)
  <2> TAKE k \in 0 .. m - 1
  <2>1. k \in Nat /\ k < Count
    BY <1>1, <1>2
  <2> QED
    BY <1>1, <2>1, RegAtIsSlot
<1>4. Dump(n) = D
  BY <1>3 DEF Dump, m
<1>5. f \in Surjection(0 .. m - 1, D)
  BY DEF Surjection
<1>6. \A j, k \in 0 .. m - 1 : f[j] = f[k] => j = k
  BY <1>3 DEF IInv, NoDuplicateRegistration
<1>7. IsFiniteSet(0 .. m - 1) /\ Cardinality(0 .. m - 1) = m
  BY <1>1, <1>2, FS_Interval
<1>8. Cardinality(D) = m
  <2>1. f \in Injection(0 .. m - 1, D)
    BY <1>5, <1>6 DEF Surjection, Injection, IsInjective
  <2> HIDE DEF f, D
  <2> QED
    BY <1>5, <1>7, <2>1, FS_Surjection
<1> QED
  BY <1>2, <1>3, <1>4, <1>8 DEF m

LEMMA IInvDumpComplete == IInv => DumpComplete
<1> SUFFICES ASSUME IInv, NEW n \in 1 .. RegMax,
                    Count <= n, Count <= BurstMax, Count <= ReplyMax
             PROVE  Dump(n) = {reg[i] : i \in Slot} \ {Free}
  BY DEF DumpComplete
<1>1. Count \in Nat /\ \A i \in Slot : Used(i) <=> i < Count
  BY UsedBelowCount, RegMaxAssumption DEF IInv
<1>2. DumpSize(n) = Count
  <2>1. Wanted(n) \in {n, BurstMax}
    BY RegMaxAssumption DEF Wanted, Least
  <2>2. Least(Count, Wanted(n)) = Count
    BY <1>1, <2>1, RegMaxAssumption DEF Least
  <2> QED
    BY <1>1, <2>2, RegMaxAssumption DEF DumpSize, Least
<1>3. /\ Dump(n) = {reg[k] : k \in 0 .. Count - 1}
      /\ \A k \in 0 .. Count - 1 : k \in Slot /\ Used(k)
  <2>1. n \in Int
    BY RegMaxAssumption
  <2> QED
    BY <1>2, <2>1, DumpFirst
<1>4. ASSUME NEW i \in Slot, reg[i] # Free
      PROVE  i \in 0 .. Count - 1
  BY <1>1, <1>4, RegMaxAssumption DEF Slot, Used
<1> QED
  BY <1>3, <1>4 DEF Used

(* A dump is complete whenever the table fits in one answer: the scan for  *)
(* the k-th registration never misses one nor gives one twice.             *)
THEOREM DumpTellsAll == Spec => []DumpComplete
BY IInvHolds, IInvDumpComplete, PTL

(* Also a dump that is too short for the table tells no free slot and no   *)
(* registration twice: it is always the registrations made first, as many  *)
(* as were asked for and fit.                                              *)
THEOREM DumpTellsFirst ==
  Spec => [](\A n \in Int :
               /\ Dump(n) = {reg[k] : k \in 0 .. DumpSize(n) - 1}
               /\ \A k \in 0 .. DumpSize(n) - 1 : Used(k)
               /\ Cardinality(Dump(n)) = DumpSize(n))
<1>1. IInv => \A n \in Int :
                /\ Dump(n) = {reg[k] : k \in 0 .. DumpSize(n) - 1}
                /\ \A k \in 0 .. DumpSize(n) - 1 : Used(k)
                /\ Cardinality(Dump(n)) = DumpSize(n)
  BY DumpFirst
<1> QED
  BY <1>1, IInvHolds, PTL

----------------------------------------------------------------------------
(* The end of an injection.                                                *)

(* How many steps of the loop the injection still has: two for a slot      *)
(* whose callback runs, one for any other, and the last.                   *)
StepsLeft == (RegMax - idx) + (RegMax - idx) + IF inCallback THEN 0 ELSE 1

(* Why an injection ends: its loop has a finite number of steps left,      *)
(* every step takes from it, and what callbacks register adds nothing.     *)
(* Only a callback that has not returned can leave the scan where it is.   *)
THEOREM ScanGetsShorter ==
  /\ Spec => [](StepsLeft \in Nat /\ (frame # NoFrame => StepsLeft > 0))
  /\ Spec => [][ frame # NoFrame =>
                   \/ frame' = NoFrame
                   \/ frame' = frame /\ StepsLeft' < StepsLeft
                   \/ /\ UNCHANGED <<frame, idx, inCallback, calls>>
                      /\ inCallback ]_vars
<1>1. IInv => StepsLeft \in Nat /\ (frame # NoFrame => StepsLeft > 0)
  BY RegMaxAssumption DEF IInv, TypeOK, StepsLeft
<1>2. ASSUME IInv, Next, frame # NoFrame
      PROVE  \/ frame' = NoFrame
             \/ frame' = frame /\ StepsLeft' < StepsLeft
             \/ UNCHANGED <<frame, idx, inCallback, calls>> /\ inCallback
  <2>1. RegMax \in Nat /\ idx \in Nat /\ inCallback \in BOOLEAN
    BY <1>2, RegMaxAssumption DEF IInv, TypeOK
  <2>2. CASE \E e \in Entry : \/ ConfigureRxAgain(e) \/ ConfigureRxFull(e)
                              \/ \E i \in Slot : ConfigureRx(e, i)
    BY <1>2, <2>2
    DEF ConfigureRxAgain, ConfigureRxFull, ConfigureRx, AppRuns
  <2>3. CASE InjectCall
    <3>1. frame' = frame /\ idx' = idx /\ ~ inCallback /\ inCallback'
      BY <2>3 DEF InjectCall
    <3>2. /\ StepsLeft = (RegMax - idx) + (RegMax - idx) + 1
          /\ StepsLeft' = (RegMax - idx) + (RegMax - idx) + 0
      BY <3>1 DEF StepsLeft
    <3>3. StepsLeft' < StepsLeft
      BY <2>1, <3>2
    <3> QED
      BY <3>1, <3>3
  <2>4. CASE CallbackReturn
    <3>1. frame' = frame /\ idx' = idx + 1 /\ inCallback /\ ~ inCallback'
      BY <2>4 DEF CallbackReturn
    <3>2. /\ StepsLeft = (RegMax - idx) + (RegMax - idx) + 0
          /\ StepsLeft' = (RegMax - (idx + 1)) + (RegMax - (idx + 1)) + 1
      BY <3>1 DEF StepsLeft
    <3>3. StepsLeft' < StepsLeft
      BY <2>1, <3>2
    <3> QED
      BY <3>1, <3>3
  <2>5. CASE InjectSkip
    BY <2>1, <2>5 DEF InjectSkip, StepsLeft
  <2>6. CASE InjectEnd
    BY <2>6 DEF InjectEnd
  <2>7. ~ InjectInvalid /\ \A f \in Frame : ~ InjectStart(f)
    BY <1>2 DEF InjectInvalid, InjectStart
  <2> QED
    BY <1>2, <2>2, <2>3, <2>4, <2>5, <2>6, <2>7 DEF Next
<1>3. IInv /\ [Next]_vars =>
        [ frame # NoFrame =>
            \/ frame' = NoFrame
            \/ frame' = frame /\ StepsLeft' < StepsLeft
            \/ /\ UNCHANGED <<frame, idx, inCallback, calls>>
               /\ inCallback ]_vars
  BY <1>2
<1> QED
  BY IInvHolds, <1>1, <1>3, PTL DEF Spec

----------------------------------------------------------------------------
(* The table and the scan implement the bounded set of subscriptions.      *)

subs == {reg[i] : i \in Slot} \ {Free}
delivered == {reg[i] : i \in calls}

(* The code compares masked identifiers as a whole, the promise bit by     *)
(* bit.                                                                    *)
LEMMA MatchesAccepts ==
  ASSUME NEW e \in Entry, NEW f \in Frame
  PROVE  Matches(e, f) <=> Accepts(e, f)
<1>1. f.id \cap e.mask = e.id \cap e.mask <=> \A b \in e.mask : b \in e.id <=> b \in f.id
  OBVIOUS
<1> QED
  BY <1>1 DEF Matches, Accepts

(* While a slot is free there is room for one more subscription.           *)
LEMMA RoomLeft ==
  ASSUME IInv, NEW i \in Slot, FirstFree(i)
  PROVE  IsFiniteSet(subs) /\ Cardinality(subs) < RegMax
<1> DEFINE used == 0 .. i - 1
           f == [j \in used |-> reg[j]]
<1>1. i \in Nat /\ i < RegMax /\ used \subseteq Slot
  BY RegMaxAssumption DEF Slot
<1>2. \A j \in used : Used(j)
  BY <1>1, RegMaxAssumption DEF FirstFree, Slot
<1>3. \A j \in Slot : Used(j) => j \in used
  <2> SUFFICES ASSUME NEW j \in Slot, Used(j) PROVE j < i
    BY RegMaxAssumption DEF Slot
  <2>1. j # i
    BY DEF FirstFree
  <2>2. ~ (i < j)
    BY DEF FirstFree, IInv, UsedSlotsFirst
  <2> QED
    BY <2>1, <2>2, RegMaxAssumption DEF Slot
<1>4. f \in Surjection(used, subs)
  <2>1. f \in [used -> subs]
    BY <1>1, <1>2 DEF subs, Used
  <2>2. \A t \in subs : \E j \in used : f[j] = t
    BY <1>3 DEF subs, Used
  <2> QED
    BY <2>1, <2>2 DEF Surjection
<1>5. IsFiniteSet(used) /\ Cardinality(used) = i
  BY <1>1, FS_Interval
<1> HIDE DEF used, f
<1>6. IsFiniteSet(subs) /\ Cardinality(subs) <= i
  BY <1>4, <1>5, FS_Surjection
<1> QED
  BY <1>6, <1>1, RegMaxAssumption, FS_CardinalityType

(* A full table holds as many subscriptions as it has slots.               *)
LEMMA NoRoomLeft ==
  ASSUME IInv, \A i \in Slot : Used(i)
  PROVE  Cardinality(subs) = RegMax
<1>1. reg \in [Slot -> subs]
  BY DEF IInv, TypeOK, subs, Used
<1>2. reg \in Surjection(Slot, subs)
  <2>1. \A t \in subs : \E i \in Slot : reg[i] = t
    BY DEF subs
  <2> QED
    BY <1>1, <2>1 DEF Surjection
<1>3. reg \in Injection(Slot, subs)
  <2>1. \A i, j \in Slot : reg[i] = reg[j] => i = j
    BY DEF IInv, NoDuplicateRegistration
  <2> QED
    BY <1>1, <2>1 DEF Injection, IsInjective
<1>4. IsFiniteSet(Slot) /\ Cardinality(Slot) = RegMax
  BY RegMaxAssumption, FS_Interval DEF Slot
<1> QED
  BY <1>2, <1>3, <1>4, FS_Surjection

(* The instance of FiniteSets that the promise uses is the same one.       *)
LEMMA SameCardinality ==
  ASSUME NEW S
  PROVE  Subs!Cardinality(S) = Cardinality(S)
BY Zenon DEF Subs!Cardinality, Cardinality

LEMMA InitSubs == Init => Subs!Init
BY DEF Init, Subs!Init

LEMMA ConfigureRxSubs ==
  ASSUME IInv, NEW e \in Entry, NEW i \in Slot, ConfigureRx(e, i)
  PROVE  Subs!Subscribe(e)
<1>1. e # Free /\ reg \in [Slot -> Entry \cup {Free}] /\ reg[i] = Free
      /\ reg' = [reg EXCEPT ![i] = e]
  BY EntryAssumption DEF IInv, TypeOK, ConfigureRx, FirstFree, Used
<1>2. e \notin subs
  BY DEF ConfigureRx, Registered, SameRegistration, subs, Used
<1>3. Cardinality(subs) < RegMax
  BY RoomLeft DEF ConfigureRx
<1>4. subs' = subs \cup {e}
  BY <1>1 DEF subs
<1>5. delivered' = delivered
  <2>1. calls' = calls
    BY DEF ConfigureRx
  <2>2. i \notin calls /\ calls \subseteq Slot
    BY <1>1 DEF IInv, TypeOK, ScanInv, Used
  <2>3. \A j \in calls : reg'[j] = reg[j]
    BY <1>1, <2>2
  <2> QED
    BY <2>1, <2>3 DEF delivered
<1>6. frame' = frame /\ ret' = "RC_OK"
  BY DEF ConfigureRx
<1> QED
  BY <1>2, <1>3, <1>4, <1>5, <1>6, SameCardinality
  DEF Subs!Subscribe, subs, delivered

LEMMA RefusedSubs ==
  ASSUME IInv, NEW e \in Entry
  PROVE  /\ ConfigureRxAgain(e) => Subs!SubscribeAgain(e)
         /\ ConfigureRxFull(e) => Subs!SubscribeFull(e)
<1>1. e # Free
  BY EntryAssumption
<1>2. Registered(e) <=> e \in subs
  BY <1>1 DEF Registered, SameRegistration, subs, Used
<1>3. ASSUME ConfigureRxAgain(e) PROVE Subs!SubscribeAgain(e)
  BY <1>2, <1>3 DEF ConfigureRxAgain, Subs!SubscribeAgain, subs
<1>4. ASSUME ConfigureRxFull(e) PROVE Subs!SubscribeFull(e)
  <2>1. Cardinality(subs) = RegMax
    BY <1>4, NoRoomLeft DEF ConfigureRxFull
  <2>2. e \notin subs /\ ret' = "RC_ERROR_LIMIT_REACHED"
        /\ UNCHANGED <<reg, frame, calls>>
    BY <1>2, <1>4 DEF ConfigureRxFull
  <2> QED
    BY <2>1, <2>2, SameCardinality DEF Subs!SubscribeFull, subs
<1> QED
  BY <1>3, <1>4

(* The called slot delivers its registration, which no earlier slot of the *)
(* scan held.                                                              *)
LEMMA InjectCallSubs ==
  ASSUME IInv, InjectCall
  PROVE  \E s \in Entry : Subs!Deliver(s)
<1>1. idx \in Slot /\ Used(idx) /\ Matches(reg[idx], frame) /\ frame \in Frame
  BY SlotArithmetic DEF IInv, TypeOK, InjectCall, Hit
<1>2. reg[idx] \in Entry /\ reg[idx] \in subs
  BY <1>1 DEF IInv, TypeOK, Used, subs
<1>3. calls \subseteq 0 .. idx - 1 /\ calls \subseteq Slot
  BY DEF IInv, TypeOK, ScanInv, Scanned, InjectCall
<1>4. \A i \in calls : reg[i] # reg[idx]
  <2> SUFFICES ASSUME NEW i \in calls, reg[i] = reg[idx] PROVE FALSE
    OBVIOUS
  <2>1. i = idx
    BY <1>1, <1>3 DEF IInv, NoDuplicateRegistration
  <2> QED
    BY <2>1, <1>1, <1>3 DEF Slot
<1>5. reg[idx] \notin delivered
  BY <1>4 DEF delivered
<1>6. delivered' = delivered \cup {reg[idx]}
  BY DEF InjectCall, delivered
<1>7. Accepts(reg[idx], frame)
  BY <1>1, <1>2, MatchesAccepts
<1>8. subs' = subs /\ frame' = frame /\ ret' = ret /\ frame # NoFrame
  BY DEF InjectCall, subs
<1>9. PICK s \in Entry : s = reg[idx]
  BY <1>2
<1>10. Subs!Deliver(s)
  BY <1>2, <1>5, <1>6, <1>7, <1>8, <1>9 DEF Subs!Deliver, subs, delivered
<1> QED
  BY <1>10

(* At the end of the scan every subscription that accepts the frame has    *)
(* been delivered.                                                         *)
LEMMA InjectEndSubs ==
  ASSUME IInv, InjectEnd
  PROVE  Subs!Finish
<1>1. frame \in Frame /\ calls = {i \in 0 .. RegMax - 1 : Used(i) /\ Matches(reg[i], frame)}
  BY DEF IInv, TypeOK, InjectEnd, ScanInv, Scanned
<1>2. \A s \in subs : Accepts(s, frame) => s \in delivered
  <2> SUFFICES ASSUME NEW s \in subs, Accepts(s, frame) PROVE s \in delivered
    OBVIOUS
  <2>1. PICK i \in Slot : reg[i] = s /\ s # Free
    BY DEF subs
  <2>2. s \in Entry
    BY <2>1 DEF IInv, TypeOK
  <2>3. i \in calls
    BY <1>1, <2>1, <2>2, MatchesAccepts DEF Slot, Used
  <2> QED
    BY <2>1, <2>3 DEF delivered
<1>3. subs' = subs /\ delivered' = delivered /\ frame' = NoFrame
      /\ ret' = "RC_OK" /\ frame # NoFrame
  BY DEF InjectEnd, subs, delivered
<1> QED
  BY <1>2, <1>3 DEF Subs!Finish, subs, delivered

LEMMA StepSubs ==
  ASSUME IInv, [Next]_vars
  PROVE  [Subs!Next]_(Subs!vars)
<1>1. CASE \E e \in Entry : ConfigureRxAgain(e) \/ ConfigureRxFull(e)
                           \/ \E i \in Slot : ConfigureRx(e, i)
  BY <1>1, RefusedSubs, ConfigureRxSubs DEF Subs!Next
<1>2. CASE \E f \in Frame : InjectStart(f)
  <2>1. PICK f \in Frame : InjectStart(f)
    BY <1>2
  <2>2. Subs!Start(f)
    BY <2>1 DEF InjectStart, Subs!Start
  <2> QED
    BY <2>2 DEF Subs!Next
<1>3. CASE InjectInvalid
  BY <1>3 DEF InjectInvalid, Subs!Refuse, Subs!Next
<1>4. CASE InjectCall
  <2>1. PICK s \in Entry : Subs!Deliver(s)
    BY <1>4, InjectCallSubs
  <2> QED
    BY <2>1 DEF Subs!Next
<1>5. CASE InjectEnd
  BY <1>5, InjectEndSubs DEF Subs!Next
<1>6. CASE CallbackReturn \/ InjectSkip \/ UNCHANGED vars
  BY <1>6 DEF CallbackReturn, InjectSkip, vars, Subs!vars
<1> QED
  BY <1>1, <1>2, <1>3, <1>4, <1>5, <1>6 DEF Next

(* For every table size the scan of the slots delivers each frame to       *)
(* exactly the subscriptions that accept it.                               *)
THEOREM Refinement == Spec => ImplementsSubscriptions
<1>1. IInv /\ [Next]_vars => [Subs!Next]_(Subs!vars)
  BY StepSubs
<1> QED
  BY <1>1, IInvHolds, InitSubs, PTL DEF Spec, ImplementsSubscriptions, Subs!Spec

(* When an injection ends the callbacks that ran are those of the          *)
(* registrations in the table that accept the frame, also of those made    *)
(* while it was scanned; and no registration is lost on the way.           *)
THEOREM EachFrameToItsSubscribers ==
  Spec => [][ /\ subs \subseteq subs'
              /\ frame # NoFrame /\ frame' # frame =>
                   /\ frame' = NoFrame
                   /\ delivered = {s \in subs : Accepts(s, frame)} ]_vars
<1>1. ASSUME IInv, [Next]_vars
      PROVE  subs \subseteq subs'
  <2>1. CASE \E e \in Entry, i \in Slot : ConfigureRx(e, i)
    <3>1. PICK e \in Entry, i \in Slot : ConfigureRx(e, i)
      BY <2>1
    <3>2. Subs!Subscribe(e)
      BY <1>1, <3>1, ConfigureRxSubs
    <3> QED
      BY <3>2 DEF Subs!Subscribe, subs
  <2>2. CASE reg' = reg
    BY <2>2 DEF subs
  <2> QED
    BY <1>1, <2>1, <2>2
    DEF Next, vars, ConfigureRxAgain, ConfigureRxFull, InjectStart, InjectInvalid,
        InjectCall, CallbackReturn, InjectSkip, InjectEnd
<1>2. ASSUME IInv, [Next]_vars, frame # NoFrame, frame' # frame
      PROVE  frame' = NoFrame /\ delivered = {s \in subs : Accepts(s, frame)}
  <2>1. InjectEnd
    BY <1>2
    DEF Next, vars, ConfigureRx, ConfigureRxAgain, ConfigureRxFull, InjectStart,
        InjectInvalid, InjectCall, CallbackReturn, InjectSkip
  <2>2. /\ frame' = NoFrame /\ frame \in Frame
        /\ calls = {i \in 0 .. RegMax - 1 : Used(i) /\ Matches(reg[i], frame)}
    BY <1>2, <2>1 DEF IInv, TypeOK, InjectEnd, ScanInv, Scanned
  <2>3. \A i \in Slot : Used(i) => reg[i] \in Entry /\ reg[i] \in subs
    BY <1>2 DEF IInv, TypeOK, Used, subs
  <2>4. delivered = {s \in subs : Accepts(s, frame)}
    <3>1. ASSUME NEW i \in calls
          PROVE  reg[i] \in subs /\ Accepts(reg[i], frame)
      BY <2>2, <2>3, MatchesAccepts DEF Slot
    <3>2. ASSUME NEW s \in subs, Accepts(s, frame)
          PROVE  s \in delivered
      BY <2>1, <1>2, <3>2, InjectEndSubs DEF Subs!Finish, subs, delivered
    <3> QED
      BY <3>1, <3>2 DEF delivered
  <2> QED
    BY <2>2, <2>4
<1>3. IInv /\ [Next]_vars =>
        [ /\ subs \subseteq subs'
          /\ frame # NoFrame /\ frame' # frame =>
               /\ frame' = NoFrame
               /\ delivered = {s \in subs : Accepts(s, frame)} ]_vars
  BY <1>1, <1>2
<1> QED
  BY <1>3, IInvHolds, PTL DEF Spec
=============================================================================
