-------------------------- MODULE NvmBackendProofs --------------------------
(***************************************************************************)
(* Proofs about NvmBackend for every geometry, technology and word width:  *)
(* whatever call fails or is cut off by a crash, no call leaves the        *)
(* component or crosses a page, only requested bytes change, and Flash     *)
(* programs only clear bits.  When a file that is there can be read        *)
(* (ReadFaults = FALSE), acknowledged bytes are on file and the mirror     *)
(* answers with them.                                                      *)
(***************************************************************************)
EXTENDS NvmBackend, TLAPS

----------------------------------------------------------------------------
(* Arithmetic of the argument checks.                                      *)

(* A range is accepted only if it is not empty and lies in the component,  *)
(* although the end address is computed modulo the word.                   *)
LEMMA RangeInside ==
  ASSUME NEW a \in Word, NEW n \in Word, IsRangeValid(a, n)
  PROVE  n \in 1 .. StorageSize /\ a \in Addr /\ a + n <= StorageSize
<1>1. /\ a \in Nat /\ n \in Nat /\ a < WordMod /\ n < WordMod
      /\ WordMod \in Nat /\ StorageSize \in Nat
  BY GeometryAssumption DEF Word
<1>2. CASE a + n < WordMod
  <2>1. (a + n) % WordMod = a + n
    BY <1>1, <1>2
  <2> QED
    BY <1>1, <2>1 DEF IsRangeValid, Addr
<1>3. CASE a + n >= WordMod
  <2>1. (a + n) % WordMod = a + n - WordMod
    <3>1. a + n - WordMod \in 0 .. WordMod - 1
      BY <1>1, <1>3
    <3> QED
      BY <1>1, <1>3, <3>1
  <2> QED
    BY <1>1, <2>1 DEF IsRangeValid
<1> QED
  BY <1>1, <1>2, <1>3

(* A chunk is not empty and ends inside the data.                          *)
LEMMA ChunkBounds ==
  ASSUME op.addr \in Nat, op.size \in Nat, op.done \in Nat, op.done < op.size
  PROVE  ChunkSize \in 1 .. op.size - op.done
<1>1. (op.addr + op.done) % PageSize \in 0 .. PageSize - 1
  BY GeometryAssumption
<1> QED
  BY <1>1, GeometryAssumption DEF ChunkSize

----------------------------------------------------------------------------
(* The inductive invariant.                                                *)

(* The bytes a load has written are those of the mirror.                   *)
LoadInv ==
  op.name = "load" =>
    /\ ~ initialized
    /\ op.step = "write" => \A x \in Addr : x < imageLen => image[x] = ram[x]

(* A program or erase has withdrawn what was acknowledged of its range,    *)
(* the mirror holds the bytes it has stored, the file those persisted.     *)
CallInv ==
  Ranged =>
    /\ initialized
    /\ \A x \in Addr : InOp(x) =>
         /\ Doubtful(acked[x])
         /\ op.step = "persist" \/ x < op.addr + op.done
              => ram[x] = op.data[x - op.addr]
         /\ op.step = "persist" /\ x < op.addr + op.done
              => image[x] = ram[x]

(* Of a Flash, the mirror never has a bit that the file has not, except    *)
(* where an erase failed.                                                  *)
FlashInv ==
  initialized /\ EraseRequired =>
    \A x \in Addr : acked[x] = Torn \/ ram[x] \subseteq image[x]

(* A load truncates only a file that is too short, while nothing is        *)
(* acknowledged.                                                           *)
TruncateInv ==
  op.name = "load" =>
    /\ op.step = "open" => imageLen < StorageSize
    /\ \A x \in Addr : Doubtful(acked[x])

(* What only holds when a file that is there can be read.                  *)
FileInv ==
  ReadFaults = FALSE => AckedBytesOnFile /\ MirrorHoldsAcked /\ TruncateInv

IInv == TypeOK /\ LoadInv /\ CallInv /\ FlashInv /\ FileInv

(* No call in progress.                                                    *)
LEMMA IdleCall ==
  /\ Idle \in OpType
  /\ Idle.name = "none" /\ Idle.step = "none"
  /\ Idle.data \in UNION {[0 .. n - 1 -> Byte] : n \in 0 .. StorageSize}
<1>1. 0 \in 0 .. StorageSize /\ 0 \in Addr /\ 0 .. 0 - 1 = {}
  BY GeometryAssumption DEF Addr
<1>2. [i \in {} |-> {}] \in [0 .. 0 - 1 -> Byte]
  BY <1>1
<1>3. [i \in {} |-> {}] \in UNION {[0 .. n - 1 -> Byte] : n \in 0 .. StorageSize}
  BY <1>1, <1>2
<1> QED
  BY <1>1, <1>3 DEF Idle, Call, OpType

LEMMA InitIInv == Init => IInv
<1> SUFFICES ASSUME Init
             PROVE  IInv
  OBVIOUS
<1>1. TypeOK
  BY IdleCall DEF Init, TypeOK, ReturnCode, Ranged, Byte
<1>2. AckedBytesOnFile /\ MirrorHoldsAcked
  BY DEF Init, AckedBytesOnFile, MirrorHoldsAcked, Doubtful
<1>3. LoadInv /\ CallInv /\ FlashInv
  BY IdleCall DEF Init, LoadInv, CallInv, FlashInv, Ranged
<1>4. FileInv
  BY <1>2, IdleCall DEF Init, FileInv, TruncateInv
<1> QED
  BY <1>1, <1>3, <1>4 DEF IInv

(* A call that ends leaves nothing to prove about calls in progress.       *)
LEMMA ReturnIdle ==
  ASSUME NEW rc, Return(rc)
  PROVE  op' = Idle /\ op' \in OpType /\ LoadInv' /\ TruncateInv' /\ CallInv' /\ ~ Ranged'
BY IdleCall DEF Return, LoadInv, TruncateInv, CallInv, Ranged

(* The calls that change nothing but the result.                           *)
LEMMA ResultOnly ==
  ASSUME IInv, NEW rc \in ReturnCode, Return(rc),
         UNCHANGED <<ram, image, imageLen, acked, initialized>>
  PROVE  IInv'
<1>1. op' = Idle /\ op' \in OpType /\ LoadInv' /\ TruncateInv' /\ CallInv' /\ ~ Ranged'
  BY ReturnIdle
<1>2. TypeOK'
  BY <1>1, IdleCall DEF IInv, TypeOK, Return
<1>3. FileInv' /\ FlashInv'
  BY <1>1 DEF IInv, FileInv, AckedBytesOnFile, MirrorHoldsAcked, FlashInv
<1> QED
  BY <1>1, <1>2, <1>3 DEF IInv

(* Init of a file of full length.                                          *)
LEMMA LoadFullStep ==
  ASSUME IInv, LoadFull
  PROVE  IInv'
<1> USE DEF IInv
<1>1. op' = Idle /\ op' \in OpType /\ LoadInv' /\ TruncateInv' /\ CallInv' /\ ~ Ranged'
  BY ReturnIdle DEF LoadFull
<1>2. imageLen = StorageSize
  BY GeometryAssumption DEF LoadFull, ReadSize, TypeOK
<1>3. \A x \in Addr : ram'[x] = image[x]
  BY GeometryAssumption DEF LoadFull, Mirror, Addr
<1>4. \A x \in Addr : acked'[x] = IF Doubtful(acked[x]) THEN image[x] ELSE acked[x]
  BY <1>3 DEF LoadFull, Relied
<1>5. image' = image /\ imageLen' = imageLen /\ initialized' = TRUE
  BY DEF LoadFull
<1>6. ram' \in [Addr -> Byte]
  BY DEF LoadFull, Mirror, TypeOK, Erased, Byte
<1>7. acked' \in [Addr -> {InDoubt, Torn} \cup Byte]
  <2>1. acked' = [x \in Addr |-> acked'[x]]
    BY DEF LoadFull, Relied
  <2> QED
    BY <1>4, <2>1 DEF TypeOK
<1>8. TypeOK'
  BY <1>1, <1>5, <1>6, <1>7, IdleCall
  DEF TypeOK, LoadFull, Return, ReturnCode
<1>9. FlashInv'
  BY <1>3, <1>5 DEF FlashInv
<1>10. ASSUME ReadFaults = FALSE, NEW x \in Addr
       PROVE  acked'[x] = image[x]
  BY <1>4, <1>10 DEF FileInv, AckedBytesOnFile
<1>11. FileInv'
  BY <1>1, <1>2, <1>3, <1>5, <1>10 DEF FileInv, AckedBytesOnFile, MirrorHoldsAcked
<1> QED
  BY <1>1, <1>8, <1>9, <1>11

(* Init of a file that is absent or too short.                             *)
LEMMA LoadShortStep ==
  ASSUME IInv, NEW n \in 0 .. StorageSize - 1, LoadShort(n)
  PROVE  IInv'
<1> USE DEF IInv
<1>1. ReadFaults = FALSE => imageLen < StorageSize
  BY GeometryAssumption DEF LoadShort, ReadSize
<1>2. ReadFaults = FALSE => \A x \in Addr : Doubtful(acked[x])
  BY <1>1, GeometryAssumption DEF FileInv, AckedBytesOnFile
<1>3. op' = Call("load", "open", 0, 0, Idle.data)
  BY DEF LoadShort
<1>4. op' \in OpType /\ op'.name = "load" /\ op'.step = "open"
  BY <1>3, IdleCall, GeometryAssumption DEF Call, OpType, Addr
<1>5. ram' \in [Addr -> Byte]
  BY DEF LoadShort, Mirror, TypeOK, Erased, Byte
<1>6. TypeOK'
  BY <1>4, <1>5 DEF TypeOK, LoadShort, Ranged
<1>7. FileInv' /\ FlashInv'
  BY <1>1, <1>2, <1>4
  DEF LoadShort, FileInv, AckedBytesOnFile, MirrorHoldsAcked, TruncateInv, FlashInv
<1>8. LoadInv' /\ CallInv'
  BY <1>4 DEF LoadShort, LoadInv, CallInv, Ranged
<1> QED
  BY <1>6, <1>7, <1>8

(* The image is rewritten from the mirror.                                 *)
LEMMA RewriteOpenStep ==
  ASSUME IInv, RewriteOpen
  PROVE  IInv'
<1> USE DEF IInv
<1>1. /\ op' \in OpType /\ op'.name = "load" /\ op'.step = "write"
  BY DEF RewriteOpen, TypeOK, OpType
<1>2. /\ UNCHANGED <<initialized, lastResult, ram, image, acked>>
      /\ imageLen' = 0
  BY DEF RewriteOpen
<1>3. /\ ~ initialized
      /\ ReadFaults = FALSE => \A x \in Addr : Doubtful(acked[x])
  BY DEF RewriteOpen, LoadInv, FileInv, TruncateInv
<1>4. TypeOK'
  BY <1>1, <1>2, GeometryAssumption DEF TypeOK, Ranged
<1>5. FileInv' /\ FlashInv'
  BY <1>1, <1>2, <1>3
  DEF FileInv, AckedBytesOnFile, MirrorHoldsAcked, TruncateInv, FlashInv
<1>6. LoadInv' /\ CallInv'
  BY <1>1, <1>2, <1>3 DEF LoadInv, CallInv, Ranged, Addr
<1> QED
  BY <1>4, <1>5, <1>6

LEMMA RewriteByteStep ==
  ASSUME IInv, RewriteByte
  PROVE  IInv'
<1> USE DEF IInv
<1>1. /\ UNCHANGED <<initialized, lastResult, ram, op, acked>>
      /\ op.name = "load" /\ op.step = "write"
      /\ imageLen \in Addr /\ imageLen' = imageLen + 1
      /\ image' = [image EXCEPT ![imageLen] = ram[imageLen]]
  BY GeometryAssumption DEF RewriteByte, TypeOK, Addr
<1>2. /\ ~ initialized
      /\ ReadFaults = FALSE => \A x \in Addr : Doubtful(acked[x])
  BY <1>1 DEF LoadInv, FileInv, TruncateInv
<1>3. TypeOK'
  BY <1>1, GeometryAssumption DEF TypeOK, Addr, Ranged
<1>4. FileInv' /\ FlashInv'
  BY <1>1, <1>2
  DEF FileInv, AckedBytesOnFile, MirrorHoldsAcked, TruncateInv, FlashInv
<1>5. \A x \in Addr : x < imageLen' => image'[x] = ram'[x]
  BY <1>1 DEF LoadInv, TypeOK, Addr
<1>6. LoadInv' /\ CallInv'
  BY <1>1, <1>2, <1>5 DEF LoadInv, CallInv, Ranged
<1> QED
  BY <1>3, <1>4, <1>6

LEMMA RewriteDoneStep ==
  ASSUME IInv, RewriteDone
  PROVE  IInv'
<1> USE DEF IInv
<1>1. op' = Idle /\ op' \in OpType /\ LoadInv' /\ TruncateInv' /\ CallInv' /\ ~ Ranged'
  BY ReturnIdle DEF RewriteDone
<1>2. /\ UNCHANGED <<ram, image, imageLen>>
      /\ initialized' = TRUE /\ imageLen = StorageSize
      /\ lastResult' = "RC_OK" /\ acked' = Relied(ram)
      /\ op.name = "load" /\ op.step = "write"
  BY DEF RewriteDone, Return
<1>3. /\ \A x \in Addr : image[x] = ram[x]
      /\ ReadFaults = FALSE => \A x \in Addr : acked'[x] = ram[x]
  BY <1>2, GeometryAssumption DEF LoadInv, FileInv, TruncateInv, Relied, Addr
<1>4. acked' \in [Addr -> {InDoubt, Torn} \cup Byte]
  BY <1>2 DEF Relied, TypeOK
<1>5. TypeOK'
  BY <1>1, <1>2, <1>4, IdleCall DEF TypeOK, ReturnCode
<1>6. FileInv' /\ FlashInv'
  BY <1>1, <1>2, <1>3 DEF FileInv, AckedBytesOnFile, MirrorHoldsAcked, FlashInv
<1> QED
  BY <1>1, <1>5, <1>6

(* An accepted program withdraws what was acknowledged of its range.       *)
LEMMA ProgramStartStep ==
  ASSUME IInv, NEW a \in Word, NEW n \in 1 .. StorageSize,
         NEW d \in [0 .. n - 1 -> Byte], ProgramStart(a, n, d)
  PROVE  IInv'
<1> USE DEF IInv
<1>1. n \in Word
  BY GeometryAssumption DEF Word
<1>2. a \in Addr /\ a + n <= StorageSize
  BY <1>1, RangeInside DEF ProgramStart, ProgramArgsValid
<1>3. /\ op'.name = "program" /\ op'.step = "chunk" /\ op'.addr = a
      /\ op'.size = n /\ op'.data = d /\ op'.done = 0
  BY DEF ProgramStart, Call
<1>4. op' \in OpType
  <2>1. d \in UNION {[0 .. m - 1 -> Byte] : m \in 0 .. StorageSize}
    BY GeometryAssumption
  <2> QED
    BY <1>2, <2>1, GeometryAssumption DEF ProgramStart, Call, OpType
<1>5. /\ UNCHANGED <<initialized, lastResult, ram, image, imageLen>>
      /\ initialized /\ acked' = Doubt(a, n)
  BY DEF ProgramStart
<1>6. acked' \in [Addr -> {InDoubt, Torn} \cup Byte]
  BY <1>5 DEF Doubt, TypeOK
<1>7. TypeOK'
  BY <1>2, <1>3, <1>4, <1>5, <1>6, GeometryAssumption DEF TypeOK, Ranged, Addr
<1>8. \A x \in Addr :
        /\ x \in a .. a + n - 1 => Doubtful(acked'[x])
        /\ ~ Doubtful(acked'[x]) => acked'[x] = acked[x]
        /\ acked[x] = Torn => acked'[x] = Torn
  BY <1>5 DEF Doubt, Doubtful
<1>9. FileInv' /\ FlashInv'
  <2>1. AckedBytesOnFile => AckedBytesOnFile'
    BY <1>5, <1>8 DEF AckedBytesOnFile
  <2>2. MirrorHoldsAcked => MirrorHoldsAcked'
    BY <1>5, <1>8 DEF MirrorHoldsAcked
  <2>3. TruncateInv'
    BY <1>3 DEF TruncateInv
  <2>4. FlashInv'
    BY <1>5, <1>8 DEF FlashInv
  <2> QED
    BY <2>1, <2>2, <2>3, <2>4 DEF FileInv
<1>10. LoadInv'
  BY <1>3 DEF LoadInv
<1>11. ASSUME NEW x \in Addr, InOp(x)'
       PROVE  Doubtful(acked'[x]) /\ ~ (x < op'.addr + op'.done)
  <2>1. x \in a .. a + n - 1
    BY <1>3, <1>11 DEF InOp
  <2> QED
    BY <1>2, <1>3, <1>8, <2>1, GeometryAssumption DEF Addr
<1>12. CallInv'
  BY <1>3, <1>5, <1>11 DEF CallInv
<1> QED
  BY <1>7, <1>9, <1>10, <1>12

(* Part of the data goes to the mirror, byte by byte and only where        *)
(* allowed: what Stored does to the mirror of a program in progress.       *)
LEMMA StoredMirror ==
  ASSUME IInv, op.name = "program", op.step = "chunk",
         NEW n \in Nat, op.done + n <= op.size,
         \A i \in 0 .. n - 1 : ByteAllowed(i)
  PROVE  /\ Stored(n) \in [Addr -> Byte]
         /\ \A x \in Addr : ~ InOp(x) => Stored(n)[x] = ram[x]
         /\ \A x \in Addr : InOp(x) /\ x < op.addr + op.done + n
              => Stored(n)[x] = op.data[x - op.addr]
         /\ EraseRequired => \A x \in Addr : Stored(n)[x] \subseteq ram[x]
<1> DEFINE first == op.addr + op.done
<1>0. /\ op.addr \in Nat /\ op.size \in Nat /\ op.done \in Nat
      /\ op.addr + op.size <= StorageSize /\ ram \in [Addr -> Byte]
      /\ op.data \in [0 .. op.size - 1 -> Byte] /\ StorageSize \in Nat
  BY GeometryAssumption DEF IInv, TypeOK, OpType, Ranged, Addr
<1>1. \A x \in Addr : Stored(n)[x] =
        IF x \in first .. first + n - 1 THEN op.data[x - op.addr] ELSE ram[x]
  BY DEF Stored
<1>2. ASSUME NEW x \in Addr, x \in first .. first + n - 1
      PROVE  x - op.addr \in 0 .. op.size - 1 /\ InOp(x)
  <2>1. x \in Int /\ x >= op.addr /\ x <= op.addr + op.size - 1
    BY <1>0, <1>2, SMTT(60) DEF Addr
  <2> QED
    BY <1>0, <2>1 DEF InOp
<1>3. Stored(n) \in [Addr -> Byte]
  BY <1>0, <1>2 DEF Stored
<1>4. \A x \in Addr : ~ InOp(x) => Stored(n)[x] = ram[x]
  BY <1>1, <1>2
<1>5. ASSUME NEW x \in Addr, InOp(x), x < op.addr + op.done + n
      PROVE  Stored(n)[x] = op.data[x - op.addr]
  <2>1. CASE x < op.addr + op.done
    <3>1. ram[x] = op.data[x - op.addr]
      BY <1>5, <2>1 DEF IInv, CallInv, Ranged
    <3> QED
      BY <1>0, <1>1, <2>1, <3>1 DEF Addr
  <2>2. CASE x >= op.addr + op.done
    BY <1>0, <1>1, <1>5, <2>2 DEF Addr
  <2> QED
    BY <1>0, <2>1, <2>2 DEF Addr
<1>6. ASSUME EraseRequired, NEW x \in Addr
      PROVE  Stored(n)[x] \subseteq ram[x]
  <2>1. CASE x \in first .. first + n - 1
    <3>1. x - first \in 0 .. n - 1
      BY <1>0, <2>1 DEF Addr
    <3>2. ByteAllowed(x - first)
      BY <3>1
    <3>3. op.data[op.done + (x - first)] \subseteq ram[op.addr + op.done + (x - first)]
      BY <1>6, <3>2 DEF ByteAllowed
    <3>4. op.done + (x - first) = x - op.addr
          /\ op.addr + op.done + (x - first) = x
      BY <1>0 DEF Addr
    <3> QED
      BY <1>1, <2>1, <3>3, <3>4
  <2>2. CASE x \notin first .. first + n - 1
    BY <1>1, <2>2
  <2> QED
    BY <2>1, <2>2
<1> QED
  BY <1>3, <1>4, <1>5, <1>6

(* A stored mirror keeps what is said of the bytes outside the call.       *)
LEMMA StoredKeeps ==
  ASSUME IInv, op.name = "program", op.step = "chunk",
         NEW n \in Nat, op.done + n <= op.size,
         \A i \in 0 .. n - 1 : ByteAllowed(i),
         ram' = Stored(n),
         UNCHANGED <<initialized, image, imageLen, acked>>,
         op'.name # "load"
  PROVE  FileInv' /\ FlashInv'
<1>1. \A x \in Addr : ~ Doubtful(acked[x]) => ram'[x] = ram[x]
  BY StoredMirror DEF IInv, CallInv, Ranged
<1>2. EraseRequired => \A x \in Addr : ram'[x] \subseteq ram[x]
  BY StoredMirror
<1> QED
  BY <1>1, <1>2
  DEF IInv, FileInv, AckedBytesOnFile, MirrorHoldsAcked, TruncateInv, FlashInv

LEMMA ProgramChunkStep ==
  ASSUME IInv, ProgramChunk
  PROVE  IInv'
<1> USE DEF IInv
<1>1. /\ UNCHANGED <<initialized, lastResult, image, imageLen, acked>>
      /\ op.name = "program" /\ op.step = "chunk" /\ op.done < op.size
      /\ \A i \in 0 .. ChunkSize - 1 : ByteAllowed(i)
      /\ ram' = Stored(ChunkSize)
      /\ op' = [op EXCEPT !.done = op.done + ChunkSize]
  BY DEF ProgramChunk
<1>2. /\ op.addr \in Nat /\ op.size \in 0 .. StorageSize /\ op.done \in Nat
      /\ StorageSize \in Nat /\ op \in OpType
  BY GeometryAssumption DEF TypeOK, OpType, Addr
<1>3. ChunkSize \in 1 .. op.size - op.done
  BY <1>1, <1>2, ChunkBounds
<1>4. ChunkSize \in Nat /\ op.done + ChunkSize <= op.size
  BY <1>2, <1>3
<1>5. /\ op' \in OpType /\ op'.name = op.name /\ op'.step = op.step
      /\ op'.addr = op.addr /\ op'.size = op.size /\ op'.data = op.data
      /\ op'.done = op.done + ChunkSize
  BY <1>1, <1>2, <1>4 DEF OpType
<1>6. FileInv' /\ FlashInv'
  BY <1>1, <1>4, <1>5, StoredKeeps
<1>7. /\ ram' \in [Addr -> Byte]
      /\ \A x \in Addr : InOp(x) /\ x < op.addr + op.done + ChunkSize
           => ram'[x] = op.data[x - op.addr]
  BY <1>1, <1>4, StoredMirror
<1>8. TypeOK'
  BY <1>1, <1>4, <1>5, <1>7 DEF TypeOK, Ranged
<1>9. CallInv'
  BY <1>1, <1>2, <1>4, <1>5, <1>7 DEF CallInv, Ranged, InOp, Addr
<1>10. LoadInv'
  BY <1>1, <1>5 DEF LoadInv
<1> QED
  BY <1>6, <1>8, <1>9, <1>10

LEMMA ProgramRefusedStep ==
  ASSUME IInv, NEW n \in 0 .. StorageSize - 1, ProgramRefused(n)
  PROVE  IInv'
<1> USE DEF IInv
<1>1. op' = Idle /\ op' \in OpType /\ LoadInv' /\ TruncateInv' /\ CallInv' /\ ~ Ranged'
  BY ReturnIdle DEF ProgramRefused
<1>2. /\ UNCHANGED <<initialized, image, imageLen, acked>>
      /\ op.name = "program" /\ op.step = "chunk" /\ op.done < op.size
      /\ n \in 0 .. ChunkSize - 1 /\ \A i \in 0 .. n - 1 : ByteAllowed(i)
      /\ ram' = Stored(n) /\ lastResult' = "RC_ERROR_NVM_BACKEND_PROGRAM"
  BY DEF ProgramRefused, Return
<1>3. op.addr \in Nat /\ op.size \in Nat /\ op.done \in Nat
  BY GeometryAssumption DEF TypeOK, OpType, Addr
<1>4. ChunkSize \in 1 .. op.size - op.done
  BY <1>2, <1>3, ChunkBounds
<1>5. n \in Nat /\ op.done + n <= op.size
  BY <1>2, <1>3, <1>4
<1>6. FileInv' /\ FlashInv'
  BY <1>1, <1>2, <1>5, IdleCall, StoredKeeps
<1>7. ram' \in [Addr -> Byte]
  BY <1>2, <1>5, StoredMirror
<1>8. TypeOK'
  BY <1>1, <1>2, <1>7, IdleCall DEF TypeOK, ReturnCode
<1> QED
  BY <1>1, <1>6, <1>8

LEMMA ProgramPersistStep ==
  ASSUME IInv, ProgramPersist
  PROVE  IInv'
<1> USE DEF IInv
<1>1. /\ UNCHANGED <<initialized, lastResult, ram, image, imageLen, acked>>
      /\ op.name = "program" /\ op.step = "chunk" /\ op.done = op.size
      /\ op' = [op EXCEPT !.step = "persist", !.done = 0]
      /\ op \in OpType
  BY DEF ProgramPersist, TypeOK
<1>2. /\ op' \in OpType /\ op'.name = op.name /\ op'.step = "persist"
      /\ op'.addr = op.addr /\ op'.size = op.size /\ op'.data = op.data
      /\ op'.done = 0
  <2>1. 0 \in 0 .. StorageSize
    BY GeometryAssumption
  <2>2. /\ op'.name = op.name /\ op'.step = "persist" /\ op'.addr = op.addr
        /\ op'.size = op.size /\ op'.data = op.data /\ op'.done = 0
    BY <1>1 DEF OpType
  <2>3. op' \in OpType
    BY <1>1, <2>1 DEF OpType
  <2> QED
    BY <2>2, <2>3
<1>3. TypeOK'
  BY <1>1, <1>2, GeometryAssumption DEF TypeOK, Ranged, OpType
<1>4. FileInv' /\ FlashInv'
  BY <1>1, <1>2
  DEF FileInv, AckedBytesOnFile, MirrorHoldsAcked, TruncateInv, FlashInv
<1>5. LoadInv'
  BY <1>1, <1>2 DEF LoadInv
<1>6. ASSUME NEW x \in Addr, InOp(x)'
      PROVE  /\ Doubtful(acked'[x])
             /\ ram'[x] = op'.data[x - op'.addr]
             /\ ~ (x < op'.addr + op'.done)
  <2>1. InOp(x) /\ op.addr \in Nat /\ op.size \in Nat /\ x \in Nat
    BY <1>1, <1>2, <1>6, GeometryAssumption DEF InOp, OpType, Addr
  <2>2. x < op.addr + op.done /\ ~ (x < op.addr + 0)
    BY <1>1, <2>1 DEF InOp
  <2> QED
    BY <1>1, <1>2, <2>1, <2>2 DEF CallInv, Ranged
<1>7. CallInv'
  BY <1>1, <1>6 DEF CallInv, Ranged
<1> QED
  BY <1>3, <1>4, <1>5, <1>7

(* An accepted erase: the mirror is erased before the file is.             *)
LEMMA EraseStartStep ==
  ASSUME IInv, NEW a \in Word, NEW n \in Word, EraseStart(a, n)
  PROVE  IInv'
<1> USE DEF IInv
<1>1. a \in Addr /\ n \in 1 .. StorageSize /\ a + n <= StorageSize
  BY RangeInside DEF EraseStart, EraseArgsValid
<1>2. /\ UNCHANGED <<initialized, lastResult, image, imageLen>>
      /\ initialized
      /\ op'.name = "erase" /\ op'.step = "persist" /\ op'.addr = a
      /\ op'.size = n /\ op'.data = [i \in 0 .. n - 1 |-> Erased] /\ op'.done = 0
  BY DEF EraseStart, Call
<1>3. op' \in OpType /\ op'.data \in [0 .. n - 1 -> Byte]
  <2>1. [i \in 0 .. n - 1 |-> Erased] \in [0 .. n - 1 -> Byte]
    BY DEF Erased, Byte
  <2>2. [i \in 0 .. n - 1 |-> Erased]
          \in UNION {[0 .. m - 1 -> Byte] : m \in 0 .. StorageSize}
    BY <1>1, <2>1, GeometryAssumption
  <2> QED
    BY <1>1, <1>2, <2>1, <2>2, GeometryAssumption DEF EraseStart, Call, OpType
<1>4. /\ ram' \in [Addr -> Byte]
      /\ acked' \in [Addr -> {InDoubt, Torn} \cup Byte]
  BY DEF EraseStart, TypeOK, Erased, Byte
<1>5. \A x \in Addr :
        /\ x \in a .. a + n - 1 => acked'[x] = Torn /\ ram'[x] = Erased
        /\ x \notin a .. a + n - 1 => acked'[x] = acked[x] /\ ram'[x] = ram[x]
  BY DEF EraseStart
<1>6. TypeOK'
  <2>1. Ranged' => /\ op'.size # 0 /\ op'.addr + op'.size <= StorageSize
                   /\ op'.done <= op'.size
                   /\ op'.data \in [0 .. op'.size - 1 -> Byte]
    BY <1>1, <1>2, <1>3, GeometryAssumption DEF Addr
  <2>2. /\ op'.name # "none" /\ op'.name # "load" /\ op'.name # "program"
        /\ op'.step = "persist"
    BY <1>2
  <2> QED
    BY <1>2, <1>3, <1>4, <2>1, <2>2 DEF TypeOK
<1>7. FileInv' /\ FlashInv'
  BY <1>2, <1>5
  DEF FileInv, AckedBytesOnFile, MirrorHoldsAcked, TruncateInv, FlashInv, Doubtful
<1>8. LoadInv'
  BY <1>2 DEF LoadInv
<1>9. ASSUME NEW x \in Addr, InOp(x)'
      PROVE  /\ Doubtful(acked'[x])
             /\ ram'[x] = op'.data[x - op'.addr]
             /\ ~ (x < op'.addr + op'.done)
  <2>1. x \in a .. a + n - 1 /\ x - a \in 0 .. n - 1 /\ ~ (x < a + 0)
    BY <1>1, <1>2, <1>9, GeometryAssumption DEF InOp, Addr
  <2> QED
    BY <1>2, <1>5, <2>1 DEF Doubtful
<1>10. CallInv'
  BY <1>2, <1>9 DEF CallInv
<1> QED
  BY <1>6, <1>7, <1>8, <1>10

(* The next byte of the range reaches the file.                            *)
LEMMA PersistByteStep ==
  ASSUME IInv, PersistByte
  PROVE  IInv'
<1> USE DEF IInv
<1> DEFINE at == op.addr + op.done
<1>1. /\ UNCHANGED <<initialized, lastResult, ram, imageLen, acked>>
      /\ op.step = "persist" /\ op.done < op.size
      /\ image' = [image EXCEPT ![at] = ram[at]]
      /\ op' = [op EXCEPT !.done = op.done + 1]
      /\ op \in OpType /\ Ranged
  BY IdleCall DEF PersistByte, TypeOK, Ranged, OpType
<1>2. /\ op.addr \in Nat /\ op.size \in Nat /\ op.done \in Nat
      /\ op.addr + op.size <= StorageSize /\ StorageSize \in Nat
  BY <1>1, GeometryAssumption DEF OpType, Addr, TypeOK
<1>3. at \in Addr /\ InOp(at)
  BY <1>1, <1>2 DEF Addr, InOp
<1>4. /\ op' \in OpType /\ op'.name = op.name /\ op'.step = op.step
      /\ op'.addr = op.addr /\ op'.size = op.size /\ op'.data = op.data
      /\ op'.done = op.done + 1
  <2>1. op.done + 1 \in 0 .. StorageSize
    BY <1>1, <1>2
  <2> QED
    BY <1>1, <2>1 DEF OpType
<1>5. image' \in [Addr -> Byte]
  BY <1>1, <1>3 DEF TypeOK
<1>6. \A x \in Addr : image'[x] = IF x = at THEN ram[at] ELSE image[x]
  BY <1>1, <1>3 DEF TypeOK
<1>7. Doubtful(acked[at])
  BY <1>1, <1>3 DEF CallInv
<1>8. TypeOK'
  BY <1>1, <1>2, <1>4, <1>5 DEF TypeOK, Ranged
<1>9. FileInv' /\ FlashInv'
  BY <1>1, <1>4, <1>6, <1>7
  DEF FileInv, AckedBytesOnFile, MirrorHoldsAcked, TruncateInv, FlashInv, Ranged
<1>10. LoadInv'
  BY <1>1, <1>4 DEF LoadInv, Ranged
<1>11. ASSUME NEW x \in Addr, InOp(x)'
       PROVE  /\ Doubtful(acked'[x])
              /\ ram'[x] = op'.data[x - op'.addr]
              /\ x < op'.addr + op'.done => image'[x] = ram'[x]
  <2>1. InOp(x)
    BY <1>4, <1>11 DEF InOp
  <2>2. Doubtful(acked[x]) /\ ram[x] = op.data[x - op.addr]
    BY <1>1, <2>1 DEF CallInv
  <2>3. CASE x = at
    BY <1>1, <1>4, <1>6, <2>2, <2>3
  <2>4. CASE x # at
    <3>1. x < op.addr + (op.done + 1) => x < op.addr + op.done
      <4>1. x \in Int /\ x # op.addr + op.done
        BY <1>2, <2>4 DEF Addr
      <4> QED
        BY <1>2, <4>1
    <3>2. x < op.addr + op.done => image[x] = ram[x]
      BY <1>1, <2>1 DEF CallInv
    <3> QED
      BY <1>1, <1>4, <1>6, <2>2, <2>4, <3>1, <3>2
  <2> QED
    BY <2>3, <2>4
<1>12. CallInv'
  BY <1>1, <1>4, <1>11 DEF CallInv, Ranged
<1> QED
  BY <1>8, <1>9, <1>10, <1>12

(* RC_OK acknowledges the whole range.                                     *)
LEMMA PersistDoneStep ==
  ASSUME IInv, PersistDone
  PROVE  IInv'
<1> USE DEF IInv
<1>1. op' = Idle /\ op' \in OpType /\ LoadInv' /\ TruncateInv' /\ CallInv' /\ ~ Ranged'
  BY ReturnIdle DEF PersistDone
<1>2. /\ UNCHANGED <<initialized, ram, image, imageLen>>
      /\ op.step = "persist" /\ op.done = op.size
      /\ lastResult' = "RC_OK" /\ op \in OpType /\ Ranged
      /\ acked' = [x \in Addr |-> IF InOp(x) THEN op.data[x - op.addr] ELSE acked[x]]
  BY IdleCall DEF PersistDone, Return, TypeOK, Ranged, OpType
<1>3. /\ op.addr \in Nat /\ op.size \in Nat
      /\ op.data \in [0 .. op.size - 1 -> Byte]
      /\ initialized
  BY <1>2, GeometryAssumption DEF OpType, Addr, TypeOK, CallInv
<1>4. ASSUME NEW x \in Addr, InOp(x)
      PROVE  /\ acked'[x] = ram[x] /\ image[x] = ram[x]
             /\ op.data[x - op.addr] \in Byte
  <2>1. x < op.addr + op.done /\ x - op.addr \in 0 .. op.size - 1
    BY <1>2, <1>3, <1>4 DEF InOp, Addr
  <2> QED
    BY <1>2, <1>3, <1>4, <2>1 DEF CallInv
<1>5. \A x \in Addr : ~ InOp(x) => acked'[x] = acked[x]
  BY <1>2
<1>6. acked' \in [Addr -> {InDoubt, Torn} \cup Byte]
  BY <1>2, <1>4 DEF TypeOK
<1>7. TypeOK'
  BY <1>1, <1>2, <1>6, IdleCall DEF TypeOK, ReturnCode
<1>8. FlashInv'
  BY <1>2, <1>4, <1>5 DEF FlashInv
<1>9. FileInv'
  <2> SUFFICES ASSUME ReadFaults = FALSE
               PROVE  AckedBytesOnFile' /\ MirrorHoldsAcked'
    BY <1>1 DEF FileInv
  <2>1. imageLen = StorageSize /\ AckedBytesOnFile /\ MirrorHoldsAcked
    BY <1>3 DEF FileInv, MirrorHoldsAcked
  <2>2. ASSUME NEW x \in Addr
        PROVE  ~ Doubtful(acked'[x]) => image[x] = acked'[x] /\ ram[x] = acked'[x]
    BY <1>3, <1>4, <1>5, <2>1 DEF AckedBytesOnFile, MirrorHoldsAcked
  <2> QED
    BY <1>2, <1>3, <2>1, <2>2 DEF AckedBytesOnFile, MirrorHoldsAcked
<1> QED
  BY <1>1, <1>7, <1>8, <1>9

(* A crash forgets everything but the file.                                *)
LEMMA CrashStep ==
  ASSUME IInv, Crash
  PROVE  IInv'
<1>1. op' = Idle /\ op' \in OpType /\ LoadInv' /\ TruncateInv' /\ CallInv' /\ ~ Ranged'
  BY ReturnIdle DEF Crash
<1>2. TypeOK'
  BY <1>1, IdleCall DEF IInv, TypeOK, Crash, Return, ReturnCode, Byte
<1>3. FileInv' /\ FlashInv'
  BY <1>1 DEF IInv, FileInv, Crash, AckedBytesOnFile, MirrorHoldsAcked, FlashInv
<1> QED
  BY <1>1, <1>2, <1>3 DEF IInv

LEMMA NextIInv ==
  ASSUME IInv, [Next]_vars
  PROVE  IInv'
<1>1. CASE LoadFull
  BY <1>1, LoadFullStep
<1>2. ASSUME NEW n \in 0 .. StorageSize - 1, LoadShort(n)
      PROVE  IInv'
  BY <1>2, LoadShortStep
<1>3. CASE RewriteOpen \/ RewriteByte \/ RewriteDone
  BY <1>3, RewriteOpenStep, RewriteByteStep, RewriteDoneStep
<1>4. CASE RewriteFail
  BY <1>4, ResultOnly DEF RewriteFail, ReturnCode
<1>5. ASSUME NEW a \in Word, NEW n \in 1 .. StorageSize,
             NEW d \in [0 .. n - 1 -> Byte], ProgramStart(a, n, d)
      PROVE  IInv'
  BY <1>5, ProgramStartStep
<1>6. CASE ProgramChunk \/ ProgramPersist
  BY <1>6, ProgramChunkStep, ProgramPersistStep
<1>7. ASSUME NEW n \in 0 .. StorageSize - 1, ProgramRefused(n)
      PROVE  IInv'
  BY <1>7, ProgramRefusedStep
<1>8. ASSUME NEW a \in Word, NEW n \in Word, EraseStart(a, n)
      PROVE  IInv'
  BY <1>8, EraseStartStep
<1>9. ASSUME NEW a \in Word, NEW n \in Word, Read(a, n) \/ BadArguments(a, n)
      PROVE  IInv'
  <2>1. \E rc \in ReturnCode : Return(rc)
    BY <1>9 DEF Read, BadArguments, ReturnCode
  <2> QED
    BY <1>9, <2>1, ResultOnly DEF Read, BadArguments
<1>10. CASE PersistByte \/ PersistDone
  BY <1>10, PersistByteStep, PersistDoneStep
<1>11. CASE PersistFail
  <2>1. \E rc \in ReturnCode : Return(rc)
    BY <1>11 DEF PersistFail, ReturnCode
  <2> QED
    BY <1>11, <2>1, ResultOnly DEF PersistFail
<1>12. CASE NotInitialized
  BY <1>12, ResultOnly DEF NotInitialized, ReturnCode
<1>13. CASE Crash
  BY <1>13, CrashStep
<1>14. CASE UNCHANGED vars
  BY <1>14 DEF vars, IInv, TypeOK, FileInv, AckedBytesOnFile, MirrorHoldsAcked,
            TruncateInv, LoadInv, CallInv, FlashInv, Ranged, InOp
<1> QED
  BY <1>1, <1>2, <1>3, <1>4, <1>5, <1>6, <1>7, <1>8, <1>9, <1>10, <1>11, <1>12,
     <1>13, <1>14
  DEF Next

----------------------------------------------------------------------------
(* Theorems.                                                               *)

(* The inductive invariant of mirror, file and call in progress.           *)
THEOREM IInvHolds == Spec => []IInv
<1>1. IInv /\ [Next]_vars => IInv'
  BY NextIInv
<1> QED
  BY InitIInv, <1>1, PTL DEF Spec

(* No call accesses bytes outside the component, whatever the addresses    *)
(* and sizes given to it.                                                  *)
THEOREM TypeCorrect == Spec => []TypeOK
<1>1. IInv => TypeOK
  BY DEF IInv
<1> QED
  BY IInvHolds, <1>1, PTL

(* What a call acknowledged is in the file, through every later failure,   *)
(* crash and restart, until another call changes those bytes.              *)
THEOREM Durable ==
  ASSUME ReadFaults = FALSE
  PROVE  Spec => []AckedBytesOnFile
<1>1. IInv => AckedBytesOnFile
  BY DEF IInv, FileInv
<1> QED
  BY IInvHolds, <1>1, PTL

(* An initialized mirror answers with what was acknowledged.               *)
THEOREM MirrorCorrect ==
  ASSUME ReadFaults = FALSE
  PROVE  Spec => []MirrorHoldsAcked
<1>1. IInv => MirrorHoldsAcked
  BY DEF IInv, FileInv
<1> QED
  BY IInvHolds, <1>1, PTL

(* The file only changes while Init rewrites it or a call persists bytes.  *)
LEMMA ImageChanges ==
  ASSUME [Next]_vars
  PROVE  \/ UNCHANGED <<image, imageLen>>
         \/ RewriteOpen /\ UNCHANGED image
         \/ RewriteByte
         \/ PersistByte
         \/ ProgramPersist
BY DEF Next, vars, LoadFull, LoadShort, RewriteDone, RewriteFail, ProgramStart,
       ProgramChunk, ProgramRefused, EraseStart, PersistDone, PersistFail,
       NotInitialized, Read, BadArguments, Crash, RewriteOpen

(* The byte a call persists is the one it was asked to write, and lies in  *)
(* its range.                                                              *)
LEMMA PersistedByte ==
  ASSUME IInv, PersistByte
  PROVE  /\ op.addr + op.done \in Addr
         /\ InOp(op.addr + op.done)
         /\ ram[op.addr + op.done] = op.data[(op.addr + op.done) - op.addr]
         /\ image \in [Addr -> Byte]
         /\ image' = [image EXCEPT ![op.addr + op.done] = ram[op.addr + op.done]]
         /\ Ranged /\ initialized
<1> USE DEF IInv
<1>1. /\ op.step = "persist" /\ op.done < op.size /\ op \in OpType /\ Ranged
      /\ image' = [image EXCEPT ![op.addr + op.done] = ram[op.addr + op.done]]
  BY IdleCall DEF PersistByte, TypeOK, Ranged, OpType
<1>2. /\ op.addr \in Nat /\ op.size \in Nat /\ op.done \in Nat
      /\ op.addr + op.size <= StorageSize /\ StorageSize \in Nat
  BY <1>1, GeometryAssumption DEF OpType, Addr, TypeOK
<1>3. op.addr + op.done \in Addr /\ InOp(op.addr + op.done)
  BY <1>1, <1>2 DEF Addr, InOp
<1>4. ASSUME NEW x \in Addr, InOp(x)
      PROVE  initialized /\ ram[x] = op.data[x - op.addr]
  BY <1>1, <1>4 DEF CallInv
<1>5. /\ initialized
      /\ ram[op.addr + op.done] = op.data[(op.addr + op.done) - op.addr]
  BY <1>3, <1>4
<1> QED
  BY <1>1, <1>3, <1>5 DEF TypeOK

(* Bytes a refused program left in the mirror never reach the file.        *)
THEOREM OnlyRequested == Spec => OnlyRequestedBytesChange
<1>1. ASSUME IInv, [Next]_vars, NEW x \in Addr, image'[x] # image[x]
      PROVE  op.name = "load" \/ (InOp(x) /\ image'[x] = op.data[x - op.addr])
  <2>1. RewriteByte \/ PersistByte
    BY <1>1, ImageChanges DEF ProgramPersist
  <2>2. CASE RewriteByte
    BY <2>2 DEF RewriteByte
  <2>3. CASE PersistByte
    <3>1. x = op.addr + op.done
      BY <1>1, <2>3, PersistedByte
    <3> QED
      BY <1>1, <2>3, <3>1, PersistedByte
  <2> QED
    BY <2>1, <2>2, <2>3
<1>2. IInv /\ [Next]_vars =>
        [\A x \in Addr : image'[x] # image[x] =>
           op.name = "load" \/ (InOp(x) /\ image'[x] = op.data[x - op.addr])]_vars
  BY <1>1
<1> QED
  BY IInvHolds, <1>2, PTL DEF Spec, OnlyRequestedBytesChange

(* A program of a Flash clears bits only, except over a failed erase.      *)
THEOREM FlashRule == Spec => ProgramOnlyClearsBits
<1>1. ASSUME IInv, [Next]_vars, EraseRequired, op.name = "program", NEW x \in Addr
      PROVE  acked[x] = Torn \/ image'[x] \subseteq image[x]
  <2>1. CASE PersistByte
    BY <1>1, <2>1, PersistedByte DEF IInv, FlashInv
  <2>2. CASE image' = image
    BY <2>2
  <2> QED
    BY <1>1, <2>1, <2>2, ImageChanges DEF RewriteByte, ProgramPersist
<1>2. IInv /\ [Next]_vars =>
        [EraseRequired /\ op.name = "program" =>
           \A x \in Addr : acked[x] = Torn \/ image'[x] \subseteq image[x]]_vars
  BY <1>1
<1> QED
  BY IInvHolds, <1>2, PTL DEF Spec, ProgramOnlyClearsBits

(* A complete image is never truncated.                                    *)
THEOREM ImageKept ==
  ASSUME ReadFaults = FALSE
  PROVE  Spec => FullImageKept
<1>1. ASSUME IInv, [Next]_vars, imageLen = StorageSize
      PROVE  imageLen' = StorageSize
  <2>1. ~ RewriteOpen /\ ~ RewriteByte
    BY <1>1, GeometryAssumption DEF RewriteOpen, RewriteByte, IInv, FileInv, TruncateInv
  <2> QED
    BY <1>1, <2>1, ImageChanges DEF PersistByte, ProgramPersist
<1>2. IInv /\ [Next]_vars => [imageLen = StorageSize => imageLen' = StorageSize]_vars
  BY <1>1
<1> QED
  BY IInvHolds, <1>2, PTL DEF Spec, FullImageKept

(* All addresses from c to the end of its page are on one page.            *)
LEMMA SamePage ==
  ASSUME NEW c \in Nat, NEW p \in Nat \ {0},
         NEW x \in c .. c + (p - (c % p)) - 1
  PROVE  x \div p = c \div p
<1> DEFINE q == c \div p
           r == c % p
<1>1. q \in Int /\ r \in 0 .. p - 1 /\ c = p * q + r
  OBVIOUS
<1>2. x \in Int /\ p * q <= x /\ x < p * q + p
  BY <1>1
<1>3. x \div p = q
  <2>1. /\ x \div p \in Int /\ x % p \in 0 .. p - 1
        /\ x = p * (x \div p) + (x % p)
    BY <1>2
  <2> DEFINE k == x \div p
             m == x % p
  <2> HIDE DEF k, m, q, r
  <2>2. p * (k - q) < p /\ p * (k - q) > 0 - p
    BY <1>1, <1>2, <2>1 DEF k, m
  <2>3. k - q < 1 /\ k - q > 0 - 1
    BY <1>1, <2>1, <2>2 DEF k
  <2> QED
    BY <1>1, <2>1, <2>3 DEF k
<1> QED
  BY <1>3

(* One chunk of a program changes bytes of one page only.                  *)
THEOREM OnePage == Spec => ChunkWithinPage
<1>1. ASSUME IInv, [Next]_vars, NEW x \in Addr, NEW y \in Addr,
             op.step = "chunk", op'.step = "chunk",
             {x, y} \subseteq op.addr + op.done .. op.addr + op'.done - 1
      PROVE  x \div PageSize = y \div PageSize
  <2>1. /\ op \in OpType /\ op.addr \in Nat /\ op.size \in Nat /\ op.done \in Nat
        /\ StorageSize \in Nat /\ PageSize \in Nat \ {0}
    <3>1. op \in OpType
      BY <1>1 DEF IInv, TypeOK
    <3> QED
      BY <3>1, GeometryAssumption DEF OpType, Addr
  <2>2. op # Idle /\ op' # Idle
    BY <1>1 DEF Idle, Call
  <2>3. op.name = "program"
    <3>1. op.name \in {"none", "load", "program", "erase"}
      BY <2>1 DEF OpType
    <3>2. /\ op.name = "none" => op = Idle
          /\ op.name = "load" => op.step = "open" \/ op.step = "write"
          /\ op.name = "erase" => op.step = "persist"
      BY <1>1 DEF IInv, TypeOK
    <3> QED
      BY <1>1, <2>2, <3>1, <3>2
  <2>4. ProgramChunk \/ op' = op
    <3>1. /\ ~ LoadFull /\ ~ NotInitialized
          /\ \A n : ~ LoadShort(n) /\ ~ ProgramRefused(n)
          /\ \A a, n : ~ EraseStart(a, n) /\ ~ Read(a, n) /\ ~ BadArguments(a, n)
          /\ \A a, n, d : ~ ProgramStart(a, n, d)
      BY <2>2 DEF LoadFull, LoadShort, ProgramStart, ProgramRefused, EraseStart,
                  NotInitialized, Read, BadArguments, Return
    <3>2. /\ ~ RewriteOpen /\ ~ RewriteByte /\ ~ RewriteDone /\ ~ RewriteFail
          /\ ~ PersistByte /\ ~ PersistDone /\ ~ PersistFail /\ ~ Crash
      BY <1>1, <2>2, <2>3
      DEF RewriteOpen, RewriteByte, RewriteDone, RewriteFail, PersistByte,
          PersistDone, PersistFail, Crash, Return
    <3>3. ~ ProgramPersist
      <4>1. ProgramPersist => op'.step = "persist"
        BY <2>1 DEF ProgramPersist, OpType
      <4> QED
        BY <1>1, <4>1
    <3>4. UNCHANGED vars => op' = op
      BY DEF vars
    <3> QED
      BY <1>1, <3>1, <3>2, <3>3, <3>4 DEF Next
  <2>5. CASE op' = op
    BY <1>1, <2>1, <2>5
  <2>6. CASE ProgramChunk
    <3>1. /\ op.done < op.size
          /\ op'.done = op.done + ChunkSize
      BY <2>1, <2>6 DEF ProgramChunk, OpType
    <3>2. ChunkSize \in Nat
      BY <2>1, <3>1, ChunkBounds
    <3> DEFINE c == op.addr + op.done
    <3>3. c \in Nat /\ c % PageSize \in 0 .. PageSize - 1
      BY <2>1
    <3>4. ChunkSize <= PageSize - (c % PageSize)
      BY <2>1, <3>1, <3>3 DEF ChunkSize
    <3>5. /\ x \in c .. c + (PageSize - (c % PageSize)) - 1
          /\ y \in c .. c + (PageSize - (c % PageSize)) - 1
      BY <1>1, <2>1, <3>1, <3>2, <3>3, <3>4
    <3> HIDE DEF c
    <3> QED
      BY <2>1, <3>3, <3>5, SamePage
  <2> QED
    BY <2>4, <2>5, <2>6
<1>2. IInv /\ [Next]_vars =>
        [\A x, y \in Addr :
           (/\ op.step = "chunk" /\ op'.step = "chunk"
            /\ {x, y} \subseteq op.addr + op.done .. op.addr + op'.done - 1)
           => x \div PageSize = y \div PageSize]_vars
  BY <1>1
<1> QED
  BY IInvHolds, <1>2, PTL DEF Spec, ChunkWithinPage
=============================================================================
