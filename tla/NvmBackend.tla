----------------------------- MODULE NvmBackend -----------------------------
(***************************************************************************)
(* The file-backed non-volatile memory of the simulator                    *)
(* (pc_sim_fmknvm_backend.c).  A RAM mirror is loaded from an image file,  *)
(* reads are served by the mirror, and programs and erases change the      *)
(* mirror first and then write the range to the file.  A call is split     *)
(* where a file access can fail or the process can be killed: the file     *)
(* survives with a prefix of the bytes, the mirror does not.               *)
(***************************************************************************)
EXTENDS Integers

CONSTANTS
  Bit,            \* the bits of a byte
  StorageSize,    \* bytes of the selected profile
  EraseUnit,      \* erase granularity
  ProgramUnit,    \* alignment of a Flash program
  PageSize,       \* write page
  EraseRequired,  \* TRUE for the Flash profiles, FALSE for the EEPROM ones
  WordMod,        \* 2^32: the addresses and sizes are t_uint32
  MaxTransfer,    \* 0xFFFF: longest read
  ReadFaults,     \* TRUE when fopen or fread of an existing file may fail
  InDoubt,        \* history: last program of the byte did not return RC_OK,
                  \*   or no call ever told the byte to a caller
  Torn            \* history: last erase of the byte did not return RC_OK

ASSUME GeometryAssumption ==
  /\ StorageSize \in Nat \ {0}
  /\ EraseUnit \in Nat \ {0}
  /\ ProgramUnit \in Nat \ {0}
  /\ PageSize \in Nat \ {0}
  /\ WordMod \in Nat /\ StorageSize < WordMod
  /\ MaxTransfer \in Nat
  /\ EraseRequired \in BOOLEAN /\ ReadFaults \in BOOLEAN

ASSUME HistoryAssumption ==
  InDoubt # Torn /\ \A v \in SUBSET Bit : v # InDoubt /\ v # Torn

VARIABLES
  initialized,   \* isInitialized_b
  lastResult,    \* lastResult_e
  ram,           \* g_PCSIM_FMKNVM_Storage_au8
  image,         \* bytes of the image file (those below imageLen count)
  imageLen,      \* length of the image file, 0 when absent
  op,            \* the call being executed
  acked          \* history: what the callers may rely on, per byte

vars == <<initialized, lastResult, ram, image, imageLen, op, acked>>

Addr == 0 .. StorageSize - 1
Byte == SUBSET Bit
Erased == Bit
Word == 0 .. WordMod - 1

Doubtful(v) == v = InDoubt \/ v = Torn

ReturnCode == {"RC_OK", "RC_ERROR_PARAM_INVALID",
               "RC_ERROR_INSTANCE_NOT_INITIALIZED",
               "RC_ERROR_NVM_BACKEND_READ", "RC_ERROR_NVM_BACKEND_PROGRAM",
               "RC_ERROR_NVM_BACKEND_ERASE"}

(* done counts the bytes the current step of the call has dealt with.      *)
Call(name, step, a, n, d) ==
  [name |-> name, step |-> step, addr |-> a, size |-> n, data |-> d, done |-> 0]

Idle == Call("none", "none", 0, 0, [i \in {} |-> {}])

InOp(x) == x \in op.addr .. op.addr + op.size - 1

Return(rc) == lastResult' = rc /\ op' = Idle

----------------------------------------------------------------------------
(* Argument checks.                                                        *)

(* Seeded fault of IsRangeValid: the end address is only compared with the *)
(* size of the component, not with the first address.                      *)
IsRangeValidNoWrapCheck(a, n) ==
  n # 0 /\ (a + n) % WordMod <= StorageSize

(* The end address wraps at 32 bits.                                       *)
IsRangeValid(a, n) ==
  LET end == (a + n) % WordMod
  IN  n # 0 /\ end >= a /\ end <= StorageSize

ProgramArgsValid(a, n) ==
  /\ IsRangeValid(a, n)
  /\ EraseRequired => a % ProgramUnit = 0

EraseArgsValid(a, n) ==
  /\ IsRangeValid(a, n)
  /\ EraseRequired
  /\ a % EraseUnit = 0
  /\ n % EraseUnit = 0

----------------------------------------------------------------------------
(* Init: load the image, or create it.                                     *)

(* Seeded fault of Mirror: the last byte read is not kept.                 *)
MirrorDropsLast(n) == [x \in Addr |-> IF x + 1 < n THEN image[x] ELSE Erased]

(* Contents of the mirror when the first n bytes of the file were read.    *)
Mirror(n) == [x \in Addr |-> IF x < n THEN image[x] ELSE Erased]

(* What a caller may rely on once Init returns RC_OK: what the mirror then *)
(* says, except where an earlier call was already acknowledged.            *)
Relied(m) == [x \in Addr |-> IF Doubtful(acked[x]) THEN m[x] ELSE acked[x]]

(* n bytes of the file are read: all of them, unless reads may fail.       *)
ReadSize(n) == IF ReadFaults THEN n \in 0 .. imageLen ELSE n = imageLen

LoadFull ==
  /\ op = Idle
  /\ ReadSize(StorageSize)
  /\ ram' = Mirror(StorageSize)
  /\ initialized' = TRUE
  /\ acked' = Relied(Mirror(StorageSize))
  /\ Return("RC_OK")
  /\ UNCHANGED <<image, imageLen>>

LoadShort(n) ==
  /\ op = Idle
  /\ ReadSize(n)
  /\ n < StorageSize
  /\ ram' = Mirror(n)
  /\ initialized' = FALSE
  /\ op' = Call("load", "open", 0, 0, Idle.data)
  /\ UNCHANGED <<lastResult, image, imageLen, acked>>

(* fopen "wb" truncates the file.                                          *)
RewriteOpen ==
  /\ op.name = "load" /\ op.step = "open"
  /\ imageLen' = 0
  /\ op' = [op EXCEPT !.step = "write"]
  /\ UNCHANGED <<initialized, lastResult, ram, image, acked>>

RewriteByte ==
  /\ op.name = "load" /\ op.step = "write"
  /\ imageLen < StorageSize
  /\ image' = [image EXCEPT ![imageLen] = ram[imageLen]]
  /\ imageLen' = imageLen + 1
  /\ UNCHANGED <<initialized, lastResult, ram, op, acked>>

RewriteDone ==
  /\ op.name = "load" /\ op.step = "write"
  /\ imageLen = StorageSize
  /\ initialized' = TRUE
  /\ acked' = Relied(ram)
  /\ Return("RC_OK")
  /\ UNCHANGED <<ram, image, imageLen>>

(* fopen, fwrite or fclose fails.                                          *)
RewriteFail ==
  /\ op.name = "load"
  /\ Return("RC_ERROR_NVM_BACKEND_READ")
  /\ UNCHANGED <<initialized, ram, image, imageLen, acked>>

----------------------------------------------------------------------------
(* Program.                                                                *)

(* The caller can rely on none of these bytes until the call returns.      *)
Doubt(a, n) ==
  [x \in Addr |-> IF x \in a .. a + n - 1 /\ acked[x] # Torn
                  THEN InDoubt ELSE acked[x]]

ProgramStart(a, n, d) ==
  /\ op = Idle
  /\ initialized
  /\ ProgramArgsValid(a, n)
  /\ op' = Call("program", "chunk", a, n, d)
  /\ acked' = Doubt(a, n)
  /\ UNCHANGED <<initialized, lastResult, ram, image, imageLen>>

(* Bytes of the next chunk: up to the end of the page or of the data.      *)
ChunkSize ==
  LET room == PageSize - ((op.addr + op.done) % PageSize)
      left == op.size - op.done
  IN  IF left > room THEN room ELSE left

(* Seeded fault of ByteAllowed: Flash bytes may be rewritten.              *)
ByteAllowedAlways(i) == TRUE

(* Flash only clears bits.                                                 *)
ByteAllowed(i) ==
  EraseRequired => op.data[op.done + i] \subseteq ram[op.addr + op.done + i]

(* The mirror once the next n bytes of the data are stored.                *)
Stored(n) ==
  LET first == op.addr + op.done
  IN  [x \in Addr |-> IF x \in first .. first + n - 1
                      THEN op.data[x - op.addr] ELSE ram[x]]

(* Seeded fault of ProgramChunk: the page limit is ignored.                *)
ProgramWhole ==
  /\ op.name = "program" /\ op.step = "chunk"
  /\ op.done < op.size
  /\ \A i \in 0 .. op.size - op.done - 1 : ByteAllowed(i)
  /\ ram' = Stored(op.size - op.done)
  /\ op' = [op EXCEPT !.done = op.size]
  /\ UNCHANGED <<initialized, lastResult, image, imageLen, acked>>

ProgramChunk ==
  /\ op.name = "program" /\ op.step = "chunk"
  /\ op.done < op.size
  /\ \A i \in 0 .. ChunkSize - 1 : ByteAllowed(i)
  /\ ram' = Stored(ChunkSize)
  /\ op' = [op EXCEPT !.done = @ + ChunkSize]
  /\ UNCHANGED <<initialized, lastResult, image, imageLen, acked>>

(* The first byte that is not allowed ends the call; the bytes before it   *)
(* stay in the mirror and are not written to the file.                     *)
ProgramRefused(n) ==
  /\ op.name = "program" /\ op.step = "chunk"
  /\ op.done < op.size
  /\ n \in 0 .. ChunkSize - 1
  /\ \A i \in 0 .. n - 1 : ByteAllowed(i)
  /\ ~ ByteAllowed(n)
  /\ ram' = Stored(n)
  /\ Return("RC_ERROR_NVM_BACKEND_PROGRAM")
  /\ UNCHANGED <<initialized, image, imageLen, acked>>

(* Seeded fault of ProgramPersist: the file is opened for writing from     *)
(* scratch instead of for update.                                          *)
ProgramPersistTruncates ==
  /\ op.name = "program" /\ op.step = "chunk"
  /\ op.done = op.size
  /\ op' = [op EXCEPT !.step = "persist", !.done = 0]
  /\ imageLen' = 0
  /\ UNCHANGED <<initialized, lastResult, ram, image, acked>>

ProgramPersist ==
  /\ op.name = "program" /\ op.step = "chunk"
  /\ op.done = op.size
  /\ op' = [op EXCEPT !.step = "persist", !.done = 0]
  /\ UNCHANGED <<initialized, lastResult, ram, image, imageLen, acked>>

----------------------------------------------------------------------------
(* Erase.                                                                  *)

EraseStart(a, n) ==
  /\ op = Idle
  /\ initialized
  /\ EraseArgsValid(a, n)
  /\ ram' = [x \in Addr |-> IF x \in a .. a + n - 1 THEN Erased ELSE ram[x]]
  /\ op' = Call("erase", "persist", a, n, [i \in 0 .. n - 1 |-> Erased])
  /\ acked' = [x \in Addr |-> IF x \in a .. a + n - 1 THEN Torn ELSE acked[x]]
  /\ UNCHANGED <<initialized, lastResult, image, imageLen>>

----------------------------------------------------------------------------
(* PersistRange: the range of the mirror is written to the open file.      *)

(* Seeded fault of PersistByte: the write is not positioned at the range.  *)
PersistByteNoSeek ==
  /\ op.step = "persist"
  /\ op.done < op.size
  /\ image' = [image EXCEPT ![op.done] = ram[op.addr + op.done]]
  /\ op' = [op EXCEPT !.done = @ + 1]
  /\ UNCHANGED <<initialized, lastResult, ram, imageLen, acked>>

PersistByte ==
  /\ op.step = "persist"
  /\ op.done < op.size
  /\ image' = [image EXCEPT ![op.addr + op.done] = ram[op.addr + op.done]]
  /\ op' = [op EXCEPT !.done = @ + 1]
  /\ UNCHANGED <<initialized, lastResult, ram, imageLen, acked>>

(* Seeded fault of PersistDone: the last byte may still be unwritten.      *)
PersistDoneEarly ==
  /\ op.step = "persist"
  /\ op.done + 1 >= op.size
  /\ acked' = [x \in Addr |-> IF InOp(x) THEN op.data[x - op.addr] ELSE acked[x]]
  /\ Return("RC_OK")
  /\ UNCHANGED <<initialized, ram, image, imageLen>>

PersistDone ==
  /\ op.step = "persist"
  /\ op.done = op.size
  /\ acked' = [x \in Addr |-> IF InOp(x) THEN op.data[x - op.addr] ELSE acked[x]]
  /\ Return("RC_OK")
  /\ UNCHANGED <<initialized, ram, image, imageLen>>

(* fopen, fseek, fwrite, fflush or fclose fails, at any byte.              *)
PersistFail ==
  /\ op.step = "persist"
  /\ Return(IF op.name = "erase" THEN "RC_ERROR_NVM_BACKEND_ERASE"
            ELSE "RC_ERROR_NVM_BACKEND_PROGRAM")
  /\ UNCHANGED <<initialized, ram, image, imageLen, acked>>

----------------------------------------------------------------------------
(* Calls that only return a result.                                        *)

NotInitialized ==
  /\ op = Idle
  /\ ~ initialized
  /\ Return("RC_ERROR_INSTANCE_NOT_INITIALIZED")
  /\ UNCHANGED <<initialized, ram, image, imageLen, acked>>

(* A read copies bytes of the mirror, a refused call copies none.          *)
Read(a, n) ==
  /\ op = Idle
  /\ initialized
  /\ Return(IF IsRangeValid(a, n) /\ n <= MaxTransfer THEN "RC_OK"
            ELSE "RC_ERROR_PARAM_INVALID")
  /\ UNCHANGED <<initialized, ram, image, imageLen, acked>>

BadArguments(a, n) ==
  /\ op = Idle
  /\ initialized
  /\ ~ ProgramArgsValid(a, n) \/ ~ EraseArgsValid(a, n)
  /\ Return("RC_ERROR_PARAM_INVALID")
  /\ UNCHANGED <<initialized, ram, image, imageLen, acked>>

----------------------------------------------------------------------------
(* The process is killed and started again: only the file remains.         *)
Crash ==
  /\ initialized' = FALSE
  /\ ram' = [x \in Addr |-> {}]
  /\ Return("RC_OK")
  /\ UNCHANGED <<image, imageLen, acked>>

Init ==
  /\ initialized = FALSE
  /\ lastResult = "RC_OK"
  /\ ram = [x \in Addr |-> {}]
  /\ image \in [Addr -> Byte]
  /\ imageLen \in 0 .. StorageSize
  /\ op = Idle
  /\ acked = [x \in Addr |-> InDoubt]

Next ==
  \/ LoadFull
  \/ \E n \in 0 .. StorageSize - 1 : LoadShort(n)
  \/ RewriteOpen \/ RewriteByte \/ RewriteDone \/ RewriteFail
  \/ \E a \in Word, n \in 1 .. StorageSize : \E d \in [0 .. n - 1 -> Byte] :
       ProgramStart(a, n, d)
  \/ ProgramChunk
  \/ \E n \in 0 .. StorageSize - 1 : ProgramRefused(n)
  \/ ProgramPersist
  \/ \E a \in Word, n \in Word :
       EraseStart(a, n) \/ Read(a, n) \/ BadArguments(a, n)
  \/ PersistByte \/ PersistDone \/ PersistFail
  \/ NotInitialized
  \/ Crash

Spec == Init /\ [][Next]_vars

----------------------------------------------------------------------------
(* Properties.                                                             *)

(* The shape of a call in progress: it ranges over bytes of the component. *)
OpType ==
  [name : {"none", "load", "program", "erase"},
   step : {"none", "open", "write", "chunk", "persist"},
   addr : Addr, size : 0 .. StorageSize, done : 0 .. StorageSize,
   data : UNION {[0 .. n - 1 -> Byte] : n \in 0 .. StorageSize}]

Ranged == op.name = "program" \/ op.name = "erase"

(* Every access of a call stays inside the mirror and the image: a range   *)
(* whose 32-bit end address wraps is never accepted.                       *)
TypeOK ==
  /\ initialized \in BOOLEAN /\ lastResult \in ReturnCode
  /\ ram \in [Addr -> Byte]
  /\ image \in [Addr -> Byte] /\ imageLen \in 0 .. StorageSize
  /\ acked \in [Addr -> {InDoubt, Torn} \cup Byte]
  /\ op \in OpType
  /\ op.name = "none" => op = Idle
  /\ op.name = "load" => op.step = "open" \/ op.step = "write"
  /\ op.name = "program" => op.step = "chunk" \/ op.step = "persist"
  /\ op.name = "erase" => op.step = "persist"
  /\ Ranged => /\ op.size # 0 /\ op.addr + op.size <= StorageSize
               /\ op.done <= op.size
               /\ op.data \in [0 .. op.size - 1 -> Byte]

(* "RC_OK Bytes and their persistent file were updated": what a program,   *)
(* an erase or a load acknowledged is in the file, whatever call fails or  *)
(* is cut off by a crash later, until another call changes those bytes.    *)
AckedBytesOnFile ==
  \A x \in Addr :
    ~ Doubtful(acked[x]) => imageLen = StorageSize /\ image[x] = acked[x]

(* A read never answers with anything else than what was acknowledged:     *)
(* the mirror may differ from the file only where the last call failed.    *)
MirrorHoldsAcked ==
  initialized => /\ imageLen = StorageSize
                 /\ \A x \in Addr : ~ Doubtful(acked[x]) => ram[x] = acked[x]

(* "Flash profiles only permit one-to-zero transitions": a program never   *)
(* sets a bit in the image, except where an erase failed before it (the    *)
(* mirror is then already erased and the file is not).                     *)
ProgramOnlyClearsBits ==
  [][EraseRequired /\ op.name = "program" =>
       \A x \in Addr : acked[x] = Torn \/ image'[x] \subseteq image[x]]_vars

(* Bytes that a refused program left in the mirror never reach the file:   *)
(* outside Init, a byte of the file only ever takes the value the running  *)
(* call was asked to write there.                                          *)
OnlyRequestedBytesChange ==
  [][\A x \in Addr : image'[x] # image[x] =>
       op.name = "load" \/ (InOp(x) /\ image'[x] = op.data[x - op.addr])]_vars

(* "Create an erased image when absent": a complete image is never         *)
(* truncated.                                                              *)
FullImageKept ==
  [][imageLen = StorageSize => imageLen' = StorageSize]_vars

(* "decoupent chaque programmation aux frontieres de pages": one chunk of  *)
(* a program changes bytes of one page only.                               *)
ChunkWithinPage ==
  [][\A x, y \in Addr :
       (/\ op.step = "chunk" /\ op'.step = "chunk"
        /\ {x, y} \subseteq op.addr + op.done .. op.addr + op'.done - 1)
       => x \div PageSize = y \div PageSize]_vars
=============================================================================
