--------------------------- MODULE CanRxRegistry ---------------------------
(***************************************************************************)
(* The CAN receive path of the simulator (pc_sim_fmk_can.c): a table of    *)
(* registrations, the injection of a frame received by UDP, and the two    *)
(* calls a broker uses to learn the registrations.  An injection scans the *)
(* table and calls the application back from inside the scan; a callback   *)
(* may register again, and so changes the table that is being scanned.     *)
(* Identifiers and masks are sets of bits.                                 *)
(***************************************************************************)
EXTENDS Naturals, Sequences, FiniteSets

CONSTANTS
  Bit,           \* bits of an identifier
  Node,          \* CAN nodes
  Callback,      \* application callbacks
  NoCallback,    \* NULL_FUNCTION
  Entry,         \* the registrations the application may ask for
  Free,          \* content of a slot that is not used
  NoFrame,       \* no injection in progress
  RegMax,        \* PCSIM_CAN_RX_REG_MAX: slots of the table
  BurstMax,      \* PCSIM_CAN_RX_BURST_MAX: longest answer to a dump
  ReplyMax       \* registrations that fit in the buffer of an answer

ASSUME RegMaxAssumption == 
  RegMax \in Nat \ {0} /\ BurstMax \in Nat \ {0} /\ ReplyMax \in Nat \ {0}

ASSUME EntryAssumption ==
  /\ Entry \subseteq
       [node : Node, id : SUBSET Bit, ext : BOOLEAN,
        purpose : {"data", "remote"}, mask : SUBSET Bit,
        cb : Callback \cup {NoCallback}]
  /\ Free \notin Entry

Frame == [node : Node, id : SUBSET Bit, ext : BOOLEAN]

ASSUME NoFrameAssumption == \A f \in Frame : f # NoFrame

Slot == 0 .. RegMax - 1

VARIABLES
  reg,           \* [Slot -> Entry or Free]
  frame,         \* the frame being injected, or NoFrame
  idx,           \* slot the scan has reached
  inCallback,    \* TRUE while the callback of slot idx runs
  calls,         \* history: slots called back for the current frame
  ret            \* what the last call returned

vars == <<reg, frame, idx, inCallback, calls, ret>>

Used(i) == reg[i] # Free
Count == Cardinality({i \in Slot : Used(i)})

Init ==
  /\ reg = [i \in Slot |-> Free]
  /\ frame = NoFrame
  /\ idx = 0
  /\ inCallback = FALSE
  /\ calls = {}
  /\ ret = "RC_OK"

----------------------------------------------------------------------------
(* Registration.  The application calls it between injections, or from a   *)
(* callback of the injection in progress.                                  *)

AppRuns == frame = NoFrame \/ inCallback

(* Seeded fault of SameRegistration: the mask is not compared.             *)
SameRegistrationNoMask(e, g) ==
  e # Free /\ [e EXCEPT !.mask = {}] = [g EXCEPT !.mask = {}]

(* Every field of the registration takes part in the comparison.           *)
SameRegistration(e, g) == e = g

Registered(e) == \E i \in Slot : Used(i) /\ SameRegistration(reg[i], e)

(* Seeded fault of FirstFree: the last free slot.                          *)
LastFree(i) == ~ Used(i) /\ \A j \in Slot : j > i => Used(j)

FirstFree(i) == ~ Used(i) /\ \A j \in Slot : j < i => Used(j)

(* Seeded fault of ConfigureRx: no search for duplicates.                  *)
ConfigureRxAlways(e, i) ==
  /\ AppRuns
  /\ FirstFree(i)
  /\ reg' = [reg EXCEPT ![i] = e]
  /\ ret' = "RC_OK"
  /\ UNCHANGED <<frame, idx, inCallback, calls>>

ConfigureRx(e, i) ==
  /\ AppRuns
  /\ ~ Registered(e)
  /\ FirstFree(i)
  /\ reg' = [reg EXCEPT ![i] = e]
  /\ ret' = "RC_OK"
  /\ UNCHANGED <<frame, idx, inCallback, calls>>

ConfigureRxAgain(e) ==
  /\ AppRuns
  /\ Registered(e)
  /\ ret' = "RC_WARNING_ALREADY_CONFIGURED"
  /\ UNCHANGED <<reg, frame, idx, inCallback, calls>>

ConfigureRxFull(e) ==
  /\ AppRuns
  /\ ~ Registered(e)
  /\ \A i \in Slot : Used(i)
  /\ ret' = "RC_ERROR_LIMIT_REACHED"
  /\ UNCHANGED <<reg, frame, idx, inCallback, calls>>

----------------------------------------------------------------------------
(* Injection.                                                              *)

(* Seeded fault of Matches: the identifier of the registration is not      *)
(* masked.                                                                 *)
MatchesHalfMasked(e, f) ==
  /\ e.node = f.node
  /\ e.ext = f.ext
  /\ e.purpose = "data"
  /\ f.id \cap e.mask = e.id
  /\ e.cb # NoCallback

Matches(e, f) ==
  /\ e.node = f.node
  /\ e.ext = f.ext
  /\ e.purpose = "data"
  /\ f.id \cap e.mask = e.id \cap e.mask
  /\ e.cb # NoCallback

Hit == Used(idx) /\ Matches(reg[idx], frame)

(* dlc > 8 or no data.                                                     *)
InjectInvalid ==
  /\ frame = NoFrame
  /\ ret' = "RC_ERROR_PARAM_INVALID"
  /\ UNCHANGED <<reg, frame, idx, inCallback, calls>>

InjectStart(f) ==
  /\ frame = NoFrame
  /\ frame' = f
  /\ idx' = 0
  /\ calls' = {}
  /\ UNCHANGED <<reg, inCallback, ret>>

InjectCall ==
  /\ frame # NoFrame /\ ~ inCallback
  /\ idx < RegMax
  /\ Hit
  /\ inCallback' = TRUE
  /\ calls' = calls \cup {idx}
  /\ UNCHANGED <<reg, frame, idx, ret>>

(* Seeded fault of CallbackReturn: the slot after the one called is passed *)
(* over.                                                                   *)
CallbackReturnPassNext ==
  /\ inCallback
  /\ inCallback' = FALSE
  /\ idx' = idx + 2
  /\ UNCHANGED <<reg, frame, calls, ret>>

(* Seeded fault of CallbackReturn: after a call the slot is tried again.   *)
CallbackReturnSameSlot ==
  /\ inCallback
  /\ inCallback' = FALSE
  /\ UNCHANGED <<reg, frame, idx, calls, ret>>

CallbackReturn ==
  /\ inCallback
  /\ inCallback' = FALSE
  /\ idx' = idx + 1
  /\ UNCHANGED <<reg, frame, calls, ret>>

InjectSkip ==
  /\ frame # NoFrame /\ ~ inCallback
  /\ idx < RegMax
  /\ ~ Hit
  /\ idx' = idx + 1
  /\ UNCHANGED <<reg, frame, inCallback, calls, ret>>

(* Seeded fault of InjectEnd: the scan stops after the first call.         *)
InjectEndFirst ==
  /\ frame # NoFrame /\ ~ inCallback
  /\ idx = RegMax \/ calls # {}
  /\ frame' = NoFrame
  /\ ret' = "RC_OK"
  /\ UNCHANGED <<reg, idx, inCallback, calls>>

InjectEnd ==
  /\ frame # NoFrame /\ ~ inCallback
  /\ idx = RegMax
  /\ frame' = NoFrame
  /\ ret' = "RC_OK"
  /\ UNCHANGED <<reg, idx, inCallback, calls>>

Next ==
  \/ \E e \in Entry :
       ConfigureRxAgain(e) \/ ConfigureRxFull(e) \/ \E i \in Slot : ConfigureRx(e, i)
  \/ \E f \in Frame : InjectStart(f)
  \/ InjectInvalid \/ InjectCall \/ CallbackReturn \/ InjectSkip \/ InjectEnd

Spec == Init /\ [][Next]_vars

(* The scan is one loop of one thread, and callbacks return.               *)
Fairness == WF_vars(InjectCall \/ CallbackReturn \/ InjectSkip \/ InjectEnd)

FairSpec == Spec /\ Fairness

----------------------------------------------------------------------------
(* What a broker learns by DUMP_CAN_RX_REG_BURST.                          *)

(* The used slot that has k used slots before it, as the scan of           *)
(* PCSIM_GetCanRxRegAt finds it.                                           *)
RegAt(k) ==
  CHOOSE i \in Slot :
    Used(i) /\ Cardinality({j \in Slot : j < i /\ Used(j)}) = k

Least(a, b) == IF a < b THEN a ELSE b

(* How many registrations a dump of n looks for: between 1 and BurstMax.   *)
Wanted(n) == IF n < 1 THEN 1 ELSE Least(n, BurstMax)

(* Seeded fault of DumpSize: the last registration wanted is left out.     *)
DumpSizeOneLess(n) == Least(Least(Count, Wanted(n) - 1), ReplyMax)

(* Number of whole registrations in the answer to a dump of n.             *)
DumpSize(n) == Least(Least(Count, Wanted(n)), ReplyMax)

Dump(n) == {reg[RegAt(k)] : k \in 0 .. DumpSize(n) - 1}

----------------------------------------------------------------------------
(* Properties.                                                             *)

(* Types; the scan stays inside the table, and a callback runs only for a  *)
(* frame, at a slot.                                                       *)
TypeOK ==
  /\ reg \in [Slot -> Entry \cup {Free}]
  /\ frame \in Frame \cup {NoFrame}
  /\ idx \in 0 .. RegMax
  /\ inCallback \in BOOLEAN
  /\ inCallback => frame # NoFrame /\ idx < RegMax
  /\ calls \subseteq Slot
  /\ ret \in {"RC_OK", "RC_WARNING_ALREADY_CONFIGURED",
              "RC_ERROR_LIMIT_REACHED", "RC_ERROR_PARAM_INVALID"}

(* "Avoid duplicate registration when upper layers re-run configuration":  *)
(* whatever is registered from inside a callback or again later, no        *)
(* registration is ever in two slots, where it would be called twice.      *)
NoDuplicateRegistration ==
  \A i, j \in Slot : Used(i) /\ reg[i] = reg[j] => i = j

(* The used slots are the first ones.  A registration made by a callback   *)
(* therefore lands after the slot being scanned, never behind it.          *)
UsedSlotsFirst == \A i, j \in Slot : Used(i) /\ j < i => Used(j)

(* A dump that asks for at least as many registrations as there are tells  *)
(* the broker all of them, as long as one answer may hold that many.       *)
DumpComplete ==
  \A n \in 1 .. RegMax :
    Count <= n /\ Count <= BurstMax /\ Count <= ReplyMax
      => Dump(n) = {reg[i] : i \in Slot} \ {Free}

(* Two frames and registrations agree on every bit the mask selects.       *)
Accepts(e, f) ==
  /\ e.cb # NoCallback /\ e.purpose = "data"
  /\ e.node = f.node /\ e.ext = f.ext
  /\ \A b \in e.mask : b \in e.id <=> b \in f.id

Subs == INSTANCE CanRxSubscriptions
  WITH Subscription <- Entry,
       subs <- {reg[i] : i \in Slot} \ {Free},
       delivered <- {reg[i] : i \in calls}

(* Each injected frame reaches exactly the callbacks of the target node    *)
(* that accept it, once each, those registered during the injection        *)
(* included; and registrations are refused only as duplicates or when the  *)
(* table is full.                                                          *)
ImplementsSubscriptions == Subs!Spec

(* Callbacks that register again do not keep the scan going: the answer to *)
(* the injection is sent.                                                  *)
InjectionEnds == frame # NoFrame ~> frame = NoFrame
=============================================================================
