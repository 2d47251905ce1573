----------------------------- MODULE SerialLine -----------------------------
(***************************************************************************)
(* The simulated serial lines (pc_sim_fmk_srl.c).  A message goes out at   *)
(* once, and the line's callback is told so before Transmit returns; the   *)
(* callback may transmit again, on any line, and configure the lines.      *)
(* Calls nest, so the calls of Transmit in progress are a stack.  The      *)
(* messages are numbered in the order of the calls; calls that are refused *)
(* (no such line, no data where some is to be sent) change nothing.        *)
(***************************************************************************)
EXTENDS Naturals, Sequences, SequencesExt

CONSTANTS
  Line,          \* the serial lines
  MaxMsgs,       \* bound: messages transmitted
  MaxDepth       \* bound: calls of Transmit inside each other

VARIABLES
  txCb,          \* [Line -> BOOLEAN]: g_pcSimTxCb_apcb is set
  calls,         \* calls of Transmit in progress, the innermost last
  sent,          \* messages transmitted so far
  out,           \* history: the messages that went out, in this order
  told,          \* history: the messages callbacks were told about
  due            \* history: those that a callback has to be told about

vars == <<txCb, calls, sent, out, told, due>>

Init ==
  /\ txCb = [l \in Line |-> FALSE]
  /\ calls = <<>> /\ sent = 0
  /\ out = <<>> /\ told = <<>> /\ due = {}

Idle == calls = <<>>
Inner == Last(calls)
ToStep(step) == [calls EXCEPT ![Len(calls)].step = step]

(* Application code runs outside of all calls, or in a callback.           *)
AppRuns == IF Idle THEN TRUE ELSE Inner.step = "callback"

InitDrv(l, cb) ==
  /\ AppRuns
  /\ txCb' = [txCb EXCEPT ![l] = cb]
  /\ UNCHANGED <<calls, sent, out, told, due>>

(* Seeded fault of Transmit: the callback is told before the message goes. *)
TransmitTellFirst(l, enable) ==
  /\ AppRuns
  /\ sent < MaxMsgs /\ Len(calls) < MaxDepth
  /\ sent' = sent + 1
  /\ calls' = Append(calls, [line |-> l, msg |-> sent + 1, enable |-> enable,
                             step |-> IF enable /\ txCb[l] THEN "callback"
                                                           ELSE "print"])
  /\ due' = due \cup (IF enable /\ txCb[l] THEN {sent + 1} ELSE {})
  /\ told' = IF enable /\ txCb[l] THEN Append(told, sent + 1) ELSE told
  /\ UNCHANGED <<txCb, out>>

Transmit(l, enable) ==
  /\ AppRuns
  /\ sent < MaxMsgs /\ Len(calls) < MaxDepth
  /\ sent' = sent + 1
  /\ calls' = Append(calls, [line |-> l, msg |-> sent + 1, enable |-> enable,
                             step |-> "print"])
  /\ due' = due \cup (IF enable /\ txCb[l] THEN {sent + 1} ELSE {})
  /\ UNCHANGED <<txCb, out, told>>

PrintTxFrame ==
  /\ ~ Idle /\ Inner.step = "print"
  /\ out' = Append(out, Inner.msg)
  /\ calls' = ToStep("tell")
  /\ UNCHANGED <<txCb, sent, told, due>>

Tells == Inner.enable /\ txCb[Inner.line]

Tell ==
  /\ ~ Idle /\ Inner.step = "tell" /\ Tells
  /\ told' = Append(told, Inner.msg)
  /\ calls' = ToStep("callback")
  /\ UNCHANGED <<txCb, sent, out, due>>

(* The callback returns, or there is none to tell.                         *)
Return ==
  /\ ~ Idle
  /\ Inner.step = "callback" \/ (Inner.step = "tell" /\ ~ Tells)
  /\ calls' = Front(calls)
  /\ UNCHANGED <<txCb, sent, out, told, due>>

Next ==
  \/ \E l \in Line, b \in BOOLEAN : InitDrv(l, b) \/ Transmit(l, b)
  \/ PrintTxFrame \/ Tell \/ Return

Spec == Init /\ [][Next]_vars

----------------------------------------------------------------------------
(* Properties.                                                             *)

(* However callbacks transmit and configure in the middle of Transmit,     *)
(* messages go out in the order of the calls, a callback is told of a      *)
(* message that is out, once and in the same order, and when a call has    *)
(* returned its message is out and who waited for it has been told.        *)
ToldInOrder ==
  /\ out = [i \in 1 .. Len(out) |-> i]
  /\ \A i, j \in 1 .. Len(told) : i < j => told[i] < told[j]
  /\ \A i \in 1 .. Len(told) : told[i] \in 1 .. Len(out) /\ told[i] \in due
  /\ \A m \in 1 .. sent :
       \/ \E i \in 1 .. Len(calls) : calls[i].msg = m
       \/ Contains(out, m) /\ (m \in due => Contains(told, m))
=============================================================================
