---------------------------- MODULE BoardProofs ----------------------------
(***************************************************************************)
(* Proofs about Board for every number of signals, events, lines, messages *)
(* and nested calls, and any commands and calls of the application.        *)
(***************************************************************************)
EXTENDS Board, SequenceTheorems, WellFoundedInduction, TLAPS

----------------------------------------------------------------------------
(* The serial lines: what holds of the stack of calls.                     *)

CallRec == [line : Line, msg : Nat, enable : BOOLEAN,
            step : {"print", "tell", "callback"}]

LineTypes ==
  /\ txCb \in [Line -> BOOLEAN] /\ sent \in Nat /\ due \subseteq 1 .. sent
  /\ calls \in Seq(CallRec) /\ out \in Seq(Nat) /\ told \in Seq(Nat)

(* The innermost call, as long as its message has not gone out, or its     *)
(* callback has not been told.                                             *)
Top == calls[Len(calls)]
Sending == calls # <<>> /\ Top.step = "print"
Telling == calls # <<>> /\ Top.step \in {"print", "tell"}

Told(m) == \E i \in 1 .. Len(told) : told[i] = m

(* Messages go out in the order of the calls; only the last may be missing. *)
OutInOrder ==
  /\ \A i \in 1 .. Len(out) : out[i] = i
  /\ Len(out) + (IF Sending THEN 1 ELSE 0) = sent

(* All calls but the innermost wait for the callback they are in.          *)
OuterWait == \A i \in 1 .. Len(calls) - 1 : calls[i].step = "callback"

(* A call that is not in its callback has the last message, and the        *)
(* callback that was set when it began is still the one to tell.           *)
InnerIsLast ==
  Telling =>
    /\ Top.msg = sent
    /\ sent \in due <=> (Top.enable /\ txCb[Top.line])
    /\ \A i \in 1 .. Len(told) : told[i] < sent

CallersTold ==
  \A m \in Nat : \A i \in 1 .. Len(calls) :
    calls[i].step = "callback" /\ calls[i].msg = m => m \in 1 .. Len(out) /\ Told(m)

ToldOnce ==
  /\ \A i, j \in 1 .. Len(told) : i < j => told[i] < told[j]
  /\ \A i \in 1 .. Len(told) : told[i] \in 1 .. Len(out) /\ told[i] \in due

(* A message whose call has returned is out, and who waited was told.      *)
Returned ==
  \A m \in 1 .. sent :
    \/ \E i \in 1 .. Len(calls) : calls[i].msg = m
    \/ m \in 1 .. Len(out) /\ (m \in due => Told(m))

LineInv ==
  /\ LineTypes /\ OutInOrder /\ OuterWait /\ InnerIsLast
  /\ CallersTold /\ ToldOnce /\ Returned

LEMMA LineInvImplies == LineInv => ToldInOrder
<1> SUFFICES ASSUME LineInv PROVE ToldInOrder
  OBVIOUS
<1>1. out = [i \in 1 .. Len(out) |-> i]
  <2>1. out \in [1 .. Len(out) -> Nat] /\ \A i \in 1 .. Len(out) : out[i] = i
    BY LenProperties DEF LineInv, LineTypes, OutInOrder
  <2> QED
    BY <2>1
<1>2. \A m \in 1 .. Len(out) : Srl!Contains(out, m)
  BY DEF LineInv, OutInOrder, Srl!Contains
<1>3. \A m : Told(m) => Srl!Contains(told, m)
  BY DEF Told, Srl!Contains
<1> QED
  BY <1>1, <1>2, <1>3
  DEF ToldInOrder, Srl!ToldInOrder, LineInv, ToldOnce, Returned

LEMMA InitLine == Srl!Init => LineInv
<1> SUFFICES ASSUME Srl!Init PROVE LineInv
  OBVIOUS
<1>1. /\ txCb = [l \in Line |-> FALSE] /\ calls = <<>> /\ sent = 0
      /\ out = <<>> /\ told = <<>> /\ due = {}
  BY DEF Srl!Init
<1>2. LineTypes
  BY <1>1, EmptySeq DEF LineTypes
<1>3. Len(calls) = 0 /\ Len(out) = 0 /\ Len(told) = 0
  BY <1>1, EmptySeq
<1> QED
  BY <1>1, <1>2, <1>3
  DEF LineInv, OutInOrder, Sending, OuterWait, InnerIsLast, Telling, CallersTold,
      ToldOnce, Returned

(* The innermost call, in the terms of the specification.                  *)
LEMMA InnerIsTop ==
  /\ Srl!Idle <=> calls = <<>>
  /\ Srl!Inner = Top
  /\ Srl!Tells <=> Top.enable /\ txCb[Top.line]
  /\ Srl!AppRuns <=> calls = <<>> \/ Top.step = "callback"
BY DEF Srl!Idle, Srl!Inner, Srl!Last, Srl!Tells, Srl!AppRuns, Top

(* The stack when its top call goes on.                                    *)
LEMMA ToStepLeaves ==
  ASSUME LineTypes, calls # <<>>, NEW step \in {"tell", "callback"},
         calls' = Srl!ToStep(step)
  PROVE  /\ calls' \in Seq(CallRec) /\ Len(calls') = Len(calls) /\ calls' # <<>>
         /\ Len(calls) \in Nat \ {0} /\ Top \in CallRec
         /\ Top'.step = step /\ Top'.msg = Top.msg /\ Top'.enable = Top.enable
         /\ Top'.line = Top.line
         /\ \A i \in 1 .. Len(calls) : calls'[i].msg = calls[i].msg
         /\ \A i \in 1 .. Len(calls) - 1 : calls'[i] = calls[i]
<1> DEFINE n == Len(calls)
           r == [calls[n] EXCEPT !.step = step]
<1>1. calls \in Seq(CallRec) /\ n \in Nat \ {0}
  BY EmptySeq DEF LineTypes
<1>2. n \in 1 .. Len(calls) /\ calls[n] \in CallRec
  BY <1>1, ElementOfSeq
<1>3. /\ r \in CallRec /\ r.step = step /\ r.msg = calls[n].msg
      /\ r.enable = calls[n].enable /\ r.line = calls[n].line
  BY <1>2 DEF CallRec
<1>4. calls' = [calls EXCEPT ![n] = r]
  BY <1>1, <1>2 DEF Srl!ToStep
<1> HIDE DEF r
<1>5. /\ calls' \in Seq(CallRec) /\ Len(calls') = n
      /\ \A j \in 1 .. n : calls'[j] = IF j = n THEN r ELSE calls[j]
  BY <1>1, <1>2, <1>3, <1>4, ExceptSeq
<1>6. calls' # <<>>
  BY <1>1, <1>5, EmptySeq
<1>7. Top' = r
  BY <1>2, <1>5 DEF Top
<1> QED
  BY <1>1, <1>2, <1>3, <1>5, <1>6, <1>7 DEF Top

LEMMA PrintLine ==
  ASSUME LineInv, Srl!PrintTxFrame
  PROVE  LineInv'
<1>0. /\ calls # <<>> /\ Top.step = "print" /\ out' = Append(out, Top.msg)
      /\ calls' = Srl!ToStep("tell")
      /\ UNCHANGED <<txCb, sent, told, due>>
  BY InnerIsTop DEF Srl!PrintTxFrame
<1>1. LineTypes
  BY DEF LineInv
<1>2. /\ calls' \in Seq(CallRec) /\ Len(calls') = Len(calls) /\ calls' # <<>>
      /\ Len(calls) \in Nat \ {0}
      /\ Top'.step = "tell" /\ Top'.msg = Top.msg /\ Top'.enable = Top.enable
      /\ Top'.line = Top.line
      /\ \A i \in 1 .. Len(calls) : calls'[i].msg = calls[i].msg
      /\ \A i \in 1 .. Len(calls) - 1 : calls'[i] = calls[i]
  BY <1>0, <1>1, ToStepLeaves
<1>3. Sending /\ Telling /\ ~ Sending' /\ Telling'
  BY <1>0, <1>2 DEF Sending, Telling
<1>4. /\ Len(out) \in Nat /\ sent \in Nat /\ sent = Len(out) + 1 /\ Top.msg = sent
      /\ \A i \in 1 .. Len(told) : told[i] < sent
      /\ sent \in due <=> (Top.enable /\ txCb[Top.line])
  BY <1>1, <1>3, LenProperties DEF LineInv, LineTypes, OutInOrder, InnerIsLast
<1>5. /\ out' \in Seq(Nat) /\ Len(out') = sent
      /\ \A i \in 1 .. Len(out) : out'[i] = out[i]
      /\ out'[sent] = sent
  BY <1>0, <1>1, <1>4, AppendProperties DEF LineTypes
<1>6. LineTypes'
  BY <1>0, <1>1, <1>2, <1>5 DEF LineTypes
<1>7. OutInOrder'
  <2>1. \A i \in 1 .. Len(out') : i \in 1 .. Len(out) \/ i = sent
    BY <1>4, <1>5
  <2>2. \A i \in 1 .. Len(out') : out'[i] = i
    BY <1>5, <2>1 DEF LineInv, OutInOrder
  <2> QED
    BY <1>0, <1>3, <1>4, <1>5, <2>2 DEF OutInOrder
<1>8. OuterWait'
  BY <1>2 DEF LineInv, OuterWait
<1>9. InnerIsLast'
  BY <1>0, <1>2, <1>4 DEF InnerIsLast
<1>10. 1 .. Len(out) \subseteq 1 .. Len(out')
  BY <1>4, <1>5
<1>11. CallersTold'
  <2> SUFFICES ASSUME NEW m \in Nat, NEW i \in 1 .. Len(calls),
                      calls'[i].step = "callback", calls'[i].msg = m
               PROVE  m \in 1 .. Len(out') /\ Told(m)'
    BY <1>2 DEF CallersTold
  <2>1. i \in 1 .. Len(calls) - 1
    BY <1>2 DEF Top
  <2>2. calls'[i] = calls[i]
    BY <1>2, <2>1
  <2> QED
    BY <1>0, <1>10, <2>2 DEF LineInv, CallersTold, Told
<1>12. ToldOnce'
  BY <1>0, <1>10 DEF LineInv, ToldOnce
<1>13. Returned'
  BY <1>0, <1>2, <1>10 DEF LineInv, Returned, Told
<1> QED
  BY <1>6, <1>7, <1>8, <1>9, <1>11, <1>12, <1>13 DEF LineInv

LEMMA TellLine ==
  ASSUME LineInv, Srl!Tell
  PROVE  LineInv'
<1>0. /\ calls # <<>> /\ Top.step = "tell" /\ Top.enable /\ txCb[Top.line]
      /\ told' = Append(told, Top.msg)
      /\ calls' = Srl!ToStep("callback")
      /\ UNCHANGED <<txCb, sent, out, due>>
  BY InnerIsTop DEF Srl!Tell
<1>1. LineTypes
  BY DEF LineInv
<1>2. /\ calls' \in Seq(CallRec) /\ Len(calls') = Len(calls) /\ calls' # <<>>
      /\ Len(calls) \in Nat \ {0}
      /\ Top'.step = "callback" /\ Top'.msg = Top.msg
      /\ \A i \in 1 .. Len(calls) : calls'[i].msg = calls[i].msg
      /\ \A i \in 1 .. Len(calls) - 1 : calls'[i] = calls[i]
  BY <1>0, <1>1, ToStepLeaves
<1>3. ~ Sending /\ Telling /\ ~ Sending' /\ ~ Telling'
  BY <1>0, <1>2 DEF Sending, Telling
<1>4. /\ Len(out) \in Nat /\ sent \in Nat /\ sent = Len(out) /\ Top.msg = sent
      /\ \A i \in 1 .. Len(told) : told[i] < sent
      /\ sent \in due /\ Len(told) \in Nat
  BY <1>0, <1>1, <1>3, LenProperties DEF LineInv, LineTypes, OutInOrder, InnerIsLast
<1>5. /\ told' \in Seq(Nat) /\ Len(told') = Len(told) + 1
      /\ \A i \in 1 .. Len(told) : told'[i] = told[i]
      /\ told'[Len(told) + 1] = sent
  BY <1>0, <1>1, <1>4, AppendProperties DEF LineTypes
<1>6. LineTypes'
  BY <1>0, <1>1, <1>2, <1>5 DEF LineTypes
<1>7. OutInOrder' /\ InnerIsLast'
  BY <1>0, <1>3 DEF LineInv, OutInOrder, InnerIsLast
<1>8. OuterWait'
  BY <1>2 DEF LineInv, OuterWait
<1>9. 1 \in 1 .. Len(out) /\ sent \in 1 .. Len(out)
  <2>1. sent \in 1 .. sent
    BY <1>1, <1>4 DEF LineTypes
  <2> QED
    BY <1>4, <2>1
<1>10. ASSUME NEW m
       PROVE  Told(m)' <=> Told(m) \/ m = sent
  <2>1. \A i \in 1 .. Len(told') : i \in 1 .. Len(told) \/ i = Len(told) + 1
    BY <1>4, <1>5
  <2>2. 1 .. Len(told) \subseteq 1 .. Len(told') /\ Len(told) + 1 \in 1 .. Len(told')
    BY <1>4, <1>5
  <2> QED
    BY <1>5, <2>1, <2>2 DEF Told
<1>11. CallersTold'
  <2> SUFFICES ASSUME NEW m \in Nat, NEW i \in 1 .. Len(calls),
                      calls'[i].step = "callback", calls'[i].msg = m
               PROVE  m \in 1 .. Len(out) /\ Told(m)'
    BY <1>0, <1>2 DEF CallersTold
  <2>1. CASE i = Len(calls)
    <3>1. m = sent
      BY <1>2, <1>4, <2>1 DEF Top
    <3> QED
      BY <1>9, <1>10, <3>1
  <2>2. CASE i # Len(calls)
    <3>1. i \in 1 .. Len(calls) - 1
      BY <1>2, <2>2
    <3>2. calls'[i] = calls[i]
      BY <1>2, <3>1
    <3>3. m \in 1 .. Len(out) /\ Told(m)
      BY <3>2 DEF LineInv, CallersTold
    <3> QED
      BY <1>10, <3>2, <3>3
  <2> QED
    BY <2>1, <2>2
<1>12. ToldOnce'
  <2>1. ASSUME NEW i \in 1 .. Len(told'), NEW j \in 1 .. Len(told'), i < j
        PROVE  told'[i] < told'[j]
    <3>1. i \in 1 .. Len(told) /\ (j \in 1 .. Len(told) \/ j = Len(told) + 1)
      BY <1>4, <1>5, <2>1
    <3> QED
      BY <1>4, <1>5, <2>1, <3>1 DEF LineInv, ToldOnce
  <2>2. ASSUME NEW i \in 1 .. Len(told')
        PROVE  told'[i] \in 1 .. Len(out) /\ told'[i] \in due
    <3>1. i \in 1 .. Len(told) \/ i = Len(told) + 1
      BY <1>4, <1>5
    <3> QED
      BY <1>4, <1>5, <1>9, <3>1 DEF LineInv, ToldOnce
  <2> QED
    BY <1>0, <2>1, <2>2 DEF ToldOnce
<1>13. Returned'
  <2> SUFFICES ASSUME NEW m \in 1 .. sent
               PROVE  \/ \E i \in 1 .. Len(calls) : calls'[i].msg = m
                      \/ m \in 1 .. Len(out) /\ (m \in due => Told(m)')
    BY <1>0, <1>2 DEF Returned
  <2> QED
    BY <1>2, <1>10 DEF LineInv, Returned
<1> QED
  BY <1>6, <1>7, <1>8, <1>11, <1>12, <1>13 DEF LineInv

(* A call returns when its callback has, or when there is none to tell.    *)
LEMMA ReturnLine ==
  ASSUME LineInv, Srl!Return
  PROVE  LineInv'
<1> DEFINE n == Len(calls)
<1>0. /\ calls # <<>> /\ calls' = SubSeq(calls, 1, n - 1)
      /\ Top.step = "callback"
           \/ (Top.step = "tell" /\ ~ (Top.enable /\ txCb[Top.line]))
      /\ UNCHANGED <<txCb, sent, out, told, due>>
  BY InnerIsTop DEF Srl!Return, Srl!Front
<1>1. LineTypes /\ calls \in Seq(CallRec) /\ n \in Nat \ {0} /\ sent \in Nat
  BY <1>0, EmptySeq DEF LineInv, LineTypes
<1>2. /\ calls' \in Seq(CallRec) /\ Len(calls') = n - 1
      /\ \A i \in 1 .. n - 1 : calls'[i] = calls[i]
  <2>1. \A i \in 1 .. n - 1 : calls[i] \in CallRec
    BY <1>1, ElementOfSeq
  <2>2. /\ SubSeq(calls, 1, n - 1) \in Seq(CallRec)
        /\ Len(SubSeq(calls, 1, n - 1)) = IF 1 <= n - 1 THEN (n - 1) - 1 + 1 ELSE 0
        /\ \A i \in 1 .. ((n - 1) - 1 + 1) : SubSeq(calls, 1, n - 1)[i] = calls[1 + i - 1]
    BY <1>1, <2>1, SubSeqProperties
  <2> HIDE DEF n
  <2>3. (n - 1) - 1 + 1 = n - 1 /\ \A i \in 1 .. n - 1 : 1 + i - 1 = i
    BY <1>1
  <2>4. Len(calls') = n - 1
    BY <1>0, <1>1, <2>2, <2>3
  <2>5. \A i \in 1 .. n - 1 : calls'[i] = calls[i]
    BY <1>0, <2>2, <2>3
  <2> QED
    BY <1>0, <2>2, <2>4, <2>5
<1>3. ~ Sending /\ ~ Sending' /\ ~ Telling'
  <2>1. ASSUME calls' # <<>>
        PROVE  Top'.step = "callback"
    <3>1. n - 1 \in 1 .. n - 1
      BY <1>1, <1>2, <2>1, EmptySeq
    <3> QED
      BY <1>2, <3>1 DEF Top, LineInv, OuterWait
  <2> QED
    BY <1>0, <2>1 DEF Sending, Telling
<1>4. LineTypes'
  BY <1>0, <1>1, <1>2 DEF LineTypes
<1>5. OutInOrder' /\ InnerIsLast' /\ ToldOnce'
  BY <1>0, <1>3 DEF LineInv, OutInOrder, InnerIsLast, ToldOnce
<1>6. 1 .. n - 1 \subseteq 1 .. n /\ 1 .. Len(calls') - 1 \subseteq 1 .. n - 1
  BY <1>1, <1>2
<1>7. OuterWait' /\ CallersTold'
  BY <1>0, <1>2, <1>6 DEF LineInv, OuterWait, CallersTold, Told
<1>8. Returned'
  <2> SUFFICES ASSUME NEW m \in 1 .. sent
               PROVE  \/ \E i \in 1 .. n - 1 : calls[i].msg = m
                      \/ m \in 1 .. Len(out) /\ (m \in due => Told(m))
    BY <1>0, <1>2 DEF Returned, Told
  <2>1. CASE m = Top.msg
    <3>1. CASE Top.step = "callback"
      BY <1>1, <2>1, <3>1 DEF LineInv, CallersTold, Top
    <3>2. CASE Top.step = "tell" /\ ~ (Top.enable /\ txCb[Top.line])
      <4>1. Telling
        BY <1>0, <3>2 DEF Telling
      <4>2. m = sent /\ m \notin due
        BY <2>1, <3>2, <4>1 DEF LineInv, InnerIsLast
      <4>3. sent = Len(out)
        BY <1>1, <1>3, LenProperties DEF LineInv, LineTypes, OutInOrder
      <4> QED
        BY <4>2, <4>3
    <3> QED
      BY <1>0, <3>1, <3>2
  <2>2. CASE m # Top.msg
    <3>1. \A i \in 1 .. n : i = n \/ i \in 1 .. n - 1
      BY <1>1
    <3> QED
      BY <2>2, <3>1 DEF LineInv, Returned, Top
  <2> QED
    BY <2>1, <2>2
<1> QED
  BY <1>4, <1>5, <1>7, <1>8 DEF LineInv

(* Calls come from the application, outside of all calls or in a callback: *)
(* every call in progress is then in its callback, and has been answered.  *)
LEMMA AppLine ==
  ASSUME LineInv, Srl!AppRuns
  PROVE  /\ ~ Sending /\ ~ Telling /\ sent = Len(out)
         /\ \A i \in 1 .. Len(calls) : calls[i].step = "callback"
<1>1. calls = <<>> \/ Top.step = "callback"
  BY InnerIsTop
<1>2. ~ Sending /\ ~ Telling
  BY <1>1 DEF Sending, Telling
<1>3. sent = Len(out)
  BY <1>2, LenProperties DEF LineInv, LineTypes, OutInOrder
<1>4. ASSUME NEW i \in 1 .. Len(calls)
      PROVE  calls[i].step = "callback"
  <2>1. Len(calls) \in Nat /\ calls # <<>>
    BY EmptySeq, LenProperties DEF LineInv, LineTypes
  <2>2. i = Len(calls) \/ i \in 1 .. Len(calls) - 1
    BY <2>1
  <2> QED
    BY <1>1, <2>1, <2>2 DEF Top, LineInv, OuterWait
<1> QED
  BY <1>2, <1>3, <1>4

LEMMA InitDrvLine ==
  ASSUME LineInv, NEW l \in Line, NEW cb \in BOOLEAN, Srl!InitDrv(l, cb)
  PROVE  LineInv'
<1>1. /\ Srl!AppRuns /\ txCb' = [txCb EXCEPT ![l] = cb]
      /\ UNCHANGED <<calls, sent, out, told, due>>
  BY DEF Srl!InitDrv
<1>2. LineTypes'
  BY <1>1 DEF LineInv, LineTypes
<1>3. InnerIsLast'
  BY <1>1, AppLine DEF InnerIsLast, Telling, Top
<1> QED
  BY <1>1, <1>2, <1>3
  DEF LineInv, OutInOrder, Sending, Top, OuterWait, CallersTold, ToldOnce, Returned, Told

LEMMA TransmitLine ==
  ASSUME LineInv, NEW l \in Line, NEW enable \in BOOLEAN, Srl!Transmit(l, enable)
  PROVE  LineInv'
<1> DEFINE n == Len(calls)
           m == sent + 1
           r == [line |-> l, msg |-> m, enable |-> enable, step |-> "print"]
<1>0. /\ Srl!AppRuns /\ calls' = Append(calls, r) /\ sent' = m
      /\ due' = due \cup (IF enable /\ txCb[l] THEN {m} ELSE {})
      /\ UNCHANGED <<txCb, out, told>>
  BY DEF Srl!Transmit
<1>1. /\ LineTypes /\ n \in Nat /\ sent \in Nat /\ m \in Nat /\ Len(told) \in Nat
      /\ due \subseteq 1 .. sent
  BY LenProperties DEF LineInv, LineTypes
<1>2. r \in CallRec
  BY <1>1 DEF CallRec
<1>3. /\ r.line = l /\ r.msg = m /\ r.enable = enable /\ r.step = "print"
  OBVIOUS
<1> HIDE DEF r
<1>4. /\ calls' \in Seq(CallRec) /\ Len(calls') = n + 1 /\ calls' # <<>>
      /\ \A i \in 1 .. n : calls'[i] = calls[i]
      /\ calls'[n + 1] = r
  BY <1>0, <1>1, <1>2, AppendProperties DEF LineTypes
<1>5. Top' = r /\ Sending' /\ Telling'
  BY <1>3, <1>4 DEF Top, Sending, Telling
<1>6. /\ sent = Len(out)
      /\ \A i \in 1 .. n : calls[i].step = "callback"
  BY <1>0, AppLine
<1>7. m \notin due /\ 1 .. sent \subseteq 1 .. m /\ m \in 1 .. m
  BY <1>1
<1>8. /\ due' \subseteq 1 .. m /\ due \subseteq due'
      /\ m \in due' <=> (enable /\ txCb[l])
      /\ \A x \in 1 .. sent : x \in due' => x \in due
  BY <1>0, <1>1, <1>7
<1>9. LineTypes'
  BY <1>0, <1>1, <1>4, <1>8 DEF LineTypes
<1>10. OutInOrder'
  BY <1>0, <1>1, <1>5, <1>6 DEF LineInv, OutInOrder
<1>11. (n + 1) - 1 = n /\ \A i \in 1 .. Len(calls') : i \in 1 .. n \/ i = n + 1
  BY <1>1, <1>4
<1>12. OuterWait'
  BY <1>4, <1>6, <1>11 DEF OuterWait
<1>13. InnerIsLast'
  <2>1. \A i \in 1 .. Len(told) : told[i] < m
    BY <1>1, <1>6 DEF LineInv, ToldOnce
  <2>2. Top'.msg = sent' /\ Top'.enable = enable /\ Top'.line = l
    BY <1>0, <1>3, <1>5
  <2> QED
    BY <1>0, <1>8, <2>1, <2>2 DEF InnerIsLast
<1>14. CallersTold'
  <2> SUFFICES ASSUME NEW x \in Nat, NEW i \in 1 .. Len(calls'),
                      calls'[i].step = "callback", calls'[i].msg = x
               PROVE  x \in 1 .. Len(out) /\ Told(x)
    BY <1>0 DEF CallersTold, Told
  <2>1. i \in 1 .. n /\ calls'[i] = calls[i]
    BY <1>3, <1>4, <1>11
  <2> QED
    BY <2>1 DEF LineInv, CallersTold
<1>15. ToldOnce'
  BY <1>0, <1>8 DEF LineInv, ToldOnce
<1>16. Returned'
  <2> SUFFICES ASSUME NEW x \in 1 .. m
               PROVE  \/ \E i \in 1 .. Len(calls') : calls'[i].msg = x
                      \/ x \in 1 .. Len(out) /\ (x \in due' => Told(x))
    BY <1>0 DEF Returned, Told
  <2>1. CASE x = m
    <3>1. n + 1 \in 1 .. Len(calls')
      BY <1>1, <1>4
    <3> QED
      BY <1>3, <1>4, <2>1, <3>1
  <2>2. CASE x # m
    <3>1. x \in 1 .. sent /\ 1 .. n \subseteq 1 .. Len(calls')
      BY <1>1, <1>4, <2>2
    <3> QED
      BY <1>4, <1>8, <3>1 DEF LineInv, Returned
  <2> QED
    BY <2>1, <2>2
<1> QED
  BY <1>9, <1>10, <1>12, <1>13, <1>14, <1>15, <1>16 DEF LineInv

LEMMA NextLine == LineInv /\ (Srl!Next \/ UNCHANGED serial) => LineInv'
<1> SUFFICES ASSUME LineInv, Srl!Next \/ UNCHANGED serial PROVE LineInv'
  OBVIOUS
<1>1. CASE UNCHANGED serial
  BY <1>1 DEF serial, LineInv, LineTypes, OutInOrder, Sending, Telling, Top, OuterWait,
              InnerIsLast, CallersTold, ToldOnce, Returned, Told
<1> QED
  BY <1>1, PrintLine, TellLine, ReturnLine, InitDrvLine, TransmitLine DEF Srl!Next

----------------------------------------------------------------------------
(* The signals: types.                                                     *)

(* A set of natural numbers has a least element.                           *)
LEMMA LeastElement ==
  ASSUME NEW T \in SUBSET Nat, T # {}
  PROVE  \E x \in T : \A y \in T : x <= y
<1>1. IsWellFoundedOn(OpToRel(<, Nat), Nat)
  BY NatLessThanWellFounded
<1>2. PICK x \in T : \A y \in T : ~ (<<y, x>> \in OpToRel(<, Nat))
  BY <1>1, WFMin
<1>3. \A y \in T : ~ (y < x)
  BY <1>2 DEF OpToRel
<1> QED
  BY <1>3

(* A branch with one of these names asks for enough numbers.               *)
LEMMA NamedBranches ==
  \A i \in 1 .. Len(Branches) :
    LET b == Branches[i]
    IN  /\ b.name # <<>>
        /\ b.name[1] = "SET" => b.numbers \in {2, 3, 4}
        /\ b.name[1] \in {"GET", "TRIG"} /\ b.name[2] \in {"ANA", "PWM", "IN", "OUT"} =>
             b.numbers = 1
<1> DEFINE sets == {2, 4, 6, 8, 10, 13, 15, 17, 19, 20, 21}
           gets == {3, 5, 7, 9, 11, 12, 14, 16}
<1>1. \A i \in 1 .. 35 : i \notin sets => Branches[i].name[1] # "SET"
  BY DEF Branches
<1>2. \A i \in sets : Branches[i].numbers \in {2, 3, 4}
  BY DEF Branches
<1>3. \A i \in gets : Branches[i].numbers = 1
  BY DEF Branches
<1>4. \A i \in 1 .. 35 : i \notin gets =>
        \/ Branches[i].name[1] \notin {"GET", "TRIG"}
        \/ Branches[i].name[2] \notin {"ANA", "PWM", "IN", "OUT"}
  BY DEF Branches
<1>5. \A i \in 1 .. 35 : Branches[i].name # <<>>
  <2>1. \A i \in 1 .. 35 : Len(Branches[i].name) \in 1 .. 6
    BY DEF Branches
  <2>2. <<>> \in Seq(Int) /\ Len(<<>>) = 0
    BY EmptySeq
  <2>3. ASSUME NEW i \in 1 .. 35, Branches[i].name = <<>>
        PROVE  FALSE
    <3>1. Len(Branches[i].name) = 0
      BY <2>2, <2>3, Zenon
    <3>2. Len(Branches[i].name) \in 1 .. 6
      BY <2>1
    <3> DEFINE n == Len(Branches[i].name)
    <3> HIDE DEF n
    <3> QED
      BY <3>1, <3>2 DEF n
  <2> QED
    BY <2>3, Zenon
<1>6. Len(Branches) = 35
  BY DEF Branches
<1> QED
  BY <1>1, <1>2, <1>3, <1>4, <1>5, <1>6

(* The branch that serves a command accepts it.                            *)
LEMMA BranchAccepts ==
  ASSUME NEW c, BranchOf(c) # <<>>
  PROVE  \E i \in 1 .. Len(Branches) :
           BranchOf(c) = Branches[i].name /\ Accepts(Branches[i], c)
<1> DEFINE I == {i \in 1 .. Len(Branches) : Accepts(Branches[i], c)}
<1>1. BranchOf(c) = IF (IF I # {} THEN Min(I) ELSE 0) = 0
                    THEN <<>> ELSE Branches[IF I # {} THEN Min(I) ELSE 0].name
  BY Zenon DEF BranchOf, SelectInSeq
<1>2. I # {} /\ BranchOf(c) = Branches[Min(I)].name
  BY <1>1
<1>3. I \in SUBSET Nat
  <2>1. Len(Branches) = 35
    BY DEF Branches
  <2>2. 1 .. Len(Branches) \subseteq Nat
    BY <2>1
  <2> QED
    BY <2>2
<1>4. \E x \in I : \A y \in I : x <= y
  <2> HIDE DEF I
  <2> QED
    BY <1>2, <1>3, LeastElement
<1>5. Min(I) \in I
  BY <1>4 DEF Min
<1> QED
  BY <1>2, <1>5

(* A command that some branch accepts has a branch.                        *)
LEMMA BranchServes ==
  ASSUME NEW c, BranchOf(c) = <<>>
  PROVE  \A i \in 1 .. Len(Branches) : ~ Accepts(Branches[i], c)
<1> DEFINE I == {i \in 1 .. Len(Branches) : Accepts(Branches[i], c)}
<1> SUFFICES ASSUME I # {} PROVE FALSE
  OBVIOUS
<1>1. BranchOf(c) = IF (IF I # {} THEN Min(I) ELSE 0) = 0
                    THEN <<>> ELSE Branches[IF I # {} THEN Min(I) ELSE 0].name
  BY Zenon DEF BranchOf, SelectInSeq
<1>2. Len(Branches) = 35
  BY DEF Branches
<1>3. I \in SUBSET Nat /\ \A i \in I : i \in 1 .. Len(Branches) /\ i # 0
  <2>1. 1 .. Len(Branches) \subseteq Nat /\ 0 \notin 1 .. Len(Branches)
    BY <1>2
  <2> QED
    BY <2>1
<1>4. \E x \in I : \A y \in I : x <= y
  <2> HIDE DEF I
  <2> QED
    BY <1>3, LeastElement
<1>5. Min(I) \in I
  BY <1>4 DEF Min
<1>6. Min(I) # 0 /\ Branches[Min(I)].name # <<>>
  BY <1>3, <1>5, NamedBranches
<1> QED
  BY <1>1, <1>6

Kind == {"ana", "inDig", "outDig", "inFreq", "duty"}

LEMMA KindsOfSize == DOMAIN Size = Kind /\ Size["duty"] = PwmNb /\ Limit = Size
BY DEF Size, Limit, Kind

LEMMA EventsFit == Slots(EvntNb) \subseteq Slots(AtLeastOne(EvntNb))
BY SignalAssumption DEF Slots, AtLeastOne

LEMMA Names ==
  /\ SetName["ana"] = <<"SET", "ANA">> /\ SetName["duty"] = <<"SET", "PWM">>
  /\ SetName["inDig"] = <<"SET", "IN", "DIG">>
  /\ SetName["outDig"] = <<"SET", "OUT", "DIG">>
  /\ SetName["inFreq"] = <<"SET", "IN", "FREQ">>
  /\ GetName["ana"] = <<"GET", "ANA">> /\ GetName["duty"] = <<"GET", "PWM">>
  /\ GetName["inDig"] = <<"GET", "IN", "DIG">>
  /\ GetName["outDig"] = <<"GET", "OUT", "DIG">>
  /\ GetName["inFreq"] = <<"GET", "IN", "FREQ">>
  /\ DOMAIN SetName = Kind /\ DOMAIN GetName = Kind
BY DEF SetName, GetName, Kind

(* No two documented names are the same.                                   *)
LEMMA DifferentNames ==
  /\ DOMAIN SetName = Kind /\ DOMAIN GetName = Kind
  /\ \A k \in Kind : /\ SetName[k][1] = "SET"
                     /\ GetName[k][1] = "GET"
                     /\ GetName[k][2] \in {"ANA", "PWM", "IN", "OUT"}
  /\ \A k, l \in Kind : SetName[k] = SetName[l] \/ GetName[k] = GetName[l] => k = l
  /\ TriggerName[1] = "TRIG" /\ TriggerName[2] = "IN"
<1>4. TriggerName[1] = "TRIG" /\ TriggerName[2] = "IN"
  BY DEF TriggerName
<1>5. \A k \in Kind : /\ SetName[k][1] = "SET"
                     /\ GetName[k][1] = "GET"
                     /\ GetName[k][2] \in {"ANA", "PWM", "IN", "OUT"}
  BY Names DEF Kind
<1>6. ASSUME NEW k \in Kind, NEW l \in Kind, SetName[k] = SetName[l]
      PROVE  k = l
  <2>1. SetName[k][2] = SetName[l][2] /\ SetName[k][3] = SetName[l][3]
    BY <1>6
  <2> QED
    BY Names, <2>1 DEF Kind
<1>7. ASSUME NEW k \in Kind, NEW l \in Kind, GetName[k] = GetName[l]
      PROVE  k = l
  <2>1. GetName[k][2] = GetName[l][2] /\ GetName[k][3] = GetName[l][3]
    BY <1>7
  <2> QED
    BY Names, <2>1 DEF Kind
<1> QED
  BY Names, <1>4, <1>5, <1>6, <1>7

(* Each documented name has a branch that asks for as many numbers.        *)
LEMMA DocumentedBranches ==
  /\ \A k \in Kind : \E i \in 1 .. Len(Branches) :
       Branches[i].name = SetName[k] /\ Branches[i].numbers = 2
  /\ \A k \in Kind : \E i \in 1 .. Len(Branches) :
       Branches[i].name = GetName[k] /\ Branches[i].numbers = 1
  /\ \E i \in 1 .. Len(Branches) :
       Branches[i].name = TriggerName /\ Branches[i].numbers = 1
<1>1. Len(Branches) = 35
  BY DEF Branches
<1>2. /\ Branches[2].name = SetName["ana"] /\ Branches[2].numbers = 2
      /\ Branches[4].name = SetName["duty"] /\ Branches[4].numbers = 2
      /\ Branches[10].name = SetName["inDig"] /\ Branches[10].numbers = 2
      /\ Branches[13].name = SetName["outDig"] /\ Branches[13].numbers = 2
      /\ Branches[15].name = SetName["inFreq"] /\ Branches[15].numbers = 2
  BY DEF Branches, SetName
<1>3. /\ Branches[3].name = GetName["ana"] /\ Branches[3].numbers = 1
      /\ Branches[5].name = GetName["duty"] /\ Branches[5].numbers = 1
      /\ Branches[11].name = GetName["inDig"] /\ Branches[11].numbers = 1
      /\ Branches[14].name = GetName["outDig"] /\ Branches[14].numbers = 1
      /\ Branches[16].name = GetName["inFreq"] /\ Branches[16].numbers = 1
  BY DEF Branches, GetName
<1>4. Branches[12].name = TriggerName /\ Branches[12].numbers = 1
  BY DEF Branches, TriggerName
<1>5. {2, 3, 4, 5, 10, 11, 12, 13, 14, 15, 16} \subseteq 1 .. Len(Branches)
  BY <1>1
<1>6. \A k \in Kind : \E i \in 1 .. Len(Branches) :
        Branches[i].name = SetName[k] /\ Branches[i].numbers = 2
  BY <1>2, <1>5 DEF Kind
<1>7. \A k \in Kind : \E i \in 1 .. Len(Branches) :
        Branches[i].name = GetName[k] /\ Branches[i].numbers = 1
  BY <1>3, <1>5 DEF Kind
<1> QED
  BY <1>4, <1>5, <1>6, <1>7

(* What a branch with such a name serves has the name and the numbers.     *)
LEMMA BranchSays ==
  ASSUME NEW c \in Datagram
  PROVE  /\ \A k \in Kind : BranchOf(c) = SetName[k] => Says(c, SetName[k], 2)
         /\ \A k \in Kind : BranchOf(c) = GetName[k] => Says(c, GetName[k], 1)
         /\ BranchOf(c) = TriggerName => Says(c, TriggerName, 1)
<1>1. c.args \in Seq(Int) /\ Len(c.args) \in Nat
  BY SignalAssumption, LenProperties
<1>2. ASSUME BranchOf(c)[1] = "SET", BranchOf(c) # <<>>
      PROVE  Says(c, BranchOf(c), 2)
  <2>1. PICK i \in 1 .. Len(Branches) :
          BranchOf(c) = Branches[i].name /\ Accepts(Branches[i], c)
    BY <1>2, BranchAccepts
  <2>2. Branches[i].numbers \in {2, 3, 4}
    BY <1>2, <2>1, NamedBranches
  <2> QED
    BY <1>1, <2>1, <2>2 DEF Accepts, Says
<1>3. ASSUME BranchOf(c)[1] \in {"GET", "TRIG"},
             BranchOf(c)[2] \in {"ANA", "PWM", "IN", "OUT"}, BranchOf(c) # <<>>
      PROVE  Says(c, BranchOf(c), 1)
  <2>1. PICK i \in 1 .. Len(Branches) :
          BranchOf(c) = Branches[i].name /\ Accepts(Branches[i], c)
    BY <1>3, BranchAccepts
  <2>2. Branches[i].numbers = 1
    BY <1>3, <2>1, NamedBranches
  <2> QED
    BY <1>1, <2>1, <2>2 DEF Accepts, Says
<1>4. /\ \A k \in Kind : SetName[k] # <<>> /\ GetName[k] # <<>>
      /\ TriggerName # <<>>
  BY DocumentedBranches, NamedBranches
<1> QED
  BY <1>2, <1>3, <1>4, DifferentNames

(* The numbers a text must have.                                           *)
LEMMA Numbers ==
  ASSUME NEW c \in Datagram, NEW name
  PROVE  /\ Says(c, name, 1) => c.args[1] \in Int /\ c.args[1] \in Said
         /\ Says(c, name, 2) => /\ c.args[1] \in Int /\ c.args[1] \in Said
                               /\ c.args[2] \in Int /\ c.args[2] \in Said
<1>1. c.args \in Seq(Int) /\ Len(c.args) \in Nat
  BY SignalAssumption, LenProperties
<1>2. \A i \in 1 .. Len(c.args) : c.args[i] \in Int
  BY <1>1, ElementOfSeq
<1>3. \A i \in 1 .. Len(c.args) : c.args[i] \in Said
  BY DEF Said
<1> QED
  BY <1>1, <1>2, <1>3 DEF Says

(* What no branch serves has none of the names with enough numbers.        *)
LEMMA NoBranchSaysNothing ==
  ASSUME NEW c \in Datagram, BranchOf(c) = <<>>
  PROVE  /\ \A k \in Kind : ~ Says(c, SetName[k], 2) /\ ~ Says(c, GetName[k], 1)
         /\ ~ Says(c, TriggerName, 1)
<1>1. \A i \in 1 .. Len(Branches) : ~ Accepts(Branches[i], c)
  BY BranchServes
<1>2. \A i \in 1 .. Len(Branches) :
        Branches[i].numbers \in {1, 2} => ~ Says(c, Branches[i].name, Branches[i].numbers)
  BY <1>1 DEF Accepts, Says
<1> QED
  BY <1>2, DocumentedBranches


(* A write of a value of the right width keeps the types.                  *)
LEMMA SetTypes ==
  ASSUME TypeOK, NEW who, NEW kind \in Kind, NEW id, NEW v \in Int,
         kind = "duty" => v \in 0 .. DutyMod - 1, Set(who, kind, id, v)
  PROVE  TypeOK'
<1>1. CASE id \in Slots(Size[kind])
  <2>1. sig' = [sig EXCEPT ![kind][id] = v] /\ UNCHANGED <<evnt, inCall>>
    BY <1>1, KindsOfSize DEF Set
  <2>2. DOMAIN sig = Kind /\ \A k \in Kind : sig[k] \in [Slots(Size[k]) -> Int]
    BY KindsOfSize DEF TypeOK
  <2>3. sig' = [sig EXCEPT ![kind] = [sig[kind] EXCEPT ![id] = v]]
    BY <2>1
  <2>4. DOMAIN sig' = Kind
    BY <2>2, <2>3
  <2>5. \A k \in Kind : sig'[k] = IF k = kind THEN [sig[kind] EXCEPT ![id] = v] ELSE sig[k]
    BY <2>2, <2>3
  <2>6. \A k \in Kind : sig'[k] \in [Slots(Size[k]) -> Int]
    BY <2>2, <2>5
  <2>7. \A i \in Slots(PwmNb) : sig'["duty"][i] \in 0 .. DutyMod - 1
    <3>1. \A i \in Slots(PwmNb) : sig["duty"][i] \in 0 .. DutyMod - 1
      BY DEF TypeOK
    <3>2. "duty" \in Kind
      BY DEF Kind
    <3>3. CASE kind = "duty"
      <4>1. sig["duty"] \in [Slots(PwmNb) -> Int]
        BY <2>2, <3>2, KindsOfSize
      <4> QED
        BY <2>5, <3>1, <3>2, <3>3, <4>1
    <3>4. CASE kind # "duty"
      BY <2>5, <3>1, <3>2, <3>4
    <3> QED
      BY <3>3, <3>4
  <2> QED
    BY <2>1, <2>4, <2>6, <2>7, KindsOfSize DEF TypeOK
<1>2. CASE id \notin Slots(Size[kind])
  BY <1>2, KindsOfSize DEF Set, Refused, TypeOK
<1> QED
  BY <1>1, <1>2

LEMMA StillTypes ==
  ASSUME TypeOK, UNCHANGED <<sig, evnt, inCall>>
  PROVE  TypeOK'
BY DEF TypeOK

LEMMA GetTypes ==
  ASSUME TypeOK, NEW who, NEW kind, NEW id, Get(who, kind, id)
  PROVE  TypeOK'
BY StillTypes DEF Get, Refused

LEMMA DutyWidth ==
  ASSUME NEW v \in Int
  PROVE  v % DutyMod \in Int /\ v % DutyMod \in 0 .. DutyMod - 1
BY SignalAssumption

LEMMA InitSignals == Init => TypeOK
<1> SUFFICES ASSUME Init PROVE TypeOK
  OBVIOUS
<1>1. sig = [k \in DOMAIN Size |-> [i \in Slots(Size[k]) |-> 0]]
  BY DEF Init
<1>2. DOMAIN sig = DOMAIN Size
      /\ \A k \in DOMAIN Size : sig[k] \in [Slots(Size[k]) -> Int]
  BY <1>1
<1>3. \A i \in Slots(PwmNb) : sig["duty"][i] \in 0 .. DutyMod - 1
  <2>1. sig["duty"] = [i \in Slots(PwmNb) |-> 0]
    BY <1>1, KindsOfSize DEF Kind
  <2>2. 0 \in 0 .. DutyMod - 1
    BY SignalAssumption
  <2> QED
    BY <2>1, <2>2
<1>4. evnt \in [Slots(AtLeastOne(EvntNb)) ->
                 [configured : BOOLEAN, trigger : Trigger, callback : Callback \cup {Null}]]
  BY SignalAssumption DEF Init
<1>5. inCall \in Callback \cup {Null}
  BY DEF Init
<1> QED
  BY <1>2, <1>3, <1>4, <1>5 DEF TypeOK

LEMMA ServeTypes == TypeOK /\ Serve => TypeOK'
<1> SUFFICES ASSUME TypeOK, NEW c \in Datagram, Call(BranchOf(c), c.args)
             PROVE  TypeOK'
  BY DEF Serve, Branch
<1> DEFINE b == BranchOf(c)
           id == c.args[1]
           v == c.args[2]
<1>1. ASSUME NEW k \in Kind, b = SetName[k]
      PROVE  v \in Int
  BY <1>1, BranchSays, Numbers
<1> HIDE DEF b, id, v
<1>2. \/ b = <<"SET", "ANA">> /\ SetAnalogInput(id, v)
      \/ b = <<"GET", "ANA">> /\ GetAnalogInput(id)
      \/ b = <<"SET", "PWM">> /\ SetPwmDuty("client", id, v)
      \/ b = <<"GET", "PWM">> /\ GetPwmDuty("client", id)
      \/ b = <<"SET", "IN", "DIG">> /\ SetInputDigital(id, v)
      \/ b = <<"GET", "IN", "DIG">> /\ GetInputDigital(id)
      \/ b = <<"TRIG", "IN", "EVNT">> /\ TriggerInputEvent(id)
      \/ b = <<"SET", "OUT", "DIG">> /\ Set_OutDigSigValue("client", id, v)
      \/ b = <<"GET", "OUT", "DIG">> /\ Get_OutDigSigValue("client", id)
      \/ b = <<"SET", "IN", "FREQ">> /\ SetInputFrequency(id, v)
      \/ b = <<"GET", "IN", "FREQ">> /\ GetInputFrequency(id)
      \/ UNCHANGED <<sig, evnt, inCall>>
  BY Zenon DEF Call, b, id, v
<1>3. CASE b = <<"SET", "ANA">> /\ SetAnalogInput(id, v)
  BY <1>1, <1>3, Names, SetTypes DEF SetAnalogInput, Kind
<1>4. CASE b = <<"SET", "PWM">> /\ SetPwmDuty("client", id, v)
  <2>0. v \in Int
    BY <1>1, <1>4, Names DEF Kind
  <2>1. v % DutyMod \in Int /\ v % DutyMod \in 0 .. DutyMod - 1
    BY ONLY <2>0, DutyWidth
  <2> QED
    BY <1>4, <2>1, SetTypes DEF SetPwmDuty, Kind
<1>5. CASE b = <<"SET", "IN", "DIG">> /\ SetInputDigital(id, v)
  BY <1>1, <1>5, Names, SetTypes DEF SetInputDigital, Kind
<1>6. CASE b = <<"SET", "OUT", "DIG">> /\ Set_OutDigSigValue("client", id, v)
  BY <1>1, <1>6, Names, SetTypes DEF Set_OutDigSigValue, Kind
<1>7. CASE b = <<"SET", "IN", "FREQ">> /\ SetInputFrequency(id, v)
  BY <1>1, <1>7, Names, SetTypes DEF SetInputFrequency, Kind
<1>8. CASE TriggerInputEvent(id)
  <2>1. CASE id \notin Slots(EvntNb)
    BY <1>8, <2>1, StillTypes DEF TriggerInputEvent, Refused
  <2>2. CASE id \in Slots(EvntNb)
    <3>1. UNCHANGED <<sig, evnt>> /\ (inCall' = evnt[id].callback \/ inCall' = inCall)
      BY <1>8, <2>2 DEF TriggerInputEvent
    <3>2. evnt[id].callback \in Callback \cup {Null}
      BY <2>2, EventsFit DEF TypeOK
    <3> QED
      BY <3>1, <3>2 DEF TypeOK
  <2> QED
    BY <2>1, <2>2
<1>9. CASE \/ GetAnalogInput(id) \/ GetPwmDuty("client", id) \/ GetInputDigital(id)
           \/ Get_OutDigSigValue("client", id) \/ GetInputFrequency(id)
  BY <1>9, GetTypes
  DEF GetAnalogInput, GetPwmDuty, GetInputDigital, Get_OutDigSigValue, GetInputFrequency
<1> QED
  BY <1>2, <1>3, <1>4, <1>5, <1>6, <1>7, <1>8, <1>9, StillTypes

LEMMA AppTypes == TypeOK /\ AppCall => TypeOK'
<1> SUFFICES ASSUME TypeOK, AppCall PROVE TypeOK'
  OBVIOUS
<1>1. ASSUME NEW id \in Id, NEW v \in Number, SetPwmDuty("application", id, v)
      PROVE  TypeOK'
  <2>1. v \in Int
    BY SignalAssumption
  <2>2. v % DutyMod \in Int /\ v % DutyMod \in 0 .. DutyMod - 1
    BY <2>1, DutyWidth
  <2> QED
    BY <1>1, <2>2, SetTypes DEF SetPwmDuty, Kind
<1>2. ASSUME NEW id \in Id, NEW v \in Number, Set_OutDigSigValue("application", id, v)
      PROVE  TypeOK'
  <2>1. v \in Int
    BY SignalAssumption
  <2> QED
    BY <1>2, <2>1, SetTypes DEF Set_OutDigSigValue, Kind
<1>3. ASSUME NEW id \in Id, NEW t \in Edge, NEW cb \in Callback \cup {Null},
             Set_InEvntSigCfg(id, t, cb)
      PROVE  TypeOK'
  <2>1. CASE id \in Slots(EvntNb) /\ t \in Trigger
    <3> DEFINE r == [configured |-> TRUE, trigger |-> t, callback |-> cb]
    <3>1. evnt' = [evnt EXCEPT ![id] = r] /\ UNCHANGED <<sig, inCall>>
      BY <1>3, <2>1 DEF Set_InEvntSigCfg
    <3>2. r \in [configured : BOOLEAN, trigger : Trigger, callback : Callback \cup {Null}]
      BY <2>1
    <3> HIDE DEF r
    <3> QED
      BY <3>1, <3>2 DEF TypeOK
  <2>2. CASE ~ (id \in Slots(EvntNb) /\ t \in Trigger)
    BY <1>3, <2>2, StillTypes DEF Set_InEvntSigCfg, Refused
  <2> QED
    BY <2>1, <2>2
<1>4. ASSUME NEW id \in Id, NEW known, Get_InFreqSigValue(id, known)
      PROVE  TypeOK'
  BY <1>4, GetTypes, StillTypes DEF Get_InFreqSigValue, Refused
<1>5. ASSUME NEW id \in Id,
             \/ Get_InAnaSigValue(id) \/ Get_InDigSigValue(id)
             \/ GetPwmDuty("application", id) \/ Get_OutDigSigValue("application", id)
      PROVE  TypeOK'
  BY <1>5, GetTypes
  DEF Get_InAnaSigValue, Get_InDigSigValue, GetPwmDuty, Get_OutDigSigValue
<1> QED
  BY <1>1, <1>2, <1>3, <1>4, <1>5 DEF AppCall

LEMMA NextSignals == TypeOK /\ (Next \/ UNCHANGED vars) => TypeOK'
<1> SUFFICES ASSUME TypeOK, Next \/ UNCHANGED vars PROVE TypeOK'
  OBVIOUS
<1>1. CASE EvntReturn
  BY <1>1 DEF EvntReturn, TypeOK
<1>2. CASE UNCHANGED vars
  BY <1>2, StillTypes DEF vars
<1> QED
  BY <1>1, <1>2, ServeTypes, AppTypes DEF Next

----------------------------------------------------------------------------
(* The board, step by step, is the abstract one.                           *)

LEMMA SignalsAre ==
  /\ \A k \in Kind : \A i \in Slots(Size[k]) : <<k, i>> \in Signals
  /\ \A s \in Signals : s[1] \in Kind /\ s[2] \in Slots(Size[s[1]]) /\ s = <<s[1], s[2]>>
BY KindsOfSize DEF Signals

(* The abstract board has a cell for every slot an array has.              *)
LEMMA CountIsSize ==
  /\ \A k, i : Abstract!Exists(k, i) <=> k \in Kind /\ i \in Slots(Size[k])
  /\ Abstract!Signal = Signals
  /\ Abstract!Event = Slots(EvntNb)
<1> DEFINE count == [ana |-> AnaNb, inDig |-> InDigNb, outDig |-> OutDigNb,
                     duty |-> PwmNb, inFreq |-> IF InFreqNb = 0 THEN 1 ELSE InFreqNb]
<1>1. DOMAIN count = Kind /\ DOMAIN Size = Kind
  BY DEF Kind, Size
<1>2. \A k \in Kind : count[k] = Size[k]
  BY SignalAssumption DEF Kind, Size, AtLeastOne
<1>3. /\ \A k, i : Abstract!Exists(k, i) <=> k \in DOMAIN count /\ i \in Slots(count[k])
      /\ Abstract!Signal = UNION { {k} \X Slots(count[k]) : k \in DOMAIN count }
  BY Zenon DEF Abstract!Exists, Abstract!Signal, Slots
<1>4. Abstract!Event = Slots(EvntNb)
  BY DEF Abstract!Event, Slots
<1> HIDE DEF count
<1>5. { {k} \X Slots(count[k]) : k \in DOMAIN count }
      = { {k} \X Slots(Size[k]) : k \in DOMAIN Size }
  BY <1>1, <1>2
<1> QED
  BY <1>1, <1>2, <1>3, <1>4, <1>5 DEF Signals

Cell == [s \in Signals |-> sig[s[1]][s[2]]]

Handling ==
  [e \in Slots(EvntNb) |-> IF Live(evnt[e]) THEN evnt[e].callback ELSE Null]

Who == {"client", "application"}

Ids == Id \cup Said
Given == Number \cup Said

LEMMA StillCell == UNCHANGED sig => Cell' = Cell
BY DEF Cell

LEMMA StillHandling == UNCHANGED evnt => Handling' = Handling
BY DEF Handling

LEMMA SetCell ==
  ASSUME TypeOK, NEW kind \in Kind, NEW id \in Slots(Size[kind]), NEW v,
         sig' = [sig EXCEPT ![kind][id] = v]
  PROVE  <<kind, id>> \in Signals /\ Cell' = [Cell EXCEPT ![<<kind, id>>] = v]
<1>1. DOMAIN sig = Kind /\ \A k \in Kind : sig[k] \in [Slots(Size[k]) -> Int]
  BY KindsOfSize DEF TypeOK
<1>2. \A k \in Kind : \A i \in Slots(Size[k]) :
        sig'[k][i] = IF k = kind /\ i = id THEN v ELSE sig[k][i]
  BY <1>1
<1>3. <<kind, id>> \in Signals
  BY SignalsAre
<1>4. ASSUME NEW s \in Signals
      PROVE  Cell'[s] = [Cell EXCEPT ![<<kind, id>>] = v][s]
  <2>1. s[1] \in Kind /\ s[2] \in Slots(Size[s[1]]) /\ s = <<s[1], s[2]>>
    BY SignalsAre
  <2>2. Cell'[s] = sig'[s[1]][s[2]] /\ Cell[s] = sig[s[1]][s[2]]
    BY DEF Cell
  <2>3. s = <<kind, id>> <=> s[1] = kind /\ s[2] = id
    BY <2>1
  <2>4. [Cell EXCEPT ![<<kind, id>>] = v][s] = IF s = <<kind, id>> THEN v ELSE Cell[s]
    BY DEF Cell
  <2> QED
    BY <1>2, <2>1, <2>2, <2>3, <2>4
<1> DEFINE c == [Cell EXCEPT ![<<kind, id>>] = v]
<1>5. Cell = [s \in Signals |-> Cell[s]] /\ Cell' = [s \in Signals |-> Cell'[s]]
  BY DEF Cell
<1>6. c = [s \in Signals |-> c[s]]
  BY <1>5
<1> HIDE DEF c
<1>7. Cell' = c
  BY <1>4, <1>5, <1>6 DEF c
<1> QED
  BY <1>3, <1>7 DEF c

LEMMA SetIsNext ==
  ASSUME NEW who \in Who, NEW kind \in Kind, NEW id \in Ids, NEW v \in Given,
         Abstract!Set(who, kind, id, v)
  PROVE  Abstract!Next
<1>1. kind \in DOMAIN [ana |-> AnaNb, inDig |-> InDigNb, outDig |-> OutDigNb,
                      duty |-> PwmNb, inFreq |-> IF InFreqNb = 0 THEN 1 ELSE InFreqNb]
  BY DEF Kind
<1> QED
  BY <1>1 DEF Abstract!Next, Who, Ids, Given

LEMMA GetIsNext ==
  ASSUME NEW who \in Who, NEW kind \in Kind \cup {"unknown"}, NEW id \in Ids,
         Abstract!Get(who, kind, id)
  PROVE  Abstract!Next
<1>1. kind \in DOMAIN [ana |-> AnaNb, inDig |-> InDigNb, outDig |-> OutDigNb,
                      duty |-> PwmNb, inFreq |-> IF InFreqNb = 0 THEN 1 ELSE InFreqNb]
      \/ kind = "unknown"
  BY DEF Kind
<1> QED
  BY <1>1 DEF Abstract!Next, Who, Ids

LEMMA RaiseIsNext ==
  ASSUME NEW id \in Ids, Abstract!Raise(id)
  PROVE  Abstract!Next
BY DEF Abstract!Next, Ids

LEMMA AttachIsNext ==
  ASSUME NEW id \in Ids, NEW t \in Edge, NEW cb \in Callback \cup {Null},
         Abstract!Attach(id, t, cb)
  PROVE  Abstract!Next
BY DEF Abstract!Next, Ids

LEMMA RefuseStep ==
  ASSUME NEW who, Refused(who)
  PROVE  Abstract!Refuse(who)
<1>1. Cell' = Cell /\ Handling' = Handling /\ UNCHANGED inCall
  BY StillCell, StillHandling DEF Refused
<1> QED
  BY <1>1 DEF Refused, Answer, Abstract!Refuse, Abstract!Answer, Cell, Handling

LEMMA SetStep ==
  ASSUME TypeOK, NEW who \in Who, NEW kind \in Kind, NEW id \in Ids,
         NEW v \in Given, NEW w,
         who = "client" => inCall = Null,
         who = "application" => kind \in {"outDig", "duty"},
         w = Abstract!Stored(kind, v),
         Set(who, kind, id, w), AsksSet(who, kind, id, v)
  PROVE  Abstract!Next
<1>0. Limit = Size
  BY KindsOfSize
<1>1. CASE id \in Slots(Size[kind])
  <2> DEFINE s == <<kind, id>>
  <2>1. sig' = [sig EXCEPT ![kind][id] = w] /\ Answer(who, "RC_OK", 0)
        /\ UNCHANGED <<evnt, inCall>>
    BY <1>0, <1>1 DEF Set
  <2>2. s \in Signals /\ Cell' = [Cell EXCEPT ![s] = w] /\ Handling' = Handling
    BY <1>1, <2>1, SetCell, StillHandling
  <2>3. Abstract!Exists(kind, id)
    BY <1>1, CountIsSize
  <2>4. Cell' = [Cell EXCEPT ![<<kind, id>>] = Abstract!Stored(kind, v)]
    BY <2>2
  <2>5. Abstract!Set(who, kind, id, v)
    BY <2>1, <2>2, <2>3, <2>4
    DEF Answer, AsksSet, Abstract!Set, Abstract!Answer, Abstract!MayCall, Cell, Handling
  <2> QED
    BY <2>5, SetIsNext
<1>2. CASE id \notin Slots(Size[kind])
  <2>1. Refused(who)
    BY <1>0, <1>2 DEF Set
  <2>2. Abstract!Refuse(who) /\ ~ Abstract!Exists(kind, id)
    BY <1>2, <2>1, RefuseStep, CountIsSize
  <2>3. Abstract!Set(who, kind, id, v)
    BY <2>2 DEF AsksSet, Abstract!Set, Abstract!MayCall
  <2> QED
    BY <2>3, SetIsNext
<1> QED
  BY <1>1, <1>2

LEMMA GetStep ==
  ASSUME TypeOK, NEW who \in Who, NEW kind \in Kind \cup {"unknown"}, NEW id \in Ids,
         who = "client" => inCall = Null,
         \/ kind \in Kind /\ Get(who, kind, id)
         \/ kind = "unknown" /\ Refused(who),
         AsksGet(who, kind, id)
  PROVE  Abstract!Next
<1>0. Limit = Size /\ "unknown" \notin Kind
  BY KindsOfSize DEF Kind
<1>1. CASE kind \in Kind /\ id \in Slots(Size[kind])
  <2> DEFINE s == <<kind, id>>
  <2>1. s \in Signals /\ Cell[s] = sig[kind][id]
    BY <1>1, SignalsAre DEF Cell
  <2>2. Answer(who, "RC_OK", Cell[s]) /\ UNCHANGED <<sig, evnt, inCall>>
    BY <1>0, <1>1, <2>1 DEF Get
  <2>3. Cell' = Cell /\ Handling' = Handling
    BY <2>2, StillCell, StillHandling
  <2>4. Abstract!Exists(kind, id)
    BY <1>1, CountIsSize
  <2>5. Abstract!Get(who, kind, id)
    BY <2>2, <2>3, <2>4
    DEF Answer, AsksGet, Abstract!Get, Abstract!Answer, Abstract!MayCall, Cell, Handling
  <2> QED
    BY <2>5, GetIsNext
<1>2. CASE ~ (kind \in Kind /\ id \in Slots(Size[kind]))
  <2>1. Refused(who)
    BY <1>0, <1>2 DEF Get
  <2>2. Abstract!Refuse(who) /\ ~ Abstract!Exists(kind, id)
    BY <1>2, <2>1, RefuseStep, CountIsSize
  <2>3. Abstract!Get(who, kind, id)
    BY <2>2 DEF AsksGet, Abstract!Get, Abstract!MayCall
  <2> QED
    BY <2>3, GetIsNext
<1> QED
  BY <1>1, <1>2

LEMMA TriggerStep ==
  ASSUME TypeOK, NEW id \in Ids, inCall = Null, TriggerInputEvent(id),
         asked' = <<"client", "trigger", id>>
  PROVE  Abstract!Next
<1>0. Abstract!Event = Slots(EvntNb)
  BY CountIsSize
<1>1. CASE id \in Slots(EvntNb)
  <2>1. /\ IF Live(evnt[id])
           THEN inCall' = evnt[id].callback /\ UNCHANGED answer
           ELSE Answer("client", "RC_WARNING_NO_OPERATION", 0) /\ UNCHANGED inCall
        /\ UNCHANGED <<sig, evnt>>
    BY <1>1 DEF TriggerInputEvent
  <2>2. Cell' = Cell /\ Handling' = Handling
    BY <2>1, StillCell, StillHandling
  <2>3. /\ Live(evnt[id]) => Handling[id] = evnt[id].callback /\ Handling[id] # Null
        /\ ~ Live(evnt[id]) => Handling[id] = Null
    BY <1>1 DEF Handling, Live
  <2>4. \/ Handling[id] # Null /\ inCall' = Handling[id] /\ UNCHANGED answer
        \/ /\ Handling[id] = Null
           /\ Answer("client", "RC_WARNING_NO_OPERATION", 0) /\ UNCHANGED inCall
    BY <2>1, <2>3
  <2>5. Abstract!Raise(id)
    BY <1>0, <1>1, <2>2, <2>4
    DEF Answer, Abstract!Raise, Abstract!Answer, Abstract!MayCall, Cell, Handling
  <2> QED
    BY <2>5, RaiseIsNext
<1>2. CASE id \notin Slots(EvntNb)
  <2>1. Abstract!Refuse("client")
    BY <1>2, RefuseStep DEF TriggerInputEvent
  <2>2. Abstract!Raise(id)
    BY <1>0, <1>2, <2>1 DEF Abstract!Raise, Abstract!MayCall
  <2> QED
    BY <2>2, RaiseIsNext
<1> QED
  BY <1>1, <1>2

LEMMA AttachStep ==
  ASSUME TypeOK, NEW id \in Ids, NEW t \in Edge, NEW cb \in Callback \cup {Null},
         Set_InEvntSigCfg(id, t, cb),
         asked' = <<"application", "attach", id, t, cb>>
  PROVE  Abstract!Next
<1>0. Abstract!Event = Slots(EvntNb)
  BY CountIsSize
<1>1. CASE id \in Slots(EvntNb) /\ t \in Trigger
  <2> DEFINE r == [configured |-> TRUE, trigger |-> t, callback |-> cb]
             h == IF t = "falling" THEN Null ELSE cb
  <2>1. evnt' = [evnt EXCEPT ![id] = r] /\ Answer("application", "RC_OK", 0)
        /\ UNCHANGED <<sig, inCall>>
    BY <1>1 DEF Set_InEvntSigCfg
  <2>2. /\ DOMAIN evnt = Slots(AtLeastOne(EvntNb))
        /\ id \in Slots(EvntNb) /\ id \in Slots(AtLeastOne(EvntNb))
    BY <1>1, EventsFit DEF TypeOK
  <2>3. (IF Live(r) THEN r.callback ELSE Null) = h
    BY DEF Live
  <2> HIDE DEF r
  <2>4. \A e \in Slots(EvntNb) : evnt'[e] = IF e = id THEN r ELSE evnt[e]
    BY <2>1, <2>2, EventsFit
  <2>5. Handling' = [Handling EXCEPT ![id] = h]
    BY <2>2, <2>3, <2>4 DEF Handling
  <2>6. Cell' = Cell
    BY <2>1, StillCell
  <2>7. Abstract!Attach(id, t, cb)
    BY <1>0, <1>1, <2>1, <2>5, <2>6
    DEF Answer, Abstract!Attach, Abstract!Answer, Cell, Handling
  <2> QED
    BY <2>7, AttachIsNext
<1>2. CASE ~ (id \in Slots(EvntNb) /\ t \in Trigger)
  <2>1. Abstract!Refuse("application")
    BY <1>2, RefuseStep DEF Set_InEvntSigCfg
  <2>2. Abstract!Attach(id, t, cb)
    BY <1>0, <1>2, <2>1 DEF Abstract!Attach
  <2> QED
    BY <2>2, AttachIsNext
<1> QED
  BY <1>1, <1>2

(* What a text means, by the name it has.                                  *)
LEMMA Means ==
  ASSUME NEW c \in Datagram, Meaning(c)
  PROVE  /\ \A k \in Kind : Says(c, SetName[k], 2) =>
              AsksSet("client", k, c.args[1], c.args[2])
         /\ \A k \in Kind : Says(c, GetName[k], 1) => AsksGet("client", k, c.args[1])
         /\ Says(c, TriggerName, 1) => asked' = <<"client", "trigger", c.args[1]>>
<1>1. \A name, n : Says(c, name, n) => c.name = name
  BY DEF Says
<1>2. ASSUME NEW k \in Kind, Says(c, SetName[k], 2)
      PROVE  AsksSet("client", k, c.args[1], c.args[2])
  <2>1. ~ Says(c, TriggerName, 1) /\ \A l \in Kind : ~ Says(c, GetName[l], 1)
    BY <1>1, <1>2, DifferentNames
  <2>2. \A l \in Kind : Says(c, SetName[l], 2) => l = k
    BY <1>1, <1>2, DifferentNames
  <2> QED
    BY <1>2, <2>1, <2>2, DifferentNames DEF Meaning
<1>3. ASSUME NEW k \in Kind, Says(c, GetName[k], 1)
      PROVE  AsksGet("client", k, c.args[1])
  <2>1. ~ Says(c, TriggerName, 1) /\ \A l \in Kind : ~ Says(c, SetName[l], 2)
    BY <1>1, <1>3, DifferentNames
  <2>2. \A l \in Kind : Says(c, GetName[l], 1) => l = k
    BY <1>1, <1>3, DifferentNames
  <2> QED
    BY <1>3, <2>1, <2>2, DifferentNames DEF Meaning
<1>4. ASSUME Says(c, TriggerName, 1)
      PROVE  asked' = <<"client", "trigger", c.args[1]>>
  <2>1. \A l \in Kind : ~ Says(c, SetName[l], 2) /\ ~ Says(c, GetName[l], 1)
    BY <1>1, <1>4, DifferentNames
  <2> QED
    BY <1>4, <2>1, DifferentNames DEF Meaning
<1> QED
  BY <1>2, <1>3, <1>4

LEMMA ServeStep == TypeOK /\ Serve => Abstract!Next
<1> SUFFICES ASSUME TypeOK, inCall = Null, NEW c \in Datagram, Meaning(c),
                    Call(BranchOf(c), c.args)
             PROVE  Abstract!Next
  BY DEF Serve, Branch
<1> DEFINE b == BranchOf(c)
           id == c.args[1]
           v == c.args[2]
<1>1. ASSUME NEW k \in Kind, b = SetName[k]
      PROVE  v \in Int /\ v \in Given /\ id \in Ids /\ AsksSet("client", k, id, v)
  BY <1>1, BranchSays, Numbers, Means DEF Ids, Given
<1>2. ASSUME NEW k \in Kind, b = GetName[k]
      PROVE  id \in Ids /\ AsksGet("client", k, id)
  BY <1>2, BranchSays, Numbers, Means DEF Ids
<1>3. ASSUME b = TriggerName
      PROVE  id \in Ids /\ asked' = <<"client", "trigger", id>>
  BY <1>3, BranchSays, Numbers, Means DEF Ids
<1>4. ASSUME b = <<>>
      PROVE  asked' = <<"client", "other">>
  BY <1>4, NoBranchSaysNothing, Names DEF Meaning
<1> HIDE DEF b, id, v
<1>5. \/ b = <<"SET", "ANA">> /\ SetAnalogInput(id, v)
      \/ b = <<"GET", "ANA">> /\ GetAnalogInput(id)
      \/ b = <<"SET", "PWM">> /\ SetPwmDuty("client", id, v)
      \/ b = <<"GET", "PWM">> /\ GetPwmDuty("client", id)
      \/ b = <<"SET", "IN", "DIG">> /\ SetInputDigital(id, v)
      \/ b = <<"GET", "IN", "DIG">> /\ GetInputDigital(id)
      \/ b = <<"TRIG", "IN", "EVNT">> /\ TriggerInputEvent(id)
      \/ b = <<"SET", "OUT", "DIG">> /\ Set_OutDigSigValue("client", id, v)
      \/ b = <<"GET", "OUT", "DIG">> /\ Get_OutDigSigValue("client", id)
      \/ b = <<"SET", "IN", "FREQ">> /\ SetInputFrequency(id, v)
      \/ b = <<"GET", "IN", "FREQ">> /\ GetInputFrequency(id)
      \/ b = <<>> /\ Answer("client", "ERR", 0) /\ UNCHANGED <<sig, evnt, inCall>>
  BY Zenon DEF Call, b, id, v
<1>6. ASSUME NEW kind \in Kind \ {"duty"}, b = SetName[kind], Set("client", kind, id, v)
      PROVE  Abstract!Next
  <2>1. v = Abstract!Stored(kind, v)
    BY DEF Abstract!Stored
  <2> QED
    BY <1>1, <1>6, <2>1, SetStep DEF Who
<1>7. ASSUME NEW kind \in Kind, b = GetName[kind], Get("client", kind, id)
      PROVE  Abstract!Next
  BY <1>2, <1>7, GetStep DEF Who
<1>8. CASE b = <<"SET", "ANA">> /\ SetAnalogInput(id, v)
  BY <1>6, <1>8, Names DEF SetAnalogInput, Kind
<1>9. CASE b = <<"SET", "IN", "DIG">> /\ SetInputDigital(id, v)
  BY <1>6, <1>9, Names DEF SetInputDigital, Kind
<1>10. CASE b = <<"SET", "OUT", "DIG">> /\ Set_OutDigSigValue("client", id, v)
  BY <1>6, <1>10, Names DEF Set_OutDigSigValue, Kind
<1>11. CASE b = <<"SET", "IN", "FREQ">> /\ SetInputFrequency(id, v)
  BY <1>6, <1>11, Names DEF SetInputFrequency, Kind
<1>12. CASE b = <<"SET", "PWM">> /\ SetPwmDuty("client", id, v)
  <2>1. b = SetName["duty"] /\ "duty" \in Kind
    BY <1>12, Names DEF Kind
  <2> DEFINE w == v % DutyMod
  <2>2. Set("client", "duty", id, w)
    BY <1>12 DEF SetPwmDuty
  <2>3. w = Abstract!Stored("duty", v)
    BY DEF Abstract!Stored
  <2> HIDE DEF w
  <2> QED
    BY <1>1, <2>1, <2>2, <2>3, SetStep DEF Who
<1>13. CASE b = <<"GET", "ANA">> /\ GetAnalogInput(id)
  BY <1>7, <1>13, Names DEF GetAnalogInput, Kind
<1>14. CASE b = <<"GET", "PWM">> /\ GetPwmDuty("client", id)
  BY <1>7, <1>14, Names DEF GetPwmDuty, Kind
<1>15. CASE b = <<"GET", "IN", "DIG">> /\ GetInputDigital(id)
  BY <1>7, <1>15, Names DEF GetInputDigital, Kind
<1>16. CASE b = <<"GET", "OUT", "DIG">> /\ Get_OutDigSigValue("client", id)
  BY <1>7, <1>16, Names DEF Get_OutDigSigValue, Kind
<1>17. CASE b = <<"GET", "IN", "FREQ">> /\ GetInputFrequency(id)
  BY <1>7, <1>17, Names DEF GetInputFrequency, Kind
<1>18. CASE b = <<"TRIG", "IN", "EVNT">> /\ TriggerInputEvent(id)
  BY <1>3, <1>18, TriggerStep DEF TriggerName
<1>19. CASE b = <<>> /\ Answer("client", "ERR", 0) /\ UNCHANGED <<sig, evnt, inCall>>
  <2>1. Cell' = Cell /\ Handling' = Handling /\ asked' = <<"client", "other">>
    BY <1>4, <1>19, StillCell, StillHandling
  <2>2. Abstract!Other
    BY <1>19, <2>1
    DEF Answer, Abstract!Other, Abstract!Answer, Abstract!MayCall, Cell, Handling
  <2> QED
    BY <2>2 DEF Abstract!Next
<1> QED
  BY <1>5, <1>8, <1>9, <1>10, <1>11, <1>12, <1>13, <1>14, <1>15, <1>16, <1>17, <1>18, <1>19

LEMMA AppStep == TypeOK /\ AppCall => Abstract!Next
<1> SUFFICES ASSUME TypeOK, AppCall PROVE Abstract!Next
  OBVIOUS
<1>0. "application" \in Who /\ "application" # "client"
  BY DEF Who
<1>1. ASSUME NEW id \in Id, NEW v \in Number, SetPwmDuty("application", id, v),
             AsksSet("application", "duty", id, v)
      PROVE  Abstract!Next
  <2> DEFINE w == v % DutyMod
  <2>1. Set("application", "duty", id, w)
    BY <1>1 DEF SetPwmDuty
  <2>2. w = Abstract!Stored("duty", v) /\ "duty" \in Kind
    BY DEF Abstract!Stored, Kind
  <2> HIDE DEF w
  <2>3. id \in Ids /\ v \in Given
    BY DEF Ids, Given
  <2> QED
    BY <1>0, <1>1, <2>1, <2>2, <2>3, SetStep
<1>2. ASSUME NEW id \in Id, NEW v \in Number, Set_OutDigSigValue("application", id, v),
             AsksSet("application", "outDig", id, v)
      PROVE  Abstract!Next
  <2>1. Set("application", "outDig", id, v) /\ "outDig" \in Kind
    BY <1>2 DEF Set_OutDigSigValue, Kind
  <2>2. v = Abstract!Stored("outDig", v)
    BY DEF Abstract!Stored
  <2>3. id \in Ids /\ v \in Given
    BY DEF Ids, Given
  <2> QED
    BY <1>0, <1>2, <2>1, <2>2, <2>3, SetStep
<1>3. ASSUME NEW id \in Id, NEW kind \in Kind, Get("application", kind, id),
             AsksGet("application", kind, id)
      PROVE  Abstract!Next
  BY <1>0, <1>3, GetStep DEF Ids
<1>4. ASSUME NEW id \in Id,
             \/ Get_InAnaSigValue(id) /\ AsksGet("application", "ana", id)
             \/ Get_InDigSigValue(id) /\ AsksGet("application", "inDig", id)
             \/ GetPwmDuty("application", id) /\ AsksGet("application", "duty", id)
             \/ /\ Get_OutDigSigValue("application", id)
                /\ AsksGet("application", "outDig", id)
             \/ Get_InFreqSigValue(id, TRUE) /\ AsksGet("application", "inFreq", id)
      PROVE  Abstract!Next
  BY <1>3, <1>4
  DEF Get_InAnaSigValue, Get_InDigSigValue, GetPwmDuty, Get_OutDigSigValue,
      Get_InFreqSigValue, Kind
<1>5. ASSUME NEW id \in Id, Get_InFreqSigValue(id, FALSE),
             AsksGet("application", "unknown", id)
      PROVE  Abstract!Next
  BY <1>0, <1>5, GetStep DEF Get_InFreqSigValue, Ids
<1>6. ASSUME NEW id \in Id, NEW t \in Edge, NEW cb \in Callback \cup {Null},
             Set_InEvntSigCfg(id, t, cb), asked' = <<"application", "attach", id, t, cb>>
      PROVE  Abstract!Next
  BY <1>6, AttachStep DEF Ids
<1> QED
  BY <1>1, <1>2, <1>4, <1>5, <1>6 DEF AppCall

LEMMA ReturnStep == EvntReturn => Abstract!Next
<1> SUFFICES ASSUME EvntReturn PROVE Abstract!Next
  OBVIOUS
<1>1. Cell' = Cell /\ Handling' = Handling
  BY StillCell, StillHandling DEF EvntReturn
<1>2. Abstract!Return
  BY <1>1 DEF EvntReturn, Answer, Abstract!Return, Abstract!Answer, Cell, Handling
<1> QED
  BY <1>2 DEF Abstract!Next

(* Transmissions, with the callbacks they cause, are invisible.            *)
LEMMA StutterStep == UNCHANGED vars => UNCHANGED Abstract!vars
<1> SUFFICES ASSUME UNCHANGED vars PROVE UNCHANGED Abstract!vars
  OBVIOUS
<1>1. Cell' = Cell /\ Handling' = Handling /\ UNCHANGED <<inCall, answer, asked>>
  BY StillCell, StillHandling DEF vars
<1> QED
  BY <1>1 DEF Abstract!vars, Cell, Handling

LEMMA InitBoard == Init => Abstract!Init
<1> SUFFICES ASSUME Init PROVE Abstract!Init
  OBVIOUS
<1>0. Abstract!Signal = Signals /\ Abstract!Event = Slots(EvntNb)
  BY CountIsSize
<1>1. sig = [k \in Kind |-> [i \in Slots(Size[k]) |-> 0]]
  BY KindsOfSize DEF Init
<1>2. Cell = [s \in Signals |-> 0]
  <2>1. \A s \in Signals : sig[s[1]][s[2]] = 0
    BY <1>1, SignalsAre
  <2> QED
    BY <2>1 DEF Cell
<1>3. Handling = [e \in Slots(EvntNb) |-> Null]
  BY EventsFit DEF Init, Handling, Live
<1>4. /\ inCall = Null /\ answer = [to |-> "client", rc |-> "RC_OK", val |-> 0]
      /\ asked = <<>>
  BY DEF Init
<1> QED
  BY <1>0, <1>2, <1>3, <1>4 DEF Abstract!Init, Cell, Handling

----------------------------------------------------------------------------
(* The inductive invariant of the board.                                   *)

IInv == TypeOK /\ LineInv

LEMMA InitIInv == BoardInit => IInv
BY InitSignals, InitLine DEF BoardInit, IInv

LEMMA NextIInv == IInv /\ [BoardNext]_<<vars, serial>> => IInv'
BY NextSignals, NextLine
DEF IInv, BoardNext, BoardServe, BoardEvntReturn, BoardAppCall, BoardSerial, Next

----------------------------------------------------------------------------
(* The theorems.                                                           *)

(* Every signal keeps an array of its size and every duty cycle its width, *)
(* whatever commands say and the application calls.                        *)
THEOREM TypeCorrect == BoardSpec => []TypeOK
BY InitIInv, NextIInv, PTL DEF BoardSpec, IInv

(* However deep callbacks transmit inside of each other and reconfigure    *)
(* the lines, messages go out in the order of the calls, and every         *)
(* callback that was due is told once, in this order, of a message that is *)
(* out, before the call returns.                                           *)
THEOREM LinesTellInOrder == BoardSpec => []ToldInOrder
BY InitIInv, NextIInv, LineInvImplies, PTL DEF BoardSpec, IInv

(* Each request, by the documented name of the command or the name of the  *)
(* function, does what it asks for to the signal or event it names and     *)
(* nothing else: the branch that serves it, the limits and the arrays      *)
(* behind it store and return the value of this signal, refuse it exactly  *)
(* when there is no such signal, and a trigger runs the callback attached  *)
(* to this event before the client is answered.                            *)
THEOREM BoardImplemented == BoardSpec => ImplementsBoard
<1>1. BoardInit => Abstract!Init
  BY InitBoard DEF BoardInit
<1>2. IInv /\ [BoardNext]_<<vars, serial>> => [Abstract!Next]_(Abstract!vars)
  BY ServeStep, AppStep, ReturnStep, StutterStep
  DEF IInv, BoardNext, BoardServe, BoardEvntReturn, BoardAppCall, BoardSerial
<1> QED
  BY <1>1, <1>2, InitIInv, NextIInv, PTL DEF BoardSpec, ImplementsBoard, Abstract!Spec
=============================================================================
