------------------------ MODULE CommandServerProofs ------------------------
(***************************************************************************)
(* Proofs about CommandServer for every size of logs, bursts, replies and  *)
(* steps, every number of frames and every set of commands.                *)
(***************************************************************************)
EXTENDS CommandServer, SequenceTheorems, WellFoundedInduction, TLAPS

----------------------------------------------------------------------------
(* Sequences of frames.                                                    *)

(* Two sequences of frame numbers that follow each other and only grow.    *)
Growing(s, t) ==
  \A i, j \in 1 .. Len(s \o t) : i < j => (s \o t)[i] < (s \o t)[j]

(* A pair keeps growing when frames leave the head of the second sequence, *)
(* the first of them for the end of the first sequence.                    *)
LEMMA GrowingPop ==
  ASSUME NEW n \in Nat, NEW s \in Seq(1 .. n), NEW t \in Seq(1 .. n), Growing(s, t),
         NEW p \in 0 .. Len(t), NEW k \in 0 .. p
  PROVE  LET u == s \o SubSeq(t, 1, k)
             v == SubSeq(t, p + 1, Len(t))
         IN  /\ u \in Seq(1 .. n) /\ v \in Seq(1 .. n) /\ Growing(u, v)
             /\ Len(u) = Len(s) + k /\ Len(v) = Len(t) - p
<1> DEFINE a == SubSeq(t, 1, k)
           u == s \o a
           v == SubSeq(t, p + 1, Len(t))
           c == s \o t
           d == u \o v
           f(i) == IF i <= Len(s) + k THEN i ELSE i + (p - k)
<1>1. Len(s) \in Nat /\ Len(t) \in Nat /\ k \in Nat /\ p \in Nat /\ k <= p /\ p <= Len(t)
  BY LenProperties
<1>2. /\ a \in Seq(1 .. n) /\ Len(a) = k
      /\ \A i \in 1 .. k : a[i] = t[i]
  <2>1. \A i \in 1 .. k : t[i] \in 1 .. n
    BY <1>1, ElementOfSeq
  <2> QED
    BY <1>1, <2>1, SubSeqProperties
<1>3. /\ v \in Seq(1 .. n) /\ Len(v) = Len(t) - p
      /\ \A i \in 1 .. (Len(t) - p) : v[i] = t[p + i]
  <2>1. \A i \in p + 1 .. Len(t) : t[i] \in 1 .. n
    BY <1>1, ElementOfSeq
  <2>2. /\ v \in Seq(1 .. n)
        /\ Len(v) = IF p + 1 <= Len(t) THEN Len(t) - (p + 1) + 1 ELSE 0
        /\ \A i \in 1 .. (Len(t) - (p + 1) + 1) : v[i] = t[p + 1 + i - 1]
    BY <1>1, <2>1, SubSeqProperties
  <2> HIDE DEF v
  <2>3. Len(t) - (p + 1) + 1 = Len(t) - p
    BY <1>1
  <2>4. Len(v) = Len(t) - p
    BY <1>1, <2>2
  <2>5. ASSUME NEW i \in 1 .. (Len(t) - p)
        PROVE  v[i] = t[p + i]
    <3>1. p + 1 + i - 1 = p + i
      BY <1>1
    <3> QED
      BY <2>2, <2>3, <3>1
  <2> QED
    BY <2>2, <2>4, <2>5
<1> HIDE DEF a, v
<1>4. /\ u \in Seq(1 .. n) /\ Len(u) = Len(s) + k
      /\ \A i \in 1 .. (Len(s) + k) : u[i] = IF i <= Len(s) THEN s[i] ELSE a[i - Len(s)]
  BY <1>2, ConcatProperties
<1>5. /\ Len(c) = Len(s) + Len(t)
      /\ \A i \in 1 .. (Len(s) + Len(t)) : c[i] = IF i <= Len(s) THEN s[i] ELSE t[i - Len(s)]
  BY ConcatProperties
<1> HIDE DEF u
<1>6. /\ Len(d) = Len(u) + Len(v)
      /\ \A i \in 1 .. (Len(u) + Len(v)) : d[i] = IF i <= Len(u) THEN u[i] ELSE v[i - Len(u)]
  BY <1>3, <1>4, ConcatProperties
<1>7. \A i, j \in 1 .. Len(c) : i < j => c[i] < c[j]
  BY DEF Growing
<1> HIDE DEF c, d
<1>8. ASSUME NEW i \in 1 .. Len(d)
      PROVE  f(i) \in 1 .. Len(c) /\ d[i] = c[f(i)]
  <2>1. CASE i <= Len(s)
    <3>1. i \in 1 .. Len(c) /\ i <= Len(u) /\ f(i) = i
      BY <1>1, <1>3, <1>4, <1>5, <1>6, <2>1
    <3>2. d[i] = u[i] /\ u[i] = s[i] /\ c[i] = s[i]
      BY <1>1, <1>3, <1>4, <1>5, <1>6, <2>1, <3>1, SMTT(60)
    <3> QED
      BY <3>1, <3>2
  <2>2. CASE i > Len(s) /\ i <= Len(s) + k
    <3>1. i \in 1 .. Len(c) /\ i <= Len(u) /\ (i - Len(s)) \in 1 .. k
      <4> HIDE DEF f
      <4> QED
        BY <1>1, <1>4, <1>5, <2>2
    <3>2. f(i) = i
      BY <2>2
    <3>3. d[i] = u[i] /\ u[i] = a[i - Len(s)] /\ c[i] = t[i - Len(s)]
      BY <1>1, <1>3, <1>4, <1>5, <1>6, <2>2, <3>1, SMTT(60)
    <3> QED
      BY <1>2, <3>1, <3>2, <3>3
  <2>3. CASE i > Len(s) + k
    <3>1. /\ f(i) = i + (p - k) /\ f(i) \in 1 .. Len(c) /\ f(i) > Len(s)
          /\ (i - Len(u)) \in 1 .. (Len(t) - p) /\ ~ (i <= Len(u))
          /\ p + (i - Len(u)) = f(i) - Len(s)
      <4>1. /\ Len(u) = Len(s) + k /\ Len(c) = Len(s) + Len(t)
            /\ i \in 1 .. (Len(s) + k + (Len(t) - p))
        BY <1>3, <1>4, <1>5, <1>6
      <4>2. f(i) = i + (p - k)
        <5>1. ~ (i <= Len(s) + k)
          BY ONLY <1>1, <2>3, <4>1
        <5> QED
          BY ONLY <5>1 DEF f
      <4> HIDE DEF f
      <4> QED
        BY ONLY <1>1, <2>3, <4>1, <4>2
    <3>2. d[i] = v[i - Len(u)]
      BY <1>6, <1>3, <1>4, <3>1
    <3>3. c[f(i)] = t[f(i) - Len(s)]
      <4> HIDE DEF f
      <4>1. f(i) \in 1 .. (Len(s) + Len(t)) /\ ~ (f(i) <= Len(s))
        BY <1>1, <1>5, <3>1
      <4> QED
        BY <1>5, <4>1
    <3> HIDE DEF f
    <3> QED
      BY <1>3, <3>1, <3>2, <3>3
  <2> QED
    BY <1>1, <1>6, <2>1, <2>2, <2>3
<1>9. \A i, j \in 1 .. Len(d) : i < j => f(i) < f(j)
  BY <1>1
<1> HIDE DEF f
<1>10. Growing(u, v)
  <2>1. \A i, j \in 1 .. Len(d) : i < j => d[i] < d[j]
    BY <1>7, <1>8, <1>9
  <2> QED
    BY <2>1 DEF Growing, d
<1> QED
  BY <1>3, <1>4, <1>10 DEF u, v, a

(* A pair keeps growing when a frame comes that is newer than all others.  *)
LEMMA GrowingAppend ==
  ASSUME NEW n \in Nat, NEW s \in Seq(1 .. n), NEW t \in Seq(1 .. n), Growing(s, t)
  PROVE  /\ Append(t, n + 1) \in Seq(1 .. n + 1)
         /\ Len(Append(t, n + 1)) = Len(t) + 1
         /\ Growing(s, Append(t, n + 1))
<1> DEFINE v == Append(t, n + 1)
           c == s \o t
           d == s \o v
<1>0. 1 .. n \subseteq 1 .. n + 1 /\ n + 1 \in 1 .. n + 1
  OBVIOUS
<1>1. /\ s \in Seq(1 .. n + 1) /\ t \in Seq(1 .. n + 1)
      /\ Len(s) \in Nat /\ Len(t) \in Nat
  BY <1>0, SeqMonotonic, LenProperties
<1>2. /\ v \in Seq(1 .. n + 1) /\ Len(v) = Len(t) + 1
      /\ \A i \in 1 .. Len(t) : v[i] = t[i]
      /\ v[Len(t) + 1] = n + 1
  BY <1>0, <1>1, AppendProperties
<1> HIDE DEF v
<1>3. /\ c \in Seq(1 .. n) /\ Len(c) = Len(s) + Len(t)
      /\ \A i \in 1 .. (Len(s) + Len(t)) : c[i] = IF i <= Len(s) THEN s[i] ELSE t[i - Len(s)]
  BY ConcatProperties
<1>4. /\ Len(d) = Len(s) + Len(v)
      /\ \A i \in 1 .. (Len(s) + Len(v)) : d[i] = IF i <= Len(s) THEN s[i] ELSE v[i - Len(s)]
  BY <1>1, <1>2, ConcatProperties
<1>5. /\ \A i, j \in 1 .. Len(c) : i < j => c[i] < c[j]
      /\ \A i \in 1 .. Len(c) : c[i] \in 1 .. n
  BY <1>3, ElementOfSeq DEF Growing
<1> HIDE DEF c, d
<1>6. ASSUME NEW i \in 1 .. Len(c)
      PROVE  d[i] = c[i]
  <2>1. CASE i <= Len(s)
    <3>1. i \in 1 .. (Len(s) + Len(v)) /\ i \in 1 .. (Len(s) + Len(t))
      BY <1>1, <1>2, <1>3
    <3> QED
      BY <1>3, <1>4, <2>1, <3>1
  <2>2. CASE i > Len(s)
    <3>1. (i - Len(s)) \in 1 .. Len(t) /\ ~ (i <= Len(s)) /\ i \in 1 .. (Len(s) + Len(v))
      BY <1>1, <1>2, <1>3, <2>2
    <3> QED
      BY <1>2, <1>3, <1>4, <3>1
  <2> QED
    BY <1>1, <1>3, <2>1, <2>2
<1>7. /\ Len(d) = Len(c) + 1 /\ Len(c) \in Nat
      /\ d[Len(c) + 1] = n + 1
  <2>1. /\ Len(d) = Len(c) + 1 /\ Len(c) \in Nat
        /\ Len(c) + 1 \in 1 .. (Len(s) + Len(v)) /\ ~ (Len(c) + 1 <= Len(s))
        /\ (Len(c) + 1) - Len(s) = Len(t) + 1
    BY <1>1, <1>2, <1>3, <1>4
  <2> QED
    BY <1>2, <1>4, <2>1
<1>8. ASSUME NEW i \in 1 .. Len(d), NEW j \in 1 .. Len(d), i < j
      PROVE  d[i] < d[j]
  <2>1. Len(d) = Len(c) + 1 /\ Len(c) \in Nat
    BY <1>7
  <2>2. i \in 1 .. Len(c) /\ (j \in 1 .. Len(c) \/ j = Len(c) + 1)
    BY ONLY <1>8, <2>1, i \in 1 .. Len(d), j \in 1 .. Len(d)
  <2>3. d[i] = c[i] /\ c[i] \in 1 .. n
    BY <1>5, <1>6, <2>2
  <2>4. CASE j \in 1 .. Len(c)
    <3>1. d[j] = c[j]
      BY <1>6, <2>4
    <3>2. c[i] < c[j]
      BY <1>5, <1>8, <2>2, <2>4
    <3> QED
      BY <2>3, <3>1, <3>2
  <2>5. CASE j = Len(c) + 1
    BY <1>7, <2>3, <2>5
  <2> QED
    BY <2>2, <2>4, <2>5
<1> QED
  BY <1>2, <1>8 DEF Growing, v, d

----------------------------------------------------------------------------
(* The frames of one reader: what it got, g, what waits for it, l, and how *)
(* many it will never get, x, when n have been sent.                       *)
Kept(g, l, x, n) ==
  /\ g \in Seq(1 .. n) /\ l \in Seq(1 .. n) /\ x \in 0 .. n
  /\ Len(l) <= LogMax
  /\ Growing(g, l)
  /\ Len(g) + Len(l) + x = n

LEMMA KeptPop ==
  ASSUME NEW n \in Nat, NEW g, NEW l, NEW x, Kept(g, l, x, n),
         NEW p \in 0 .. Len(l), NEW k \in 0 .. p
  PROVE  Kept(g \o SubSeq(l, 1, k), SubSeq(l, p + 1, Len(l)), x + (p - k), n)
<1> DEFINE u == g \o SubSeq(l, 1, k)
           v == SubSeq(l, p + 1, Len(l))
<1>1. /\ g \in Seq(1 .. n) /\ l \in Seq(1 .. n) /\ x \in 0 .. n /\ Growing(g, l)
      /\ Len(l) <= LogMax /\ Len(g) + Len(l) + x = n
  BY DEF Kept
<1>2. /\ u \in Seq(1 .. n) /\ v \in Seq(1 .. n) /\ Growing(u, v)
      /\ Len(u) = Len(g) + k /\ Len(v) = Len(l) - p
  BY <1>1, GrowingPop
<1> HIDE DEF u, v
<1>3. Len(g) \in Nat /\ Len(l) \in Nat
  BY <1>1, LenProperties
<1>4. /\ Len(v) <= LogMax /\ x + (p - k) \in 0 .. n
      /\ Len(u) + Len(v) + (x + (p - k)) = n
  BY <1>1, <1>2, <1>3, ServerAssumption
<1>5. Kept(u, v, x + (p - k), n)
  BY <1>2, <1>4 DEF Kept
<1> QED
  BY <1>5 DEF u, v

LEMMA KeptPush ==
  ASSUME NEW n \in Nat, NEW g, NEW l, NEW x, Kept(g, l, x, n)
  PROVE  Kept(g, Fifo!Push(l, n + 1), x + (IF Len(l) = LogMax THEN 1 ELSE 0), n + 1)
<1>1. /\ g \in Seq(1 .. n) /\ l \in Seq(1 .. n) /\ x \in 0 .. n /\ Growing(g, l)
      /\ Len(l) <= LogMax /\ Len(g) + Len(l) + x = n
  BY DEF Kept
<1>2. Len(g) \in Nat /\ Len(l) \in Nat /\ 1 .. n \subseteq 1 .. n + 1
  BY <1>1, LenProperties
<1>3. g \in Seq(1 .. n + 1)
  BY <1>1, <1>2, SeqMonotonic
<1>4. CASE Len(l) < LogMax
  <2> DEFINE v == Append(l, n + 1)
  <2>1. v \in Seq(1 .. n + 1) /\ Len(v) = Len(l) + 1 /\ Growing(g, v)
    BY <1>1, GrowingAppend
  <2> HIDE DEF v
  <2>2. /\ Len(v) <= LogMax /\ x + 0 \in 0 .. n + 1
        /\ Len(g) + Len(v) + (x + 0) = n + 1
    BY <1>1, <1>2, <1>4, <2>1, ServerAssumption
  <2>3. Kept(g, v, x + 0, n + 1)
    BY <1>3, <2>1, <2>2 DEF Kept
  <2>4. Fifo!Push(l, n + 1) = v /\ ~ (Len(l) = LogMax)
    BY <1>2, <1>4, ServerAssumption DEF Fifo!Push, v
  <2> QED
    BY <2>3, <2>4
<1>5. CASE Len(l) = LogMax
  <2> DEFINE w == SubSeq(l, 2, Len(l))
             v == Append(w, n + 1)
  <2>1. 1 \in 0 .. Len(l) /\ 0 \in 0 .. 1 /\ l # <<>> /\ 1 + 1 = 2
    <3>1. Len(l) >= 1
      BY <1>2, <1>5, ServerAssumption
    <3> QED
      BY <1>1, <1>2, <3>1
  <2>2. g \o SubSeq(l, 1, 0) = g
    BY <1>1, SubSeqEmpty, ConcatEmptySeq
  <2>3. w \in Seq(1 .. n) /\ Growing(g, w) /\ Len(w) = Len(l) - 1
    <3>1. /\ SubSeq(l, 1 + 1, Len(l)) \in Seq(1 .. n)
          /\ Growing(g \o SubSeq(l, 1, 0), SubSeq(l, 1 + 1, Len(l)))
          /\ Len(SubSeq(l, 1 + 1, Len(l))) = Len(l) - 1
      <4>1. \A p \in 0 .. Len(l) : \A k \in 0 .. p :
              /\ SubSeq(l, p + 1, Len(l)) \in Seq(1 .. n)
              /\ Growing(g \o SubSeq(l, 1, k), SubSeq(l, p + 1, Len(l)))
              /\ Len(SubSeq(l, p + 1, Len(l))) = Len(l) - p
        BY <1>1, GrowingPop
      <4> QED
        BY ONLY <2>1, <4>1
    <3> QED
      BY <2>1, <2>2, <3>1
  <2> HIDE DEF w
  <2>4. v \in Seq(1 .. n + 1) /\ Len(v) = Len(w) + 1 /\ Growing(g, v)
    BY <1>1, <2>3, GrowingAppend
  <2> HIDE DEF v
  <2>5. /\ Len(v) <= LogMax /\ x + 1 \in 0 .. n + 1
        /\ Len(g) + Len(v) + (x + 1) = n + 1
    <3>1. Len(v) = Len(l)
      BY <1>2, <2>3, <2>4
    <3>2. x + 1 \in 0 .. n + 1
      BY <1>1
    <3>3. Len(g) + Len(v) + (x + 1) = n + 1
      <4>1. x \in Nat /\ Len(g) + Len(l) + x = n
        BY <1>1
      <4> QED
        BY ONLY n \in Nat, <1>2, <3>1, <4>1
    <3> QED
      BY <1>1, <3>1, <3>2, <3>3
  <2>6. Kept(g, v, x + 1, n + 1)
    BY <1>3, <2>4, <2>5 DEF Kept
  <2>7. Tail(l) = w
    BY <1>1, <2>1, TailIsSubSeq DEF w
  <2>8. Fifo!Push(l, n + 1) = v
    BY <1>5, <2>7, ServerAssumption DEF Fifo!Push, v
  <2> QED
    BY <1>5, <2>6, <2>8
<1> QED
  BY <1>1, <1>2, <1>4, <1>5, ServerAssumption

----------------------------------------------------------------------------
(* The inductive invariant: where the program is, and the frames.          *)

Places ==
  /\ at \in {"init", "top", "server", "runtime", "application", "sleep", "ended"}
  /\ keepRunning \in BOOLEAN
  /\ processed \in 0 .. MaxCmds /\ bounced \in BOOLEAN
  /\ inbox \in Seq(Datagram) /\ Len(inbox) <= InboxMax

Frames ==
  /\ sent \in 0 .. MaxFrames
  /\ log = [r \in Reader |-> log[r]]
  /\ got = [r \in Reader |-> got[r]]
  /\ lost = [r \in Reader |-> lost[r]]
  /\ \A r \in Reader : Kept(got[r], log[r], lost[r], sent)

IInv == Places /\ Frames

LEMMA IInvImplies == IInv => TypeOK /\ EachFrameOnce
<1> SUFFICES ASSUME IInv PROVE TypeOK /\ EachFrameOnce
  OBVIOUS
<1>1. \A r \in Reader :
        /\ got[r] \in Seq(1 .. sent) /\ log[r] \in Seq(1 .. sent)
        /\ lost[r] \in 0 .. sent /\ Len(log[r]) <= LogMax
        /\ Growing(got[r], log[r]) /\ Len(got[r]) + Len(log[r]) + lost[r] = sent
  BY DEF IInv, Frames, Kept
<1>2. /\ log \in [Reader -> Seq(1 .. sent)] /\ got \in [Reader -> Seq(1 .. sent)]
      /\ lost \in [Reader -> 0 .. sent]
  BY <1>1 DEF IInv, Frames
<1>3. TypeOK
  BY <1>1, <1>2 DEF IInv, Places, Frames, TypeOK
<1>4. EachFrameOnce
  BY <1>1 DEF EachFrameOnce, Growing
<1> QED
  BY <1>3, <1>4

LEMMA InitIInv == Init => IInv
<1> SUFFICES ASSUME Init PROVE IInv
  OBVIOUS
<1>1. <<>> \in Seq(Datagram) /\ Len(<<>>) = 0 /\ <<>> \in Seq(1 .. 0)
  BY EmptySeq
<1>2. Places
  <2>1. keepRunning \in BOOLEAN /\ bounced \in BOOLEAN
    BY Zenon DEF Init
  <2>2. processed \in 0 .. MaxCmds /\ inbox \in Seq(Datagram) /\ Len(inbox) <= InboxMax
    BY <1>1, ServerAssumption DEF Init
  <2>3. at = "init"
    BY DEF Init
  <2> QED
    BY <2>1, <2>2, <2>3 DEF Places
<1>3. Kept(<<>>, <<>>, 0, 0)
  <2>1. <<>> \o <<>> = <<>>
    BY ConcatEmptySeq, <1>1
  <2>2. Growing(<<>>, <<>>)
    BY <1>1, <2>1 DEF Growing
  <2> QED
    BY <1>1, <2>2, ServerAssumption DEF Kept
<1>4. Frames
  <2>1. /\ sent = 0 /\ log = [r \in Reader |-> <<>>]
        /\ got = [r \in Reader |-> <<>>] /\ lost = [r \in Reader |-> 0]
    BY DEF Init
  <2> QED
    BY <1>3, <2>1, ServerAssumption DEF Frames
<1> QED
  BY <1>2, <1>4 DEF IInv

(* The frames of every reader after a pop, which is about one of them.     *)
LEMMA PopFrames ==
  ASSUME Frames, NEW r \in Reader, NEW p \in 0 .. Len(log[r]), NEW k \in 0 .. p,
         NEW arrives \in BOOLEAN, Pop(r, p, k, arrives)
  PROVE  Frames'
<1> DEFINE shown == IF arrives THEN k ELSE 0
<1>1. shown \in 0 .. p
  <2>1. Kept(got[r], log[r], lost[r], sent)
    BY DEF Frames
  <2>2. Len(log[r]) \in Nat
    BY <2>1, LenProperties DEF Kept
  <2> QED
    BY <2>2
<1>2. /\ log' = [log EXCEPT ![r] = SubSeq(@, p + 1, Len(@))]
      /\ got' = [got EXCEPT ![r] = @ \o SubSeq(log[r], 1, shown)]
      /\ lost' = [lost EXCEPT ![r] = @ + (p - shown)]
      /\ sent' = sent
  BY DEF Pop
<1> HIDE DEF shown
<1>3. /\ sent \in Nat /\ sent \in 0 .. MaxFrames
      /\ \A q \in Reader : Kept(got[q], log[q], lost[q], sent)
      /\ log = [q \in Reader |-> log[q]]
      /\ got = [q \in Reader |-> got[q]]
      /\ lost = [q \in Reader |-> lost[q]]
  BY ServerAssumption DEF Frames
<1>4. Kept(got'[r], log'[r], lost'[r], sent')
  <2>1. Kept(got[r] \o SubSeq(log[r], 1, shown), SubSeq(log[r], p + 1, Len(log[r])),
             lost[r] + (p - shown), sent)
    BY <1>1, <1>3, KeptPop
  <2> QED
    BY <1>2, <1>3, <2>1
<1>5. ASSUME NEW q \in Reader, q # r
      PROVE  Kept(got'[q], log'[q], lost'[q], sent')
  BY <1>2, <1>3, <1>5
<1> QED
  BY <1>2, <1>3, <1>4, <1>5 DEF Frames

LEMMA SentFrames ==
  ASSUME Frames, FrameSent
  PROVE  Frames'
<1>1. /\ sent < MaxFrames /\ sent' = sent + 1 /\ got' = got
      /\ log' = [r \in Reader |-> Fifo!Push(log[r], sent + 1)]
      /\ lost' = [r \in Reader |-> lost[r] + IF Len(log[r]) = LogMax THEN 1 ELSE 0]
  BY DEF FrameSent
<1>2. sent \in Nat /\ sent' \in 0 .. MaxFrames /\ got' = [r \in Reader |-> got'[r]]
  BY <1>1, ServerAssumption DEF Frames
<1>3. ASSUME NEW r \in Reader
      PROVE  Kept(got'[r], log'[r], lost'[r], sent')
  <2>1. Kept(got[r], log[r], lost[r], sent)
    BY DEF Frames
  <2>2. Kept(got[r], Fifo!Push(log[r], sent + 1),
             lost[r] + (IF Len(log[r]) = LogMax THEN 1 ELSE 0), sent + 1)
    BY <1>2, <2>1, KeptPush
  <2> QED
    BY <1>1, <2>2
<1> QED
  BY <1>1, <1>2, <1>3 DEF Frames

LEMMA StillFrames ==
  ASSUME Frames, UNCHANGED can
  PROVE  Frames'
BY DEF Frames, can

LEMMA ApplicationFrames ==
  ASSUME Frames, Application
  PROVE  Frames'
BY SentFrames, StillFrames DEF Application, NoFrameSent

----------------------------------------------------------------------------
(* The length of a burst.                                                  *)

(* A set of natural numbers has a least element.                           *)
LEMMA LeastElement ==
  ASSUME NEW T \in SUBSET Nat, T # {}
  PROVE  \E x \in T : \A y \in T : x <= y
<1>1. IsWellFoundedOn(OpToRel(<, Nat), Nat)
  BY NatLessThanWellFounded
<1>2. PICK x \in T : \A y \in T : ~ (<<y, x>> \in OpToRel(<, Nat))
  BY <1>1, WFMin
<1>3. \A y \in T : ~ (y < x)
  BY <1>2 DEF OpToRel
<1> QED
  BY <1>3

(* The branch that serves a command is the first that accepts it.          *)
LEMMA BranchAccepts ==
  ASSUME NEW c,
         BranchOf(c) # <<>> \/ \E i \in 1 .. Len(Branches) : Accepts(Branches[i], c)
  PROVE  \E i \in 1 .. Len(Branches) :
           /\ BranchOf(c) = Branches[i].name /\ Accepts(Branches[i], c)
           /\ \A j \in 1 .. Len(Branches) : Accepts(Branches[j], c) => i <= j
<1> DEFINE I == {i \in 1 .. Len(Branches) : Accepts(Branches[i], c)}
<1>1. BranchOf(c) = IF (IF I # {} THEN Min(I) ELSE 0) = 0
                    THEN <<>> ELSE Branches[IF I # {} THEN Min(I) ELSE 0].name
  BY Zenon DEF BranchOf, SelectInSeq
<1>2. I # {}
  BY <1>1
<1>3. I \in SUBSET Nat /\ 0 \notin I
  <2>1. Len(Branches) = 35
    BY DEF Branches
  <2>2. 1 .. Len(Branches) \subseteq Nat /\ 0 \notin 1 .. Len(Branches)
    BY <2>1
  <2> QED
    BY <2>2
<1>4. \E x \in I : \A y \in I : x <= y
  <2> HIDE DEF I
  <2> QED
    BY <1>2, <1>3, LeastElement
<1>5. Min(I) \in I /\ \A y \in I : Min(I) <= y
  BY <1>4 DEF Min
<1>6. BranchOf(c) = Branches[Min(I)].name
  BY <1>1, <1>2, <1>3, <1>5
<1> QED
  BY <1>5, <1>6

(* The branches of bursts ask for a number.                                *)
LEMMA BurstBranches ==
  \A i \in 1 .. Len(Branches) : Branches[i].name \in Bursts => Branches[i].numbers = 1
<1>1. \A i \in 1 .. 35 : i \notin {30, 31} =>
        Branches[i].name[1] # "POP" \/ Len(Branches[i].name) = 3
  BY DEF Branches
<1>2. Branches[30].numbers = 1 /\ Branches[31].numbers = 1 /\ Len(Branches) = 35
  BY DEF Branches
<1>3. \A n \in Bursts : n[1] = "POP" /\ Len(n) # 3
  BY DEF Bursts
<1> QED
  BY <1>1, <1>2, <1>3

LEMMA BurstNumber ==
  ASSUME NEW c \in Datagram, BranchOf(c) \in Bursts
  PROVE  c.args[1] \in Int
<1>1. BranchOf(c) # <<>>
  BY DEF Bursts
<1>2. PICK i \in 1 .. Len(Branches) :
        BranchOf(c) = Branches[i].name /\ Accepts(Branches[i], c)
  BY <1>1, BranchAccepts
<1>3. Branches[i].numbers = 1
  BY <1>2, BurstBranches
<1>4. Len(c.args) >= 1
  BY <1>2, <1>3 DEF Accepts
<1>5. c.args \in Seq(Int)
  BY ServerAssumption
<1> QED
  BY <1>4, <1>5, ElementOfSeq

----------------------------------------------------------------------------
(* The branch of a command.                                                *)

(* A prefix agrees with the sequence, word by word.                        *)
LEMMA PrefixWords ==
  ASSUME NEW s, NEW t, Len(s) \in Nat, IsPrefix(s, t)
  PROVE  Len(s) <= Len(t) /\ \A k \in 1 .. Len(s) : t[k] = s[k]
<1> DEFINE W == {s[k] : k \in 1 .. Len(s)} \cup {t[k] : k \in 1 .. Len(s)}
           p == SubSeq(s, 1, Len(s))
           q == SubSeq(t, 1, Len(s))
<1>1. Len(s) <= Len(t) /\ p = q
  BY DEF IsPrefix
<1>2. \A k \in 1 .. Len(s) : s[k] \in W /\ t[k] \in W
  OBVIOUS
<1>3. \A k \in 1 .. Len(s) : p[k] = s[k] /\ q[k] = t[k]
  <2> HIDE DEF W
  <2>1. /\ \A k \in 1 .. (Len(s) - 1) + 1 : p[k] = s[(1 + k) - 1]
        /\ \A k \in 1 .. (Len(s) - 1) + 1 : q[k] = t[(1 + k) - 1]
    BY <1>2, SubSeqProperties
  <2> QED
    BY <2>1
<1> QED
  BY <1>1, <1>3

LEMMA NameLength == \A i \in 1 .. 35 : Len(Branches[i].name) \in 1 .. 5
BY DEF Branches

(* The branches with the first words of one that is a strncmp.             *)
LEMMA NamesByWord ==
  \A j \in 1 .. 35 : LET m == Branches[j].name IN
    /\ m[1] = "PING" => j = 1
    /\ m[1] = "HELP" => j = 35
    /\ m[1] = "INJECT" => j \in {23, 24} /\ (j = 24 => Len(m) = 2)
    /\ m[1] = "GET" /\ m[2] = "ALL" => j = 25
    /\ m[1] = "GET" /\ m[2] = "CAN" =>
         /\ j \in 26 .. 28
         /\ m[3] = CASE j = 26 -> "TX" [] j = 27 -> "BROKER" [] j = 28 -> "RX"
    /\ m[1] = "POP" => j \in 30 .. 32
    /\ m[1] = "CLEAR" =>
         /\ j \in {33, 34}
         /\ m[3] = IF j = 33 THEN "TX" ELSE "BROKER"
BY DEF Branches

(* A comparison that looks only at the beginning of a text and could take  *)
(* the command of another branch stands after that branch in the chain.    *)
LEMMA LongerFirst ==
  ASSUME NEW i \in 1 .. 35, NEW j \in 1 .. 35, Branches[i].numbers = 0,
         IsPrefix(Branches[i].name, Branches[j].name)
  PROVE  Branches[i].name = Branches[j].name \/ j < i
<1> DEFINE n == Branches[i].name
           m == Branches[j].name
<1>1. Len(n) \in 1 .. 5
  BY NameLength
<1>2. Len(n) <= Len(m) /\ \A k \in 1 .. Len(n) : m[k] = n[k]
  BY <1>1, PrefixWords
<1>3. i \in {1, 23, 24, 25, 26, 27, 28, 32, 33, 34, 35}
  BY DEF Branches
<1>4. m[1] = n[1] /\ (Len(n) >= 2 => m[2] = n[2]) /\ (Len(n) >= 3 => m[3] = n[3])
  BY <1>1, <1>2
<1>5. CASE i = 1
  <2>1. n[1] = "PING"
    BY <1>5 DEF Branches
  <2>2. j = 1
    <3>1. m[1] = "PING"
      BY <1>4, <2>1
    <3> QED
      BY <3>1, NamesByWord, Zenon
  <2> QED
    BY <1>5, <2>2
<1>6. CASE i = 35
  <2>1. n[1] = "HELP"
    BY <1>6 DEF Branches
  <2>2. j = 35
    <3>1. m[1] = "HELP"
      BY <1>4, <2>1
    <3> QED
      BY <3>1, NamesByWord, Zenon
  <2> QED
    BY <1>6, <2>2
<1>7. CASE i \in {23, 24}
  <2>1. n[1] = "INJECT" /\ (i = 23 => n[3] = "EX" /\ Len(n) = 3)
    BY <1>7 DEF Branches
  <2>2. j \in {23, 24} /\ (j = 24 => Len(m) = 2)
    <3>1. m[1] = "INJECT"
      BY <1>4, <2>1
    <3> QED
      BY <3>1, NamesByWord, Zenon
  <2> QED
    BY <1>2, <1>7, <2>1, <2>2
<1>8. CASE i = 25
  <2>1. n[1] = "GET" /\ n[2] = "ALL" /\ Len(n) = 2
    BY <1>8 DEF Branches
  <2>2. j = 25
    <3>1. m[1] = "GET" /\ m[2] = "ALL"
      BY <1>4, <2>1
    <3> QED
      BY <3>1, NamesByWord, Zenon
  <2> QED
    BY <1>8, <2>2
<1>9. CASE i \in 26 .. 28
  <2>1. /\ n[1] = "GET" /\ n[2] = "CAN" /\ Len(n) \in {4, 5}
        /\ n[3] = CASE i = 26 -> "TX" [] i = 27 -> "BROKER" [] i = 28 -> "RX"
    BY <1>9 DEF Branches
  <2>2. /\ j \in 26 .. 28
        /\ m[3] = CASE j = 26 -> "TX" [] j = 27 -> "BROKER" [] j = 28 -> "RX"
    <3>1. m[1] = "GET" /\ m[2] = "CAN"
      BY <1>4, <2>1
    <3> QED
      BY <3>1, NamesByWord, Zenon
  <2> QED
    BY <1>4, <1>9, <2>1, <2>2
<1>10. CASE i = 32
  <2>1. n[1] = "POP" /\ n[3] = "TX" /\ Len(n) = 3
    BY <1>10 DEF Branches
  <2>2. j \in 30 .. 32
    <3>1. m[1] = "POP"
      BY <1>4, <2>1
    <3> QED
      BY <3>1, NamesByWord, Zenon
  <2> QED
    BY <1>10, <2>2
<1>11. CASE i \in {33, 34}
  <2>1. /\ n[1] = "CLEAR" /\ Len(n) \in {3, 4}
        /\ n[3] = IF i = 33 THEN "TX" ELSE "BROKER"
    BY <1>11 DEF Branches
  <2>2. /\ j \in {33, 34}
        /\ m[3] = IF j = 33 THEN "TX" ELSE "BROKER"
    <3>1. m[1] = "CLEAR"
      BY <1>4, <2>1
    <3> QED
      BY <3>1, NamesByWord, Zenon
  <2> QED
    BY <1>4, <1>11, <2>1, <2>2
<1> QED
  BY <1>3, <1>5, <1>6, <1>7, <1>8, <1>9, <1>10, <1>11

(* Some branch has the name n and asks for no more than k numbers.         *)
HasBranch(n, k) ==
  \E j \in 1 .. 35 : Branches[j].name = n /\ Branches[j].numbers <= k

(* Every command that is offered has a branch.                             *)
LEMMA OfferedHasBranch == \A d \in Documented : HasBranch(d.name, Len(d.args))
<1> DEFINE C(n, k) == [name |-> n, args |-> [i \in 1 .. k |-> 0]]
<1>1. /\ HasBranch(<<"PING">>, 0)
      /\ HasBranch(<<"HELP">>, 0)
      /\ HasBranch(<<"GET", "ALL">>, 0)
      /\ HasBranch(<<"SET", "ANA">>, 2)
      /\ HasBranch(<<"GET", "ANA">>, 1)
      /\ HasBranch(<<"SET", "PWM">>, 2)
      /\ HasBranch(<<"GET", "PWM">>, 1)
      /\ HasBranch(<<"SET", "PWM", "FREQ">>, 2)
      /\ HasBranch(<<"GET", "PWM", "FREQ">>, 1)
  BY DEF HasBranch, Branches
<1>2. /\ HasBranch(<<"SET", "PWM", "PULSES">>, 2)
      /\ HasBranch(<<"GET", "PWM", "PULSES">>, 1)
      /\ HasBranch(<<"SET", "IN", "DIG">>, 2)
      /\ HasBranch(<<"GET", "IN", "DIG">>, 1)
      /\ HasBranch(<<"TRIG", "IN", "EVNT">>, 1)
      /\ HasBranch(<<"SET", "OUT", "DIG">>, 2)
      /\ HasBranch(<<"GET", "OUT", "DIG">>, 1)
      /\ HasBranch(<<"SET", "IN", "FREQ">>, 2)
      /\ HasBranch(<<"GET", "IN", "FREQ">>, 1)
  BY DEF HasBranch, Branches
<1>3. /\ HasBranch(<<"SET", "ENC", "POS">>, 3)
      /\ HasBranch(<<"GET", "ENC", "POS">>, 1)
      /\ HasBranch(<<"SET", "ENC", "SPEED">>, 2)
      /\ HasBranch(<<"GET", "ENC", "SPEED">>, 1)
      /\ HasBranch(<<"SET", "ENC", "MAP">>, 3)
      /\ HasBranch(<<"SET", "ENC", "MAP">>, 4)
      /\ HasBranch(<<"INJECT", "CAN">>, 3)
      /\ HasBranch(<<"INJECT", "CAN", "EX">>, 4)
      /\ HasBranch(<<"GET", "CAN", "TX", "COUNT">>, 0)
  BY DEF HasBranch, Branches
<1>4. /\ HasBranch(<<"GET", "CAN", "BROKER", "TX", "COUNT">>, 0)
      /\ HasBranch(<<"GET", "CAN", "RX", "REG", "COUNT">>, 0)
      /\ HasBranch(<<"DUMP", "CAN", "RX", "REG", "BURST">>, 1)
      /\ HasBranch(<<"POP", "CAN", "TX">>, 0)
      /\ HasBranch(<<"POP", "CAN", "TX", "BURST">>, 1)
      /\ HasBranch(<<"POP", "CAN", "BROKER", "TX", "BURST">>, 1)
      /\ HasBranch(<<"CLEAR", "CAN", "TX">>, 0)
      /\ HasBranch(<<"CLEAR", "CAN", "BROKER", "TX">>, 0)
  BY DEF HasBranch, Branches
<1>5. \A k \in Nat : \A n : HasBranch(n, k) => HasBranch(C(n, k).name, Len(C(n, k).args))
  OBVIOUS
<1>6. 0 \in Nat /\ 1 \in Nat /\ 2 \in Nat /\ 3 \in Nat /\ 4 \in Nat
  OBVIOUS
<1> QED
  BY <1>1, <1>2, <1>3, <1>4, <1>5, <1>6, ZenonT(60) DEF Documented

(* A command with the name of one that is offered and at least as many     *)
(* numbers, whatever they are and whatever follows them, reaches the       *)
(* branch of its own name, and not one whose name its name begins with.    *)
THEOREM ReachesOwnBranch ==
  ASSUME NEW d \in Documented, NEW c, c.name = d.name,
         Len(c.args) \in Nat, Len(c.args) >= Len(d.args)
  PROVE  BranchOf(c) = c.name
<1>1. Len(Branches) = 35 /\ \A i \in 1 .. 35 : Branches[i].numbers \in 0 .. 4
  BY DEF Branches
<1>2. Len(d.args) \in Nat
  BY DEF Documented
<1>3. PICK j \in 1 .. 35 : Branches[j].name = d.name /\ Branches[j].numbers <= Len(d.args)
  BY OfferedHasBranch DEF HasBranch
<1>4. Accepts(Branches[j], c)
  <2>1. Len(c.args) >= Branches[j].numbers
    <3>0. Branches[j].numbers \in 0 .. 4
      BY <1>1, Zenon
    <3>1. Branches[j].numbers \in Int
      BY <3>0
    <3>2. Len(c.args) \in Int /\ Len(d.args) \in Int
      BY <1>2
    <3> QED
      BY ONLY <1>3, <3>1, <3>2, Len(c.args) >= Len(d.args)
  <2>2. IsPrefix(c.name, c.name)
    <3>1. Len(Branches[j].name) \in 1 .. 5
      BY NameLength
    <3> QED
      BY <1>3, <3>1 DEF IsPrefix
  <2> QED
    BY <1>3, <2>1, <2>2 DEF Accepts
<1>5. PICK i \in 1 .. 35 : /\ BranchOf(c) = Branches[i].name /\ Accepts(Branches[i], c)
                           /\ i <= j
  BY <1>1, <1>4, BranchAccepts
<1>6. CASE Branches[i].numbers # 0
  BY <1>5, <1>6 DEF Accepts
<1>7. CASE Branches[i].numbers = 0
  <2>1. IsPrefix(Branches[i].name, Branches[j].name)
    BY <1>3, <1>5, <1>7 DEF Accepts
  <2>2. Branches[i].name = Branches[j].name
    <3>1. i <= j
      BY <1>5, Zenon
    <3>2. ~ (j < i)
      BY ONLY <3>1, i \in 1 .. 35, j \in 1 .. 35
    <3> QED
      BY ONLY <1>5, <1>7, <2>1, <3>2, LongerFirst, i \in 1 .. 35, j \in 1 .. 35, Zenon
  <2> QED
    BY <1>3, <1>5, <2>2
<1> QED
  BY <1>6, <1>7

----------------------------------------------------------------------------
(* One step.                                                               *)

(* The command that is taken is one of those clients send.                 *)
LEMMA Taken ==
  ASSUME Places, Receive
  PROVE  /\ Command \in Datagram /\ Served = BranchOf(Command)
         /\ Places'
<1>1. /\ inbox \in Seq(Datagram) /\ inbox # <<>> /\ Len(inbox) <= InboxMax
      /\ inbox' = Tail(inbox)
  BY DEF Places, Receive
<1>2. /\ Head(inbox) \in Datagram /\ inbox' \in Seq(Datagram)
      /\ Len(inbox') = Len(inbox) - 1 /\ Len(inbox) \in Nat
  BY <1>1, HeadTailProperties, LenProperties
<1>3. Len(inbox') <= InboxMax
  BY <1>1, <1>2, ServerAssumption
<1>4. processed' \in 0 .. MaxCmds
  BY ServerAssumption DEF Places, Receive
<1>5. at' = at /\ keepRunning' = keepRunning /\ bounced' \in BOOLEAN
  BY Zenon DEF Places, Receive
<1>6. Places'
  BY <1>2, <1>3, <1>4, <1>5 DEF Places
<1> QED
  BY <1>2, <1>6 DEF Command, Served, Handler

LEMMA ReaderOfReader == \A name : ReaderOf(name) \in Reader
BY DEF ReaderOf, Reader

LEMMA BurstFrames ==
  ASSUME IInv, NEW fit \in ReplyMin .. BurstMax, NEW arrives \in BOOLEAN,
         PopBurst(fit, arrives)
  PROVE  Frames'
<1> DEFINE r    == ReaderOf(Served)
           asks == Command.args[1]
           most == IF asks < 1 THEN 1 ELSE IF asks > BurstMax THEN BurstMax ELSE asks
           n    == IF most < Len(log[r]) THEN most ELSE Len(log[r])
<1>1. Command \in Datagram /\ BranchOf(Command) \in Bursts
  BY Taken DEF PopBurst, IInv
<1>2. r \in Reader /\ asks \in Int /\ fit \in Nat /\ Frames
  BY <1>1, BurstNumber, ReaderOfReader, ServerAssumption DEF IInv
<1>3. IF fit < n THEN Pop(r, fit + 1, fit, arrives) ELSE Pop(r, n, n, arrives)
  BY DEF PopBurst
<1> HIDE DEF r, asks
<1>4. Len(log[r]) \in Nat
  <2>1. Kept(got[r], log[r], lost[r], sent)
    BY <1>2 DEF Frames
  <2> QED
    BY <2>1, LenProperties DEF Kept
<1>5. most \in Nat
  BY <1>2, ServerAssumption
<1> HIDE DEF most
<1>6. n \in 0 .. Len(log[r])
  BY <1>4, <1>5
<1> HIDE DEF n
<1>7. CASE fit < n
  <2>1. fit + 1 \in 0 .. Len(log[r]) /\ fit \in 0 .. fit + 1
    BY <1>2, <1>4, <1>6, <1>7
  <2>2. Pop(r, fit + 1, fit, arrives)
    BY <1>3, <1>7
  <2> QED
    BY <1>2, <2>1, <2>2, PopFrames
<1>8. CASE ~ (fit < n)
  <2>1. n \in 0 .. n
    BY <1>6
  <2>2. Pop(r, n, n, arrives)
    BY <1>3, <1>8
  <2> QED
    BY <1>2, <1>6, <2>1, <2>2, PopFrames
<1> QED
  BY <1>7, <1>8

LEMMA ServeFrames ==
  ASSUME IInv, Serve
  PROVE  Frames'
<1> USE DEF IInv
<1>0. \A r \in Reader : log[r] \in Seq(1 .. sent) /\ Len(log[r]) \in Nat
  BY LenProperties DEF Frames, Kept
<1>1. ASSUME NEW arrives \in BOOLEAN, PopOne(arrives)
      PROVE  Frames'
  <2>1. CASE log["ihm"] = <<>>
    BY <1>1, <2>1, StillFrames DEF PopOne
  <2>2. CASE log["ihm"] # <<>>
    <3>1. "ihm" \in Reader
      BY DEF Reader
    <3>2. 1 \in 0 .. Len(log["ihm"]) /\ 1 \in 0 .. 1
      <4>1. Len(log["ihm"]) \in Nat \ {0}
        BY <1>0, <2>2, <3>1, EmptySeq
      <4> QED
        BY <4>1
    <3>3. Pop("ihm", 1, 1, arrives)
      BY <1>1, <2>2 DEF PopOne
    <3> QED
      BY <3>1, <3>2, <3>3, PopFrames
  <2> QED
    BY <2>1, <2>2
<1>2. ASSUME NEW arrives \in BOOLEAN, NEW fit \in ReplyMin .. BurstMax,
             PopBurst(fit, arrives)
      PROVE  Frames'
  BY <1>2, BurstFrames
<1>3. CASE ClearLog
  <2> DEFINE r == ReaderOf(Served)
  <2>1. Pop(r, Len(log[r]), 0, FALSE)
    BY <1>3 DEF ClearLog
  <2>2. r \in Reader
    BY ReaderOfReader
  <2> HIDE DEF r
  <2>3. Len(log[r]) \in 0 .. Len(log[r]) /\ 0 \in 0 .. Len(log[r])
    BY <1>0, <2>2
  <2> QED
    BY <2>1, <2>2, <2>3, PopFrames
<1>4. CASE InjectCan
  BY <1>4, ApplicationFrames, StillFrames DEF InjectCan
<1>5. CASE TriggerEvent
  BY <1>5, ApplicationFrames DEF TriggerEvent
<1>6. CASE OtherCommand
  BY <1>6, StillFrames DEF OtherCommand
<1> QED
  BY <1>1, <1>2, <1>3, <1>4, <1>5, <1>6 DEF Serve

LEMMA ServePlaces ==
  ASSUME IInv, Serve
  PROVE  Places'
BY Taken DEF IInv, Serve, PopOne, PopBurst, ClearLog, InjectCan, TriggerEvent, OtherCommand

LEMMA ClientSendPlaces ==
  ASSUME Places, NEW c \in Datagram, ClientSend(c)
  PROVE  Places'
<1>1. /\ inbox \in Seq(Datagram) /\ Len(inbox) < InboxMax /\ inbox' = Append(inbox, c)
  BY DEF Places, ClientSend
<1>2. /\ inbox' \in Seq(Datagram) /\ Len(inbox') = Len(inbox) + 1 /\ Len(inbox) \in Nat
  BY <1>1, AppendProperties, LenProperties
<1>3. Len(inbox') <= InboxMax
  BY <1>1, <1>2, ServerAssumption
<1>4. UNCHANGED <<at, keepRunning, processed, bounced>>
  BY DEF ClientSend
<1> QED
  BY <1>2, <1>3, <1>4 DEF Places

(* The steps of main that are none of the server's commands.               *)
LEMMA LoopStep ==
  ASSUME IInv,
         \/ StartUp \/ StartUpFails \/ LoopTop \/ Shutdown \/ ReceiveFails
         \/ ServerStepEnd \/ RuntimeStep \/ AppCyclic \/ Sleep \/ Signal
  PROVE  IInv'
<1> USE DEF IInv
<1>1. Frames'
  BY ApplicationFrames, StillFrames
  DEF StartUp, StartUpFails, LoopTop, Shutdown, ReceiveFails, ServerStepEnd,
      RuntimeStep, AppCyclic, Sleep, Signal
<1>2. at' \in {"init", "top", "server", "runtime", "application", "sleep", "ended"}
  BY DEF Places, StartUp, StartUpFails, LoopTop, Shutdown, ReceiveFails,
         ServerStepEnd, RuntimeStep, AppCyclic, Sleep, Signal
<1>3. keepRunning' \in BOOLEAN /\ bounced' \in BOOLEAN
  BY Zenon
  DEF Places, StartUp, StartUpFails, LoopTop, Shutdown, ReceiveFails,
      ServerStepEnd, RuntimeStep, AppCyclic, Sleep, Signal
<1>4. processed' \in 0 .. MaxCmds
  BY ServerAssumption
  DEF Places, StartUp, StartUpFails, LoopTop, Shutdown, ReceiveFails,
      ServerStepEnd, RuntimeStep, AppCyclic, Sleep, Signal
<1>5. inbox' \in Seq(Datagram) /\ Len(inbox') <= InboxMax
  <2>1. <<>> \in Seq(Datagram) /\ Len(<<>>) <= InboxMax
    BY EmptySeq, ServerAssumption
  <2>2. inbox' = inbox \/ inbox' = <<>>
    BY DEF StartUp, StartUpFails, LoopTop, Shutdown, ReceiveFails, ServerStepEnd,
           RuntimeStep, AppCyclic, Sleep, Signal
  <2> QED
    BY <2>1, <2>2 DEF Places
<1> QED
  BY <1>1, <1>2, <1>3, <1>4, <1>5 DEF Places

LEMMA NextIInv == IInv /\ [Next]_vars => IInv'
<1> SUFFICES ASSUME IInv, [Next]_vars PROVE IInv'
  OBVIOUS
<1>1. CASE Main
  BY <1>1, LoopStep, ServeFrames, ServePlaces DEF Main, IInv
<1>2. CASE StartUpFails \/ Signal
  BY <1>2, LoopStep
<1>3. ASSUME NEW c \in Datagram, ClientSend(c)
      PROVE  IInv'
  BY <1>3, ClientSendPlaces, StillFrames DEF IInv, ClientSend
<1>4. CASE UNCHANGED vars
  <2>1. Places'
    BY <1>4 DEF IInv, Places, vars
  <2>2. Frames'
    BY <1>4, StillFrames DEF IInv, vars, can
  <2> QED
    BY <2>1, <2>2 DEF IInv
<1> QED
  BY <1>1, <1>2, <1>3, <1>4 DEF Next

----------------------------------------------------------------------------
(* Theorems.                                                               *)

(* A step of the server stops at its limit, the socket and the logs keep   *)
(* to their sizes, and no reader has a frame that was not sent.            *)
THEOREM TypeCorrect == Spec => []TypeOK
BY InitIInv, NextIInv, IInvImplies, PTL DEF Spec

(* Whatever clients send, in any order and number, and whatever happens to *)
(* the replies, a reader gets each frame at most once, in the order of     *)
(* transmission, and each frame it does not get is accounted for.          *)
THEOREM FramesOnce == Spec => []EachFrameOnce
BY InitIInv, NextIInv, IInvImplies, PTL DEF Spec

(* No command that HELP or the README offers is taken by the branch of     *)
(* another one.                                                            *)
THEOREM OwnBranchAlways == Spec => []OwnBranch
<1>1. \A d \in Documented : Len(d.args) \in Nat
  BY DEF Documented
<1>2. \A d \in Documented : BranchOf(d) = d.name
  <2> TAKE d \in Documented
  <2> QED
    BY <1>1, ReachesOwnBranch
<1>3. OwnBranch
  BY <1>2 DEF OwnBranch
<1> QED
  BY <1>3, PTL

(* How many steps the program still has in this turn of its loop at most.  *)
TurnLeft ==
  CASE at = "top"         -> MaxCmds + 5
    [] at = "server"      -> (MaxCmds - processed) + 4
    [] at = "runtime"     -> 3
    [] at = "application" -> 2
    [] at = "sleep"       -> 1
    [] OTHER              -> 0

LEMMA TurnIsNat == IInv => TurnLeft \in Nat
BY ServerAssumption DEF IInv, Places, TurnLeft

(* A command served takes from the commands this turn may still serve.     *)
LEMMA ServedCounts ==
  ASSUME IInv, Serve
  PROVE  TurnLeft' < TurnLeft
<1>1. Receive
  BY DEF Serve, PopOne, PopBurst, ClearLog, InjectCan, TriggerEvent, OtherCommand
<1>2. /\ at = "server" /\ at' = "server"
      /\ processed' = processed + 1 /\ processed \in Nat /\ MaxCmds \in Nat
  BY <1>1, ServerAssumption DEF Receive, IInv, Places
<1>3. /\ TurnLeft = (MaxCmds - processed) + 4
      /\ TurnLeft' = (MaxCmds - (processed + 1)) + 4
  BY <1>2 DEF TurnLeft
<1> QED
  BY <1>2, <1>3

(* Why the application gets its turns and a signal ends the program: each  *)
(* step of the program brings the end of its turn of the loop nearer, and  *)
(* nothing that clients, signals or the network do puts it off.            *)
THEOREM TurnGetsShorter ==
  /\ Spec => [](TurnLeft \in Nat)
  /\ Spec => [][ at # "init" =>
                   IF Main THEN TurnLeft' < TurnLeft \/ (at = "sleep" /\ at' = "top")
                           ELSE UNCHANGED <<at, processed>> ]_vars
<1>1. ASSUME IInv, at # "init", Main
      PROVE  TurnLeft' < TurnLeft \/ (at = "sleep" /\ at' = "top")
  <2>1. MaxCmds \in Nat /\ processed \in 0 .. MaxCmds
    BY <1>1, ServerAssumption DEF IInv, Places
  <2>2. CASE Serve
    BY <1>1, <2>2, ServedCounts
  <2>3. CASE LoopTop
    BY <2>1, <2>3 DEF LoopTop, TurnLeft
  <2>4. CASE Shutdown
    BY <2>1, <2>4 DEF Shutdown, TurnLeft
  <2>5. CASE ReceiveFails \/ ServerStepEnd
    BY <2>1, <2>5 DEF ReceiveFails, ServerStepEnd, TurnLeft
  <2>6. CASE RuntimeStep \/ AppCyclic
    BY <2>6 DEF RuntimeStep, AppCyclic, TurnLeft
  <2>7. CASE Sleep
    BY <2>7 DEF Sleep
  <2> QED
    BY <1>1, <2>2, <2>3, <2>4, <2>5, <2>6, <2>7 DEF Main, StartUp
<1>2. ASSUME Next, at # "init", ~ Main
      PROVE  UNCHANGED <<at, processed>>
  BY <1>2 DEF Next, StartUpFails, Signal, ClientSend
<1>3. IInv /\ [Next]_vars =>
        [ at # "init" =>
            IF Main THEN TurnLeft' < TurnLeft \/ (at = "sleep" /\ at' = "top")
                    ELSE UNCHANGED <<at, processed>> ]_vars
  BY <1>1, <1>2
<1> QED
  BY InitIInv, NextIInv, TurnIsNat, <1>3, PTL DEF Spec
=============================================================================
