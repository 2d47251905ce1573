-------------------------- MODULE FastTimerProofs --------------------------
(***************************************************************************)
(* Proofs about FastTimer for every width of the tick, every period and    *)
(* callbacks of every duration.                                            *)
(***************************************************************************)
EXTENDS FastTimer, TLAPS

----------------------------------------------------------------------------
(* Arithmetic of the tick.                                                 *)

(* Division with remainder.                                                *)
LEMMA DivMod ==
  ASSUME NEW a \in Int, NEW n \in Nat \ {0}
  PROVE  /\ a % n \in 0 .. n - 1 /\ a \div n \in Int
         /\ a = n * (a \div n) + (a % n)
OBVIOUS

(* A remainder is known by one multiple of the divisor.                    *)
LEMMA ModUnique ==
  ASSUME NEW a \in Int, NEW n \in Nat \ {0}, NEW k \in Int, NEW r \in 0 .. n - 1,
         a = n * k + r
  PROVE  a % n = r
OBVIOUS

(* Both hands of a difference may move on modulo n: the difference moves   *)
(* by the same amount, as long as it stays below n.                        *)
LEMMA MoveFirst ==
  ASSUME NEW n \in Nat \ {0}, NEW a \in Int, NEW b \in Int, NEW d \in Int,
         ((a - b) % n) + d \in 0 .. n - 1
  PROVE  (((a + d) % n) - b) % n = ((a - b) % n) + d
<1> DEFINE q == (a - b) \div n
           r == (a - b) % n
           p == (a + d) \div n
           s == (a + d) % n
<1>1. q \in Int /\ r \in Int /\ a - b = n * q + r
  BY DivMod
<1>2. p \in Int /\ s \in Int /\ a + d = n * p + s
  BY DivMod
<1>3. r + d \in 0 .. n - 1
  OBVIOUS
<1> HIDE DEF q, r, p, s
<1>4. q - p \in Int /\ n * (q - p) = n * q - n * p
  BY <1>1, <1>2
<1>5. s - b \in Int /\ s - b = n * (q - p) + (r + d)
  BY <1>1, <1>2, <1>4
<1>6. (s - b) % n = r + d
  BY ONLY <1>3, <1>4, <1>5, n \in Nat \ {0}, ModUnique
<1> QED
  BY <1>6 DEF s, r

LEMMA MoveSecond ==
  ASSUME NEW n \in Nat \ {0}, NEW a \in Int, NEW b \in Int, NEW d \in Int,
         ((a - b) % n) - d \in 0 .. n - 1
  PROVE  (a - ((b + d) % n)) % n = ((a - b) % n) - d
<1> DEFINE q == (a - b) \div n
           r == (a - b) % n
           p == (b + d) \div n
           s == (b + d) % n
<1>1. q \in Int /\ r \in Int /\ a - b = n * q + r
  BY DivMod
<1>2. p \in Int /\ s \in Int /\ b + d = n * p + s
  BY DivMod
<1>3. r - d \in 0 .. n - 1
  OBVIOUS
<1> HIDE DEF q, r, p, s
<1>4. q + p \in Int /\ n * (q - (0 - p)) = n * q + n * p
      /\ n * (q + p) = n * q + n * p
  BY <1>1, <1>2
<1>5. a - s \in Int /\ a - s = n * (q + p) + (r - d)
  BY <1>1, <1>2, <1>4
<1>6. (a - s) % n = r - d
  BY ONLY <1>3, <1>4, <1>5, n \in Nat \ {0}, ModUnique
<1> QED
  BY <1>6 DEF s, r

(* Differences of three ticks add up when they stay below a wrap.          *)
LEMMA Between ==
  ASSUME NEW n \in Nat \ {0}, NEW a \in Int, NEW b \in Int, NEW c \in Int,
         (a - b) % n <= (a - c) % n
  PROVE  (b - c) % n = ((a - c) % n) - ((a - b) % n)
<1> DEFINE q == (a - c) \div n
           r == (a - c) % n
           p == (a - b) \div n
           s == (a - b) % n
<1>1. q \in Int /\ r \in 0 .. n - 1 /\ a - c = n * q + r
  BY DivMod
<1>2. p \in Int /\ s \in 0 .. n - 1 /\ a - b = n * p + s
  BY DivMod
<1>3. s <= r
  OBVIOUS
<1> HIDE DEF q, r, p, s
<1>4. q - p \in Int /\ n * (q - p) = n * q - n * p /\ r - s \in 0 .. n - 1
  BY <1>1, <1>2, <1>3
<1>5. b - c \in Int /\ b - c = n * (q - p) + (r - s)
  BY <1>1, <1>2, <1>4
<1>6. (b - c) % n = r - s
  BY ONLY <1>4, <1>5, n \in Nat \ {0}, ModUnique
<1> QED
  BY <1>6 DEF s, r

(* Periods and milliseconds.                                               *)
LEMMA WholePeriodBound ==
  ASSUME NEW t \in Nat, period \in Nat, t * Part >= period
  PROVE  WholePeriod \in Nat /\ WholePeriod <= t
<1>1. Part \in Nat \ {0}
  BY TimerAssumption
<1> DEFINE w == period \div Part
<1>2. w \in Int /\ w >= 0 /\ Part * w <= period
  BY <1>1, DivMod
<1> HIDE DEF w
<1>3. Part * w <= Part * t
  BY <1>1, <1>2
<1>4. w <= t
  BY <1>1, <1>2, <1>3
<1> QED
  BY <1>2, <1>4 DEF w, WholePeriod

----------------------------------------------------------------------------
(* The invariant.                                                          *)

(* The reading the loop works with lies between the last payment and the   *)
(* tick, which may have moved on.                                          *)
LoopInv == step = "loop" => (tick - now) % TickMod <= owed

(* The host's time since the start that no call has used is at most the    *)
(* time owed, and all of it when the period is a whole number of           *)
(* milliseconds.                                                           *)
LeftInv ==
  /\ left <= owed * Part
  /\ period % Part = 0 => left = owed * Part

IInv == TypeOK /\ NoPeriodLost /\ LoopInv /\ LeftInv

LEMMA TickModType == TickMod \in Nat \ {0} /\ Part \in Nat \ {0}
BY TimerAssumption

LEMMA NothingLeft ==
  ASSUME owed = 0, left = 0
  PROVE  LeftInv
BY TickModType DEF LeftInv

LEMMA NoDifference ==
  ASSUME NEW t \in Int
  PROVE  (t - t) % TickMod = 0
BY TickModType

LEMMA InitIInv == Init => IInv
<1> SUFFICES ASSUME Init PROVE IInv
  OBVIOUS
<1>0. 0 \in 0 .. TickMod - 1 /\ 0 \in 0 .. MaxBusy /\ 0 \in 0 .. MaxLag
  BY TimerAssumption
<1>1. TypeOK
  BY <1>0 DEF Init, TypeOK
<1>2. NoPeriodLost /\ LoopInv
  BY DEF Init, NoPeriodLost, LoopInv, Measured, InLoop
<1>3. LeftInv
  BY NothingLeft DEF Init
<1> QED
  BY <1>1, <1>2, <1>3 DEF IInv

LEMMA AdvanceIInv == IInv /\ Advance => IInv'
<1> SUFFICES ASSUME IInv, Advance PROVE IInv'
  OBVIOUS
<1>1. /\ TickMod \in Nat \ {0} /\ MaxLag \in Nat /\ MaxLag < TickMod
      /\ MaxBusy \in Nat
  BY TimerAssumption
<1>2. /\ tick \in Int /\ now \in Int /\ lastTick \in Int /\ owed \in 0 .. MaxLag
      /\ tick + 1 \in Int /\ busy \in 0 .. MaxBusy
  BY DEF IInv, TypeOK
<1>3. tick' = (tick + 1) % TickMod /\ tick' \in 0 .. TickMod - 1
  BY <1>1, <1>2, DivMod DEF Advance
<1>4. /\ UNCHANGED <<configured, running, period, callback, lastTick, step, now>>
      /\ owed' = IF Measured THEN owed + 1 ELSE owed
      /\ left' = IF Measured THEN left + Part ELSE left
      /\ Measured => owed < MaxLag
  BY DEF Advance, timer
<1>5. busy' \in 0 .. MaxBusy
  BY <1>1, <1>2 DEF Advance
<1>6. owed' \in 0 .. MaxLag /\ left' \in Nat
  BY <1>2, <1>4, <1>1, TickModType DEF IInv, TypeOK
<1>7. TypeOK'
  BY <1>3, <1>4, <1>5, <1>6 DEF IInv, TypeOK
<1>8. NoPeriodLost'
  <2>1. ASSUME Measured
        PROVE  (tick' - lastTick) % TickMod = owed + 1
    <3>1. (tick - lastTick) % TickMod = owed
      BY <2>1 DEF IInv, NoPeriodLost
    <3>2. ((tick - lastTick) % TickMod) + 1 \in 0 .. TickMod - 1
      BY <1>1, <1>2, <1>4, <2>1, <3>1
    <3>3. (((tick + 1) % TickMod) - lastTick) % TickMod
          = ((tick - lastTick) % TickMod) + 1
      BY ONLY <1>1, <1>2, <3>2, 1 \in Int, MoveFirst, ZenonT(60)
    <3> QED
      BY ONLY <1>3, <3>1, <3>3
  <2>2. Measured' = Measured
    BY <1>4 DEF Measured, InLoop
  <2> QED
    BY <1>4, <2>1, <2>2 DEF NoPeriodLost
<1>9. LoopInv'
  <2>1. ASSUME step = "loop"
        PROVE  (tick' - now) % TickMod <= owed + 1
    <3>1. (tick - now) % TickMod <= owed /\ (tick - now) % TickMod \in 0 .. TickMod - 1
      BY <1>1, <1>2, <2>1, DivMod DEF IInv, LoopInv
    <3>2. owed < MaxLag
      BY <1>4, <2>1 DEF Measured, InLoop
    <3>3. ((tick - now) % TickMod) + 1 \in 0 .. TickMod - 1
      BY <1>1, <1>2, <3>1, <3>2
    <3>4. (((tick + 1) % TickMod) - now) % TickMod = ((tick - now) % TickMod) + 1
      BY ONLY <1>1, <1>2, <3>3, 1 \in Int, MoveFirst, ZenonT(60)
    <3>5. (tick' - now) % TickMod = ((tick - now) % TickMod) + 1
      BY ONLY <1>3, <3>4
    <3> QED
      BY <1>2, <3>1, <3>5
  <2>2. step = "loop" => Measured
    BY DEF Measured, InLoop
  <2> QED
    BY <1>4, <2>1, <2>2 DEF LoopInv
<1>10. LeftInv'
  <2>1. Part \in Nat /\ left \in Nat /\ owed \in Nat
    BY <1>2, TickModType DEF IInv, TypeOK
  <2>2. (owed + 1) * Part = owed * Part + Part /\ owed * Part \in Nat
    BY <2>1
  <2>3. left <= owed * Part /\ (period % Part = 0 => left = owed * Part)
    BY DEF IInv, LeftInv
  <2> QED
    BY <1>4, <2>1, <2>2, <2>3 DEF LeftInv
<1> QED
  BY <1>7, <1>8, <1>9, <1>10 DEF IInv

(* What the loop sees of the time owed.                                    *)
LEMMA Seen ==
  ASSUME IInv, step = "loop"
  PROVE  /\ (tick - now) % TickMod \in 0 .. owed
         /\ (now - lastTick) % TickMod = owed - ((tick - now) % TickMod)
<1>1. /\ tick \in Int /\ now \in Int /\ lastTick \in Int /\ owed \in Nat
      /\ TickMod \in Nat \ {0}
  BY TickModType DEF IInv, TypeOK
<1>2. (tick - lastTick) % TickMod = owed
  BY DEF IInv, NoPeriodLost, Measured, InLoop
<1>3. (tick - now) % TickMod <= (tick - lastTick) % TickMod
  BY <1>2 DEF IInv, LoopInv
<1>4. (tick - now) % TickMod \in 0 .. TickMod - 1
  BY <1>1, DivMod
<1>5. (now - lastTick) % TickMod
      = ((tick - lastTick) % TickMod) - ((tick - now) % TickMod)
  BY ONLY <1>1, <1>3, Between
<1> QED
  BY <1>1, <1>2, <1>3, <1>4, <1>5

LEMMA FireIInv == IInv /\ Fire => IInv'
<1> SUFFICES ASSUME IInv, Fire PROVE IInv'
  OBVIOUS
<1> DEFINE k == (tick - now) % TickMod
           w == WholePeriod
<1>1. /\ TickMod \in Nat \ {0} /\ MaxLag \in Nat /\ MaxLag < TickMod
      /\ Part \in Nat \ {0} /\ MaxBusy \in Nat
  BY TimerAssumption
<1>2. /\ tick \in Int /\ lastTick \in Int /\ owed \in 0 .. MaxLag /\ period \in Nat
      /\ step = "loop"
  BY DEF IInv, TypeOK, Fire
<1>3. k \in 0 .. owed /\ (now - lastTick) % TickMod = owed - k
  BY <1>2, Seen
<1> HIDE DEF k
<1>4. owed - k \in Nat /\ (owed - k) * Part >= period
  BY <1>2, <1>3 DEF Fire, Due
<1>5. w \in Nat /\ w \in Int /\ w <= owed - k
  BY <1>2, <1>4, WholePeriodBound
<1> HIDE DEF w
<1>6. /\ lastTick' = (lastTick + w) % TickMod /\ owed' = owed - w
      /\ left' = IF left < period THEN 0 ELSE left - period
      /\ step' \in {"callback", "crashed"} /\ busy' = 0
      /\ UNCHANGED <<configured, running, period, callback, tick, now>>
  BY DEF Fire, Pay, w, timer
<1>7. owed' \in 0 .. MaxLag
  BY ONLY <1>1, <1>2, <1>3, <1>5, <1>6
<1>8. lastTick' \in 0 .. TickMod - 1
  BY <1>1, <1>2, <1>5, <1>6, DivMod
<1>9. TypeOK'
  BY <1>1, <1>2, <1>6, <1>7, <1>8 DEF IInv, TypeOK
<1>10. (tick - lastTick) % TickMod = owed
  BY <1>2 DEF IInv, NoPeriodLost, Measured, InLoop
<1>11. ((tick - lastTick) % TickMod) - w \in 0 .. TickMod - 1
  BY <1>1, <1>2, <1>3, <1>5, <1>10
<1>12. (tick - ((lastTick + w) % TickMod)) % TickMod = ((tick - lastTick) % TickMod) - w
  BY ONLY <1>1, <1>2, <1>5, <1>11, MoveSecond
<1>13. (tick' - lastTick') % TickMod = owed'
  BY <1>6, <1>10, <1>12
<1>14. NoPeriodLost' /\ LoopInv'
  BY <1>6, <1>13 DEF NoPeriodLost, LoopInv
<1>15. LeftInv'
  <2>1. left \in Nat /\ left <= owed * Part /\ (period % Part = 0 => left = owed * Part)
    BY DEF IInv, LeftInv, TypeOK
  <2> DEFINE o == owed * Part
             u == w * Part
             m == period % Part
  <2>2. /\ o \in Int /\ u \in Int /\ m \in Nat /\ period = u + m
        /\ (owed - w) * Part = o - u /\ u >= 0 /\ o - u >= 0
    <3>1. m \in 0 .. Part - 1 /\ period = Part * (period \div Part) + m
      BY <1>1, <1>2, DivMod
    <3>2. w = period \div Part
      BY DEF w, WholePeriod
    <3>3. period = u + m
      BY <1>1, <1>5, <3>1, <3>2
    <3>4. owed \in Int /\ owed - w \in Nat /\ Part \in Nat
      BY <1>1, <1>2, <1>3, <1>5
    <3>5. (owed - w) * Part \in Nat /\ (owed - w) * Part = o - u
      BY <1>5, <3>4
    <3> QED
      BY <1>1, <1>2, <1>5, <3>1, <3>3, <3>4, <3>5
  <2>3. m = 0 => left = o
    BY <2>1
  <2>4. left <= o
    BY <2>1
  <2>5. m = 0 => o >= period
    <3>1. k * Part >= 0 /\ o = (owed - k) * Part + k * Part /\ k * Part \in Int
      BY <1>1, <1>2, <1>3
    <3>2. (owed - k) * Part \in Int
      BY <1>1, <1>4
    <3> QED
      BY <1>2, <1>4, <2>2, <3>1, <3>2
  <2> HIDE DEF o, u, m
  <2>6. /\ left' <= o - u
        /\ m = 0 => left' = o - u
    BY <1>2, <1>6, <2>1, <2>2, <2>3, <2>4, <2>5
  <2>7. owed' * Part = o - u
    BY <1>6, <2>2
  <2> QED
    BY <1>6, <2>6, <2>7 DEF LeftInv, m
<1> QED
  BY <1>9, <1>14, <1>15 DEF IInv

LEMMA NextIInv == IInv /\ [Next]_vars => IInv'
<1> SUFFICES ASSUME IInv, [Next]_vars PROVE IInv'
  OBVIOUS
<1>1. TypeOK /\ NoPeriodLost /\ LoopInv /\ LeftInv /\ tick \in Int
  BY DEF IInv, TypeOK
<1>2. (tick - tick) % TickMod = 0
  BY <1>1, NoDifference
<1>3. CASE \E p \in Periods, cb \in BOOLEAN : SetEvntTimerCfg(p, cb)
  <2>1. PICK p \in Periods, cb \in BOOLEAN : SetEvntTimerCfg(p, cb)
    BY <1>3
  <2>2. p \in Int /\ Part \in Nat \ {0} /\ MaxLag \in Nat
    BY TimerAssumption
  <2>3. period' \in Nat /\ period' > 0
    BY <2>1, <2>2 DEF SetEvntTimerCfg
  <2>4. /\ UNCHANGED <<running, tick, step, now, busy>>
        /\ configured' = TRUE /\ callback' = cb
        /\ lastTick' = tick /\ owed' = 0 /\ left' = 0
    BY <2>1 DEF SetEvntTimerCfg
  <2>6. owed' \in 0 .. MaxLag
    BY <2>2, <2>4
  <2>7. TypeOK'
    BY <1>1, <2>3, <2>4, <2>6 DEF TypeOK
  <2>5. NoPeriodLost' /\ LoopInv'
    BY <1>2, <2>1 DEF SetEvntTimerCfg, NoPeriodLost, LoopInv, AppRuns
  <2>8. LeftInv'
    BY <2>2, <2>4 DEF LeftInv
  <2> QED
    BY <2>5, <2>7, <2>8 DEF IInv
<1>4. CASE StartTimer
  <2>1. TypeOK'
    BY <1>1, <1>4, TimerAssumption DEF StartTimer, TypeOK
  <2>2. NoPeriodLost' /\ LoopInv'
    BY <1>2, <1>4 DEF StartTimer, NoPeriodLost, LoopInv, AppRuns
  <2>3. LeftInv'
    BY <1>4, TickModType DEF StartTimer, LeftInv
  <2> QED
    BY <2>1, <2>2, <2>3 DEF IInv
<1>5. CASE StopTimer
  BY <1>1, <1>5 DEF StopTimer, IInv, TypeOK, NoPeriodLost, LoopInv, LeftInv, Measured, InLoop
<1>6. CASE CyclicStart
  <2>1. TypeOK'
    BY <1>1, <1>6, TimerAssumption DEF CyclicStart, TypeOK, timer
  <2>2. NoPeriodLost' /\ LoopInv'
    BY <1>1, <1>2, <1>6
    DEF CyclicStart, TypeOK, NoPeriodLost, LoopInv, Measured, InLoop, timer
  <2>3. LeftInv'
    BY <1>1, <1>6 DEF CyclicStart, LeftInv, timer
  <2> QED
    BY <2>1, <2>2, <2>3 DEF IInv
<1>7. CASE CallbackReturn
  <2>1. TypeOK'
    BY <1>1, <1>7 DEF CallbackReturn, TypeOK, timer
  <2>2. NoPeriodLost' /\ LoopInv'
    BY <1>1, <1>2, <1>7
    DEF CallbackReturn, TypeOK, NoPeriodLost, LoopInv, Measured, InLoop, timer
  <2>3. LeftInv'
    BY <1>1, <1>7 DEF CallbackReturn, LeftInv, timer
  <2> QED
    BY <2>1, <2>2, <2>3 DEF IInv
<1>8. CASE CyclicEnd
  <2>1. TypeOK'
    BY <1>1, <1>8, TimerAssumption DEF CyclicEnd, TypeOK, timer
  <2>2. NoPeriodLost' /\ LoopInv'
    BY <1>1, <1>8 DEF CyclicEnd, NoPeriodLost, LoopInv, Measured, InLoop, timer
  <2>3. LeftInv'
    BY <1>1, <1>8 DEF CyclicEnd, LeftInv, timer
  <2> QED
    BY <2>1, <2>2, <2>3 DEF IInv
<1>9. CASE UNCHANGED vars
  BY <1>1, <1>9 DEF vars, IInv, TypeOK, NoPeriodLost, LoopInv, LeftInv, Measured, InLoop
<1> QED
  BY <1>3, <1>4, <1>5, <1>6, <1>7, <1>8, <1>9, AdvanceIInv, FireIInv DEF Next

----------------------------------------------------------------------------
(* The theorems.                                                           *)

(* The inductive invariant of the timer.                                   *)
THEOREM IInvHolds == Spec => []IInv
BY InitIInv, NextIInv, PTL DEF Spec

(* The loop runs only for a timer with a period, and no call is paid out   *)
(* of time that has not gone by (owed is never negative), for every period *)
(* and whatever the callback configures, NULL included.                    *)
THEOREM TypeCorrect == Spec => []TypeOK
BY IInvHolds, PTL DEF IInv

(* For every width of the tick, the timer accounts for every millisecond   *)
(* since it was started.                                                   *)
THEOREM Exact == Spec => []NoPeriodLost
BY IInvHolds, PTL DEF IInv

(* The calls of a timer whose period is a whole number of milliseconds are *)
(* never ahead of the host.  With any period a call is not ahead of the    *)
(* whole milliseconds of those before it, and the loop never ends with a   *)
(* period due.                                                             *)
THEOREM OnTime == Spec => FiresWhenDue
<1> DEFINE Call == step' \in {"callback", "crashed"}
<1>1. ASSUME IInv, Next, step = "loop"
      PROVE  /\ Call => /\ period % Part = 0 => left >= period
                        /\ owed * Part >= period
             /\ step' = "idle" => (owed - ((tick - now) % TickMod)) * Part < period
  <2> DEFINE k == (tick - now) % TickMod
  <2>1. k \in 0 .. owed /\ (now - lastTick) % TickMod = owed - k
    BY <1>1, Seen
  <2>2. owed \in Nat /\ Part \in Nat \ {0} /\ period \in Nat
    BY <1>1, TickModType DEF IInv, TypeOK
  <2> HIDE DEF k
  <2>3. Due <=> (owed - k) * Part >= period
    BY <2>1 DEF Due
  <2>4. Call => Due
    BY <1>1 DEF Next, Advance, SetEvntTimerCfg, StartTimer, StopTimer,
                CyclicStart, Fire, CallbackReturn, CyclicEnd, AppRuns
  <2>5. step' = "idle" => ~ Due
    BY <1>1 DEF Next, Advance, SetEvntTimerCfg, StartTimer, StopTimer,
                CyclicStart, Fire, CallbackReturn, CyclicEnd, AppRuns
  <2>6. (owed - k) * Part <= owed * Part /\ (owed - k) * Part \in Int
    BY <2>1, <2>2
  <2>7. Call => owed * Part >= period
    BY <2>2, <2>3, <2>4, <2>6
  <2>8. step' = "idle" => (owed - k) * Part < period
    BY <2>2, <2>3, <2>5, <2>6
  <2>9. period % Part = 0 => left = owed * Part
    BY <1>1 DEF IInv, LeftInv
  <2> QED
    BY <2>7, <2>8, <2>9 DEF k
<1>2. IInv /\ [Next]_vars
      => [ step = "loop" =>
             /\ Call => /\ period % Part = 0 => left >= period
                        /\ owed * Part >= period
             /\ step' = "idle" =>
                  (owed - ((tick - now) % TickMod)) * Part < period ]_vars
  BY <1>1
<1> QED
  BY <1>2, IInvHolds, PTL DEF Spec, FiresWhenDue

(* What the timer is behind, less what this turn of the loop has taken.    *)
Arrears == owed - busy

(* Why the loop ends: nothing that happens in it, whatever the callback    *)
(* starts, stops or configures, puts the timer further behind than its     *)
(* turn takes, and a call moves it by the length of the turn less the      *)
(* whole milliseconds of the period: shorter turns catch up.               *)
THEOREM CatchesUp ==
  /\ Spec => [](Arrears \in Int /\ Arrears >= 0 - MaxBusy)
  /\ Spec => [][ InLoop /\ InLoop' =>
                   IF step = "loop" /\ step' = "callback"
                   THEN Arrears' = Arrears + (busy - WholePeriod)
                   ELSE Arrears' <= Arrears ]_vars
<1>1. IInv => /\ owed \in Nat /\ busy \in Nat /\ MaxBusy \in Nat /\ busy <= MaxBusy
              /\ period \in Nat
  BY TimerAssumption DEF IInv, TypeOK
<1>2. IInv => Arrears \in Int /\ Arrears >= 0 - MaxBusy
  BY <1>1 DEF Arrears
<1>3. ASSUME IInv, Next, InLoop, InLoop'
      PROVE  IF step = "loop" /\ step' = "callback"
             THEN Arrears' = Arrears + (busy - WholePeriod)
             ELSE Arrears' <= Arrears
  <2>1. WholePeriod \in Int
    BY <1>1, <1>3, TickModType DEF WholePeriod
  <2>2. CASE Advance
    BY <1>1, <1>3, <2>2 DEF Advance, Arrears, Measured, InLoop
  <2>3. CASE \E p \in Periods, cb \in BOOLEAN : SetEvntTimerCfg(p, cb)
    BY <1>1, <1>3, <2>3 DEF SetEvntTimerCfg, Arrears
  <2>4. CASE StartTimer \/ StopTimer
    BY <1>1, <1>3, <2>4 DEF StartTimer, StopTimer, Arrears
  <2>5. CASE Fire
    BY <1>1, <1>3, <2>1, <2>5 DEF Fire, Pay, Arrears, InLoop
  <2>6. CASE CallbackReturn
    BY <1>1, <1>3, <2>6 DEF CallbackReturn, Arrears
  <2>7. ~ CyclicStart /\ ~ CyclicEnd
    BY <1>3 DEF CyclicStart, CyclicEnd, InLoop
  <2> QED
    BY <1>3, <2>2, <2>3, <2>4, <2>5, <2>6, <2>7 DEF Next
<1>4. IInv /\ [Next]_vars =>
        [ InLoop /\ InLoop' =>
            IF step = "loop" /\ step' = "callback"
            THEN Arrears' = Arrears + (busy - WholePeriod)
            ELSE Arrears' <= Arrears ]_vars
  BY <1>3
<1> QED
  BY IInvHolds, <1>2, <1>4, PTL DEF Spec
=============================================================================
