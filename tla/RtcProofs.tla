------------------------------ MODULE RtcProofs ------------------------------
(***************************************************************************)
(* Proofs about Rtc for every tick width, every length of a second and of  *)
(* a day, and every sequence of settings; and that the two calendars agree *)
(* on every date from 2000 to 2099.                                        *)
(***************************************************************************)
EXTENDS Rtc, TLAPS

----------------------------------------------------------------------------
(* Arithmetic of the tick.                                                 *)

(* Division with remainder.                                                *)
LEMMA DivMod ==
  ASSUME NEW a \in Int, NEW n \in Nat \ {0}
  PROVE  /\ a % n \in 0 .. n - 1 /\ a \div n \in Int
         /\ a = n * (a \div n) + (a % n)
OBVIOUS

(* A remainder is known by one multiple of the divisor.                    *)
LEMMA ModUnique ==
  ASSUME NEW a \in Int, NEW n \in Nat \ {0}, NEW k \in Int, NEW r \in 0 .. n - 1,
         a = n * k + r
  PROVE  a % n = r /\ a \div n = k
OBVIOUS

(* The wrapped difference of two wrapped instants is the time between them *)
(* without its whole wraps.                                                *)
LEMMA WrappedDifference ==
  ASSUME NEW n \in Nat \ {0}, NEW a \in Nat, NEW b \in Nat, a <= b
  PROVE  ((b % n) - (a % n)) % n = (b - a) % n
<1> DEFINE d == b - a
           p == a \div n
           q == b \div n
           w == d \div n
           y == d % n
           ra == a % n
           rb == b % n
<1>1. d \in Int /\ a \in Int /\ b \in Int
  OBVIOUS
<1> HIDE DEF d
<1>2. p \in Int /\ ra \in 0 .. n - 1 /\ a = n * p + ra
  BY ONLY <1>1, DivMod, n \in Nat \ {0}
<1>3. q \in Int /\ rb \in 0 .. n - 1 /\ b = n * q + rb
  BY ONLY <1>1, DivMod, n \in Nat \ {0}
<1>4. w \in Int /\ y \in 0 .. n - 1 /\ d = n * w + y
  BY ONLY <1>1, DivMod, n \in Nat \ {0}
<1> HIDE DEF p, q, w, y, ra, rb
<1>5. n * ((p - q) + w) = (n * p - n * q) + n * w
  BY ONLY <1>2, <1>3, <1>4, n \in Nat \ {0}
<1>6. rb - ra = n * ((p - q) + w) + y
  <2> DEFINE u == n * p
             v == n * q
             x == n * w
  <2>1. u \in Int /\ v \in Int /\ x \in Int /\ ra \in Int /\ rb \in Int /\ y \in Int
    BY ONLY <1>2, <1>3, <1>4, n \in Nat \ {0}
  <2>2. v + rb = (u + ra) + (x + y)
    BY <1>2, <1>3, <1>4 DEF d
  <2>3. n * ((p - q) + w) = (u - v) + x
    BY <1>5
  <2> HIDE DEF u, v, x
  <2> QED
    BY ONLY <2>1, <2>2, <2>3
<1>7. (p - q) + w \in Int /\ rb - ra \in Int
  BY ONLY <1>2, <1>3, <1>4, n \in Nat \ {0}
<1>8. (rb - ra) % n = y
  BY ONLY <1>4, <1>6, <1>7, n \in Nat \ {0}, ModUnique
<1> QED
  BY <1>8 DEF d, y, ra, rb

(* Elapsed and Current are numbers of milliseconds and seconds.            *)
LEMMA CurrentType ==
  ASSUME TypeOK
  PROVE  Elapsed \in 0 .. TickMod - 1 /\ Current \in Nat
<1>1. (Now - baseTick) \in Int
  BY ClockAssumption DEF TypeOK, Now
<1>2. Elapsed \in 0 .. TickMod - 1
  BY <1>1, ClockAssumption, DivMod DEF Elapsed
<1>3. Elapsed \div SecMs \in Nat
  BY <1>2, ClockAssumption
<1> QED
  BY <1>2, <1>3 DEF Current, TypeOK

----------------------------------------------------------------------------
(* The invariant.                                                          *)

(* The count restarts at the tick of the instant the clock was last set.   *)
SinceInv == init => baseTick = since % TickMod

(* A setter other than the start runs on a started clock.  What it is      *)
(* going to store agrees with what the clock showed when it began, and the *)
(* clock was not set since.                                                *)
CallInv ==
  call # NoCall =>
    /\ since <= call.at /\ call.at <= host
    /\ call.kind # "init" => init
    /\ call.kind = "date" => call.time % DaySec = call.was % DaySec
    /\ call.kind = "time" => call.time \div DaySec = call.was \div DaySec
    /\ init /\ call.at - since < TickMod
         => call.was = base + ((call.at - since) \div SecMs)

IInv == TypeOK /\ SinceInv /\ CallInv

LEMMA InitIInv == Init => IInv
<1> SUFFICES ASSUME Init PROVE IInv
  OBVIOUS
<1>1. init = FALSE /\ valid = FALSE /\ call = NoCall /\ obs = <<>>
  BY DEF Init, Idle
<1>2. 0 \in 0 .. TickMod - 1
  BY ClockAssumption
<1>3. obs \in Seq([at : Nat, time : Nat]) /\ Len(obs) <= 2
  BY <1>1
<1>4. base = 0 /\ baseTick = 0 /\ host = 0 /\ since = 0
  BY DEF Init
<1>5. TypeOK
  <2>1. init \in BOOLEAN /\ valid = init /\ call \in CallType \cup {NoCall}
    BY <1>1
  <2>2. base \in Nat /\ baseTick \in 0 .. TickMod - 1 /\ host \in Nat
        /\ since \in 0 .. host
    BY <1>2, <1>4
  <2> QED
    BY <2>1, <2>2, <1>3 DEF TypeOK
<1> QED
  BY <1>1, <1>5 DEF Init, IInv, TypeOK, SinceInv, CallInv

(* The clock counts the seconds of the host since the last whole wrap      *)
(* after the setting.                                                      *)
LEMMA CurrentWraps ==
  ASSUME TypeOK, SinceInv, init
  PROVE  Current = base + (((host - since) % TickMod) \div SecMs)
<1>1. host \in Nat /\ since \in Nat /\ since <= host
  BY DEF TypeOK
<1>2. baseTick = since % TickMod
  BY DEF SinceInv
<1>3. ((host % TickMod) - (since % TickMod)) % TickMod = (host - since) % TickMod
  BY <1>1, WrappedDifference, ClockAssumption
<1>4. Elapsed = (host - since) % TickMod
  BY <1>2, <1>3 DEF Elapsed, Now
<1> QED
  BY <1>4 DEF Current

LEMMA CurrentTracks ==
  ASSUME TypeOK, SinceInv, init, host - since < TickMod
  PROVE  Current = base + ((host - since) \div SecMs)
<1>1. host - since \in 0 .. TickMod - 1
  BY ClockAssumption DEF TypeOK
<1>2. (host - since) % TickMod = host - since
  BY <1>1, ClockAssumption
<1> QED
  BY <1>2, CurrentWraps

(* A setter that begins.                                                   *)
LEMMA BeginIInv ==
  ASSUME IInv,
         NEW kind \in {"init", "datetime", "date", "time"}, NEW time \in Nat,
         Begin(kind, time), kind = "init" \/ init,
         kind = "date" => time % DaySec = Current % DaySec,
         kind = "time" => time \div DaySec = Current \div DaySec
  PROVE  IInv'
<1>1. TypeOK /\ SinceInv
  BY DEF IInv
<1>2. Current \in Nat
  BY <1>1, CurrentType
<1>3. call' = [kind |-> kind, time |-> time, at |-> host, was |-> Current]
  BY DEF Begin
<1>4. UNCHANGED <<init, valid, base, baseTick, host, since, obs>>
  BY DEF Begin
<1>5. host \in Nat /\ since \in 0 .. host
  BY <1>1 DEF TypeOK
<1>6. call' \in CallType
  BY <1>2, <1>3, <1>5 DEF CallType
<1>7. TypeOK' /\ SinceInv'
  BY <1>1, <1>4, <1>6 DEF TypeOK, SinceInv
<1>8. init /\ host - since < TickMod => Current = base + ((host - since) \div SecMs)
  BY <1>1, CurrentTracks
<1> DEFINE C == Current
<1>9. /\ call'.kind = kind /\ call'.time = time /\ call'.at = host
      /\ call'.was = C
  BY <1>3
<1>10. init /\ host - since < TickMod => C = base + ((host - since) \div SecMs)
  BY <1>8
<1>11. /\ kind = "date" => time % DaySec = C % DaySec
       /\ kind = "time" => time \div DaySec = C \div DaySec
  OBVIOUS
<1> HIDE DEF C
<1>12. CallInv'
  BY <1>4, <1>5, <1>9, <1>10, <1>11 DEF CallInv
<1> QED
  BY <1>7, <1>12 DEF IInv

(* A date that a setter accepts is on or after the first of January 2000.  *)
LEMMA DaysOfYearsMonotonic ==
  ASSUME NEW y \in Nat, y >= 1999
  PROVE  DaysOfYears(y) \in Nat /\ DaysOfYears(y) >= DaysOfYears(1999) + 365 * (y - 1999)
BY DEF DaysOfYears

LEMMA DayNumberNat ==
  ASSUME NEW d \in Date, ValidDate(d)
  PROVE  DayNumber(d) \in Nat
<1>1. /\ d.year \in 2000 .. 2099 /\ d.month \in 1 .. 12
      /\ d.day \in Nat /\ d.day >= 1
  BY ClockAssumption DEF ValidDate
<1> DEFINE D(y) == DaysOfYears(y)
<1>0. /\ D(1999) \in Nat
      /\ \A y \in 1999 .. 2099 : D(y) \in Nat /\ D(y) >= D(1999) + 365 * (y - 1999)
  BY DaysOfYearsMonotonic
<1> HIDE DEF D
<1>2. CASE d.month <= 2
  <2>1. D(d.year - 1) \in Nat /\ D(d.year - 1) >= D(1999)
    BY <1>0, <1>1
  <2>2. /\ DaysOfMonths(d.month + 9) >= DaysOfMonths(10)
        /\ DaysOfMonths(d.month + 9) \in Nat
        /\ DaysOfMonths(10) \in Nat
    BY <1>1, <1>2 DEF DaysOfMonths
  <2> QED
    BY <1>0, <1>1, <1>2, <2>1, <2>2 DEF D, DayNumber, Epoch
<1>3. CASE d.month > 2
  <2>1. D(d.year) \in Nat /\ D(d.year) >= D(1999) + 365
    BY <1>0, <1>1
  <2>2. DaysOfMonths(d.month - 3) \in Nat
        /\ DaysOfMonths(10) \in Nat /\ DaysOfMonths(10) <= 365
    BY <1>1, <1>3 DEF DaysOfMonths
  <2> QED
    BY <1>0, <1>1, <1>3, <2>1, <2>2 DEF D, DayNumber, Epoch
<1> QED
  BY <1>1, <1>2, <1>3

LEMMA SetterIInv ==
  ASSUME IInv,
         \/ \E t \in HostTimes : Start(t)
         \/ \E d \in Date : SetDate(d) \/ \E s \in TimeOfDay : SetDateTime(d, s)
         \/ \E s \in TimeOfDay : SetTime(s)
  PROVE  IInv'
<1> DEFINE D == Current \div DaySec
           S == Current % DaySec
<1>1. Current \in Nat /\ DaySec \in Nat \ {0}
  BY CurrentType, ClockAssumption DEF IInv
<1>2. D \in Nat /\ S \in 0 .. DaySec - 1
  BY <1>1
<1> HIDE DEF D, S
<1>3. CASE \E t \in HostTimes : Start(t)
  BY <1>3, BeginIInv, ClockAssumption DEF Start
<1>4. CASE \E d \in Date : SetDate(d)
  <2>1. PICK d \in Date : SetDate(d)
    BY <1>4
  <2> DEFINE n == DayNumber(d)
  <2>2. n \in Nat
    BY <2>1, DayNumberNat DEF SetDate
  <2>3. init /\ Begin("date", n * DaySec + S)
    BY <2>1 DEF SetDate, S
  <2> HIDE DEF n
  <2>4. n * DaySec + S \in Nat /\ n \in Int /\ n * DaySec + S = DaySec * n + S
    BY <1>1, <1>2, <2>2
  <2>5. (n * DaySec + S) % DaySec = S
    BY ONLY <1>1, <1>2, <2>4, ModUnique
  <2>6. (n * DaySec + S) % DaySec = Current % DaySec
    BY <2>5 DEF S
  <2> QED
    BY <2>3, <2>4, <2>6, BeginIInv
<1>5. CASE \E d \in Date, s \in TimeOfDay : SetDateTime(d, s)
  <2>1. PICK d \in Date, s \in TimeOfDay : SetDateTime(d, s)
    BY <1>5
  <2>2. DayNumber(d) \in Nat
    BY <2>1, DayNumberNat DEF SetDateTime
  <2>3. DayNumber(d) * DaySec + s \in Nat
    BY <1>1, <2>2 DEF TimeOfDay
  <2> QED
    BY <2>1, <2>3, BeginIInv DEF SetDateTime
<1>6. CASE \E s \in TimeOfDay : SetTime(s)
  <2>1. PICK s \in TimeOfDay : SetTime(s)
    BY <1>6
  <2>2. /\ D * DaySec + s \in Nat /\ D \in Int /\ s \in 0 .. DaySec - 1
        /\ D * DaySec + s = DaySec * D + s
    BY <1>1, <1>2 DEF TimeOfDay
  <2>3. (D * DaySec + s) \div DaySec = D
    BY ONLY <1>1, <2>2, ModUnique
  <2>4. init /\ Begin("time", D * DaySec + s)
    BY <2>1 DEF SetTime, D
  <2>5. (D * DaySec + s) \div DaySec = Current \div DaySec
    BY <2>3 DEF D
  <2> QED
    BY <2>2, <2>4, <2>5, BeginIInv
<1> QED
  BY <1>3, <1>4, <1>5, <1>6

LEMMA RebaseIInv == IInv /\ Rebase => IInv'
<1> SUFFICES ASSUME IInv, Rebase PROVE IInv'
  OBVIOUS
<1>1. Now \in 0 .. TickMod - 1
  BY ClockAssumption DEF Now, IInv, TypeOK
<1>2. call \in CallType
  BY DEF Rebase, Idle, IInv, TypeOK
<1>3. valid' = init'
  BY <1>2 DEF Rebase, IInv, TypeOK, CallInv, Idle, CallType
<1>4. base' \in Nat /\ call' = NoCall
  BY <1>2 DEF Rebase, CallType
<1>5. obs' \in Seq([at : Nat, time : Nat]) /\ Len(obs') <= 2
  BY DEF Rebase
<1> QED
  BY <1>1, <1>3, <1>4, <1>5 DEF Rebase, IInv, TypeOK, SinceInv, CallInv, Now

LEMMA LastInSeq ==
  ASSUME NEW T, NEW s \in Seq(T), s # <<>>
  PROVE  s[Len(s)] \in T
OBVIOUS

(* A reading is one more observation.                                      *)
LEMMA ReadIInv == IInv /\ Read => IInv'
<1> SUFFICES ASSUME IInv, Read PROVE IInv'
  OBVIOUS
<1> DEFINE now == [at |-> host, time |-> Current]
<1>1. now \in [at : Nat, time : Nat]
  BY CurrentType DEF IInv, TypeOK
<1>2. obs \in Seq([at : Nat, time : Nat])
  BY DEF IInv, TypeOK
<1>3. obs' = IF obs = <<>> THEN <<now>> ELSE <<obs[Len(obs)], now>>
  BY DEF Read
<1> DEFINE T == [at : Nat, time : Nat]
<1> HIDE DEF now, T
<1>4. obs # <<>> => obs[Len(obs)] \in T
  <2>1. obs \in Seq(T)
    BY <1>2 DEF T
  <2> QED
    BY ONLY <2>1, LastInSeq
<1>5. obs' \in Seq(T) /\ Len(obs') <= 2
  <2>1. now \in T
    BY <1>1 DEF T
  <2>2. <<now>> \in Seq(T) /\ Len(<<now>>) <= 2
    BY <2>1
  <2>3. ASSUME obs # <<>>
        PROVE  <<obs[Len(obs)], now>> \in Seq(T) /\ Len(<<obs[Len(obs)], now>>) <= 2
    BY <2>1, <2>3, <1>4
  <2> QED
    BY <1>3, <2>2, <2>3
<1>6. obs' \in Seq([at : Nat, time : Nat]) /\ Len(obs') <= 2
  BY <1>5 DEF T
<1> QED
  BY <1>6 DEF Read, IInv, TypeOK, SinceInv, CallInv

LEMMA NextIInv == IInv /\ [Next]_vars => IInv'
<1> SUFFICES ASSUME IInv, [Next]_vars PROVE IInv'
  OBVIOUS
<1>1. CASE Advance
  <2>1. /\ host' = host + 1 /\ host \in Nat
        /\ UNCHANGED <<init, valid, base, baseTick, call, since, obs>>
    BY <1>1 DEF Advance, IInv, TypeOK
  <2>2. call # NoCall => call.at \in Nat
    BY DEF IInv, TypeOK, CallType
  <2>3. TypeOK' /\ SinceInv'
    BY <2>1 DEF IInv, TypeOK, SinceInv
  <2>4. CallInv'
    BY <2>1, <2>2 DEF IInv, CallInv
  <2> QED
    BY <2>3, <2>4 DEF IInv
<1>2. CASE StartFail
  BY <1>2 DEF StartFail, Idle, IInv, TypeOK, SinceInv, CallInv
<1>3. CASE UNCHANGED vars
  BY <1>3 DEF vars, IInv, TypeOK, SinceInv, CallInv
<1> QED
  BY <1>1, <1>2, <1>3, SetterIInv, RebaseIInv, ReadIInv DEF Next

----------------------------------------------------------------------------
(* The two calendars.                                                      *)

(* Years from March 2000, or of the cycle of 400 years, in so many days.   *)
YearsIn(days) ==
  (days - (days \div 1460) + (days \div 36524) - (days \div 146096)) \div 365

(* Day r of year k in the first century of the cycle; only the years       *)
(* before a multiple of 4 have a day 365.                                  *)
DayOfYear(days, k, r) ==
  /\ days \in Int /\ k \in Int /\ r \in Int
  /\ 0 <= k /\ k <= 99 /\ 0 <= r /\ r <= 365
  /\ r = 365 => k % 4 = 3 /\ k # 99
  /\ days = 365 * k + (k \div 4) + r

(* The year is found again from the days of the cycle.                     *)
LEMMA FirstCentury ==
  ASSUME NEW days, NEW k, NEW r, DayOfYear(days, k, r)
  PROVE  0 <= days /\ days < 36524 /\ YearsIn(days) = k
<1> USE DEF DayOfYear
<1> DEFINE b == k \div 4
           c == k % 4
<1>1. /\ b \in Int /\ 0 <= b /\ b <= 24
      /\ c \in Int /\ 0 <= c /\ c <= 3
      /\ k = 4 * b + c
  OBVIOUS
<1>2. r = 365 => c = 3 /\ k # 99
  OBVIOUS
<1>3. days = 365 * k + b + r
  OBVIOUS
<1> HIDE DEF b, c
<1>4. 0 <= days /\ days < 36524 /\ days = 1460 * b + (b + 365 * c + r)
  BY <1>1, <1>2, <1>3
<1>5. days \div 36524 = 0
  BY <1>4
<1>6. days \div 146096 = 0
  BY <1>4
<1>7. CASE b + 365 * c + r < 1460
  <2>1. days \div 1460 = b
    BY <1>1, <1>4, <1>7
  <2>2. r <= 364
    BY <1>1, <1>2, <1>7
  <2>3. YearsIn(days) = (365 * k + r) \div 365
    BY <1>1, <1>3, <1>5, <1>6, <2>1 DEF YearsIn
  <2>4. (365 * k + r) \div 365 = k
    BY <2>2
  <2> QED
    BY <1>4, <2>3, <2>4
<1>8. CASE b + 365 * c + r >= 1460
  <2>1. days \div 1460 = b + 1
    BY <1>1, <1>4, <1>8
  <2>2. r >= 1
    BY <1>1, <1>2, <1>8
  <2>3. YearsIn(days) = (365 * k + (r - 1)) \div 365
    BY <1>1, <1>3, <1>5, <1>6, <2>1 DEF YearsIn
  <2>4. (365 * k + (r - 1)) \div 365 = k
    BY <2>2
  <2> QED
    BY <1>4, <2>3, <2>4
<1> QED
  BY <1>1, <1>7, <1>8

(* January and February of the year that ends the cycle, such as 2000.     *)
LEMMA LastWinter ==
  ASSUME NEW days \in Int, 146037 <= days, days <= 146096
  PROVE  YearsIn(days) = 399
<1>1. days \div 1460 = 100
  OBVIOUS
<1>2. days < 146096 => days \div 36524 = 3 /\ days \div 146096 = 0
  OBVIOUS
<1>3. days = 146096 => days \div 36524 = 4 /\ days \div 146096 = 1
  OBVIOUS
<1>4. YearsIn(days) = (days - 97) \div 365
  BY <1>1, <1>2, <1>3 DEF YearsIn
<1> QED
  BY <1>4

(* The count of years is a number of years.                                *)
LEMMA YearsInNat ==
  ASSUME NEW days \in Int, 0 <= days, days <= 146096
  PROVE  YearsIn(days) \in Int /\ 0 <= YearsIn(days)
<1> DEFINE q == days \div 1460
           g == days \div 36524
           h == days \div 146096
           e == days - q + g - h
<1>1. q \in Int /\ 1460 * q <= days
  OBVIOUS
<1>2. g \in Int /\ 36524 * g <= days /\ days < 36524 * g + 36524
  OBVIOUS
<1>3. h \in Int /\ 146096 * h <= days
  OBVIOUS
<1>4. YearsIn(days) = e \div 365
  BY DEF YearsIn
<1>5. e = days - q + g - h
  OBVIOUS
<1> HIDE DEF e, q, g, h
<1>6. e \in Int /\ 0 <= e
  BY <1>1, <1>2, <1>3, <1>5
<1> QED
  BY <1>4, <1>6

(* Days of the cycle with a year of the first century.                     *)
LEMMA CenturyRest ==
  ASSUME NEW days \in Int, 0 <= days, days <= 146096, YearsIn(days) <= 99,
         NEW k, k = YearsIn(days)
  PROVE  /\ k \in Int /\ 0 <= k
         /\ \E r \in Int :
              /\ 0 <= r /\ r <= 365
              /\ days = 365 * k + (k \div 4) + r
              /\ r = 365 => k % 4 = 3
<1> DEFINE q == days \div 1460
           g == days \div 36524
           h == days \div 146096
           t == days % 1460
           e == days - q + g - h
           u == e % 365
<1>1. q \in Int /\ t \in Int /\ 0 <= t /\ t <= 1459 /\ days = 1460 * q + t
  OBVIOUS
<1>2. g \in Int /\ 36524 * g <= days /\ days < 36524 * g + 36524
  OBVIOUS
<1>3. h \in Int /\ 146096 * h <= days /\ days < 146096 * h + 146096
  OBVIOUS
<1>4. e \in Int /\ k = e \div 365 /\ e = days - q + g - h
  BY <1>1, <1>2, <1>3 DEF YearsIn
<1> HIDE DEF e, q, g, h, t
<1>5. k \in Int /\ u \in Int /\ 0 <= u /\ u <= 364 /\ e = 365 * k + u
  BY <1>4
<1>6. k <= 99
  OBVIOUS
<1> HIDE DEF u
<1>7. days < 36524
  <2>1. SUFFICES ASSUME days >= 36524 PROVE FALSE
    OBVIOUS
  <2>2. e >= 36500
    BY <1>1, <1>2, <1>3, <1>4, <2>1
  <2> QED
    BY <1>4, <1>5, <1>6, <2>2
<1>8. g = 0 /\ h = 0
  BY <1>2, <1>3, <1>7
<1>9. /\ 0 <= q /\ q <= 25 /\ 0 <= k /\ 1459 * q + t = 365 * k + u
  BY <1>1, <1>4, <1>5, <1>6, <1>7, <1>8
<1>10. k >= 4 * q - 1 /\ k <= 4 * q + 3
  BY <1>1, <1>5, <1>9
<1>11. CASE k = 4 * q - 1
  <2>1. k \div 4 = q - 1 /\ k % 4 = 3
    BY <1>1, <1>11
  <2>2. u + 1 <= 365 /\ days = 365 * k + (q - 1) + (u + 1)
    BY <1>1, <1>5, <1>9, <1>11
  <2> QED
    BY <1>5, <1>9, <2>1, <2>2
<1>12. CASE k >= 4 * q
  <2>1. k \div 4 = q
    BY <1>1, <1>5, <1>10, <1>12, SMTT(60)
  <2>2. u # 365 /\ days = 365 * k + q + u
    BY <1>1, <1>5, <1>9, <1>12
  <2> QED
    BY <1>5, <1>9, <2>1, <2>2
<1> QED
  BY <1>1, <1>5, <1>9, <1>10, <1>11, <1>12

(* The longest the m-th month after March can be.                          *)
LongestMonth(m) == IF m = 11 THEN 29 ELSE DaysPerMonth[IF m = 10 THEN 1 ELSE m + 3]

(* A day of the year that begins in March, and its month.                  *)
LEMMA MonthOfDay ==
  ASSUME NEW m \in Int, 0 <= m, m <= 11,
         NEW day \in Int, 1 <= day, day <= LongestMonth(m),
         NEW r, r = DaysOfMonths(m) + (day - 1)
  PROVE  /\ r \in Int /\ 0 <= r /\ r <= 365
         /\ (5 * r + 2) \div 153 = m
         /\ r = 365 => m = 11 /\ day = 29
         /\ m >= 10 => r >= 306
<1>1. \/ m = 0 \/ m = 1 \/ m = 2 \/ m = 3 \/ m = 4 \/ m = 5
      \/ m = 6 \/ m = 7 \/ m = 8 \/ m = 9 \/ m = 10 \/ m = 11
  OBVIOUS
<1>2. CASE m = 0
  BY <1>2 DEF LongestMonth, DaysPerMonth, DaysOfMonths
<1>3. CASE m = 1
  BY <1>3 DEF LongestMonth, DaysPerMonth, DaysOfMonths
<1>4. CASE m = 2
  BY <1>4 DEF LongestMonth, DaysPerMonth, DaysOfMonths
<1>5. CASE m = 3
  BY <1>5 DEF LongestMonth, DaysPerMonth, DaysOfMonths
<1>6. CASE m = 4
  BY <1>6 DEF LongestMonth, DaysPerMonth, DaysOfMonths
<1>7. CASE m = 5
  BY <1>7 DEF LongestMonth, DaysPerMonth, DaysOfMonths
<1>8. CASE m = 6
  BY <1>8 DEF LongestMonth, DaysPerMonth, DaysOfMonths
<1>9. CASE m = 7
  BY <1>9 DEF LongestMonth, DaysPerMonth, DaysOfMonths
<1>10. CASE m = 8
  BY <1>10 DEF LongestMonth, DaysPerMonth, DaysOfMonths
<1>11. CASE m = 9
  BY <1>11 DEF LongestMonth, DaysPerMonth, DaysOfMonths
<1>12. CASE m = 10
  BY <1>12 DEF LongestMonth, DaysPerMonth, DaysOfMonths
<1>13. CASE m = 11
  BY <1>13 DEF LongestMonth, DaysPerMonth, DaysOfMonths
<1> QED
  BY <1>1, <1>2, <1>3, <1>4, <1>5, <1>6, <1>7, <1>8, <1>9, <1>10, <1>11, <1>12, <1>13

(* The month that a day of the year falls in, and the day within it.       *)
LEMMA DayOfMonth ==
  ASSUME NEW r \in Int, 0 <= r, r <= 365,
         NEW m, m = (5 * r + 2) \div 153
  PROVE  /\ m \in Int /\ 0 <= m /\ m <= 11
         /\ DaysOfMonths(m) \in Int
         /\ 1 <= r - DaysOfMonths(m) + 1
         /\ r - DaysOfMonths(m) + 1 <= LongestMonth(m)
         /\ m = 11 /\ r - DaysOfMonths(m) + 1 = 29 => r = 365
         /\ r >= 306 => m >= 10
<1>1. m \in Int /\ 0 <= m /\ m <= 11
  OBVIOUS
<1>2. \/ m = 0 \/ m = 1 \/ m = 2 \/ m = 3 \/ m = 4 \/ m = 5
      \/ m = 6 \/ m = 7 \/ m = 8 \/ m = 9 \/ m = 10 \/ m = 11
  BY <1>1
<1>3. 153 * m <= 5 * r + 2 /\ 5 * r + 2 <= 153 * m + 152
  BY <1>1
<1>4. CASE m = 0
  BY <1>3, <1>4 DEF LongestMonth, DaysPerMonth, DaysOfMonths
<1>5. CASE m = 1
  BY <1>3, <1>5 DEF LongestMonth, DaysPerMonth, DaysOfMonths
<1>6. CASE m = 2
  BY <1>3, <1>6 DEF LongestMonth, DaysPerMonth, DaysOfMonths
<1>7. CASE m = 3
  BY <1>3, <1>7 DEF LongestMonth, DaysPerMonth, DaysOfMonths
<1>8. CASE m = 4
  BY <1>3, <1>8 DEF LongestMonth, DaysPerMonth, DaysOfMonths
<1>9. CASE m = 5
  BY <1>3, <1>9 DEF LongestMonth, DaysPerMonth, DaysOfMonths
<1>10. CASE m = 6
  BY <1>3, <1>10 DEF LongestMonth, DaysPerMonth, DaysOfMonths
<1>11. CASE m = 7
  BY <1>3, <1>11 DEF LongestMonth, DaysPerMonth, DaysOfMonths
<1>12. CASE m = 8
  BY <1>3, <1>12 DEF LongestMonth, DaysPerMonth, DaysOfMonths
<1>13. CASE m = 9
  BY <1>3, <1>13 DEF LongestMonth, DaysPerMonth, DaysOfMonths
<1>14. CASE m = 10
  BY <1>3, <1>14 DEF LongestMonth, DaysPerMonth, DaysOfMonths
<1>15. CASE m = 11
  BY <1>3, <1>15 DEF LongestMonth, DaysPerMonth, DaysOfMonths
<1> QED
  BY <1>1, <1>2, <1>4, <1>5, <1>6, <1>7, <1>8, <1>9, <1>10, <1>11, <1>12, <1>13, <1>14, <1>15

(* Day n is day r of the year y that begins in March, in the m-th month    *)
(* after March; days counts in the cycle c of 400 years.                   *)
Located(n, c, days, y, m, r) ==
  /\ n \in Int /\ c \in Int /\ days \in Int /\ 0 <= days /\ days <= 146096
  /\ n + Epoch = 146097 * c + days
  /\ y = 400 * c + YearsIn(days)
  /\ r = days - (365 * YearsIn(days) + (YearsIn(days) \div 4)
                                     - (YearsIn(days) \div 100))
  /\ m = (5 * r + 2) \div 153

(* DateOf is the year, the month and the day in which a day is located.    *)
LEMMA DateOfParts ==
  ASSUME NEW n, NEW c, NEW days, NEW y, NEW m, NEW r, Located(n, c, days, y, m, r)
  PROVE  DateOf(n) = [year  |-> IF m >= 10 THEN y + 1 ELSE y,
                      month |-> IF m >= 10 THEN m - 9 ELSE m + 3,
                      day   |-> r - DaysOfMonths(m) + 1]
<1> USE DEF Located
<1>1. Epoch \in Int
  BY DEF Epoch, DaysOfYears, DaysOfMonths
<1>2. (n + Epoch) % 146097 = days /\ (n + Epoch) \div 146097 = c
  BY <1>1
<1> DEFINE D == (n + Epoch) % 146097
           C == (n + Epoch) \div 146097
           R == D - (365 * YearsIn(D) + (YearsIn(D) \div 4) - (YearsIn(D) \div 100))
           M == (5 * R + 2) \div 153
           Y == 400 * C + YearsIn(D)
<1>3. DateOf(n) = [year  |-> IF M >= 10 THEN Y + 1 ELSE Y,
                   month |-> IF M >= 10 THEN M - 9 ELSE M + 3,
                   day   |-> R - DaysOfMonths(M) + 1]
  BY SMT DEF DateOf, YearsIn
<1>4. D = days /\ C = c
  BY <1>2
<1>5. R = r /\ Y = y
  BY <1>4
<1>6. M = m
  BY <1>5
<1> HIDE DEF R, M, Y
<1> QED
  BY <1>3, <1>5, <1>6

(* The year, from March, and the month, after March, of a date.            *)
YearFromMarch(d) == IF d.month <= 2 THEN d.year - 1 ELSE d.year
MonthFromMarch(d) == IF d.month <= 2 THEN d.month + 9 ELSE d.month - 3

(* What ValidDate says of a year and a month counted from March.           *)
LEMMA ValidParts ==
  ASSUME NEW d \in [year : Nat, month : Nat, day : Nat], ValidDate(d),
         NEW y, y = YearFromMarch(d), NEW m, m = MonthFromMarch(d)
  PROVE  /\ y \in Int /\ 1999 <= y /\ y <= 2099
         /\ m \in Int /\ 0 <= m /\ m <= 11
         /\ m >= 10 <=> d.month <= 2
         /\ y = 1999 => m >= 10
         /\ y = 2099 => m < 10
         /\ 1 <= d.day /\ d.day <= LongestMonth(m)
         /\ m = 11 /\ d.day = 29 => (y + 1) % 4 = 0
<1>1. /\ d.year \in Int /\ 2000 <= d.year /\ d.year <= 2099
      /\ d.month \in Int /\ 1 <= d.month /\ d.month <= 12
      /\ d.day \in Int /\ 1 <= d.day /\ d.day <= DaysInMonth(d.year, d.month)
  BY DEF ValidDate
<1>2. CASE d.month = 1
  BY <1>1, <1>2
  DEF YearFromMarch, MonthFromMarch, LongestMonth, DaysInMonth, DaysPerMonth
<1>3. CASE d.month = 2
  <2>1. y = d.year - 1 /\ m = 11
    BY <1>1, <1>3 DEF YearFromMarch, MonthFromMarch
  <2>2. d.day <= 29 /\ (d.day = 29 => IsLeapYear(d.year))
    BY <1>1, <1>3 DEF DaysInMonth, DaysPerMonth
  <2>3. d.day = 29 => d.year % 4 = 0
    BY <2>2 DEF IsLeapYear
  <2> QED
    BY <1>1, <1>3, <2>1, <2>2, <2>3 DEF LongestMonth
<1>4. CASE d.month >= 3
  <2>1. y = d.year /\ m = d.month - 3
    BY <1>1, <1>4 DEF YearFromMarch, MonthFromMarch
  <2>2. m # 10 /\ m # 11
    BY <1>1, <2>1
  <2>3. LongestMonth(m) = DaysInMonth(d.year, d.month)
    BY <1>1, <1>4, <2>1, <2>2 DEF LongestMonth, DaysInMonth
  <2> QED
    BY <1>1, <1>4, <2>1, <2>2, <2>3
<1> QED
  BY <1>1, <1>2, <1>3, <1>4

(* A date the setters accept is kept as this date.                         *)
LEMMA DateKept ==
  ASSUME NEW d \in [year : Nat, month : Nat, day : Nat], ValidDate(d)
  PROVE  DayNumber(d) \in Int /\ DateOf(DayNumber(d)) = d
<1> DEFINE y == YearFromMarch(d)
           m == MonthFromMarch(d)
           r == DaysOfMonths(m) + (d.day - 1)
           n == DayNumber(d)
<1>1. /\ y \in Int /\ 1999 <= y /\ y <= 2099
      /\ m \in Int /\ 0 <= m /\ m <= 11
      /\ m >= 10 <=> d.month <= 2
      /\ y = 1999 => m >= 10
      /\ y = 2099 => m < 10
      /\ d.day \in Int /\ 1 <= d.day /\ d.day <= LongestMonth(m)
      /\ m = 11 /\ d.day = 29 => (y + 1) % 4 = 0
  BY ValidParts
<1>2. /\ d = [year |-> d.year, month |-> d.month, day |-> d.day]
      /\ d.year \in Int /\ d.month \in Int
  OBVIOUS
<1>3. /\ d.year = IF m >= 10 THEN y + 1 ELSE y
      /\ d.month = IF m >= 10 THEN m - 9 ELSE m + 3
  BY <1>1, <1>2 DEF YearFromMarch, MonthFromMarch
<1>4. n + Epoch = DaysOfYears(y) + r /\ n \in Int /\ DaysOfMonths(m) \in Int
  <2>1. DaysOfYears(y) \in Int /\ DaysOfMonths(m) \in Int /\ Epoch \in Int
    BY <1>1 DEF DaysOfYears, DaysOfMonths, Epoch
  <2>2. n = DaysOfYears(y) + DaysOfMonths(m) + (d.day - 1) - Epoch
    BY DEF DayNumber, YearFromMarch, MonthFromMarch
  <2> QED
    BY <1>1, <2>1, <2>2
<1> HIDE DEF y, m, n
<1>5. /\ r \in Int /\ 0 <= r /\ r <= 365
      /\ (5 * r + 2) \div 153 = m
      /\ r = 365 => m = 11 /\ d.day = 29
      /\ m >= 10 => r >= 306
  BY <1>1, MonthOfDay
<1>6. d.day = r - DaysOfMonths(m) + 1
  BY <1>1, <1>4
<1> HIDE DEF r
<1>7. CASE y = 1999
  <2> DEFINE days == 145731 + r
  <2>1. DaysOfYears(y) = 730119
    BY <1>7 DEF DaysOfYears
  <2>2. n + Epoch = 146097 * 4 + days
    BY <1>4, <1>5, <2>1
  <2>3. days \in Int /\ 146037 <= days /\ days <= 146096
    BY <1>1, <1>5, <1>7
  <2>5. r = days - (365 * 399 + (399 \div 4) - (399 \div 100))
    BY <1>5
  <2> HIDE DEF days
  <2>4. YearsIn(days) = 399
    BY <2>3, LastWinter
  <2>6. /\ r = days - (365 * YearsIn(days) + (YearsIn(days) \div 4)
                                          - (YearsIn(days) \div 100))
        /\ y = 400 * 4 + YearsIn(days)
    BY <1>7, <2>4, <2>5
  <2>7. Located(n, 4, days, y, m, r)
    BY <1>4, <1>5, <2>2, <2>3, <2>6 DEF Located
  <2> QED
    BY <1>2, <1>3, <1>4, <1>6, <2>7, DateOfParts DEF n
<1>8. CASE y >= 2000
  <2> DEFINE k == y - 2000
             days == 365 * k + (k \div 4) + r
  <2>1. k \in Int /\ 0 <= k /\ k <= 99 /\ y = 400 * 5 + k
    BY <1>1, <1>8
  <2>2. r = 365 => k % 4 = 3 /\ k # 99
    BY <1>1, <1>5, <2>1
  <2> HIDE DEF k
  <2>3. k \div 100 = 0
    BY <2>1
  <2>4. DaysOfYears(y) = 730485 + 365 * k + (k \div 4)
    BY <2>1, <2>3 DEF DaysOfYears
  <2>5. /\ days \in Int /\ n + Epoch = 146097 * 5 + days
        /\ days = 365 * k + (k \div 4) + r
    BY <1>4, <1>5, <2>1, <2>4
  <2>6. r = days - (365 * k + (k \div 4) - (k \div 100))
    BY <1>5, <2>1, <2>3
  <2> HIDE DEF days
  <2>7. 0 <= days /\ days < 36524 /\ YearsIn(days) = k
    <3>1. DayOfYear(days, k, r)
      BY <1>5, <2>1, <2>2, <2>5 DEF DayOfYear
    <3> QED
      BY <3>1, FirstCentury
  <2>8. Located(n, 5, days, y, m, r)
    BY <1>4, <1>5, <2>1, <2>5, <2>6, <2>7 DEF Located
  <2> QED
    BY <1>2, <1>3, <1>4, <1>6, <2>8, DateOfParts DEF n
<1> QED
  BY <1>1, <1>4, <1>7, <1>8 DEF n

(* Every day from the first of January 2000 to the end of 2099 has a date  *)
(* that the setters accept.                                                *)
LEMMA DayValid ==
  ASSUME NEW n \in Nat, DateOf(n).year <= 2099
  PROVE  ValidDate(DateOf(n))
<1> DEFINE c == (n + Epoch) \div 146097
           days == (n + Epoch) % 146097
           k == YearsIn(days)
           r == days - (365 * k + (k \div 4) - (k \div 100))
           m == (5 * r + 2) \div 153
           y == 400 * c + k
           day == r - DaysOfMonths(m) + 1
<1>1. Epoch = 730425
  BY DEF Epoch, DaysOfYears, DaysOfMonths
<1>2. /\ c \in Int /\ days \in Int /\ 0 <= days /\ days <= 146096
      /\ n + Epoch = 146097 * c + days
  BY <1>1
<1> HIDE DEF c, days
<1>3. k \in Int /\ 0 <= k
  BY <1>2, YearsInNat
<1>4. Located(n, c, days, y, m, r)
  BY <1>2 DEF Located
<1> HIDE DEF k
<1>5. r = days - (365 * k + (k \div 4) - (k \div 100)) /\ m = (5 * r + 2) \div 153
  OBVIOUS
<1>6. r \in Int /\ y \in Int /\ y = 400 * c + k
  BY <1>2, <1>3
<1> HIDE DEF r, m, y
<1>7. DateOf(n) = [year  |-> IF m >= 10 THEN y + 1 ELSE y,
                   month |-> IF m >= 10 THEN m - 9 ELSE m + 3,
                   day   |-> day]
  BY <1>4, DateOfParts
<1>8. ASSUME 0 <= r, r <= 365
      PROVE  /\ m \in Int /\ 0 <= m /\ m <= 11
             /\ day \in Int /\ 1 <= day /\ day <= LongestMonth(m)
             /\ m = 11 /\ day = 29 => r = 365
             /\ r >= 306 => m >= 10
  BY <1>5, <1>6, <1>8, DayOfMonth
<1> HIDE DEF day
<1>9. c >= 4 /\ (c = 4 => 146037 <= days)
  BY <1>1, <1>2
<1>10. ASSUME 0 <= r, r <= 365, 1999 <= y, y = 1999 => m >= 10,
              r = 365 => (y + 1) % 4 = 0
       PROVE  ValidDate(DateOf(n))
  <2>1. /\ m \in Int /\ 0 <= m /\ m <= 11
        /\ day \in Int /\ 1 <= day /\ day <= LongestMonth(m)
        /\ m = 11 /\ day = 29 => r = 365
    BY <1>8, <1>10
  <2>2. CASE m < 10
    <3>1. DateOf(n) = [year |-> y, month |-> m + 3, day |-> day]
      BY <1>7, <2>1, <2>2
    <3>2. 2000 <= y /\ y <= 2099
      BY <1>6, <1>10, <2>1, <2>2, <3>1
    <3>3. LongestMonth(m) = DaysInMonth(y, m + 3)
      BY <2>1, <2>2 DEF LongestMonth, DaysInMonth
    <3> QED
      BY <1>6, <2>1, <2>2, <3>1, <3>2, <3>3 DEF ValidDate
  <2>3. CASE m = 10
    <3>1. DateOf(n) = [year |-> y + 1, month |-> 1, day |-> day]
      BY <1>7, <2>3
    <3>2. 2000 <= y + 1 /\ y + 1 <= 2099
      BY <1>6, <1>10, <3>1
    <3>3. LongestMonth(m) = DaysInMonth(y + 1, 1)
      BY <2>3 DEF LongestMonth, DaysInMonth
    <3> QED
      BY <1>6, <2>1, <3>1, <3>2, <3>3 DEF ValidDate
  <2>4. CASE m = 11
    <3>1. DateOf(n) = [year |-> y + 1, month |-> 2, day |-> day]
      BY <1>7, <2>4
    <3>2. 2000 <= y + 1 /\ y + 1 <= 2099
      BY <1>6, <1>10, <3>1
    <3>3. day = 29 => IsLeapYear(y + 1)
      <4>1. ASSUME (y + 1) % 4 = 0
            PROVE  (y + 1) % 100 # 0 \/ (y + 1) % 400 = 0
        BY <1>6, <3>2, <4>1
      <4> QED
        BY <1>10, <2>1, <2>4, <4>1 DEF IsLeapYear
    <3>4. day <= DaysInMonth(y + 1, 2)
      BY <2>1, <2>4, <3>3 DEF LongestMonth, DaysInMonth, DaysPerMonth
    <3> QED
      BY <1>6, <2>1, <3>1, <3>2, <3>4 DEF ValidDate
  <2> QED
    BY <2>1, <2>2, <2>3, <2>4
<1>11. CASE c = 4
  <2>1. k = 399
    BY <1>2, <1>9, <1>11, LastWinter DEF k
  <2>2. r = days - 145731
    BY <1>2, <1>5, <2>1
  <2>3. 306 <= r /\ r <= 365 /\ y = 1999
    BY <1>2, <1>6, <1>9, <1>11, <2>1, <2>2
  <2> QED
    BY <1>6, <1>8, <1>10, <2>3
<1>12. CASE c >= 5
  <2>1. y <= 2099
    BY <1>6, <1>7
  <2>2. c = 5 /\ k <= 99
    BY <1>2, <1>3, <1>6, <1>12, <2>1
  <2>3. PICK s \in Int :
          /\ 0 <= s /\ s <= 365
          /\ days = 365 * k + (k \div 4) + s
          /\ s = 365 => k % 4 = 3
    BY <1>2, <2>2, CenturyRest DEF k
  <2>4. k \div 100 = 0
    BY <1>3, <2>2
  <2>5. r = s
    <3>1. k \div 4 \in Int
      BY <1>3
    <3> QED
      BY <1>3, <1>5, <2>3, <2>4, <3>1
  <2>6. y = 2000 + k /\ (k % 4 = 3 => (y + 1) % 4 = 0)
    BY <1>3, <1>6, <2>2
  <2> QED
    <3>1. 0 <= r /\ r <= 365 /\ (r = 365 => (y + 1) % 4 = 0)
      BY <2>3, <2>5, <2>6
    <3>2. 1999 <= y /\ y # 1999
      BY <1>3, <2>6
    <3> QED
      BY <1>10, <3>1, <3>2
<1> QED
  BY <1>2, <1>9, <1>11, <1>12

----------------------------------------------------------------------------
(* The theorems.                                                           *)

(* The inductive invariant of the clock.                                   *)
THEOREM IInvHolds == Spec => []IInv
BY InitIInv, NextIInv, PTL DEF Spec

(* A clock that answers has a valid date and time.                         *)
THEOREM TypeCorrect == Spec => []TypeOK
BY IInvHolds, PTL DEF IInv

(* For every width of the tick, the clock counts the seconds of the host   *)
(* for one wrap after it was set.                                          *)
THEOREM Tracks == Spec => []TracksHost
<1>1. IInv => TracksHost
  BY CurrentTracks DEF IInv, TracksHost
<1> QED
  BY <1>1, IInvHolds, PTL

(* Whole seconds of an interval are those of its two parts or one more.    *)
LEMMA SecondsSplit ==
  ASSUME NEW n \in Nat \ {0}, NEW a \in Nat, NEW b \in Nat
  PROVE  (a + b) \div n \in {(a \div n) + (b \div n), (a \div n) + (b \div n) + 1}
<1> DEFINE p == a \div n
           q == b \div n
           r == (a + b) \div n
<1>1. /\ p \in Int /\ q \in Int /\ r \in Int
      /\ a < n * p + n /\ b < n * q + n /\ n * r <= a + b
      /\ n * p <= a /\ n * q <= b /\ a + b < n * r + n
  BY DivMod
<1> HIDE DEF p, q, r
<1>2. n * r < n * p + n * q + 2 * n /\ n * p + n * q < n * r + n
  BY <1>1
<1>3. /\ n * p + n * q + 2 * n = n * (p + q + 2)
      /\ n * p + n * q = n * (p + q) /\ n * r + n = n * (r + 1)
  BY <1>1
<1>4. n * r < n * (p + q + 2) /\ n * (p + q) < n * (r + 1)
  BY <1>1, <1>2, <1>3
<1>5. r < p + q + 2 /\ p + q < r + 1
  BY <1>1, <1>4
<1> QED
  BY <1>1, <1>5 DEF p, q, r

(* A setter that returns.                                                  *)
LEMMA SetterReturns ==
  ASSUME IInv, Next, ~ Idle, Idle'
  PROVE  /\ Current' = call.time
         /\ call.kind = "date" => Current' % DaySec = call.was % DaySec
         /\ call.kind = "time" => Current' \div DaySec = call.was \div DaySec
         /\ call.kind # "init" /\ host - since < TickMod
              => Current <= call.was + ((host - call.at) \div SecMs) + 1
<1>1. Rebase
  BY DEF Next, Advance, StartFail, Read, Start, SetDate, SetDateTime,
         SetTime, Begin, Idle
<1>2. call \in CallType /\ call # NoCall
  BY DEF IInv, TypeOK, Idle
<1>3. Current' = call.time
  <2>1. base' = call.time /\ baseTick' = Now /\ host' = host
    BY <1>1 DEF Rebase
  <2>2. call.time \in Nat
    BY <1>2 DEF CallType
  <2>3. Now \in Int
    BY ClockAssumption DEF Now, IInv, TypeOK
  <2>4. Elapsed' = 0
    BY <2>1, <2>3, ClockAssumption DEF Elapsed, Now
  <2>5. 0 \div SecMs = 0
    BY ClockAssumption
  <2> QED
    BY <2>1, <2>2, <2>4, <2>5 DEF Current
<1>4. ASSUME call.kind # "init", host - since < TickMod
      PROVE  Current <= call.was + ((host - call.at) \div SecMs) + 1
  <2> DEFINE a == call.at - since
             b == host - call.at
  <2>1. /\ host \in Nat /\ since \in Nat /\ base \in Nat /\ call.at \in Nat
        /\ since <= call.at /\ call.at <= host /\ init
    BY <1>2, <1>4 DEF IInv, TypeOK, CallType, CallInv
  <2>2. a \in Nat /\ b \in Nat /\ host - since = a + b
    BY <2>1
  <2>3. Current = base + ((host - since) \div SecMs)
    BY <1>4, <2>1, CurrentTracks DEF IInv
  <2>4. call.was = base + (a \div SecMs)
    <3>1. call.at - since < TickMod
      BY <1>4, <2>1, ClockAssumption
    <3> QED
      BY <1>2, <2>1, <3>1 DEF IInv, CallInv
  <2> HIDE DEF a, b
  <2>5. (a + b) \div SecMs <= (a \div SecMs) + (b \div SecMs) + 1
    BY <2>2, SecondsSplit, ClockAssumption
  <2>6. a \div SecMs \in Int /\ b \div SecMs \in Int /\ (a + b) \div SecMs \in Int
    BY <2>2, ClockAssumption
  <2>7. Current <= call.was + (b \div SecMs) + 1
    BY <2>1, <2>2, <2>3, <2>4, <2>5, <2>6
  <2> QED
    BY <2>7 DEF b
<1>5. /\ call.kind = "date" => call.time % DaySec = call.was % DaySec
      /\ call.kind = "time" => call.time \div DaySec = call.was \div DaySec
  BY <1>2 DEF IInv, CallInv
<1> QED
  BY <1>3, <1>4, <1>5

(* For every length of a second and of a day, and whatever the host does   *)
(* during the call, a setting keeps what it was not asked to change.       *)
THEOREM Keeps == Spec => SettingKeepsRest
<1>1. IInv /\ [Next]_vars
      => [ ~ Idle /\ Idle' =>
             /\ Current' = call.time
             /\ call.kind = "date" => Current' % DaySec = call.was % DaySec
             /\ call.kind = "time" => Current' \div DaySec = call.was \div DaySec
             /\ call.kind # "init" /\ host - since < TickMod
                  => Current <= call.was + ((host - call.at) \div SecMs) + 1 ]_vars
  BY SetterReturns
<1> QED
  BY <1>1, IInvHolds, PTL DEF Spec, SettingKeepsRest

(* A setter stores the day of the date it was asked for.                   *)
LEMMA DayStored ==
  ASSUME IInv, NEW d \in Date, SetDate(d) \/ \E s \in TimeOfDay : SetDateTime(d, s)
  PROVE  DateOf(call'.time \div DaySec) = d
<1> DEFINE D == DayNumber(d)
<1>1. ValidDate(d) /\ d \in [year : Nat, month : Nat, day : Nat]
  BY ClockAssumption DEF SetDate, SetDateTime
<1>2. D \in Int /\ DateOf(D) = d
  BY <1>1, DateKept
<1>3. DaySec \in Nat \ {0} /\ Current \in Nat
  BY ClockAssumption, CurrentType DEF IInv
<1> HIDE DEF D
<1>4. \E s \in 0 .. DaySec - 1 : call'.time = D * DaySec + s
  <2>1. CASE SetDate(d)
    <3>1. call'.time = D * DaySec + (Current % DaySec)
      BY <2>1 DEF SetDate, Begin, D
    <3> QED
      BY <1>3, <3>1, DivMod
  <2>2. CASE \E s \in TimeOfDay : SetDateTime(d, s)
    BY <2>2 DEF SetDateTime, Begin, TimeOfDay, D
  <2> QED
    BY <2>1, <2>2
<1>5. PICK s \in 0 .. DaySec - 1 : call'.time = D * DaySec + s
  BY <1>4
<1>6. D * DaySec + s \in Int /\ D * DaySec + s = DaySec * D + s
  BY <1>2, <1>3
<1>7. (D * DaySec + s) \div DaySec = D
  BY ONLY <1>2, <1>3, <1>6, s \in 0 .. DaySec - 1, ModUnique
<1> QED
  BY <1>2, <1>5, <1>7

(* The tables of the simulator and the calendar of the C library agree on  *)
(* every date from 2000 to 2099: what a setter accepts is stored as this   *)
(* date, and what the clock comes to is a date the setters accept.         *)
THEOREM CalendarsAgree == Spec => SameCalendar
<1>1. ASSUME IInv, NEW d \in Date,
             SetDate(d) \/ \E s \in TimeOfDay : SetDateTime(d, s)
      PROVE  DateOf(call'.time \div DaySec) = d
  BY <1>1, DayStored
<1>2. ASSUME IInv, Today.year <= 2099
      PROVE  ValidDate(Today)
  <2>1. Current \in Nat /\ DaySec \in Nat \ {0}
    BY <1>2, CurrentType, ClockAssumption DEF IInv
  <2>2. Current \div DaySec \in Nat
    BY <2>1
  <2> QED
    BY <1>2, <2>2, DayValid DEF Today
<1>3. IInv /\ [Next]_vars
      => [ /\ \A d \in Date :
                SetDate(d) \/ (\E s \in TimeOfDay : SetDateTime(d, s))
                  => DateOf(call'.time \div DaySec) = d
           /\ init /\ Today.year <= 2099 => ValidDate(Today) ]_vars
  BY <1>1, <1>2
<1> QED
  BY <1>3, IInvHolds, PTL DEF Spec, SameCalendar

----------------------------------------------------------------------------
(* Readings.                                                               *)

(* What a reading at an instant after the last setting shows.              *)
Shown(at) == base + (((at - since) % TickMod) \div SecMs)

(* The readings kept are of this setting, in their order, and show what    *)
(* the clock showed.                                                       *)
ObsInv ==
  /\ \A k \in 1 .. Len(obs) :
       since <= obs[k].at /\ obs[k].at <= host /\ obs[k].time = Shown(obs[k].at)
  /\ Len(obs) = 2 => obs[1].at <= obs[2].at

(* Readings are taken at instants.                                         *)
LEMMA InstantOfReading ==
  ASSUME IInv, NEW k \in 1 .. Len(obs)
  PROVE  obs[k].at \in Nat
<1> DEFINE T == [at : Nat, time : Nat]
<1>1. obs \in Seq(T)
  BY DEF IInv, TypeOK
<1> HIDE DEF T
<1>2. obs[k] \in T
  BY ONLY <1>1, k \in 1 .. Len(obs)
<1> QED
  BY <1>2 DEF T

(* A reading is kept with the one before it.                               *)
LEMMA ReadObs ==
  ASSUME IInv, ObsInv, Read
  PROVE  ObsInv'
<1> DEFINE now == [at |-> host, time |-> Current]
<1>1. /\ obs' = IF obs = <<>> THEN <<now>> ELSE <<obs[Len(obs)], now>>
      /\ UNCHANGED <<base, host, since>> /\ init
  BY DEF Read
<1>2. host \in Nat /\ since \in Nat /\ since <= host /\ Len(obs) <= 2
  BY DEF IInv, TypeOK
<1>3. now.at = host /\ now.time = Shown(host)
  BY <1>1, CurrentWraps DEF IInv, Shown
<1> HIDE DEF now
<1>4. CASE obs = <<>>
  <2>1. obs' = <<now>>
    BY <1>1, <1>4
  <2>2. Len(obs') = 1 /\ obs'[1] = now
    BY <2>1
  <2> QED
    BY <1>1, <1>2, <1>3, <2>2 DEF ObsInv, Shown
<1>5. CASE obs # <<>>
  <2> DEFINE last == obs[Len(obs)]
  <2>1. obs' = <<last, now>>
    BY <1>1, <1>5
  <2>2. Len(obs) \in 1 .. Len(obs)
    BY <1>5 DEF IInv, TypeOK
  <2>3. since <= last.at /\ last.at <= host /\ last.time = Shown(last.at)
    BY <2>2 DEF ObsInv
  <2> HIDE DEF last
  <2>4. Len(obs') = 2 /\ obs'[1] = last /\ obs'[2] = now
    BY <2>1
  <2> QED
    BY <1>1, <1>2, <1>3, <2>3, <2>4 DEF ObsInv, Shown
<1> QED
  BY <1>4, <1>5

LEMMA NextObs ==
  ASSUME IInv, ObsInv, [Next]_vars
  PROVE  ObsInv'
<1>1. CASE Advance
  <2>1. /\ host \in Nat /\ host' = host + 1 /\ UNCHANGED <<base, since, obs>>
    BY <1>1 DEF Advance, IInv, TypeOK
  <2>2. \A k \in 1 .. Len(obs) : obs[k].at \in Nat
    BY InstantOfReading
  <2> QED
    BY <2>1, <2>2 DEF ObsInv, Shown
<1>2. CASE Read
  BY <1>2, ReadObs
<1>3. CASE Rebase
  <2>1. obs' = <<>>
    BY <1>3 DEF Rebase
  <2> QED
    BY <2>1 DEF ObsInv
<1>4. CASE UNCHANGED <<base, host, since, obs>>
  BY <1>4 DEF ObsInv, Shown
<1>5. Advance \/ Read \/ Rebase \/ UNCHANGED <<base, host, since, obs>>
  BY DEF Next, vars, StartFail, Start, SetDate, SetDateTime, SetTime, Begin
<1> QED
  BY <1>1, <1>2, <1>3, <1>4, <1>5

(* Within one wrap two instants are as far apart as their readings, but    *)
(* for one second.                                                         *)
LEMMA ShownApart ==
  ASSUME TypeOK, NEW a \in Nat, NEW b \in Nat, since <= a, a <= b,
         (a - since) \div TickMod = (b - since) \div TickMod
  PROVE  Shown(b) - Shown(a) \in {(b - a) \div SecMs, ((b - a) \div SecMs) + 1}
<1> DEFINE r == (a - since) % TickMod
           q == (b - since) % TickMod
           d == b - a
<1>1. since \in Nat /\ base \in Nat
  BY DEF TypeOK
<1>2. a - since \in Nat /\ b - since \in Nat /\ d \in Nat
  BY <1>1
<1>3. r \in Nat /\ q = r + d
  <2> DEFINE x == a - since
             y == b - since
             w == x \div TickMod
  <2>1. x \in Int /\ y \in Int /\ y = x + d /\ y \div TickMod = w
    BY <1>1
  <2> HIDE DEF x, y
  <2>2. r \in 0 .. TickMod - 1 /\ w \in Int /\ x = TickMod * w + r
    <3>1. r = x % TickMod
      BY DEF x
    <3> QED
      BY ONLY <2>1, <3>1, ClockAssumption, DivMod
  <2>3. q \in 0 .. TickMod - 1 /\ y = TickMod * w + q
    <3>1. q = y % TickMod
      BY DEF y
    <3> QED
      BY ONLY <2>1, <3>1, ClockAssumption, DivMod
  <2> HIDE DEF w, r, q, d
  <2>4. TickMod * w \in Int
    BY <2>2, ClockAssumption
  <2> QED
    BY ONLY <1>2, <2>1, <2>2, <2>3, <2>4, ClockAssumption
<1> HIDE DEF r, q, d
<1>4. q \div SecMs \in {(r \div SecMs) + (d \div SecMs), (r \div SecMs) + (d \div SecMs) + 1}
  BY <1>2, <1>3, SecondsSplit, ClockAssumption
<1>5. r \div SecMs \in Int /\ d \div SecMs \in Int
  BY <1>2, <1>3, ClockAssumption
<1>6. Shown(a) = base + (r \div SecMs) /\ Shown(b) = base + (q \div SecMs)
  BY DEF Shown, r, q
<1>7. Shown(b) - Shown(a) \in {d \div SecMs, (d \div SecMs) + 1}
  BY <1>1, <1>4, <1>5, <1>6
<1> QED
  BY <1>7 DEF d

(* For every width of the tick: readings go backwards, or by more than the *)
(* time between them, only where the tick completes a wrap counted from    *)
(* the last setting.  That two readings are less than a wrap apart is not  *)
(* enough (NoBackwards).                                                   *)
THEOREM FollowsHost == Spec => []ReadingsFollowHost
<1>1. Init => ObsInv
  BY DEF Init, ObsInv
<1>2. IInv /\ ObsInv => ReadingsFollowHost
  <2> SUFFICES ASSUME IInv, ObsInv, Len(obs) = 2,
                      (obs[1].at - since) \div TickMod = (obs[2].at - since) \div TickMod
               PROVE  obs[2].time - obs[1].time \in
                        {(obs[2].at - obs[1].at) \div SecMs,
                         ((obs[2].at - obs[1].at) \div SecMs) + 1}
    BY DEF ReadingsFollowHost
  <2>1. 1 \in 1 .. Len(obs) /\ 2 \in 1 .. Len(obs)
    OBVIOUS
  <2>2. obs[1].at \in Nat /\ obs[2].at \in Nat
    BY <2>1, InstantOfReading
  <2>3. /\ since <= obs[1].at /\ obs[1].at <= obs[2].at
        /\ obs[1].time = Shown(obs[1].at) /\ obs[2].time = Shown(obs[2].at)
    BY <2>1 DEF ObsInv
  <2>4. Shown(obs[2].at) - Shown(obs[1].at) \in
          {(obs[2].at - obs[1].at) \div SecMs,
           ((obs[2].at - obs[1].at) \div SecMs) + 1}
    BY <2>2, <2>3, ShownApart DEF IInv
  <2> QED
    BY <2>3, <2>4
<1> QED
  BY <1>1, <1>2, NextObs, IInvHolds, PTL DEF Spec
=============================================================================
