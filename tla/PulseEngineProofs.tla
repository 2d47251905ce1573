------------------------- MODULE PulseEngineProofs -------------------------
(***************************************************************************)
(* Proofs about PulseEngine for every number of outputs and encoders, every *)
(* scale of pulses and positions, every width of the tick, and any         *)
(* frequencies, trains and links the application asks for at any time.     *)
(***************************************************************************)
EXTENDS PulseEngine, TLAPS

----------------------------------------------------------------------------
(* Arithmetic.                                                             *)

LEMMA DivMod ==
  ASSUME NEW a \in Int, NEW n \in Nat \ {0}
  PROVE  /\ a % n \in 0 .. n - 1 /\ a \div n \in Int
         /\ a = n * (a \div n) + (a % n)
OBVIOUS

LEMMA QuotientNat ==
  ASSUME NEW a \in Nat, NEW n \in Nat \ {0}
  PROVE  a \div n \in Nat
<1> DEFINE q == a \div n
           r == a % n
<1>1. q \in Int /\ r \in 0 .. n - 1 /\ a = n * q + r
  BY DivMod
<1> HIDE DEF q, r
<1>2. CASE q <= -1
  <2>1. n * q <= - n /\ n * q \in Int
    BY <1>1, <1>2
  <2> QED
    BY <1>1, <2>1
<1>3. q \in Nat
  BY <1>1, <1>2
<1> QED
  BY <1>3 DEF q

(* A remainder is known by one multiple of the divisor.                    *)
LEMMA ModUnique ==
  ASSUME NEW a \in Int, NEW n \in Nat \ {0}, NEW k \in Int, NEW r \in 0 .. n - 1,
         a = n * k + r
  PROVE  a % n = r
OBVIOUS

LEMMA NatProduct == \A a, b \in Nat : a * b \in Nat
OBVIOUS

LEMMA ProductMonotonic ==
  ASSUME NEW a \in Nat, NEW b \in Nat, NEW c \in Nat, NEW d \in Nat, a <= c, b <= d
  PROVE  a * b <= c * d
<1>1. a * b <= c * b /\ c * b <= c * d
  OBVIOUS
<1> QED
  BY <1>1, NatProduct

LEMMA AbsNat == \A x \in Int : Abs(x) \in Nat
BY DEF Abs

LEMMA TopNat == \A a, b \in Nat : Top(a, b) \in Nat /\ a <= Top(a, b) /\ b <= Top(a, b)
BY DEF Top

LEMMA BottomNat ==
  \A a, b \in Nat : Bottom(a, b) \in Nat /\ Bottom(a, b) <= a /\ Bottom(a, b) <= b
BY DEF Bottom

(* Whole pulses of a credit.                                               *)
LEMMA WholePulses ==
  ASSUME NEW a \in Nat
  PROVE  /\ a \div Den \in Nat /\ (a \div Den) * Den <= a
         /\ a - (a \div Den) * Den < Den
<1> DEFINE q == a \div Den
           r == a % Den
<1>1. Den \in Nat \ {0}
  BY ScaleAssumption
<1>2. q \in Int /\ r \in 0 .. Den - 1 /\ a = Den * q + r
  BY <1>1, DivMod
<1>3. q \in Nat
  BY ONLY <1>1, a \in Nat, QuotientNat
<1> HIDE DEF q, r
<1>4. Den * q = q * Den
  BY <1>1, <1>2
<1> QED
  BY <1>1, <1>2, <1>3, <1>4 DEF q

LEMMA HalfTwice == Half \in Nat /\ Half + Half = Rev
BY ScaleAssumption DEF Half

(* The angle is a position within one revolution, and differs from it by   *)
(* whole revolutions.                                                      *)
LEMMA WrapAngle ==
  ASSUME NEW x \in Int
  PROVE  /\ Wrap(x) \in - Half .. Half - 1
         /\ (x - Wrap(x)) % Rev = 0
<1> DEFINE q == (x + Half) \div Rev
           r == (x + Half) % Rev
<1>1. Rev \in Nat \ {0} /\ Half \in Nat /\ Half + Half = Rev
  BY ScaleAssumption, HalfTwice
<1>2. q \in Int /\ r \in 0 .. Rev - 1 /\ x + Half = Rev * q + r
  <2>1. x + Half \in Int
    BY <1>1
  <2> QED
    BY ONLY <1>1, <2>1, DivMod
<1>3. Wrap(x) = r - Half
  BY DEF Wrap
<1> HIDE DEF q, r
<1>4. Wrap(x) \in - Half .. Half - 1
  BY <1>1, <1>2, <1>3
<1>5. x - Wrap(x) = Rev * q + 0 /\ 0 \in 0 .. Rev - 1 /\ x - Wrap(x) \in Int
  <2>1. Rev * q \in Int
    BY <1>1, <1>2
  <2> HIDE DEF Half
  <2> QED
    BY <1>1, <1>2, <1>3, <2>1
<1>6. (x - Wrap(x)) % Rev = 0
  BY ONLY <1>1, <1>2, <1>5, ModUnique
<1> QED
  BY <1>4, <1>6

(* The time that the tick says has gone by is not more than what has.      *)
LEMMA TickDifference ==
  ASSUME NEW a \in Nat, NEW b \in Nat, b <= a
  PROVE  (((a % TickMod) - (b % TickMod)) % TickMod) <= a - b
<1> DEFINE n == TickMod
           p == a \div n
           r == a % n
           q == b \div n
           s == b % n
           u == (r - s) \div n
           t == (r - s) % n
<1>1. n \in Nat \ {0}
  BY ScaleAssumption
<1>2. /\ p \in Int /\ r \in 0 .. n - 1 /\ a = n * p + r
      /\ q \in Int /\ s \in 0 .. n - 1 /\ b = n * q + s
  BY <1>1, DivMod
<1>3. r - s \in Int
  BY <1>2
<1>4. u \in Int /\ t \in 0 .. n - 1 /\ r - s = n * u + t
  BY <1>1, <1>3, DivMod
<1> HIDE DEF n, p, r, q, s, u, t
<1>5. a - b = n * (p - q + u) + t
  <2>1. n * (p - q + u) = n * p - n * q + n * u
    BY <1>1, <1>2, <1>4
  <2>2. n * p \in Int /\ n * q \in Int /\ n * u \in Int
    BY <1>1, <1>2, <1>4
  <2> HIDE DEF n
  <2> QED
    BY <1>2, <1>4, <2>1, <2>2
<1>6. p - q + u >= 0
  <2>1. CASE p - q + u <= -1
    <3>1. n * (p - q + u) <= - n
      BY <1>1, <1>2, <1>4, <2>1
    <3> DEFINE w == n * (p - q + u)
    <3>2. w \in Int /\ w <= - n /\ a - b = w + t
      BY <1>1, <1>2, <1>4, <1>5, <3>1
    <3> HIDE DEF w
    <3> QED
      BY ONLY <1>1, <1>4, <3>2, b <= a, a \in Nat, b \in Nat
  <2> QED
    BY <1>2, <1>4, <2>1
<1>7. n * (p - q + u) >= 0 /\ n * (p - q + u) \in Int
  BY <1>1, <1>2, <1>4, <1>6
<1>8. t <= a - b
  BY <1>4, <1>5, <1>7
<1> QED
  BY <1>8 DEF t, r, s, n

----------------------------------------------------------------------------
(* Types.                                                                  *)

PwmRec == [freq : Int, pulses : Nat, frac : Nat, cb : BOOLEAN]
TrainRec == [asked : Nat, since : Nat, top : Nat]
PaceRec == [low : Nat, whole : BOOLEAN]
EncRec == [link : Pwm, ppr : 1 .. Rev, dig : 0 .. NDig, rel : Int,
           abs : - Half .. Half - 1, forward : BOOLEAN, speed : Int]

(* What a step works out for the output it is at: it never emits more than *)
(* the train has left, nor more than the credit is worth, and it leaves    *)
(* the credit of a whole pulse only where the train ends.                  *)
LEMMA CreditFacts ==
  ASSUME TypeOK, Stepping
  PROVE  /\ cur \in Pwm /\ P \in PwmRec /\ Credit \in Nat
         /\ Credit = Abs(P.freq) * dt + P.frac
         /\ Emitted \in Nat /\ Emitted <= P.pulses
         /\ Emitted * Den \in Nat /\ Emitted * Den <= Credit
         /\ Emitted < P.pulses => Credit - Emitted * Den < Den
<1>1. cur \in Pwm /\ P \in PwmRec
  BY ScaleAssumption DEF TypeOK, Stepping, P, Pwm, PwmRec
<1>2. Abs(P.freq) \in Nat /\ dt \in Nat /\ P.frac \in Nat /\ P.pulses \in Nat
  BY <1>1, AbsNat, ScaleAssumption DEF TypeOK, PwmRec
<1>3. Abs(P.freq) * dt \in Nat
  BY <1>2, NatProduct
<1>4. Credit = Abs(P.freq) * dt + P.frac
  BY DEF Credit
<1>5. Credit \in Nat
  BY <1>2, <1>3, <1>4
<1> DEFINE due == Credit \div Den
<1>6. due \in Nat /\ due * Den <= Credit /\ Credit - due * Den < Den
  BY <1>5, WholePulses
<1>7. Emitted = IF due > P.pulses THEN P.pulses ELSE due
  BY DEF Emitted
<1> HIDE DEF due
<1>8. Emitted \in Nat /\ Emitted <= P.pulses /\ Emitted <= due
      /\ (Emitted < P.pulses => Emitted = due)
  BY <1>2, <1>6, <1>7
<1>9. Den \in Nat /\ Emitted * Den <= due * Den /\ Emitted * Den \in Nat
      /\ due * Den \in Nat
  BY <1>6, <1>8, ProductMonotonic, NatProduct, ScaleAssumption
<1> QED
  BY <1>1, <1>4, <1>5, <1>6, <1>8, <1>9

LEMMA PwmTypes == TypeOK /\ Next => pwm' \in [Pwm -> PwmRec]
<1> SUFFICES ASSUME TypeOK, Next PROVE pwm' \in [Pwm -> PwmRec]
  OBVIOUS
<1>0. pwm \in [Pwm -> PwmRec] /\ Freqs \subseteq Int /\ Counts \subseteq Nat
  BY InputAssumption DEF TypeOK, PwmRec
<1>1. ASSUME NEW p \in Pwm, NEW n \in Counts, SetPulses(p, n)
      PROVE  pwm' \in [Pwm -> PwmRec]
  BY <1>0, <1>1 DEF SetPulses, PwmRec
<1>2. ASSUME NEW p \in Pwm, NEW f \in Freqs, SetFrequency(p, f)
      PROVE  pwm' \in [Pwm -> PwmRec]
  BY <1>0, <1>2 DEF SetFrequency, PwmRec
<1>3. ASSUME NEW p \in Pwm, NEW f \in Freqs, NEW n \in Counts, SetOutPwmSigPulses(p, f, n)
      PROVE  pwm' \in [Pwm -> PwmRec]
  BY <1>0, <1>3 DEF SetOutPwmSigPulses, PwmRec
<1>4. ASSUME NEW p \in Pwm, NEW on \in BOOLEAN, SetPulseCallback(p, on)
      PROVE  pwm' \in [Pwm -> PwmRec]
  BY <1>0, <1>4 DEF SetPulseCallback, PwmRec
<1>5. CASE PwmIdle
  BY <1>0, <1>5 DEF PwmIdle, PwmRec
<1>6. CASE PwmAccumulate
  <2>1. Credit \in Nat
    BY <1>6, CreditFacts DEF PwmAccumulate
  <2>2. pwm' = [pwm EXCEPT ![cur].frac = Credit]
    BY <1>6 DEF PwmAccumulate
  <2> QED
    BY <1>0, <2>1, <2>2 DEF PwmRec
<1>7. CASE PwmEmit
  <2> DEFINE left == P.pulses - Emitted
             rest == Credit - Emitted * Den
  <2>1. left \in Nat /\ rest \in Nat
    BY <1>7, CreditFacts DEF PwmEmit, PwmRec
  <2>2. pwm' = [pwm EXCEPT ![cur].pulses = left, ![cur].frac = rest]
    BY <1>7 DEF PwmEmit, P
  <2> HIDE DEF left, rest
  <2> QED
    BY <1>0, <2>1, <2>2 DEF PwmRec
<1>8. CASE UNCHANGED pwm
  BY <1>0, <1>8
<1> QED
  BY <1>1, <1>2, <1>3, <1>4, <1>5, <1>6, <1>7, <1>8
  DEF Next, SetMapping, SetOutDig, SetPosition, SetSpeed, Advance, StepStart,
      PwmStopped, CallbackReturn

(* What an encoder moves by.                                               *)
LEMMA MovedTypes ==
  ASSUME TypeOK, Stepping, NEW e \in Encoder
  PROVE  /\ Unit(e) \in Nat /\ Forward(e) \in BOOLEAN
         /\ Emitted * Unit(e) \in Nat
         /\ Moved(e) \in EncRec
<1>1. enc[e] \in EncRec /\ P \in PwmRec /\ Emitted \in Nat
  BY CreditFacts DEF TypeOK, EncRec
<1>2. Unit(e) \in Nat
  <2> DEFINE d == enc[e].ppr
  <2>1. Rev \in Nat /\ d \in Nat \ {0}
    BY <1>1, ScaleAssumption DEF EncRec
  <2>2. Unit(e) = Rev \div d
    BY DEF Unit
  <2> HIDE DEF d
  <2> QED
    BY ONLY <2>1, <2>2, QuotientNat
<1>3. Forward(e) \in BOOLEAN
  <2>1. CASE enc[e].dig \in Dig
    BY <2>1 DEF TypeOK, Forward
  <2>2. CASE enc[e].dig \notin Dig
    <3>1. pwm[enc[e].link].freq \in Int
      BY <1>1 DEF TypeOK, EncRec
    <3> QED
      BY <2>2, <3>1 DEF Forward
  <2> QED
    BY <2>1, <2>2
<1>4. Emitted * Unit(e) \in Nat /\ Abs(P.freq) * Unit(e) \in Nat
  BY <1>1, <1>2, NatProduct, AbsNat DEF PwmRec
<1> DEFINE x == Signed(e, Emitted * Unit(e))
           y == Signed(e, Abs(P.freq) * Unit(e))
           rel == enc[e].rel + x
<1>5. x \in Int /\ y \in Int
  BY <1>4 DEF Signed
<1>6. Moved(e) = [enc[e] EXCEPT !.rel = rel, !.abs = Wrap(rel), !.forward = Forward(e),
                                !.speed = @ + y]
  BY DEF Moved
<1> HIDE DEF x, y
<1>7. rel \in Int /\ Wrap(rel) \in - Half .. Half - 1
  <2>1. rel \in Int
    BY <1>1, <1>5 DEF EncRec
  <2> QED
    BY <2>1, WrapAngle
<1> HIDE DEF rel
<1>8. Moved(e) \in EncRec
  <2> DEFINE fw == Forward(e)
             at == Wrap(rel)
             sp == enc[e].speed + y
  <2>1. fw \in BOOLEAN /\ at \in - Half .. Half - 1 /\ sp \in Int /\ rel \in Int
    BY <1>1, <1>3, <1>5, <1>7 DEF EncRec
  <2>2. Moved(e) = [enc[e] EXCEPT !.rel = rel, !.abs = at, !.forward = fw, !.speed = sp]
    BY <1>1, <1>6 DEF EncRec
  <2> HIDE DEF fw, at, sp
  <2> QED
    BY <1>1, <2>1, <2>2 DEF EncRec
<1> QED
  BY <1>2, <1>3, <1>4, <1>8

LEMMA EncTypes == TypeOK /\ Next => enc' \in [Encoder -> EncRec]
<1> SUFFICES ASSUME TypeOK, Next PROVE enc' \in [Encoder -> EncRec]
  OBVIOUS
<1>0. enc \in [Encoder -> EncRec]
  BY DEF TypeOK, EncRec
<1>1. ASSUME NEW m \in Mappings, SetMapping(m)
      PROVE  enc' \in [Encoder -> EncRec]
  <2>1. m \in Mapping
    BY InputAssumption
  <2> QED
    BY <1>0, <1>1, <2>1 DEF SetMapping, Mapping, EncRec
<1>2. ASSUME NEW e \in Encoder, NEW x \in Positions, SetPosition(e, x)
      PROVE  enc' \in [Encoder -> EncRec]
  <2>1. x \in Int /\ Wrap(x) \in - Half .. Half - 1
    BY InputAssumption, WrapAngle
  <2> QED
    BY <1>0, <1>2, <2>1 DEF SetPosition, EncRec
<1>3. ASSUME NEW e \in Encoder, NEW v \in Speeds, SetSpeed(e, v)
      PROVE  enc' \in [Encoder -> EncRec]
  BY <1>0, <1>3, InputAssumption DEF SetSpeed, EncRec
<1>4. CASE StepStart
  BY <1>0, <1>4 DEF StepStart, EncRec
<1>5. CASE PwmEmit
  BY <1>0, <1>5, MovedTypes DEF PwmEmit
<1>6. CASE UNCHANGED enc
  BY <1>0, <1>6
<1> QED
  BY <1>1, <1>2, <1>3, <1>4, <1>5, <1>6
  DEF Next, SetPulses, SetFrequency, SetOutPwmSigPulses, SetPulseCallback, SetOutDig,
      Advance, PwmIdle, PwmStopped, PwmAccumulate, CallbackReturn

(* The time a step accounts for.                                           *)
LEMMA ElapsedType ==
  ASSUME TypeOK
  PROVE  host % TickMod \in 0 .. TickMod - 1 /\ Elapsed \in 0 .. TickMod - 1
<1>1. TickMod \in Nat \ {0} /\ host \in Int /\ last \in Int
  BY ScaleAssumption DEF TypeOK
<1>2. host % TickMod \in 0 .. TickMod - 1
  BY <1>1, DivMod
<1> DEFINE now == host % TickMod
<1> HIDE DEF now
<1>3. now \in Int
  BY <1>1, <1>2 DEF now
<1>4. now - last \in Int
  BY <1>1, <1>3
<1>5. (now - last) % TickMod \in 0 .. TickMod - 1
  BY ONLY <1>1, <1>4, DivMod
<1>6. Elapsed = IF last = 0 THEN 0 ELSE (now - last) % TickMod
  BY DEF Elapsed, now
<1> QED
  BY <1>1, <1>2, <1>5, <1>6

LEMMA TrainTypes == TypeOK /\ Next => train' \in [Pwm -> TrainRec]
<1> SUFFICES ASSUME TypeOK, Next PROVE train' \in [Pwm -> TrainRec]
  OBVIOUS
<1>0. /\ train \in [Pwm -> TrainRec] /\ pwm \in [Pwm -> PwmRec]
      /\ Freqs \subseteq Int /\ Counts \subseteq Nat
      /\ seen.now \in Nat /\ seen.before \in Nat
  BY InputAssumption DEF TypeOK, PwmRec, TrainRec
<1>1. \A p \in Pwm : \A f \in Int : \A n \in Nat : Started(p, f, n) \in TrainRec
  BY <1>0, AbsNat DEF Started, TrainRec
<1>2. ASSUME NEW p \in Pwm, NEW n \in Counts, SetPulses(p, n)
      PROVE  train' \in [Pwm -> TrainRec]
  <2>1. pwm[p].freq \in Int /\ n \in Nat
    BY <1>0 DEF PwmRec
  <2> QED
    BY <1>0, <1>1, <1>2, <2>1 DEF SetPulses
<1>3. ASSUME NEW p \in Pwm, NEW f \in Freqs, SetFrequency(p, f)
      PROVE  train' \in [Pwm -> TrainRec]
  <2> DEFINE t == Top(train[p].top, Abs(f))
  <2>1. t \in Nat
    BY <1>0, AbsNat, TopNat DEF TrainRec
  <2>2. train' = [train EXCEPT ![p].top = t]
    BY <1>3 DEF SetFrequency
  <2> HIDE DEF t
  <2> QED
    BY <1>0, <2>1, <2>2 DEF TrainRec
<1>4. ASSUME NEW p \in Pwm, NEW f \in Freqs, NEW n \in Counts, SetOutPwmSigPulses(p, f, n)
      PROVE  train' \in [Pwm -> TrainRec]
  BY <1>0, <1>1, <1>4 DEF SetOutPwmSigPulses
<1>5. CASE UNCHANGED train
  BY <1>0, <1>5
<1> QED
  BY <1>2, <1>3, <1>4, <1>5
  DEF Next, SetPulseCallback, SetMapping, SetOutDig, SetPosition, SetSpeed, Advance,
      StepStart, PwmIdle, PwmStopped, PwmAccumulate, PwmEmit, CallbackReturn

LEMMA PaceTypes == TypeOK /\ Next => pace' \in [Pwm -> PaceRec]
<1> SUFFICES ASSUME TypeOK, Next PROVE pace' \in [Pwm -> PaceRec]
  OBVIOUS
<1>0. /\ pace \in [Pwm -> PaceRec] /\ pwm \in [Pwm -> PwmRec]
      /\ Freqs \subseteq Int
  BY InputAssumption DEF TypeOK, PwmRec, PaceRec
<1>1. \A p \in Pwm : \A f \in Int : FirstPace(p, f) \in PaceRec
  <2> SUFFICES ASSUME NEW p \in Pwm, NEW f \in Int
               PROVE  FirstPace(p, f) \in PaceRec
    OBVIOUS
  <2> DEFINE w == p > cur => Counted(seen.before, seen.now)
             low == Abs(f)
  <2>1. w \in BOOLEAN
    OBVIOUS
  <2>2. low \in Nat /\ FirstPace(p, f) = [low |-> low, whole |-> w]
    BY AbsNat DEF FirstPace
  <2> HIDE DEF w, low
  <2> QED
    BY ONLY <2>1, <2>2 DEF PaceRec
<1>2. ASSUME NEW p \in Pwm, NEW n \in Counts, SetPulses(p, n)
      PROVE  pace' \in [Pwm -> PaceRec]
  <2>1. pwm[p].freq \in Int
    BY <1>0 DEF PwmRec
  <2> QED
    BY <1>0, <1>1, <1>2, <2>1 DEF SetPulses
<1>3. ASSUME NEW p \in Pwm, NEW f \in Freqs, SetFrequency(p, f)
      PROVE  pace' \in [Pwm -> PaceRec]
  <2> DEFINE b == Bottom(pace[p].low, Abs(f))
  <2>1. b \in Nat
    BY <1>0, AbsNat, BottomNat DEF PaceRec
  <2>2. pace' = [pace EXCEPT ![p].low = b]
    BY <1>3 DEF SetFrequency
  <2> HIDE DEF b
  <2> QED
    BY <1>0, <2>1, <2>2 DEF PaceRec
<1>4. ASSUME NEW p \in Pwm, NEW f \in Freqs, NEW n \in Counts, SetOutPwmSigPulses(p, f, n)
      PROVE  pace' \in [Pwm -> PaceRec]
  BY <1>0, <1>1, <1>4 DEF SetOutPwmSigPulses
<1>5. CASE StepStart
  <2>1. \A p \in Pwm : (pace[p].whole /\ Counted(seen.now, host)) \in BOOLEAN
    OBVIOUS
  <2>2. pace' = [p \in Pwm |-> [pace[p] EXCEPT !.whole = @ /\ Counted(seen.now, host)]]
    BY <1>5 DEF StepStart
  <2> QED
    BY <1>0, <2>1, <2>2, Zenon DEF PaceRec
<1>6. CASE UNCHANGED pace
  BY <1>0, <1>6
<1> QED
  BY <1>2, <1>3, <1>4, <1>5, <1>6
  DEF Next, SetPulseCallback, SetMapping, SetOutDig, SetPosition, SetSpeed, Advance,
      PwmIdle, PwmStopped, PwmAccumulate, PwmEmit, CallbackReturn

LEMMA EngineTypes ==
  TypeOK /\ Next =>
    /\ out' \in [Dig -> BOOLEAN]
    /\ host' \in Nat /\ last' \in 0 .. TickMod - 1 /\ dt' \in 0 .. TickMod - 1
    /\ cur' \in 0 .. NPwm
    /\ inCallback' \in BOOLEAN /\ (inCallback' => cur' < NPwm)
    /\ seen' \in [now : Nat, before : Nat]
<1> SUFFICES ASSUME TypeOK, Next
             PROVE  /\ out' \in [Dig -> BOOLEAN]
                    /\ host' \in Nat /\ last' \in 0 .. TickMod - 1
                    /\ dt' \in 0 .. TickMod - 1
                    /\ cur' \in 0 .. NPwm
                    /\ inCallback' \in BOOLEAN /\ (inCallback' => cur' < NPwm)
                    /\ seen' \in [now : Nat, before : Nat]
  OBVIOUS
<1>0. /\ out \in [Dig -> BOOLEAN] /\ host \in Nat /\ last \in 0 .. TickMod - 1
      /\ dt \in 0 .. TickMod - 1 /\ cur \in 0 .. NPwm
      /\ inCallback \in BOOLEAN /\ (inCallback => cur < NPwm)
      /\ seen \in [now : Nat, before : Nat] /\ NPwm \in Nat \ {0}
  BY ScaleAssumption DEF TypeOK
<1>1. ASSUME NEW d \in Dig, NEW level \in Levels, SetOutDig(d, level)
      PROVE  out' \in [Dig -> BOOLEAN] /\ UNCHANGED engine
  BY <1>0, <1>1, InputAssumption DEF SetOutDig
<1>2. CASE UNCHANGED <<out, engine>>
  BY <1>0, <1>2 DEF engine
<1>3. CASE Advance
  BY <1>0, <1>3 DEF Advance
<1>4. CASE StepStart
  <2>1. last' \in 0 .. TickMod - 1 /\ dt' \in 0 .. TickMod - 1
    BY <1>4, ElapsedType DEF StepStart
  <2>2. cur' \in 0 .. NPwm /\ inCallback' = inCallback /\ ~ inCallback
    BY <1>0, <1>4 DEF StepStart
  <2>3. seen' \in [now : Nat, before : Nat] /\ UNCHANGED <<out, host>>
    BY <1>0, <1>4 DEF StepStart
  <2> QED
    BY <1>0, <2>1, <2>2, <2>3
<1>5. CASE PwmIdle \/ PwmStopped \/ PwmAccumulate
  BY <1>0, <1>5 DEF PwmIdle, PwmStopped, PwmAccumulate, NextPwm, Stepping
<1>6. CASE PwmEmit
  <2>1. /\ cur < NPwm /\ ~ inCallback /\ out' = out
        /\ UNCHANGED <<host, last, dt, seen>>
        /\ \/ inCallback' = TRUE /\ cur' = cur
           \/ inCallback' = inCallback /\ cur' = cur + 1
    BY <1>6 DEF PwmEmit, NextPwm, Stepping
  <2>2. inCallback' \in BOOLEAN
    BY <1>0, <2>1, Zenon
  <2>3. cur' \in 0 .. NPwm /\ (inCallback' => cur' < NPwm)
    BY <1>0, <2>1
  <2> QED
    BY <1>0, <2>1, <2>2, <2>3
<1>7. CASE CallbackReturn
  <2>1. inCallback' \in BOOLEAN /\ ~ inCallback'
    BY <1>7, Zenon DEF CallbackReturn
  <2>2. cur' \in 0 .. NPwm /\ UNCHANGED <<out, host, last, dt, seen>>
    BY <1>0, <1>7 DEF CallbackReturn
  <2> QED
    BY <1>0, <2>1, <2>2
<1> QED
  BY <1>0, <1>1, <1>2, <1>3, <1>4, <1>5, <1>6, <1>7
  DEF Next, engine, SetPulses, SetFrequency, SetOutPwmSigPulses, SetPulseCallback,
      SetMapping, SetPosition, SetSpeed

LEMMA InitTypes == Init => TypeOK
<1> SUFFICES ASSUME Init PROVE TypeOK
  OBVIOUS
<1>1. pwm \in [Pwm -> PwmRec]
  BY DEF Init, PwmRec
<1>2. enc \in [Encoder -> EncRec]
  <2>1. ASSUME NEW e \in Encoder
        PROVE  e % NPwm \in Pwm /\ e % NDig \in 0 .. NDig
    <3>1. e \in Int /\ NPwm \in Nat \ {0} /\ NDig \in Nat \ {0}
      BY ScaleAssumption DEF Encoder
    <3>2. e % NPwm \in 0 .. NPwm - 1 /\ e % NDig \in 0 .. NDig - 1
      BY <3>1, DivMod
    <3>3. 0 .. NDig - 1 \subseteq 0 .. NDig
      BY <3>1
    <3> QED
      BY <3>2, <3>3 DEF Pwm
  <2>2. 0 \in - Half .. Half - 1 /\ DefaultPpr \in 1 .. Rev
    <3>1. Half \in Nat /\ Half + Half \in Nat \ {0}
      BY HalfTwice, ScaleAssumption
    <3> QED
      BY <3>1, InputAssumption
  <2>3. enc = [e \in Encoder |-> [link |-> e % NPwm, ppr |-> DefaultPpr, dig |-> e % NDig,
                                  rel |-> 0, abs |-> 0, forward |-> TRUE, speed |-> 0]]
    BY DEF Init
  <2> QED
    BY <2>1, <2>2, <2>3 DEF EncRec
<1>3. train \in [Pwm -> TrainRec]
  BY DEF Init, TrainRec
<1>4. /\ out \in [Dig -> BOOLEAN]
      /\ host \in Nat /\ last \in 0 .. TickMod - 1 /\ dt \in 0 .. TickMod - 1
      /\ cur \in 0 .. NPwm /\ inCallback \in BOOLEAN /\ ~ inCallback
      /\ seen \in [now : Nat, before : Nat]
  <2>1. inCallback \in BOOLEAN /\ ~ inCallback /\ out \in [Dig -> BOOLEAN]
    BY Zenon DEF Init
  <2>2. /\ host \in Nat /\ last \in 0 .. TickMod - 1 /\ dt \in 0 .. TickMod - 1
        /\ cur \in 0 .. NPwm /\ seen \in [now : Nat, before : Nat]
    BY ScaleAssumption DEF Init
  <2> QED
    BY <2>1, <2>2
<1>5. pace \in [Pwm -> PaceRec]
  BY DEF Init, PaceRec
<1> QED
  BY <1>1, <1>2, <1>3, <1>4, <1>5 DEF TypeOK, PwmRec, EncRec, TrainRec, PaceRec

LEMMA NextTypes == TypeOK /\ [Next]_vars => TypeOK'
<1> SUFFICES ASSUME TypeOK, [Next]_vars PROVE TypeOK'
  OBVIOUS
<1>1. CASE Next
  BY <1>1, PwmTypes, EncTypes, TrainTypes, PaceTypes, EngineTypes
  DEF TypeOK, PwmRec, EncRec, TrainRec, PaceRec
<1>2. CASE UNCHANGED vars
  BY <1>2 DEF TypeOK, vars
<1> QED
  BY <1>1, <1>2

----------------------------------------------------------------------------
(* Credit.                                                                 *)

(* What is emitted and what remains for the output the step is at.         *)
LEMMA EmitLeaves ==
  ASSUME TypeOK, PwmEmit
  PROVE  /\ pwm'[cur].pulses = P.pulses - Emitted
         /\ pwm'[cur].frac = Credit - Emitted * Den
         /\ pwm'[cur].freq = P.freq
         /\ \A q \in Pwm : q # cur => pwm'[q] = pwm[q]
<1> DEFINE left == P.pulses - Emitted
           rest == Credit - Emitted * Den
<1>1. pwm \in [Pwm -> PwmRec] /\ cur \in Pwm
  BY CreditFacts DEF PwmEmit, TypeOK, PwmRec
<1>2. pwm' = [pwm EXCEPT ![cur].pulses = left, ![cur].frac = rest] /\ P = pwm[cur]
  BY DEF PwmEmit, P
<1> HIDE DEF left, rest
<1>3. /\ pwm'[cur].pulses = left /\ pwm'[cur].frac = rest
      /\ pwm'[cur].freq = P.freq
      /\ \A q \in Pwm : q # cur => pwm'[q] = pwm[q]
  BY <1>1, <1>2 DEF PwmRec
<1> QED
  BY <1>3 DEF left, rest

LEMMA AccumulateLeaves ==
  ASSUME TypeOK, PwmAccumulate
  PROVE  /\ pwm'[cur] = [pwm[cur] EXCEPT !.frac = Credit]
         /\ pwm'[cur].pulses = P.pulses /\ pwm'[cur].frac = Credit
         /\ pwm'[cur].freq = P.freq
         /\ \A q \in Pwm : q # cur => pwm'[q] = pwm[q]
         /\ Credit < Den
<1>1. pwm \in [Pwm -> PwmRec] /\ cur \in Pwm
  BY CreditFacts DEF PwmAccumulate, TypeOK, PwmRec
<1>2. pwm' = [pwm EXCEPT ![cur].frac = Credit] /\ P = pwm[cur]
  BY DEF PwmAccumulate, P
<1>3. Credit < Den
  <2>1. Emitted = 0 /\ Emitted < P.pulses /\ Credit \in Nat
    BY CreditFacts DEF PwmAccumulate, PwmRec
  <2>2. Credit - Emitted * Den < Den
    BY <2>1, CreditFacts DEF PwmAccumulate
  <2>3. 0 * Den = 0 /\ Den \in Nat
    BY ScaleAssumption
  <2> QED
    BY <2>1, <2>2, <2>3
<1> QED
  BY <1>1, <1>2, <1>3 DEF PwmRec

LEMMA NextNoStaleCredit == TypeOK /\ NoStaleCredit /\ [Next]_vars => NoStaleCredit'
<1> SUFFICES ASSUME TypeOK, NoStaleCredit, [Next]_vars, NEW q \in Pwm, pwm'[q].pulses > 0
             PROVE  pwm'[q].frac < Den
  BY DEF NoStaleCredit
<1>0. /\ pwm \in [Pwm -> PwmRec] /\ Den \in Nat \ {0}
      /\ pwm[q].pulses > 0 => pwm[q].frac < Den
  BY ScaleAssumption DEF TypeOK, PwmRec, NoStaleCredit
<1>1. ASSUME NEW p \in Pwm, NEW n \in Counts, SetPulses(p, n)
      PROVE  pwm'[q].frac < Den
  BY <1>0, <1>1 DEF SetPulses, PwmRec
<1>2. ASSUME NEW p \in Pwm, NEW f \in Freqs, SetFrequency(p, f)
      PROVE  pwm'[q].frac < Den
  BY <1>0, <1>2 DEF SetFrequency, PwmRec
<1>3. ASSUME NEW p \in Pwm, NEW f \in Freqs, NEW n \in Counts, SetOutPwmSigPulses(p, f, n)
      PROVE  pwm'[q].frac < Den
  BY <1>0, <1>3 DEF SetOutPwmSigPulses, PwmRec
<1>4. ASSUME NEW p \in Pwm, NEW on \in BOOLEAN, SetPulseCallback(p, on)
      PROVE  pwm'[q].frac < Den
  BY <1>0, <1>4 DEF SetPulseCallback, PwmRec
<1>5. CASE PwmIdle
  BY <1>0, <1>5 DEF PwmIdle, P, PwmRec
<1>6. CASE PwmAccumulate
  BY <1>0, <1>6, AccumulateLeaves
<1>7. CASE PwmEmit
  <2>1. CASE q = cur
    <3>1. Emitted < P.pulses
      <4>1. P.pulses - Emitted > 0
        BY <1>7, <2>1, EmitLeaves
      <4>2. P.pulses \in Nat /\ Emitted \in Nat
        BY <1>7, CreditFacts DEF PwmEmit, PwmRec
      <4> QED
        BY <4>1, <4>2
    <3> QED
      BY <1>7, <2>1, <3>1, EmitLeaves, CreditFacts DEF PwmEmit
  <2>2. CASE q # cur
    BY <1>0, <1>7, <2>2, EmitLeaves
  <2> QED
    BY <2>1, <2>2
<1>8. CASE UNCHANGED pwm
  BY <1>0, <1>8
<1> QED
  BY <1>1, <1>2, <1>3, <1>4, <1>5, <1>6, <1>7, <1>8
  DEF Next, vars, SetMapping, SetOutDig, SetPosition, SetSpeed, Advance, StepStart,
      PwmStopped, CallbackReturn

----------------------------------------------------------------------------
(* Angle.                                                                  *)

LEMMA NextAngle == TypeOK /\ AngleOfPosition /\ [Next]_vars => AngleOfPosition'
<1> SUFFICES ASSUME TypeOK, AngleOfPosition, [Next]_vars, NEW e \in Encoder
             PROVE  (enc'[e].rel - enc'[e].abs) % Rev = 0
  BY DEF AngleOfPosition
<1>0. /\ enc \in [Encoder -> EncRec]
      /\ (enc[e].rel - enc[e].abs) % Rev = 0
  BY DEF TypeOK, EncRec, AngleOfPosition
<1>1. ASSUME NEW m \in Mappings, SetMapping(m)
      PROVE  enc'[e].rel = enc[e].rel /\ enc'[e].abs = enc[e].abs
  BY <1>0, <1>1 DEF SetMapping, EncRec
<1>2. ASSUME NEW d \in Encoder, NEW x \in Positions, SetPosition(d, x)
      PROVE  (enc'[e].rel - enc'[e].abs) % Rev = 0
  <2>1. x \in Int /\ (x - Wrap(x)) % Rev = 0
    BY InputAssumption, WrapAngle
  <2>2. CASE d = e
    <3>1. enc'[e].rel = x /\ enc'[e].abs = Wrap(x)
      BY <1>0, <1>2, <2>2 DEF SetPosition, EncRec
    <3> QED
      BY <2>1, <3>1
  <2>3. CASE d # e
    <3>1. enc'[e] = enc[e]
      BY <1>0, <1>2, <2>3 DEF SetPosition
    <3> QED
      BY <1>0, <3>1
  <2> QED
    BY <2>2, <2>3
<1>3. ASSUME NEW d \in Encoder, NEW v \in Speeds, SetSpeed(d, v)
      PROVE  enc'[e].rel = enc[e].rel /\ enc'[e].abs = enc[e].abs
  BY <1>0, <1>3 DEF SetSpeed, EncRec
<1>4. CASE StepStart
  <2>1. enc'[e].rel = enc[e].rel /\ enc'[e].abs = enc[e].abs
    BY <1>0, <1>4 DEF StepStart, EncRec
  <2> QED
    BY <1>0, <2>1
<1>5. CASE PwmEmit
  <2>1. CASE enc[e].link = cur
    <3> DEFINE rel == enc[e].rel + Signed(e, Emitted * Unit(e))
    <3>1. enc'[e] = Moved(e)
      BY <1>5, <2>1 DEF PwmEmit
    <3>2. Moved(e).rel = rel /\ Moved(e).abs = Wrap(rel)
      BY <1>0 DEF Moved, EncRec
    <3>3. rel \in Int
      BY <1>5, <3>2, MovedTypes DEF PwmEmit, EncRec
    <3> HIDE DEF rel
    <3> QED
      BY <3>1, <3>2, <3>3, WrapAngle
  <2>2. CASE enc[e].link # cur
    <3>1. enc'[e] = enc[e]
      BY <1>5, <2>2 DEF PwmEmit
    <3> QED
      BY <1>0, <3>1
  <2> QED
    BY <2>1, <2>2
<1>6. CASE UNCHANGED enc
  BY <1>0, <1>6
<1>7. ASSUME enc'[e].rel = enc[e].rel, enc'[e].abs = enc[e].abs
      PROVE  (enc'[e].rel - enc'[e].abs) % Rev = 0
  BY <1>0, <1>7
<1> QED
  BY <1>1, <1>2, <1>3, <1>4, <1>5, <1>6, <1>7
  DEF Next, vars, SetPulses, SetFrequency, SetOutPwmSigPulses, SetPulseCallback, SetOutDig,
      Advance, PwmIdle, PwmStopped, PwmAccumulate, CallbackReturn

----------------------------------------------------------------------------
(* Trains.                                                                 *)

(* The instant up to which output p has been credited: an output that the  *)
(* step in progress has still to reach lacks the interval of that step.    *)
Credited(p) ==
  IF p < cur \/ cur = NPwm \/ (p = cur /\ inCallback) THEN seen.now ELSE seen.before

(* The step in progress accounts for no more time than went by between the *)
(* last two readings of the tick.                                          *)
ClockInv ==
  /\ seen.before <= seen.now /\ seen.now <= host
  /\ last = seen.now % TickMod
  /\ cur < NPwm => dt <= seen.now - seen.before

(* What a train has emitted, with the credit it carries along.             *)
Spent(p) ==
  (train[p].asked - pwm[p].pulses) * Den
    + (IF pwm[p].pulses > 0 THEN pwm[p].frac ELSE 0)

OnTime(p) ==
  /\ Abs(pwm[p].freq) <= train[p].top
  /\ train[p].since <= Credited(p)
  /\ Spent(p) <= train[p].top * (Credited(p) - train[p].since)

TrainInv == \A p \in Pwm : OnTime(p)

LEMMA NextClock == TypeOK /\ ClockInv /\ [Next]_vars => ClockInv'
<1> SUFFICES ASSUME TypeOK, ClockInv, [Next]_vars PROVE ClockInv'
  OBVIOUS
<1>0. /\ host \in Nat /\ seen \in [now : Nat, before : Nat] /\ cur \in 0 .. NPwm
      /\ seen.now \in Nat /\ seen.before \in Nat
      /\ seen.before <= seen.now /\ seen.now <= host
      /\ last = seen.now % TickMod
      /\ cur < NPwm => dt <= seen.now - seen.before
      /\ NPwm \in Nat \ {0}
  BY ScaleAssumption DEF TypeOK, ClockInv
<1>1. CASE Advance
  BY <1>0, <1>1 DEF Advance, ClockInv
<1>2. CASE StepStart
  <2>1. /\ host' = host /\ last' = host % TickMod /\ dt' = Elapsed
        /\ seen' = [now |-> host, before |-> seen.now]
    BY <1>2 DEF StepStart
  <2>2. Elapsed <= host - seen.now
    <3>1. CASE last = 0
      BY <1>0, <3>1 DEF Elapsed
    <3>2. CASE last # 0
      <4>1. Elapsed = ((host % TickMod) - (seen.now % TickMod)) % TickMod
        BY <1>0, <3>2 DEF Elapsed
      <4> QED
        BY <1>0, <4>1, TickDifference
    <3> QED
      BY <3>1, <3>2
  <2>3. seen'.now = host /\ seen'.before = seen.now
    BY <2>1
  <2> QED
    BY <1>0, <2>1, <2>2, <2>3 DEF ClockInv
<1>3. ASSUME UNCHANGED <<host, last, dt, seen>>, cur' \in {cur, cur + 1}, cur < NPwm \/ cur' = cur
      PROVE  ClockInv'
  BY <1>0, <1>3 DEF ClockInv
<1>4. CASE UNCHANGED engine
  BY <1>3, <1>4 DEF engine
<1>5. CASE PwmIdle \/ PwmStopped \/ PwmAccumulate \/ PwmEmit
  <2>1. UNCHANGED <<host, last, dt, seen>> /\ cur' \in {cur, cur + 1} /\ cur < NPwm
    BY <1>5 DEF PwmIdle, PwmStopped, PwmAccumulate, PwmEmit, NextPwm, Stepping
  <2> QED
    BY <1>3, <2>1
<1>6. CASE CallbackReturn
  <2>1. UNCHANGED <<host, last, dt, seen>> /\ cur' \in {cur, cur + 1} /\ cur < NPwm
    BY <1>6 DEF CallbackReturn, TypeOK
  <2> QED
    BY <1>3, <2>1
<1> QED
  BY <1>1, <1>2, <1>4, <1>5, <1>6
  DEF Next, vars, engine, SetPulses, SetFrequency, SetOutPwmSigPulses, SetPulseCallback,
      SetMapping, SetOutDig, SetPosition, SetSpeed

(* A bound that grows with the time and the frequency allowed.             *)
LEMMA LaterBound ==
  ASSUME NEW t \in Nat, NEW u \in Nat, NEW c \in Nat, NEW d \in Nat, NEW s \in Nat,
         NEW x \in Int, s <= c, c <= d, t <= u, x <= t * (c - s)
  PROVE  x <= u * (d - s)
<1>1. c - s \in Nat /\ d - s \in Nat /\ c - s <= d - s
  OBVIOUS
<1>2. t * (c - s) <= u * (d - s) /\ t * (c - s) \in Nat /\ u * (d - s) \in Nat
  BY <1>1, ProductMonotonic, NatProduct
<1> QED
  BY <1>2

LEMMA CreditBound ==
  ASSUME NEW f \in Nat, NEW t \in Nat, NEW c \in Nat, NEW d \in Nat, NEW s \in Nat,
         NEW i \in Nat, NEW x \in Int, NEW y \in Int,
         f <= t, s <= c, i <= d - c, x <= t * (c - s), y <= x + f * i
  PROVE  y <= t * (d - s)
<1>1. d - c \in Nat /\ c - s \in Nat
  OBVIOUS
<1>2. f * i <= t * (d - c) /\ f * i \in Nat /\ t * (d - c) \in Nat /\ t * (c - s) \in Nat
  BY <1>1, ProductMonotonic, NatProduct
<1>3. t * (d - s) = t * (d - c) + t * (c - s)
  OBVIOUS
<1> QED
  BY <1>2, <1>3

LEMMA CreditedType ==
  ASSUME TypeOK, NEW p \in Pwm
  PROVE  Credited(p) \in Nat
BY DEF TypeOK, Credited

(* Outside the step's look at an output its credit stays or moves on.      *)
LEMMA CreditedMoves ==
  ASSUME TypeOK, ClockInv, [Next]_vars, NEW p \in Pwm
  PROVE  /\ Credited(p)' \in Nat /\ Credited(p) <= Credited(p)'
         /\ Stepping /\ p = cur => Credited(p) = seen.before
<1>0. /\ seen.now \in Nat /\ seen.before \in Nat /\ host \in Nat
      /\ seen.before <= seen.now /\ seen.now <= host /\ cur \in 0 .. NPwm
      /\ p \in 0 .. NPwm - 1 /\ NPwm \in Nat \ {0} /\ (inCallback => cur < NPwm)
  BY ScaleAssumption DEF TypeOK, ClockInv, Pwm
<1>1. Credited(p) \in {seen.now, seen.before}
  BY DEF Credited
<1>2. Stepping /\ p = cur => Credited(p) = seen.before
  BY <1>0 DEF Stepping, Credited
<1>3. ASSUME UNCHANGED <<cur, inCallback, seen>>
      PROVE  Credited(p)' \in Nat /\ Credited(p) <= Credited(p)'
  BY <1>0, <1>1, <1>3 DEF Credited
<1>4. CASE StepStart
  <2>1. Credited(p) = seen.now /\ ~ inCallback'
    BY <1>0, <1>4 DEF StepStart, Credited
  <2>2. seen'.now = host /\ seen'.before = seen.now
    BY <1>4 DEF StepStart
  <2>3. Credited(p)' \in {host, seen.now}
    BY <2>2 DEF Credited
  <2> QED
    BY <1>0, <1>2, <2>1, <2>3
<1>5. ASSUME seen' = seen, cur' = cur + 1, cur < NPwm, ~ inCallback'
      PROVE  Credited(p)' \in Nat /\ Credited(p) <= Credited(p)'
  <2>1. CASE p < cur + 1 \/ cur + 1 = NPwm
    <3>1. Credited(p)' = seen.now
      BY <1>5, <2>1 DEF Credited
    <3> QED
      BY <1>0, <1>1, <3>1
  <2>2. CASE ~ (p < cur + 1) /\ cur + 1 # NPwm
    <3>1. Credited(p)' = seen.before /\ Credited(p) = seen.before
      BY <1>0, <1>5, <2>2 DEF Credited
    <3> QED
      BY <1>0, <3>1
  <2> QED
    BY <2>1, <2>2
<1>6. CASE PwmIdle \/ PwmStopped \/ PwmAccumulate
  <2>1. seen' = seen /\ cur' = cur + 1 /\ cur < NPwm /\ ~ inCallback'
    BY <1>6 DEF PwmIdle, PwmStopped, PwmAccumulate, NextPwm, Stepping
  <2> QED
    BY <1>2, <1>5, <2>1
<1>7. CASE PwmEmit
  <2>1. seen' = seen /\ cur < NPwm /\ ~ inCallback
        /\ \/ inCallback' /\ cur' = cur
           \/ ~ inCallback' /\ cur' = cur + 1
    BY <1>7 DEF PwmEmit, NextPwm, Stepping
  <2>2. CASE inCallback' /\ cur' = cur
    <3>1. CASE p = cur
      <4>1. Credited(p)' = seen.now
        BY <2>1, <2>2, <3>1 DEF Credited
      <4> QED
        BY <1>0, <1>1, <1>2, <4>1
    <3>2. CASE p # cur
      <4>1. Credited(p)' = Credited(p)
        BY <2>1, <2>2, <3>2 DEF Credited
      <4> QED
        BY <1>0, <1>1, <1>2, <4>1
    <3> QED
      BY <3>1, <3>2
  <2> QED
    BY <1>2, <1>5, <2>1, <2>2
<1>8. CASE CallbackReturn
  <2>1. seen' = seen /\ cur' = cur + 1 /\ cur < NPwm /\ ~ inCallback'
    BY <1>0, <1>8 DEF CallbackReturn
  <2> QED
    BY <1>2, <1>5, <2>1
<1>9. CASE UNCHANGED <<cur, inCallback, seen>>
  BY <1>2, <1>3, <1>9
<1> QED
  BY <1>4, <1>6, <1>7, <1>8, <1>9
  DEF Next, vars, engine, SetPulses, SetFrequency, SetOutPwmSigPulses, SetPulseCallback,
      SetMapping, SetOutDig, SetPosition, SetSpeed, Advance

(* The output the step is at gets the interval of the step.                *)
LEMMA CreditedNow ==
  ASSUME TypeOK, ClockInv, PwmIdle \/ PwmStopped \/ PwmAccumulate \/ PwmEmit,
         NEW p \in Pwm, p = cur
  PROVE  /\ Credited(p) = seen.before /\ Credited(p)' = seen.now
         /\ dt \in Nat /\ dt <= Credited(p)' - Credited(p)
<1>0. /\ seen.now \in Nat /\ seen.before \in Nat /\ cur \in Nat /\ NPwm \in Nat
      /\ dt \in Nat /\ (cur < NPwm => dt <= seen.now - seen.before)
  BY ScaleAssumption DEF TypeOK, ClockInv
<1>1. /\ cur < NPwm /\ ~ inCallback /\ seen' = seen
      /\ cur' = cur + 1 \/ (cur' = cur /\ inCallback')
  BY DEF PwmIdle, PwmStopped, PwmAccumulate, PwmEmit, NextPwm, Stepping
<1>2. Credited(p) = seen.before
  BY <1>0, <1>1 DEF Credited
<1>3. Credited(p)' = seen.now
  BY <1>0, <1>1 DEF Credited
<1> QED
  BY <1>0, <1>1, <1>2, <1>3

(* The spending of a train does not outrun its bound: nothing is spent, or *)
(* what is spent is covered by the interval credited.                      *)
LEMMA OnTimeStep ==
  ASSUME TypeOK, ClockInv, [Next]_vars, NEW p \in Pwm, OnTime(p),
         train' \in [Pwm -> TrainRec], pwm' \in [Pwm -> PwmRec],
         train'[p].since = train[p].since, train[p].top <= train'[p].top,
         Abs(pwm'[p].freq) <= train'[p].top,
         Spent(p)' = Spent(p)
  PROVE  OnTime(p)'
<1>1. /\ Credited(p) \in Nat /\ Credited(p)' \in Nat /\ Credited(p) <= Credited(p)'
  BY CreditedMoves, CreditedType
<1>2. /\ train[p].top \in Nat /\ train'[p].top \in Nat /\ train[p].since \in Nat
      /\ train'[p].since = train[p].since
  BY DEF TypeOK, TrainRec
<1>3. Spent(p) \in Int
  <2>1. /\ train[p].asked \in Nat /\ pwm[p].pulses \in Nat /\ pwm[p].frac \in Nat
        /\ Den \in Nat
    BY ScaleAssumption DEF TypeOK
  <2>2. (train[p].asked - pwm[p].pulses) * Den \in Int
    BY <2>1
  <2> QED
    BY <2>1, <2>2 DEF Spent
<1>4. /\ train[p].since <= Credited(p)
      /\ Spent(p) <= train[p].top * (Credited(p) - train[p].since)
  BY DEF OnTime
<1>5. Spent(p) <= train'[p].top * (Credited(p)' - train[p].since)
  BY <1>1, <1>2, <1>3, <1>4, LaterBound
<1> QED
  BY <1>1, <1>2, <1>4, <1>5 DEF OnTime

(* A train that is asked for starts its account where its output has been  *)
(* credited.                                                               *)
LEMMA OnTimeStarted ==
  ASSUME TypeOK, NEW p \in Pwm, NEW f \in Int, NEW n \in Nat, AppRuns, UNCHANGED engine,
         train'[p] = Started(p, f, n), pwm'[p].freq = f, pwm'[p].pulses = n,
         pwm'[p].frac = 0
  PROVE  OnTime(p)'
<1>1. Credited(p)' = Credited(p) /\ Credited(p) \in Nat
  BY CreditedType DEF engine, Credited
<1>2. Started(p, f, n).since = Credited(p)
  <2>1. cur \in 0 .. NPwm /\ p \in 0 .. NPwm - 1 /\ NPwm \in Nat
    BY ScaleAssumption DEF TypeOK, Pwm
  <2> QED
    BY <2>1 DEF Started, Credited, AppRuns
<1>3. train'[p].asked = n /\ train'[p].top = Abs(f) /\ train'[p].since = Credited(p)
  BY <1>2 DEF Started
<1>4. Abs(f) \in Nat
  BY AbsNat
<1>5. Spent(p)' = 0
  <2>1. n - n = 0 /\ 0 * Den = 0 /\ Den \in Nat
    BY ScaleAssumption
  <2> QED
    BY <1>3, <2>1 DEF Spent
<1>6. Credited(p) - Credited(p) = 0 /\ Abs(f) * 0 = 0
  BY <1>1, <1>4
<1> QED
  BY <1>1, <1>3, <1>4, <1>5, <1>6 DEF OnTime

LEMMA OnTimeUntouched ==
  ASSUME TypeOK, ClockInv, [Next]_vars, NEW p \in Pwm, OnTime(p), TypeOK',
         train'[p] = train[p],
         pwm'[p].freq = pwm[p].freq, pwm'[p].pulses = pwm[p].pulses,
         pwm[p].pulses > 0 => pwm'[p].frac = pwm[p].frac
  PROVE  OnTime(p)'
<1>1. train' \in [Pwm -> TrainRec] /\ pwm' \in [Pwm -> PwmRec]
  BY DEF TypeOK, TrainRec, PwmRec
<1>2. Spent(p)' = Spent(p)
  BY DEF Spent
<1>3. train[p].top \in Nat /\ Abs(pwm[p].freq) <= train[p].top
  BY DEF TypeOK, OnTime
<1> QED
  BY <1>1, <1>2, <1>3, OnTimeStep

(* The emission of a step is worth its frequency times its interval.       *)
LEMMA OnTimeCredit ==
  ASSUME TypeOK, ClockInv, PwmAccumulate \/ PwmEmit, NEW p \in Pwm, p = cur, OnTime(p)
  PROVE  OnTime(p)'
<1> DEFINE a == train[p].asked
           b == pwm[p].pulses
           e == Emitted
           f == Abs(pwm[p].freq)
           c == pwm[p].frac
<1>1. Stepping /\ P = pwm[p] /\ train' = train /\ pwm[p].pulses > 0
  BY DEF PwmAccumulate, PwmEmit, P
<1>2. /\ a \in Nat /\ b \in Nat /\ c \in Nat /\ f \in Nat /\ e \in Nat
      /\ dt \in Nat /\ Den \in Nat
  BY <1>1, CreditFacts, AbsNat, ScaleAssumption DEF TypeOK
<1>3. Credit = f * dt + c /\ e * Den \in Nat /\ e * Den <= Credit /\ Credit \in Nat
  BY <1>1, CreditFacts
<1>4. /\ pwm'[p].freq = pwm[p].freq
      /\ Spent(p)' <= (a - b) * Den + Credit /\ Spent(p)' \in Int
  <2>1. CASE PwmAccumulate
    <3>1. /\ pwm'[p].pulses = b /\ pwm'[p].frac = Credit
          /\ pwm'[p].freq = pwm[p].freq
      BY <1>1, <2>1, AccumulateLeaves
    <3>2. Spent(p)' = (a - b) * Den + Credit
      BY <1>1, <3>1 DEF Spent
    <3>3. (a - b) * Den \in Int
      BY <1>2
    <3> QED
      BY <1>3, <3>1, <3>2, <3>3
  <2>2. CASE PwmEmit
    <3> DEFINE left == b - e
               rest == Credit - e * Den
    <3>1. /\ pwm'[p].pulses = left /\ pwm'[p].frac = rest
          /\ pwm'[p].freq = pwm[p].freq
      BY <1>1, <2>2, EmitLeaves
    <3>2. Spent(p)' = (a - left) * Den + (IF left > 0 THEN rest ELSE 0)
      <4> HIDE DEF left, rest
      <4> QED
        BY <1>1, <3>1 DEF Spent
    <3>3. (a - left) * Den = (a - b) * Den + e * Den /\ (a - b) * Den \in Int
      BY <1>2
    <3>4. rest \in Nat /\ e * Den + rest = Credit
      BY <1>3
    <3>5. (IF left > 0 THEN rest ELSE 0) \in {rest, 0}
      OBVIOUS
    <3> HIDE DEF left, rest, a, b, e
    <3> QED
      BY <1>3, <3>1, <3>2, <3>3, <3>4, <3>5
  <2> QED
    BY <2>1, <2>2
<1>5. Spent(p) = (a - b) * Den + c /\ (a - b) * Den \in Int
  BY <1>1, <1>2 DEF Spent
<1>6. f * dt \in Nat /\ Spent(p) \in Int /\ Spent(p)' <= Spent(p) + f * dt
  <2>1. f * dt \in Nat
    BY <1>2, NatProduct
  <2> HIDE DEF a, b, c, f, e
  <2> QED
    BY <1>2, <1>3, <1>4, <1>5, <2>1
<1>7. /\ Credited(p) \in Nat /\ Credited(p)' \in Nat
      /\ dt <= Credited(p)' - Credited(p)
  BY CreditedNow, CreditedType DEF TypeOK
<1>8. /\ f <= train[p].top /\ train[p].since <= Credited(p)
      /\ Spent(p) <= train[p].top * (Credited(p) - train[p].since)
      /\ train[p].top \in Nat /\ train[p].since \in Nat
  BY DEF OnTime, TypeOK
<1> HIDE DEF f, a, b, c, e
<1>9. Spent(p)' <= train[p].top * (Credited(p)' - train[p].since)
  BY <1>2, <1>4, <1>6, <1>7, <1>8, CreditBound
<1>10. train[p].since <= Credited(p)'
  BY <1>2, <1>7, <1>8
<1> QED
  BY <1>1, <1>4, <1>8, <1>9, <1>10 DEF OnTime, f

LEMMA NextTrain == TypeOK /\ ClockInv /\ TrainInv /\ [Next]_vars => TrainInv'
<1> SUFFICES ASSUME TypeOK, ClockInv, TrainInv, [Next]_vars, NEW q \in Pwm
             PROVE  OnTime(q)'
  BY DEF TrainInv
<1>0. /\ OnTime(q) /\ TypeOK'
      /\ pwm \in [Pwm -> PwmRec] /\ train \in [Pwm -> TrainRec]
      /\ Freqs \subseteq Int /\ Counts \subseteq Nat
  BY NextTypes, InputAssumption DEF TrainInv, TypeOK, PwmRec, TrainRec
<1>1. ASSUME train'[q] = train[q], pwm'[q] = pwm[q]
      PROVE  OnTime(q)'
  BY <1>0, <1>1, OnTimeUntouched
<1>2. ASSUME NEW p \in Pwm, NEW n \in Counts, SetPulses(p, n)
      PROVE  OnTime(q)'
  <2>1. CASE q = p
    <3>1. /\ pwm'[q].freq = pwm[q].freq /\ pwm'[q].pulses = n /\ pwm'[q].frac = 0
          /\ pwm[q].freq \in Int
      BY <1>0, <1>2, <2>1 DEF SetPulses, PwmRec
    <3>2. train'[q] = Started(q, pwm[q].freq, n) /\ AppRuns /\ UNCHANGED engine
      BY <1>0, <1>2, <2>1 DEF SetPulses
    <3> QED
      BY <1>0, <3>1, <3>2, OnTimeStarted
  <2>2. CASE q # p
    BY <1>0, <1>1, <1>2, <2>2 DEF SetPulses
  <2> QED
    BY <2>1, <2>2
<1>3. ASSUME NEW p \in Pwm, NEW f \in Freqs, NEW n \in Counts, SetOutPwmSigPulses(p, f, n)
      PROVE  OnTime(q)'
  <2>1. CASE q = p
    <3>1. pwm'[q].freq = f /\ pwm'[q].pulses = n /\ pwm'[q].frac = 0
      BY <1>0, <1>3, <2>1 DEF SetOutPwmSigPulses, PwmRec
    <3>2. train'[q] = Started(q, f, n) /\ AppRuns /\ UNCHANGED engine
      BY <1>0, <1>3, <2>1 DEF SetOutPwmSigPulses
    <3> QED
      BY <1>0, <3>1, <3>2, OnTimeStarted
  <2>2. CASE q # p
    BY <1>0, <1>1, <1>3, <2>2 DEF SetOutPwmSigPulses
  <2> QED
    BY <2>1, <2>2
<1>4. ASSUME NEW p \in Pwm, NEW f \in Freqs, SetFrequency(p, f)
      PROVE  OnTime(q)'
  <2>1. CASE q = p
    <3> DEFINE t == Top(train[q].top, Abs(f))
    <3>1. train[q].top \in Nat /\ Abs(f) \in Nat
      BY <1>0, AbsNat DEF TrainRec
    <3>2. train[q].top <= t /\ Abs(f) <= t
      BY <3>1, TopNat
    <3>3. train' = [train EXCEPT ![q].top = t] /\ pwm' = [pwm EXCEPT ![q].freq = f]
      BY <1>4, <2>1 DEF SetFrequency
    <3> HIDE DEF t
    <3>4. /\ train'[q].top = t /\ train'[q].since = train[q].since
          /\ train'[q].asked = train[q].asked
          /\ pwm'[q].freq = f /\ pwm'[q].pulses = pwm[q].pulses
          /\ pwm'[q].frac = pwm[q].frac
      BY <1>0, <3>3 DEF TrainRec, PwmRec
    <3>5. Spent(q)' = Spent(q)
      BY <3>4 DEF Spent
    <3>6. train' \in [Pwm -> TrainRec] /\ pwm' \in [Pwm -> PwmRec]
      BY <1>0 DEF TypeOK, TrainRec, PwmRec
    <3> QED
      BY <1>0, <3>2, <3>4, <3>5, <3>6, OnTimeStep
  <2>2. CASE q # p
    BY <1>0, <1>1, <1>4, <2>2 DEF SetFrequency
  <2> QED
    BY <2>1, <2>2
<1>5. ASSUME NEW p \in Pwm, NEW on \in BOOLEAN, SetPulseCallback(p, on)
      PROVE  OnTime(q)'
  <2>1. /\ pwm'[q].freq = pwm[q].freq /\ pwm'[q].pulses = pwm[q].pulses
        /\ pwm'[q].frac = pwm[q].frac /\ train' = train
    BY <1>0, <1>5 DEF SetPulseCallback, engine, PwmRec
  <2> QED
    BY <1>0, <2>1, OnTimeUntouched
<1>6. CASE PwmIdle
  <2>1. /\ pwm'[q].freq = pwm[q].freq /\ pwm'[q].pulses = pwm[q].pulses
        /\ pwm[q].pulses > 0 => pwm'[q].frac = pwm[q].frac
        /\ train' = train
    BY <1>0, <1>6 DEF PwmIdle, P, PwmRec
  <2> QED
    BY <1>0, <2>1, OnTimeUntouched
<1>7. CASE PwmAccumulate \/ PwmEmit
  <2>1. CASE q = cur
    BY <1>0, <1>7, <2>1, OnTimeCredit
  <2>2. CASE q # cur
    <3>1. pwm'[q] = pwm[q] /\ train' = train
      BY <1>7, <2>2, AccumulateLeaves, EmitLeaves DEF PwmAccumulate, PwmEmit
    <3> QED
      BY <1>1, <3>1
  <2> QED
    BY <2>1, <2>2
<1>8. CASE UNCHANGED <<pwm, train>>
  BY <1>1, <1>8
<1> QED
  BY <1>2, <1>3, <1>4, <1>5, <1>6, <1>7, <1>8
  DEF Next, vars, SetMapping, SetOutDig, SetPosition, SetSpeed, Advance, StepStart,
      PwmStopped, CallbackReturn

----------------------------------------------------------------------------
(* Trains that are not late.                                               *)

(* Where the tick did not wrap the difference of its readings is exact.    *)
LEMMA ExactDifference ==
  ASSUME NEW a \in Nat, NEW b \in Nat, b <= a, a - b < TickMod
  PROVE  ((a % TickMod) - (b % TickMod)) % TickMod = a - b
<1> DEFINE n == TickMod
           p == a \div n
           r == a % n
           q == b \div n
           s == b % n
           d == a - b
           x == r - s
           k == q - p
<1>1. n \in Nat \ {0}
  BY ScaleAssumption
<1>2. /\ p \in Int /\ r \in 0 .. n - 1 /\ a = n * p + r
      /\ q \in Int /\ s \in 0 .. n - 1 /\ b = n * q + s
  BY <1>1, DivMod
<1>3. d \in 0 .. n - 1 /\ d = a - b
  BY <1>1
<1> HIDE DEF n, p, r, q, s, d
<1>4. x \in Int /\ k \in Int
  BY <1>1, <1>2
<1>5. x = n * k + d
  <2>1. n * k = n * q - n * p /\ n * q \in Int /\ n * p \in Int
    BY <1>1, <1>2
  <2> DEFINE u == n * q
             v == n * p
  <2> HIDE DEF u, v, k
  <2>2. u \in Int /\ v \in Int /\ n * k = u - v /\ a = v + r /\ b = u + s
    BY <1>2, <2>1 DEF u, v
  <2> QED
    BY <1>1, <1>2, <1>3, <2>2
<1> HIDE DEF x, k
<1>6. x % n = d
  BY ONLY <1>1, <1>3, <1>4, <1>5, ModUnique
<1> QED
  BY <1>6 DEF x, r, s, d, n

(* An output that the step in progress has still to reach.                 *)
Due(p) == ~ (p < cur \/ cur = NPwm \/ (p = cur /\ inCallback))

(* A step accounts for all the time that went by when the tick tells it.   *)
TickInv ==
  cur < NPwm /\ Counted(seen.before, seen.now) => dt = seen.now - seen.before

(* A train has been credited with all the time its outputs were, at its    *)
(* lowest frequency at least.                                              *)
KeepsPace(p) ==
  /\ pace[p].low <= Abs(pwm[p].freq)
  /\ pace[p].whole /\ Due(p) => Counted(seen.before, seen.now)
  /\ pace[p].whole /\ pwm[p].pulses > 0 =>
       pace[p].low * (Credited(p) - train[p].since) <= Spent(p)

PaceInv == \A p \in Pwm : KeepsPace(p)

LEMMA CountedElapsed ==
  ASSUME TypeOK, ClockInv, Counted(seen.now, host)
  PROVE  Elapsed = host - seen.now
<1>0. /\ host \in Nat /\ seen.now \in Nat /\ seen.now <= host
      /\ last = seen.now % TickMod /\ TickMod \in Nat \ {0}
  BY ScaleAssumption DEF TypeOK, ClockInv
<1>1. host - seen.now < TickMod /\ (last = 0 => host = seen.now)
  BY <1>0 DEF Counted
<1>2. ((host % TickMod) - (seen.now % TickMod)) % TickMod = host - seen.now
  BY <1>0, <1>1, ExactDifference
<1>3. CASE last = 0
  BY <1>0, <1>1, <1>3 DEF Elapsed
<1>4. CASE last # 0
  BY <1>0, <1>2, <1>4 DEF Elapsed
<1> QED
  BY <1>3, <1>4

LEMMA NextTick == TypeOK /\ ClockInv /\ TickInv /\ [Next]_vars => TickInv'
<1> SUFFICES ASSUME TypeOK, ClockInv, TickInv, [Next]_vars PROVE TickInv'
  OBVIOUS
<1>1. CASE StepStart
  <2>1. dt' = Elapsed /\ seen'.now = host /\ seen'.before = seen.now
    BY <1>1 DEF StepStart
  <2> QED
    BY <2>1, CountedElapsed DEF TickInv, Counted
<1>2. ASSUME UNCHANGED <<dt, seen>>, cur < NPwm \/ cur' = cur
      PROVE  TickInv'
  BY <1>2 DEF TickInv, Counted
<1>3. CASE UNCHANGED engine
  BY <1>2, <1>3 DEF engine
<1>4. CASE PwmIdle \/ PwmStopped \/ PwmAccumulate \/ PwmEmit
  <2>1. UNCHANGED <<dt, seen>> /\ cur < NPwm
    BY <1>4 DEF PwmIdle, PwmStopped, PwmAccumulate, PwmEmit, NextPwm, Stepping
  <2> QED
    BY <1>2, <2>1
<1>5. CASE CallbackReturn
  <2>1. UNCHANGED <<dt, seen>> /\ cur < NPwm
    BY <1>5 DEF CallbackReturn, TypeOK
  <2> QED
    BY <1>2, <2>1
<1>6. CASE Advance
  BY <1>2, <1>6 DEF Advance
<1> QED
  BY <1>1, <1>3, <1>4, <1>5, <1>6
  DEF Next, vars, engine, SetPulses, SetFrequency, SetOutPwmSigPulses, SetPulseCallback,
      SetMapping, SetOutDig, SetPosition, SetSpeed

LEMMA SpentType ==
  ASSUME TypeOK, NEW p \in Pwm
  PROVE  Spent(p) \in Int
<1>1. /\ train[p].asked \in Nat /\ pwm[p].pulses \in Nat /\ pwm[p].frac \in Nat
      /\ Den \in Nat
  BY ScaleAssumption DEF TypeOK
<1>2. (train[p].asked - pwm[p].pulses) * Den \in Int
  BY <1>1
<1> QED
  BY <1>1, <1>2 DEF Spent

(* A step that moves neither the credit of a train nor what it is worth.   *)
LEMMA PaceStep ==
  ASSUME TypeOK, NEW p \in Pwm, OnTime(p), KeepsPace(p),
         pace' \in [Pwm -> PaceRec],
         train'[p].since = train[p].since,
         pace'[p].low <= pace[p].low, pace'[p].low <= Abs(pwm'[p].freq),
         pace'[p].whole => pace[p].whole,
         pwm'[p].pulses > 0 => pwm[p].pulses > 0 /\ Spent(p)' = Spent(p),
         pace'[p].whole => Credited(p)' = Credited(p),
         pace'[p].whole /\ Due(p)' => Counted(seen.before, seen.now)'
  PROVE  KeepsPace(p)'
<1> DEFINE d == Credited(p) - train[p].since
           l == pace[p].low
           m == pace'[p].low
<1>1. d \in Nat /\ l \in Nat /\ m \in Nat /\ m <= l
  BY CreditedType DEF OnTime, TypeOK, PaceRec
<1>2. m * d <= l * d /\ m * d \in Nat /\ l * d \in Nat
  BY <1>1, ProductMonotonic, NatProduct
<1>3. ASSUME pace'[p].whole, pwm'[p].pulses > 0
      PROVE  m * (Credited(p)' - train'[p].since) <= Spent(p)'
  <2>1. l * d <= Spent(p)
    BY <1>3 DEF KeepsPace
  <2>2. Spent(p) \in Int /\ Spent(p)' = Spent(p) /\ Credited(p)' - train'[p].since = d
    BY <1>3, SpentType
  <2> HIDE DEF d, l, m
  <2> QED
    BY <1>2, <2>1, <2>2
<1> QED
  BY <1>3 DEF KeepsPace

(* A train that is asked for owes nothing yet.                             *)
LEMMA PaceStarted ==
  ASSUME TypeOK, NEW p \in Pwm, NEW f \in Int, NEW n \in Nat, AppRuns, UNCHANGED engine,
         train'[p] = Started(p, f, n), pace'[p] = FirstPace(p, f),
         pwm'[p].freq = f, pwm'[p].pulses = n, pwm'[p].frac = 0
  PROVE  KeepsPace(p)'
<1>1. Credited(p)' = Credited(p) /\ Credited(p) \in Nat /\ Due(p)' = Due(p)
  BY CreditedType DEF engine, Credited, Due
<1>2. cur \in 0 .. NPwm /\ p \in 0 .. NPwm - 1 /\ NPwm \in Nat
  BY ScaleAssumption DEF TypeOK, Pwm
<1>3. Started(p, f, n).since = Credited(p) /\ (Due(p) => p > cur)
  BY <1>2 DEF Started, Credited, Due, AppRuns
<1>4. /\ train'[p].asked = n /\ train'[p].since = Credited(p)
      /\ pace'[p].low = Abs(f) /\ Abs(f) \in Nat
  BY <1>3, AbsNat DEF Started, FirstPace
<1>5. Spent(p)' = 0
  <2>1. n - n = 0 /\ 0 * Den = 0 /\ Den \in Nat
    BY ScaleAssumption
  <2> QED
    BY <1>4, <2>1 DEF Spent
<1>6. Credited(p) - Credited(p) = 0 /\ Abs(f) * 0 = 0
  BY <1>1, <1>4
<1>7. pace'[p].whole /\ Due(p)' => Counted(seen.before, seen.now)'
  <2>1. pace'[p].whole /\ p > cur => Counted(seen.before, seen.now)
    <3> DEFINE w == p > cur => Counted(seen.before, seen.now)
               low == Abs(f)
    <3>1. pace'[p] = [low |-> low, whole |-> w]
      BY DEF FirstPace
    <3> HIDE DEF w, low
    <3>2. pace'[p].whole = w
      BY ONLY <3>1
    <3> QED
      BY <3>2, Zenon DEF w
  <2>2. seen' = seen
    BY DEF engine
  <2> QED
    BY <1>1, <1>3, <2>1, <2>2 DEF Counted
<1> QED
  BY <1>1, <1>4, <1>5, <1>6, <1>7 DEF KeepsPace

(* An output the step passes is no longer due, the others are as before.   *)
LEMMA StepPasses ==
  ASSUME TypeOK, PwmIdle \/ PwmStopped \/ PwmAccumulate \/ PwmEmit \/ CallbackReturn,
         NEW p \in Pwm
  PROVE  /\ UNCHANGED <<seen, pace, train>>
         /\ Due(p)' => Due(p)
         /\ p # cur \/ CallbackReturn => Credited(p)' = Credited(p)
         /\ p = cur => ~ Due(p)'
<1>0. /\ cur \in 0 .. NPwm /\ p \in 0 .. NPwm - 1 /\ NPwm \in Nat
      /\ (inCallback => cur < NPwm)
  BY ScaleAssumption DEF TypeOK, Pwm
<1>1. CASE CallbackReturn
  <2>1. UNCHANGED <<seen, pace, train>> /\ inCallback /\ ~ inCallback' /\ cur' = cur + 1
    BY <1>1 DEF CallbackReturn
  <2> QED
    BY <1>0, <2>1 DEF Due, Credited
<1>2. CASE PwmIdle \/ PwmStopped \/ PwmAccumulate \/ PwmEmit
  <2>1. /\ UNCHANGED <<seen, pace, train>> /\ cur < NPwm /\ ~ inCallback
        /\ \/ cur' = cur + 1 /\ ~ inCallback'
           \/ cur' = cur /\ inCallback'
    BY <1>2 DEF PwmIdle, PwmStopped, PwmAccumulate, PwmEmit, NextPwm, Stepping
  <2>2. ~ CallbackReturn
    BY <2>1 DEF CallbackReturn
  <2> QED
    BY <1>0, <2>1, <2>2 DEF Due, Credited
<1> QED
  BY <1>1, <1>2

(* The interval of a step is worth its length times the frequency, and all *)
(* of it goes into pulses or into the fraction that stays.                 *)
LEMMA PaceCredit ==
  ASSUME TypeOK, ClockInv, TickInv, PwmAccumulate \/ PwmEmit, NEW p \in Pwm, p = cur,
         OnTime(p), KeepsPace(p)
  PROVE  KeepsPace(p)'
<1> DEFINE a == train[p].asked
           b == pwm[p].pulses
           e == Emitted
           f == Abs(pwm[p].freq)
           c == pwm[p].frac
           s == train[p].since
           l == pace[p].low
<1>1. /\ Stepping /\ P = pwm[p] /\ train' = train /\ pace' = pace /\ seen' = seen
      /\ b > 0
  BY StepPasses DEF PwmAccumulate, PwmEmit, P
<1>2. /\ a \in Nat /\ b \in Nat /\ c \in Nat /\ f \in Nat /\ e \in Nat
      /\ dt \in Nat /\ Den \in Nat /\ s \in Nat /\ l \in Nat
      /\ seen.before \in Nat /\ seen.now \in Nat
  BY <1>1, CreditFacts, AbsNat, ScaleAssumption DEF TypeOK
<1>3. Credit = f * dt + c /\ e * Den \in Nat /\ Credit \in Nat
  BY <1>1, CreditFacts
<1>4. /\ pwm'[p].freq = pwm[p].freq
      /\ pwm'[p].pulses > 0 => Spent(p)' = (a - b) * Den + Credit
  <2>1. CASE PwmAccumulate
    <3>1. /\ pwm'[p].pulses = b /\ pwm'[p].frac = Credit
          /\ pwm'[p].freq = pwm[p].freq
      BY <1>1, <2>1, AccumulateLeaves
    <3>2. Spent(p)' = (a - b) * Den + Credit
      BY <1>1, <3>1 DEF Spent
    <3> QED
      BY <3>1, <3>2
  <2>2. CASE PwmEmit
    <3> DEFINE left == b - e
               rest == Credit - e * Den
    <3>1. /\ pwm'[p].pulses = left /\ pwm'[p].frac = rest
          /\ pwm'[p].freq = pwm[p].freq
      BY <1>1, <2>2, EmitLeaves
    <3>2. left > 0 => Spent(p)' = (a - left) * Den + rest
      <4> HIDE DEF left, rest
      <4> QED
        BY <1>1, <3>1 DEF Spent
    <3>3. (a - left) * Den = (a - b) * Den + e * Den /\ (a - b) * Den \in Int
      BY <1>2
    <3>4. rest \in Int /\ e * Den + rest = Credit
      BY <1>3
    <3> HIDE DEF left, rest, a, b, e
    <3> QED
      BY <1>3, <3>1, <3>2, <3>3, <3>4
  <2> QED
    BY <2>1, <2>2
<1>5. Spent(p) = (a - b) * Den + c /\ (a - b) * Den \in Int
  BY <1>1, <1>2 DEF Spent
<1>6. f * dt \in Nat /\ Spent(p) \in Int /\ (a - b) * Den + Credit = Spent(p) + f * dt
  <2>1. f * dt \in Nat
    BY <1>2, NatProduct
  <2> HIDE DEF a, b, c, f, e
  <2> QED
    BY <1>2, <1>3, <1>5, <2>1
<1>7. /\ Credited(p) = seen.before /\ Credited(p)' = seen.now /\ s <= seen.before
      /\ Due(p) /\ cur < NPwm /\ seen.before <= seen.now /\ l <= f
  <2>1. Credited(p) = seen.before /\ Credited(p)' = seen.now
    BY CreditedNow
  <2>2. Due(p)
    BY <1>1, <1>2, ScaleAssumption DEF Due, Stepping, TypeOK
  <2> QED
    BY <1>1, <2>1, <2>2 DEF OnTime, KeepsPace, Stepping, ClockInv
<1>8. ~ Due(p)'
  BY StepPasses
<1>9. ASSUME pace[p].whole, pwm'[p].pulses > 0
      PROVE  l * (Credited(p)' - s) <= Spent(p)'
  <2>1. l * (seen.before - s) <= Spent(p) /\ Counted(seen.before, seen.now)
    BY <1>1, <1>7, <1>9 DEF KeepsPace
  <2>2. dt = seen.now - seen.before
    BY <1>7, <2>1 DEF TickInv
  <2>3. seen.before - s \in Nat
    BY <1>2, <1>7
  <2>4. /\ l * (seen.now - s) = l * (seen.before - s) + l * dt
        /\ l * (seen.before - s) \in Nat
    <3> HIDE DEF l, s
    <3> QED
      BY <1>2, <2>2, <2>3, NatProduct
  <2>5. l * dt <= f * dt /\ l * dt \in Nat /\ f * dt \in Nat
    BY <1>2, <1>7, ProductMonotonic, NatProduct
  <2>6. Spent(p)' = Spent(p) + f * dt
    BY <1>4, <1>6, <1>9
  <2> DEFINE u == l * (seen.before - s)
             v == l * dt
             w == f * dt
             z == l * (seen.now - s)
  <2>7. z = u + v /\ u <= Spent(p) /\ v <= w /\ u \in Nat /\ v \in Nat /\ w \in Nat
    BY <2>1, <2>4, <2>5
  <2> HIDE DEF u, v, w, z
  <2>8. z <= Spent(p) + w
    BY <1>6, <2>7
  <2> QED
    BY <1>7, <2>6, <2>8 DEF z, w
<1> QED
  BY <1>1, <1>4, <1>7, <1>8, <1>9 DEF KeepsPace

LEMMA NextPace ==
  TypeOK /\ ClockInv /\ TickInv /\ TrainInv /\ PaceInv /\ [Next]_vars => PaceInv'
<1> SUFFICES ASSUME TypeOK, ClockInv, TickInv, TrainInv, PaceInv, [Next]_vars, NEW q \in Pwm
             PROVE  KeepsPace(q)'
  BY DEF PaceInv
<1>0. /\ KeepsPace(q) /\ OnTime(q) /\ pace' \in [Pwm -> PaceRec]
      /\ pwm \in [Pwm -> PwmRec] /\ train \in [Pwm -> TrainRec] /\ pace \in [Pwm -> PaceRec]
      /\ Freqs \subseteq Int /\ Counts \subseteq Nat
      /\ pace[q].low \in Nat /\ pace[q].low <= Abs(pwm[q].freq)
  BY NextTypes, InputAssumption
  DEF TrainInv, PaceInv, KeepsPace, TypeOK, PwmRec, TrainRec, PaceRec
<1>1. ASSUME train'[q] = train[q], pace'[q] = pace[q],
             pwm'[q].freq = pwm[q].freq, pwm'[q].pulses = pwm[q].pulses,
             pwm[q].pulses > 0 => pwm'[q].frac = pwm[q].frac,
             UNCHANGED seen, Due(q)' => Due(q), Credited(q)' = Credited(q)
      PROVE  KeepsPace(q)'
  <2>1. Spent(q)' = Spent(q)
    BY <1>1 DEF Spent
  <2>2. pace'[q].whole /\ Due(q)' => Counted(seen.before, seen.now)'
    BY <1>0, <1>1 DEF KeepsPace, Counted
  <2> QED
    BY <1>0, <1>1, <2>1, <2>2, PaceStep
<1>2. ASSUME UNCHANGED engine
      PROVE  UNCHANGED seen /\ Due(q)' = Due(q) /\ Credited(q)' = Credited(q)
  BY <1>2 DEF engine, Due, Credited
<1>3. ASSUME NEW p \in Pwm, NEW n \in Counts, SetPulses(p, n)
      PROVE  KeepsPace(q)'
  <2>1. CASE q = p
    <3>1. /\ pwm'[q].freq = pwm[q].freq /\ pwm'[q].pulses = n /\ pwm'[q].frac = 0
          /\ pwm[q].freq \in Int
      BY <1>0, <1>3, <2>1 DEF SetPulses, PwmRec
    <3>2. /\ train'[q] = Started(q, pwm[q].freq, n) /\ pace'[q] = FirstPace(q, pwm[q].freq)
          /\ AppRuns /\ UNCHANGED engine
      BY <1>0, <1>3, <2>1 DEF SetPulses
    <3> QED
      BY <1>0, <3>1, <3>2, PaceStarted
  <2>2. CASE q # p
    <3>1. /\ pwm'[q] = pwm[q] /\ train'[q] = train[q] /\ pace'[q] = pace[q]
          /\ UNCHANGED engine
      BY <1>0, <1>3, <2>2 DEF SetPulses
    <3> QED
      BY <1>1, <1>2, <3>1
  <2> QED
    BY <2>1, <2>2
<1>4. ASSUME NEW p \in Pwm, NEW f \in Freqs, NEW n \in Counts, SetOutPwmSigPulses(p, f, n)
      PROVE  KeepsPace(q)'
  <2>1. CASE q = p
    <3>1. pwm'[q].freq = f /\ pwm'[q].pulses = n /\ pwm'[q].frac = 0
      BY <1>0, <1>4, <2>1 DEF SetOutPwmSigPulses, PwmRec
    <3>2. /\ train'[q] = Started(q, f, n) /\ pace'[q] = FirstPace(q, f)
          /\ AppRuns /\ UNCHANGED engine
      BY <1>0, <1>4, <2>1 DEF SetOutPwmSigPulses
    <3> QED
      BY <1>0, <3>1, <3>2, PaceStarted
  <2>2. CASE q # p
    <3>1. /\ pwm'[q] = pwm[q] /\ train'[q] = train[q] /\ pace'[q] = pace[q]
          /\ UNCHANGED engine
      BY <1>0, <1>4, <2>2 DEF SetOutPwmSigPulses
    <3> QED
      BY <1>1, <1>2, <3>1
  <2> QED
    BY <2>1, <2>2
<1>5. ASSUME NEW p \in Pwm, NEW f \in Freqs, SetFrequency(p, f)
      PROVE  KeepsPace(q)'
  <2>1. CASE q = p
    <3> DEFINE b == Bottom(pace[q].low, Abs(f))
               t == Top(train[q].top, Abs(f))
    <3>1. b <= pace[q].low /\ b <= Abs(f)
      BY <1>0, AbsNat, BottomNat
    <3>2. /\ train' = [train EXCEPT ![q].top = t] /\ pace' = [pace EXCEPT ![q].low = b]
          /\ pwm' = [pwm EXCEPT ![q].freq = f] /\ UNCHANGED engine
      BY <1>5, <2>1 DEF SetFrequency
    <3> HIDE DEF b, t
    <3>3. /\ train'[q].since = train[q].since /\ train'[q].asked = train[q].asked
          /\ pwm'[q].freq = f /\ pwm'[q].pulses = pwm[q].pulses
          /\ pwm'[q].frac = pwm[q].frac /\ pace'[q].low = b
      BY <1>0, <3>2 DEF TrainRec, PwmRec, PaceRec
    <3>4. pace'[q].whole = pace[q].whole
      BY <1>0, <3>2 DEF PaceRec
    <3>5. Spent(q)' = Spent(q)
      BY <3>3 DEF Spent
    <3>6. pace'[q].whole /\ Due(q)' => Counted(seen.before, seen.now)'
      BY <1>0, <1>2, <3>2, <3>4 DEF KeepsPace, Counted
    <3> QED
      BY <1>0, <1>2, <3>1, <3>2, <3>3, <3>4, <3>5, <3>6, PaceStep
  <2>2. CASE q # p
    <3>1. /\ pwm'[q] = pwm[q] /\ train'[q] = train[q] /\ pace'[q] = pace[q]
          /\ UNCHANGED engine
      BY <1>0, <1>5, <2>2 DEF SetFrequency
    <3> QED
      BY <1>1, <1>2, <3>1
  <2> QED
    BY <2>1, <2>2
<1>6. ASSUME NEW p \in Pwm, NEW on \in BOOLEAN, SetPulseCallback(p, on)
      PROVE  KeepsPace(q)'
  <2>1. /\ pwm'[q].freq = pwm[q].freq /\ pwm'[q].pulses = pwm[q].pulses
        /\ pwm'[q].frac = pwm[q].frac /\ train' = train /\ pace' = pace
        /\ UNCHANGED engine
    BY <1>0, <1>6 DEF SetPulseCallback, PwmRec
  <2> QED
    BY <1>1, <1>2, <2>1
<1>7. CASE StepStart
  <2>1. /\ UNCHANGED <<pwm, train>> /\ cur = NPwm /\ dt' = Elapsed
        /\ seen'.now = host /\ seen'.before = seen.now
        /\ cur' = IF Elapsed = 0 THEN NPwm ELSE 0
    BY <1>7 DEF StepStart
  <2>2. pace' = [p \in Pwm |-> [pace[p] EXCEPT !.whole = @ /\ Counted(seen.now, host)]]
    BY <1>7 DEF StepStart
  <2>3. pace'[q].low = pace[q].low
    BY <1>0, <2>2, Zenon DEF PaceRec
  <2>4. pace'[q].whole => pace[q].whole /\ Counted(seen.now, host)
    BY <1>0, <2>2, Zenon DEF PaceRec
  <2>5. pace'[q].whole => Credited(q)' = Credited(q)
    <3>1. SUFFICES ASSUME pace'[q].whole PROVE Credited(q)' = Credited(q)
      OBVIOUS
    <3>2. Elapsed = host - seen.now /\ host \in Nat /\ seen.now \in Nat
      BY <2>4, <3>1, CountedElapsed DEF TypeOK
    <3>3. Credited(q) = seen.now /\ ~ inCallback' /\ q \in 0 .. NPwm - 1
      BY <1>7, <2>1 DEF Credited, StepStart, TypeOK, Pwm
    <3>4. CASE Elapsed = 0
      BY <2>1, <3>2, <3>3, <3>4 DEF Credited
    <3>5. CASE Elapsed # 0
      BY <2>1, <3>3, <3>5, ScaleAssumption DEF Credited
    <3> QED
      BY <3>4, <3>5
  <2>6. Spent(q)' = Spent(q)
    BY <2>1 DEF Spent
  <2>7. pace'[q].whole => Counted(seen.before, seen.now)'
    BY <2>1, <2>4 DEF Counted
  <2> QED
    BY <1>0, <2>1, <2>3, <2>4, <2>5, <2>6, <2>7, PaceStep
<1>8. CASE PwmIdle
  <2>1. /\ pwm'[q].freq = pwm[q].freq /\ pwm'[q].pulses = pwm[q].pulses
        /\ pwm[q].pulses > 0 => pwm'[q].frac = pwm[q].frac
        /\ q = cur => pwm[q].pulses = 0
    BY <1>0, <1>8 DEF PwmIdle, P, PwmRec
  <2>2. CASE q = cur
    <3>1. pwm'[q].pulses = 0 /\ pace' = pace /\ ~ Due(q)'
      BY <1>8, <2>1, <2>2, StepPasses
    <3> QED
      BY <1>0, <2>1, <3>1 DEF KeepsPace
  <2>3. CASE q # cur
    BY <1>1, <1>8, <2>1, <2>3, StepPasses
  <2> QED
    BY <2>2, <2>3
<1>9. CASE PwmStopped
  <2>1. pwm' = pwm /\ (q = cur => Abs(pwm[q].freq) = 0)
    BY <1>9 DEF PwmStopped, P, Abs
  <2>2. CASE q = cur
    <3>1. UNCHANGED <<seen, pace, train>> /\ ~ Due(q)' /\ pace[q].low = 0
      BY <1>0, <1>9, <2>1, <2>2, StepPasses
    <3>2. Credited(q) \in Nat /\ Credited(q)' \in Nat /\ train[q].since \in Nat
      BY <1>9, <2>2, CreditedNow, CreditedType DEF TypeOK
    <3>3. /\ 0 * (Credited(q) - train[q].since) = 0
          /\ 0 * (Credited(q)' - train[q].since) = 0
      BY <3>2
    <3>4. Spent(q)' = Spent(q)
      BY <2>1, <3>1 DEF Spent
    <3> QED
      BY <1>0, <2>1, <3>1, <3>3, <3>4 DEF KeepsPace
  <2>3. CASE q # cur
    BY <1>1, <1>9, <2>1, <2>3, StepPasses
  <2> QED
    BY <2>2, <2>3
<1>10. CASE PwmAccumulate \/ PwmEmit
  <2>1. CASE q = cur
    BY <1>0, <1>10, <2>1, PaceCredit
  <2>2. CASE q # cur
    <3>1. pwm'[q] = pwm[q]
      BY <1>10, <2>2, AccumulateLeaves, EmitLeaves
    <3> QED
      BY <1>1, <1>10, <2>2, <3>1, StepPasses
  <2> QED
    BY <2>1, <2>2
<1>11. CASE CallbackReturn
  <2>1. pwm' = pwm
    BY <1>11 DEF CallbackReturn
  <2> QED
    BY <1>1, <1>11, <2>1, StepPasses
<1>12. CASE UNCHANGED <<pwm, train, pace, cur, inCallback, seen>>
  BY <1>1, <1>12 DEF Due, Credited
<1> QED
  BY <1>3, <1>4, <1>5, <1>6, <1>7, <1>8, <1>9, <1>10, <1>11, <1>12
  DEF Next, vars, engine, SetMapping, SetOutDig, SetPosition, SetSpeed, Advance

----------------------------------------------------------------------------
(* The inductive invariant.                                                *)

IInv ==
  /\ TypeOK /\ NoStaleCredit /\ AngleOfPosition
  /\ ClockInv /\ TrainInv
  /\ TickInv /\ PaceInv

LEMMA InitIInv == Init => IInv
<1> SUFFICES ASSUME Init PROVE IInv
  OBVIOUS
<1>1. TypeOK
  BY InitTypes
<1>2. NoStaleCredit
  BY DEF Init, NoStaleCredit
<1>3. AngleOfPosition
  <2>1. 0 - 0 = 0 /\ 0 % Rev = 0
    BY ScaleAssumption
  <2> QED
    BY <2>1 DEF Init, AngleOfPosition
<1>4. ClockInv
  <2>1. 0 % TickMod = 0
    BY ScaleAssumption
  <2> QED
    BY <2>1 DEF Init, ClockInv
<1>5. ASSUME NEW p \in Pwm
      PROVE  OnTime(p)
  <2>1. /\ pwm[p].freq = 0 /\ pwm[p].pulses = 0
        /\ train[p].asked = 0 /\ train[p].since = 0 /\ train[p].top = 0
        /\ Credited(p) = 0
    BY DEF Init, Credited
  <2>2. Spent(p) = (0 - 0) * Den + 0
    BY <2>1 DEF Spent
  <2>3. (0 - 0) * Den + 0 = 0 /\ 0 * (0 - 0) = 0 /\ Abs(0) = 0
    BY ScaleAssumption DEF Abs
  <2> QED
    BY <2>1, <2>2, <2>3 DEF OnTime
<1>6. TickInv
  BY DEF Init, TickInv
<1>7. ASSUME NEW p \in Pwm
      PROVE  KeepsPace(p)
  <2>1. /\ pwm[p].freq = 0 /\ pwm[p].pulses = 0 /\ pace[p].low = 0 /\ ~ Due(p)
    BY DEF Init, Due
  <2> QED
    BY <2>1 DEF KeepsPace, Abs
<1> QED
  BY <1>1, <1>2, <1>3, <1>4, <1>5, <1>6, <1>7 DEF IInv, TrainInv, PaceInv

LEMMA NextIInv == IInv /\ [Next]_vars => IInv'
BY NextTypes, NextNoStaleCredit, NextAngle, NextClock, NextTrain, NextTick, NextPace
DEF IInv

LEMMA IInvNeverLate == IInv => NeverLate
<1> SUFFICES ASSUME IInv, cur = NPwm, NEW p \in Pwm, pwm[p].pulses > 0, pace[p].whole
             PROVE  pace[p].low * (seen.now - train[p].since)
                      < ((train[p].asked - pwm[p].pulses) + 1) * Den
  BY DEF NeverLate
<1> DEFINE x == (train[p].asked - pwm[p].pulses) * Den
           y == pace[p].low * (seen.now - train[p].since)
           c == pwm[p].frac
<1>1. /\ train[p].asked \in Nat /\ pwm[p].pulses \in Nat /\ c \in Nat
      /\ pace[p].low \in Nat /\ seen.now \in Nat /\ train[p].since \in Nat
      /\ Den \in Nat
  BY ScaleAssumption DEF IInv, TypeOK
<1>2. x \in Int /\ y \in Int
  BY <1>1
<1>3. ((train[p].asked - pwm[p].pulses) + 1) * Den = x + Den
  BY <1>1
<1>4. Spent(p) = x + c
  BY DEF Spent
<1>5. Credited(p) = seen.now
  BY DEF Credited
<1>6. y <= Spent(p) /\ c < Den
  BY <1>5 DEF IInv, PaceInv, KeepsPace, NoStaleCredit
<1> HIDE DEF x, y, c
<1>7. y < x + Den
  BY <1>1, <1>2, <1>4, <1>6
<1> QED
  BY <1>3, <1>7 DEF y

LEMMA IInvNeverEarly == IInv => NeverEarly
<1> SUFFICES ASSUME IInv, NEW p \in Pwm
             PROVE  (train[p].asked - pwm[p].pulses) * Den
                      <= train[p].top * (host - train[p].since)
  BY DEF NeverEarly
<1>1. /\ train[p].asked \in Nat /\ train[p].since \in Nat /\ train[p].top \in Nat
      /\ pwm[p].pulses \in Nat /\ pwm[p].frac \in Nat
      /\ host \in Nat /\ seen.now \in Nat /\ seen.before \in Nat
  BY DEF IInv, TypeOK
<1>2. /\ train[p].since <= Credited(p)
      /\ Spent(p) <= train[p].top * (Credited(p) - train[p].since)
  BY DEF IInv, TrainInv, OnTime
<1>3. Credited(p) \in Nat /\ Credited(p) <= host
  BY <1>1, CreditedType DEF IInv, ClockInv, Credited
<1> DEFINE x == (train[p].asked - pwm[p].pulses) * Den
<1>4. x \in Int
  BY <1>1, ScaleAssumption
<1> HIDE DEF x
<1>5. x <= Spent(p) /\ Spent(p) \in Int
  <2>1. Spent(p) = x + (IF pwm[p].pulses > 0 THEN pwm[p].frac ELSE 0)
    BY DEF Spent, x
  <2> QED
    BY <1>1, <1>4, <2>1
<1>6. Spent(p) <= train[p].top * (host - train[p].since)
  BY <1>1, <1>2, <1>3, <1>5, LaterBound
<1>7. train[p].top * (host - train[p].since) \in Int
  BY <1>1
<1> QED
  BY <1>4, <1>5, <1>6, <1>7 DEF x

----------------------------------------------------------------------------
(* Where an encoder is going.                                              *)

LEMMA SameCourse ==
  ASSUME TypeOK, NEW e \in Encoder, out' = out,
         enc'[e].rel = enc[e].rel, enc'[e].link = enc[e].link,
         enc'[e].ppr = enc[e].ppr, enc'[e].dig = enc[e].dig,
         pwm'[enc[e].link].freq = pwm[enc[e].link].freq,
         pwm'[enc[e].link].pulses = pwm[enc[e].link].pulses
  PROVE  Destination(e)' = Destination(e)
<1>1. Unit(e)' = Unit(e)
  BY DEF Unit
<1>2. Forward(e)' = Forward(e)
  BY DEF Forward
<1>3. Destination(e) = enc[e].rel
        + (IF Forward(e) THEN pwm[enc[e].link].pulses * Unit(e)
                         ELSE - (pwm[enc[e].link].pulses * Unit(e)))
  BY DEF Destination, Signed
<1>4. Destination(e)' = enc'[e].rel
        + (IF Forward(e)' THEN pwm'[enc'[e].link].pulses * Unit(e)'
                          ELSE - (pwm'[enc'[e].link].pulses * Unit(e)'))
  BY DEF Destination, Signed
<1> QED
  BY <1>1, <1>2, <1>3, <1>4

(* The pulses a step takes off the train are those it moves the encoder by. *)
LEMMA EmitCourse ==
  ASSUME TypeOK, PwmEmit, NEW e \in Encoder, enc[e].link = cur
  PROVE  Destination(e)' = Destination(e)
<1> DEFINE n == P.pulses
           k == Emitted
           u == Unit(e)
           fw == Forward(e)
           r == enc[e].rel
<1>0. Stepping /\ enc \in [Encoder -> EncRec] /\ enc[e] \in EncRec /\ P = pwm[cur]
  BY DEF PwmEmit, TypeOK, EncRec, P
<1>1. /\ n \in Nat /\ k \in Nat /\ u \in Nat /\ r \in Int /\ fw \in BOOLEAN
  BY <1>0, CreditFacts, MovedTypes DEF EncRec, PwmRec
<1>2. enc'[e] = Moved(e) /\ out' = out
  BY DEF PwmEmit
<1>3. /\ enc'[e].rel = r + Signed(e, k * u)
      /\ enc'[e].link = enc[e].link /\ enc'[e].ppr = enc[e].ppr
      /\ enc'[e].dig = enc[e].dig
  BY <1>0, <1>2 DEF Moved, EncRec
<1>4. pwm'[cur].pulses = n - k /\ pwm'[cur].freq = pwm[cur].freq
  BY <1>0, EmitLeaves
<1>5. Unit(e)' = u
  BY <1>3 DEF Unit
<1>6. Forward(e)' = fw
  BY <1>2, <1>3, <1>4 DEF Forward
<1>7. Destination(e) = r + (IF fw THEN n * u ELSE - (n * u))
  BY <1>0 DEF Destination, Signed
<1>8. enc'[e].rel = r + (IF fw THEN k * u ELSE - (k * u))
  BY <1>3 DEF Signed
<1>9. Destination(e)' = enc'[e].rel + (IF fw THEN (n - k) * u ELSE - ((n - k) * u))
  <2>1. Destination(e)' = enc'[e].rel
          + (IF Forward(e)' THEN pwm'[enc'[e].link].pulses * Unit(e)'
                            ELSE - (pwm'[enc'[e].link].pulses * Unit(e)'))
    BY DEF Destination, Signed
  <2> HIDE DEF n, k, u, fw
  <2> QED
    BY <1>3, <1>4, <1>5, <1>6, <2>1
<1>10. n * u \in Int /\ k * u \in Int /\ (n - k) * u = n * u - k * u
  BY <1>1
<1> HIDE DEF n, k, u, fw, r
<1> QED
  BY <1>1, <1>7, <1>8, <1>9, <1>10

LEMMA NextCourse ==
  TypeOK /\ [Next]_vars =>
    [ \A e \in Encoder : Destination(e)' = Destination(e) \/ AppRuns ]_vars
<1> SUFFICES ASSUME TypeOK, Next, ~ AppRuns, NEW e \in Encoder
             PROVE  Destination(e)' = Destination(e)
  BY DEF vars
<1>0. enc \in [Encoder -> EncRec] /\ enc[e].link \in Pwm /\ pwm \in [Pwm -> PwmRec]
  BY DEF TypeOK, EncRec, PwmRec
<1>1. CASE PwmIdle
  <2>1. /\ pwm'[enc[e].link].freq = pwm[enc[e].link].freq
        /\ pwm'[enc[e].link].pulses = pwm[enc[e].link].pulses
    BY <1>0, <1>1 DEF PwmIdle, PwmRec
  <2> QED
    BY <1>1, <2>1, SameCourse DEF PwmIdle
<1>2. CASE PwmAccumulate
  <2>1. /\ pwm'[enc[e].link].freq = pwm[enc[e].link].freq
        /\ pwm'[enc[e].link].pulses = pwm[enc[e].link].pulses
    BY <1>0, <1>2 DEF PwmAccumulate, PwmRec
  <2> QED
    BY <1>2, <2>1, SameCourse DEF PwmAccumulate
<1>3. CASE PwmEmit
  <2>1. CASE enc[e].link = cur
    BY <1>3, <2>1, EmitCourse
  <2>2. CASE enc[e].link # cur
    <3>1. enc'[e] = enc[e] /\ out' = out
      BY <1>3, <2>2 DEF PwmEmit
    <3>2. pwm'[enc[e].link] = pwm[enc[e].link]
      BY <1>0, <1>3, <2>2, EmitLeaves
    <3> QED
      BY <3>1, <3>2, SameCourse
  <2> QED
    BY <2>1, <2>2
<1>4. CASE Advance \/ PwmStopped
  <2>1. UNCHANGED <<pwm, enc, out>>
    BY <1>4 DEF Advance, PwmStopped
  <2> QED
    BY <2>1, SameCourse
<1> QED
  BY <1>1, <1>2, <1>3, <1>4
  DEF Next, AppRuns, SetPulses, SetFrequency, SetOutPwmSigPulses, SetPulseCallback,
      SetMapping, SetOutDig, SetPosition, SetSpeed, StepStart, CallbackReturn

----------------------------------------------------------------------------
(* The theorems.                                                           *)

(* The records keep their types and widths, and a callback runs only       *)
(* within a step, whatever the application does from it.                   *)
THEOREM TypeCorrect == Spec => []TypeOK
BY InitIInv, NextIInv, PTL DEF Spec, IInv

(* No output that still has pulses to send carries the credit of a whole   *)
(* one: a new train never starts with pulses of the one it replaced.       *)
THEOREM CreditIsFresh == Spec => []NoStaleCredit
BY InitIInv, NextIInv, PTL DEF Spec, IInv

(* Trains come no faster than the highest frequency they were given, over  *)
(* wraps of the tick, frequency changes within a train and trains that     *)
(* callbacks ask for inside a step.                                        *)
THEOREM TrainsKeepTheirTime == Spec => []NeverEarly
BY InitIInv, NextIInv, IInvNeverEarly, PTL DEF Spec

(* And no later: as long as the tick tells each step how much time went by, *)
(* a train lacks after a step less than one pulse of what the lowest       *)
(* frequency it was given is worth since it was asked for.                 *)
THEOREM TrainsAreNotLate == Spec => []NeverLate
BY InitIInv, NextIInv, IInvNeverLate, PTL DEF Spec

(* The angle an encoder reports is that of the position it reports.        *)
THEOREM AngleFollows == Spec => []AngleOfPosition
BY InitIInv, NextIInv, PTL DEF Spec, IInv

(* A pulse taken off a train is a pulse the linked encoders have moved by: *)
(* only a call of the application changes where an encoder ends up.        *)
THEOREM KeepsCourse == Spec => OnCourse
<1>1. IInv /\ [Next]_vars =>
        [ \A e \in Encoder : Destination(e)' = Destination(e) \/ AppRuns ]_vars
  BY NextCourse DEF IInv
<1> QED
  BY <1>1, InitIInv, NextIInv, PTL DEF Spec, OnCourse
=============================================================================
