---------------------------- MODULE PulseEngine ----------------------------
(***************************************************************************)
(* The pulse engine of the simulator (pc_sim_runtime.c): each runtime step *)
(* measures the time since the previous one on the millisecond tick, emits *)
(* on every PWM output the pulses that time is worth, moves the encoders   *)
(* linked to it, and calls the application back when a train of pulses     *)
(* ends.  A callback may start trains, change frequencies, directions and  *)
(* links while the step is still going through the other outputs.          *)
(*                                                                         *)
(* Quantities are integers: a frequency counts 1/Den pulses per tick, a    *)
(* revolution (2 pi) has Rev units.                                        *)
(***************************************************************************)
EXTENDS Integers

CONSTANTS
  NPwm,          \* FMKIO_OUTPUT_SIGPWM_NB
  NEnc,          \* FMKIO_INPUT_ENCODER_NB
  NDig,          \* FMKIO_OUTPUT_SIGDIG_NB
  Den,           \* a pulse, in units of credit
  Rev,           \* a revolution, in units of position
  TickMod,       \* the tick counts modulo TickMod
  DefaultPpr,    \* PCSIM_ENCODER_PULSE_PER_REV_F
  Freqs,         \* frequencies the application sets
  Counts,        \* lengths of the trains it asks for
  Mappings,      \* links between encoders and outputs it configures
  Levels,        \* levels it gives to the digital outputs
  Positions,     \* positions it gives to an encoder
  Speeds,        \* speeds it gives to an encoder
  MaxHost        \* bound: last instant explored

ASSUME ScaleAssumption ==
  /\ NPwm \in Nat \ {0} /\ NEnc \in Nat /\ NDig \in Nat \ {0}
  /\ Den \in Nat \ {0} /\ TickMod \in Nat \ {0}
  /\ Rev \in Nat \ {0} /\ Rev % 2 = 0
  /\ MaxHost \in Nat

Pwm == 0 .. NPwm - 1
Encoder == 0 .. NEnc - 1
Dig == 0 .. NDig - 1

(* A direction output of NDig or more is none: the sign of the frequency   *)
(* gives the direction.                                                    *)
Mapping == [enc : Encoder, link : Pwm, ppr : {r \in 1 .. Rev : Rev % r = 0},
            dig : 0 .. NDig]

ASSUME InputAssumption ==
  /\ Freqs \subseteq Int /\ Counts \subseteq Nat
  /\ Mappings \subseteq Mapping /\ Levels \subseteq BOOLEAN
  /\ Positions \subseteq Int /\ Speeds \subseteq Int
  /\ DefaultPpr \in 1 .. Rev /\ Rev % DefaultPpr = 0

VARIABLES
  pwm,           \* per output: frequency, pulses left, fraction, callback
  enc,           \* per encoder: link, ppr, direction output, position
  out,           \* levels of the digital outputs
  host,          \* milliseconds since the start, not wrapped
  last,          \* g_lastRuntimeTickMs_u32
  dt,            \* duration the current step accounts for
  cur,           \* output the step is at; NPwm outside a step
  inCallback,    \* TRUE while the end-of-train callback of cur runs
  train,         \* history, per output: length, start and top frequency
  pace,          \* history of the train: lowest frequency, time all counted
  seen           \* history: instants of the last two runtime steps

vars == <<pwm, enc, out, host, last, dt, cur, inCallback, train, pace, seen>>
engine == <<host, last, dt, cur, inCallback, seen>>

Abs(x) == IF x < 0 THEN - x ELSE x
Half == Rev \div 2

(* s_WrapToPi_mrad: the angle of a position, from -Half up to Half - 1.    *)
Wrap(x) == ((x + Half) % Rev) - Half

Init ==
  /\ pwm = [p \in Pwm |-> [freq |-> 0, pulses |-> 0, frac |-> 0, cb |-> FALSE]]
  /\ enc = [e \in Encoder |->
              [link |-> e % NPwm, ppr |-> DefaultPpr, dig |-> e % NDig,
               rel |-> 0, abs |-> 0, forward |-> TRUE, speed |-> 0]]
  /\ out = [d \in Dig |-> FALSE]
  /\ host = 0 /\ last = 0 /\ dt = 0
  /\ cur = NPwm /\ inCallback = FALSE
  /\ train = [p \in Pwm |-> [asked |-> 0, since |-> 0, top |-> 0]]
  /\ pace = [p \in Pwm |-> [low |-> 0, whole |-> TRUE]]
  /\ seen = [now |-> 0, before |-> 0]

----------------------------------------------------------------------------
(* Calls of the application and of the command server.  They come between  *)
(* two steps, or from the callback of the step in progress.                *)

AppRuns == cur = NPwm \/ inCallback

Top(a, b) == IF a < b THEN b ELSE a
Bottom(a, b) == IF a < b THEN a ELSE b

(* The tick tells how much time went by between two steps at a and b: it   *)
(* did not wrap once around, and was not 0 at a, which reads as no step.   *)
Counted(a, b) == a = b \/ (a % TickMod # 0 /\ b - a < TickMod)

(* History of a request at output p.  An output the step in progress has   *)
(* still to reach is credited with the interval of that step.              *)
Started(p, f, n) ==
  [asked |-> n, top |-> Abs(f),
   since |-> IF p > cur THEN seen.before ELSE seen.now]

FirstPace(p, f) ==
  [low |-> Abs(f), whole |-> p > cur => Counted(seen.before, seen.now)]

(* Seeded fault of SetPulses: the fraction left by the last train stays.   *)
SetPulsesKeepFrac(p, n) ==
  /\ AppRuns
  /\ pwm' = [pwm EXCEPT ![p].pulses = n]
  /\ train' = [train EXCEPT ![p] = Started(p, pwm[p].freq, n)]
  /\ pace' = [pace EXCEPT ![p] = FirstPace(p, pwm[p].freq)]
  /\ UNCHANGED <<enc, out, engine>>

SetPulses(p, n) ==
  /\ AppRuns
  /\ pwm' = [pwm EXCEPT ![p].pulses = n, ![p].frac = 0]
  /\ train' = [train EXCEPT ![p] = Started(p, pwm[p].freq, n)]
  /\ pace' = [pace EXCEPT ![p] = FirstPace(p, pwm[p].freq)]
  /\ UNCHANGED <<enc, out, engine>>

SetFrequency(p, f) ==
  /\ AppRuns
  /\ pwm' = [pwm EXCEPT ![p].freq = f]
  /\ train' = [train EXCEPT ![p].top = Top(@, Abs(f))]
  /\ pace' = [pace EXCEPT ![p].low = Bottom(@, Abs(f))]
  /\ UNCHANGED <<enc, out, engine>>

(* Frequency and pulses in one call.                                       *)
SetOutPwmSigPulses(p, f, n) ==
  /\ AppRuns
  /\ pwm' = [pwm EXCEPT ![p].freq = f, ![p].pulses = n, ![p].frac = 0]
  /\ train' = [train EXCEPT ![p] = Started(p, f, n)]
  /\ pace' = [pace EXCEPT ![p] = FirstPace(p, f)]
  /\ UNCHANGED <<enc, out, engine>>

SetPulseCallback(p, on) ==
  /\ AppRuns
  /\ pwm' = [pwm EXCEPT ![p].cb = on]
  /\ UNCHANGED <<enc, out, train, pace, engine>>

SetMapping(m) ==
  /\ AppRuns
  /\ enc' = [enc EXCEPT ![m.enc].link = m.link, ![m.enc].ppr = m.ppr,
                        ![m.enc].dig = m.dig]
  /\ UNCHANGED <<pwm, out, train, pace, engine>>

SetOutDig(d, level) ==
  /\ AppRuns
  /\ out' = [out EXCEPT ![d] = level]
  /\ UNCHANGED <<pwm, enc, train, pace, engine>>

(* Seeded fault of SetPosition: the angle is left as it was.               *)
SetPositionKeepAngle(e, x) ==
  /\ AppRuns
  /\ enc' = [enc EXCEPT ![e].rel = x]
  /\ UNCHANGED <<pwm, out, train, pace, engine>>

(* By the command server or as a calibration offset.                       *)
SetPosition(e, x) ==
  /\ AppRuns
  /\ enc' = [enc EXCEPT ![e].rel = x, ![e].abs = Wrap(x)]
  /\ UNCHANGED <<pwm, out, train, pace, engine>>

SetSpeed(e, v) ==
  /\ AppRuns
  /\ enc' = [enc EXCEPT ![e].speed = v]
  /\ UNCHANGED <<pwm, out, train, pace, engine>>

----------------------------------------------------------------------------
(* The runtime step.                                                       *)

Advance ==
  /\ host < MaxHost
  /\ host' = host + 1
  /\ UNCHANGED <<pwm, enc, out, last, dt, cur, inCallback, train, pace, seen>>

(* Time since the last step.  A last tick of 0 means no step yet.          *)
Elapsed ==
  LET now == host % TickMod IN IF last = 0 THEN 0 ELSE (now - last) % TickMod

(* Seeded fault of StepStart: the tick is recorded by the first step only. *)
StepStartStale ==
  /\ cur = NPwm
  /\ last' = IF last = 0 THEN host % TickMod ELSE last
  /\ dt' = Elapsed
  /\ seen' = [now |-> host, before |-> seen.now]
  /\ cur' = IF Elapsed = 0 THEN NPwm ELSE 0
  /\ enc' = IF Elapsed = 0 THEN enc
            ELSE [e \in Encoder |-> [enc[e] EXCEPT !.speed = 0]]
  /\ pace' = [p \in Pwm |-> [pace[p] EXCEPT !.whole = @ /\ Counted(seen.now, host)]]
  /\ UNCHANGED <<pwm, out, host, inCallback, train>>

(* PCSIM_RuntimeStep reads the tick once; nothing moves in no time.        *)
StepStart ==
  /\ cur = NPwm
  /\ last' = host % TickMod
  /\ dt' = Elapsed
  /\ seen' = [now |-> host, before |-> seen.now]
  /\ cur' = IF Elapsed = 0 THEN NPwm ELSE 0
  /\ enc' = IF Elapsed = 0 THEN enc
            ELSE [e \in Encoder |-> [enc[e] EXCEPT !.speed = 0]]
  /\ pace' = [p \in Pwm |-> [pace[p] EXCEPT !.whole = @ /\ Counted(seen.now, host)]]
  /\ UNCHANGED <<pwm, out, host, inCallback, train>>

Stepping == cur < NPwm /\ ~ inCallback
P == pwm[cur]
Credit == Abs(P.freq) * dt + P.frac

(* Seeded fault of Emitted: pulses nobody asked for.                       *)
EmittedUncapped == Credit \div Den

Emitted == LET due == Credit \div Den IN IF due > P.pulses THEN P.pulses ELSE due

Unit(e) == Rev \div enc[e].ppr

Forward(e) ==
  IF enc[e].dig \in Dig THEN out[enc[e].dig] ELSE pwm[enc[e].link].freq >= 0

Signed(e, x) == IF Forward(e) THEN x ELSE - x

(* Seeded fault of Moved: the movement of the whole credit.                *)
MovedByCredit(e) ==
  LET rel == enc[e].rel + Signed(e, (Credit \div Den) * Unit(e))
  IN  [enc[e] EXCEPT !.rel = rel, !.abs = Wrap(rel), !.forward = Forward(e),
                     !.speed = @ + Signed(e, Abs(P.freq) * Unit(e))]

Moved(e) ==
  LET rel == enc[e].rel + Signed(e, Emitted * Unit(e))
  IN  [enc[e] EXCEPT !.rel = rel, !.abs = Wrap(rel), !.forward = Forward(e),
                     !.speed = @ + Signed(e, Abs(P.freq) * Unit(e))]

NextPwm == cur' = cur + 1 /\ UNCHANGED <<host, last, dt, inCallback, seen>>

PwmIdle ==
  /\ Stepping /\ P.pulses = 0
  /\ pwm' = [pwm EXCEPT ![cur].frac = 0]
  /\ NextPwm
  /\ UNCHANGED <<enc, out, train, pace>>

PwmStopped ==
  /\ Stepping /\ P.pulses > 0 /\ P.freq = 0
  /\ NextPwm
  /\ UNCHANGED <<pwm, enc, out, train, pace>>

(* Seeded fault of PwmAccumulate: the fraction of a pulse is dropped.      *)
PwmAccumulateNothing ==
  /\ Stepping /\ P.pulses > 0 /\ P.freq # 0 /\ Emitted = 0
  /\ pwm' = [pwm EXCEPT ![cur].frac = 0]
  /\ NextPwm
  /\ UNCHANGED <<enc, out, train, pace>>

PwmAccumulate ==
  /\ Stepping /\ P.pulses > 0 /\ P.freq # 0 /\ Emitted = 0
  /\ pwm' = [pwm EXCEPT ![cur].frac = Credit]
  /\ NextPwm
  /\ UNCHANGED <<enc, out, train, pace>>

(* The callback starts within the step, after every encoder has moved.     *)
PwmEmit ==
  /\ Stepping /\ P.pulses > 0 /\ P.freq # 0 /\ Emitted # 0
  /\ pwm' = [pwm EXCEPT ![cur].pulses = @ - Emitted,
                        ![cur].frac = Credit - Emitted * Den]
  /\ enc' = [e \in Encoder |-> IF enc[e].link = cur THEN Moved(e) ELSE enc[e]]
  /\ IF Emitted = P.pulses /\ P.cb
     THEN inCallback' = TRUE /\ UNCHANGED <<host, last, dt, cur, seen>>
     ELSE NextPwm
  /\ UNCHANGED <<out, train, pace>>

CallbackReturn ==
  /\ inCallback
  /\ inCallback' = FALSE
  /\ cur' = cur + 1
  /\ UNCHANGED <<pwm, enc, out, host, last, dt, train, pace, seen>>

Next ==
  \/ \E p \in Pwm :
       \/ \E n \in Counts : SetPulses(p, n)
       \/ \E f \in Freqs : SetFrequency(p, f)
       \/ \E f \in Freqs, n \in Counts : SetOutPwmSigPulses(p, f, n)
       \/ \E on \in BOOLEAN : SetPulseCallback(p, on)
  \/ \E m \in Mappings : SetMapping(m)
  \/ \E d \in Dig, level \in Levels : SetOutDig(d, level)
  \/ \E e \in Encoder, x \in Positions : SetPosition(e, x)
  \/ \E e \in Encoder, v \in Speeds : SetSpeed(e, v)
  \/ Advance \/ StepStart
  \/ PwmIdle \/ PwmStopped \/ PwmAccumulate \/ PwmEmit \/ CallbackReturn

Spec == Init /\ [][Next]_vars

----------------------------------------------------------------------------
(* Properties.                                                             *)

(* Types; a callback runs only inside a step, and never while pulses of    *)
(* the past are due.                                                       *)
TypeOK ==
  /\ pwm \in [Pwm -> [freq : Int, pulses : Nat, frac : Nat, cb : BOOLEAN]]
  /\ enc \in [Encoder -> [link : Pwm, ppr : 1 .. Rev, dig : 0 .. NDig,
                          rel : Int, abs : - Half .. Half - 1,
                          forward : BOOLEAN, speed : Int]]
  /\ out \in [Dig -> BOOLEAN]
  /\ host \in Nat /\ last \in 0 .. TickMod - 1 /\ dt \in 0 .. TickMod - 1
  /\ cur \in 0 .. NPwm
  /\ inCallback \in BOOLEAN /\ (inCallback => cur < NPwm)
  /\ train \in [Pwm -> [asked : Nat, since : Nat, top : Nat]]
  /\ pace \in [Pwm -> [low : Nat, whole : BOOLEAN]]
  /\ seen \in [now : Nat, before : Nat]

(* No credit of a whole pulse is carried along: the excess of a train that *)
(* ends, or of a train that is replaced, is not spent by the next one.     *)
NoStaleCredit == \A p \in Pwm : pwm[p].pulses > 0 => pwm[p].frac < Den

(* A train is never ahead of its frequency: since the last runtime step    *)
(* before it was asked for, no more pulses came than the highest frequency *)
(* it was given is worth, whether the tick wraps or callbacks restart it.  *)
NeverEarly ==
  \A p \in Pwm :
    (train[p].asked - pwm[p].pulses) * Den
      <= train[p].top * (host - train[p].since)

(* Nor is it late: whatever restarts, changes of frequency and fractions   *)
(* of a pulse there were, after a step a train lacks less than one pulse   *)
(* of what the lowest frequency it was given is worth up to that step, as  *)
(* long as the tick told every step how much time went by.                 *)
NeverLate ==
  cur = NPwm =>
    \A p \in Pwm :
      pwm[p].pulses > 0 /\ pace[p].whole =>
        pace[p].low * (seen.now - train[p].since)
          < ((train[p].asked - pwm[p].pulses) + 1) * Den

(* Where an encoder will be when the train of its output has ended.        *)
Destination(e) == enc[e].rel + Signed(e, pwm[enc[e].link].pulses * Unit(e))

(* Only the application changes where an encoder is going: each pulse the  *)
(* engine takes off a train moves the encoder by that pulse, so a train of *)
(* n pulses ends n pulses away and the callback finds it there.            *)
OnCourse == [][ \A e \in Encoder : Destination(e)' = Destination(e) \/ AppRuns ]_vars

(* The angle an encoder shows is that of its position.                     *)
AngleOfPosition == \A e \in Encoder : (enc[e].rel - enc[e].abs) % Rev = 0
=============================================================================
