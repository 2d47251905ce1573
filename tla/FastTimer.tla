----------------------------- MODULE FastTimer -----------------------------
(***************************************************************************)
(* The fast timer of the simulator (pc_sim_fmk_tim.c).  Every runtime step *)
(* calls FMKTIM_Cyclic, which calls the callback of the timer once for     *)
(* each period that went by since the last one, however late the step is.  *)
(* The host moves on while callbacks run, and a callback may stop, start   *)
(* or configure the timer from inside the loop that called it, also with   *)
(* no callback: the loop does not look again before it calls.              *)
(***************************************************************************)
EXTENDS Integers

CONSTANTS
  Part,          \* a millisecond, in the units of a period
  Periods,       \* periods the application asks for, in these units
  TickMod,       \* the tick counts modulo TickMod
  MaxBusy,       \* bound: milliseconds the host advances per turn of the loop
  MaxLag         \* bound: milliseconds the timer may be behind

ASSUME TimerAssumption ==
  /\ Part \in Nat \ {0} /\ Periods \subseteq Int
  /\ TickMod \in Nat /\ MaxBusy \in Nat
  /\ MaxLag \in Nat /\ MaxLag < TickMod

VARIABLES
  configured,    \* configured_b
  running,       \* running_b
  period,        \* periodMs_f32, in parts of a millisecond
  lastTick,      \* lastTickMs_u32
  callback,      \* TRUE when callback_pcb is set
  tick,          \* what PCSIM_GetTickMs answers
  step,          \* where FMKTIM_Cyclic is, "idle" when it does not run,
                 \* "crashed" when it has called NULL
  now,           \* now_u32, its last reading of the tick
  busy,          \* milliseconds in this turn of the loop
  owed,          \* history: milliseconds not yet paid by a call
  left           \* history: the time since the start, in these units, less
                 \* the periods of the calls, not less than zero

vars == <<configured, running, period, lastTick, callback, tick, step, now,
          busy, owed, left>>
timer == <<configured, running, period, callback>>

Init ==
  /\ configured = FALSE /\ running = FALSE /\ period = 0
  /\ lastTick = 0 /\ callback = FALSE
  /\ tick = 0 /\ step = "idle" /\ now = 0
  /\ busy = 0 /\ owed = 0 /\ left = 0

InLoop == step \in {"loop", "callback"}

(* The time since lastTick counts for a timer that runs or is in its loop. *)
Measured == InLoop \/ (running /\ step = "idle")

(* The host advances by a millisecond.                                     *)
Advance ==
  /\ InLoop => busy < MaxBusy
  /\ Measured => owed < MaxLag
  /\ tick' = (tick + 1) % TickMod
  /\ busy' = IF InLoop THEN busy + 1 ELSE 0
  /\ owed' = IF Measured THEN owed + 1 ELSE owed
  /\ left' = IF Measured THEN left + Part ELSE left
  /\ UNCHANGED <<timer, lastTick, step, now>>

----------------------------------------------------------------------------
(* Calls of the application, between two steps or from the callback.       *)

AppRuns == step = "idle" \/ step = "callback"

(* Seeded fault of SetEvntTimerCfg: the period is stored as it is given.   *)
SetEvntTimerCfgAsGiven(p, cb) ==
  /\ AppRuns
  /\ configured' = TRUE
  /\ period' = p
  /\ callback' = cb
  /\ lastTick' = tick
  /\ owed' = 0 /\ left' = 0
  /\ UNCHANGED <<running, tick, step, now, busy>>

(* A period that is not positive becomes one millisecond; the callback is  *)
(* taken as it is, NULL too.                                               *)
SetEvntTimerCfg(p, cb) ==
  /\ AppRuns
  /\ configured' = TRUE
  /\ period' = IF p <= 0 THEN Part ELSE p
  /\ callback' = cb
  /\ lastTick' = tick
  /\ owed' = 0 /\ left' = 0
  /\ UNCHANGED <<running, tick, step, now, busy>>

StartTimer ==
  /\ AppRuns
  /\ running' = TRUE
  /\ lastTick' = tick
  /\ owed' = 0 /\ left' = 0
  /\ UNCHANGED <<configured, period, callback, tick, step, now, busy>>

(* The loop does not look at running again.                                *)
StopTimer ==
  /\ AppRuns
  /\ running' = FALSE
  /\ UNCHANGED <<configured, period, callback, lastTick, tick, step, now,
                 busy, owed, left>>

----------------------------------------------------------------------------
(* FMKTIM_Cyclic.                                                          *)

CyclicStart ==
  /\ step = "idle"
  /\ configured /\ running /\ callback
  /\ now' = tick
  /\ step' = "loop"
  /\ busy' = 0
  /\ UNCHANGED <<timer, lastTick, tick, owed, left>>

(* (t_uint32)periodMs_f32 drops the fraction of a millisecond.             *)
WholePeriod == period \div Part

(* Seeded fault of Due: the truncated period is compared.                  *)
DueWhole == (now - lastTick) % TickMod >= WholePeriod

Due == ((now - lastTick) % TickMod) * Part >= period

(* The history of a call.                                                  *)
Pay ==
  /\ owed' = owed - WholePeriod
  /\ left' = IF left < period THEN 0 ELSE left - period

(* Seeded fault of Fire: the period does not move on.                      *)
FireAgain ==
  /\ step = "loop" /\ Due
  /\ step' = IF callback THEN "callback" ELSE "crashed"
  /\ busy' = 0
  /\ UNCHANGED <<timer, lastTick, tick, now, owed, left>>

(* Seeded fault of Fire: the periods that were missed are dropped.         *)
FireOnce ==
  /\ step = "loop" /\ Due
  /\ lastTick' = now
  /\ Pay
  /\ step' = IF callback THEN "callback" ELSE "crashed"
  /\ busy' = 0
  /\ UNCHANGED <<timer, tick, now>>

(* A call of NULL ends the program.                                        *)
Fire ==
  /\ step = "loop" /\ Due
  /\ lastTick' = (lastTick + WholePeriod) % TickMod
  /\ Pay
  /\ step' = IF callback THEN "callback" ELSE "crashed"
  /\ busy' = 0
  /\ UNCHANGED <<timer, tick, now>>

CallbackReturn ==
  /\ step = "callback"
  /\ now' = tick
  /\ step' = "loop"
  /\ UNCHANGED <<timer, lastTick, tick, busy, owed, left>>

CyclicEnd ==
  /\ step = "loop" /\ ~ Due
  /\ step' = "idle"
  /\ busy' = 0
  /\ UNCHANGED <<timer, lastTick, tick, now, owed, left>>

Next ==
  \/ Advance
  \/ \E p \in Periods, cb \in BOOLEAN : SetEvntTimerCfg(p, cb)
  \/ StartTimer \/ StopTimer
  \/ CyclicStart \/ Fire \/ CallbackReturn \/ CyclicEnd

Spec == Init /\ [][Next]_vars

(* The loop of the only thread goes on and callbacks return.               *)
FairSpec == Spec /\ WF_vars(Fire \/ CallbackReturn \/ CyclicEnd)

----------------------------------------------------------------------------
(* Properties.                                                             *)

(* Types; the loop runs only for a timer that was given a period.          *)
TypeOK ==
  /\ configured \in BOOLEAN /\ running \in BOOLEAN /\ callback \in BOOLEAN
  /\ period \in Nat /\ (configured => period > 0)
  /\ lastTick \in 0 .. TickMod - 1 /\ tick \in 0 .. TickMod - 1
  /\ now \in 0 .. TickMod - 1
  /\ step \in {"idle", "loop", "callback", "crashed"}
  /\ step # "idle" => configured
  /\ busy \in 0 .. MaxBusy
  /\ owed \in 0 .. MaxLag /\ left \in Nat

(* The time the timer sees is the time that went by since it was started   *)
(* or configured, less the whole milliseconds of the periods it has paid:  *)
(* none is lost to a late step or a slow callback, none is paid twice, and *)
(* the time before a start does not count, wherever the tick wraps.        *)
NoPeriodLost == Measured => (tick - lastTick) % TickMod = owed

(* However late steps are, and whatever callbacks start or configure in    *)
(* the loop, a timer with a period of whole milliseconds is never ahead of *)
(* the host: the periods of all its calls have gone by since its start.    *)
(* A fraction of a millisecond is dropped by every call, so with another   *)
(* period only the first call is known to be on time, and each later one   *)
(* comes a period after the whole milliseconds of those before it.  When   *)
(* the loop ends less than a period is left of the time it looked at.      *)
FiresWhenDue ==
  [][ step = "loop" =>
        /\ step' \in {"callback", "crashed"} =>
             /\ period % Part = 0 => left >= period
             /\ owed * Part >= period
        /\ step' = "idle" =>
             (owed - ((tick - now) % TickMod)) * Part < period ]_vars

(* The loop catches up and the main loop goes on, whatever the callbacks   *)
(* start, stop or configure, unless again and again a turn of the loop     *)
(* takes as long as the whole milliseconds of a period, or a callback has  *)
(* configured NULL and the loop has called it.                             *)
CyclicEnds ==
  \/ []<>(step = "idle") \/ []<>(InLoop /\ busy >= WholePeriod)
  \/ <>(step = "crashed" /\ ~ callback)
=============================================================================
