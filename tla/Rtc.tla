-------------------------------- MODULE Rtc --------------------------------
(***************************************************************************)
(* The simulated real-time clock (pc_sim_fmk_cpu.c).  A reading is the     *)
(* time the clock was set to plus the whole seconds the millisecond tick   *)
(* has counted since, modulo the width of the tick.  A call that sets the  *)
(* clock first works the new time out, for SetDate and SetTime from a      *)
(* reading, and then reads the tick again to restart the count; the host   *)
(* may advance in between.  A time is a number of seconds since the first  *)
(* of January 2000; Calendar has the checks and conversions of dates.      *)
(***************************************************************************)
EXTENDS Calendar

CONSTANTS
  SecMs,         \* milliseconds of a second
  DaySec,        \* seconds of a day
  TickMod,       \* the tick counts modulo TickMod
  Date,          \* dates callers ask for, some of which do not exist
  HostTimes,     \* what time() may answer at start
  NoCall,        \* no setter is running
  MaxHost        \* bound: last instant explored

ASSUME ClockAssumption ==
  /\ SecMs \in Nat \ {0} /\ DaySec \in Nat \ {0} /\ TickMod \in Nat \ {0}
  /\ MaxHost \in Nat /\ HostTimes \subseteq Nat
  /\ Date \subseteq [year : Nat, month : Nat, day : Nat]

TimeOfDay == 0 .. DaySec - 1

VARIABLES
  init,          \* g_pcSimRtcInit_b
  valid,         \* g_pcSimRtcDateTimeValid_b
  base,          \* g_pcSimRtcBaseTime_s
  baseTick,      \* g_pcSimRtcBaseTick_u32
  host,          \* milliseconds since the start, not wrapped
  call,          \* the setter in progress and the time it will store
  since,         \* history: instant the clock was last set
  obs            \* history: the last two readings since then

vars == <<init, valid, base, baseTick, host, call, since, obs>>

Now == host % TickMod

(* Seeded fault of Elapsed: the subtraction is not taken modulo TickMod.   *)
ElapsedNoWrap == IF Now < baseTick THEN 0 ELSE Now - baseTick

Elapsed == (Now - baseTick) % TickMod

(* s_PCSIM_FMKCPU_GetCurrentRtcTime *)
Current == base + (Elapsed \div SecMs)

Init ==
  /\ init = FALSE /\ valid = FALSE
  /\ base = 0 /\ baseTick = 0
  /\ host = 0 /\ call = NoCall
  /\ since = 0 /\ obs = <<>>

Idle == call = NoCall

Advance ==
  /\ host < MaxHost
  /\ host' = host + 1
  /\ UNCHANGED <<init, valid, base, baseTick, call, since, obs>>

(* First half of a setter: the time it is going to store.  When it began   *)
(* and what the clock then showed are history.                             *)
Begin(kind, time) ==
  /\ Idle
  /\ call' = [kind |-> kind, time |-> time, at |-> host, was |-> Current]
  /\ UNCHANGED <<init, valid, base, baseTick, host, since, obs>>

Start(t) == Begin("init", t)

(* time() failed.                                                          *)
StartFail ==
  /\ Idle
  /\ init' = FALSE /\ valid' = FALSE
  /\ UNCHANGED <<base, baseTick, host, call, since, obs>>

Today == DateOf(Current \div DaySec)

SetDateTime(d, s) ==
  /\ init /\ ValidDate(d)
  /\ Begin("datetime", DayNumber(d) * DaySec + s)

(* Seeded fault of SetDate: the date is set at midnight.                   *)
SetDateMidnight(d) ==
  /\ init /\ ValidDate(d)
  /\ Begin("date", DayNumber(d) * DaySec)

SetDate(d) ==
  /\ init /\ ValidDate(d)
  /\ Begin("date", DayNumber(d) * DaySec + (Current % DaySec))

(* The date that was read must be one the setters accept.                  *)
SetTime(s) ==
  /\ init /\ ValidDate(Today)
  /\ Begin("time", (Current \div DaySec) * DaySec + s)

(* Seeded fault of Rebase: only SetDateTime makes the clock valid.         *)
RebaseNotValid ==
  /\ ~ Idle
  /\ base' = call.time
  /\ baseTick' = Now
  /\ since' = host /\ obs' = <<>>
  /\ init' = (init \/ call.kind = "init")
  /\ valid' = (valid \/ call.kind = "datetime")
  /\ call' = NoCall
  /\ UNCHANGED host

(* Second half of a setter.                                                *)
Rebase ==
  /\ ~ Idle
  /\ base' = call.time
  /\ baseTick' = Now
  /\ since' = host /\ obs' = <<>>
  /\ init' = (init \/ call.kind = "init")
  /\ valid' = (valid \/ call.kind \in {"init", "datetime"})
  /\ call' = NoCall
  /\ UNCHANGED host

Read ==
  /\ Idle /\ init
  /\ LET now == [at |-> host, time |-> Current]
     IN  obs' = IF obs = <<>> THEN <<now>> ELSE <<obs[Len(obs)], now>>
  /\ UNCHANGED <<init, valid, base, baseTick, host, call, since>>

Next ==
  \/ Advance \/ StartFail \/ Rebase \/ Read
  \/ \E t \in HostTimes : Start(t)
  \/ \E d \in Date : SetDate(d) \/ \E s \in TimeOfDay : SetDateTime(d, s)
  \/ \E s \in TimeOfDay : SetTime(s)

Spec == Init /\ [][Next]_vars

----------------------------------------------------------------------------
(* Properties.                                                             *)

CallType ==
  [kind : {"init", "datetime", "date", "time"}, time : Nat, at : Nat, was : Nat]

(* Types; a clock that answers is one whose date and time are valid.       *)
TypeOK ==
  /\ init \in BOOLEAN /\ valid = init
  /\ base \in Nat /\ baseTick \in 0 .. TickMod - 1
  /\ host \in Nat /\ since \in 0 .. host
  /\ call \in CallType \cup {NoCall}
  /\ obs \in Seq([at : Nat, time : Nat]) /\ Len(obs) <= 2

(* For one wrap of the tick after it was set, by whatever sequence of      *)
(* calls, the clock counts the seconds of the host, also across the        *)
(* instant at which the tick returns to 0.                                 *)
TracksHost ==
  init /\ host - since < TickMod => Current = base + ((host - since) \div SecMs)

(* When a setter returns the clock shows what was asked for and, of the    *)
(* rest, what it showed when the setter began: SetDate keeps the time of   *)
(* day and SetTime the date.  What the host advanced in between is lost,   *)
(* and no more than a second besides (the fraction the reading dropped).   *)
SettingKeepsRest ==
  [][ ~ Idle /\ Idle' =>
        /\ Current' = call.time
        /\ call.kind = "date" => Current' % DaySec = call.was % DaySec
        /\ call.kind = "time" => Current' \div DaySec = call.was \div DaySec
        /\ call.kind # "init" /\ host - since < TickMod
             => Current <= call.was + ((host - call.at) \div SecMs) + 1 ]_vars

(* The simulator and its host keep the same calendar: a date that a setter *)
(* accepts is stored as this date and not run on into the next month, and  *)
(* every date the clock comes to is one the setters accept, up to 2099.    *)
SameCalendar ==
  [][ /\ \A d \in Date :
           SetDate(d) \/ (\E s \in TimeOfDay : SetDateTime(d, s))
             => DateOf(call'.time \div DaySec) = d
      /\ init /\ Today.year <= 2099 => ValidDate(Today) ]_vars

(* Two readings without a setting in between are as far apart as the host, *)
(* but for the part of a second that each of them drops, and so in order,  *)
(* as long as no multiple of the wrap, counted from the setting, lies      *)
(* between them.                                                           *)
ReadingsFollowHost ==
  Len(obs) = 2 /\ (obs[1].at - since) \div TickMod = (obs[2].at - since) \div TickMod
    => LET seconds == (obs[2].at - obs[1].at) \div SecMs
       IN  obs[2].time - obs[1].time \in {seconds, seconds + 1}

(* "Unsigned subtraction also handles the 32-bit millisecond tick wrap as  *)
(* long as two observations are less than one complete wrap apart": two    *)
(* readings that close, with no setting in between, never go backwards.    *)
NoBackwards ==
  Len(obs) = 2 /\ obs[2].at - obs[1].at < TickMod => obs[2].time >= obs[1].time
=============================================================================
