# Verification of PC_SIM

PC_SIM runs an STM32 application on a PC: the hardware layers of the firmware
(FMK CAN, IO, TIM, CPU, SRL, NVM) are replaced by stubs with simulated state, and
a UDP server lets a display, a test or a CAN broker look at that state and change
it.  This directory holds TLA+ modules of the parts of PC_SIM that have
behaviour of their own, TLC configurations that check them on small instances,
and TLAPS proofs for every value of the constants.

All paths are relative to the repository (`src/`).  Run the tools in this
directory:

    tlc -workers 2 -config MCCanTxLogs.cfg MCCanTxLogs
    tlapm CanTxLogsProofs.tla

## 1. Inventory

### How the program runs

`main` (`main_pc_sim.c:926-971`) is one thread.  Each turn of its loop

1. serves up to 32 UDP commands (`s_serverStep`),
2. runs `PCSIM_RuntimeStep`: reads the millisecond tick, drives the pulse
   outputs and encoders, then the fast timer,
3. calls the application (`APPSYS_Cyclic`, `CL42T_Cyclic`),
4. sleeps.

There are no locks and no second thread.  What makes the code hard is *re-entry*
and *order*: the server, the runtime step and the timer call application
callbacks from the middle of their own loops, and the callbacks call back into the
same modules; time passes between two reads of the tick; the process can be
killed, files can fail and UDP packets can be lost at any point.

### Components

| Component | State | Operations | Interaction | What makes it correct | Modules |
|---|---|---|---|---|---|
| CAN transmit logs (`pc_sim_fmk_can.c`) | two rings of 4096 frames with head, tail, count | `FMKFDCAN_SendTxItem`, pop, clear, count for each log | written by the application, drained by display and broker through the server | each reader sees a bounded queue that loses only its oldest frames, untouched by the other reader | `CanTxFifo`, `CanTxLogs`, `CanTxLogsProofs` |
| CAN receive registrations (`pc_sim_fmk_can.c`) | table of 256 registrations | `FMKFDCAN_ConfigureRxItemEvent`, `PCSIM_InjectCanFrame`, count, at; `DUMP_CAN_RX_REG_BURST` | callbacks registered by the application run inside the injection scan | each frame reaches exactly the accepting callbacks, once; registrations are never doubled | `CanRxSubscriptions`, `CanRxRegistry`, `CanRxRegistryProofs` |
| Non-volatile memory (`pc_sim_fmknvm_backend.c`) | RAM mirror, image file, init flag, last result | init/load, read, program, erase, range checks, persist | called by the FMK_NVM core; talks to the file system | what was acknowledged survives failures and kills; Flash only clears bits | `NvmBackend`, `NvmBackendProofs` |
| Pulse and encoder engine (`pc_sim_runtime.c`, setters in `pc_sim_fmk_io.c`) | pulses left, frequency and fraction per PWM; position, speed, link per encoder; last tick | runtime step, setters, encoder mapping, end-of-train callback | step driven by main, setters by server, application and callback | no pulse too early or too many; encoders move exactly by the pulses emitted | `PulseEngine`, `PulseEngineProofs` |
| Real-time clock (`pc_sim_fmk_cpu.c`) | base time and base tick, two flags | init, get, set date/time/both; checks of dates | reads the tick; dates and times are converted by the C library | follows the host; a setting changes only what it is meant to; its calendar is the host's | `Calendar`, `Rtc`, `RtcProofs` |
| Fast timer (`pc_sim_fmk_tim.c`) | configured, running, period, last tick, callback | configure, start, stop, cyclic catch-up | callback runs inside the catch-up loop and may stop or configure the timer | accounts for every millisecond once, is never ahead of the host (whole periods), catches up, and its loop ends | `FastTimer`, `FastTimerProofs` |
| Command server, main loop (`main_pc_sim.c`) | socket, keep-running flag, the two transmit logs it drains | receive, dispatch, reply, shutdown on a signal | calls every setter above; pops frames into replies | at most 32 commands per turn; every command finds its handler; frames reach a reader once or are lost with a reply; application, clients and signals get their turn | `CommandDispatch`, `CommandServer`, `CommandServerProofs` |
| Simulated inputs and events (`pc_sim_fmk_io.c`) | values of inputs and outputs, duty cycles; per event its edge and callback | set, get, configure, trigger | shared by server and application; the callback runs inside the command that triggers the event | each request stores, returns or is refused exactly the signal it names; inputs only clients change; an event runs the callback attached to it before the client is answered | `SignalBoard`, `IoSignals`, `Board`, `BoardProofs` |
| Serial lines (`pc_sim_fmk_srl.c`) | callbacks per line | init, transmit | transmit callback runs before `Transmit` returns and may transmit again | messages go out in the order of the calls, each is out before it is told of, once | `SerialLine`, `Board`, `BoardProofs` |
| CAN driver configuration (`FMKFDCAN_InitDriver`) | flag and configuration per node | one-shot store | none: never read back | - | not modelled |
| CPU, clock, watchdog, CDA, HRT stubs; SPI mock; option parsing, socket set-up, launch template | - | constant answers, I/O | - | - | not modelled |
| FMK_NVM core | - | - | drives the NVM backend | - | a submodule, not in the repository |

The hazards of each component are listed in `PROJECT.json` at their lines.

## 2. Plan

Order, most important behaviour first.  All models are done, and so are the proofs that
are within reach of the prover (section 5 says what is not).

| # | Module | Composes / implements | Abstract specification | Theorems |
|---|---|---|---|---|
| 1 | `CanTxLogs` | two rings | `CanTxFifo`: one bounded drop-oldest queue per reader | types, ring shape, agreement, refinement: **proved** |
| 2 | `NvmBackend` | mirror + file + killed process | - (durability stated with the history variable `acked`) | invariant, durability, Flash rule, page limit, ...: **proved** |
| 3 | `CanRxRegistry` | table + scan + callbacks + dump | `CanRxSubscriptions`: a set of subscriptions, each frame delivered once | types, no duplicates, complete dumps, which registrations a short dump tells, refinement: **proved** |
| 4 | `PulseEngine` | runtime step + IO setters + callback | - | types, credit, trains neither early nor late, angles, encoders on course: **proved** |
| 5 | `Rtc` over `Calendar` | clock + tick + dates, checked by the simulator and converted by the host | the calendar of the C library | types, tracking, readings in order, settings, no date before 2000, the two calendars agree: **proved** |
| 6 | `FastTimer` | catch-up loop with callbacks that stop, restart or reconfigure it, and a host that moves on during the callback | - (the time owed is the history variables `owed` and `left`) | types, no period lost, on time: **proved**; the loop ends: TLC |
| 7 | `CommandServer` over `CommandDispatch` | main loop, server step, commands that drain the logs, replies that do not arrive, signals; the queues of `CanTxFifo`, which `CanTxLogs` implements | - (what arrives and what is lost are history variables) | types, each frame once, dispatch table: **proved**; liveness: TLC |
| 8 | `IoSignals`, `SerialLine` | commands, application, event callbacks; transmissions inside transmissions | - | types, order of transmissions and callbacks: **proved** in `BoardProofs` |
| 9 | `Board` | `IoSignals` and `SerialLine` under one application | `SignalBoard`: what each request does to cells and handlers, and its answer | refinement: **proved** |

## 3. The modules and the code

`PROJECT.json` (`map`) gives for every definition the lines it stands for.  In all
modules one action is one call, or the part of a call between two points where
something else can happen (a callback, a file access that can fail, a kill, a
second read of the tick).  `ret`/`lastResult` is the return code of the last call.
Variables marked "history" exist for the properties only; no guard of an action
reads them.  Definitions introduced by "Seeded fault of X" are variants of
`X` with a plausible bug; nothing uses them, they are there to confirm that each
property notices such a bug.

### CanTxLogs (implements CanTxFifo)

`log["ihm"]` and `log["broker"]` are `g_pcSimCanTxLog_s` and
`g_pcSimCanBrokerTxLog_s` with their `items`, `head`, `tail`, `count`; `PushLogFrame`,
`PopLogFrame`, `ClearLog` are the three static helpers.  `SendTxItem` pushes to both
logs; `PopFrame`, `PopEmpty`, `PopNull` are the three outcomes of a pop.  A frame
is one value: copying 64 data bytes is not modelled.  `Contents` maps a ring to
the queue of `CanTxFifo`.

### CanRxRegistry (implements CanRxSubscriptions)

`reg` is `g_pcSimCanRxReg_as`.  Registration (`ConfigureRx`, `ConfigureRxAgain`,
`ConfigureRxFull`) is one call.  The injection is one action per slot
(`InjectStart`, then `InjectCall`/`CallbackReturn` or `InjectSkip`, then
`InjectEnd`) because a callback runs inside the scan; while it runs the
registration actions are enabled (`AppRuns`).  Identifiers and masks are sets of
bits, so masking is intersection.  `Dump` is the answer to
`DUMP_CAN_RX_REG_BURST n` with its lower and upper clamp; `ReplyMax` stands for
the number of registrations that fit in the answer buffer.

### NvmBackend

`ram` is the mirror, `image`/`imageLen` the file, `op` the call in progress.  Init
is `LoadFull`, or `LoadShort` followed by `RewriteOpen`, `RewriteByte`... and
`RewriteDone`/`RewriteFail`; a program is `ProgramStart`, one `ProgramChunk` per
page (or `ProgramRefused` at the first forbidden transition, with the bytes
before it left in the mirror), `ProgramPersist`, then `PersistByte`... and
`PersistDone`/`PersistFail`; an erase changes the mirror in `EraseStart` and
persists.  `Crash` may come between any two of these.  `acked` is, per byte,
what the callers may rely on.  Addresses and sizes are words of width `WordMod`,
so the end address wraps as in C.  Fault of the file system: any open or write
may fail after any prefix; reads fail only when `ReadFaults`.

### PulseEngine

`pwm`, `enc`, `out` gather the arrays of the runtime by index.  `StepStart`
reads the tick and computes `dt`; then one action per output: `PwmIdle` (no
pulses), `PwmStopped` (no frequency), `PwmAccumulate` (less than a pulse),
`PwmEmit` (pulses, encoders, perhaps the callback), `CallbackReturn`.  The
setters are enabled between steps and while a callback runs.  Floats are
integers: frequency in `1/Den` pulses per tick, positions in `1/Rev`
revolutions.  Rounding of `float` arithmetic, overflow of the conversion of a
huge credit to 32 bits, and duty cycles are left out.  `train`, `pace` and `seen` are
history: what a train was asked for and when, the highest and the lowest frequency it
had, whether the tick told every step how much time went by (`Counted`: no wrap was
completed, and the step before was not at a tick of exactly 0, which the code takes
for no step yet: that interval is lost), and the instants of the last two steps.

### Rtc and Calendar

`init`, `valid`, `base`, `baseTick` are the four static variables.  A setter is
two actions: it works out the new time (`SetDate` and `SetTime` from a reading),
then `Rebase` stores it with the tick read *then*; the host may advance between
the two.  `call` also keeps, as history, the instant at which the setter began and
what the clock showed then.  A time is a number of seconds since the first of
January 2000 and a day has `DaySec` of them.  `Calendar` has the tables of the
simulator (`IsLeapYear`, `DaysInMonth`, `ValidDate`) and, as external definitions,
what `mktime` and `localtime` do (`DayNumber`, `DateOf`): a year counted from March
and its cycle of 400 years, which is another formula than the simulator's table.
`Today` is the date of a reading.  The day of the week is not modelled (it is
checked to be one of seven and otherwise ignored by a setter), nor are NULL
arguments, failures of the C library and shifts of the local time.

### FastTimer

The first five variables are the fields of `g_pcSimFastTimer_s`.  `FMKTIM_Cyclic` is
`CyclicStart`, then `Fire` and `CallbackReturn` (with the second look at the tick)
for each period that is due, then `CyclicEnd`; when one of its three conditions
fails nothing happens.  `SetEvntTimerCfg`, `StartTimer` and `StopTimer` are enabled
between steps and while the callback runs (`AppRuns`); an operation that is neither
start nor stop changes nothing.  A timer may be configured with a NULL callback, also
from its callback: the loop does not look again, and its next call ends the program
(`step = "crashed"`).  The host advances at any point (`Advance`).
Periods are integers in `1/Part` ms, so that the truncation of a period to whole
milliseconds and its comparison with the fraction are both there; rounding of
`float` (ticks above 2^24 ms) is left out.  `owed` (history) counts the milliseconds
since a start or configuration less the whole milliseconds of the periods called, which
is what the code subtracts; `left` (history) is the time of the host less the *real*
periods called, at least zero.  For a period of whole milliseconds they are the same.
One of 1.5 ms is compared with its fraction and moved on by 1 ms, so that after its first
call it comes every millisecond: `left` falls behind `owed`, and only the weaker part of
`FiresWhenDue` speaks of it.

### CommandDispatch and CommandServer

`Branches` is the chain of comparisons of `s_processCommand` in its order and
`BranchOf` the first that accepts.  A command is the words of its name and the
numbers that can be read after it: `strncmp` accepts every name that begins with its
own, `sscanf` its own name with enough numbers.  `ParsesCan` is the pair of parsers
behind the injections.

`at` is the position of `main`; one action is a step of the loop, and in the
server step one command.  `Receive` takes a datagram; `PopBurst`, `PopOne`,
`ClearLog`, `InjectCan`, `TriggerEvent` and `OtherCommand` are what the branches do to the
transmit logs, which are the queues of `CanTxFifo`.  `fit` says how many frames of
a burst the reply has room for (that depends on their length): the one that fills it
is popped and cut.  `arrives` says whether the reply gets to its client; `bounced`
that it came back as an error of a later `recvfrom` (a reset port on Windows),
which ends that step.  `Signal` may come at any time.  `Application` is a turn or
a callback of the application, which may transmit.  `got` and `lost` are history.
The step of the runtime is one action here: that it ends is `CyclicEnds` and the
construction of `PulseEngine`.  That a reply is cut after the end of the buffer, and a
line feed is then written behind it, has no effect in the model.

### IoSignals, SerialLine, Board (implements SignalBoard)

`sig` gathers the arrays of values by kind, `evnt` the three arrays of the events.
`Set` and `Get` are the body that all the setters and getters share: the comparison
with a limit (`Limit`), then the access to an array (`Size`), which the code writes apart.
`Serve` is a command of a client, through `CommandDispatch`; `AppCall` a
call of the application, which may also come from the callback of an event
(`inCall`) inside `TriggerInputEvent`; `EvntReturn` ends it.  `answer` is what the
last call returned, and to whom.  `asked` (history) is the request that led to it: who
asks for what, of which kind of signal, with which identifier and value.  It is told by the
request's own words: for a command the name HELP offers and its numbers (`Meaning`), for
the application the name of the function it calls.  The branch that serves the command,
the array and the limit have no part in it.

`SerialLine` is the stack `calls` of the calls of `Transmit` in progress, each before
its output (`print`), before its look at the callback (`tell`) or in the
`callback`.  `out`, `told` and `due` are history.

`Board` lets the same application use both: a command is served and an event
callback returns only outside of `Transmit`, application code runs outside of all
calls or in the innermost callback.  `SignalBoard` says for every request what becomes of
it: `Set`, `Get`, `Raise` and `Attach` change or read the one cell or handler that
`asked` names and give the answer, or refuse when there is no such signal, event or edge.
Branches, arrays and limits are not in it, the number of signals of each kind is.
A setter that writes another cell or array, a getter that reads another one, a limit that
is off by one or a command that reaches another branch are not steps of it.

## 4. Model checking

| Run | Instance | Shows |
|---|---|---|
| `can_tx_logs` | logs of 3 frames, 2 frame values | `TypeOK`, `LogsAgree`; `ImplementsFifo` |
| `can_rx_registry` | 3 slots, 9 registrations that differ from one in one field each, burst and answer of 2 | `TypeOK`, `NoDuplicateRegistration`, `UsedSlotsFirst`, `DumpComplete`; `ImplementsSubscriptions`; liveness `InjectionEnds` |
| `nvm_flash` | 4 bytes of one bit, erase/program/page unit 2, 3-bit addresses | `TypeOK`, `AckedBytesOnFile`, `MirrorHoldsAcked`, `ProgramOnlyClearsBits` |
| `nvm_eeprom` | the same without erase, page 2 | `OnlyRequestedBytesChange`, `FullImageKept`, `ChunkWithinPage` |
| `nvm_read_fault` | 2 bytes, reads may fail | **violates** `FullImageKept` (finding 1) |
| `pulse_time` | 2 outputs, no encoder, tick of 2 bits, 5 instants, trains of 0 and 2 | `TypeOK`, `NoStaleCredit`, `NeverEarly`, `NeverLate` |
| `pulse_encoder` | 2 outputs, 1 encoder, re-linked, re-positioned, reversed, 4 instants; states are compared without the histories (`VIEW Present`) | `AngleOfPosition`, `OnCourse` |
| `rtc` | second of 2 ms, day of 2 s, started on 28 February 2000; 6 dates at the ends of February and of 2099 and beyond; tick wraps at 6, 13 instants | `TypeOK`, `TracksHost`, `ReadingsFollowHost`, `SettingKeepsRest`, `SameCalendar` |
| `rtc_readings` | the same | **violates** `NoBackwards` (finding 2) |
| `fast_timer` | periods of -0.5, 0.5, 1.5 and 2 ms, tick wraps at 6, up to 3 ms per turn of the loop, at most 5 ms late | `TypeOK`, `NoPeriodLost`, `FiresWhenDue`; liveness `CyclicEnds` |
| `command_server` | logs and bursts of 2, 2 commands per step, 1 datagram in the socket, 3 frames; 9 commands | `TypeOK`, `EachFrameOnce`, `OwnBranch`; liveness `ApplicationRuns`, `CommandsServed`, `SignalEnds` |
| `board` | one signal of each kind but two digital outputs and no input frequency, one event, two callbacks, duty cycles of one bit, one line, 3 messages, 2 calls inside each other; states are compared without the last request and its answer (`VIEW View`) | `TypeOK`, `ToldInOrder`; `ImplementsBoard` |

Why the bounds are enough.  A ring of 3 is the smallest in which head, tail and one slot
more are distinct and every operation wraps at every offset; the state space is closed
(no bound cuts it).  A table of 3 leaves room for a registration before, at and after
the scanned slot, and 9 candidates overfill it; the set of registrations exercises each
comparison of the code.  Four bytes with pages of two give a program inside a page, one
that ends at the boundary, one that crosses it, and one that starts in the middle; a
3-bit address makes an end address wrap back inside the component; one bit distinguishes
erased from programmed.  The NVM state spaces are closed too.  In `PulseEngine` and
`Rtc` only time is cut (`MaxHost`): the tick wraps once and twice within it, at every
phase of a train or of a setting; 3/2 and 1/2 pulses per tick make a step emit zero, one
or several pulses with a remainder.  No action reads a history and neither property of
`pulse_encoder` mentions one, so that its view loses no behaviour they tell apart.  In
`FastTimer` a lag of 5 ms is the most a tick of 6 can tell; it holds five calls of the
1.5 ms period and two of the longest, and three milliseconds in a turn of the loop make
the callback slower than every period. In `rtc` the clock runs from a day before a leap
day over its end, and the dates asked for include one that only another rule for leap
years accepts or refuses; `IsLeapYear` and the two conversions also agree over every day
of 2000-2099 when they are enumerated.  In `command_server` logs of two frames overflow
with the third; a burst of two can be whole, cut in its second frame, asked for with a
number too small and too large, or without one; a step of two commands leaves a third
waiting. One datagram in the socket is enough, because clients may send between any two
actions of the server.  `OwnBranch` is about all commands at once.  In `board`
identifier 0 is within every array, also where there is no signal (an array keeps one
slot), 1 is beyond all but the digital outputs, and 2 beyond these; two calls inside each
other are a transmission in the callback of another, in an event callback, in a command.
No action and no invariant reads the last request or its answer, and TLC checks
`ImplementsBoard` on every step it generates, so that the view loses nothing.

Deadlock is checked in every run but `command_server`, where the program may end.

Fairness.  Three runs state it, each weak fairness of the next step of a loop of
the only thread, which goes on as long as the callbacks return: in
`can_rx_registry` the scan (`InjectCall`, `CallbackReturn`, `InjectSkip`, `InjectEnd`
together; how often a callback registers is not bounded by it), in
`fast_timer` the catch-up (`Fire`, `CallbackReturn`, `CyclicEnd` together), and in
`command_server` the steps of `main` (`Main`).  Nothing is assumed of clients,
signals, replies or the host.  `CyclicEnds` therefore excuses a loop in which again and
again a turn takes as long as the whole milliseconds of the period (`busy`): the
code does not catch up then, and for a period below a millisecond it never leaves the
loop once the period is due.  It also excuses the program that has ended because a
callback configured NULL and the loop called it.

### Findings

1. `nvm_read_fault`: `LoadImage` treats a complete image that cannot be opened
   or read at that moment as absent: it reopens it with `"wb"`, which truncates
   it, writes erased bytes over it, and returns `RC_OK`
   (`pc_sim_fmknvm_backend.c:622-633`).  Its comment says "Load the persistent image
   or create an erased image when absent." and lists `RC_ERROR_NVM_BACKEND_READ` for
   "File access failed." (`:145-148`).
2. `rtc_readings`: the elapsed time is counted from the last *setting*, which
   no reading moves, so 2^32 ms (49.7 days) after it a reading falls back to the time
   of the setting (`pc_sim_fmk_cpu.c:197`).  The comment above promises correct
   results "as long as two observations are less than one complete wrap apart"
   (`:193-196`); in the counterexample two readings one millisecond apart go
   backwards.  `ReadingsFollowHost` says what does hold: readings follow the host
   unless a multiple of the wrap, *counted from the setting*, lies between them.

## 5. Proofs

Each `*Proofs` module extends the module it is about; all constants are
arbitrary within the named assumptions of its module (sizes are positive,
`GeometryAssumption`, `EntryAssumption`, `ClockAssumption`).

**CanTxLogsProofs.**  `Inv` is `TypeOK /\ RingInv`: the write position is `count`
slots after the read position modulo the size, and the slots between them hold
frames.  `TypeOK` alone is not inductive for the queue view: without `RingInv` a
pop could answer an unwritten slot.  The arithmetic of the ring is in four lemmas
on `After`; push, pop and clear are then one lemma each on rings, and on the
sequences `Contents`.  `LogsAlwaysAgree` uses `Inv` and that both rings receive every
push.  `Refinement` proves `Spec => ImplementsFifo`: a push to a full ring is an
append to the tail of the queue.

**CanRxRegistryProofs.**  `IInv` adds `ScanInv` to types, no duplicates and "used
slots first": the slots called so far are exactly the matching ones among those
scanned.  It is inductive only because a registration made by a callback takes
the first *free* slot, and `UsedSlotsFirst` puts every free slot behind the used
slot the callback runs at.  `Refinement` proves `Spec => ImplementsSubscriptions`;
that the table is full exactly when it holds `RegMax` subscriptions is a
cardinality argument that needs the absence of duplicates.  `DumpTellsAll` rests on
"used slots first" too: the used slots are those below their number, so that the k-th
registration is in slot k and a dump of the first slots leaves none out.
`DumpTellsFirst` is what this means for a dump that is too short for the table (lemma
`DumpFirst`): the registrations made first, each once.  `EachFrameToItsSubscribers` reads
the refinement at the end of an injection: the callbacks that ran are those of the
subscriptions that accept the frame, among all that exist *then*.

**NvmBackendProofs.**  `IInv` is `TypeOK` and four parts, three of which describe calls
cut off in the middle: `LoadInv` (what a running load has written is the mirror),
`CallInv` (a running call has withdrawn what was acknowledged in its range; the mirror
holds the bytes it stored, the file those persisted) and `FlashInv` (the mirror never
has a bit the file lacks, except where an erase failed).  From these follow, also when
reads of the file may fail, `TypeCorrect`, `OnlyRequested`, `FlashRule` and `OnePage`, the
last with a lemma on division (`SamePage`).  The fourth part, `FileInv`, is
`AckedBytesOnFile`, `MirrorHoldsAcked` and `TruncateInv` (a load truncates only a short
file, while nothing is acknowledged) under `ReadFaults = FALSE`, and so are the three
theorems that follow from it, `Durable`, `MirrorCorrect` and `ImageKept`: finding 1 shows
the last one false without that hypothesis.

**RtcProofs.**  `IInv` adds to the types that the base tick is the tick of the
instant of the last setting (`SinceInv`) and, of a setter between its halves, that it
runs on a started clock, what it has computed from what the clock showed, and how
much the clock can have moved on since (`CallInv`).  `Tracks` then is the lemma that the wrapped
difference of two wrapped instants less than a wrap apart is the time between
them, for every tick width.  `Keeps` follows from `CallInv`: the quotient and the
remainder by the length of a day are what the setter put together.  For `FollowsHost`
`ObsInv` adds what the kept readings are: of this setting, in order, and of what the clock
showed at their instants (`Shown`).  Two instants with the same quotient by the wrap
differ as their remainders do (`ShownApart`), and dropping parts of a second from both
changes the difference by one second at most (`SecondsSplit`).  `DayNumberNat`
carries the types: a date that `ValidDate` accepts is not before the first of January
2000, from the day counts of the years, which grow by at least 365.
`CalendarsAgree` needs no invariant beyond the types; it is arithmetic.  Years are
counted from March and days within the cycle of 400 years, of which the dates of the
simulator lie in two pieces: the last winter (January and February 2000) and the first
century.  There `FirstCentury` and `CenturyRest` show that the division that finds the
year of a day is the inverse of the one that counts the days of a year, `MonthOfDay` and
`DayOfMonth` the same for months.  `DateKept` puts them together from date to day,
`DayValid` from day to date.

**FastTimerProofs.**  `IInv` adds `LoopInv` to types and `NoPeriodLost`: the time that
went by since the loop looked at the tick is part of the time owed.  It is needed
for `FiresWhenDue`, because the loop compares with its old reading `now`, and for the
types: a call that is due by that reading leaves `owed` above zero.  `LeftInv` compares the
two histories: `left` is never more than `owed`, and the same when the period is a number
of whole milliseconds; a call that is due by the code's reckoning is then also due by the
time of the host, which is what `OnTime` says.  Three lemmas
carry the arithmetic of the tick, for every modulus: the difference of two ticks
moves by `d` when its first hand moves by `d` (`MoveFirst`) or its second by `-d`
(`MoveSecond`), and differences add up (`Between`).

**PulseEngineProofs.**  `IInv` is `TypeOK`, `NoStaleCredit`, `AngleOfPosition`,
`ClockInv` (the step in progress accounts for no more time than went by between the last
two readings of the tick), `TrainInv`, `TickInv` and `PaceInv`.  `NeverEarly` alone is
not inductive: it speaks of whole pulses and of the present, while a step credits its
outputs one after the other with an interval that is already over.  `TrainInv` therefore
counts what was `Spent`, the pulses emitted *and* the credit carried along, against the
time up to which the output was `Credited`, which for an output the step has still to
reach is the reading before the last.  A train that a callback starts on such an output
is credited with an interval that began before the train; the invariant holds because
the history `train.since` is that earlier reading.  `PaceInv` is the bound from below,
for `NeverLate`: what was spent is at least what the lowest frequency is worth over the
time credited.  It needs that the step in progress accounts for *all* the time between
the readings where the tick tells it (`TickInv`, from `ExactDifference`: modulo the
tick, a difference smaller than the tick is exact), and that an interval the tick does
not tell is known as such before its credit is missing (`Due`). `PaceCredit` shows that
a step puts the whole interval into pulses or into the fraction that stays;
`NoStaleCredit` turns the bound into less than one pulse.  Products of variables are
kept in four lemmas (`ProductMonotonic`, `WholePulses`, `LaterBound`, `CreditBound`).
`KeepsCourse` is an action property: `EmitCourse` shows that a step moves an encoder by
as many pulses as it takes off the train.

**CommandServerProofs.**  `IInv` is `Places` (where the program is, how far the step and the
socket are filled) and `Frames`: of every reader, the frames it got and those that wait
for it, one sequence after the other, have growing numbers, and with those it lost they
are all that were sent.  `GrowingPop` and `GrowingAppend` say that taking frames from the
head of one sequence to the end of the other, dropping some on the way, and adding a
new frame at the end keep this.  A burst reads its size from the command, so that the
proof needs a fact about the table of branches: a command that reaches the branch of a
burst has a number (`BurstNumber`, from the least index that `SelectInSeq` returns).
`OwnBranchAlways` is about the order of the chain.  A branch that reads numbers compares the
whole name, so that it takes no command of another name; one that does not accepts every
name that begins with its own, and `LongerFirst` shows that it stands behind each branch
whose name it could take.  `OfferedHasBranch` finds a branch of its own name for every
command on offer, hence the first branch that accepts has that name too.
`ReachesOwnBranch` states it for more than TLC enumerates: for any numbers, and any
more of them than the command needs.

**BoardProofs.**  `LineInv` describes the stack of calls of `Transmit`: only the innermost can be
before its callback (`OuterWait`), and then it has the last message and the callback
that was due at its start is still the one it will find (`InnerIsLast`: nothing runs between
the two, which is why reconfiguring the line from a callback cannot confuse it); calls
in their callback have told it (`CallersTold`), and a call that has returned has
(`Returned`).  `ToldInOrder` follows.  `BoardImplemented` is the refinement of `SignalBoard`,
one lemma per kind of request (`SetStep`, `GetStep`, `TriggerStep`, `AttachStep`), each with
the case that the signal exists, by the limit of the code and by the number of signals of
the abstract board (`CountIsSize`), and the case that it is refused; everything the serial
lines do is a stutter.  That a command does what its name asks for joins the table of
branches and the documented names: the branch that serves a command has its very name and
has read enough numbers (`BranchSays`), no two names are the same, so that the name means
one request only (`DifferentNames`, `Means`), and a text that reaches no branch has none of
the names (`NoBranchSaysNothing`, because each documented name has a branch).  That a value
fits its array uses the same facts.

**Why loops end.**  Liveness under fairness is beyond the prover, but what it rests on is
not: three theorems bound what a loop has left by a number that its steps take from and
that nobody else adds to.  `ScanGetsShorter` (injection): callbacks that register again
do not lengthen the scan.  `TurnGetsShorter` (main loop): neither clients nor signals
nor replies that come back put off the end of a turn, and so the application's part of it
and the look at the flag.  `CatchesUp` (fast timer): what the timer is behind, less what the
turn has taken, changes by turn minus period at a call and never grows otherwise; with
turns as long as the period it need not fall, the exception `CyclicEnds` makes.

Only model-checked: the liveness properties `InjectionEnds`, `CyclicEnds`,
`ApplicationRuns`, `CommandsServed` and `SignalEnds` themselves, which need fairness and
`ENABLED`.  `FullImageKept` with read faults and `NoBackwards` are false.

## 6. Not modelled

- The text of commands and replies, options, sockets, logging; a write of the line
  feed behind a reply buffer that is full.
- Values that are stored by one setter and returned by one getter of the same
  component (module states, node configuration), and configuration functions that
  store nothing.
- NULL pointers for results, which every function refuses before it changes anything.
  NULL *callbacks* are accepted, by the fast timer, events, ends of trains, serial lines and
  CAN registrations, and are modelled.
- The FMK_NVM core and the application: their code is not in the repository;
  the modules let them make any call, in any order, that the interfaces allow.
- Rounding of floating-point numbers; shifts of the local time (daylight saving).
- Loss of data in the operating system's file cache (the code flushes but does not
  sync; a kill of the process, which is what is modelled, loses nothing flushed).

## 7. What is left

All invariants and all safety properties of steps that the passing runs check are proved,
and so are the refinements and the termination arguments behind the liveness properties.
Left to TLC is liveness itself, on the instances of section 4.
