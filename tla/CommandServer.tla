--------------------------- MODULE CommandServer ---------------------------
(***************************************************************************)
(* The main loop of the simulator and its UDP command server               *)
(* (main_pc_sim.c) with the two CAN transmit logs they drain.  The only    *)
(* thread serves some of the commands that have arrived, steps the         *)
(* runtime, runs the application and sleeps, until a signal has cleared    *)
(* its flag.  Clients send what they like when they like; the replies go   *)
(* out without a look at whether they arrive.  Application code runs in    *)
(* its own turn and in callbacks of the runtime step and of commands.      *)
(*                                                                         *)
(* The logs are the bounded queues of CanTxFifo, which CanTxLogs           *)
(* implements.  The frames are numbered in the order of transmission.      *)
(***************************************************************************)
EXTENDS CommandDispatch

CONSTANTS
  LogMax,        \* capacity of a log
  BurstMax,      \* PCSIM_CAN_BURST_MAX
  ReplyMin,      \* frames that fit in a reply whatever their length
  MaxCmds,       \* PCSIM_MAX_UDP_CMDS_PER_STEP
  Datagram,      \* the commands clients send
  InboxMax,      \* datagrams the socket keeps, further ones are dropped
  MaxFrames      \* bound: frames the application transmits

ASSUME ServerAssumption ==
  /\ LogMax \in Nat \ {0} /\ BurstMax \in Nat \ {0} /\ MaxCmds \in Nat \ {0}
  /\ ReplyMin \in Nat \ {0} /\ InboxMax \in Nat \ {0} /\ MaxFrames \in Nat
  /\ Datagram \subseteq [name : Seq(STRING), args : Seq(Int)]

Reader == {"ihm", "broker"}

VARIABLES
  at,            \* what main is doing
  keepRunning,   \* g_pcSimKeepRunning_s32
  processed,     \* processed_s32 of this server step
  inbox,         \* datagrams that have arrived, oldest first
  bounced,       \* a reply was refused by its receiver (Windows reports it)
  log,           \* [Reader -> Seq(Nat)]: the transmit logs
  sent,          \* frames transmitted so far
  got,           \* history: frames that arrived with replies, per reader
  lost           \* history: how many will never arrive, per reader

vars == <<at, keepRunning, processed, inbox, bounced, log, sent, got,
          lost>>
can == <<log, sent, got, lost>>

Fifo == INSTANCE CanTxFifo
  WITH Frame <- 1 .. MaxFrames, NoFrame <- 0, Log <- Reader,
       pending <- log, ret <- 0

Init ==
  /\ at = "init" /\ keepRunning = TRUE /\ processed = 0
  /\ inbox = <<>> /\ bounced = FALSE
  /\ log = [r \in Reader |-> <<>>] /\ sent = 0
  /\ got = [r \in Reader |-> <<>>] /\ lost = [r \in Reader |-> 0]

----------------------------------------------------------------------------
(* The environment.                                                        *)

ClientSend(c) ==
  /\ at \notin {"init", "ended"}
  /\ Len(inbox) < InboxMax
  /\ inbox' = Append(inbox, c)
  /\ UNCHANGED <<at, keepRunning, processed, bounced, can>>

(* Seeded fault of Signal: a second signal takes the first one back.       *)
SignalToggle ==
  /\ at # "ended"
  /\ keepRunning' = ~ keepRunning
  /\ UNCHANGED <<at, processed, inbox, bounced, can>>

Signal ==
  /\ at # "ended"
  /\ keepRunning' = FALSE
  /\ UNCHANGED <<at, processed, inbox, bounced, can>>

----------------------------------------------------------------------------
(* Application code in a turn or a callback: it may transmit a frame.      *)

NoFrameSent == UNCHANGED can

FrameSent ==
  /\ sent < MaxFrames
  /\ sent' = sent + 1
  /\ log' = [r \in Reader |-> Fifo!Push(log[r], sent + 1)]
  /\ lost' = [r \in Reader |->
                lost[r] + IF Len(log[r]) = LogMax THEN 1 ELSE 0]
  /\ UNCHANGED got

Application == NoFrameSent \/ FrameSent

(* main before its loop.                                                   *)
StartUp ==
  /\ at = "init"
  /\ at' = "top"
  /\ Application
  /\ UNCHANGED <<keepRunning, processed, inbox, bounced>>

StartUpFails ==
  /\ at = "init"
  /\ at' = "ended"
  /\ UNCHANGED <<keepRunning, processed, inbox, bounced, can>>

(* Seeded fault of LoopTop: the count of commands is not reset.            *)
LoopTopNoReset ==
  /\ at = "top" /\ keepRunning
  /\ at' = "server"
  /\ UNCHANGED <<keepRunning, processed, inbox, bounced, can>>

LoopTop ==
  /\ at = "top" /\ keepRunning
  /\ at' = "server" /\ processed' = 0
  /\ UNCHANGED <<keepRunning, inbox, bounced, can>>

(* The socket is closed, what is in it is gone.                            *)
Shutdown ==
  /\ at = "top" /\ ~ keepRunning
  /\ at' = "ended" /\ inbox' = <<>>
  /\ UNCHANGED <<keepRunning, processed, bounced, can>>

----------------------------------------------------------------------------
(* The server step.                                                        *)

(* Seeded fault of Receive: the step has no limit.                         *)
ReceiveNoLimit ==
  /\ at = "server"
  /\ inbox # <<>>
  /\ inbox' = Tail(inbox)
  /\ processed' = processed + 1
  /\ bounced' \in {bounced, TRUE}
  /\ UNCHANGED <<at, keepRunning>>

(* Seeded fault of Receive: commands are not counted.                      *)
ReceiveUncounted ==
  /\ at = "server" /\ processed < MaxCmds
  /\ inbox # <<>>
  /\ inbox' = Tail(inbox)
  /\ bounced' \in {bounced, TRUE}
  /\ UNCHANGED <<at, keepRunning, processed>>

(* A command is taken and answered; the reply may come back as an error.   *)
Receive ==
  /\ at = "server" /\ processed < MaxCmds
  /\ inbox # <<>>
  /\ inbox' = Tail(inbox)
  /\ processed' = processed + 1
  /\ bounced' \in {bounced, TRUE}
  /\ UNCHANGED <<at, keepRunning>>

Command == Head(inbox)

(* The branch of each command clients send, and of the one being served.   *)
Handler == [c \in Datagram |-> BranchOf(c)]
Served == Handler[Command]

Bursts == {<<"POP", "CAN", "TX", "BURST">>, <<"POP", "CAN", "BROKER", "TX", "BURST">>}
Clears == {<<"CLEAR", "CAN", "TX">>, <<"CLEAR", "CAN", "BROKER", "TX">>}
Injects == {<<"INJECT", "CAN">>, <<"INJECT", "CAN", "EX">>}

ReaderOf(name) == IF Contains(name, "BROKER") THEN "broker" ELSE "ihm"

(* The first n frames leave the log of r; the first k of them are whole in *)
(* the reply, which arrives or not.                                        *)
Pop(r, n, k, arrives) ==
  LET shown == IF arrives THEN k ELSE 0
  IN  /\ log' = [log EXCEPT ![r] = SubSeq(@, n + 1, Len(@))]
      /\ got' = [got EXCEPT ![r] = @ \o SubSeq(log[r], 1, shown)]
      /\ lost' = [lost EXCEPT ![r] = @ + (n - shown)]
      /\ UNCHANGED sent

(* Seeded fault of PopBurst: the limit is looked at after the pop.         *)
PopBurstOneMore(fit, arrives) ==
  /\ Receive /\ Served \in Bursts
  /\ LET r    == ReaderOf(Served)
         asks == Command.args[1]
         most == IF asks < 1 THEN 1 ELSE IF asks > BurstMax THEN BurstMax ELSE asks
         n    == IF most < Len(log[r]) THEN most ELSE Len(log[r])
         p    == IF most < Len(log[r]) THEN most + 1 ELSE Len(log[r])
     IN  /\ log' = [log EXCEPT ![r] = SubSeq(@, p + 1, Len(@))]
         /\ got' = [got EXCEPT ![r] = @ \o SubSeq(log[r], 1, IF arrives THEN n ELSE 0)]
         /\ lost' = [lost EXCEPT ![r] = @ + (IF arrives THEN 0 ELSE n)]
         /\ UNCHANGED sent

(* A burst takes as many frames as it is asked for, at least one, until    *)
(* the log is empty or the reply is full.  How many fit depends on their   *)
(* length; the one that fills the reply is popped too and cut.             *)
PopBurst(fit, arrives) ==
  /\ Receive /\ Served \in Bursts
  /\ LET r    == ReaderOf(Served)
         asks == Command.args[1]
         most == IF asks < 1 THEN 1 ELSE IF asks > BurstMax THEN BurstMax ELSE asks
         n    == IF most < Len(log[r]) THEN most ELSE Len(log[r])
     IN  IF fit < n THEN Pop(r, fit + 1, fit, arrives) ELSE Pop(r, n, n, arrives)

PopOne(arrives) ==
  /\ Receive /\ Served = <<"POP", "CAN", "TX">>
  /\ IF log["ihm"] = <<>> THEN UNCHANGED can ELSE Pop("ihm", 1, 1, arrives)

ClearLog ==
  /\ Receive /\ Served \in Clears
  /\ Pop(ReaderOf(Served), Len(log[ReaderOf(Served)]), 0, FALSE)

(* The callbacks of the registrations that accept the frame run.           *)
InjectCan ==
  /\ Receive /\ Served \in Injects
  /\ IF ParsesCan(Command) THEN Application ELSE UNCHANGED can

TriggerEvent ==
  /\ Receive /\ Served = <<"TRIG", "IN", "EVNT">>
  /\ Application

(* Every other command, or none at all, leaves this state alone.           *)
OtherCommand ==
  /\ Receive
  /\ Served \notin Bursts \cup Clears \cup Injects
                     \cup {<<"POP", "CAN", "TX">>, <<"TRIG", "IN", "EVNT">>}
  /\ UNCHANGED can

Serve ==
  \/ \E arrives \in BOOLEAN :
       PopOne(arrives) \/ \E fit \in ReplyMin .. BurstMax : PopBurst(fit, arrives)
  \/ ClearLog \/ InjectCan \/ TriggerEvent \/ OtherCommand

(* recvfrom would block, or the limit is reached.                          *)
ServerStepEnd ==
  /\ at = "server"
  /\ inbox = <<>> \/ processed = MaxCmds
  /\ at' = "runtime"
  /\ UNCHANGED <<keepRunning, processed, inbox, bounced, can>>

(* recvfrom reports the reply that came back: the step ends as well.       *)
ReceiveFails ==
  /\ at = "server" /\ processed < MaxCmds
  /\ bounced /\ bounced' = FALSE
  /\ at' = "runtime"
  /\ UNCHANGED <<keepRunning, processed, inbox, can>>

----------------------------------------------------------------------------
(* The rest of a turn of the loop.                                         *)

RuntimeStep ==
  /\ at = "runtime" /\ at' = "application"
  /\ Application
  /\ UNCHANGED <<keepRunning, processed, inbox, bounced>>

AppCyclic ==
  /\ at = "application" /\ at' = "sleep"
  /\ Application
  /\ UNCHANGED <<keepRunning, processed, inbox, bounced>>

Sleep ==
  /\ at = "sleep" /\ at' = "top"
  /\ UNCHANGED <<keepRunning, processed, inbox, bounced, can>>

Main ==
  \/ StartUp \/ LoopTop \/ Shutdown
  \/ Serve \/ ReceiveFails \/ ServerStepEnd
  \/ RuntimeStep \/ AppCyclic \/ Sleep

Next ==
  \/ Main \/ StartUpFails
  \/ Signal
  \/ \E c \in Datagram : ClientSend(c)

Spec == Init /\ [][Next]_vars

(* The thread goes on and application code returns; of clients, signals    *)
(* and the network nothing is assumed.                                     *)
FairSpec == Spec /\ WF_vars(Main)

----------------------------------------------------------------------------
(* Properties.                                                             *)

(* Types; a step of the server never serves more than its limit.           *)
TypeOK ==
  /\ at \in {"init", "top", "server", "runtime", "application", "sleep", "ended"}
  /\ keepRunning \in BOOLEAN
  /\ processed \in 0 .. MaxCmds /\ bounced \in BOOLEAN
  /\ inbox \in Seq(Datagram) /\ Len(inbox) <= InboxMax
  /\ sent \in 0 .. MaxFrames
  /\ log \in [Reader -> Seq(1 .. sent)] /\ \A r \in Reader : Len(log[r]) <= LogMax
  /\ got \in [Reader -> Seq(1 .. sent)]
  /\ lost \in [Reader -> 0 .. sent]

(* However clients repeat, mix and time their commands, a reader gets no   *)
(* frame twice and none out of order, and every frame that it does not get *)
(* and that does not wait in its log was overwritten or cleared, or went   *)
(* with a reply that was cut or did not arrive.                            *)
EachFrameOnce ==
  \A r \in Reader :
    /\ \A i, j \in 1 .. Len(got[r] \o log[r]) :
         i < j => (got[r] \o log[r])[i] < (got[r] \o log[r])[j]
    /\ Len(got[r]) + Len(log[r]) + lost[r] = sent

(* In the program that starts every command that HELP or the README offers *)
(* reaches the branch of its own name, although names begin with other     *)
(* names and the chain takes the first branch that accepts.                *)
OwnBranch == at = "init" => \A c \in Documented : BranchOf(c) = c.name

(* Clients that never stop sending do not keep the application from its    *)
(* turns; only the end of the program does.                                *)
ApplicationRuns == []<>(at = "application") \/ <>(at = "ended")

(* While commands wait the server goes on taking them, turn after turn,    *)
(* although a step stops at its limit and at replies that come back.       *)
CommandsServed ==
  []<><<Serve>>_vars \/ []<>(inbox = <<>>) \/ <>(at = "ended")

(* A signal ends the program whatever it interrupts and whatever clients   *)
(* send.                                                                   *)
SignalEnds == ~ keepRunning ~> at = "ended"
=============================================================================
