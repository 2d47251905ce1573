------------------------------- MODULE Board -------------------------------
(***************************************************************************)
(* The signals and the serial lines of the simulated board under the one   *)
(* application that uses both: a command may trigger an event whose        *)
(* callback transmits, the callback of that transmission may read and      *)
(* write signals and transmit again, and only when all of them have        *)
(* returned does the client get its answer and the next command its turn.  *)
(***************************************************************************)
EXTENDS IoSignals

CONSTANTS Line, MaxMsgs, MaxDepth

ASSUME LineAssumption == MaxMsgs \in Nat /\ MaxDepth \in Nat \ {0}

VARIABLES txCb, calls, sent, out, told, due

serial == <<txCb, calls, sent, out, told, due>>

Srl == INSTANCE SerialLine

BoardInit == Init /\ Srl!Init

(* A command starts, and a callback of an event returns, outside Transmit. *)
BoardServe == Srl!Idle /\ Serve /\ UNCHANGED serial

BoardEvntReturn == Srl!Idle /\ EvntReturn /\ UNCHANGED serial

BoardAppCall == Srl!AppRuns /\ AppCall /\ UNCHANGED serial

BoardSerial == Srl!Next /\ UNCHANGED vars

BoardNext == BoardServe \/ BoardEvntReturn \/ BoardAppCall \/ BoardSerial

BoardSpec == BoardInit /\ [][BoardNext]_<<vars, serial>>

----------------------------------------------------------------------------
(* Properties.                                                             *)

ToldInOrder == Srl!ToldInOrder

Signals == UNION { {k} \X Slots(Size[k]) : k \in DOMAIN Size }

(* The numbers that commands carry.                                        *)
Said == UNION { {c.args[i] : i \in 1 .. Len(c.args)} : c \in Datagram }

Abstract == INSTANCE SignalBoard
  WITH Count <- [ana |-> AnaNb, inDig |-> InDigNb, outDig |-> OutDigNb,
                 duty |-> PwmNb, inFreq |-> IF InFreqNb = 0 THEN 1 ELSE InFreqNb],
       Output <- {"outDig", "duty"}, Width <- DutyMod, EvntCount <- EvntNb,
       KnownEdge <- Trigger, Handler <- Callback, NoHandler <- Null,
       Id <- Id \cup Said, Value <- Number \cup Said,
       cell <- [s \in Signals |-> sig[s[1]][s[2]]],
       handler <- [e \in Slots(EvntNb) |->
                     IF Live(evnt[e]) THEN evnt[e].callback ELSE Null],
       runs <- inCall

(* Each request, told by the documented name of the command or the name of *)
(* the function, does to the signals what it asks for and nothing else:    *)
(* the branches, limits and arrays behind it store a value in the signal   *)
(* it names and return what was last stored there, refuse an identifier    *)
(* without a signal and leave no trace, keep inputs from the application,  *)
(* and run the callback that is attached to the event that is triggered,   *)
(* if it is not for falling edges, before the client is answered.          *)
ImplementsBoard == Abstract!Spec
=============================================================================
