----------------------------- MODULE IoSignals -----------------------------
(***************************************************************************)
(* The simulated inputs and outputs (pc_sim_fmk_io.c) between the commands *)
(* of clients (main_pc_sim.c) and the application: analog inputs, digital  *)
(* inputs and outputs, input frequencies, PWM duty cycles, and input       *)
(* events with a callback.  The frequency and pulses of a PWM and the      *)
(* encoders are in PulseEngine.                                            *)
(*                                                                         *)
(* The callback of an event runs inside the command that triggers it and   *)
(* may call what the application calls, also to configure its own event.   *)
(***************************************************************************)
EXTENDS CommandDispatch

CONSTANTS
  AnaNb, InDigNb, OutDigNb, InFreqNb, PwmNb, EvntNb,   \* FMKIO_..._NB
  DutyMod,       \* a duty cycle is stored modulo DutyMod (16 bits)
  Trigger,       \* edges an event may be configured for
  Callback,      \* event callbacks of the application
  Null,          \* no callback
  Number,        \* values the application stores
  Id, Edge,      \* identifiers and edges the application passes
  Datagram       \* the commands clients send

ASSUME SignalAssumption ==
  /\ {AnaNb, InDigNb, OutDigNb, InFreqNb, PwmNb, EvntNb} \subseteq Nat
  /\ DutyMod \in Nat \ {0} /\ Null \notin Callback
  /\ {"rising", "falling"} \subseteq Trigger
  /\ Number \subseteq Int /\ Datagram \subseteq [name : Seq(STRING), args : Seq(Int)]

VARIABLES
  sig,           \* the arrays of values, by kind of signal
  evnt,          \* the configuration of each event
  inCall,        \* the callback that runs, Null when none does
  answer,        \* what the last call returned, and to whom
  asked          \* history: the last request, by its own words

vars == <<sig, evnt, inCall, answer, asked>>

(* PCSIM_DIM_OR_ONE: there is a slot even when there is no such signal.    *)
AtLeastOne(n) == IF n > 0 THEN n ELSE 1

Slots(n) == 0 .. n - 1

(* The length of each array.                                               *)
Size == [ana |-> AnaNb, inDig |-> InDigNb, outDig |-> OutDigNb,
         inFreq |-> AtLeastOne(InFreqNb), duty |-> PwmNb]

(* What an identifier is compared with before an array is touched.         *)
Limit == [ana |-> AnaNb, inDig |-> InDigNb, outDig |-> OutDigNb,
          inFreq |-> AtLeastOne(InFreqNb), duty |-> PwmNb]

Init ==
  /\ sig = [k \in DOMAIN Size |-> [i \in Slots(Size[k]) |-> 0]]
  /\ evnt = [i \in Slots(AtLeastOne(EvntNb)) |->
               [configured |-> FALSE, trigger |-> "rising", callback |-> Null]]
  /\ inCall = Null
  /\ answer = [to |-> "client", rc |-> "RC_OK", val |-> 0]
  /\ asked = <<>>

Answer(to, rc, val) == answer' = [to |-> to, rc |-> rc, val |-> val]

----------------------------------------------------------------------------
(* One access to an array, and the functions that make it.                 *)

Refused(who) ==
  /\ Answer(who, "RC_ERROR_PARAM_INVALID", 0)
  /\ UNCHANGED <<sig, evnt, inCall>>

Set(who, kind, id, v) ==
  IF id \in Slots(Limit[kind])
  THEN /\ sig' = [sig EXCEPT ![kind][id] = v]
       /\ Answer(who, "RC_OK", 0)
       /\ UNCHANGED <<evnt, inCall>>
  ELSE Refused(who)

Get(who, kind, id) ==
  IF id \in Slots(Limit[kind])
  THEN /\ Answer(who, "RC_OK", sig[kind][id])
       /\ UNCHANGED <<sig, evnt, inCall>>
  ELSE Refused(who)

SetAnalogInput(id, v) == Set("client", "ana", id, v)
GetAnalogInput(id) == Get("client", "ana", id)
Get_InAnaSigValue(id) == Get("application", "ana", id)

SetInputDigital(id, v) == Set("client", "inDig", id, v)
GetInputDigital(id) == Get("client", "inDig", id)

(* Seeded fault of Get_InDigSigValue: it reads the outputs.                *)
Get_InDigSigValueOfOutput(id) == Get("application", "outDig", id)

Get_InDigSigValue(id) == Get("application", "inDig", id)

SetInputFrequency(id, v) == Set("client", "inFreq", id, v)
GetInputFrequency(id) == Get("client", "inFreq", id)

(* The kind of measurement must be a known one.                            *)
Get_InFreqSigValue(id, known) ==
  IF known THEN Get("application", "inFreq", id) ELSE Refused("application")

(* Seeded fault of SetPwmDuty: the number keeps its width.                 *)
SetPwmDutyAsGiven(who, id, v) == Set(who, "duty", id, v)

(* The command's number becomes a t_uint16.                                *)
SetPwmDuty(who, id, v) == Set(who, "duty", id, v % DutyMod)
GetPwmDuty(who, id) == Get(who, "duty", id)

Set_OutDigSigValue(who, id, v) == Set(who, "outDig", id, v)
Get_OutDigSigValue(who, id) == Get(who, "outDig", id)

----------------------------------------------------------------------------
(* Events.                                                                 *)

Set_InEvntSigCfg(id, trigger, cb) ==
  IF id \in Slots(EvntNb) /\ trigger \in Trigger
  THEN /\ evnt' = [evnt EXCEPT ![id] =
                     [configured |-> TRUE, trigger |-> trigger, callback |-> cb]]
       /\ Answer("application", "RC_OK", 0)
       /\ UNCHANGED <<sig, inCall>>
  ELSE Refused("application")

(* A trigger stands for a rising edge.                                     *)
Live(e) == e.configured /\ e.trigger # "falling" /\ e.callback # Null

TriggerInputEvent(id) ==
  IF id \notin Slots(EvntNb) THEN Refused("client")
  ELSE /\ IF Live(evnt[id])
          THEN inCall' = evnt[id].callback /\ UNCHANGED answer
          ELSE Answer("client", "RC_WARNING_NO_OPERATION", 0) /\ UNCHANGED inCall
       /\ UNCHANGED <<sig, evnt>>

EvntReturn ==
  /\ inCall # Null
  /\ inCall' = Null
  /\ Answer("client", "RC_OK", 0)
  /\ UNCHANGED <<sig, evnt, asked>>

----------------------------------------------------------------------------
(* History: what is asked, said with the documented name of a command or   *)
(* the name of a function, whatever branch or array then serves it.        *)

SetName == [ana |-> <<"SET", "ANA">>, duty |-> <<"SET", "PWM">>,
            inDig |-> <<"SET", "IN", "DIG">>, outDig |-> <<"SET", "OUT", "DIG">>,
            inFreq |-> <<"SET", "IN", "FREQ">>]

GetName == [ana |-> <<"GET", "ANA">>, duty |-> <<"GET", "PWM">>,
            inDig |-> <<"GET", "IN", "DIG">>, outDig |-> <<"GET", "OUT", "DIG">>,
            inFreq |-> <<"GET", "IN", "FREQ">>]

TriggerName == <<"TRIG", "IN", "EVNT">>

AsksSet(who, kind, id, v) == asked' = <<who, "set", kind, id, v>>
AsksGet(who, kind, id) == asked' = <<who, "get", kind, id>>

Says(c, name, n) == c.name = name /\ Len(c.args) >= n

(* A text that has none of the names, or too few numbers, asks nothing.    *)
Meaning(c) ==
  \/ \E k \in DOMAIN SetName :
       Says(c, SetName[k], 2) /\ AsksSet("client", k, c.args[1], c.args[2])
  \/ \E k \in DOMAIN GetName :
       Says(c, GetName[k], 1) /\ AsksGet("client", k, c.args[1])
  \/ Says(c, TriggerName, 1) /\ asked' = <<"client", "trigger", c.args[1]>>
  \/ /\ \A k \in DOMAIN SetName : ~ Says(c, SetName[k], 2)
     /\ \A k \in DOMAIN GetName : ~ Says(c, GetName[k], 1)
     /\ ~ Says(c, TriggerName, 1)
     /\ asked' = <<"client", "other">>

----------------------------------------------------------------------------
(* Commands.                                                               *)

Branch == [c \in Datagram |-> BranchOf(c)]

Call(b, args) ==
  \/ b = <<"SET", "ANA">> /\ SetAnalogInput(args[1], args[2])
  \/ b = <<"GET", "ANA">> /\ GetAnalogInput(args[1])
  \/ b = <<"SET", "PWM">> /\ SetPwmDuty("client", args[1], args[2])
  \/ b = <<"GET", "PWM">> /\ GetPwmDuty("client", args[1])
  \/ b = <<"SET", "IN", "DIG">> /\ SetInputDigital(args[1], args[2])
  \/ b = <<"GET", "IN", "DIG">> /\ GetInputDigital(args[1])
  \/ b = <<"TRIG", "IN", "EVNT">> /\ TriggerInputEvent(args[1])
  \/ b = <<"SET", "OUT", "DIG">> /\ Set_OutDigSigValue("client", args[1], args[2])
  \/ b = <<"GET", "OUT", "DIG">> /\ Get_OutDigSigValue("client", args[1])
  \/ b = <<"SET", "IN", "FREQ">> /\ SetInputFrequency(args[1], args[2])
  \/ b = <<"GET", "IN", "FREQ">> /\ GetInputFrequency(args[1])
  \/ /\ b = <<>>
     /\ Answer("client", "ERR", 0)
     /\ UNCHANGED <<sig, evnt, inCall>>

Serve ==
  inCall = Null /\ \E c \in Datagram : Meaning(c) /\ Call(Branch[c], c.args)

----------------------------------------------------------------------------
(* Calls of the application, in its turn or in a callback.                 *)

AppCall ==
  \E id \in Id :
    \/ Get_InAnaSigValue(id) /\ AsksGet("application", "ana", id)
    \/ Get_InDigSigValue(id) /\ AsksGet("application", "inDig", id)
    \/ GetPwmDuty("application", id) /\ AsksGet("application", "duty", id)
    \/ Get_OutDigSigValue("application", id) /\ AsksGet("application", "outDig", id)
    \/ Get_InFreqSigValue(id, TRUE) /\ AsksGet("application", "inFreq", id)
    \/ Get_InFreqSigValue(id, FALSE) /\ AsksGet("application", "unknown", id)
    \/ \E v \in Number :
         \/ SetPwmDuty("application", id, v) /\ AsksSet("application", "duty", id, v)
         \/ /\ Set_OutDigSigValue("application", id, v)
            /\ AsksSet("application", "outDig", id, v)
    \/ \E t \in Edge, cb \in Callback \cup {Null} :
         /\ Set_InEvntSigCfg(id, t, cb)
         /\ asked' = <<"application", "attach", id, t, cb>>

Next == Serve \/ AppCall \/ EvntReturn

Spec == Init /\ [][Next]_vars

----------------------------------------------------------------------------
(* Properties.                                                             *)

(* Types: a duty cycle fits its 16 bits, and what runs is one of the       *)
(* callbacks of the application.                                           *)
TypeOK ==
  /\ DOMAIN sig = DOMAIN Size
  /\ \A k \in DOMAIN Size : sig[k] \in [Slots(Size[k]) -> Int]
  /\ \A i \in Slots(PwmNb) : sig["duty"][i] \in 0 .. DutyMod - 1
  /\ evnt \in [Slots(AtLeastOne(EvntNb)) ->
                [configured : BOOLEAN, trigger : Trigger, callback : Callback \cup {Null}]]
  /\ inCall \in Callback \cup {Null}
=============================================================================
