---------------------------- MODULE SignalBoard ----------------------------
(***************************************************************************)
(* What the simulated inputs and outputs promise for each request: one     *)
(* cell per signal that clients and the application share, and at most one *)
(* handler per event.  Clients write every cell, as the world around the   *)
(* board; the application writes outputs only.  A request is told from     *)
(* outside, and decides which cell or event is touched, which answer it    *)
(* gets and whether it is refused; the client that raises an event is      *)
(* answered when the handler that was attached has returned.               *)
(***************************************************************************)
EXTENDS Integers

CONSTANTS
  Count,         \* the number of signals of each kind
  Output,        \* the kinds the application drives
  Width,         \* a duty cycle keeps its rest modulo Width
  EvntCount,     \* the number of events
  KnownEdge,     \* the edges there are
  Handler,       \* handlers the application attaches
  NoHandler,     \* no handler is attached, or none runs
  Id, Value, Edge   \* the identifiers, values and edges in requests

VARIABLES
  cell,          \* the value of signal <<kind, identifier>>
  handler,       \* the handler a rising edge of an event runs
  runs,          \* the handler that runs
  asked,         \* the last request
  answer         \* what the last call returned, and to whom

vars == <<cell, handler, runs, asked, answer>>

Signal == UNION { {k} \X (0 .. Count[k] - 1) : k \in DOMAIN Count }

Exists(kind, id) == kind \in DOMAIN Count /\ id \in 0 .. Count[kind] - 1

Event == 0 .. EvntCount - 1

Stored(kind, v) == IF kind = "duty" THEN v % Width ELSE v

Answer(to, rc, val) == answer' = [to |-> to, rc |-> rc, val |-> val]

Refuse(who) ==
  Answer(who, "RC_ERROR_PARAM_INVALID", 0) /\ UNCHANGED <<cell, handler, runs>>

Init ==
  /\ cell = [s \in Signal |-> 0]
  /\ handler = [e \in Event |-> NoHandler]
  /\ runs = NoHandler
  /\ asked = <<>>
  /\ answer = [to |-> "client", rc |-> "RC_OK", val |-> 0]

(* Who may call now: while a handler runs, only the application.           *)
MayCall(who) == who = "client" => runs = NoHandler

Set(who, kind, id, v) ==
  /\ asked' = <<who, "set", kind, id, v>>
  /\ MayCall(who)
  /\ who = "application" => kind \in Output
  /\ \/ /\ Exists(kind, id)
        /\ cell' = [cell EXCEPT ![<<kind, id>>] = Stored(kind, v)]
        /\ Answer(who, "RC_OK", 0)
        /\ UNCHANGED <<handler, runs>>
     \/ ~ Exists(kind, id) /\ Refuse(who)

(* Signals of an unknown kind do not exist.                                *)
Get(who, kind, id) ==
  /\ asked' = <<who, "get", kind, id>>
  /\ MayCall(who)
  /\ \/ /\ Exists(kind, id)
        /\ Answer(who, "RC_OK", cell[<<kind, id>>])
        /\ UNCHANGED <<cell, handler, runs>>
     \/ ~ Exists(kind, id) /\ Refuse(who)

(* Only rising edges are raised.                                           *)
Attach(id, edge, h) ==
  /\ asked' = <<"application", "attach", id, edge, h>>
  /\ \/ /\ id \in Event /\ edge \in KnownEdge
        /\ handler' = [handler EXCEPT ![id] = IF edge = "falling" THEN NoHandler ELSE h]
        /\ Answer("application", "RC_OK", 0)
        /\ UNCHANGED <<cell, runs>>
     \/ ~ (id \in Event /\ edge \in KnownEdge) /\ Refuse("application")

Raise(id) ==
  /\ asked' = <<"client", "trigger", id>>
  /\ MayCall("client")
  /\ \/ /\ id \in Event /\ handler[id] # NoHandler
        /\ runs' = handler[id]
        /\ UNCHANGED <<cell, handler, answer>>
     \/ /\ id \in Event /\ handler[id] = NoHandler
        /\ Answer("client", "RC_WARNING_NO_OPERATION", 0)
        /\ UNCHANGED <<cell, handler, runs>>
     \/ id \notin Event /\ Refuse("client")

Return ==
  /\ runs # NoHandler
  /\ runs' = NoHandler
  /\ Answer("client", "RC_OK", 0)
  /\ UNCHANGED <<cell, handler, asked>>

Other ==
  /\ asked' = <<"client", "other">>
  /\ MayCall("client")
  /\ Answer("client", "ERR", 0)
  /\ UNCHANGED <<cell, handler, runs>>

Next ==
  \/ \E id \in Id :
       \/ \E who \in {"client", "application"}, kind \in DOMAIN Count \cup {"unknown"} :
            Get(who, kind, id) \/ \E v \in Value : Set(who, kind, id, v)
       \/ \E edge \in Edge, h \in Handler \cup {NoHandler} : Attach(id, edge, h)
       \/ Raise(id)
  \/ Return \/ Other

Spec == Init /\ [][Next]_vars
=============================================================================
