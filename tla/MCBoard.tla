------------------------------ MODULE MCBoard ------------------------------
(* Instance of Board for TLC: one signal of each kind but two digital      *)
(* outputs and no input frequency (one slot remains), identifiers beyond   *)
(* each of them, duty cycles beyond their width, a text with too few       *)
(* numbers.                                                                *)
EXTENDS Board

Text(name, args) == [name |-> name, args |-> args]

Kinds == {<<"ANA">>, <<"PWM">>, <<"IN", "DIG">>, <<"OUT", "DIG">>, <<"IN", "FREQ">>}

SomeDatagrams ==
  { Text(<<"SET">> \o k, <<i, v>>) : k \in Kinds, i \in 0 .. 1, v \in 0 .. 1 }
    \cup { Text(<<"GET">> \o k, <<i>>) : k \in Kinds, i \in 0 .. 1 }
    \cup { Text(<<"TRIG", "IN", "EVNT">>, <<i>>) : i \in 0 .. 1 }
    \cup { Text(<<"SET", "OUT", "DIG">>, <<2, 1>>), Text(<<"GET", "OUT", "DIG">>, <<2>>),
           Text(<<"SET", "PWM">>, <<0, 3>>), Text(<<"SET", "PWM">>, <<0>>) }

(* No action reads the last request and its answer.                        *)
View == <<sig, evnt, inCall, serial>>
=============================================================================
