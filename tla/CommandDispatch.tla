-------------------------- MODULE CommandDispatch --------------------------
(***************************************************************************)
(* How a command that came over UDP finds its handler (s_processCommand of *)
(* main_pc_sim.c): a chain of comparisons, the first that holds decides.   *)
(* A comparison with strncmp accepts every text that begins with the name, *)
(* one with sscanf a text with exactly that name and enough numbers.       *)
(*                                                                         *)
(* A command is the words of its name (those between underscores) and the  *)
(* numbers that can be read after it.                                      *)
(***************************************************************************)
EXTENDS Integers, Sequences, SequencesExt

(* A comparison that asks for no number is a strncmp.                      *)
Branches == <<
  [name |-> <<"PING">>, numbers |-> 0],
  [name |-> <<"SET", "ANA">>, numbers |-> 2],
  [name |-> <<"GET", "ANA">>, numbers |-> 1],
  [name |-> <<"SET", "PWM">>, numbers |-> 2],
  [name |-> <<"GET", "PWM">>, numbers |-> 1],
  [name |-> <<"SET", "PWM", "FREQ">>, numbers |-> 2],
  [name |-> <<"GET", "PWM", "FREQ">>, numbers |-> 1],
  [name |-> <<"SET", "PWM", "PULSES">>, numbers |-> 2],
  [name |-> <<"GET", "PWM", "PULSES">>, numbers |-> 1],
  [name |-> <<"SET", "IN", "DIG">>, numbers |-> 2],
  [name |-> <<"GET", "IN", "DIG">>, numbers |-> 1],
  [name |-> <<"TRIG", "IN", "EVNT">>, numbers |-> 1],
  [name |-> <<"SET", "OUT", "DIG">>, numbers |-> 2],
  [name |-> <<"GET", "OUT", "DIG">>, numbers |-> 1],
  [name |-> <<"SET", "IN", "FREQ">>, numbers |-> 2],
  [name |-> <<"GET", "IN", "FREQ">>, numbers |-> 1],
  [name |-> <<"SET", "ENC", "POS">>, numbers |-> 3],
  [name |-> <<"GET", "ENC", "POS">>, numbers |-> 1],
  [name |-> <<"SET", "ENC", "SPEED">>, numbers |-> 2],
  [name |-> <<"SET", "ENC", "MAP">>, numbers |-> 4],
  [name |-> <<"SET", "ENC", "MAP">>, numbers |-> 3],
  [name |-> <<"GET", "ENC", "SPEED">>, numbers |-> 1],
  [name |-> <<"INJECT", "CAN", "EX">>, numbers |-> 0],
  [name |-> <<"INJECT", "CAN">>, numbers |-> 0],
  [name |-> <<"GET", "ALL">>, numbers |-> 0],
  [name |-> <<"GET", "CAN", "TX", "COUNT">>, numbers |-> 0],
  [name |-> <<"GET", "CAN", "BROKER", "TX", "COUNT">>, numbers |-> 0],
  [name |-> <<"GET", "CAN", "RX", "REG", "COUNT">>, numbers |-> 0],
  [name |-> <<"DUMP", "CAN", "RX", "REG", "BURST">>, numbers |-> 1],
  [name |-> <<"POP", "CAN", "TX", "BURST">>, numbers |-> 1],
  [name |-> <<"POP", "CAN", "BROKER", "TX", "BURST">>, numbers |-> 1],
  [name |-> <<"POP", "CAN", "TX">>, numbers |-> 0],
  [name |-> <<"CLEAR", "CAN", "TX">>, numbers |-> 0],
  [name |-> <<"CLEAR", "CAN", "BROKER", "TX">>, numbers |-> 0],
  [name |-> <<"HELP">>, numbers |-> 0] >>

(* Seeded fault of Accepts: the name of a sscanf need not end where the    *)
(* name in the text does.                                                  *)
AcceptsPrefix(b, c) ==
  IsPrefix(b.name, c.name) /\ Len(c.args) >= b.numbers

Accepts(b, c) ==
  IF b.numbers = 0 THEN IsPrefix(b.name, c.name)
                   ELSE c.name = b.name /\ Len(c.args) >= b.numbers

(* The name of the branch that serves command c, empty for none.           *)
BranchOf(c) ==
  LET i == SelectInSeq(Branches, LAMBDA b : Accepts(b, c))
  IN  IF i = 0 THEN <<>> ELSE Branches[i].name

(* s_parseCanCmd and s_parseCanCmdEx after the name: node, identifier, for *)
(* the second an extended flag, the length and as many bytes.              *)
ParsesCan(c) ==
  LET ext == BranchOf(c) = <<"INJECT", "CAN", "EX">>
      len == IF ext THEN 4 ELSE 3
  IN  /\ Len(c.args) >= len
      /\ ext => c.args[3] \in 0 .. 1
      /\ c.args[len] \in 0 .. 8
      /\ Len(c.args) >= len + c.args[len]
      /\ \A i \in 1 .. c.args[len] : c.args[len + i] \in 0 .. 255

(* What HELP and the README of the program offer, with the fewest numbers  *)
(* each command is documented or parsed with.                              *)
Documented ==
  LET C(name, n) == [name |-> name, args |-> [i \in 1 .. n |-> 0]]
  IN  { C(<<"PING">>, 0), C(<<"HELP">>, 0), C(<<"GET", "ALL">>, 0),
        C(<<"SET", "ANA">>, 2), C(<<"GET", "ANA">>, 1),
        C(<<"SET", "PWM">>, 2), C(<<"GET", "PWM">>, 1),
        C(<<"SET", "PWM", "FREQ">>, 2), C(<<"GET", "PWM", "FREQ">>, 1),
        C(<<"SET", "PWM", "PULSES">>, 2), C(<<"GET", "PWM", "PULSES">>, 1),
        C(<<"SET", "IN", "DIG">>, 2), C(<<"GET", "IN", "DIG">>, 1),
        C(<<"TRIG", "IN", "EVNT">>, 1),
        C(<<"SET", "OUT", "DIG">>, 2), C(<<"GET", "OUT", "DIG">>, 1),
        C(<<"SET", "IN", "FREQ">>, 2), C(<<"GET", "IN", "FREQ">>, 1),
        C(<<"SET", "ENC", "POS">>, 3), C(<<"GET", "ENC", "POS">>, 1),
        C(<<"SET", "ENC", "SPEED">>, 2), C(<<"GET", "ENC", "SPEED">>, 1),
        C(<<"SET", "ENC", "MAP">>, 3), C(<<"SET", "ENC", "MAP">>, 4),
        C(<<"INJECT", "CAN">>, 3), C(<<"INJECT", "CAN", "EX">>, 4),
        C(<<"GET", "CAN", "TX", "COUNT">>, 0),
        C(<<"GET", "CAN", "BROKER", "TX", "COUNT">>, 0),
        C(<<"GET", "CAN", "RX", "REG", "COUNT">>, 0),
        C(<<"DUMP", "CAN", "RX", "REG", "BURST">>, 1),
        C(<<"POP", "CAN", "TX">>, 0), C(<<"POP", "CAN", "TX", "BURST">>, 1),
        C(<<"POP", "CAN", "BROKER", "TX", "BURST">>, 1),
        C(<<"CLEAR", "CAN", "TX">>, 0),
        C(<<"CLEAR", "CAN", "BROKER", "TX">>, 0) }
=============================================================================
