-------------------------- MODULE MCCommandServer --------------------------
(* Instance of CommandServer for TLC: bursts with a number too small and   *)
(* too large, one without a number, a broker burst, a clear, an injection  *)
(* whose callbacks transmit, one that does not parse, a trigger, and a     *)
(* command that concerns no log.                                           *)
EXTENDS CommandServer

SomeDatagrams ==
  { [name |-> <<"POP", "CAN", "TX", "BURST">>, args |-> <<0>>],
    [name |-> <<"POP", "CAN", "TX", "BURST">>, args |-> <<9>>],
    [name |-> <<"POP", "CAN", "TX", "BURST">>, args |-> <<>>],
    [name |-> <<"POP", "CAN", "BROKER", "TX", "BURST">>, args |-> <<2>>],
    [name |-> <<"CLEAR", "CAN", "TX">>, args |-> <<>>],
    [name |-> <<"INJECT", "CAN", "EX">>, args |-> <<0, 5, 1, 1, 7>>],
    [name |-> <<"INJECT", "CAN", "EX">>, args |-> <<0, 5, 2, 0>>],
    [name |-> <<"TRIG", "IN", "EVNT">>, args |-> <<0>>],
    [name |-> <<"PING">>, args |-> <<>>] }
=============================================================================
