-------------------------- MODULE MCCanRxRegistry --------------------------
(* Instance of CanRxRegistry for TLC.  The registrations differ in one     *)
(* field each from the first one, so that every comparison of the code     *)
(* decides somewhere; with three slots the table fills up.                 *)
EXTENDS CanRxRegistry

CONSTANTS n1, n2, c1, c2

MCNode == {n1, n2}
MCCallback == {c1, c2}

Base == [node |-> n1, id |-> {1}, ext |-> TRUE, purpose |-> "data",
         mask |-> {1, 2}, cb |-> c1]

MCEntry ==
  {Base, [Base EXCEPT !.node = n2], [Base EXCEPT !.id = {1, 2}],
   [Base EXCEPT !.ext = FALSE], [Base EXCEPT !.purpose = "remote"],
   [Base EXCEPT !.mask = {2}], [Base EXCEPT !.mask = {}],
   [Base EXCEPT !.cb = c2], [Base EXCEPT !.cb = NoCallback]}
=============================================================================
