------------------------- MODULE MCSessionFinalize -------------------------
(***************************************************************************)
(* One hour of a session; the cfgs choose how many rows, faults and runs   *)
(* there are.                                                              *)
(***************************************************************************)
EXTENDS SessionFinalize

CONSTANT h1

MCEndOf == [h \in Hours |-> 1]
=============================================================================
