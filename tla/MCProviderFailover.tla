------------------------ MODULE MCProviderFailover ------------------------
(***************************************************************************)
(* A closed market, a night session, the gap before the cash session and   *)
(* the cash session.                                                       *)
(***************************************************************************)
EXTENDS ProviderFailover

MCContextAt ==
    [t \in Time |-> CASE t = 1 -> "closed" [] t = 2 -> "gth" [] t = 3 -> "globex" [] OTHER -> "rth"]
=============================================================================
