------------------------ MODULE MCOperatorLifecycle ------------------------
(* One worker drains the notifications of one opportunity, whose roles     *)
(* supersede each other.                                                   *)
EXTENDS DeliveryLedger, TLC

CONSTANTS w1, setup, ready, exit, tSetup, tReady, tExit

MCEventOf == (tSetup :> setup) @@ (tReady :> ready)
             @@ (tExit :> exit)
MCKind == (setup :> "setup") @@ (ready :> "trade_ready")
          @@ (exit :> "exit")
MCOpportunity == [e \in Event |-> 1]
MCGeneration == [e \in Event |-> 1]
MCSlot == [e \in Event |-> 0]
MCSchedule == <<1>>
=============================================================================
