--------------------------- MODULE MCReportLane ---------------------------
(* One worker drains a trade-ready intent next to two scheduled reports of *)
(* the same slot; one of the first report's two targets has no adapter.    *)
EXTENDS DeliveryLedger, TLC

CONSTANTS w1, intent, report, rival, tIntent, tReport, tUnknown, tRival

MCEventOf == (tIntent :> intent) @@ (tReport :> report) @@ (tUnknown :> report)
             @@ (tRival :> rival)
MCKind == (intent :> "intent") @@ (report :> "report") @@ (rival :> "report")
MCOne == [e \in Event |-> 1]
MCSchedule == <<1>>
=============================================================================
