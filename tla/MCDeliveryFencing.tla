------------------------ MODULE MCDeliveryFencing ------------------------
(* Two workers race for one trade-ready notification of one target. *)
EXTENDS DeliveryLedger, TLC

CONSTANTS w1, w2, e1, t1

MCEventOf == t1 :> e1
MCKind == e1 :> "intent"
MCOne == e1 :> 1
MCSchedule == <<1>>
MCSymmetry == Permutations(Worker)
=============================================================================
