-------------------------- MODULE MCBridgeIngress --------------------------
(***************************************************************************)
(* Two documents that differ for IBKR only, two epochs of the IBKR stream  *)
(* of which one is unhealthy, and a way the source can fail.               *)
(***************************************************************************)
EXTENDS BridgeIngress

MCDocument == {"d1", "d2"}
MCReason == {"missing"}
MCAt == [d \in MCDocument |-> IF d = "d1" THEN 1 ELSE 2]
MCContent ==
    [d \in MCDocument |->
       [p \in {"schwab", "ibkr"} |-> IF p = "ibkr" /\ d = "d2" THEN "b" ELSE "a"]]
MCSession == [d \in MCDocument |-> "session"]
MCHealth == {"h1", "h2"}
MCHealthEpoch == [h \in MCHealth |-> h]
MCHealthy == [h \in MCHealth |-> h = "h1"]
=============================================================================
