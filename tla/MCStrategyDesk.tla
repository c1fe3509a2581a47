--------------------------- MODULE MCStrategyDesk ---------------------------
(***************************************************************************)
(* Opportunities of every direction around the change from GTH to RTH; the *)
(* cfgs choose which of them a session has.  up1 and up2 are               *)
(* interchangeable.                                                        *)
(***************************************************************************)
EXTENDS StrategyDesk, TLC

CONSTANTS up1, up2, pullback, down, pin, condor

MCDirOf ==
    [o \in Opportunity |-> IF o \in {up1, up2, pullback} THEN "UP"
                           ELSE IF o = down THEN "DOWN" ELSE "NEUTRAL"]

MCSetupsOf ==
    [o \in Opportunity |->
        IF o = condor THEN {Condor}
        ELSE IF o = pin THEN {Pin, "CLOSE_CONVERGENCE_60M"}
        ELSE IF o = pullback THEN {"PREAVERAGE15_PULLBACK"}
        ELSE {"ES_VOLUME_MOMENTUM"}]

MCStick == [m \in Mode |-> 2]

Symmetry == Permutations({up1, up2})
=============================================================================
