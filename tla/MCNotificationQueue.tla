------------------------ MODULE MCNotificationQueue ------------------------
(***************************************************************************)
(* Two channels of one event; the cfgs choose who delivers them and which  *)
(* faults may happen.                                                      *)
(***************************************************************************)
EXTENDS NotificationQueue

CONSTANTS event, bark, feishu

MCEventOf == [r \in Row |-> event]
=============================================================================
