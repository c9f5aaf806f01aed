-------------------------- MODULE MCHandoffRecovery --------------------------
(* Instance of HandoffRecovery for TLC.                                    *)
EXTENDS HandoffRecovery
=============================================================================
