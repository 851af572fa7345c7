-------------------------- MODULE MCEmergencyOverride --------------------------
(***************************************************************************)
(* A small instance of EmergencyOverride for TLC.                          *)
(***************************************************************************)
EXTENDS EmergencyOverride

CONSTANTS t1, t2

MCTimerIds == {t1, t2}
=============================================================================
