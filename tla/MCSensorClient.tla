-------------------------- MODULE MCSensorClient --------------------------
(***************************************************************************)
(* SensorClient under TLC.  The configuration gives it descriptors.        *)
(***************************************************************************)
EXTENDS SensorClient
=============================================================================
