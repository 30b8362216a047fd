------------------------------- MODULE MCSimRun -------------------------------
(***************************************************************************)
(* SimRun for TLC.  The runs differ in the constants only: long schedules  *)
(* against one opponent, for the coach's reverts, and short ones against   *)
(* several, for the checkpoints.                                           *)
(***************************************************************************)
EXTENDS SimRun
=============================================================================
