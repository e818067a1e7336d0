------------------------ MODULE MCScheduleDocClaims -------------------------
(***************************************************************************)
(* The claims of ScheduleDocClaims over the documents of MCSchedule.       *)
(***************************************************************************)
EXTENDS MCSchedule, ScheduleDocClaims
=============================================================================
