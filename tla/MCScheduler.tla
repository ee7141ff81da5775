------------------------------ MODULE MCScheduler ------------------------------
(***************************************************************************)
(* Two hub processes; one job registered before the first tick, one after. *)
(***************************************************************************)
EXTENDS Scheduler

CONSTANTS j1, j2

MCEarly == <<j1>>
MCLate == <<j2>>
=============================================================================
