----------------------------- MODULE MCHarnessLock -----------------------------
(* HarnessLock with three commands: one to leave an orphan, two to race on it. *)
EXTENDS HarnessLock

CONSTANTS p1, p2, p3
================================================================================
