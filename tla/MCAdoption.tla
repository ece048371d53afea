------------------------------ MODULE MCAdoption ------------------------------
(* The instance TLC checks: a task of the first plan and one that a plan    *)
(* edit adds, blocked by the first.                                         *)
EXTENDS Adoption

Blocked == <<{}, {1}>>
================================================================================
