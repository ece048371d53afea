----------------------------- MODULE MCTaskRuntime -----------------------------
(***************************************************************************)
(* Small plans, files and patches for TaskRuntime: one task retried, or    *)
(* two tasks of which the first in plan order may depend on the second.    *)
(***************************************************************************)
EXTENDS TaskRuntime

NoDeps    == <<{}>>
Backward  == <<{2}, {}>>

OneFile   == <<1, 1>>
TwoFiles  == <<1, 2>>

OnePatch    == <<{1}>>
OwnPatch    == <<{1}, {2}>>
================================================================================
