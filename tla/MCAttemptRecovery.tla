-------------------------- MODULE MCAttemptRecovery --------------------------
(* Model checking of AttemptRecovery: two attempts, two files, two crashes.    *)
EXTENDS AttemptRecovery
NewFile == {2}
=============================================================================
