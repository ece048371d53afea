------------------------------- MODULE TaskBoard -------------------------------
(***************************************************************************)
(* What the harness promises to whoever reads the plan: one task at a time *)
(* is worked on, after everything it depends on and from the last accepted *)
(* work; a blocked task stops the board until somebody reopens it; and     *)
(* what is accepted stays accepted.                                        *)
(***************************************************************************)
EXTENDS Naturals

CONSTANTS Tasks, DependsOn

VARIABLES
  board,  \* what the board shows of each task
  from,   \* the task whose accepted work each task was last started from
  tip     \* the task accepted last, 0 before the first

boardVars == <<board, from, tip>>

BoardInit ==
  /\ board = [t \in Tasks |-> "todo"]
  /\ from = [t \in Tasks |-> 0]
  /\ tip = 0

Move(t, column) == board' = [board EXCEPT ![t] = column]

Start(t) ==
  /\ board[t] = "todo"
  /\ \A u \in Tasks : board[u] \notin {"working", "blocked"}
  /\ \A d \in DependsOn[t] : board[d] = "accepted"
  /\ Move(t, "working")
  /\ from' = [from EXCEPT ![t] = tip]
  /\ UNCHANGED tip

Block(t) ==
  /\ board[t] \in {"todo", "working"}
  /\ Move(t, "blocked")
  /\ UNCHANGED <<from, tip>>

Reopen(t) ==
  /\ board[t] \in {"working", "blocked"}
  /\ Move(t, "todo")
  /\ UNCHANGED <<from, tip>>

Accept(t) ==
  /\ board[t] = "working"
  /\ from[t] = tip
  /\ Move(t, "accepted")
  /\ tip' = t
  /\ UNCHANGED from

BoardNext == \E t \in Tasks : Start(t) \/ Block(t) \/ Reopen(t) \/ Accept(t)

BoardSpec == BoardInit /\ [][BoardNext]_boardVars
================================================================================
