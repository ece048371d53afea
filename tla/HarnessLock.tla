------------------------------ MODULE HarnessLock ------------------------------
(***************************************************************************)
(* The file lock that serialises the commands which change the harness     *)
(* state: src/dev/lib/lock.ts.  Every process is one run of a command (one *)
(* pid with one start tick); it calls acquireLock, runs its body and       *)
(* releases.  The calls of the file system are separate steps, because     *)
(* writeFile(wx), readFile, the read of /proc and unlink are separate      *)
(* system calls between which other processes run, and a process may die   *)
(* between any two of them.                                                *)
(***************************************************************************)
EXTENDS Naturals

CONSTANTS Proc,   \* processes that run a locking command, each at most once
          None    \* no file, or a file whose owner cannot be read

ASSUME NoneAssumption == None \notin Proc

VARIABLES
  owner,    \* who created the existing lock file, None when there is none
  written,  \* the creator has written its record into the existing file
  pc,       \* where each process is
  tries,    \* the loop counter "attempt" of acquireLock
  seen,     \* the owner each process read, None when the file was unreadable
  robbed    \* live processes whose lock file another process removed

vars == <<owner, written, pc, tries, seen, robbed>>

Acquiring == {"create", "write", "read", "judge", "unlink", "giveup"}
Inside    == {"write", "body", "check", "remove"}
Ended     == {"done", "busy", "crashed"}
PC        == {"idle"} \cup Acquiring \cup Inside \cup Ended

\* isOwnerAlive: /proc still shows the pid with the recorded start tick.
Alive(p) == pc[p] \notin {"idle"} \cup Ended

Init ==
  /\ owner = None
  /\ written = FALSE
  /\ pc = [p \in Proc |-> "idle"]
  /\ tries = [p \in Proc |-> 0]
  /\ seen = [p \in Proc |-> None]
  /\ robbed = {}

Goto(p, l) == pc' = [pc EXCEPT ![p] = l]

\* unlink removes whatever file is there; robbed remembers a live owner's.
RemoveFile(p) ==
  /\ owner' = None
  /\ written' = FALSE
  /\ robbed' = robbed \cup {q \in Proc \ {p} : q = owner /\ Alive(q)}

Start(p) ==
  /\ pc[p] = "idle"
  /\ Goto(p, "create")
  /\ UNCHANGED <<owner, written, tries, seen, robbed>>

CreateAlways(p) ==
  /\ pc[p] = "create"
  /\ owner' = p
  /\ written' = FALSE
  /\ Goto(p, "write")
  /\ UNCHANGED <<tries, seen, robbed>>

\* writeFile(flag wx): open with O_EXCL creates an empty file or fails EEXIST.
Create(p) ==
  /\ pc[p] = "create"
  /\ IF owner = None
       THEN owner' = p /\ written' = FALSE /\ Goto(p, "write")
       ELSE Goto(p, "read") /\ UNCHANGED <<owner, written>>
  /\ UNCHANGED <<tries, seen, robbed>>

\* The second half of writeFile fills the file this process opened, which
\* may no longer be the one the path names.
Write(p) ==
  /\ pc[p] = "write"
  /\ written' = (written \/ owner = p)
  /\ Goto(p, "body")
  /\ UNCHANGED <<owner, tries, seen, robbed>>

\* readOwner: a missing, empty or half-written file parses to null.
ReadOwner(p) ==
  /\ pc[p] = "read"
  /\ seen' = [seen EXCEPT ![p] = IF written THEN owner ELSE None]
  /\ Goto(p, "judge")
  /\ UNCHANGED <<owner, written, tries, robbed>>

JudgeUnreadableBusy(p) ==
  /\ pc[p] = "judge"
  /\ Goto(p, IF seen[p] = None \/ Alive(seen[p]) THEN "busy" ELSE "unlink")
  /\ UNCHANGED <<owner, written, tries, seen, robbed>>

\* A live owner means LockBusyError; a dead or unreadable one is an orphan.
Judge(p) ==
  /\ pc[p] = "judge"
  /\ Goto(p, IF seen[p] # None /\ Alive(seen[p]) THEN "busy" ELSE "unlink")
  /\ UNCHANGED <<owner, written, tries, seen, robbed>>

UnlinkOneTryMore(p) ==
  /\ pc[p] = "unlink"
  /\ RemoveFile(p)
  /\ tries' = [tries EXCEPT ![p] = @ + 1]
  /\ Goto(p, IF tries[p] <= 1 THEN "create" ELSE "giveup")
  /\ UNCHANGED seen

\* The orphan is removed by name and creation is tried again, two tries in all.
Unlink(p) ==
  /\ pc[p] = "unlink"
  /\ RemoveFile(p)
  /\ tries' = [tries EXCEPT ![p] = @ + 1]
  /\ Goto(p, IF tries[p] + 1 < 2 THEN "create" ELSE "giveup")
  /\ UNCHANGED seen

\* Two lost tries: the last read only names an owner in the LockBusyError.
GiveUp(p) ==
  /\ pc[p] = "giveup"
  /\ Goto(p, "busy")
  /\ UNCHANGED <<owner, written, tries, seen, robbed>>

\* withHarnessLock: the body ends, normally or by throwing; finally releases.
EndBody(p) ==
  /\ pc[p] = "body"
  /\ Goto(p, "check")
  /\ UNCHANGED <<owner, written, tries, seen, robbed>>

\* release reads the file and goes on only if it still names this process.
CheckOwner(p) ==
  /\ pc[p] = "check"
  /\ Goto(p, IF written /\ owner = p THEN "remove" ELSE "done")
  /\ UNCHANGED <<owner, written, tries, seen, robbed>>

Remove(p) ==
  /\ pc[p] = "remove"
  /\ RemoveFile(p)
  /\ Goto(p, "done")
  /\ UNCHANGED <<tries, seen>>

\* A process dies anywhere (also by a write error); its file stays behind.
Crash(p) ==
  /\ Alive(p)
  /\ Goto(p, "crashed")
  /\ UNCHANGED <<owner, written, tries, seen, robbed>>

Progress(p) ==
  \/ Create(p) \/ Write(p) \/ ReadOwner(p) \/ Judge(p) \/ Unlink(p)
  \/ GiveUp(p) \/ EndBody(p) \/ CheckOwner(p) \/ Remove(p)

Next == \E p \in Proc : Start(p) \/ Progress(p) \/ Crash(p)

\* A command that has started keeps running unless it dies; none is obliged
\* to start or to die.
Spec == Init /\ [][Next]_vars /\ \A p \in Proc : WF_vars(Progress(p))

--------------------------------------------------------------------------------
\* Types of the lock file and of the processes' locals: who still tries has one
\* of the two tries of acquireLock left.
TypeOK ==
  /\ owner \in Proc \cup {None}
  /\ written \in BOOLEAN
  /\ pc \in [Proc -> PC]
  /\ tries \in [Proc -> 0..2]
  /\ \A p \in Proc : pc[p] \in Acquiring \ {"giveup"} => tries[p] < 2
  /\ seen \in [Proc -> Proc \cup {None}]
  /\ robbed \subseteq Proc

\* What the header of lock.ts claims: two commands never run their bodies at
\* the same time.  The code does not keep it (see the run lock_exclusion).
MutualExclusion ==
  \A p, q \in Proc : pc[p] = "body" /\ pc[q] = "body" => p = q

\* The only way to lose exclusion is the removal, by name, of a file that is
\* no longer the orphan that was judged: as long as no unlink (of acquireLock
\* or of release) has hit the file of a live process, two bodies never overlap
\* (lock.ts, acquireLock and release).
ExclusionUnlessRobbed == robbed = {} => MutualExclusion

\* A file left by a dead process, complete or half-written, never locks the
\* harness for good: a command that starts when every other has ended runs its
\* body (lock.ts, readOwner: an unreadable lock is treated as an orphan).
LoneStarterAcquires ==
  \A p \in Proc :
    (/\ pc[p] = "create" /\ tries[p] = 0
     /\ \A q \in Proc \ {p} : pc[q] \in Ended)
      ~> pc[p] \in {"body", "crashed"}
================================================================================
