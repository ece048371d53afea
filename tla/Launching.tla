------------------------------- MODULE Launching -------------------------------
(***************************************************************************)
(* Preparing and launching an attempt (src/dev/lib/steps.ts and launch.ts) *)
(* and the worker process it gives birth to.  The launch command spawns    *)
(* first, leaves an open LaunchRecord, and only then tells state.json.     *)
(***************************************************************************)
EXTENDS RuntimeState

\* prepareNextTask: the packet pins the base the attempt starts from.
PrepareNextTask(t) ==
  /\ At("idle")
  /\ Selected(t)
  /\ BaseOk
  /\ packet' = [packet EXCEPT ![t] = head]
  /\ UNCHANGED <<stateVars, launch, completion, handoff, manifest, evidence,
                 workerVars, repoVars, cmd, envVars>>

\* releaseInboxForLaunch: nothing there, or a pair some archived attempt owns.
InboxFree(t) ==
  \/ note[t] = NoNote
  \/ \E a \in Attempt : /\ "VALIDATION_FAILED" \in evidence[t][a].closed
                        /\ evidence[t][a].noteCopy
                        /\ evidence[t][a].worker = note[t].by

\* launchTask up to the spawn: the guards and the release of a stale inbox.
Launch(t) ==
  /\ Status(t) = "READY" /\ Att(t) < MaxAttempts
  /\ BaseOk /\ packet[t] = head
  /\ InboxFree(t)
  /\ Begin("spawn", t)
  /\ note' = [note EXCEPT ![t] = NoNote]
  /\ UNCHANGED <<stateVars, recordVars, spawned, live, repoVars, envVars>>

\* isPreSpawnRefusal: no billing proof or no access; the task stays READY.
LaunchRefused ==
  /\ At("spawn")
  /\ Finish
  /\ UNCHANGED <<stateVars, recordVars, workerVars, repoVars, envVars>>

\* launchWorker throws: no process, no attempt, but INFRA_ERROR in the state.
SpawnFails ==
  /\ At("spawn")
  /\ SetTask(cmd.task, [tasks[cmd.task] EXCEPT !.status = "INFRA_ERROR", !.phase = "NONE"])
  /\ Finish
  /\ UNCHANGED <<authorized, recordVars, workerVars, repoVars, envVars>>

Spawn ==
  /\ At("spawn")
  /\ spawned' = Append(spawned, cmd.task)
  /\ live' = live \cup {Len(spawned) + 1}
  /\ Goto("openRecord")
  /\ UNCHANGED <<stateVars, recordVars, note, repoVars, envVars>>

\* The open LaunchRecord is the trace a crash of the orchestrator leaves.
OpenRecord ==
  /\ At("openRecord")
  /\ launch' = [launch EXCEPT ![cmd.task] = [process |-> Len(spawned), finished |-> FALSE]]
  /\ Goto("started")
  /\ UNCHANGED <<stateVars, packet, completion, handoff, manifest, evidence,
                 workerVars, repoVars, envVars>>

\* onStarted: the attempt exists from here on.
OnStarted ==
  /\ At("started")
  /\ LET t == cmd.task
     IN SetTask(t, [status |-> "RUNNING", phase |-> "EXECUTING", attempts |-> Att(t) + 1,
                    process |-> Len(spawned), base |-> packet[t], accepted |-> NoCommit])
  /\ Goto("await")
  /\ UNCHANGED <<authorized, recordVars, workerVars, repoVars, envVars>>

\* The process ended by itself or the supervisor killed it; the final
\* LaunchRecord is written before the state.
Terminated(outcome) ==
  /\ At("await")
  /\ IF outcome = "TIMED_OUT" THEN live' = live \ {Len(spawned)}
                              ELSE Len(spawned) \notin live /\ live' = live
  /\ launch' = [launch EXCEPT ![cmd.task].finished = TRUE]
  /\ cmd' = [cmd EXCEPT !.step = "settle", !.outcome = outcome]
  /\ UNCHANGED <<stateVars, packet, completion, handoff, manifest, evidence,
                 note, spawned, repoVars, envVars>>

SettleUnmapped ==
  /\ At("settle")
  /\ SetTask(cmd.task, [tasks[cmd.task] EXCEPT !.status = cmd.outcome, !.phase = "NONE"])
  /\ Finish
  /\ UNCHANGED <<authorized, recordVars, workerVars, repoVars, envVars>>

\* launchTask after the worker: FINALIZING is a legitimate pending closure.
Settle ==
  /\ At("settle")
  /\ SetTask(cmd.task,
       IF cmd.outcome = "FINISHED"
         THEN [tasks[cmd.task] EXCEPT !.phase = "FINALIZING"]
         ELSE [tasks[cmd.task] EXCEPT !.status = cmd.outcome, !.phase = "NONE"])
  /\ Finish
  /\ UNCHANGED <<authorized, recordVars, workerVars, repoVars, envVars>>

\* A worker writes a solution, reports, and ends, whoever is watching it.
WorkerEdits(p) ==
  /\ p \in live
  /\ tree' \in PatchesOf[spawned[p]] \ {tree}
  /\ UNCHANGED <<stateVars, recordVars, workerVars, log, head, staged, cmd, envVars>>

WorkerReports(p) ==
  /\ p \in live
  /\ note[spawned[p]].by # p
  /\ \E says \in {"SUCCESS", "FAILURE"} :
       note' = [note EXCEPT ![spawned[p]] = [by |-> p, says |-> says]]
  /\ UNCHANGED <<stateVars, recordVars, spawned, live, repoVars, cmd, envVars>>

WorkerExits(p) ==
  /\ p \in live
  /\ live' = live \ {p}
  /\ UNCHANGED <<stateVars, recordVars, note, spawned, repoVars, cmd, envVars>>

LaunchStep ==
  \/ LaunchRefused \/ SpawnFails \/ Spawn \/ OpenRecord \/ OnStarted \/ Settle
  \/ \E outcome \in {"FINISHED", "INFRA_ERROR", "TIMED_OUT"} : Terminated(outcome)

WorkerStep == \E p \in Pid : WorkerEdits(p) \/ WorkerReports(p) \/ WorkerExits(p)
================================================================================
