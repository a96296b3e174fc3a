------------------------------- MODULE JobRun -------------------------------
(***************************************************************************)
(* The life of one job: its row in job_specs, the runs that execute it, a  *)
(* cancel watcher per run, the process-wide pause signal, the pause        *)
(* checkpoint, the subagent tracker, and the requests of users.            *)
(*                                                                         *)
(* Every read or write of the row is a query to Postgres and an action of  *)
(* its own; everything the code does between two awaits is one action.     *)
(* The checkpoint store is the in-memory one, the only backend the program *)
(* installs, so saving and popping a checkpoint do not yield.              *)
(***************************************************************************)
EXTENDS Naturals, FiniteSets

CONSTANTS
    Runs,          \* calls of run_job_spec for this job
    Clients,       \* requests that may be in flight at once
    NPhases,       \* phases of the pipeline; the last is finalize_job_spec
    Skippable,     \* the phases with can_skip, finalize_job_spec aside
    Catching,      \* the phases that catch a CancelledError: coordinator_spawn
    Surfaces,      \* where the job may be submitted: the chat, the API
    MaxSubmits,    \* bound: submissions of this spec_id
    MaxErrors,     \* bound: store calls that raise
    MaxTimeouts,   \* bound: runs whose PIPELINE_TIMEOUT fires
    MaxCrashes,    \* bound: crashes of the backend process
    NoRun, NoCheckpoint

ASSUME JobRunAssumption ==
    /\ NPhases \in Nat \ {0}
    /\ Skippable \subseteq 1..NPhases - 1
    /\ Catching \subseteq 1..NPhases - 1
    /\ Surfaces \subseteq {"chat", "api"}
    /\ MaxSubmits \in Nat /\ MaxTimeouts \in Nat
    /\ MaxErrors \in Nat /\ MaxCrashes \in Nat
    /\ NoRun \notin Runs
    /\ NoCheckpoint \notin [run : Runs, phase : 1..NPhases + 1]

VARIABLES
    status,        \* job_specs.status, "absent" while there is no row
    signal,        \* the pause signal of this spec_id
    checkpoint,    \* the saved JobCheckpoint, or NoCheckpoint
    tracker,       \* the run whose call created the subagent tracker
    origin,        \* origin[r]: who called run_job_spec
    task,          \* task[r]: the asyncio task of run_single
    phase,         \* phase[r]: the pipeline phase task[r] is in, 0 if none
    watch,         \* watch[r]: where run_job_spec and its watcher are
    seen,          \* seen[r]: the status a poll returned and is to act on
    timedOut,      \* timedOut[r]: PIPELINE_TIMEOUT has fired
    resumedFrom,   \* resumedFrom[r]: the checkpoint handed to run r
    request,       \* request[c]: where the request of client c is
    errors,        \* store calls that raised so far
    crashes        \* crashes so far

row == <<status, errors>>
runVars == <<origin, task, phase, watch, seen, timedOut, resumedFrom>>
vars == <<status, signal, checkpoint, tracker, origin, task, phase, watch, seen,
          timedOut, resumedFrom, request, errors, crashes>>

-----------------------------------------------------------------------------
\* Mutants end in Bug: a slip in the definition that follows.
CancelStatusesBug == {"failed"}   \* a user's cancel is forgotten

CancelStatuses == {"cancelled", "failed"}
PauseStatuses == {"paused"}
Terminal == {"completed", "failed", "cancelled"}
Statuses == {"absent", "pending", "running", "paused"} \union Terminal

PostRun == NPhases + 1    \* the "post_run_single" marker of a checkpoint
Checkpoints == [run : Runs, phase : 1..PostRun]

Live == {"exec", "wrote", "cancelling"}
Ended == {"returned", "raised", "lost"}
Watching == {"poll", "act", "retry", "sleep"}
InProgress == Watching \union {"grace", "await", "awaitPaused"}

\* An UPDATE of a row that does not exist changes nothing.
Write(s) == IF status = "absent" THEN status ELSE s

Unused == {r \in Runs : watch[r] = "off"}
Resuming == {c \in Clients : request[c] \in {"resumeFlip", "resumeSpawn"}}

TypeOK ==
    /\ status \in Statuses
    /\ signal \in BOOLEAN
    /\ checkpoint \in Checkpoints \union {NoCheckpoint}
    /\ tracker \in Runs \union {NoRun}
    /\ origin \in [Runs -> {"none", "chat", "api", "unsaved", "resume"}]
    /\ task \in [Runs -> {"none"} \union Live \union Ended]
    /\ phase \in [Runs -> 0..NPhases]
    /\ watch \in [Runs -> {"off", "queued", "post", "end"} \union InProgress]
    /\ seen \in [Runs -> Statuses]
    /\ timedOut \in [Runs -> BOOLEAN]
    /\ resumedFrom \in [Runs -> Checkpoints \union {NoCheckpoint}]
    /\ request \in [Clients -> {"idle", "cancelWrite", "pauseWrite", "resumeFlip",
                                "resumeSpawn", "flipRead", "flipWrite"}]
    /\ errors \in 0..MaxErrors
    /\ crashes \in 0..MaxCrashes

Init ==
    /\ status = "absent"
    /\ signal = FALSE
    /\ checkpoint = NoCheckpoint
    /\ tracker = NoRun
    /\ origin = [r \in Runs |-> "none"]
    /\ task = [r \in Runs |-> "none"]
    /\ phase = [r \in Runs |-> 0]
    /\ watch = [r \in Runs |-> "off"]
    /\ seen = [r \in Runs |-> "absent"]
    /\ timedOut = [r \in Runs |-> FALSE]
    /\ resumedFrom = [r \in Runs |-> NoCheckpoint]
    /\ request = [c \in Clients |-> "idle"]
    /\ errors = 0
    /\ crashes = 0

\* A store call raises; the caller logs it and goes on.
StoreRaises ==
    /\ errors < MaxErrors
    /\ errors' = errors + 1
    /\ UNCHANGED status

StoreWrites(s) ==
    /\ status' = Write(s)
    /\ UNCHANGED errors

-----------------------------------------------------------------------------
(* Submission and the start of a run *)

\* store.save is INSERT ... ON CONFLICT DO NOTHING; a failed save is logged
\* and the run is dispatched all the same, but the API submitter remembers it.
Submit(r, o) ==
    /\ r \in Unused
    /\ Cardinality({q \in Runs : origin[q] \notin {"none", "resume"}}) < MaxSubmits
    /\ Cardinality(Resuming) < Cardinality(Unused)
    /\ o = "chat" => status = "absent"
    /\ \/ /\ status' = IF status = "absent" THEN "pending" ELSE status
          /\ origin' = [origin EXCEPT ![r] = o]
          /\ UNCHANGED errors
       \/ /\ StoreRaises
          /\ origin' = [origin EXCEPT ![r] = IF o = "api" THEN "unsaved" ELSE o]
    /\ watch' = [watch EXCEPT ![r] = "queued"]
    /\ UNCHANGED <<signal, checkpoint, tracker, task, phase, seen, timedOut,
                   resumedFrom, request, crashes>>

\* run_job_spec up to the first poll: start_tracker, then the task.
StartTracker(r) == tracker' = IF tracker = NoRun THEN r ELSE tracker

RunBegins(r) ==
    /\ watch[r] = "queued"
    /\ StartTracker(r)
    /\ task' = [task EXCEPT ![r] = "exec"]
    /\ phase' = [phase EXCEPT ![r] = 1]
    /\ watch' = [watch EXCEPT ![r] = "poll"]
    /\ UNCHANGED <<status, signal, checkpoint, origin, seen, timedOut,
                   resumedFrom, request, errors, crashes>>

-----------------------------------------------------------------------------
(* The pipeline *)

\* The writes of finalize_job_spec: unconditional, and swallowed if they raise.
FinalizeJobSpec(r) ==
    /\ task[r] = "exec"
    /\ phase[r] = NPhases
    /\ \/ \E s \in {"completed", "failed"} : StoreWrites(s)
       \/ StoreRaises
    /\ task' = [task EXCEPT ![r] = "wrote"]
    /\ UNCHANGED <<signal, checkpoint, tracker, origin, phase, watch, seen,
                   timedOut, resumedFrom, request, crashes>>

EndTask(r, how) ==
    /\ task' = [task EXCEPT ![r] = how]
    /\ phase' = [phase EXCEPT ![r] = 0]

\* The last await of the current phase has returned.
PhaseExecuted(r) ==
    task[r] = IF phase[r] = NPhases THEN "wrote" ELSE "exec"

PauseCheckpointBug(r) ==   \* saves, but the phase loop goes on
    /\ PhaseExecuted(r)
    /\ signal
    /\ checkpoint' = [run |-> r, phase |-> phase[r]]
    /\ signal' = FALSE
    /\ UNCHANGED <<row, tracker, origin, task, phase, watch, seen, timedOut,
                   resumedFrom, request, crashes>>

\* pause_checkpoint finds the signal set: save, clear, return paused.
PauseCheckpoint(r) ==
    /\ PhaseExecuted(r)
    /\ signal
    /\ checkpoint' = [run |-> r, phase |-> phase[r]]
    /\ signal' = FALSE
    /\ EndTask(r, "returned")
    /\ UNCHANGED <<row, tracker, origin, watch, seen, timedOut, resumedFrom,
                   request, crashes>>

AdvanceBug(r) ==           \* no end after the last phase
    /\ phase' = [phase EXCEPT ![r] = @ + 1]
    /\ UNCHANGED task

Advance(r) ==
    IF phase[r] = NPhases
    THEN EndTask(r, "returned")
    ELSE /\ phase' = [phase EXCEPT ![r] = @ + 1]
         /\ UNCHANGED task

PhaseCompletes(r) ==
    /\ PhaseExecuted(r)
    /\ ~signal
    /\ Advance(r)
    /\ UNCHANGED <<row, signal, checkpoint, tracker, origin, watch, seen,
                   timedOut, resumedFrom, request, crashes>>

\* A skippable phase that raises is left without the pause check.
PhaseSkipped(r) ==
    /\ task[r] = "exec"
    /\ phase[r] \in Skippable
    /\ Advance(r)
    /\ UNCHANGED <<row, signal, checkpoint, tracker, origin, watch, seen,
                   timedOut, resumedFrom, request, crashes>>

PhaseFatal(r) ==
    /\ task[r] = "exec"
    /\ phase[r] \notin Skippable \union {NPhases}
    /\ EndTask(r, "raised")
    /\ UNCHANGED <<row, signal, checkpoint, tracker, origin, watch, seen,
                   timedOut, resumedFrom, request, crashes>>

\* The event loop throws CancelledError into the task.
CancelDelivered(r) ==
    /\ task[r] = "cancelling"
    /\ EndTask(r, "raised")
    /\ UNCHANGED <<row, signal, checkpoint, tracker, origin, watch, seen,
                   timedOut, resumedFrom, request, crashes>>

\* The delegation that coordinator_spawn awaits catches it, cancels nothing and
\* answers "Cancelled": the phase returns and the pipeline goes on.
CancelCaught(r) ==
    /\ task[r] = "cancelling"
    /\ phase[r] \in Catching
    /\ IF signal
       THEN /\ checkpoint' = [run |-> r, phase |-> phase[r]]
            /\ signal' = FALSE
            /\ EndTask(r, "returned")
       ELSE /\ task' = [task EXCEPT ![r] = "exec"]
            /\ phase' = [phase EXCEPT ![r] = @ + 1]
            /\ UNCHANGED <<checkpoint, signal>>
    /\ UNCHANGED <<row, tracker, origin, watch, seen, timedOut, resumedFrom,
                   request, crashes>>

\* task.cancel(): a no-op on a task that is done.
CancelTask(r) ==
    /\ task' = [task EXCEPT ![r] = IF @ \in Live THEN "cancelling" ELSE @]
    /\ UNCHANGED phase

-----------------------------------------------------------------------------
(* watch_for_cancel *)

\* A status that asks for nothing has no further effect, whenever it arrives.
WatchPolls(r) ==
    /\ watch[r] = "poll"
    /\ \/ /\ status \in CancelStatuses \union PauseStatuses
          /\ seen' = [seen EXCEPT ![r] = status]
          /\ watch' = [watch EXCEPT ![r] = "act"]
          /\ UNCHANGED row
       \/ /\ status \notin CancelStatuses \union PauseStatuses
          /\ watch' = [watch EXCEPT ![r] = "sleep"]
          /\ UNCHANGED <<row, seen>>
       \/ /\ StoreRaises
          /\ watch' = [watch EXCEPT ![r] = "retry"]
          /\ UNCHANGED seen
    /\ UNCHANGED <<signal, checkpoint, tracker, origin, task, phase, timedOut,
                   resumedFrom, request, crashes>>

\* The watcher acts on the status it read, however old by now.
WatchCancels(r) ==
    /\ watch[r] = "act"
    /\ seen[r] \in CancelStatuses
    /\ CancelTask(r)
    /\ seen' = [seen EXCEPT ![r] = "absent"]
    /\ watch' = [watch EXCEPT ![r] = "await"]
    /\ UNCHANGED <<row, signal, checkpoint, tracker, origin, timedOut,
                   resumedFrom, request, crashes>>

WatchSignalsPause(r) ==
    /\ watch[r] = "act"
    /\ seen[r] \in PauseStatuses
    /\ signal' = TRUE
    /\ seen' = [seen EXCEPT ![r] = "absent"]
    /\ watch' = [watch EXCEPT ![r] = "grace"]
    /\ UNCHANGED <<row, checkpoint, tracker, origin, task, phase, timedOut,
                   resumedFrom, request, crashes>>

WatchWakes(r) ==
    /\ watch[r] \in {"sleep", "retry"}
    /\ watch' = [watch EXCEPT ![r] = IF task[r] \in Ended THEN "await" ELSE "poll"]
    /\ UNCHANGED <<row, signal, checkpoint, tracker, origin, task, phase, seen,
                   timedOut, resumedFrom, request, crashes>>

GraceEndsBug(r) ==         \* awaits the run without the fallback cancel
    /\ watch[r] = "grace"
    /\ watch' = [watch EXCEPT ![r] = "awaitPaused"]
    /\ UNCHANGED <<row, signal, checkpoint, tracker, origin, task, phase, seen,
                   timedOut, resumedFrom, request, crashes>>

\* PAUSE_GRACE_SECONDS: the task ends in time, or is cancelled.
GraceEnds(r) ==
    /\ watch[r] = "grace"
    /\ CancelTask(r)
    /\ watch' = [watch EXCEPT ![r] = "awaitPaused"]
    /\ UNCHANGED <<row, signal, checkpoint, tracker, origin, seen,
                   timedOut, resumedFrom, request, crashes>>

-----------------------------------------------------------------------------
(* The end of run_job_spec *)

RunEndsBug(r) ==           \* stop_tracker forgotten
    /\ watch' = [watch EXCEPT ![r] = IF origin[r] = "api" THEN "post" ELSE "end"]
    /\ UNCHANGED tracker

\* stop_tracker pops the tracker of the spec_id whoever created it; then
\* run_job_spec ends, and what its caller does next depends on the caller.
RunEnds(r) ==
    /\ tracker' = NoRun
    /\ watch' = [watch EXCEPT ![r] = IF origin[r] = "api" THEN "post" ELSE "end"]

RunReturnsBug(r) ==        \* the task is not awaited
    /\ watch[r] \in {"await", "awaitPaused"}
    /\ RunEnds(r)
    /\ UNCHANGED <<row, signal, checkpoint, origin, task, phase, seen, timedOut,
                   resumedFrom, request, crashes>>

\* The pause signal is looked at once more after a run that returned, unless
\* the watcher itself had triggered a pause.
RunReturns(r) ==
    /\ watch[r] \in {"await", "awaitPaused"}
    /\ task[r] \in Ended
    /\ IF watch[r] = "await" /\ task[r] = "returned" /\ signal
       THEN /\ checkpoint' = [run |-> r, phase |-> PostRun]
            /\ signal' = FALSE
       ELSE UNCHANGED <<checkpoint, signal>>
    /\ RunEnds(r)
    /\ UNCHANGED <<row, origin, task, phase, seen, timedOut, resumedFrom,
                   request, crashes>>

\* asyncio.wait_for cancels _run_with_cancel_watch, not the task of the run:
\* the cancel lands on whatever await the watcher is in.
PipelineTimeout(r) ==
    /\ ~timedOut[r]
    /\ Cardinality({q \in Runs : timedOut[q]}) < MaxTimeouts
    /\ timedOut' = [timedOut EXCEPT ![r] = TRUE]
    /\ \/ /\ watch[r] \in {"poll", "act", "retry"}      \* propagates
          /\ RunEnds(r)
          /\ seen' = [seen EXCEPT ![r] = "absent"]
          /\ UNCHANGED <<task, phase>>
       \/ /\ watch[r] = "sleep"                         \* caught: break
          /\ watch' = [watch EXCEPT ![r] = "await"]
          /\ UNCHANGED <<tracker, task, phase, seen>>
       \/ /\ watch[r] = "grace"                         \* caught: fall back
          /\ CancelTask(r)
          /\ watch' = [watch EXCEPT ![r] = "awaitPaused"]
          /\ UNCHANGED <<tracker, seen>>
       \/ /\ watch[r] \in {"await", "awaitPaused"}
          /\ \/ CancelTask(r)                           \* await task
             \/ UNCHANGED <<task, phase>>               \* caught: after a cancel
          /\ UNCHANGED <<watch, tracker, seen>>
    /\ UNCHANGED <<row, signal, checkpoint, origin, resumedFrom,
                   request, crashes>>

\* submit_job_to_orchestrator after run_job_spec: the call has returned None
\* or raised, so result.get raises or never runs and "failed" is written.
SubmitterWrites(r) ==
    /\ watch[r] = "post"
    /\ StoreWrites("failed") \/ StoreRaises
    /\ watch' = [watch EXCEPT ![r] = "end"]
    /\ UNCHANGED <<signal, checkpoint, tracker, origin, task, phase, seen,
                   timedOut, resumedFrom, request, crashes>>

-----------------------------------------------------------------------------
(* The requests of users: JobSpecStore.cancel / pause / resume and          *)
(* run_resumed_job_spec. A refused request changes nothing.                 *)

Goto(c, pc) == request' = [request EXCEPT ![c] = pc]

CancelReads(c) ==
    /\ request[c] = "idle"
    /\ status \notin Terminal \union {"absent"}
    /\ Goto(c, "cancelWrite")
    /\ UNCHANGED <<row, signal, checkpoint, tracker, runVars, crashes>>

CancelWrites(c) ==
    /\ request[c] = "cancelWrite"
    /\ StoreWrites("cancelled")
    /\ Goto(c, "idle")
    /\ UNCHANGED <<signal, checkpoint, tracker, runVars, crashes>>

PauseReads(c) ==
    /\ request[c] = "idle"
    /\ status \notin Terminal \union {"absent", "paused"}
    /\ Goto(c, "pauseWrite")
    /\ UNCHANGED <<row, signal, checkpoint, tracker, runVars, crashes>>

PauseWrites(c) ==
    /\ request[c] = "pauseWrite"
    /\ StoreWrites("paused")
    /\ Goto(c, "idle")
    /\ UNCHANGED <<signal, checkpoint, tracker, runVars, crashes>>

\* Not paused: POST /resume falls back to the status flip of store.resume.
ResumeReads(c) ==
    /\ request[c] = "idle"
    /\ status # "absent"
    /\ Cardinality(Resuming) < Cardinality(Unused)
    /\ Goto(c, IF status = "paused" THEN "resumeFlip" ELSE "flipRead")
    /\ UNCHANGED <<row, signal, checkpoint, tracker, runVars, crashes>>

ResumeFlips(c) ==
    /\ request[c] = "resumeFlip"
    /\ StoreWrites("running") \/ StoreRaises
    /\ Goto(c, "resumeSpawn")
    /\ UNCHANGED <<signal, checkpoint, tracker, runVars, crashes>>

ResumeSpawnsBug(c, r) ==   \* get_checkpoint where pop_checkpoint is meant
    /\ request[c] = "resumeSpawn"
    /\ r \in Unused
    /\ resumedFrom' = [resumedFrom EXCEPT ![r] = checkpoint]
    /\ origin' = [origin EXCEPT ![r] = "resume"]
    /\ watch' = [watch EXCEPT ![r] = "queued"]
    /\ Goto(c, "idle")
    /\ UNCHANGED <<row, signal, checkpoint, tracker, task, phase, seen, timedOut,
                   crashes>>

ResumeSpawns(c, r) ==
    /\ request[c] = "resumeSpawn"
    /\ r \in Unused
    /\ resumedFrom' = [resumedFrom EXCEPT ![r] = checkpoint]
    /\ checkpoint' = NoCheckpoint
    /\ origin' = [origin EXCEPT ![r] = "resume"]
    /\ watch' = [watch EXCEPT ![r] = "queued"]
    /\ Goto(c, "idle")
    /\ UNCHANGED <<row, signal, tracker, task, phase, seen, timedOut, crashes>>

FlipReads(c) ==
    /\ request[c] = "flipRead"
    /\ Goto(c, IF status = "paused" THEN "flipWrite" ELSE "idle")
    /\ UNCHANGED <<row, signal, checkpoint, tracker, runVars, crashes>>

FlipWrites(c) ==
    /\ request[c] = "flipWrite"
    /\ StoreWrites("running")
    /\ Goto(c, "idle")
    /\ UNCHANGED <<signal, checkpoint, tracker, runVars, crashes>>

-----------------------------------------------------------------------------
\* The process dies: the row survives, everything in memory does not.
Crash ==
    /\ crashes < MaxCrashes
    /\ crashes' = crashes + 1
    /\ signal' = FALSE
    /\ checkpoint' = NoCheckpoint
    /\ tracker' = NoRun
    /\ task' = [r \in Runs |-> IF task[r] \in Live \/ watch[r] = "queued"
                               THEN "lost" ELSE task[r]]
    /\ watch' = [r \in Runs |-> IF watch[r] = "off" THEN "off" ELSE "end"]
    /\ request' = [c \in Clients |-> "idle"]
    /\ phase' = [r \in Runs |-> 0]
    /\ seen' = [r \in Runs |-> "absent"]
    /\ UNCHANGED <<row, origin, timedOut, resumedFrom>>

Pipeline(r) ==
    \/ FinalizeJobSpec(r) \/ PauseCheckpoint(r) \/ PhaseCompletes(r)
    \/ PhaseSkipped(r) \/ PhaseFatal(r)

Watcher(r) ==
    \/ WatchPolls(r) \/ WatchCancels(r) \/ WatchSignalsPause(r)
    \/ WatchWakes(r) \/ GraceEnds(r)

User(c) ==
    \/ CancelReads(c) \/ CancelWrites(c) \/ PauseReads(c) \/ PauseWrites(c)
    \/ ResumeReads(c) \/ ResumeFlips(c) \/ (\E r \in Runs : ResumeSpawns(c, r))
    \/ FlipReads(c) \/ FlipWrites(c)

Next ==
    \/ \E r \in Runs :
          \/ \E o \in Surfaces : Submit(r, o)
          \/ RunBegins(r) \/ Pipeline(r) \/ CancelDelivered(r)
          \/ CancelCaught(r) \/ Watcher(r)
          \/ RunReturns(r) \/ PipelineTimeout(r) \/ SubmitterWrites(r)
    \/ \E c \in Clients : User(c)
    \/ Crash

Spec == Init /\ [][Next]_vars

(***************************************************************************)
(* What the event loop and the timers owe a run. A phase may hang for      *)
(* ever, and users may do nothing: no fairness is assumed of either. Once  *)
(* finalize_job_spec has written the row nothing is left to wait for.      *)
(***************************************************************************)
Fairness ==
    /\ \A r \in Runs :
          /\ WF_vars(RunBegins(r)) /\ WF_vars(Watcher(r))
          /\ WF_vars(CancelDelivered(r) \/ CancelCaught(r))
          /\ WF_vars(task[r] = "wrote" /\ Pipeline(r))
          /\ WF_vars(RunReturns(r)) /\ WF_vars(SubmitterWrites(r))
    /\ \A c \in Clients :
          WF_vars(/\ request[c] # "idle"
                  /\ User(c))

FairSpec == Spec /\ Fairness

-----------------------------------------------------------------------------
(* Properties *)

\* The checkpoint of a job as seen by CheckpointCustody.
Custody == INSTANCE CheckpointCustody
    WITH stopped <- {r \in Runs : task[r] \in Ended},
         kept <- checkpoint,
         given <- resumedFrom

\* A checkpoint of a paused run is written once the run has stopped, handed to
\* at most one resumed run, and lost only by a crash or a newer checkpoint.
CustodySpec == Custody!Spec

\* apop_checkpoint under overlapping POST /resume requests: no two resumed
\* runs start from the same checkpoint.
OneResumePerCheckpoint ==
    \A r, q \in Runs :
        r # q /\ resumedFrom[r] # NoCheckpoint => resumedFrom[r] # resumedFrom[q]

\* Runs of a job may overlap (a resume only looks at the row), but a run that
\* starts from a checkpoint never overlaps the run that saved it.
ResumedAfterSaved ==
    \A r \in Runs :
        resumedFrom[r] # NoCheckpoint => task[resumedFrom[r].run] \in Ended

\* run_with_cancel never leaves a live run behind unwatched: only the pipeline
\* timeout, which cancels the watcher instead of the run, does.
OrphanOnlyByTimeout ==
    \A r \in Runs :
        task[r] \in Live /\ watch[r] \in {"post", "end"} => timedOut[r]

\* The registry holds no subagent tracker of a run_job_spec that has ended,
\* although overlapping runs share one and the first to end pops it.
TrackerIsOwned ==
    tracker # NoRun => watch[tracker] \in InProgress

\* A cancel the row keeps gets every run that is being watched out of the
\* phase it is in, even one that hangs, unless the timeout has taken the
\* watcher away (a poll interval, then the cancel).
CancelInterrupts ==
    \A r \in Runs, p \in 1..NPhases :
        (watch[r] \in Watching /\ status = "cancelled" /\ phase[r] = p)
            ~> (phase[r] # p \/ status # "cancelled" \/ timedOut[r])

\* Once its watcher has signalled a pause a run leaves its phase, by itself at
\* the phase's end or by the fallback cancel, whatever becomes of the row and
\* the signal meanwhile and even if the phase hangs.
PauseInterrupts ==
    \A r \in Runs, p \in 1..NPhases :
        (watch[r] = "grace" /\ phase[r] = p) ~> phase[r] # p

-----------------------------------------------------------------------------
(* What the documentation says and the code does not do *)

\* cancel_watcher.py: "a cancelled run is discarded": it starts no further
\* phase.
CancelledRunIsDiscarded ==
    [][\A r \in Runs : task[r] = "cancelling" => phase'[r] <= phase[r]]_vars
=============================================================================
