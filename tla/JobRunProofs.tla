---------------------------- MODULE JobRunProofs ----------------------------
(***************************************************************************)
(* The safety of JobRun for any number of runs, requests, phases, errors,  *)
(* timeouts and crashes. The inductive invariant is                        *)
(*    TypeOK /\ Lifecycle /\ References /\ Orphans /\ TrackerIsOwned:      *)
(* a checkpoint, in the store or in a resumed run, names a run that has    *)
(* ended, and ended runs never start again; that is what makes a saved     *)
(* checkpoint new, and so handed over once.                                *)
(***************************************************************************)
EXTENDS JobRun, TLAPS

\* Where run_job_spec is tells whether its task exists yet.
Lifecycle ==
    \A r \in Runs :
        /\ watch[r] \in {"off", "queued"} => task[r] = "none"
        /\ watch[r] = "off" => resumedFrom[r] = NoCheckpoint
        /\ task[r] \in {"exec", "wrote"} => phase[r] # 0

\* The run that saved k has ended, and has left run_job_spec if k is the
\* checkpoint run_job_spec itself saves.
Settled(k) ==
    /\ task[k.run] \in Ended
    /\ k.phase = PostRun => watch[k.run] \in {"post", "end"}

References ==
    /\ checkpoint # NoCheckpoint => Settled(checkpoint)
    /\ \A r \in Runs : resumedFrom[r] # NoCheckpoint =>
          /\ Settled(resumedFrom[r])
          /\ resumedFrom[r] # checkpoint
    /\ OneResumePerCheckpoint

IInv ==
    /\ TypeOK
    /\ Lifecycle
    /\ References
    /\ OrphanOnlyByTimeout
    /\ TrackerIsOwned

-----------------------------------------------------------------------------
LEMMA InitIInv == Init => IInv
<1> SUFFICES ASSUME Init PROVE IInv
  OBVIOUS
<1> USE JobRunAssumption DEF Init
<1>1. TypeOK
  <2>1. /\ status \in Statuses /\ signal \in BOOLEAN
        /\ checkpoint \in Checkpoints \union {NoCheckpoint}
        /\ tracker \in Runs \union {NoRun}
    BY DEF Statuses
  <2>2. /\ origin \in [Runs -> {"none", "chat", "api", "unsaved", "resume"}]
        /\ task \in [Runs -> {"none"} \union Live \union Ended]
        /\ phase \in [Runs -> 0..NPhases]
        /\ watch \in [Runs -> {"off", "queued", "post", "end"} \union InProgress]
    OBVIOUS
  <2>3. /\ seen \in [Runs -> Statuses] /\ timedOut \in [Runs -> BOOLEAN]
        /\ resumedFrom \in [Runs -> Checkpoints \union {NoCheckpoint}]
    BY DEF Statuses
  <2>4. request \in [Clients -> {"idle", "cancelWrite", "pauseWrite", "resumeFlip",
                                "resumeSpawn", "flipRead", "flipWrite"}]
    OBVIOUS
  <2>5. errors \in 0..MaxErrors /\ crashes \in 0..MaxCrashes
    OBVIOUS
  <2> QED
    BY <2>1, <2>2, <2>3, <2>4, <2>5 DEF TypeOK
<1>2. Lifecycle
  BY DEF Lifecycle
<1>3. References /\ OrphanOnlyByTimeout /\ TrackerIsOwned
  BY DEF References, OneResumePerCheckpoint, OrphanOnlyByTimeout, TrackerIsOwned, Live
<1> QED
  BY <1>1, <1>2, <1>3 DEF IInv

-----------------------------------------------------------------------------
LEMMA CheckpointType ==
    ASSUME NEW r \in Runs, NEW n \in 1..PostRun
    PROVE  [run |-> r, phase |-> n] \in Checkpoints
BY DEF Checkpoints

LEMMA TypeStep == TypeOK /\ Lifecycle /\ [Next]_vars => TypeOK'
<1> SUFFICES ASSUME TypeOK, Lifecycle, [Next]_vars PROVE TypeOK'
  OBVIOUS
<1> USE JobRunAssumption
     DEF TypeOK, Statuses, Terminal, Checkpoints, PostRun, Live, Ended, InProgress,
         Watching, StoreWrites, StoreRaises, Write, row, runVars
<1>1. ASSUME NEW r \in Runs, NEW o \in Surfaces, Submit(r, o) PROVE TypeOK'
  BY <1>1 DEF Submit
<1>2. ASSUME NEW r \in Runs, RunBegins(r) PROVE TypeOK'
  BY <1>2 DEF RunBegins, StartTracker
<1>3. ASSUME NEW r \in Runs, Pipeline(r) PROVE TypeOK'
  <2>1. CASE FinalizeJobSpec(r)
    BY <2>1 DEF FinalizeJobSpec
  <2>2. CASE PauseCheckpoint(r)
    <3>1. phase[r] \in 1..PostRun
      BY <2>2 DEF PauseCheckpoint, PhaseExecuted, Lifecycle
    <3>2. checkpoint' \in Checkpoints
      BY <2>2, <3>1, CheckpointType DEF PauseCheckpoint
    <3>3. /\ task' \in [Runs -> {"none"} \union Live \union Ended]
          /\ phase' \in [Runs -> 0..NPhases]
      BY <2>2 DEF PauseCheckpoint, EndTask
    <3>4. signal' \in BOOLEAN
      BY <2>2 DEF PauseCheckpoint
    <3>5. UNCHANGED <<status, tracker, origin, watch, seen, timedOut, resumedFrom,
                      request, errors, crashes>>
      BY <2>2 DEF PauseCheckpoint
    <3> QED
      BY <3>2, <3>3, <3>4, <3>5
  <2>3. CASE PhaseCompletes(r)
    BY <2>3 DEF PhaseCompletes, Advance, EndTask
  <2>4. CASE PhaseSkipped(r)
    BY <2>4 DEF PhaseSkipped, Advance, EndTask
  <2>5. CASE PhaseFatal(r)
    BY <2>5 DEF PhaseFatal, EndTask
  <2> QED
    BY <1>3, <2>1, <2>2, <2>3, <2>4, <2>5 DEF Pipeline
<1>4. ASSUME NEW r \in Runs, CancelDelivered(r) PROVE TypeOK'
  BY <1>4 DEF CancelDelivered, EndTask
<1>5. ASSUME NEW r \in Runs, Watcher(r) PROVE TypeOK'
  <2>1. CASE WatchPolls(r)
    BY <2>1 DEF WatchPolls
  <2>2. CASE WatchCancels(r)
    BY <2>2 DEF WatchCancels, CancelTask, EndTask
  <2>3. CASE WatchSignalsPause(r)
    BY <2>3 DEF WatchSignalsPause
  <2>4. CASE WatchWakes(r)
    BY <2>4 DEF WatchWakes
  <2>5. CASE GraceEnds(r)
    BY <2>5 DEF GraceEnds, CancelTask, EndTask
  <2> QED
    BY <1>5, <2>1, <2>2, <2>3, <2>4, <2>5 DEF Watcher
<1>6. ASSUME NEW r \in Runs, RunReturns(r) PROVE TypeOK'
  <2>1. checkpoint' \in Checkpoints \union {NoCheckpoint}
    <3>1. [run |-> r, phase |-> PostRun] \in Checkpoints
      BY CheckpointType
    <3> QED
      BY <1>6, <3>1 DEF RunReturns
  <2> QED
    BY <1>6, <2>1 DEF RunReturns, RunEnds
<1>7. ASSUME NEW r \in Runs, PipelineTimeout(r) PROVE TypeOK'
  BY <1>7 DEF PipelineTimeout, RunEnds, CancelTask, EndTask
<1>8. ASSUME NEW r \in Runs, SubmitterWrites(r) PROVE TypeOK'
  BY <1>8 DEF SubmitterWrites
<1>9. ASSUME NEW c \in Clients, User(c) PROVE TypeOK'
  <2>1. CASE CancelReads(c) \/ CancelWrites(c) \/ PauseReads(c) \/ PauseWrites(c)
    BY <2>1 DEF CancelReads, CancelWrites, PauseReads, PauseWrites, Goto
  <2>2. CASE ResumeReads(c) \/ ResumeFlips(c) \/ FlipReads(c) \/ FlipWrites(c)
    BY <2>2 DEF ResumeReads, ResumeFlips, FlipReads, FlipWrites, Goto
  <2>3. ASSUME NEW r \in Runs, ResumeSpawns(c, r) PROVE TypeOK'
    BY <2>3 DEF ResumeSpawns, Goto
  <2> QED
    BY <1>9, <2>1, <2>2, <2>3 DEF User
<1>10. CASE Crash
  <2>1. /\ task' \in [Runs -> {"none"} \union Live \union Ended]
        /\ watch' \in [Runs -> {"off", "queued", "post", "end"} \union InProgress]
    BY <1>10 DEF Crash
  <2>2. /\ phase' \in [Runs -> 0..NPhases] /\ seen' \in [Runs -> Statuses]
    BY <1>10 DEF Crash
  <2>3. request' \in [Clients -> {"idle", "cancelWrite", "pauseWrite", "resumeFlip",
                                "resumeSpawn", "flipRead", "flipWrite"}]
    BY <1>10 DEF Crash
  <2>4. crashes' \in 0..MaxCrashes
    BY <1>10 DEF Crash
  <2> QED
    BY <1>10, <2>1, <2>2, <2>3, <2>4 DEF Crash
<1>11. CASE UNCHANGED vars
  BY <1>11 DEF vars
<1>12. ASSUME NEW r \in Runs, CancelCaught(r) PROVE TypeOK'
  <2>1. phase[r] \in 1..NPhases - 1 /\ phase[r] \in 1..PostRun
    BY <1>12 DEF CancelCaught
  <2>2. checkpoint' \in Checkpoints \union {NoCheckpoint} /\ signal' \in BOOLEAN
    <3>1. CASE signal
      <4>1. [run |-> r, phase |-> phase[r]] \in Checkpoints
        BY <2>1, CheckpointType
      <4> QED
        BY <1>12, <3>1, <4>1 DEF CancelCaught
    <3>2. CASE ~signal
      BY <1>12, <3>2 DEF CancelCaught
    <3> QED
      BY <3>1, <3>2
  <2>3. /\ task' \in [Runs -> {"none"} \union Live \union Ended]
        /\ phase' \in [Runs -> 0..NPhases]
    BY <1>12, <2>1 DEF CancelCaught, EndTask
  <2>4. UNCHANGED <<status, tracker, origin, watch, seen, timedOut, resumedFrom,
                    request, errors, crashes>>
    BY <1>12 DEF CancelCaught
  <2> QED
    BY <2>2, <2>3, <2>4
<1> QED
  BY <1>1, <1>2, <1>3, <1>4, <1>5, <1>6, <1>7, <1>8, <1>9, <1>10, <1>11, <1>12 DEF Next

-----------------------------------------------------------------------------
(* What a step does to the runs, as far as the other invariants see it *)

Quiet == UNCHANGED <<task, phase, watch, tracker, timedOut, checkpoint, resumedFrom>>

\* Of the requests, only a resume that spawns a run disturbs any of these.
LEMMA UserSteps ==
    ASSUME NEW c \in Clients, User(c)
    PROVE  Quiet \/ \E r \in Runs : ResumeSpawns(c, r)
<1>1. CASE CancelReads(c) \/ CancelWrites(c) \/ PauseReads(c) \/ PauseWrites(c)
  BY <1>1 DEF CancelReads, CancelWrites, PauseReads, PauseWrites, runVars, Quiet
<1>2. CASE ResumeReads(c) \/ ResumeFlips(c) \/ FlipReads(c) \/ FlipWrites(c)
  BY <1>2 DEF ResumeReads, ResumeFlips, FlipReads, FlipWrites, runVars, Quiet
<1> QED
  BY <1>1, <1>2 DEF User

LEMMA Steps ==
    ASSUME [Next]_vars
    PROVE  \/ Quiet
           \/ \E r \in Runs, o \in Surfaces : Submit(r, o)
           \/ \E r \in Runs : \/ RunBegins(r) \/ Pipeline(r) \/ CancelDelivered(r)
                             \/ Watcher(r) \/ RunReturns(r) \/ PipelineTimeout(r)
                             \/ SubmitterWrites(r) \/ CancelCaught(r)
           \/ \E c \in Clients, r \in Runs : ResumeSpawns(c, r)
           \/ Crash
<1>1. CASE UNCHANGED vars
  BY <1>1 DEF vars, Quiet
<1>2. CASE \E c \in Clients : User(c)
  BY <1>2, UserSteps
<1> QED
  BY <1>1, <1>2 DEF Next

LEMMA LifecycleStep == TypeOK /\ Lifecycle /\ [Next]_vars => Lifecycle'
<1> SUFFICES ASSUME TypeOK, Lifecycle, [Next]_vars PROVE Lifecycle'
  OBVIOUS
<1>0. /\ task \in [Runs -> {"none"} \union Live \union Ended]
      /\ phase \in [Runs -> 0..NPhases]
      /\ watch \in [Runs -> {"off", "queued", "post", "end"} \union InProgress]
      /\ resumedFrom \in [Runs -> Checkpoints \union {NoCheckpoint}]
  BY DEF TypeOK
<1> USE <1>0, JobRunAssumption DEF Lifecycle
<1>1. ASSUME NEW r \in Runs, NEW o \in Surfaces, Submit(r, o) PROVE Lifecycle'
  BY <1>1 DEF Submit, Unused
<1>2. ASSUME NEW r \in Runs, RunBegins(r) PROVE Lifecycle'
  BY <1>2 DEF RunBegins
<1>3. ASSUME NEW r \in Runs, Pipeline(r) PROVE Lifecycle'
  <2>1. CASE FinalizeJobSpec(r)
    BY <2>1 DEF FinalizeJobSpec
  <2>2. CASE PauseCheckpoint(r)
    BY <2>2 DEF PauseCheckpoint, PhaseExecuted, EndTask
  <2>3. CASE PhaseCompletes(r)
    BY <2>3 DEF PhaseCompletes, PhaseExecuted, Advance, EndTask
  <2>4. CASE PhaseSkipped(r)
    BY <2>4 DEF PhaseSkipped, Advance, EndTask
  <2>5. CASE PhaseFatal(r)
    BY <2>5 DEF PhaseFatal, EndTask
  <2> QED
    BY <1>3, <2>1, <2>2, <2>3, <2>4, <2>5 DEF Pipeline
<1>4. ASSUME NEW r \in Runs, CancelDelivered(r) PROVE Lifecycle'
  BY <1>4 DEF CancelDelivered, EndTask
<1>5. ASSUME NEW r \in Runs, Watcher(r) PROVE Lifecycle'
  <2>1. CASE WatchPolls(r) \/ WatchSignalsPause(r) \/ WatchWakes(r)
    BY <2>1 DEF WatchPolls, WatchSignalsPause, WatchWakes
  <2>2. CASE WatchCancels(r) \/ GraceEnds(r)
    BY <2>2 DEF WatchCancels, GraceEnds, CancelTask, EndTask, Live
  <2> QED
    BY <1>5, <2>1, <2>2 DEF Watcher
<1>6. ASSUME NEW r \in Runs, RunReturns(r) PROVE Lifecycle'
  BY <1>6 DEF RunReturns, RunEnds
<1>7. ASSUME NEW r \in Runs, PipelineTimeout(r) PROVE Lifecycle'
  BY <1>7 DEF PipelineTimeout, RunEnds, CancelTask, EndTask, Live
<1>8. ASSUME NEW r \in Runs, SubmitterWrites(r) PROVE Lifecycle'
  BY <1>8 DEF SubmitterWrites
<1>9. ASSUME NEW c \in Clients, NEW r \in Runs, ResumeSpawns(c, r) PROVE Lifecycle'
  BY <1>9 DEF ResumeSpawns, Unused
<1>10. CASE Quiet
  BY <1>10 DEF Quiet
<1>11. CASE Crash
  BY <1>11 DEF Crash, Live
<1>12. ASSUME NEW r \in Runs, CancelCaught(r) PROVE Lifecycle'
  BY <1>12 DEF CancelCaught, EndTask
<1> QED
  BY <1>1, <1>2, <1>3, <1>4, <1>5, <1>6, <1>7, <1>8, <1>9, <1>10, <1>11, <1>12, Steps

-----------------------------------------------------------------------------
\* A run once ended stays ended, and once out of run_job_spec stays out.
Stays(q) ==
    /\ task[q] \in Ended => task'[q] \in Ended
    /\ watch[q] \in {"post", "end"} => watch'[q] \in {"post", "end"}

LEMMA EndedStays ==
    ASSUME TypeOK, Lifecycle, [Next]_vars, NEW q \in Runs
    PROVE  Stays(q)
<1>0. /\ task \in [Runs -> {"none"} \union Live \union Ended]
      /\ watch \in [Runs -> {"off", "queued", "post", "end"} \union InProgress]
  BY DEF TypeOK
<1> USE <1>0 DEF Stays, Live, Ended, InProgress, Watching, Lifecycle
<1>1. ASSUME NEW r \in Runs, NEW o \in Surfaces, Submit(r, o) PROVE Stays(q)
  BY <1>1 DEF Submit, Unused
<1>2. ASSUME NEW r \in Runs, RunBegins(r) PROVE Stays(q)
  BY <1>2 DEF RunBegins
<1>3. ASSUME NEW r \in Runs, Pipeline(r) PROVE Stays(q)
  BY <1>3 DEF Pipeline, FinalizeJobSpec, PauseCheckpoint, PhaseCompletes, PhaseSkipped,
              PhaseFatal, PhaseExecuted, Advance, EndTask
<1>4. ASSUME NEW r \in Runs, CancelDelivered(r) PROVE Stays(q)
  BY <1>4 DEF CancelDelivered, EndTask
<1>5. ASSUME NEW r \in Runs, Watcher(r) PROVE Stays(q)
  BY <1>5 DEF Watcher, WatchPolls, WatchCancels, WatchSignalsPause,
              WatchWakes, GraceEnds, CancelTask, EndTask
<1>6. ASSUME NEW r \in Runs, RunReturns(r) PROVE Stays(q)
  BY <1>6 DEF RunReturns, RunEnds
<1>7. ASSUME NEW r \in Runs, PipelineTimeout(r) PROVE Stays(q)
  BY <1>7 DEF PipelineTimeout, RunEnds, CancelTask, EndTask
<1>8. ASSUME NEW r \in Runs, SubmitterWrites(r) PROVE Stays(q)
  BY <1>8 DEF SubmitterWrites
<1>9. ASSUME NEW c \in Clients, NEW r \in Runs, ResumeSpawns(c, r) PROVE Stays(q)
  BY <1>9 DEF ResumeSpawns, Unused
<1>10. CASE Quiet
  BY <1>10 DEF Quiet
<1>11. CASE Crash
  BY <1>11 DEF Crash
<1>12. ASSUME NEW r \in Runs, CancelCaught(r) PROVE Stays(q)
  BY <1>12 DEF CancelCaught, EndTask
<1> HIDE DEF Stays
<1> QED
  BY <1>1, <1>2, <1>3, <1>4, <1>5, <1>6, <1>7, <1>8, <1>9, <1>10, <1>11, <1>12, Steps

LEMMA SettledStays ==
    ASSUME TypeOK, Lifecycle, [Next]_vars, NEW k \in Checkpoints, Settled(k)
    PROVE  /\ task'[k.run] \in Ended
           /\ k.phase = PostRun => watch'[k.run] \in {"post", "end"}
<1>1. k.run \in Runs
  BY DEF Checkpoints
<1> QED
  BY <1>1, EndedStays DEF Stays, Settled

\* Five actions touch checkpoints.
LEMMA CheckpointSteps ==
    ASSUME [Next]_vars
    PROVE  \/ checkpoint' = checkpoint /\ resumedFrom' = resumedFrom
           \/ \E r \in Runs : PauseCheckpoint(r) \/ CancelCaught(r) \/ RunReturns(r)
           \/ \E c \in Clients, r \in Runs : ResumeSpawns(c, r)
           \/ Crash
<1> DEFINE Same == checkpoint' = checkpoint /\ resumedFrom' = resumedFrom
<1>1. ASSUME NEW r \in Runs, NEW o \in Surfaces, Submit(r, o) PROVE Same
  BY <1>1 DEF Submit
<1>2. ASSUME NEW r \in Runs, RunBegins(r) \/ CancelDelivered(r) \/ SubmitterWrites(r)
      PROVE  Same
  BY <1>2 DEF RunBegins, CancelDelivered, SubmitterWrites
<1>3. ASSUME NEW r \in Runs, Pipeline(r) PROVE Same \/ PauseCheckpoint(r)
  BY <1>3 DEF Pipeline, FinalizeJobSpec, PhaseCompletes, PhaseSkipped, PhaseFatal
<1>4. ASSUME NEW r \in Runs, Watcher(r) PROVE Same
  BY <1>4 DEF Watcher, WatchPolls, WatchCancels, WatchSignalsPause,
              WatchWakes, GraceEnds
<1>5. ASSUME NEW r \in Runs, PipelineTimeout(r) PROVE Same
  BY <1>5 DEF PipelineTimeout
<1>6. ASSUME Quiet PROVE Same
  BY <1>6 DEF Quiet
<1> QED
  BY <1>1, <1>2, <1>3, <1>4, <1>5, <1>6, Steps

\* A phase that ends, or swallows a cancel, with the signal set.
PausesHere(r) ==
    \/ PauseCheckpoint(r)
    \/ CancelCaught(r) /\ signal

LEMMA PauseSteps ==
    ASSUME TypeOK, Lifecycle, NEW r \in Runs, PausesHere(r)
    PROVE  /\ phase[r] \in 1..NPhases /\ task[r] \notin Ended
           /\ task'[r] = "returned" /\ phase[r] # PostRun
           /\ checkpoint' = [run |-> r, phase |-> phase[r]]
           /\ resumedFrom' = resumedFrom
<1> USE JobRunAssumption DEF TypeOK, PostRun, Ended, EndTask
<1>1. CASE PauseCheckpoint(r)
  <2>1. phase[r] \in 1..NPhases
    BY <1>1 DEF PauseCheckpoint, PhaseExecuted, Lifecycle
  <2> QED
    BY <1>1, <2>1 DEF PauseCheckpoint, PhaseExecuted
<1>2. CASE CancelCaught(r) /\ signal
  BY <1>2 DEF CancelCaught
<1> QED
  BY <1>1, <1>2 DEF PausesHere

LEMMA ReferencesStep ==
    ASSUME TypeOK, Lifecycle, References, [Next]_vars
    PROVE  References'
<1>0. /\ checkpoint \in Checkpoints \union {NoCheckpoint}
      /\ resumedFrom \in [Runs -> Checkpoints \union {NoCheckpoint}]
      /\ task \in [Runs -> {"none"} \union Live \union Ended]
      /\ phase \in [Runs -> 0..NPhases]
      /\ watch \in [Runs -> {"off", "queued", "post", "end"} \union InProgress]
  BY DEF TypeOK
<1>1. CASE checkpoint' = checkpoint /\ resumedFrom' = resumedFrom
  <2>1. checkpoint # NoCheckpoint => Settled(checkpoint)'
    BY <1>0, <1>1, SettledStays DEF References, Settled
  <2>2. \A q \in Runs : resumedFrom[q] # NoCheckpoint => Settled(resumedFrom[q])'
    BY <1>0, <1>1, SettledStays DEF References, Settled
  <2> QED
    BY <1>1, <2>1, <2>2 DEF References, OneResumePerCheckpoint
<1>2. ASSUME NEW r \in Runs, PausesHere(r) PROVE References'
  <2>1. task[r] \notin Ended /\ task'[r] = "returned" /\ phase[r] # PostRun
    BY <1>0, <1>2, PauseSteps DEF PostRun
  <2>2. checkpoint' = [run |-> r, phase |-> phase[r]] /\ resumedFrom' = resumedFrom
    BY <1>0, <1>2, PauseSteps
  <2>3. Settled(checkpoint)'
    BY <2>1, <2>2 DEF Settled, Ended
  <2>4. ASSUME NEW q \in Runs, resumedFrom[q] # NoCheckpoint
        PROVE  Settled(resumedFrom[q])' /\ resumedFrom[q] # checkpoint'
    <3>1. resumedFrom[q] \in Checkpoints /\ Settled(resumedFrom[q])
      BY <1>0, <2>4 DEF References
    <3>2. Settled(resumedFrom[q])'
      BY <3>1, <2>2, SettledStays DEF Settled
    <3> QED
      BY <3>1, <3>2, <2>1, <2>2 DEF Settled
  <2> QED
    BY <2>2, <2>3, <2>4 DEF References, OneResumePerCheckpoint
<1>3. ASSUME NEW r \in Runs, RunReturns(r), checkpoint' # checkpoint PROVE References'
  <2>1. task[r] \in Ended /\ watch[r] \notin {"post", "end"}
    BY <1>3 DEF RunReturns
  <2>2. task'[r] \in Ended /\ watch'[r] \in {"post", "end"}
    BY <1>0, <1>3, <2>1 DEF RunReturns, RunEnds
  <2>3. checkpoint' = [run |-> r, phase |-> PostRun] /\ resumedFrom' = resumedFrom
    BY <1>3 DEF RunReturns
  <2>4. Settled(checkpoint)'
    BY <2>2, <2>3 DEF Settled
  <2>5. ASSUME NEW q \in Runs, resumedFrom[q] # NoCheckpoint
        PROVE  Settled(resumedFrom[q])' /\ resumedFrom[q] # checkpoint'
    <3>1. resumedFrom[q] \in Checkpoints /\ Settled(resumedFrom[q])
      BY <1>0, <2>5 DEF References
    <3>2. Settled(resumedFrom[q])'
      BY <3>1, <2>3, SettledStays DEF Settled
    <3> QED
      BY <3>1, <3>2, <2>1, <2>3 DEF Settled
  <2> QED
    BY <2>3, <2>4, <2>5 DEF References, OneResumePerCheckpoint
<1>4. ASSUME NEW c \in Clients, NEW r \in Runs, ResumeSpawns(c, r) PROVE References'
  <2>1. /\ checkpoint' = NoCheckpoint
        /\ resumedFrom' = [resumedFrom EXCEPT ![r] = checkpoint]
    BY <1>4 DEF ResumeSpawns
  <2>2. ASSUME NEW q \in Runs, resumedFrom'[q] # NoCheckpoint
        PROVE  Settled(resumedFrom[q])'
    <3>1. resumedFrom'[q] \in Checkpoints /\ Settled(resumedFrom'[q])
      BY <1>0, <2>1, <2>2 DEF References
    <3> QED
      BY <3>1, SettledStays DEF Settled
  <2>3. OneResumePerCheckpoint'
    BY <1>0, <2>1 DEF References, OneResumePerCheckpoint
  <2> QED
    BY <2>1, <2>2, <2>3 DEF References
<1>5. CASE Crash
  <2>1. checkpoint' = NoCheckpoint /\ resumedFrom' = resumedFrom
    BY <1>5 DEF Crash
  <2>2. \A q \in Runs : resumedFrom[q] # NoCheckpoint => Settled(resumedFrom[q])'
    BY <1>0, <2>1, SettledStays DEF References, Settled
  <2> QED
    BY <2>1, <2>2 DEF References, OneResumePerCheckpoint
<1>6. ASSUME NEW r \in Runs, RunReturns(r) PROVE resumedFrom' = resumedFrom
  BY <1>6 DEF RunReturns
<1>7. ASSUME NEW r \in Runs, PauseCheckpoint(r) \/ CancelCaught(r)
      PROVE  PausesHere(r) \/ (checkpoint' = checkpoint /\ resumedFrom' = resumedFrom)
  BY <1>7 DEF PausesHere, PauseCheckpoint, CancelCaught
<1> QED
  BY <1>1, <1>2, <1>3, <1>4, <1>5, <1>6, <1>7, CheckpointSteps

-----------------------------------------------------------------------------
LEMMA OrphanStep ==
    ASSUME TypeOK, Lifecycle, OrphanOnlyByTimeout, [Next]_vars
    PROVE  OrphanOnlyByTimeout'
<1>0. /\ task \in [Runs -> {"none"} \union Live \union Ended]
      /\ watch \in [Runs -> {"off", "queued", "post", "end"} \union InProgress]
      /\ timedOut \in [Runs -> BOOLEAN]
  BY DEF TypeOK
<1> USE <1>0 DEF OrphanOnlyByTimeout, Live, Ended
<1>1. ASSUME NEW r \in Runs, NEW o \in Surfaces, Submit(r, o) PROVE OrphanOnlyByTimeout'
  BY <1>1 DEF Submit
<1>2. ASSUME NEW r \in Runs, RunBegins(r) PROVE OrphanOnlyByTimeout'
  BY <1>2 DEF RunBegins
<1>3. ASSUME NEW r \in Runs, Pipeline(r) PROVE OrphanOnlyByTimeout'
  <2>1. CASE FinalizeJobSpec(r)
    BY <2>1 DEF FinalizeJobSpec
  <2>2. CASE PauseCheckpoint(r)
    BY <2>2 DEF PauseCheckpoint, EndTask
  <2>3. CASE PhaseCompletes(r)
    BY <2>3 DEF PhaseCompletes, Advance, EndTask
  <2>4. CASE PhaseSkipped(r) \/ PhaseFatal(r)
    BY <2>4 DEF PhaseSkipped, PhaseFatal, Advance, EndTask
  <2> QED
    BY <1>3, <2>1, <2>2, <2>3, <2>4 DEF Pipeline
<1>4. ASSUME NEW r \in Runs, CancelDelivered(r) PROVE OrphanOnlyByTimeout'
  BY <1>4 DEF CancelDelivered, EndTask
<1>5. ASSUME NEW r \in Runs, Watcher(r) PROVE OrphanOnlyByTimeout'
  <2>1. CASE WatchPolls(r) \/ WatchSignalsPause(r) \/ WatchWakes(r)
    BY <2>1 DEF WatchPolls, WatchSignalsPause, WatchWakes
  <2>2. CASE WatchCancels(r) \/ GraceEnds(r)
    BY <2>2 DEF WatchCancels, GraceEnds, CancelTask, EndTask
  <2> QED
    BY <1>5, <2>1, <2>2 DEF Watcher
<1>6. ASSUME NEW r \in Runs, RunReturns(r) PROVE OrphanOnlyByTimeout'
  BY <1>6 DEF RunReturns, RunEnds
<1>7. ASSUME NEW r \in Runs, PipelineTimeout(r) PROVE OrphanOnlyByTimeout'
  BY <1>7 DEF PipelineTimeout, RunEnds, CancelTask, EndTask
<1>8. ASSUME NEW r \in Runs, SubmitterWrites(r) PROVE OrphanOnlyByTimeout'
  BY <1>8 DEF SubmitterWrites
<1>9. ASSUME NEW c \in Clients, NEW r \in Runs, ResumeSpawns(c, r)
      PROVE  OrphanOnlyByTimeout'
  BY <1>9 DEF ResumeSpawns
<1>10. CASE Quiet
  BY <1>10 DEF Quiet
<1>11. CASE Crash
  BY <1>11 DEF Crash
<1>12. ASSUME NEW r \in Runs, CancelCaught(r) PROVE OrphanOnlyByTimeout'
  BY <1>12 DEF CancelCaught, EndTask
<1> QED
  BY <1>1, <1>2, <1>3, <1>4, <1>5, <1>6, <1>7, <1>8, <1>9, <1>10, <1>11, <1>12, Steps

\* Whoever pops the tracker may not be its owner, but nobody leaves
\* run_job_spec without popping it.
LEMMA TrackerStep ==
    ASSUME TypeOK, TrackerIsOwned, [Next]_vars
    PROVE  TrackerIsOwned'
<1>0. /\ watch \in [Runs -> {"off", "queued", "post", "end"} \union InProgress]
      /\ tracker \in Runs \union {NoRun}
  BY DEF TypeOK
<1> USE <1>0 DEF TrackerIsOwned, InProgress, Watching
<1>1. ASSUME NEW r \in Runs, NEW o \in Surfaces, Submit(r, o) PROVE TrackerIsOwned'
  BY <1>1 DEF Submit, Unused
<1>2. ASSUME NEW r \in Runs, RunBegins(r) PROVE TrackerIsOwned'
  BY <1>2 DEF RunBegins, StartTracker
<1>3. ASSUME NEW r \in Runs, Pipeline(r) \/ CancelDelivered(r) \/ CancelCaught(r)
      PROVE  TrackerIsOwned'
  BY <1>3 DEF Pipeline, FinalizeJobSpec, PauseCheckpoint, PhaseCompletes, PhaseSkipped,
              PhaseFatal, CancelDelivered, CancelCaught
<1>4. ASSUME NEW r \in Runs, Watcher(r) PROVE TrackerIsOwned'
  BY <1>4 DEF Watcher, WatchPolls, WatchCancels, WatchSignalsPause,
              WatchWakes, GraceEnds
<1>5. ASSUME NEW r \in Runs, RunReturns(r) PROVE TrackerIsOwned'
  BY <1>5 DEF RunReturns, RunEnds
<1>6. ASSUME NEW r \in Runs, PipelineTimeout(r) PROVE TrackerIsOwned'
  BY <1>6 DEF PipelineTimeout, RunEnds
<1>7. ASSUME NEW r \in Runs, SubmitterWrites(r) PROVE TrackerIsOwned'
  BY <1>7 DEF SubmitterWrites
<1>8. ASSUME NEW c \in Clients, NEW r \in Runs, ResumeSpawns(c, r) PROVE TrackerIsOwned'
  BY <1>8 DEF ResumeSpawns, Unused
<1>9. CASE Quiet
  BY <1>9 DEF Quiet
<1>10. CASE Crash
  BY <1>10 DEF Crash
<1> QED
  BY <1>1, <1>2, <1>3, <1>4, <1>5, <1>6, <1>7, <1>8, <1>9, <1>10, Steps

-----------------------------------------------------------------------------
\* The invariant every theorem below rests on.
THEOREM Invariance == Spec => []IInv
<1>1. Init => IInv
  BY InitIInv
<1>2. IInv /\ [Next]_vars => IInv'
  BY TypeStep, LifecycleStep, ReferencesStep, OrphanStep, TrackerStep DEF IInv
<1> QED
  BY <1>1, <1>2, PTL DEF Spec

\* Every variable keeps its type.
THEOREM TypeCorrect == Spec => []TypeOK
<1>1. IInv => TypeOK
  BY DEF IInv
<1> QED
  BY <1>1, Invariance, PTL

\* run_resumed_job_spec: however many resumes of a job overlap, no two of the
\* runs they start get the same checkpoint.
THEOREM CheckpointResumedOnce == Spec => []OneResumePerCheckpoint
<1>1. IInv => OneResumePerCheckpoint
  BY DEF IInv, References
<1> QED
  BY <1>1, Invariance, PTL

\* A run started from a checkpoint never runs beside the run that saved it.
THEOREM ResumedRunsAlone == Spec => []ResumedAfterSaved
<1>1. IInv => ResumedAfterSaved
  BY DEF IInv, References, Settled, ResumedAfterSaved
<1> QED
  BY <1>1, Invariance, PTL

\* A live run whose run_job_spec is over has been cut off by PIPELINE_TIMEOUT.
THEOREM OnlyTimeoutOrphans == Spec => []OrphanOnlyByTimeout
<1>1. IInv => OrphanOnlyByTimeout
  BY DEF IInv
<1> QED
  BY <1>1, Invariance, PTL

\* start_tracker and stop_tracker leave no tracker without its run_job_spec.
THEOREM NoTrackerLeaks == Spec => []TrackerIsOwned
<1>1. IInv => TrackerIsOwned
  BY DEF IInv
<1> QED
  BY <1>1, Invariance, PTL

-----------------------------------------------------------------------------
(* Phases come in order *)

\* What a step does to run q as long as it lives: it ends, outside every phase;
\* it stays in its phase, cancelled or with the row written perhaps; or it goes
\* on to the next phase, a cancelled run out of a phase that catches it only.
Moves(q) ==
    task[q] \in Live =>
        \/ task'[q] \in Ended /\ phase'[q] = 0
        \/ /\ phase'[q] = phase[q]
           /\ task'[q] \in {task[q], "cancelling"}
                 \union (IF task[q] = "exec" /\ phase[q] = NPhases THEN {"wrote"} ELSE {})
        \/ /\ phase'[q] = phase[q] + 1 /\ phase[q] < NPhases
           /\ task[q] = "cancelling" => phase[q] \in Catching
           /\ task'[q] = "exec"

\* Before it lives it has no task; when it begins it is in the first phase.
Begins(q) ==
    task[q] = "none" =>
        \/ task'[q] \in {"none", "lost"}
        \/ task'[q] = "exec" /\ phase'[q] = 1

\* Once it has ended nothing happens to it any more.
Rests(q) == task[q] \in Ended => task'[q] = task[q]

Orderly(q) == Moves(q) /\ Begins(q) /\ Rests(q)

LEMMA OrderlyPipeline ==
    ASSUME TypeOK, Lifecycle, NEW q \in Runs, NEW r \in Runs, Pipeline(r)
    PROVE  Orderly(q)
<1>0. /\ task \in [Runs -> {"none"} \union Live \union Ended]
      /\ phase \in [Runs -> 0..NPhases]
  BY DEF TypeOK
<1> USE <1>0, JobRunAssumption DEF Orderly, Moves, Begins, Rests, Live, Ended
<1>1. CASE FinalizeJobSpec(r)
  BY <1>1 DEF FinalizeJobSpec
<1>2. CASE PauseCheckpoint(r)
  BY <1>2 DEF PauseCheckpoint, PhaseExecuted, EndTask
<1>3. ASSUME task[r] \in {"exec", "wrote"}, task[r] = "wrote" => phase[r] = NPhases,
             phase[r] # 0, Advance(r)
      PROVE  Orderly(q)
  <2>1. CASE phase[r] = NPhases
    BY <1>3, <2>1 DEF Advance, EndTask
  <2>2. CASE phase[r] # NPhases
    BY <1>3, <2>2 DEF Advance
  <2> QED
    BY <2>1, <2>2
<1>4. CASE PhaseCompletes(r)
  BY <1>3, <1>4 DEF PhaseCompletes, PhaseExecuted, Lifecycle
<1>5. CASE PhaseSkipped(r)
  BY <1>3, <1>5 DEF PhaseSkipped, Lifecycle
<1>6. CASE PhaseFatal(r)
  BY <1>6 DEF PhaseFatal, EndTask
<1> QED
  BY <1>1, <1>2, <1>4, <1>5, <1>6 DEF Pipeline

LEMMA OrderlySteps ==
    ASSUME TypeOK, Lifecycle, [Next]_vars, NEW q \in Runs
    PROVE  Orderly(q)
<1>0. /\ task \in [Runs -> {"none"} \union Live \union Ended]
      /\ phase \in [Runs -> 0..NPhases]
      /\ watch \in [Runs -> {"off", "queued", "post", "end"} \union InProgress]
  BY DEF TypeOK
<1> USE <1>0, JobRunAssumption DEF Orderly, Moves, Begins, Rests, Live, Ended, Lifecycle
<1>1. CASE UNCHANGED <<task, phase>>
  BY <1>1
<1>2. ASSUME NEW r \in Runs, CancelTask(r) PROVE Orderly(q)
  BY <1>2 DEF CancelTask
<1>3. ASSUME NEW r \in Runs, NEW o \in Surfaces, Submit(r, o) PROVE Orderly(q)
  BY <1>1, <1>3 DEF Submit
<1>4. ASSUME NEW r \in Runs, RunBegins(r) PROVE Orderly(q)
  BY <1>4 DEF RunBegins
<1>5. ASSUME NEW r \in Runs, CancelDelivered(r) PROVE Orderly(q)
  BY <1>5 DEF CancelDelivered, EndTask
<1>6. ASSUME NEW r \in Runs, CancelCaught(r) PROVE Orderly(q)
  BY <1>6 DEF CancelCaught, EndTask
<1>7. ASSUME NEW r \in Runs, Watcher(r) PROVE Orderly(q)
  BY <1>1, <1>2, <1>7 DEF Watcher, WatchPolls, WatchCancels, WatchSignalsPause,
                          WatchWakes, GraceEnds
<1>8. ASSUME NEW r \in Runs, RunReturns(r) \/ SubmitterWrites(r) PROVE Orderly(q)
  BY <1>1, <1>8 DEF RunReturns, SubmitterWrites
<1>9. ASSUME NEW r \in Runs, PipelineTimeout(r) PROVE Orderly(q)
  BY <1>1, <1>2, <1>9 DEF PipelineTimeout
<1>10. ASSUME NEW c \in Clients, NEW r \in Runs, ResumeSpawns(c, r) PROVE Orderly(q)
  BY <1>1, <1>10 DEF ResumeSpawns
<1>11. CASE Quiet
  BY <1>1, <1>11 DEF Quiet
<1>12. CASE Crash
  BY <1>12 DEF Crash
<1>13. ASSUME NEW r \in Runs, Pipeline(r) PROVE Orderly(q)
  BY <1>13, OrderlyPipeline
<1> HIDE DEF Orderly
<1> QED
  BY <1>3, <1>4, <1>5, <1>6, <1>7, <1>8, <1>9, <1>10, <1>11, <1>12, <1>13, Steps

\* However its watchers, timeouts, pauses and cancels interleave, a run goes
\* through the phases of the pipeline one by one, from the first, none of them
\* twice and none left out, and never starts again.
PhasesInOrder == [][\A q \in Runs : Orderly(q)]_vars

\* The pipeline of run_single is sequential for every run of the job at once,
\* with as many runs, users and cancels beside it as there may be.
THEOREM RunsPhasesInOrder == Spec => PhasesInOrder
<1>1. IInv /\ [Next]_vars => [\A q \in Runs : Orderly(q)]_vars
  BY OrderlySteps DEF IInv
<1> QED
  BY <1>1, Invariance, PTL DEF Spec, PhasesInOrder

\* What is left of "a cancelled run is discarded": it is true of every phase
\* that does not catch a CancelledError, so of all but coordinator_spawn.
DiscardedElsewhere ==
    [][\A q \in Runs :
           task[q] = "cancelling" /\ phase[q] \notin Catching
               => /\ phase'[q] \in {phase[q], 0}
                  /\ task'[q] \in {"cancelling"} \union Ended]_vars

\* A CancelledError gets a run out of any phase but one that catches it, and
\* ends it there: what the documentation says fails for no other reason.
THEOREM CancelDiscardsElsewhere == Spec => DiscardedElsewhere
<1> DEFINE Step ==
        \A q \in Runs :
           task[q] = "cancelling" /\ phase[q] \notin Catching
               => /\ phase'[q] \in {phase[q], 0}
                  /\ task'[q] \in {"cancelling"} \union Ended
<1>1. IInv /\ [Next]_vars => [Step]_vars
  <2> SUFFICES ASSUME IInv, [Next]_vars, NEW q \in Runs,
                      task[q] = "cancelling", phase[q] \notin Catching
               PROVE  /\ phase'[q] \in {phase[q], 0}
                      /\ task'[q] \in {"cancelling"} \union Ended
    OBVIOUS
  <2>1. Moves(q) /\ task[q] \in Live
    BY OrderlySteps DEF IInv, Orderly, Live
  <2> QED
    BY <2>1 DEF Moves
<1>2. Spec => [][Step]_vars
  BY <1>1, Invariance, PTL DEF Spec
<1> QED
  BY <1>2 DEF DiscardedElsewhere

-----------------------------------------------------------------------------
(* An interrupt is owed until it has come *)

\* What gets a run out of its phase is under way: its watcher has read a cancel,
\* waits for the end of the grace period, or has cancelled the task.
Interrupting(q) ==
    \/ task[q] = "cancelling"
    \/ watch[q] = "grace"
    \/ watch[q] = "act" /\ seen[q] \in CancelStatuses

\* It stays so until the run has left the phase.  A timeout may prevent only a
\* cancel that has been read and not been acted on.
Owed(q) ==
    task[q] \in Live /\ Interrupting(q) =>
        \/ phase'[q] # phase[q] \/ task'[q] \in Ended
        \/ Interrupting(q)'
        \/ watch[q] = "act" /\ ~timedOut[q] /\ timedOut'[q]

LEMMA OwedSteps ==
    ASSUME TypeOK, Lifecycle, [Next]_vars, NEW q \in Runs
    PROVE  Owed(q)
<1>0. /\ task \in [Runs -> {"none"} \union Live \union Ended]
      /\ phase \in [Runs -> 0..NPhases]
      /\ watch \in [Runs -> {"off", "queued", "post", "end"} \union InProgress]
      /\ DOMAIN seen = Runs /\ DOMAIN timedOut = Runs
  BY DEF TypeOK
<1> USE <1>0 DEF Owed, Interrupting, Live, Ended
<1>1. CASE UNCHANGED <<task, watch, seen>>
  BY <1>1
<1>2. ASSUME NEW r \in Runs, q # r, task'[q] = task[q], watch'[q] = watch[q], seen'[q] = seen[q]
      PROVE  Owed(q)
  BY <1>2
<1>3. ASSUME NEW r \in Runs, NEW o \in Surfaces, Submit(r, o) PROVE Owed(q)
  BY <1>3 DEF Submit, Unused, Lifecycle
<1>4. ASSUME NEW r \in Runs, RunBegins(r) PROVE Owed(q)
  BY <1>4 DEF RunBegins, Lifecycle
<1>5. ASSUME NEW r \in Runs, Pipeline(r) PROVE Owed(q)
  <2>1. CASE q = r
    <3>1. CASE FinalizeJobSpec(r)
      BY <2>1, <3>1 DEF FinalizeJobSpec
    <3>2. CASE PauseCheckpoint(r) \/ PhaseFatal(r)
      BY <2>1, <3>2 DEF PauseCheckpoint, PhaseFatal, PhaseExecuted, EndTask
    <3>3. CASE PhaseCompletes(r) \/ PhaseSkipped(r)
      BY <2>1, <3>3, JobRunAssumption
         DEF PhaseCompletes, PhaseSkipped, PhaseExecuted, Advance, EndTask
    <3> QED BY <1>5, <3>1, <3>2, <3>3 DEF Pipeline
  <2>2. CASE q # r
    BY <1>2, <1>5, <2>2 DEF Pipeline, FinalizeJobSpec, PauseCheckpoint, PhaseCompletes,
                            PhaseSkipped, PhaseFatal, PhaseExecuted, Advance, EndTask
  <2> QED BY <2>1, <2>2
<1>6. ASSUME NEW r \in Runs, CancelDelivered(r) \/ CancelCaught(r) PROVE Owed(q)
  BY <1>6 DEF CancelDelivered, CancelCaught, EndTask
<1>7. ASSUME NEW r \in Runs, Watcher(r) PROVE Owed(q)
  <2>1. CASE WatchPolls(r) \/ WatchWakes(r)
    BY <2>1 DEF WatchPolls, WatchWakes
  <2>2. CASE WatchSignalsPause(r)
    BY <2>2 DEF WatchSignalsPause, CancelStatuses, PauseStatuses
  <2>3. CASE WatchCancels(r) \/ GraceEnds(r)
    BY <2>3 DEF WatchCancels, GraceEnds, CancelTask
  <2> QED BY <1>7, <2>1, <2>2, <2>3 DEF Watcher
<1>8. ASSUME NEW r \in Runs, RunReturns(r) \/ SubmitterWrites(r) PROVE Owed(q)
  BY <1>8 DEF RunReturns, SubmitterWrites, RunEnds
<1>9. ASSUME NEW r \in Runs, PipelineTimeout(r) PROVE Owed(q)
  BY <1>9 DEF PipelineTimeout, RunEnds, CancelTask
<1>10. ASSUME NEW c \in Clients, User(c) PROVE Owed(q)
  <2>1. CASE \E r \in Runs : ResumeSpawns(c, r)
    BY <2>1 DEF ResumeSpawns, Unused, Lifecycle
  <2>2. CASE ~\E r \in Runs : ResumeSpawns(c, r)
    <3>1. UNCHANGED runVars
      BY <1>10, <2>2 DEF User, CancelReads, CancelWrites, PauseReads, PauseWrites,
                         ResumeReads, ResumeFlips, FlipReads, FlipWrites
    <3> QED BY <1>1, <3>1 DEF runVars
  <2> QED BY <2>1, <2>2
<1>11. CASE Crash
  BY <1>11 DEF Crash
<1>12. CASE UNCHANGED vars
  BY <1>1, <1>12 DEF vars
<1> HIDE DEF Owed
<1> QED
  BY <1>3, <1>4, <1>5, <1>6, <1>7, <1>8, <1>9, <1>10, <1>11, <1>12 DEF Next

\* Nothing that happens to the row, the signal or the other runs takes back an
\* interrupt that is under way: what PauseInterrupts and CancelInterrupts say of
\* the end, but for the fairness that brings it about.
THEOREM InterruptsAreOwed == Spec => [][\A q \in Runs : Owed(q)]_vars
<1>1. IInv /\ [Next]_vars => [\A q \in Runs : Owed(q)]_vars
  BY OwedSteps DEF IInv
<1> QED BY <1>1, Invariance, PTL DEF Spec

-----------------------------------------------------------------------------
(* JobRun implements CheckpointCustody *)

Stopped == {r \in Runs : task[r] \in Ended}

LEMMA CustodyInit == Init => Custody!Init
BY DEF Init, Custody!Init, Ended

LEMMA CustodyStep ==
    ASSUME IInv, [Next]_vars
    PROVE  Custody!Next
<1>0. /\ checkpoint \in Checkpoints \union {NoCheckpoint}
      /\ resumedFrom \in [Runs -> Checkpoints \union {NoCheckpoint}]
      /\ task \in [Runs -> {"none"} \union Live \union Ended]
      /\ phase \in [Runs -> 0..NPhases]
      /\ TypeOK /\ Lifecycle /\ References
  BY DEF IInv, TypeOK
<1>1. \E s \in SUBSET Runs : Stopped' = Stopped \union s
  <2>1. Stopped \subseteq Stopped' /\ Stopped' \subseteq Runs
    BY <1>0, EndedStays DEF Stopped, Stays
  <2> QED
    BY <2>1
<1>2. CASE checkpoint' = checkpoint /\ resumedFrom' = resumedFrom
  BY <1>1, <1>2 DEF Custody!Next, Stopped
<1>3. ASSUME NEW r \in Runs, PausesHere(r) PROVE Custody!Keep
  <2>1. /\ checkpoint' = [run |-> r, phase |-> phase[r]]
        /\ resumedFrom' = resumedFrom
        /\ task'[r] \in Ended /\ task[r] \notin Ended
    BY <1>0, <1>3, PauseSteps DEF Ended
  <2>2. checkpoint' \in Checkpoints
    <3>1. phase[r] \in 1..PostRun
      BY <1>0, <1>3, PauseSteps, JobRunAssumption DEF PostRun
    <3> QED
      BY <2>1, <3>1, CheckpointType
  <2>3. \A q \in Runs : resumedFrom[q] # checkpoint'
    BY <1>0, <2>1, <2>2, JobRunAssumption DEF References, Settled, Checkpoints, PostRun
  <2>4. checkpoint'.run \in Stopped'
    BY <2>1 DEF Stopped
  <2> QED
    BY <2>1, <2>2, <2>3, <2>4 DEF Custody!Keep, Custody!Given, Stopped
<1>4. ASSUME NEW r \in Runs, RunReturns(r), checkpoint' # checkpoint PROVE Custody!Keep
  <2>1. /\ checkpoint' = [run |-> r, phase |-> PostRun]
        /\ resumedFrom' = resumedFrom
        /\ task[r] \in Ended /\ task' = task /\ watch[r] \notin {"post", "end"}
    BY <1>4 DEF RunReturns
  <2>2. checkpoint' \in Checkpoints
    BY <2>1, CheckpointType, JobRunAssumption DEF PostRun
  <2>3. \A q \in Runs : resumedFrom[q] # checkpoint'
    BY <1>0, <2>1, <2>2, JobRunAssumption DEF References, Settled, Checkpoints, PostRun
  <2>4. checkpoint'.run \in Stopped'
    BY <2>1 DEF Stopped
  <2> QED
    BY <2>1, <2>2, <2>3, <2>4 DEF Custody!Keep, Custody!Given, Stopped
<1>5. ASSUME NEW c \in Clients, NEW r \in Runs, ResumeSpawns(c, r)
      PROVE  Custody!HandOver(r)
  <2>1. r \notin Stopped /\ resumedFrom[r] = NoCheckpoint
    BY <1>0, <1>5 DEF ResumeSpawns, Unused, Lifecycle, Stopped, Ended
  <2> QED
    BY <1>5, <2>1 DEF ResumeSpawns, Custody!HandOver, Stopped
<1>6. CASE Crash
  <2>1. Custody!Lose
    BY <1>6 DEF Crash, Custody!Lose
  <2> QED
    BY <1>1, <2>1 DEF Custody!Next, Stopped
<1>7. ASSUME NEW r \in Runs, RunReturns(r) PROVE resumedFrom' = resumedFrom
  BY <1>7 DEF RunReturns
<1>8. CASE Custody!Keep \/ \E r \in Runs : Custody!HandOver(r)
  BY <1>1, <1>8 DEF Custody!Next, Stopped
<1>9. ASSUME NEW r \in Runs, PauseCheckpoint(r) \/ CancelCaught(r)
      PROVE  PausesHere(r) \/ (checkpoint' = checkpoint /\ resumedFrom' = resumedFrom)
  BY <1>9 DEF PausesHere, PauseCheckpoint, CancelCaught
<1> QED
  BY <1>2, <1>3, <1>4, <1>5, <1>6, <1>7, <1>8, <1>9, CheckpointSteps

\* Pausing, resuming and crashing keep the custody of checkpoints: every step
\* of JobRun saves, hands over or loses a checkpoint as CheckpointCustody
\* allows, or leaves them alone.
THEOREM ImplementsCustody == Spec => CustodySpec
<1>1. Init => Custody!Init
  BY CustodyInit
<1>2. IInv /\ [Next]_vars => Custody!Next
  BY CustodyStep
<1> QED
  BY <1>1, <1>2, Invariance, PTL DEF Spec, CustodySpec, Custody!Spec
=============================================================================
