-------------------------- MODULE CheckpointCustody --------------------------
(***************************************************************************)
(* What the pause checkpoint of a job promises, without runs, watchers or  *)
(* requests: a run leaves a checkpoint only once it has stopped; the store *)
(* keeps the last one; handing it to a run takes it out of the store, so   *)
(* it is handed over at most once, and a crash may lose it. JobRun         *)
(* implements this module.                                                 *)
(***************************************************************************)
EXTENDS Naturals

CONSTANTS Runs, Checkpoints, NoCheckpoint

VARIABLES
    stopped,   \* the runs whose pipeline has ended
    kept,      \* the checkpoint in the store, or NoCheckpoint
    given      \* given[r]: the checkpoint run r was started from

Given == {given[r] : r \in Runs}

Init ==
    /\ stopped = {}
    /\ kept = NoCheckpoint
    /\ given = [r \in Runs |-> NoCheckpoint]

\* A stopped run leaves a checkpoint that no run has had yet.
Keep ==
    /\ \E k \in Checkpoints : /\ k.run \in stopped'
                              /\ k \notin Given
                              /\ kept' = k
    /\ UNCHANGED given

\* The store's checkpoint, or its absence, goes to a run not yet started.
HandOver(r) ==
    /\ r \notin stopped
    /\ given[r] = NoCheckpoint
    /\ given' = [given EXCEPT ![r] = kept]
    /\ kept' = NoCheckpoint

Lose ==
    /\ kept' = NoCheckpoint
    /\ UNCHANGED given

\* Runs stop at any time and never start again.
Next ==
    /\ \E s \in SUBSET Runs : stopped' = stopped \union s
    /\ \/ Keep
       \/ \E r \in Runs : HandOver(r)
       \/ Lose
       \/ UNCHANGED <<kept, given>>

Spec == Init /\ [][Next]_<<stopped, kept, given>>

-----------------------------------------------------------------------------
\* No checkpoint starts two runs, and none is kept after it has started one.
HandedOverOnce ==
    /\ \A r, q \in Runs : given[r] = given[q] => r = q \/ given[r] = NoCheckpoint
    /\ kept # NoCheckpoint => kept \notin Given

\* The run that left a checkpoint has stopped before another starts from it.
LeftByStopped ==
    \A r \in Runs : given[r] # NoCheckpoint => given[r].run \in stopped
=============================================================================
