----------------------- MODULE CheckpointCustodyProofs -----------------------
(* What CheckpointCustody promises holds for any runs and checkpoints. *)
EXTENDS CheckpointCustody, TLAPS

\* What a checkpoint is: it names the run that left it.
NamesItsRun ==
    /\ \A k \in Checkpoints : k.run \in Runs
    /\ NoCheckpoint \notin Checkpoints

\* Every checkpoint in sight was left by a stopped run.
IInv ==
    /\ stopped \subseteq Runs
    /\ kept \in Checkpoints \union {NoCheckpoint}
    /\ given \in [Runs -> Checkpoints \union {NoCheckpoint}]
    /\ kept # NoCheckpoint => kept.run \in stopped
    /\ HandedOverOnce
    /\ LeftByStopped

LEMMA Step ==
    ASSUME NamesItsRun, IInv, [Next]_<<stopped, kept, given>>
    PROVE  IInv'
<1> USE DEF NamesItsRun, IInv, HandedOverOnce, LeftByStopped, Given
<1>1. CASE UNCHANGED <<stopped, kept, given>>
  BY <1>1
<1>2. CASE Next
  <2>1. stopped \subseteq stopped' /\ stopped' \subseteq Runs
    BY <1>2 DEF Next
  <2>2. CASE Keep
    BY <2>1, <2>2 DEF Keep
  <2>3. ASSUME NEW r \in Runs, HandOver(r) PROVE IInv'
    <3>1. /\ given' = [given EXCEPT ![r] = kept] /\ kept' = NoCheckpoint
          /\ given[r] = NoCheckpoint
      BY <2>3 DEF HandOver
    <3>2. given' \in [Runs -> Checkpoints \union {NoCheckpoint}]
      BY <3>1
    <3>3. HandedOverOnce'
      BY <3>1
    <3>4. LeftByStopped'
      BY <2>1, <3>1
    <3> QED
      BY <2>1, <3>1, <3>2, <3>3, <3>4
  <2>4. CASE Lose
    BY <2>1, <2>4 DEF Lose
  <2>5. CASE UNCHANGED <<kept, given>>
    BY <2>1, <2>5
  <2> QED
    BY <1>2, <2>2, <2>3, <2>4, <2>5 DEF Next
<1> QED
  BY <1>1, <1>2

\* A checkpoint starts at most one run, and has left the store by then; the
\* run that left it has stopped.
THEOREM CustodySafe ==
    ASSUME NamesItsRun
    PROVE  Spec => [](HandedOverOnce /\ LeftByStopped)
<1>0. IInv /\ [Next]_<<stopped, kept, given>> => IInv'
  BY Step
<1>1. Init => IInv
  BY DEF NamesItsRun, Init, IInv, HandedOverOnce, LeftByStopped, Given
<1>2. IInv => HandedOverOnce /\ LeftByStopped
  BY DEF IInv
<1> QED
  BY <1>0, <1>1, <1>2, PTL DEF Spec
=============================================================================
