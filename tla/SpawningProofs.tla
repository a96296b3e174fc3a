--------------------------- MODULE SpawningProofs ---------------------------
(* What holds of Spawning for any agents, subagents and timeouts. *)
EXTENDS Spawning, FiniteSetTheorems, TLAPS

SpawnTypes ==
    /\ work \in [Subagents -> Works]
    /\ outcome \in [Subagents -> {"none", "ok", "error"}]
    /\ future \in [Subagents -> {"none", "pending", "ok", "error"}]
    /\ session \in [Subagents -> {"none", "running", "completed", "failed"}]
    /\ age \in [Subagents -> 0..SweepAge]
    /\ blind \in SUBSET Subagents
    /\ faults \in 0..MaxFaults

CallTypes ==
    /\ call \in [Callers -> {"none", "batch", "collect"}]
    /\ batch \in [Callers -> Seq(Subagents)]
    /\ results \in [Callers -> Seq(Subagents)]
    /\ waits \in [Callers -> SUBSET Subagents]
    /\ waited \in [Callers -> 0..CollectTimeout]
    /\ answer \in [Callers -> [Subagents -> {"none", "ok", "error"}]]

\* How far a subagent is and what there is of it: no row before it starts, a
\* verdict only when it is done, and its timer has not been missed.
Told(s) ==
    /\ work[s] \in {"none", "queued"} => session[s] = "none"
    /\ future[s] \in {"ok", "error"} => work[s] = "done" /\ outcome[s] = future[s]
    /\ work[s] = "running" => age[s] <= ChildTimeout

\* Who is told of a success is told of one that is there.
Collected == \A c \in Callers, s \in Subagents : answer[c][s] = "ok" => future[s] = "ok"

Story == \A s \in Subagents : Told(s)

IInv == SpawnTypes /\ CallTypes /\ Story /\ Collected /\ RowSaysOutcome

spawning == <<work, outcome, future, session, age, blind, faults>>

-----------------------------------------------------------------------------
(* What the steps of the callers leave alone *)

LEMMA SpawningKept ==
    ASSUME IInv, UNCHANGED spawning
    PROVE  SpawnTypes' /\ Story' /\ RowSaysOutcome'
BY DEF IInv, spawning, SpawnTypes, Story, Told, RowSaysOutcome

LEMMA SaysIsTrue ==
    ASSUME IInv, NEW s \in Subagents
    PROVE  Says(s) \in {"ok", "error"} /\ (Says(s) = "ok" => future[s] = "ok")
BY DEF Says

\* What a collect says at once,
LEMMA FirstAnswers ==
    ASSUME IInv, NEW ids \in SUBSET Subagents, NEW new,
           new = [s \in Subagents |->
                     IF s \in ids /\ future[s] # "pending" THEN Says(s) ELSE "none"]
    PROVE  /\ new \in [Subagents -> {"none", "ok", "error"}]
           /\ \A s \in Subagents : new[s] = "ok" => future[s] = "ok"
BY SaysIsTrue

\* ... and when it returns, some of it from before.
LEMMA LastAnswers ==
    ASSUME IInv, NEW c \in Callers, NEW new,
           new = [s \in Subagents |-> IF s \in waits[c] THEN Says(s) ELSE answer[c][s]]
    PROVE  /\ new \in [Subagents -> {"none", "ok", "error"}]
           /\ \A s \in Subagents : new[s] = "ok" => future[s] = "ok"
<1>1. /\ answer[c] \in [Subagents -> {"none", "ok", "error"}]
      /\ \A s \in Subagents : answer[c][s] = "ok" => future[s] = "ok"
  BY DEF IInv, CallTypes, Collected
<1> QED BY <1>1, SaysIsTrue

LEMMA UnblocksKeeps ==
    ASSUME IInv, NEW c \in Callers, Unblocks(c), NEW f, future' = f,
           \A s \in Subagents : future[s] \in {"ok", "error"} => f[s] = future[s]
    PROVE  CallTypes' /\ Collected'
<1>1. CallTypes'
  <2>1. /\ call' \in [Callers -> {"none", "batch", "collect"}]
        /\ waits' \in [Callers -> SUBSET Subagents]
        /\ waited' \in [Callers -> 0..CollectTimeout]
    BY SpawningAssumption DEF IInv, CallTypes, Unblocks
  <2>2. <<>> \in Seq(Subagents)
    OBVIOUS
  <2>3. batch' \in [Callers -> Seq(Subagents)] /\ results' \in [Callers -> Seq(Subagents)]
    BY <2>2 DEF IInv, CallTypes, Unblocks
  <2>4. answer' \in [Callers -> [Subagents -> {"none", "ok", "error"}]]
    BY DEF IInv, CallTypes, Unblocks, NoAnswer
  <2> QED BY <2>1, <2>3, <2>4 DEF CallTypes
<1>2. ASSUME NEW d \in Callers, NEW s \in Subagents
      PROVE  answer'[d][s] = "ok" => future'[s] = "ok"
  <2>1. CASE d = c
    BY <2>1 DEF IInv, CallTypes, Unblocks, NoAnswer
  <2>2. CASE d # c
    BY <2>2 DEF IInv, SpawnTypes, CallTypes, Collected, Unblocks
  <2> QED BY <2>1, <2>2
<1> QED BY <1>1, <1>2 DEF Collected

\* Futures that have a verdict keep it, so do those who have collected it.
LEMMA CollectedKept ==
    ASSUME IInv, UNCHANGED calls,
           \A s \in Subagents : future[s] \in {"ok", "error"} => future'[s] = future[s]
    PROVE  CallTypes' /\ Collected'
<1>1. CallTypes'
  BY DEF IInv, CallTypes, calls, fanned, collecting
<1>2. Collected'
  BY DEF IInv, SpawnTypes, CallTypes, Collected, calls, collecting
<1> QED BY <1>1, <1>2

LEMMA StoresIsTyped ==
    ASSUME SpawnTypes, NEW s \in Subagents,
           NEW status \in {"running", "completed", "failed"}, Stores(s, status)
    PROVE  /\ session' \in [Subagents -> {"none", "running", "completed", "failed"}]
           /\ blind \subseteq blind' /\ blind' \in SUBSET Subagents
           /\ faults' \in 0..MaxFaults
           /\ session'[s] = status \/ s \in blind'
           /\ \A t \in Subagents \ {s} : session'[t] = session[t]
BY SpawningAssumption DEF SpawnTypes, Stores, StoreFails

-----------------------------------------------------------------------------
(* The inductive step, for each action *)

LEMMA InitInv == Init => IInv
<1> SUFFICES ASSUME Init PROVE IInv
  OBVIOUS
<1>1. SpawnTypes
  BY SpawningAssumption DEF Init, SpawnTypes, Works
<1>2. <<>> \in Seq(Subagents)
  OBVIOUS
<1>3. CallTypes
  BY <1>2, SpawningAssumption DEF Init, CallTypes, NoAnswer
<1>4. Story /\ Collected /\ RowSaysOutcome
  BY DEF Init, Story, Told, Collected, RowSaysOutcome, NoAnswer
<1> QED BY <1>1, <1>3, <1>4 DEF IInv

LEMMA RunBackgroundInv ==
    ASSUME IInv, NEW c \in Callers, NEW s \in Subagents, RunBackground(c, s)
    PROVE  IInv'
<1>1. SpawnTypes'
  BY DEF RunBackground, IInv, SpawnTypes, Works
<1>2. Story' /\ RowSaysOutcome'
  BY DEF RunBackground, IInv, SpawnTypes, Story, Told, RowSaysOutcome, Unused
<1>3. \A t \in Subagents : future[t] \in {"ok", "error"} => future'[t] = future[t]
  BY DEF RunBackground, IInv, SpawnTypes, Story, Told, Unused
<1>4. CallTypes' /\ Collected'
  <2>1. NoAnswer \in [Subagents -> {"none", "ok", "error"}] /\ \A t \in Subagents : NoAnswer[t] # "ok"
    BY DEF NoAnswer
  <2>2. answer' = [answer EXCEPT ![c] = NoAnswer] /\ UNCHANGED <<call, waits, fanned, waited>>
    BY DEF RunBackground
  <2> QED BY <1>3, <2>1, <2>2 DEF IInv, CallTypes, Collected, fanned
<1> QED BY <1>1, <1>2, <1>4 DEF IInv

LEMMA BatchesAreSequences ==
    ASSUME NEW b \in Batches
    PROVE  b \in Seq(Subagents) /\ \A i \in DOMAIN b : b[i] \in Unused
<1>1. Cardinality(Unused) \in Nat
  BY SpawningAssumption, FS_Subset, FS_CardinalityType DEF Unused
<1>2. PICK n \in 1..Cardinality(Unused) : b \in [1..n -> Unused]
  BY DEF Batches
<1> QED BY <1>1, <1>2 DEF Unused

LEMMA RunBatchInv ==
    ASSUME IInv, NEW c \in Callers, NEW b \in Batches, RunBatch(c, b)
    PROVE  IInv'
<1>1. SpawnTypes'
  BY DEF RunBatch, IInv, SpawnTypes, Works
<1>2. Story' /\ RowSaysOutcome'
  <2>1. \A s \in Subagents : \/ work'[s] = work[s]
                             \/ work'[s] = "queued" /\ work[s] = "none"
    BY BatchesAreSequences DEF RunBatch, IInv, SpawnTypes, Unused
  <2>2. UNCHANGED <<outcome, future, session, age, blind>>
    BY DEF RunBatch
  <2> QED BY <2>1, <2>2 DEF IInv, Story, Told, RowSaysOutcome
<1>3. CallTypes'
  <2>1. <<>> \in Seq(Subagents) /\ {b[i] : i \in DOMAIN b} \in SUBSET Subagents
    BY BatchesAreSequences DEF Unused
  <2> QED BY <2>1, BatchesAreSequences DEF RunBatch, IInv, CallTypes, NoAnswer
<1>4. Collected'
  BY DEF RunBatch, IInv, CallTypes, Collected, NoAnswer
<1> QED BY <1>1, <1>2, <1>3, <1>4 DEF IInv

LEMMA RefusedInv ==
    ASSUME IInv, NEW s \in Subagents, Refused(s)
    PROVE  IInv'
<1>1. SpawnTypes'
  BY DEF Refused, Answers, IInv, SpawnTypes, Works
<1>2. Story' /\ RowSaysOutcome'
  BY DEF Refused, Answers, IInv, SpawnTypes, Story, Told, RowSaysOutcome
<1>3. \A t \in Subagents : future[t] \in {"ok", "error"} => future'[t] = future[t]
  BY DEF Refused, Answers, IInv, SpawnTypes
<1>4. CallTypes' /\ Collected'
  BY <1>3, CollectedKept DEF Refused
<1> QED BY <1>1, <1>2, <1>4 DEF IInv

LEMMA StartsInv ==
    ASSUME IInv, NEW s \in Subagents, Starts(s)
    PROVE  IInv'
<1>1. /\ session' \in [Subagents -> {"none", "running", "completed", "failed"}]
      /\ blind \subseteq blind' /\ blind' \in SUBSET Subagents
      /\ faults' \in 0..MaxFaults
      /\ \A t \in Subagents \ {s} : session'[t] = session[t]
  BY StoresIsTyped DEF Starts, IInv
<1>2. /\ work' = [work EXCEPT ![s] = "running"] /\ work[s] = "queued"
      /\ age' = [age EXCEPT ![s] = 0] /\ UNCHANGED <<outcome, future, calls>>
  BY DEF Starts
<1>3. SpawnTypes'
  BY <1>1, <1>2, SpawningAssumption DEF IInv, SpawnTypes, Works
<1>4. Story' /\ RowSaysOutcome'
  BY <1>1, <1>2, SpawningAssumption
     DEF IInv, SpawnTypes, Story, Told, RowSaysOutcome
<1>5. CallTypes' /\ Collected'
  BY <1>2, CollectedKept
<1> QED BY <1>3, <1>4, <1>5 DEF IInv

\* A subagent that was alive ends, well or not.
LEMMA EndsInv ==
    ASSUME IInv, NEW s \in Subagents, NEW how \in {"ok", "error"},
           work[s] \in Alive, Ends(s, how), Unblocks(s),
           UNCHANGED <<future, session, age, blind, faults>>
    PROVE  IInv'
<1>1. SpawnTypes'
  BY DEF Ends, IInv, SpawnTypes, Works
<1>2. Story' /\ RowSaysOutcome'
  BY DEF Ends, Alive, IInv, SpawnTypes, Story, Told, RowSaysOutcome
<1>3. CallTypes' /\ Collected'
  BY UnblocksKeeps DEF Callers
<1> QED BY <1>1, <1>2, <1>3 DEF IInv

LEMMA FinishesInv ==
    ASSUME IInv, NEW s \in Subagents, Finishes(s)
    PROVE  IInv'
BY EndsInv DEF Finishes

LEMMA TimesOutInv ==
    ASSUME IInv, NEW s \in Subagents, TimesOut(s)
    PROVE  IInv'
<1>1. CASE Ends(s, "error") /\ Unblocks(s)
  BY <1>1, EndsInv DEF TimesOut, Alive
<1>2. CASE work' = [work EXCEPT ![s] = "absorbed"] /\ UNCHANGED <<outcome, calls>>
  <2>1. work[s] = "running" /\ UNCHANGED <<future, session, age, blind, faults>>
    BY DEF TimesOut
  <2>2. SpawnTypes'
    BY <1>2, <2>1 DEF IInv, SpawnTypes, Works
  <2>3. Story' /\ RowSaysOutcome'
    BY <1>2, <2>1 DEF IInv, SpawnTypes, Story, Told, RowSaysOutcome
  <2>4. CallTypes' /\ Collected'
    BY <1>2, <2>1, CollectedKept
  <2> QED BY <2>2, <2>3, <2>4 DEF IInv
<1> QED BY <1>1, <1>2 DEF TimesOut

LEMMA SavesInv ==
    ASSUME IInv, NEW s \in Subagents, Saves(s)
    PROVE  IInv'
<1> DEFINE status == IF outcome[s] = "ok" THEN "completed" ELSE "failed"
<1>1. /\ work[s] = "saving" /\ Answers(s, outcome[s])
      /\ age' = [age EXCEPT ![s] = IF session'[s] = "running" THEN @ ELSE 0]
      /\ UNCHANGED calls
  BY DEF Saves
<1>2. /\ session' \in [Subagents -> {"none", "running", "completed", "failed"}]
      /\ blind \subseteq blind' /\ blind' \in SUBSET Subagents
      /\ faults' \in 0..MaxFaults
      /\ session'[s] \in {"none", status} \/ s \in blind'
      /\ \A t \in Subagents \ {s} : session'[t] = session[t]
  <2>1. CASE session[s] = "none"
    BY <2>1 DEF Saves, IInv, SpawnTypes
  <2>2. CASE session[s] # "none"
    <3>1. Stores(s, status)
      BY <2>2 DEF Saves
    <3> HIDE DEF status
    <3>2. status \in {"running", "completed", "failed"}
      BY DEF status
    <3> QED BY <3>1, <3>2, StoresIsTyped DEF IInv
  <2> QED BY <2>1, <2>2
<1>3. outcome' = outcome
  BY <1>1 DEF Answers, IInv, SpawnTypes
<1>4. SpawnTypes'
  <2>1. age' \in [Subagents -> 0..SweepAge]
    BY <1>1, SpawningAssumption DEF IInv, SpawnTypes
  <2>2. work' \in [Subagents -> Works]
    BY <1>1 DEF Answers, IInv, SpawnTypes, Works
  <2>3. future' \in [Subagents -> {"none", "pending", "ok", "error"}]
    BY <1>1 DEF Answers, IInv, SpawnTypes
  <2> QED BY <1>2, <1>3, <2>1, <2>2, <2>3 DEF IInv, SpawnTypes
<1>5. Story' /\ RowSaysOutcome'
  BY <1>1, <1>2, <1>3 DEF Answers, IInv, SpawnTypes, Story, Told, RowSaysOutcome
<1>6. \A t \in Subagents : future[t] \in {"ok", "error"} => future'[t] = future[t]
  BY <1>1 DEF Answers, IInv, SpawnTypes
<1>7. CallTypes' /\ Collected'
  BY <1>1, <1>6, CollectedKept
<1> QED BY <1>4, <1>5, <1>7 DEF IInv

LEMMA SweepInv ==
    ASSUME IInv, Sweep
    PROVE  IInv'
<1>1. SpawnTypes'
  BY SpawningAssumption DEF Sweep, IInv, SpawnTypes
<1>2. Story' /\ RowSaysOutcome'
  BY DEF Sweep, IInv, SpawnTypes, Story, Told, RowSaysOutcome
<1>3. CallTypes' /\ Collected'
  BY CollectedKept DEF Sweep
<1> QED BY <1>1, <1>2, <1>3 DEF IInv

LEMMA BatchTakesInv ==
    ASSUME IInv, NEW c \in Callers, NEW s \in Subagents, BatchTakes(c, s)
    PROVE  IInv'
<1>1. SpawnTypes' /\ Story' /\ RowSaysOutcome'
  BY SpawningKept DEF BatchTakes, spawning
<1>2. CallTypes'
  <2>1. Append(results[c], s) \in Seq(Subagents)
    BY DEF IInv, CallTypes
  <2> QED BY <2>1 DEF BatchTakes, IInv, CallTypes, collecting
<1>3. Collected'
  BY DEF BatchTakes, IInv, Collected, collecting
<1> QED BY <1>1, <1>2, <1>3 DEF IInv

LEMMA BatchReturnsInv ==
    ASSUME IInv, NEW c \in Callers, BatchReturns(c) \/ CallCancelled(c)
    PROVE  IInv'
<1>1. Unblocks(c) /\ UNCHANGED spawning
  BY DEF BatchReturns, CallCancelled, spawning
<1>2. SpawnTypes' /\ Story' /\ RowSaysOutcome'
  BY <1>1, SpawningKept
<1>3. CallTypes' /\ Collected'
  BY <1>1, UnblocksKeeps DEF spawning
<1> QED BY <1>2, <1>3 DEF IInv

LEMMA CollectsInv ==
    ASSUME IInv, NEW c \in Callers, NEW ids \in SUBSET Subagents, Collects(c, ids)
    PROVE  IInv'
<1>1. SpawnTypes' /\ Story' /\ RowSaysOutcome'
  BY SpawningKept DEF Collects, spawning
<1> DEFINE new == [s \in Subagents |->
                      IF s \in ids /\ future[s] # "pending" THEN Says(s) ELSE "none"]
           wait == {s \in ids : future[s] = "pending"}
           what == IF \E s \in ids : future[s] = "pending" THEN "collect" ELSE "none"
<1>2. /\ new \in [Subagents -> {"none", "ok", "error"}]
      /\ \A s \in Subagents : new[s] = "ok" => future[s] = "ok"
  BY FirstAnswers
<1>3. /\ call' = [call EXCEPT ![c] = what]
      /\ waits' = [waits EXCEPT ![c] = wait]
      /\ answer' = [answer EXCEPT ![c] = new]
      /\ UNCHANGED <<future, batch, results, waited>>
  BY DEF Collects, fanned
<1>4. what \in {"none", "batch", "collect"} /\ wait \in SUBSET Subagents
  OBVIOUS
<1> HIDE DEF new, wait, what
<1>5. CallTypes'
  BY <1>2, <1>3, <1>4 DEF IInv, CallTypes
<1>6. Collected'
  BY <1>2, <1>3 DEF IInv, CallTypes, Collected
<1> QED BY <1>1, <1>5, <1>6 DEF IInv

LEMMA CollectReturnsInv ==
    ASSUME IInv, NEW c \in Callers, CollectReturns(c)
    PROVE  IInv'
<1>1. SpawnTypes' /\ Story' /\ RowSaysOutcome'
  BY SpawningKept DEF CollectReturns, CollectIsOver, spawning
<1> DEFINE new == [s \in Subagents |-> IF s \in waits[c] THEN Says(s) ELSE answer[c][s]]
<1>2. /\ new \in [Subagents -> {"none", "ok", "error"}]
      /\ \A s \in Subagents : new[s] = "ok" => future[s] = "ok"
  BY LastAnswers
<1>3. /\ call' = [call EXCEPT ![c] = "none"]
      /\ waits' = [waits EXCEPT ![c] = {}]
      /\ waited' = [waited EXCEPT ![c] = 0]
      /\ answer' = [answer EXCEPT ![c] = new]
      /\ UNCHANGED <<future, batch, results>>
  BY DEF CollectReturns, CollectIsOver, fanned, IInv, CallTypes
<1> HIDE DEF new
<1>4. CallTypes'
  BY <1>2, <1>3, SpawningAssumption DEF IInv, CallTypes
<1>5. Collected'
  BY <1>2, <1>3 DEF IInv, CallTypes, Collected
<1> QED BY <1>1, <1>4, <1>5 DEF IInv

LEMMA TickInv ==
    ASSUME IInv, Tick
    PROVE  IInv'
<1>1. SpawnTypes'
  BY SpawningAssumption DEF Tick, IInv, SpawnTypes
<1>2. Story' /\ RowSaysOutcome'
  BY SpawningAssumption DEF Tick, IInv, SpawnTypes, Story, Told, RowSaysOutcome
<1>3. CallTypes'
  BY SpawningAssumption DEF Tick, IInv, CallTypes, fanned
<1>4. Collected'
  BY DEF Tick, IInv, Collected
<1> QED BY <1>1, <1>2, <1>3, <1>4 DEF IInv

LEMMA CrashInv ==
    ASSUME IInv, Crash
    PROVE  IInv'
<1>1. SpawnTypes'
  BY SpawningAssumption DEF Crash, IInv, SpawnTypes, Works
<1>2. Story' /\ RowSaysOutcome'
  BY DEF Crash, IInv, SpawnTypes, Story, Told, RowSaysOutcome
<1>3. <<>> \in Seq(Subagents)
  OBVIOUS
<1>4. CallTypes'
  BY <1>3, SpawningAssumption DEF Crash, CallTypes, NoAnswer
<1>5. Collected'
  BY DEF Crash, Collected, NoAnswer
<1> QED BY <1>1, <1>2, <1>4, <1>5 DEF IInv

LEMMA StepInv == IInv /\ [Next]_vars => IInv'
<1> SUFFICES ASSUME IInv, [Next]_vars PROVE IInv'
  OBVIOUS
<1>1. ASSUME NEW s \in Subagents, Worker(s) \/ Finishes(s) PROVE IInv'
  BY <1>1, RefusedInv, StartsInv, TimesOutInv, SavesInv, FinishesInv DEF Worker
<1>2. ASSUME NEW c \in Callers, NEW s \in Subagents, RunBackground(c, s) PROVE IInv'
  BY <1>2, RunBackgroundInv
<1>3. ASSUME NEW c \in Callers, NEW b \in Batches, RunBatch(c, b) PROVE IInv'
  BY <1>3, RunBatchInv
<1>4. ASSUME NEW c \in Callers, NEW ids \in SUBSET (Subagents \ Unused), Collects(c, ids)
      PROVE  IInv'
  BY <1>4, CollectsInv
<1>5. ASSUME NEW c \in Callers, Waiter(c) \/ CallCancelled(c) PROVE IInv'
  BY <1>5, BatchTakesInv, BatchReturnsInv, CollectReturnsInv DEF Waiter
<1>6. ASSUME UNCHANGED vars PROVE IInv'
  BY <1>6, SpawningKept, CollectedKept DEF IInv, vars, spawning
<1> QED
  BY <1>1, <1>2, <1>3, <1>4, <1>5, <1>6, SweepInv, TickInv, CrashInv DEF Next

-----------------------------------------------------------------------------
(* What follows *)

LEMMA Invariance == Spec => []IInv
BY InitInv, StepInv, PTL DEF Spec

\* Values keep their types and timers their bounds.
THEOREM SpawningTypeOK == Spec => []TypeOK
<1>1. IInv => TypeOK
  BY DEF IInv, SpawnTypes, CallTypes, TypeOK
<1> QED BY <1>1, Invariance, PTL

\* When a step may tell c that s has failed.
Truthful(c, s) ==
    answer'[c][s] = "error" /\ answer[c][s] # "error" =>
        \/ outcome[s] = "error"
        \/ future[s] = "none"
        \/ future[s] = "pending" /\ waited[c] >= CollectTimeout

LEMMA AnswersKept ==
    ASSUME IInv, [Next]_vars,
           ~ \E d \in Callers : \/ CollectReturns(d)
                                \/ \E ids \in SUBSET (Subagents \ Unused) : Collects(d, ids)
    PROVE  \A c \in Callers : answer'[c] \in {answer[c], NoAnswer}
<1>1. ASSUME NEW t \in Subagents, Worker(t) \/ Finishes(t)
      PROVE  answer' = answer \/ answer' = [answer EXCEPT ![t] = NoAnswer]
  BY <1>1 DEF Worker, Refused, Starts, TimesOut, Saves, Finishes, Unblocks, calls, collecting
<1>2. ASSUME NEW d \in Callers,
             \/ \E t \in Subagents : RunBackground(d, t) \/ BatchTakes(d, t)
             \/ \E b \in Batches : RunBatch(d, b)
             \/ BatchReturns(d) \/ CallCancelled(d)
      PROVE  answer' = answer \/ answer' = [answer EXCEPT ![d] = NoAnswer]
  BY <1>2 DEF RunBackground, RunBatch, BatchTakes, BatchReturns, CallCancelled, Unblocks, collecting
<1>3. CASE Sweep \/ Tick \/ UNCHANGED vars
  BY <1>3 DEF Sweep, Tick, vars, calls, collecting
<1>4. CASE Crash
  BY <1>4 DEF Crash
<1>5. DOMAIN answer = Callers
  BY DEF IInv, CallTypes
<1> QED BY <1>1, <1>2, <1>3, <1>4, <1>5 DEF Next, Waiter

LEMMA CollectsTruthful ==
    ASSUME IInv, NEW d \in Callers, NEW ids \in SUBSET Subagents, Collects(d, ids),
           NEW c \in Callers, NEW s \in Subagents
    PROVE  Truthful(c, s)
<1>1. CASE c # d
  BY <1>1 DEF Collects, IInv, CallTypes, Truthful
<1>2. CASE c = d
  <2>1. answer'[c][s] = IF s \in ids /\ future[s] # "pending" THEN Says(s) ELSE "none"
    BY <1>2 DEF Collects, IInv, CallTypes
  <2>2. future[s] \in {"none", "pending", "ok", "error"}
        /\ (future[s] = "error" => outcome[s] = "error")
    BY DEF IInv, SpawnTypes, Story, Told
  <2> QED BY <2>1, <2>2 DEF Says, Truthful
<1> QED BY <1>1, <1>2

LEMMA CollectReturnsTruthful ==
    ASSUME IInv, NEW d \in Callers, CollectReturns(d), NEW c \in Callers, NEW s \in Subagents
    PROVE  Truthful(c, s)
<1>1. CASE c # d
  BY <1>1 DEF CollectReturns, CollectIsOver, IInv, CallTypes, Truthful
<1>2. CASE c = d
  <2>1. answer'[c][s] = IF s \in waits[c] THEN Says(s) ELSE answer[c][s]
    BY <1>2 DEF CollectReturns, CollectIsOver, IInv, CallTypes
  <2>2. future[s] \in {"none", "pending", "ok", "error"}
        /\ (future[s] = "error" => outcome[s] = "error")
    BY DEF IInv, SpawnTypes, Story, Told
  <2>3. s \in waits[c] /\ future[s] = "pending" => waited[c] >= CollectTimeout
    BY <1>2 DEF CollectReturns
  <2> QED BY <2>1, <2>2, <2>3 DEF Says, Truthful
<1> QED BY <1>1, <1>2

\* A collect says ok of what has succeeded and of nothing else, however many
\* collect it, in whatever order and however often; and it says error of what may
\* yet succeed only when its time is up.
THEOREM SpawningCollectedIsTrue == Spec => CollectedIsTrue
<1> DEFINE Succeeded == \A c \in Callers, s \in Subagents :
                            answer[c][s] = "ok" => outcome[s] = "ok" /\ future[s] = "ok"
           Failed == \A c \in Callers, s \in Subagents :
                         answer'[c][s] = "error" /\ answer[c][s] # "error" =>
                             \/ outcome[s] = "error"
                             \/ future[s] = "none"
                             \/ future[s] = "pending" /\ waited[c] >= CollectTimeout
<1>1. IInv => Succeeded
  BY DEF IInv, Collected, Story, Told
<1>2. IInv /\ [Next]_vars => [Failed]_vars
  <2> SUFFICES ASSUME IInv, Next, NEW c \in Callers, NEW s \in Subagents
               PROVE  Truthful(c, s)
    BY DEF Truthful
  <2>1. CASE \E d \in Callers : \/ CollectReturns(d)
                                \/ \E ids \in SUBSET (Subagents \ Unused) : Collects(d, ids)
    BY <2>1, CollectsTruthful, CollectReturnsTruthful
  <2>2. CASE answer'[c] \in {answer[c], NoAnswer}
    BY <2>2 DEF Truthful, NoAnswer
  <2> QED BY <2>1, <2>2, AnswersKept
<1>3. Spec => []Succeeded /\ [][Failed]_vars
  BY <1>1, <1>2, Invariance, PTL DEF Spec
<1> QED BY <1>3 DEF CollectedIsTrue

\* The row of a subagent that is done says how it ended, unless the store
\* failed: no sweep changes it.
THEOREM SpawningRowSaysOutcome == Spec => []RowSaysOutcome
<1>1. IInv => RowSaysOutcome
  BY DEF IInv
<1> QED BY <1>1, Invariance, PTL

\* The sweep never marks a subagent that is running under its timeout.
THEOREM SpawningSweepSpares == Spec => SweepSparesRunning
<1> DEFINE Spares ==
        \A s \in Subagents :
            session[s] = "running" /\ session'[s] = "failed" => work[s] # "running"
<1>1. IInv /\ [Next]_vars => [Spares]_vars
  <2> SUFFICES ASSUME IInv, Next, NEW s \in Subagents,
                      session[s] = "running", session'[s] = "failed"
               PROVE  work[s] # "running"
    OBVIOUS
  <2>1. ASSUME NEW t \in Subagents, Refused(t) \/ TimesOut(t) \/ Finishes(t)
        PROVE  work[s] # "running"
    BY <2>1 DEF Refused, TimesOut, Finishes
  <2>2. ASSUME NEW t \in Subagents, Starts(t) PROVE work[s] # "running"
    BY <2>2 DEF Starts, Stores, StoreFails, IInv, SpawnTypes
  <2>3. ASSUME NEW t \in Subagents, Saves(t) PROVE work[s] # "running"
    <3>1. CASE t = s
      BY <2>3, <3>1 DEF Saves
    <3>2. CASE t # s
      BY <2>3, <3>2 DEF Saves, Stores, StoreFails, IInv, SpawnTypes
    <3> QED BY <3>1, <3>2
  <2>4. ASSUME NEW c \in Callers,
               \/ \E t \in Subagents : RunBackground(c, t)
               \/ \E b \in Batches : RunBatch(c, b)
               \/ \E ids \in SUBSET (Subagents \ Unused) : Collects(c, ids)
               \/ Waiter(c) \/ CallCancelled(c)
        PROVE  work[s] # "running"
    BY <2>4 DEF RunBackground, RunBatch, Collects, Waiter, BatchTakes, BatchReturns,
                CollectReturns, CollectIsOver, CallCancelled
  <2>5. CASE Sweep
    BY <2>5, SpawningAssumption DEF Sweep, IInv, Story, Told, SpawnTypes
  <2>6. CASE Tick \/ Crash
    BY <2>6 DEF Tick, Crash
  <2> QED BY <2>1, <2>2, <2>3, <2>4, <2>5, <2>6 DEF Next, Worker
<1>2. Spec => [][Spares]_vars
  BY <1>1, Invariance, PTL DEF Spec
<1> QED BY <1>2 DEF SweepSparesRunning

-----------------------------------------------------------------------------
(* Batches, and who waits *)

TakenBy(c) == {results[c][i] : i \in DOMAIN results[c]}

\* A batch is what its caller waits for and what it has taken, one or the
\* other, and no task of it has a future.
Fanned(c) ==
    /\ call[c] # "batch" => batch[c] = <<>> /\ results[c] = <<>>
    /\ call[c] = "batch" => /\ Asked[c] # {}
                            /\ Asked[c] = waits[c] \cup TakenBy(c)
                            /\ waits[c] \cap TakenBy(c) = {}
    /\ \A s \in Asked[c] : work[s] # "none" /\ future[s] = "none"

\* Who has ended has ended somehow, and only who lives waits or has collected.
Settles(s) ==
    /\ work[s] \in {"saving", "done"} => outcome[s] # "none"
    /\ work[s] \in {"none", "lost"} => future[s] = "none"
    /\ work[s] \notin Alive => call[s] = "none" /\ answer[s] = NoAnswer

Fans == \A c \in Callers : Fanned(c)
Holds == \A s \in Subagents : Settles(s)

PInv == IInv /\ Fans /\ Holds

\* Nothing asked for is new, and no new subagent has a future.
LEMMA FreshIsNobodys ==
    ASSUME PInv, NEW s \in Subagents, work[s] = "none"
    PROVE  /\ future[s] = "none" /\ Verdict[s] = "none" /\ s \notin Open
           /\ \A c \in Callers : s \notin Asked[c]
BY DEF PInv, Fans, Fanned, Holds, Settles, Verdict, Open

LEMMA IdleHasNoBatch ==
    ASSUME PInv, NEW c \in Callers, call[c] # "batch"
    PROVE  Asked[c] = {} /\ batch[c] = <<>> /\ results[c] = <<>>
BY DEF PInv, Fans, Fanned, Asked

LEMMA WhoWaitsLives ==
    ASSUME PInv, NEW c \in Callers, Active(c) \/ call[c] # "none"
    PROVE  Promised!Active(c)
BY DEF PInv, Holds, Settles, Active, Alive, Promised!Active, Verdict

\* Steps that leave the calls and the presence of a future and of a verdict
\* alone.
LEMMA BatchesKept ==
    ASSUME PInv, UNCHANGED <<call, batch, results, waits, answer>>,
           \A s \in Subagents : /\ work[s] # "none" => work'[s] # "none"
                                /\ future[s] = "none" /\ work[s] # "none" => future'[s] = "none"
    PROVE  Fans' /\ UNCHANGED Asked
<1>1. UNCHANGED Asked
  BY DEF Asked
<1>3. \A c \in Callers : Asked[c] \subseteq Subagents
  BY DEF PInv, IInv, CallTypes, Asked
<1> QED BY <1>1, <1>3 DEF PInv, Fans, Fanned, TakenBy

-----------------------------------------------------------------------------
(* Each step of Spawning is a step of Promises, or none *)

LEMMA PromisedInit == Init => Promised!Init /\ Fans /\ Holds
<1> SUFFICES ASSUME Init PROVE Promised!Init /\ Fans /\ Holds
  OBVIOUS
<1>1. Asked = [c \in Callers |-> {}]
  BY DEF Init, Asked
<1>2. Verdict = NoAnswer /\ Open = {}
  BY DEF Init, Verdict, Open, NoAnswer
<1> QED
  BY <1>1, <1>2 DEF Init, Promised!Init, Promised!Callers, Promised!NoAnswer, Callers,
                    NoAnswer, Fans, Fanned, Holds, Settles

LEMMA RunBackgroundPromised ==
    ASSUME PInv, NEW c \in Callers, NEW s \in Subagents, RunBackground(c, s)
    PROVE  Fans' /\ Holds' /\ Promised!Background(s)
<1>1. /\ work[s] = "none" /\ Active(c) /\ call[c] = "none"
      /\ work' = [work EXCEPT ![s] = "queued"]
      /\ future' = [future EXCEPT ![s] = "pending"]
      /\ answer' = [answer EXCEPT ![c] = NoAnswer]
      /\ UNCHANGED <<outcome, call, batch, results, waits>>
  BY DEF RunBackground, Unused, Active, fanned
<1>2. work \in [Subagents -> Works] /\ DOMAIN future = Subagents
  BY DEF PInv, IInv, SpawnTypes
<1>3. Fans' /\ UNCHANGED Asked
  <2>1. UNCHANGED Asked
    BY <1>1 DEF Asked
  <2>2. \A d \in Callers : s \notin Asked[d] /\ Asked[d] \subseteq Subagents
    BY <1>1, FreshIsNobodys DEF PInv, IInv, CallTypes, Asked
  <2> QED BY <1>1, <1>2, <2>1, <2>2 DEF PInv, Fans, Fanned, TakenBy
<1>4. Holds'
  BY <1>1, <1>2 DEF PInv, IInv, CallTypes, Holds, Settles, Alive
<1>5. Verdict' = [Verdict EXCEPT ![s] = "pending"]
  BY <1>1, <1>2 DEF Verdict
<1>6. Open' = Open \cup {s}
  BY <1>1, <1>2 DEF Open
<1>7. Promised!Active(c) /\ Asked[c] = {} /\ Verdict[s] = "none"
  BY <1>1, WhoWaitsLives, IdleHasNoBatch, FreshIsNobodys
<1> QED
  BY <1>1, <1>3, <1>4, <1>5, <1>6, <1>7
     DEF Promised!Background, Promised!Callers, Callers, Promised!NoAnswer, NoAnswer

LEMMA RunBatchPromised ==
    ASSUME PInv, NEW c \in Callers, NEW b \in Batches, RunBatch(c, b)
    PROVE  Fans' /\ Holds' /\ \E S \in SUBSET Subagents : Promised!Ask(c, S)
<1> DEFINE S == {b[i] : i \in DOMAIN b}
<1>1. /\ Active(c) /\ call[c] = "none"
      /\ work' = [s \in Subagents |-> IF s \in S THEN "queued" ELSE work[s]]
      /\ call' = [call EXCEPT ![c] = "batch"]
      /\ batch' = [batch EXCEPT ![c] = b]
      /\ results' = [results EXCEPT ![c] = <<>>]
      /\ waits' = [waits EXCEPT ![c] = S]
      /\ answer' = [answer EXCEPT ![c] = NoAnswer]
      /\ UNCHANGED <<outcome, future>>
  BY DEF RunBatch, Active
<1>2. /\ work \in [Subagents -> Works] /\ DOMAIN future = Subagents
      /\ call \in [Callers -> {"none", "batch", "collect"}]
      /\ waits \in [Callers -> SUBSET Subagents]
      /\ batch \in [Callers -> Seq(Subagents)]
      /\ results \in [Callers -> Seq(Subagents)]
  BY DEF PInv, IInv, SpawnTypes, CallTypes
<1>3. S \in SUBSET Subagents /\ \A s \in S : work[s] = "none"
  BY BatchesAreSequences DEF Unused
<1>4. S # {}
  <2>1. Cardinality(Unused) \in Nat
    BY SpawningAssumption, FS_Subset, FS_CardinalityType DEF Unused
  <2>2. PICK n \in 1..Cardinality(Unused) : b \in [1..n -> Unused]
    BY DEF Batches
  <2>3. b[1] \in S
    BY <2>1, <2>2
  <2> QED BY <2>3
<1>5. Asked' = [Asked EXCEPT ![c] = S]
  BY <1>1, <1>2 DEF Asked
<1>6. results' = results /\ Asked[c] = {} /\ results[c] = <<>>
  <2>1. results[c] = <<>> /\ Asked[c] = {}
    BY <1>1, IdleHasNoBatch
  <2> QED BY <1>1, <1>2, <2>1
<1> HIDE DEF S
<1>7. Fans'
  <2> SUFFICES ASSUME NEW d \in Callers PROVE Fanned(d)'
    BY DEF Fans
  <2>1. CASE d = c
    <3>1. TakenBy(c)' = {}
      BY <1>6 DEF TakenBy
    <3>2. Asked'[c] = S /\ call'[c] = "batch" /\ waits'[c] = S
      BY <1>1, <1>2, <1>5 DEF Asked
    <3>3. \A s \in S : work'[s] = "queued" /\ future'[s] = "none"
      BY <1>1, <1>3, FreshIsNobodys
    <3> QED BY <1>4, <2>1, <3>1, <3>2, <3>3 DEF Fanned
  <2>2. CASE d # c
    <3>1. Asked'[d] = Asked[d] /\ call'[d] = call[d] /\ waits'[d] = waits[d] /\ batch'[d] = batch[d]
      BY <1>1, <1>2, <1>5, <2>2 DEF Asked
    <3>2. TakenBy(d)' = TakenBy(d) /\ results'[d] = results[d]
      BY <1>6 DEF TakenBy
    <3>3. \A s \in Asked[d] : s \in Subagents /\ work[s] # "none" /\ future[s] = "none"
      BY <1>2 DEF PInv, Fans, Fanned, Asked
    <3> QED BY <1>1, <3>1, <3>2, <3>3 DEF PInv, Fans, Fanned
  <2> QED BY <2>1, <2>2
<1>8. Holds'
  BY <1>1, <1>2, <1>3 DEF PInv, IInv, CallTypes, Holds, Settles, Alive, Active
<1>9. Verdict' = [s \in Subagents |-> IF s \in S THEN "pending" ELSE Verdict[s]]
  BY <1>1, <1>2, <1>3 DEF Verdict
<1>10. Open' = Open
  BY <1>1 DEF Open
<1>11. Promised!Active(c) /\ \A s \in S : Verdict[s] = "none"
  BY <1>1, <1>3, WhoWaitsLives, FreshIsNobodys
<1>12. Promised!Ask(c, S)
  BY <1>1, <1>4, <1>5, <1>6, <1>9, <1>10, <1>11 DEF Promised!Ask, Promised!NoAnswer, NoAnswer
<1> QED BY <1>3, <1>7, <1>8, <1>12

LEMMA AskedWithout ==
    ASSUME PInv, NEW c \in Callers, batch' = [batch EXCEPT ![c] = <<>>]
    PROVE  Asked' = [Asked EXCEPT ![c] = {}]
<1>1. DOMAIN <<>> = {}
  OBVIOUS
<1>2. batch'[c] = <<>> /\ \A d \in Callers \ {c} : batch'[d] = batch[d]
  BY DEF PInv, IInv, CallTypes
<1>3. Asked'[c] = {} /\ \A d \in Callers \ {c} : Asked'[d] = Asked[d]
  BY <1>1, <1>2 DEF Asked
<1>4. Asked' = [d \in Callers |-> Asked'[d]] /\ DOMAIN Asked = Callers
  BY DEF Asked
<1> QED BY <1>3, <1>4

\* A subagent that ends leaves whatever it is in.
LEMMA UnblocksLeaves ==
    ASSUME PInv, NEW c \in Callers, Unblocks(c)
    PROVE  Promised!Leaves(c)
<1>1. Asked' = [Asked EXCEPT ![c] = {}]
  BY AskedWithout DEF Unblocks
<1> QED
  BY <1>1 DEF Unblocks, Promised!Leaves, Promised!NoAnswer, NoAnswer

\* The batch that is left is gone; the others stay as they are.
LEMMA UnblocksFans ==
    ASSUME PInv, NEW c \in Callers, Unblocks(c),
           UNCHANGED future,
           \A s \in Subagents : work[s] # "none" => work'[s] # "none"
    PROVE  Fans'
<1>1. /\ Asked' = [Asked EXCEPT ![c] = {}] /\ DOMAIN Asked = Callers
      /\ \A d \in Callers : Asked[d] \subseteq Subagents
  <2>1. Asked' = [Asked EXCEPT ![c] = {}]
    BY AskedWithout DEF Unblocks
  <2>2. \A d \in Callers : Asked[d] \subseteq Subagents
    BY DEF Asked, PInv, IInv, CallTypes
  <2> QED BY <2>1, <2>2 DEF Asked
<1> SUFFICES ASSUME NEW d \in Callers PROVE Fanned(d)'
  BY DEF Fans
<1>2. CASE d = c
  BY <1>1, <1>2 DEF Unblocks, Fanned, PInv, IInv, CallTypes
<1>3. CASE d # c
  BY <1>1, <1>3 DEF Unblocks, Fanned, TakenBy, PInv, Fans, IInv, CallTypes
<1> QED BY <1>2, <1>3

\* A subagent that settles its verdict was pending and has nothing more open.
LEMMA EndsPromised ==
    ASSUME PInv, NEW s \in Subagents, NEW how \in {"ok", "error"},
           work[s] \in Alive, Ends(s, how), Unblocks(s), UNCHANGED future
    PROVE  Fans' /\ Holds' /\ Promised!Settle(s)
<1>1. /\ work \in [Subagents -> Works] /\ DOMAIN outcome = Subagents
      /\ DOMAIN call = Callers /\ DOMAIN answer = Callers
  BY DEF PInv, IInv, SpawnTypes, CallTypes
<1>2. /\ work' = [work EXCEPT ![s] = "saving"]
      /\ outcome' = [outcome EXCEPT ![s] = how]
  BY DEF Ends
<1>3. Fans'
  <2>1. s \in Callers /\ \A t \in Subagents : work[t] # "none" => work'[t] # "none"
    BY <1>1, <1>2 DEF Callers
  <2> QED BY <2>1, UnblocksFans
<1>4. Holds'
  BY <1>1, <1>2 DEF Unblocks, Alive, PInv, Holds, Settles, Callers
<1>5. Verdict[s] = "pending" /\ Verdict' = [Verdict EXCEPT ![s] = how]
  BY <1>1, <1>2 DEF Verdict, Alive
<1>6. Promised!Leaves(s) /\ Open' = Open
  BY UnblocksLeaves DEF Open, Callers
<1> QED BY <1>3, <1>4, <1>5, <1>6 DEF Promised!Settle

LEMMA RefusedPromised ==
    ASSUME PInv, NEW s \in Subagents, Refused(s)
    PROVE  Fans' /\ Holds' /\ Promised!Settle(s)
<1>1. /\ work \in [Subagents -> Works] /\ DOMAIN outcome = Subagents
      /\ future \in [Subagents -> {"none", "pending", "ok", "error"}]
      /\ results \in [Callers -> Seq(Subagents)] /\ DOMAIN answer = Callers
  BY DEF PInv, IInv, SpawnTypes, CallTypes
<1>2. /\ work[s] = "queued" /\ UNCHANGED calls
      /\ work' = [work EXCEPT ![s] = "done"]
      /\ outcome' = [outcome EXCEPT ![s] = "error"]
      /\ future' = [future EXCEPT ![s] = IF @ = "pending" THEN "error" ELSE @]
  BY DEF Refused, Answers
<1>3. \A t \in Subagents : /\ work[t] # "none" => work'[t] # "none"
                           /\ future[t] = "none" <=> future'[t] = "none"
  BY <1>1, <1>2
<1>4. Fans' /\ UNCHANGED Asked
  BY <1>2, <1>3, BatchesKept DEF calls, fanned, collecting
<1>5. Holds'
  BY <1>1, <1>2, <1>3 DEF PInv, Holds, Settles, Alive, calls, collecting
<1>6. Verdict[s] = "pending" /\ Verdict' = [Verdict EXCEPT ![s] = "error"]
  BY <1>1, <1>2 DEF Verdict
<1>7. Open' = Open
  BY <1>3 DEF Open
<1>8. Promised!Leaves(s)
  <2>1. call[s] = "none" /\ answer[s] = NoAnswer
    BY <1>2 DEF PInv, Holds, Settles, Alive
  <2>2. Asked[s] = {} /\ results[s] = <<>>
    BY <2>1, IdleHasNoBatch DEF Callers
  <2>3. Asked' = Asked /\ results' = results /\ answer' = answer
    BY <1>2, <1>4 DEF calls, fanned, collecting
  <2>4. s \in Callers /\ Asked = [c \in Callers |-> Asked[c]]
    BY DEF Callers, Asked
  <2>5. Asked' = [Asked EXCEPT ![s] = {}]
    BY <2>2, <2>3, <2>4
  <2>6. results' = [results EXCEPT ![s] = <<>>] /\ answer' = [answer EXCEPT ![s] = NoAnswer]
    BY <1>1, <2>1, <2>2, <2>3, <2>4 DEF PInv, IInv, CallTypes
  <2> QED
    BY <2>5, <2>6 DEF Promised!Leaves, Promised!NoAnswer, NoAnswer
<1> QED BY <1>4, <1>5, <1>6, <1>7, <1>8 DEF Promised!Settle

\* Steps of a subagent that Promises does not see.
LEMMA HiddenStep ==
    ASSUME PInv, UNCHANGED <<call, batch, results, waits, answer>>,
           NEW s \in Subagents, NEW w, NEW o, NEW f,
           work' = [work EXCEPT ![s] = w],
           outcome' = [outcome EXCEPT ![s] = o],
           future' = [future EXCEPT ![s] = f],
           \/ work[s] \in {"queued", "running"} /\ w \in Alive
           \/ work[s] = "saving" /\ w = "done" /\ o = outcome[s],
           f = "none" <=> future[s] = "none"
    PROVE  Fans' /\ Holds' /\ UNCHANGED Promised!vars
<1>1. /\ work \in [Subagents -> Works] /\ DOMAIN outcome = Subagents
      /\ DOMAIN future = Subagents
  BY DEF PInv, IInv, SpawnTypes
<1>2. \A t \in Subagents : /\ work[t] # "none" => work'[t] # "none"
                           /\ future[t] = "none" <=> future'[t] = "none"
  BY <1>1 DEF Alive
<1>3. Fans' /\ UNCHANGED Asked
  BY <1>2, BatchesKept
<1>4. Holds'
  BY <1>1, <1>2 DEF PInv, Holds, Settles, Alive
<1>5. UNCHANGED Verdict
  BY <1>1 DEF Verdict, Alive
<1>6. UNCHANGED Open
  BY <1>2 DEF Open
<1> QED BY <1>3, <1>4, <1>5, <1>6 DEF Promised!vars

LEMMA StartsPromised ==
    ASSUME PInv, NEW s \in Subagents, Starts(s)
    PROVE  Fans' /\ Holds' /\ UNCHANGED Promised!vars
<1>1. /\ outcome' = [outcome EXCEPT ![s] = outcome[s]]
      /\ future' = [future EXCEPT ![s] = future[s]]
  BY DEF Starts, PInv, IInv, SpawnTypes
<1>2. /\ work[s] = "queued" /\ work' = [work EXCEPT ![s] = "running"] /\ "running" \in Alive
      /\ UNCHANGED <<call, batch, results, waits, answer>>
  BY DEF Starts, Alive, calls, fanned, collecting
<1> QED BY <1>1, <1>2, HiddenStep

LEMMA TimesOutPromised ==
    ASSUME PInv, NEW s \in Subagents, TimesOut(s)
    PROVE  Fans' /\ Holds' /\ (Promised!Settle(s) \/ UNCHANGED Promised!vars)
<1>1. CASE Ends(s, "error") /\ Unblocks(s)
  BY <1>1, EndsPromised DEF TimesOut, Alive
<1>2. CASE work' = [work EXCEPT ![s] = "absorbed"] /\ UNCHANGED <<outcome, calls>>
  <2>1. /\ outcome' = [outcome EXCEPT ![s] = outcome[s]]
        /\ future' = [future EXCEPT ![s] = future[s]]
    BY <1>2 DEF TimesOut, PInv, IInv, SpawnTypes
  <2>2. /\ work[s] = "running" /\ "absorbed" \in Alive
        /\ UNCHANGED <<call, batch, results, waits, answer>>
    BY <1>2 DEF TimesOut, Alive, calls, fanned, collecting
  <2> QED BY <1>2, <2>1, <2>2, HiddenStep
<1> QED BY <1>1, <1>2 DEF TimesOut

LEMMA SavesPromised ==
    ASSUME PInv, NEW s \in Subagents, Saves(s)
    PROVE  Fans' /\ Holds' /\ UNCHANGED Promised!vars
<1> DEFINE f == IF future[s] = "pending" THEN outcome[s] ELSE future[s]
<1>1. /\ work[s] = "saving" /\ UNCHANGED calls
      /\ work' = [work EXCEPT ![s] = "done"]
      /\ outcome' = [outcome EXCEPT ![s] = outcome[s]]
      /\ future' = [future EXCEPT ![s] = f]
  BY DEF Saves, Answers
<1>2. f = "none" <=> future[s] = "none"
  BY <1>1 DEF PInv, Holds, Settles
<1> HIDE DEF f
<1> QED
  BY <1>1, <1>2, HiddenStep DEF calls, fanned, collecting

-----------------------------------------------------------------------------
(* ... and each step of a caller *)

LEMMA BatchTakesPromised ==
    ASSUME PInv, NEW c \in Callers, NEW s \in Subagents, BatchTakes(c, s)
    PROVE  Fans' /\ Holds' /\ Promised!Take(c)
<1>1. /\ call[c] = "batch" /\ s \in waits[c] /\ work[s] = "done"
      /\ results' = [results EXCEPT ![c] = Append(@, s)]
      /\ waits' = [waits EXCEPT ![c] = @ \ {s}]
      /\ UNCHANGED <<work, outcome, future, call, batch, answer>>
  BY DEF BatchTakes, collecting
<1>2. /\ results \in [Callers -> Seq(Subagents)]
      /\ waits \in [Callers -> SUBSET Subagents]
  BY DEF PInv, IInv, CallTypes
<1>3. UNCHANGED <<Asked, Verdict, Open>>
  BY <1>1 DEF Asked, Verdict, Open
<1>4. /\ TakenBy(c)' = TakenBy(c) \cup {s}
      /\ \A d \in Callers \ {c} : TakenBy(d)' = TakenBy(d)
  <2> DEFINE q == results[c]
  <2>1. q \in Seq(Subagents) /\ results'[c] = Append(q, s)
    BY <1>1, <1>2
  <2> HIDE DEF q
  <2>2. /\ DOMAIN q = 1..Len(q) /\ Len(q) \in Nat /\ DOMAIN Append(q, s) = 1..(Len(q) + 1)
        /\ \A i \in 1..Len(q) : Append(q, s)[i] = q[i]
        /\ Append(q, s)[Len(q) + 1] = s
    BY <2>1
  <2>3. {Append(q, s)[i] : i \in DOMAIN Append(q, s)} = {q[i] : i \in DOMAIN q} \cup {s}
    BY <2>2
  <2>4. TakenBy(c)' = {Append(q, s)[i] : i \in DOMAIN Append(q, s)}
    BY <2>1 DEF TakenBy
  <2>5. TakenBy(c) = {q[i] : i \in DOMAIN q}
    BY DEF q, TakenBy
  <2> QED BY <1>1, <1>2, <2>3, <2>4, <2>5 DEF TakenBy
<1>5. Fans'
  <2> SUFFICES ASSUME NEW d \in Callers PROVE Fanned(d)'
    BY DEF Fans
  <2>1. CASE d = c
    BY <1>1, <1>2, <1>3, <1>4, <2>1 DEF PInv, Fans, Fanned
  <2>2. CASE d # c
    BY <1>1, <1>2, <1>3, <1>4, <2>2 DEF PInv, Fans, Fanned
  <2> QED BY <2>1, <2>2
<1>6. Holds'
  BY <1>1 DEF PInv, Holds, Settles
<1>7. s \in Asked[c] /\ s \notin Promised!Elements(results[c])
  BY <1>1 DEF PInv, Fans, Fanned, TakenBy, Promised!Elements
<1>8. Promised!Settled(s)
  BY <1>1 DEF PInv, IInv, SpawnTypes, Holds, Settles, Promised!Settled, Verdict
<1>9. Promised!Active(c)
  BY <1>1, WhoWaitsLives
<1> QED
  BY <1>1, <1>3, <1>5, <1>6, <1>7, <1>8, <1>9 DEF Promised!Take

LEMMA ReturnsPromised ==
    ASSUME PInv, NEW c \in Callers, BatchReturns(c) \/ CallCancelled(c)
    PROVE  Fans' /\ Holds' /\ Promised!Return(c)
<1>1. Unblocks(c) /\ UNCHANGED <<work, outcome, future>> /\ call[c] # "none"
  BY DEF BatchReturns, CallCancelled
<1>2. Fans'
  BY <1>1, UnblocksFans
<1>3. Holds'
  BY <1>1 DEF Unblocks, PInv, Holds, Settles, IInv, CallTypes, Callers
<1>4. Promised!Leaves(c) /\ UNCHANGED <<Verdict, Open>>
  BY <1>1, UnblocksLeaves DEF Verdict, Open
<1>5. Promised!Active(c)
  BY <1>1, WhoWaitsLives
<1>6. c \in Agents \/ (Asked[c] # {} /\ Promised!Elements(results[c]) = Asked[c])
  BY DEF BatchReturns, CallCancelled, PInv, Fans, Fanned, TakenBy, Promised!Elements
<1> QED BY <1>2, <1>3, <1>4, <1>5, <1>6 DEF Promised!Return

\* Collecting, at once or later: the successes are those of futures that are
\* resolved.
LEMMA AnswersPromised ==
    ASSUME PInv, NEW c \in Callers, NEW new \in [Subagents -> {"none", "ok", "error"}],
           \A s \in Subagents : new[s] = "ok" => future[s] = "ok",
           answer' = [answer EXCEPT ![c] = new],
           Promised!Active(c), Asked[c] = {},
           UNCHANGED <<work, outcome, future, batch, results>>
    PROVE  Promised!Collect(c)
<1>1. ASSUME NEW s \in Subagents, new[s] = "ok"
      PROVE  s \in Open /\ Verdict[s] = "ok"
  <2>1. future[s] = "ok" /\ work[s] = "done" /\ outcome[s] = "ok"
    BY <1>1 DEF PInv, IInv, Story, Told
  <2> QED BY <2>1 DEF Open, Verdict
<1>2. UNCHANGED <<Verdict, Open, Asked>>
  BY DEF Verdict, Open, Asked
<1> QED BY <1>1, <1>2 DEF Promised!Collect

LEMMA CollectsPromised ==
    ASSUME PInv, NEW c \in Callers, NEW ids \in SUBSET Subagents, Collects(c, ids)
    PROVE  Fans' /\ Holds' /\ Promised!Collect(c)
<1> DEFINE new == [s \in Subagents |->
                      IF s \in ids /\ future[s] # "pending" THEN Says(s) ELSE "none"]
           what == IF \E s \in ids : future[s] = "pending" THEN "collect" ELSE "none"
<1>1. /\ Active(c) /\ call[c] = "none"
      /\ call' = [call EXCEPT ![c] = what]
      /\ waits' = [waits EXCEPT ![c] = {s \in ids : future[s] = "pending"}]
      /\ answer' = [answer EXCEPT ![c] = new]
      /\ UNCHANGED <<work, outcome, future, batch, results>>
  BY DEF Collects, Active, fanned
<1>2. /\ DOMAIN call = Callers /\ DOMAIN waits = Callers
      /\ what # "batch"
  BY DEF PInv, IInv, CallTypes
<1>3. /\ new \in [Subagents -> {"none", "ok", "error"}]
      /\ \A s \in Subagents : new[s] = "ok" => future[s] = "ok"
  BY FirstAnswers DEF PInv
<1> HIDE DEF new, what
<1>4. Promised!Active(c) /\ Asked[c] = {}
  BY <1>1, WhoWaitsLives, IdleHasNoBatch
<1>5. Promised!Collect(c)
  BY <1>1, <1>3, <1>4, AnswersPromised
<1>6. Fans'
  <2>1. UNCHANGED Asked
    BY <1>1 DEF Asked
  <2> QED BY <1>1, <1>2, <2>1 DEF PInv, Fans, Fanned, TakenBy
<1>7. Holds'
  BY <1>1, <1>2 DEF Active, PInv, Holds, Settles, IInv, CallTypes
<1> QED BY <1>5, <1>6, <1>7

LEMMA CollectReturnsPromised ==
    ASSUME PInv, NEW c \in Callers, CollectReturns(c)
    PROVE  Fans' /\ Holds' /\ Promised!Collect(c)
<1> DEFINE new == [s \in Subagents |-> IF s \in waits[c] THEN Says(s) ELSE answer[c][s]]
<1>1. /\ call[c] = "collect"
      /\ call' = [call EXCEPT ![c] = "none"]
      /\ waits' = [waits EXCEPT ![c] = {}]
      /\ answer' = [answer EXCEPT ![c] = new]
      /\ UNCHANGED <<work, outcome, future, batch, results>>
  BY DEF CollectReturns, CollectIsOver, fanned, PInv, IInv, CallTypes
<1>2. DOMAIN call = Callers /\ DOMAIN waits = Callers /\ waits[c] \in SUBSET Subagents
  BY DEF PInv, IInv, CallTypes
<1>3. /\ new \in [Subagents -> {"none", "ok", "error"}]
      /\ \A s \in Subagents : new[s] = "ok" => future[s] = "ok"
  BY LastAnswers DEF PInv
<1> HIDE DEF new
<1>4. Promised!Active(c) /\ Asked[c] = {}
  BY <1>1, WhoWaitsLives, IdleHasNoBatch
<1>5. Promised!Collect(c)
  BY <1>1, <1>3, <1>4, AnswersPromised
<1>6. Fans'
  <2>1. UNCHANGED Asked
    BY <1>1 DEF Asked
  <2> QED BY <1>1, <1>2, <2>1 DEF PInv, Fans, Fanned, TakenBy
<1>7. Holds'
  BY <1>1, <1>2 DEF PInv, Holds, Settles, IInv, CallTypes
<1> QED BY <1>5, <1>6, <1>7

LEMMA CrashPromised ==
    ASSUME PInv, Crash
    PROVE  Fans' /\ Holds' /\ Promised!Crash
<1>1. DOMAIN <<>> = {}
  OBVIOUS
<1>2. Asked' = [c \in Callers |-> {}]
  BY <1>1 DEF Crash, Asked
<1>3. Verdict' = [s \in Subagents |-> IF Verdict[s] = "none" THEN "none" ELSE "lost"]
  BY DEF Crash, Verdict, PInv, Holds, Settles
<1>4. Open' = {}
  BY DEF Crash, Open
<1>5. Fans' /\ Holds'
  BY <1>2, SpawningAssumption DEF Crash, Fans, Fanned, Holds, Settles, Callers
<1> QED
  BY <1>2, <1>3, <1>4, <1>5
     DEF Crash, Promised!Crash, Promised!Callers, Callers, Promised!NoAnswer, NoAnswer

LEMMA PromisedStep ==
    ASSUME PInv, [Next]_vars
    PROVE  Fans' /\ Holds' /\ [Promised!Next]_Promised!vars
<1>1. ASSUME NEW s \in Subagents, Worker(s) \/ Finishes(s)
      PROVE  Fans' /\ Holds' /\ [Promised!Next]_Promised!vars
  <2>1. CASE Refused(s)
    BY <2>1, RefusedPromised DEF Promised!Next
  <2>2. CASE Starts(s)
    BY <2>2, StartsPromised
  <2>3. CASE TimesOut(s)
    BY <2>3, TimesOutPromised DEF Promised!Next
  <2>4. CASE Saves(s)
    BY <2>4, SavesPromised
  <2>5. CASE Finishes(s)
    BY <2>5, EndsPromised DEF Finishes, Promised!Next
  <2> QED BY <1>1, <2>1, <2>2, <2>3, <2>4, <2>5 DEF Worker
<1>2. ASSUME NEW c \in Callers, NEW s \in Subagents, RunBackground(c, s)
      PROVE  Fans' /\ Holds' /\ Promised!Next
  BY <1>2, RunBackgroundPromised DEF Promised!Next
<1>3. ASSUME NEW c \in Callers, NEW b \in Batches, RunBatch(c, b)
      PROVE  Fans' /\ Holds' /\ Promised!Next
  BY <1>3, RunBatchPromised DEF Promised!Next, Promised!Callers, Callers
<1>4. ASSUME NEW c \in Callers, NEW ids \in SUBSET (Subagents \ Unused), Collects(c, ids)
      PROVE  Fans' /\ Holds' /\ Promised!Next
  BY <1>4, CollectsPromised DEF Promised!Next, Promised!Callers, Callers
<1>5. ASSUME NEW c \in Callers, Waiter(c) \/ CallCancelled(c)
      PROVE  Fans' /\ Holds' /\ Promised!Next
  BY <1>5, BatchTakesPromised, ReturnsPromised, CollectReturnsPromised
     DEF Waiter, Promised!Next, Promised!Callers, Callers
<1>6. CASE Sweep \/ Tick \/ UNCHANGED vars
  <2>1. UNCHANGED <<work, outcome, future, call, batch, results, waits, answer>>
    BY <1>6 DEF Sweep, Tick, vars, calls, fanned, collecting
  <2>2. UNCHANGED <<Verdict, Open, Asked>>
    BY <2>1 DEF Verdict, Open, Asked
  <2> QED BY <2>1, <2>2 DEF PInv, Fans, Fanned, TakenBy, Holds, Settles, Promised!vars
<1>7. CASE Crash
  BY <1>7, CrashPromised DEF Promised!Next
<1> QED BY <1>1, <1>2, <1>3, <1>4, <1>5, <1>6, <1>7 DEF Next

LEMMA PromisedInvariance == Spec => []PInv
<1>1. Init => PInv
  BY InitInv, PromisedInit DEF PInv
<1>2. PInv /\ [Next]_vars => PInv'
  BY StepInv, PromisedStep DEF PInv
<1> QED BY <1>1, <1>2, PTL DEF Spec

\* A batch is complete when its caller waits for nothing any more: what it has
\* taken is what it has asked for.
THEOREM SpawningBatchesComplete ==
    Spec => [](\A c \in Callers :
                   call[c] = "batch" /\ waits[c] = {} => TakenBy(c) = Asked[c])
<1>1. PInv => \A c \in Callers :
                  call[c] = "batch" /\ waits[c] = {} => TakenBy(c) = Asked[c]
  BY DEF PInv, Fans, Fanned
<1> QED BY <1>1, PromisedInvariance, PTL

\* Spawning implements Promises, step by step: timeouts, the store, the sweep
\* and the clock are hidden, and what is left is a step of Promises.
THEOREM SpawningKeepsPromises == Spec => PromiseSpec
<1>1. Init => Promised!Init
  BY PromisedInit
<1>2. PInv /\ [Next]_vars => [Promised!Next]_Promised!vars
  BY PromisedStep
<1> QED
  BY <1>1, <1>2, PromisedInvariance, PTL DEF Spec, PromiseSpec, Promised!Spec

-----------------------------------------------------------------------------
(* What is proved of Promises holds of Spawning *)

Shown == INSTANCE PromisesProofs
    WITH verdict <- Verdict, open <- Open, asked <- Asked, taken <- results, got <- answer

\* Both instances of Promises are the same specification.
LEMMA ShownIsPromised ==
    /\ Promised!Init => Shown!Init
    /\ [Promised!Next]_Promised!vars => [Shown!Next]_Shown!vars
BY DEF Promised!Init, Shown!Init, Promised!Next, Shown!Next, Promised!vars, Shown!vars,
       Promised!Callers, Shown!Callers, Promised!NoAnswer, Shown!NoAnswer,
       Promised!Active, Shown!Active, Promised!Leaves, Shown!Leaves,
       Promised!Elements, Shown!Elements, Promised!Settled, Shown!Settled,
       Promised!Background, Shown!Background, Promised!Ask, Shown!Ask,
       Promised!Settle, Shown!Settle, Promised!Take, Shown!Take,
       Promised!Return, Shown!Return, Promised!Collect, Shown!Collect,
       Promised!Crash, Shown!Crash

\* No two callers' batches share a subagent, no background subagent is in a
\* batch, and a caller takes each of its tasks once, when it has ended.
THEOREM SpawningTasksAreOwned == Spec => [](Shown!TasksAreOwned /\ Shown!TakenOnce)
<1>1. Shown!Spec => [](Shown!TasksAreOwned /\ Shown!TakenOnce /\ Shown!GotIsVerdict)
  BY Shown!PromisesSafe
<1> QED
  BY <1>1, ShownIsPromised, SpawningKeepsPromises, PTL
     DEF PromiseSpec, Promised!Spec, Shown!Spec

\* The verdict on a subagent is never revised, and a subagent that goes on after
\* its batch has each of its tasks.
THEOREM SpawningVerdictsStand == Spec => Shown!SettledOnce /\ Shown!ReturnsAll
<1>1. Shown!Distinct
  BY SpawningAssumption DEF Shown!Distinct
<1>2. Shown!Spec => Shown!SettledOnce /\ Shown!ReturnsAll
  BY <1>1, Shown!PromisesKept
<1> QED
  BY <1>2, ShownIsPromised, SpawningKeepsPromises, PTL
     DEF PromiseSpec, Promised!Spec, Shown!Spec

-----------------------------------------------------------------------------
(* Nobody waits in vain *)

\* A future that is pending has a subagent that is on its way to resolve it.
Underway(s) ==
    future[s] = "pending" => work[s] \in {"queued", "running", "absorbed", "saving"}

\* Who is waited for has been started in this life of the process.
WaitedFor(c) ==
    /\ call[c] = "none" => waits[c] = {}
    /\ call[c] = "batch" => \A s \in waits[c] : work[s] \notin {"none", "lost"}
    /\ call[c] = "collect" => \A s \in waits[c] : future[s] # "none"

Watched == (\A s \in Subagents : Underway(s)) /\ (\A c \in Callers : WaitedFor(c))

WInv == PInv /\ Watched

\* Where spawn() may be next, if not where it is.
Onward(s) ==
    CASE work[s] = "none" -> {"queued"}
      [] work[s] = "queued" -> {"running", "done", "lost"}
      [] work[s] = "running" -> {"absorbed", "saving", "lost"}
      [] work[s] = "absorbed" -> {"saving", "lost"}
      [] work[s] = "saving" -> {"done", "lost"}
      [] work[s] = "done" -> {"lost"}
      [] work[s] = "lost" -> {}

Onwards == \A s \in Subagents : work'[s] = work[s] \/ work'[s] \in Onward(s)

\* A call that has begun waits for fewer and fewer, or is over.
Relents(c) ==
    call[c] # "none" => call'[c] = "none" \/ (call'[c] = call[c] /\ waits'[c] \subseteq waits[c])

Advances == Onwards /\ \A c \in Callers : Relents(c)

\* Steps of one subagent that go on without touching the calls.
LEMMA OneGoesOn ==
    ASSUME WInv, NEW s \in Subagents, NEW w, NEW f, UNCHANGED <<call, waits>>,
           work' = [work EXCEPT ![s] = w], future' = [future EXCEPT ![s] = f],
           w \in Onward(s), w # "lost", work[s] # "none",
           f = future[s] \/ f \in {"ok", "error"},
           f = "pending" => w # "done"
    PROVE  Watched' /\ Advances
<1>1. work \in [Subagents -> Works] /\ DOMAIN future = Subagents
  BY DEF WInv, PInv, IInv, SpawnTypes
<1>2. w \in {"running", "absorbed", "saving", "done"}
  BY <1>1 DEF Onward, Works
<1>3. /\ \A t \in Subagents \ {s} : work'[t] = work[t] /\ future'[t] = future[t]
      /\ work'[s] = w /\ future'[s] = f
  BY <1>1
<1>4. \A t \in Subagents : Underway(t)'
  BY <1>2, <1>3 DEF WInv, Watched, Underway
<1>5. \A c \in Callers : WaitedFor(c)'
  BY <1>2, <1>3 DEF WInv, Watched, WaitedFor, PInv, IInv, CallTypes
<1>6. Advances
  BY <1>3 DEF Advances, Onwards, Relents
<1> QED BY <1>4, <1>5, <1>6 DEF Watched

\* What unblocks a caller keeps the others waiting for what they wait for.
LEMMA OneIsUnblocked ==
    ASSUME WInv, NEW c \in Callers, Unblocks(c), UNCHANGED <<work, future>>
    PROVE  Watched' /\ Advances
<1>1. DOMAIN call = Callers /\ DOMAIN waits = Callers
  BY DEF WInv, PInv, IInv, CallTypes
<1>2. \A s \in Subagents : Underway(s)'
  BY DEF WInv, Watched, Underway
<1>3. \A d \in Callers : WaitedFor(d)'
  BY <1>1 DEF WInv, Watched, WaitedFor, Unblocks
<1>4. Advances
  BY <1>1 DEF Advances, Onwards, Relents, Unblocks
<1> QED BY <1>2, <1>3, <1>4 DEF Watched

LEMMA EndsWatched ==
    ASSUME WInv, NEW s \in Subagents, NEW how, work[s] \in Alive, Ends(s, how),
           Unblocks(s), UNCHANGED future
    PROVE  Watched' /\ Advances
<1>1. /\ work \in [Subagents -> Works] /\ s \in Callers
      /\ DOMAIN call = Callers /\ DOMAIN waits = Callers
  BY DEF WInv, PInv, IInv, SpawnTypes, CallTypes, Callers
<1>2. /\ work'[s] = "saving" /\ \A t \in Subagents \ {s} : work'[t] = work[t]
      /\ \A d \in Callers \ {s} : call'[d] = call[d] /\ waits'[d] = waits[d]
      /\ call'[s] = "none" /\ waits'[s] = {}
  BY <1>1 DEF Ends, Unblocks
<1>3. \A t \in Subagents : Underway(t)'
  BY <1>2 DEF WInv, Watched, Underway
<1>4. \A d \in Callers : WaitedFor(d)'
  BY <1>2 DEF WInv, Watched, WaitedFor, PInv, IInv, CallTypes
<1>5. Onwards
  BY <1>2 DEF Onwards, Onward, Alive
<1>6. \A d \in Callers : Relents(d)
  BY <1>2 DEF Relents
<1> QED BY <1>3, <1>4, <1>5, <1>6 DEF Watched, Advances

LEMMA WorkerWatched ==
    ASSUME WInv, NEW s \in Subagents, Worker(s) \/ Finishes(s)
    PROVE  Watched' /\ Advances
<1>1. /\ work \in [Subagents -> Works]
      /\ future \in [Subagents -> {"none", "pending", "ok", "error"}]
      /\ outcome \in [Subagents -> {"none", "ok", "error"}]
  BY DEF WInv, PInv, IInv, SpawnTypes
<1>2. CASE Refused(s)
  <2> DEFINE f == IF future[s] = "pending" THEN "error" ELSE future[s]
  <2>1. /\ work[s] = "queued" /\ work' = [work EXCEPT ![s] = "done"]
        /\ future' = [future EXCEPT ![s] = f] /\ UNCHANGED <<call, waits>>
    BY <1>2 DEF Refused, Answers, calls
  <2>2. /\ f = future[s] \/ f \in {"ok", "error"}
        /\ f # "pending"
    BY <1>1
  <2>3. "done" \in Onward(s)
    BY <2>1 DEF Onward
  <2> HIDE DEF f
  <2> QED BY <2>1, <2>2, <2>3, OneGoesOn
<1>3. CASE Starts(s)
  <2>1. /\ work[s] = "queued" /\ work' = [work EXCEPT ![s] = "running"]
        /\ future' = [future EXCEPT ![s] = future[s]] /\ UNCHANGED <<call, waits>>
    BY <1>1, <1>3 DEF Starts, calls
  <2>2. "running" \in Onward(s)
    BY <2>1 DEF Onward
  <2> QED BY <2>1, <2>2, OneGoesOn
<1>4. CASE Saves(s)
  <2> DEFINE f == IF future[s] = "pending" THEN outcome[s] ELSE future[s]
  <2>1. /\ work[s] = "saving" /\ work' = [work EXCEPT ![s] = "done"]
        /\ future' = [future EXCEPT ![s] = f] /\ UNCHANGED <<call, waits>>
    BY <1>4 DEF Saves, Answers, calls
  <2>2. outcome[s] \in {"ok", "error"}
    BY <1>1, <2>1 DEF WInv, PInv, Holds, Settles
  <2>3. /\ f = future[s] \/ f \in {"ok", "error"}
        /\ f # "pending"
    BY <2>2
  <2>4. "done" \in Onward(s)
    BY <2>1 DEF Onward
  <2> HIDE DEF f
  <2> QED BY <2>1, <2>3, <2>4, OneGoesOn
<1>5. CASE TimesOut(s)
  <2>1. work[s] = "running" /\ UNCHANGED future
    BY <1>5 DEF TimesOut
  <2>2. CASE Ends(s, "error") /\ Unblocks(s)
    BY <2>1, <2>2, EndsWatched DEF Alive
  <2>3. CASE work' = [work EXCEPT ![s] = "absorbed"] /\ UNCHANGED <<outcome, calls>>
    <3>1. future' = [future EXCEPT ![s] = future[s]] /\ UNCHANGED <<call, waits>>
      BY <1>1, <2>1, <2>3 DEF calls
    <3>2. "absorbed" \in Onward(s)
      BY <2>1 DEF Onward
    <3> QED BY <2>1, <2>3, <3>1, <3>2, OneGoesOn
  <2> QED BY <1>5, <2>2, <2>3 DEF TimesOut
<1>6. CASE Finishes(s)
  BY <1>6, EndsWatched DEF Finishes
<1> QED BY <1>2, <1>3, <1>4, <1>5, <1>6 DEF Worker


LEMMA RunBackgroundWatched ==
    ASSUME WInv, NEW c \in Callers, NEW s \in Subagents, RunBackground(c, s)
    PROVE  Watched' /\ Advances
<1>1. DOMAIN work = Subagents /\ DOMAIN future = Subagents
  BY DEF WInv, PInv, IInv, SpawnTypes
<1>2. /\ work[s] = "none" /\ UNCHANGED <<call, waits>>
      /\ work'[s] = "queued" /\ \A t \in Subagents \ {s} : work'[t] = work[t]
      /\ future'[s] = "pending" /\ \A t \in Subagents \ {s} : future'[t] = future[t]
  BY <1>1 DEF RunBackground, Unused
<1>3. \A t \in Subagents : Underway(t)'
  BY <1>2 DEF WInv, Watched, Underway
<1>4. \A d \in Callers : WaitedFor(d)'
  BY <1>2 DEF WInv, Watched, WaitedFor, PInv, IInv, CallTypes
<1>5. Advances
  BY <1>2 DEF Advances, Onwards, Onward, Relents
<1> QED BY <1>3, <1>4, <1>5 DEF Watched

LEMMA RunBatchWatched ==
    ASSUME WInv, NEW c \in Callers, NEW b \in Batches, RunBatch(c, b)
    PROVE  Watched' /\ Advances
<1> DEFINE S == {b[i] : i \in DOMAIN b}
<1>1. /\ DOMAIN call = Callers /\ DOMAIN waits = Callers
      /\ \A d \in Callers : waits[d] \in SUBSET Subagents
  BY DEF WInv, PInv, IInv, CallTypes
<1>2. \A s \in S : s \in Subagents /\ work[s] = "none"
  BY BatchesAreSequences DEF Unused
<1>3. /\ \A s \in Subagents : work'[s] = IF s \in S THEN "queued" ELSE work[s]
      /\ call[c] = "none" /\ call'[c] = "batch" /\ waits'[c] = S
      /\ \A d \in Callers \ {c} : call'[d] = call[d] /\ waits'[d] = waits[d]
      /\ UNCHANGED future
  BY <1>1 DEF RunBatch, Active
<1> HIDE DEF S
<1>4. \A s \in Subagents : Underway(s)'
  BY <1>3 DEF WInv, Watched, Underway
<1>5. \A d \in Callers : WaitedFor(d)'
  BY <1>1, <1>2, <1>3 DEF WInv, Watched, WaitedFor
<1>6. Onwards
  BY <1>2, <1>3 DEF Onwards, Onward
<1>7. \A d \in Callers : Relents(d)
  BY <1>3 DEF Relents
<1> QED BY <1>4, <1>5, <1>6, <1>7 DEF Watched, Advances

LEMMA CollectsWatched ==
    ASSUME WInv, NEW c \in Callers, NEW ids \in SUBSET Subagents, Collects(c, ids)
    PROVE  Watched' /\ Advances
<1>1. DOMAIN call = Callers /\ DOMAIN waits = Callers
  BY DEF WInv, PInv, IInv, CallTypes
<1>2. /\ UNCHANGED <<work, future>> /\ call[c] = "none"
      /\ call'[c] = IF waits'[c] = {} THEN "none" ELSE "collect"
      /\ waits'[c] = {s \in ids : future[s] = "pending"}
      /\ \A d \in Callers \ {c} : call'[d] = call[d] /\ waits'[d] = waits[d]
  BY <1>1 DEF Collects, Active
<1>3. \A s \in Subagents : Underway(s)'
  BY <1>2 DEF WInv, Watched, Underway
<1>4. \A d \in Callers : WaitedFor(d)'
  BY <1>2 DEF WInv, Watched, WaitedFor
<1>5. Advances
  BY <1>2 DEF Advances, Onwards, Relents
<1> QED BY <1>3, <1>4, <1>5 DEF Watched

LEMMA WaiterWatched ==
    ASSUME WInv, NEW c \in Callers, Waiter(c) \/ CallCancelled(c)
    PROVE  Watched' /\ Advances
<1>1. DOMAIN call = Callers /\ DOMAIN waits = Callers
  BY DEF WInv, PInv, IInv, CallTypes
<1>2. CASE BatchReturns(c) \/ CallCancelled(c)
  BY <1>2, OneIsUnblocked DEF BatchReturns, CallCancelled
<1>3. CASE \/ \E s \in Subagents : BatchTakes(c, s)
           \/ CollectReturns(c)
  <2>1. /\ UNCHANGED <<work, future>>
        /\ \A d \in Callers \ {c} : call'[d] = call[d] /\ waits'[d] = waits[d]
        /\ waits'[c] \subseteq waits[c]
        /\ call'[c] = call[c] \/ (call'[c] = "none" /\ waits'[c] = {})
    BY <1>1, <1>3 DEF BatchTakes, CollectReturns, CollectIsOver
  <2>2. \A s \in Subagents : Underway(s)'
    BY <2>1 DEF WInv, Watched, Underway
  <2>3. \A d \in Callers : WaitedFor(d)'
    BY <2>1 DEF WInv, Watched, WaitedFor
  <2>4. Advances
    BY <2>1 DEF Advances, Onwards, Relents
  <2> QED BY <2>2, <2>3, <2>4 DEF Watched
<1> QED BY <1>2, <1>3 DEF Waiter

LEMMA CrashWatched ==
    ASSUME WInv, Crash
    PROVE  Watched' /\ Advances
<1>1. /\ \A s \in Subagents : /\ work'[s] = IF work[s] = "none" THEN "none" ELSE "lost"
                              /\ future'[s] = "none"
      /\ \A c \in Callers : call'[c] = "none" /\ waits'[c] = {}
      /\ work \in [Subagents -> Works]
  BY DEF Crash, WInv, PInv, IInv, SpawnTypes
<1>2. Watched'
  BY <1>1 DEF Watched, Underway, WaitedFor
<1>3. Onwards
  BY <1>1 DEF Onwards, Onward, Works
<1> QED BY <1>1, <1>2, <1>3 DEF Advances, Relents

LEMMA WatchedStep ==
    ASSUME WInv, [Next]_vars
    PROVE  Watched' /\ Advances
<1>1. CASE Sweep \/ Tick \/ UNCHANGED vars
  <2>1. UNCHANGED <<work, future, call, waits>>
    BY <1>1 DEF Sweep, Tick, vars, calls
  <2> QED BY <2>1 DEF WInv, Watched, Underway, WaitedFor, Advances, Onwards, Relents
<1>2. ASSUME NEW c \in Callers, NEW ids \in SUBSET (Subagents \ Unused), Collects(c, ids)
      PROVE  Watched' /\ Advances
  BY <1>2, CollectsWatched
<1> QED
  BY <1>1, <1>2, WorkerWatched, RunBackgroundWatched, RunBatchWatched, WaiterWatched,
     CrashWatched DEF Next

LEMMA WatchedInvariance == Spec => []WInv
<1>1. Init => Watched
  BY DEF Init, Watched, Underway, WaitedFor
<1>2. Watched /\ PInv => WInv
  BY DEF WInv
<1>3. WInv /\ [Next]_vars => Watched'
  BY WatchedStep
<1> QED BY <1>1, <1>2, <1>3, PromisedInvariance, PTL DEF Spec

NobodyWaitsInVain ==
    /\ \A c \in Callers : \A s \in waits[c] :
           work[s] \in {"queued", "running", "absorbed", "saving", "done"}
    /\ \A s \in Subagents : future[s] = "pending" => work[s] \notin {"none", "done", "lost"}

\* Nobody waits for a subagent that will not be heard of: whoever is waited for
\* is done already or on its way, in this life of the process, and a future
\* that is pending always has a subagent that will resolve it.
THEOREM SpawningNobodyWaitsInVain == Spec => []NobodyWaitsInVain
<1>1. ASSUME WInv, NEW c \in Callers, NEW s \in waits[c]
      PROVE  work[s] \in {"queued", "running", "absorbed", "saving", "done"}
  <2>1. /\ s \in Subagents /\ call[c] \in {"none", "batch", "collect"}
        /\ work[s] \in Works /\ future[s] \in {"none", "pending", "ok", "error"}
    BY <1>1 DEF WInv, PInv, IInv, SpawnTypes, CallTypes
  <2>2. CASE call[c] = "batch"
    BY <1>1, <2>1, <2>2 DEF WInv, Watched, WaitedFor, Works
  <2>3. CASE call[c] = "collect"
    <3>1. future[s] # "none"
      BY <1>1, <2>3 DEF WInv, Watched, WaitedFor
    <3>2. future[s] \in {"ok", "error"} => work[s] = "done"
      BY <1>1, <2>1 DEF WInv, PInv, IInv, Story, Told
    <3> QED BY <1>1, <2>1, <3>1, <3>2 DEF WInv, Watched, Underway
  <2> QED BY <1>1, <2>1, <2>2, <2>3 DEF WInv, Watched, WaitedFor
<1>2. WInv => NobodyWaitsInVain
  BY <1>1 DEF WInv, Watched, Underway, NobodyWaitsInVain
<1> QED BY <1>2, WatchedInvariance, PTL

\* A subagent only goes on, and slips its timeout at most once; a call that
\* waits is over or waits for fewer: what SpawnsEnd and WaitsEnd say of the
\* end, but for the fairness that brings it about.
THEOREM SpawningAdvances == Spec => [][Advances]_vars
BY WatchedInvariance, WatchedStep, PTL DEF Spec
=============================================================================
