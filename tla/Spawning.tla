------------------------------ MODULE Spawning ------------------------------
(* Subagents that run beside their caller: Subagent.spawn and those who wait *)
(* for it (harness/tools/subagent.py, delegate_task.py): a batch, whose      *)
(* caller streams the results in, and background subagents, which any agent  *)
(* may collect, themselves included.  Their session rows are marked by spawn *)
(* and by the reaper's sweep.  A call may take as long as it takes, timers   *)
(* fire on time.                                                             *)
EXTENDS Naturals, FiniteSets, Sequences

CONSTANTS
    Agents,         \* agents that nobody spawned
    Subagents,      \* names for the subagents, each used once
    NoOne,
    ChildTimeout,   \* CHILD_TIMEOUT_SECONDS, in units of time
    CollectTimeout, \* the timeout of a collect, in units of time
    SweepAge,       \* max_age_seconds of the sweep, in units of time
    MaxFaults       \* bound on the failures of the store and crashes of the process

ASSUME SpawningAssumption ==
    /\ Agents \cap Subagents = {} /\ NoOne \notin Agents \cup Subagents
    /\ IsFiniteSet(Subagents)
    /\ {ChildTimeout, CollectTimeout, SweepAge, MaxFaults} \subseteq Nat
    /\ ChildTimeout < SweepAge

Callers == Agents \cup Subagents

VARIABLES
    work,     \* subagent -> where its spawn() is
    outcome,  \* subagent -> how it ended
    future,   \* subagent -> its entry in _pending_results
    session,  \* subagent -> status of its row in sessions
    age,      \* subagent -> time since started_at, up to SweepAge, while it matters
    blind,    \* subagents one of whose updates the store did not take
    call,     \* caller -> the blocking call it is in
    batch,    \* caller -> its fan-out, in the order of the tasks
    results,  \* caller -> what the fan-out has returned so far
    waits,    \* caller -> subagents it waits for
    waited,   \* caller -> time it has waited, up to CollectTimeout
    answer,   \* caller -> what its last collect, if it has spawned nothing since, says
              \* of each subagent: "none" of one not asked for, or still waited for
    faults

fanned == <<batch, results>>
collecting == <<waited, answer>>
calls == <<call, waits, fanned, collecting>>
vars == <<work, outcome, future, session, age, blind, calls, faults>>

\* absorbed: the timeout has come and gone, see TimesOut; saving: the session
\* row is updated; lost: the process has crashed.
Works == {"none", "queued", "running", "absorbed", "saving", "done", "lost"}
Alive == {"running", "absorbed"}
Unused == {s \in Subagents : work[s] = "none"}

NoAnswer == [s \in Subagents |-> "none"]

Init ==
    /\ work = [s \in Subagents |-> "none"]
    /\ outcome = [s \in Subagents |-> "none"]
    /\ future = [s \in Subagents |-> "none"]
    /\ session = [s \in Subagents |-> "none"]
    /\ age = [s \in Subagents |-> 0]
    /\ blind = {}
    /\ call = [c \in Callers |-> "none"]
    /\ batch = [c \in Callers |-> <<>>]
    /\ results = [c \in Callers |-> <<>>]
    /\ waits = [c \in Callers |-> {}]
    /\ waited = [c \in Callers |-> 0]
    /\ answer = [c \in Callers |-> NoAnswer]
    /\ faults = 0

\* An agent that is not blocked, and a subagent while it runs.
Active(c) == call[c] = "none" /\ (c \in Subagents => work[c] \in Alive)

-----------------------------------------------------------------------------
(* Starting subagents *)

\* _run_background: the future is there before the worker is.
RunBackground(c, s) ==
    /\ Active(c) /\ s \in Unused
    /\ work' = [work EXCEPT ![s] = "queued"]
    /\ future' = [future EXCEPT ![s] = "pending"]
    /\ answer' = [answer EXCEPT ![c] = NoAnswer]
    /\ UNCHANGED <<outcome, session, age, blind, call, waits, fanned, waited, faults>>

\* _run_batch: one task for each of b.
RunBatch(c, b) ==
    /\ Active(c)
    /\ work' = [s \in Subagents |-> IF \E i \in DOMAIN b : b[i] = s THEN "queued" ELSE work[s]]
    /\ call' = [call EXCEPT ![c] = "batch"]
    /\ batch' = [batch EXCEPT ![c] = b]
    /\ results' = [results EXCEPT ![c] = <<>>]
    /\ waits' = [waits EXCEPT ![c] = {b[i] : i \in DOMAIN b}]
    /\ answer' = [answer EXCEPT ![c] = NoAnswer]
    /\ UNCHANGED <<outcome, future, session, age, blind, waited, faults>>

Batches == UNION {{b \in [1..n -> Unused] : \A i, j \in 1..n : b[i] = b[j] => i = j} :
                      n \in 1..Cardinality(Unused)}

\* Resolve the future of a background subagent; a batch's task just returns.
Answers(s, how) ==
    /\ work' = [work EXCEPT ![s] = "done"]
    /\ outcome' = [outcome EXCEPT ![s] = how]
    /\ future' = [future EXCEPT ![s] = IF @ = "pending" THEN how ELSE @]

\* Spawning is paused, too expensive, too fast or too deep.
Refused(s) ==
    /\ work[s] = "queued"
    /\ Answers(s, "error")
    /\ UNCHANGED <<session, age, blind, calls, faults>>

\* A failure of the store is logged and swallowed.
StoreFails(s) ==
    /\ faults < MaxFaults
    /\ faults' = faults + 1
    /\ blind' = blind \cup {s}
    /\ UNCHANGED session

Stores(s, status) ==
    \/ session' = [session EXCEPT ![s] = status] /\ UNCHANGED <<blind, faults>>
    \/ StoreFails(s)

\* create_child_session, then the child runs under asyncio.wait_for.
Starts(s) ==
    /\ work[s] = "queued"
    /\ work' = [work EXCEPT ![s] = "running"]
    /\ age' = [age EXCEPT ![s] = 0]
    /\ Stores(s, "running")
    /\ UNCHANGED <<outcome, future, calls>>

-----------------------------------------------------------------------------
(* The end of a subagent *)

\* Whatever blocks c is interrupted; the subagents it waits for go on.
Unblocks(c) ==
    /\ call' = [call EXCEPT ![c] = "none"]
    /\ batch' = [batch EXCEPT ![c] = <<>>]
    /\ results' = [results EXCEPT ![c] = <<>>]
    /\ waits' = [waits EXCEPT ![c] = {}]
    /\ waited' = [waited EXCEPT ![c] = 0]
    /\ answer' = [answer EXCEPT ![c] = NoAnswer]

Ends(s, how) ==
    /\ work' = [work EXCEPT ![s] = "saving"]
    /\ outcome' = [outcome EXCEPT ![s] = how]

Finishes(s) ==
    /\ work[s] \in Alive /\ call[s] = "none"
    /\ \E how \in {"ok", "error"} : Ends(s, how)
    /\ Unblocks(s)
    /\ UNCHANGED <<future, session, age, blind, faults>>

BatchHasNoTimeoutBug(s) ==
    /\ work[s] = "running" /\ age[s] >= ChildTimeout /\ future[s] = "pending"
    /\ Ends(s, "error") /\ Unblocks(s)
    /\ UNCHANGED <<future, session, age, blind, faults>>

\* The child is cancelled.  If it is waiting for a delegation of its own, that
\* takes the CancelledError for its own and the child goes on without a timeout.
TimesOut(s) ==
    /\ work[s] = "running" /\ age[s] >= ChildTimeout
    /\ \/ Ends(s, "error") /\ Unblocks(s)
       \/ /\ call[s] = "none"
          /\ work' = [work EXCEPT ![s] = "absorbed"]
          /\ UNCHANGED <<outcome, calls>>
    /\ UNCHANGED <<future, session, age, blind, faults>>

CompletedAnywayBug(s) ==
    /\ work[s] = "saving"
    /\ Answers(s, outcome[s])
    /\ IF session[s] = "none" THEN UNCHANGED <<session, blind, faults>>
       ELSE Stores(s, "completed")
    /\ UNCHANGED <<age, calls>>

SavesOutcomeBug(s) ==
    /\ work[s] = "saving"
    /\ Answers(s, outcome[s])
    /\ IF session[s] = "none" THEN UNCHANGED <<session, blind, faults>>
       ELSE Stores(s, outcome[s])
    /\ UNCHANGED <<age, calls>>

\* _update_child_session_status, and the result is there.
Saves(s) ==
    /\ work[s] = "saving"
    /\ Answers(s, outcome[s])
    /\ IF session[s] = "none" THEN UNCHANGED <<session, blind, faults>>
       ELSE Stores(s, IF outcome[s] = "ok" THEN "completed" ELSE "failed")
    /\ age' = [age EXCEPT ![s] = IF session'[s] = "running" THEN @ ELSE 0]
    /\ UNCHANGED calls

SweepYoungBug ==
    /\ session' = [s \in Subagents |-> IF session[s] = "running" /\ age[s] >= ChildTimeout
                                       THEN "failed" ELSE session[s]]
    /\ UNCHANGED <<work, outcome, future, age, blind, calls, faults>>

\* sweep_orphan_sessions.
Sweep ==
    /\ session' = [s \in Subagents |-> IF session[s] = "running" /\ age[s] >= SweepAge
                                       THEN "failed" ELSE session[s]]
    /\ age' = [s \in Subagents |-> IF session'[s] = "running" \/ work[s] = "running" THEN age[s] ELSE 0]
    /\ UNCHANGED <<work, outcome, future, blind, calls, faults>>

-----------------------------------------------------------------------------
(* Waiting for subagents *)

TakesAgainBug(c, s) ==
    /\ call[c] = "batch" /\ s \in waits[c] /\ work[s] = "done"
    /\ results' = [results EXCEPT ![c] = Append(@, s)]
    /\ UNCHANGED <<work, outcome, future, session, age, blind, call, batch, waits, collecting, faults>>

\* stream_fan_out takes the tasks as they finish, in any order if several have.
BatchTakes(c, s) ==
    /\ call[c] = "batch" /\ s \in waits[c] /\ work[s] = "done"
    /\ results' = [results EXCEPT ![c] = Append(@, s)]
    /\ waits' = [waits EXCEPT ![c] = @ \ {s}]
    /\ UNCHANGED <<work, outcome, future, session, age, blind, call, batch, collecting, faults>>

BatchReturns(c) ==
    /\ call[c] = "batch" /\ waits[c] = {}
    /\ Unblocks(c)
    /\ UNCHANGED <<work, outcome, future, session, age, blind, faults>>

\* A subagent that nobody knows, or that has no verdict by now, has failed.
Says(s) == IF future[s] \in {"ok", "error"} THEN future[s] ELSE "error"

\* What is there is taken, what is not is waited for, and with nothing to wait for
\* the collect is over.  Without ids the tool takes all there are, those of other
\* agents and its own included.
Collects(c, ids) ==
    /\ Active(c)
    /\ call' = [call EXCEPT ![c] = IF \E s \in ids : future[s] = "pending" THEN "collect" ELSE "none"]
    /\ waits' = [waits EXCEPT ![c] = {s \in ids : future[s] = "pending"}]
    /\ answer' = [answer EXCEPT ![c] = [s \in Subagents |->
                      IF s \in ids /\ future[s] # "pending" THEN Says(s) ELSE "none"]]
    /\ UNCHANGED <<work, outcome, future, session, age, blind, fanned, waited, faults>>

\* The collect is over, and says of each subagent it has waited for what there is.
CollectIsOver(c) ==
    /\ answer' = [answer EXCEPT ![c] = [s \in Subagents |->
                      IF s \in waits[c] THEN Says(s) ELSE @[s]]]
    /\ call' = [call EXCEPT ![c] = "none"]
    /\ waits' = [waits EXCEPT ![c] = {}]
    /\ waited' = [waited EXCEPT ![c] = 0]
    /\ UNCHANGED <<work, outcome, future, session, age, blind, fanned, faults>>

WaitsForAllBug(c) ==
    /\ call[c] = "collect"
    /\ \A s \in waits[c] : future[s] # "pending"
    /\ CollectIsOver(c)

FirstIsEnoughBug(c) ==   \* return_when=FIRST_COMPLETED
    /\ call[c] = "collect"
    /\ \/ waits[c] = {} \/ waited[c] >= CollectTimeout
       \/ \E s \in waits[c] : future[s] # "pending"
    /\ CollectIsOver(c)

\* All of them are there, or the time is up.
CollectReturns(c) ==
    /\ call[c] = "collect"
    /\ (\A s \in waits[c] : future[s] # "pending") \/ waited[c] >= CollectTimeout
    /\ CollectIsOver(c)

\* An agent's run is cancelled while it waits.
CallCancelled(c) ==
    /\ c \in Agents /\ call[c] # "none"
    /\ Unblocks(c)
    /\ UNCHANGED <<work, outcome, future, session, age, blind, faults>>

-----------------------------------------------------------------------------
(* Time and crashes *)

\* Timers that are due come first.
Tick ==
    /\ \A s \in Subagents : work[s] = "running" => age[s] < ChildTimeout
    /\ \A c \in Callers : call[c] = "collect" => waited[c] < CollectTimeout
    /\ age' = [s \in Subagents |->
                  IF (work[s] = "running" \/ session[s] = "running") /\ age[s] < SweepAge
                  THEN age[s] + 1 ELSE age[s]]
    /\ waited' = [c \in Callers |-> IF call[c] = "collect" THEN waited[c] + 1 ELSE waited[c]]
    /\ UNCHANGED <<work, outcome, future, session, blind, call, waits, fanned, answer, faults>>

\* Only the rows survive.  Before anything is spawned there is nothing to lose.
Crash ==
    /\ faults < MaxFaults /\ Unused # Subagents
    /\ faults' = faults + 1
    /\ work' = [s \in Subagents |-> IF work[s] = "none" THEN "none" ELSE "lost"]
    /\ outcome' = [s \in Subagents |-> "none"]
    /\ future' = [s \in Subagents |-> "none"]
    /\ call' = [c \in Callers |-> "none"]
    /\ batch' = [c \in Callers |-> <<>>]
    /\ results' = [c \in Callers |-> <<>>]
    /\ waits' = [c \in Callers |-> {}]
    /\ waited' = [c \in Callers |-> 0]
    /\ answer' = [c \in Callers |-> NoAnswer]
    /\ blind' = {}
    /\ UNCHANGED <<session, age>>

Worker(s) == Refused(s) \/ Starts(s) \/ TimesOut(s) \/ Saves(s)
Waiter(c) == (\E s \in Subagents : BatchTakes(c, s)) \/ BatchReturns(c) \/ CollectReturns(c)

Next ==
    \/ \E s \in Subagents : Worker(s) \/ Finishes(s)
    \/ \E c \in Callers : \/ \E s \in Subagents : RunBackground(c, s)
                          \/ \E b \in Batches : RunBatch(c, b)
                          \/ \E ids \in SUBSET (Subagents \ Unused) \ {{}} : Collects(c, ids)
                          \/ Waiter(c) \/ CallCancelled(c)
    \/ Sweep \/ Tick \/ Crash

Spec == Init /\ [][Next]_vars

\* The event loop runs what is ready and time passes.  Nothing makes a
\* subagent finish: it may hang.
Fairness ==
    /\ WF_vars(\E s \in Subagents : Worker(s))
    /\ \A c \in Callers : WF_vars(Waiter(c))
    /\ WF_vars(Tick)

FairSpec == Spec /\ Fairness

-----------------------------------------------------------------------------
(* Properties *)

TypeOK ==
    /\ work \in [Subagents -> Works]
    /\ outcome \in [Subagents -> {"none", "ok", "error"}]
    /\ future \in [Subagents -> {"none", "pending", "ok", "error"}]
    /\ session \in [Subagents -> {"none", "running", "completed", "failed"}]
    /\ age \in [Subagents -> 0..SweepAge]
    /\ blind \in SUBSET Subagents
    /\ call \in [Callers -> {"none", "batch", "collect"}]
    /\ batch \in [Callers -> Seq(Subagents)]
    /\ results \in [Callers -> Seq(Subagents)]
    /\ waits \in [Callers -> SUBSET Subagents]
    /\ waited \in [Callers -> 0..CollectTimeout]
    /\ answer \in [Callers -> [Subagents -> {"none", "ok", "error"}]]
    /\ faults \in 0..MaxFaults

\* A collect says ok of a subagent that has succeeded and of no other, and no
\* collector takes that result away from another. It says error of one that has
\* failed, of one it does not know, and of one that may go on to succeed, but of
\* the last only after the collector has waited for the whole of its time: never
\* when others were there first.
CollectedIsTrue ==
    /\ [](\A c \in Callers, s \in Subagents :
              answer[c][s] = "ok" => outcome[s] = "ok" /\ future[s] = "ok")
    /\ [][\A c \in Callers, s \in Subagents :
               answer'[c][s] = "error" /\ answer[c][s] # "error" =>
                   \/ outcome[s] = "error"
                   \/ future[s] = "none"
                   \/ future[s] = "pending" /\ waited[c] >= CollectTimeout]_vars

\* The row of a subagent that has answered says how, unless the store failed:
\* the sweep, which may come at any time, never has the last word.
RowSaysOutcome ==
    \A s \in Subagents :
        work[s] = "done" /\ s \notin blind =>
            session[s] \in {"none", IF outcome[s] = "ok" THEN "completed" ELSE "failed"}

\* The sweep takes no spawned subagent for dead that is still running, for the
\* timeout of the child is shorter than the age that the sweep looks for; one
\* that has slipped its timeout is the exception. This is no promise to the
\* delegations that are waited for, whose rows the sweep sees too: their
\* subagents have no timeout.
SweepSparesRunning ==
    [][\A s \in Subagents :
           session[s] = "running" /\ session'[s] = "failed" => work[s] # "running"]_vars

\* The subagents as seen by Promises: there is a verdict on a subagent as soon
\* as it has ended.
Verdict ==
    [s \in Subagents |-> IF work[s] \in {"none", "lost"} THEN work[s]
                         ELSE IF work[s] \in {"saving", "done"} THEN outcome[s]
                         ELSE "pending"]
Open == {s \in Subagents : future[s] # "none"}
Asked == [c \in Callers |-> {batch[c][i] : i \in DOMAIN batch[c]}]

Promised == INSTANCE Promises
    WITH verdict <- Verdict, open <- Open, asked <- Asked, taken <- results, got <- answer

\* Spawning keeps its promises: each task of a batch belongs to its caller
\* alone and is taken by it once, a subagent that goes on after a batch has all
\* of it, only a live subagent waits, and a verdict is never revised,
\* whatever times out, is cancelled or collected in between.
PromiseSpec == Promised!Spec

\* Every spawn comes to an answer, so that again and again none is under way: a
\* subagent that hangs is timed out, one that waits for others, for itself or for
\* one that waits for it included.  Only one that has slipped its timeout may go on.
SpawnsEnd ==
    []<>(\A s \in Subagents : work[s] \in {"none", "done", "lost", "absorbed"})

\* Nobody waits for ever, be it for a subagent that never answers, for itself
\* or in a circle.  Only a batch with a subagent that has slipped its timeout
\* may keep its caller.
WaitsEnd ==
    \A c \in Callers :
        call[c] # "none" ~>
            \/ call[c] = "none"
            \/ call[c] = "batch" /\ \E s \in waits[c] : work[s] = "absorbed"

-----------------------------------------------------------------------------
(* What the documentation says and the code does not do *)

\* delegate_task answers a batch with the i-th result under the i-th task.
ResultsMatchTasks ==
    [][\A c \in Callers :
           call[c] = "batch" /\ waits[c] = {} /\ call'[c] = "none" => results[c] = batch[c]]_vars
=============================================================================
