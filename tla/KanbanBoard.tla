----------------------------- MODULE KanbanBoard -----------------------------
(***************************************************************************)
(* The tasks of one kanban board and everyone who moves them: the calls of *)
(* agents and users, claim requests, the dispatcher's ticks, the review    *)
(* agent with its reaper, and the sweep at the end of the run that owns    *)
(* the board. They share nothing but the rows: every SQL statement is an   *)
(* action, and rows a process has selected are acted on later, one by one. *)
(***************************************************************************)
EXTENDS Integers, FiniteSets

CONSTANTS
    Tasks, Claimers,   \* claim and complete requests in flight at once
    FailureLimit,      \* failure_limit of the board's config
    Calls,             \* the operations clients call, on any task at any time
    Moves,             \* columns that update_task, a rule or triage moves to
    Hours,             \* hours of the day at which claims are made
    Tickers, Loop,     \* calls of tick: the loop's, and the admin endpoint's
    BatchSize,         \* LIMIT of the review agent's query (5)
    MaxFaults,         \* bound: failing queries and crashes
    NoOne, NoRequest

\* "backlog" stands for triage and flaky_heat too: no statement names them.
Columns == {"backlog", "ready", "in_progress", "review", "done", "blocked"}

\* What complete_task, or claim_task, will do to the task it has read.
Completions == [task : Tasks, does : {"review", "done"}]
Requests == Completions \union [task : Tasks, does : {"claim", "block"}]

ASSUME KanbanAssumption ==
    /\ FailureLimit \in Nat \ {0} /\ BatchSize \in Nat \ {0} /\ MaxFaults \in Nat
    /\ Calls \subseteq {"claim", "complete", "block", "heartbeat", "approve",
                        "reject", "unblock", "set_review"}
    /\ Moves \subseteq Columns
    /\ Hours \subseteq 0..23
    /\ Loop \in Tickers
    /\ NoOne \notin Claimers
    /\ NoRequest \notin Requests

VARIABLES
    column,     \* column[t]
    owner,      \* owner[t]: whose claim_token the row holds, or NoOne
    expires,    \* expires[t]: claim_expires_at is NULL, ahead or past
    failures,   \* failures[t]: failure_count
    needs,      \* needs[t]: needs_review
    review,     \* review[t]: review_status
    request,    \* request[c]: the second half of c's request, or NoRequest
    tick,       \* tick[d]: the pass tick d is in, and the rows it has selected
    agent,      \* the review agent's cycle: step, parity, selected rows
    run,        \* the run that owns the board, the rows of its last sweep and
                \* the completion the sweep is in
    faults

task == <<column, owner, expires, failures, needs, review>>
procs == <<request, tick, agent, run>>
vars == <<task, procs, faults>>

-----------------------------------------------------------------------------
\* Mutants end in Bug: a slip in the definition that follows.

\* Nothing tells counts beyond both limits apart: the counter saturates there.
FailureCap == IF FailureLimit < 2 THEN 2 ELSE FailureLimit
Bump(n) == IF n = FailureCap THEN n ELSE n + 1

Open == Columns \ {"blocked", "done", "review"}

TypeOK ==
    /\ column \in [Tasks -> Columns]
    /\ owner \in [Tasks -> Claimers \union {NoOne}]
    /\ expires \in [Tasks -> {"none", "live", "past"}]
    /\ failures \in [Tasks -> 0..FailureCap]
    /\ review \in [Tasks -> {"none", "approved", "rejected"}]
    /\ needs \in [Tasks -> BOOLEAN]
    /\ request \in [Claimers -> Requests \union {NoRequest}]
    /\ tick \in [Tickers -> [pass : {"reclaim", "spin", "block", "orphans", "sweep"},
                             rows : SUBSET Tasks]]
    /\ agent \in [step : {"reap", "select", "review"}, even : BOOLEAN,
                  rows : SUBSET Tasks]
    /\ run \in [state : {"going", "succeeded", "failed", "over"}, rows : SUBSET Tasks,
               sweep : Completions \union {NoRequest}]
    /\ faults \in 0..MaxFaults

NewTick == [pass |-> "reclaim", rows |-> {}]
FirstCycle == [step |-> "select", even |-> FALSE, rows |-> {}]

Init ==
    /\ column \in [Tasks -> {"backlog", "ready"}]
    /\ owner = [t \in Tasks |-> NoOne]
    /\ expires = [t \in Tasks |-> "none"]
    /\ failures = [t \in Tasks |-> 0]
    /\ review = [t \in Tasks |-> "none"]
    /\ needs \in [Tasks -> BOOLEAN]
    /\ request = [c \in Claimers |-> NoRequest]
    /\ tick = [d \in Tickers |-> NewTick]
    /\ agent = FirstCycle
    /\ run = [state |-> "going", rows |-> {}, sweep |-> NoRequest]
    /\ faults = 0

Put(t, col) == column' = [column EXCEPT ![t] = col]
Release(t) == owner' = [owner EXCEPT ![t] = NoOne]

-----------------------------------------------------------------------------
(* claim_task and complete_task: a SELECT, then an UPDATE *)

Reads(c, t, does) ==
    /\ request[c] = NoRequest
    /\ request' = [request EXCEPT ![c] = [task |-> t, does |-> does]]
    /\ UNCHANGED <<task, tick, agent, run, faults>>

Answered(c) == request' = [request EXCEPT ![c] = NoRequest]

ClaimReads(c, t) ==
    /\ "claim" \in Calls
    /\ Reads(c, t, IF failures[t] >= FailureLimit THEN "block" ELSE "claim")

ClaimBlocks(c) ==
    /\ request[c] # NoRequest
    /\ request[c].does = "block"
    /\ Put(request[c].task, "blocked")
    /\ Release(request[c].task)
    /\ Answered(c)
    /\ UNCHANGED <<expires, failures, needs, review, tick, agent, run, faults>>

ClaimTakesBug(c) ==   \* the UPDATE does not look at claim_token
    /\ request[c] # NoRequest
    /\ request[c].does = "claim"
    /\ \E h \in Hours : h + 1 \in 0..23
    /\ LET t == request[c].task IN
         /\ Put(t, "in_progress")
         /\ owner' = [owner EXCEPT ![t] = c]
         /\ expires' = [expires EXCEPT ![t] = "live"]
    /\ Answered(c)
    /\ UNCHANGED <<failures, needs, review, tick, agent, run, faults>>

\* Whatever the column: the UPDATE only asks for a NULL claim_token.
ClaimTakes(c) ==
    /\ request[c] # NoRequest
    /\ request[c].does = "claim"
    /\ \E h \in Hours : h + 1 \in 0..23
    /\ LET t == request[c].task IN
         /\ owner[t] = NoOne
         /\ Put(t, "in_progress")
         /\ owner' = [owner EXCEPT ![t] = c]
         /\ expires' = [expires EXCEPT ![t] = "live"]
    /\ Answered(c)
    /\ UNCHANGED <<failures, needs, review, tick, agent, run, faults>>

\* already_claimed, or now.replace(hour=now.hour + 1) raises.
ClaimRefused(c) ==
    /\ request[c] # NoRequest
    /\ request[c].does = "claim"
    /\ \/ owner[request[c].task] # NoOne
       \/ \E h \in Hours : h + 1 \notin 0..23
    /\ Answered(c)
    /\ UNCHANGED <<task, tick, agent, run, faults>>

TargetBug(t) == "done"   \* straight to done

Target(t) == IF needs[t] THEN "review" ELSE "done"

CompleteReads(c, t) ==
    /\ "complete" \in Calls
    /\ Reads(c, t, Target(t))

\* The target is the one of the SELECT, whatever needs_review says by now.
Complete(completion) ==
    /\ Put(completion.task, completion.does)
    /\ Release(completion.task)
    /\ UNCHANGED <<expires, failures, needs, review>>

CompleteWrites(c) ==
    /\ request[c] # NoRequest
    /\ request[c].does \in {"review", "done"}
    /\ Complete(request[c])
    /\ Answered(c)
    /\ UNCHANGED <<tick, agent, run, faults>>

Request(c) ==
    \/ \E t \in Tasks : ClaimReads(c, t) \/ CompleteReads(c, t)
    \/ ClaimBlocks(c) \/ ClaimTakes(c) \/ ClaimRefused(c) \/ CompleteWrites(c)

-----------------------------------------------------------------------------
(* The operations that are one statement; no one asks who is calling *)

Block(t) ==
    /\ Put(t, "blocked")
    /\ failures' = [failures EXCEPT ![t] = Bump(@)]
    /\ Release(t)
    /\ UNCHANGED <<expires, needs, review>>

BlockTask(t) ==
    /\ "block" \in Calls
    /\ Block(t)
    /\ UNCHANGED <<procs, faults>>

HeartbeatTask(t) ==
    /\ "heartbeat" \in Calls
    /\ column[t] = "in_progress"
    /\ expires' = [expires EXCEPT ![t] = "live"]
    /\ UNCHANGED <<column, owner, failures, needs, review, procs, faults>>

\* Both verdicts apply whatever the column; an approval keeps the claim.
ApproveTask(t) ==
    /\ "approve" \in Calls
    /\ Put(t, "done")
    /\ review' = [review EXCEPT ![t] = "approved"]
    /\ UNCHANGED <<owner, expires, failures, needs, procs, faults>>

RejectTask(t) ==
    /\ "reject" \in Calls
    /\ Put(t, "in_progress")
    /\ review' = [review EXCEPT ![t] = "rejected"]
    /\ Release(t)
    /\ UNCHANGED <<expires, failures, needs, procs, faults>>

UnblockTaskBug(t) ==  \* takes one failure back
    /\ "unblock" \in Calls
    /\ column[t] = "blocked"
    /\ Put(t, "ready")
    /\ failures' = [failures EXCEPT ![t] = @ - 1]
    /\ UNCHANGED <<owner, expires, needs, review, procs, faults>>

UnblockTask(t) ==
    /\ "unblock" \in Calls
    /\ column[t] = "blocked"
    /\ Put(t, "ready")
    /\ failures' = [failures EXCEPT ![t] = 0]
    /\ UNCHANGED <<owner, expires, needs, review, procs, faults>>

\* update_task writes the column, needs_review or both in one statement; a move
\* by a rule or by triage_task, the column.
UpdateTask(t, col, need) ==
    /\ col \in Moves \union {column[t]}
    /\ need = needs[t] \/ "set_review" \in Calls
    /\ Put(t, col)
    /\ needs' = [needs EXCEPT ![t] = need]
    /\ UNCHANGED <<owner, expires, failures, review, procs, faults>>

Client(t) ==
    \/ BlockTask(t) \/ HeartbeatTask(t) \/ ApproveTask(t)
    \/ RejectTask(t) \/ UnblockTask(t)
    \/ \E col \in Columns, need \in BOOLEAN : UpdateTask(t, col, need)

\* An hour passes. The field is kept when the token is cleared.
ClaimExpires(t) ==
    /\ expires[t] = "live"
    /\ expires' = [expires EXCEPT ![t] = "past"]
    /\ UNCHANGED <<column, owner, failures, needs, review, procs, faults>>

-----------------------------------------------------------------------------
(* Dispatcher.tick *)

Enter(d, pass, rows) == tick' = [tick EXCEPT ![d] = [pass |-> pass, rows |-> rows]]

\* One more selected row done; the last one ends the pass.
RowDone(d, t, next) ==
    Enter(d, IF tick[d].rows = {t} THEN next ELSE tick[d].pass, tick[d].rows \ {t})

ReclaimStaleClaimsBug(d) ==  \* clears the wrong half of the claim
    /\ tick[d].pass = "reclaim"
    /\ LET stale == {t \in Tasks : column[t] = "in_progress" /\ expires[t] = "past"} IN
         /\ column' = [t \in Tasks |-> IF t \in stale THEN "ready" ELSE column[t]]
         /\ expires' = [t \in Tasks |-> IF t \in stale THEN "none" ELSE expires[t]]
    /\ Enter(d, "spin", {})
    /\ UNCHANGED <<owner, failures, needs, review, request, agent, run, faults>>

\* One UPDATE for all expired rows in progress, claimed or not.
ReclaimStaleClaims(d) ==
    /\ tick[d].pass = "reclaim"
    /\ LET stale == {t \in Tasks : column[t] = "in_progress" /\ expires[t] = "past"} IN
         /\ column' = [t \in Tasks |-> IF t \in stale THEN "ready" ELSE column[t]]
         /\ owner' = [t \in Tasks |-> IF t \in stale THEN NoOne ELSE owner[t]]
         /\ failures' = [t \in Tasks |-> IF t \in stale THEN Bump(failures[t])
                                                       ELSE failures[t]]
    /\ Enter(d, "spin", {})
    /\ UNCHANGED <<expires, needs, review, request, agent, run, faults>>

OverLimitBug(t) == failures[t] > 2 /\ failures[t] >= FailureLimit

\* The query has the default limit in it, the loop applies the board's.
OverLimit(t) == failures[t] >= 2 /\ failures[t] >= FailureLimit

SpinSelects(d) ==
    /\ tick[d].pass = "spin"
    /\ LET over == {t \in Tasks : column[t] \in Open /\ OverLimit(t)} IN
         Enter(d, IF over = {} THEN "orphans" ELSE "block", over)
    /\ UNCHANGED <<task, request, agent, run, faults>>

SpinBlocks(d, t) ==
    /\ tick[d].pass = "block"
    /\ t \in tick[d].rows
    /\ Put(t, "blocked")
    /\ Release(t)
    /\ RowDone(d, t, "orphans")
    /\ UNCHANGED <<expires, failures, needs, review, request, agent, run, faults>>

OrphansBug == {t \in Tasks : column[t] = "in_progress" /\ owner[t] # NoOne}

\* Every task in progress, however live its claim.
Orphans == {t \in Tasks : column[t] = "in_progress"}

SweepSelects(d) ==
    /\ tick[d].pass = "orphans"
    /\ Enter(d, IF Orphans = {} THEN "reclaim" ELSE "sweep", Orphans)
    /\ UNCHANGED <<task, request, agent, run, faults>>

SweepBlocks(d, t) ==
    /\ tick[d].pass = "sweep"
    /\ t \in tick[d].rows
    /\ Block(t)
    /\ RowDone(d, t, "reclaim")
    /\ UNCHANGED <<request, agent, run, faults>>

Dispatcher(d) ==
    \/ ReclaimStaleClaims(d) \/ SpinSelects(d) \/ SweepSelects(d)
    \/ \E t \in Tasks : SpinBlocks(d, t) \/ SweepBlocks(d, t)

-----------------------------------------------------------------------------
(* sweep_orphan_in_progress at the end of the run that owns the board *)

RunEnds(how) ==
    /\ run.state = "going"
    /\ run' = [run EXCEPT !.state = IF Orphans = {} THEN "over" ELSE how,
                          !.rows = Orphans]
    /\ UNCHANGED <<task, request, tick, agent, faults>>

RunRowDone(t) ==
    run' = [state |-> IF run.rows = {t} THEN "over" ELSE run.state,
            rows |-> run.rows \ {t}, sweep |-> NoRequest]

RunBlocks(t) ==
    /\ run.state = "failed"
    /\ t \in run.rows
    /\ Block(t)
    /\ RunRowDone(t)
    /\ UNCHANGED <<request, tick, agent, faults>>

RunReads(t) ==
    /\ run.state = "succeeded"
    /\ run.sweep = NoRequest
    /\ t \in run.rows
    /\ run' = [run EXCEPT !.sweep = [task |-> t, does |-> Target(t)]]
    /\ UNCHANGED <<task, request, tick, agent, faults>>

RunCompletes(t) ==
    /\ run.sweep # NoRequest
    /\ run.sweep.task = t
    /\ Complete(run.sweep)
    /\ RunRowDone(t)
    /\ UNCHANGED <<request, tick, agent, faults>>

RunSweeps(t) == RunBlocks(t) \/ RunReads(t) \/ RunCompletes(t)

-----------------------------------------------------------------------------
(* run_review_agent_loop: every second cycle starts with the reaper *)

NextCycle == [step |-> IF agent.even THEN "select" ELSE "reap",
              even |-> ~agent.even, rows |-> {}]

ReapStaleClaimsBug == \* reclaims what the dispatcher reclaims
    /\ agent.step = "reap"
    /\ LET stale == {t \in Tasks : /\ owner[t] # NoOne /\ expires[t] = "past"
                                   /\ column[t] = "in_progress"} IN
         /\ column' = [t \in Tasks |-> IF t \in stale THEN "ready" ELSE column[t]]
         /\ owner' = [t \in Tasks |-> IF t \in stale THEN NoOne ELSE owner[t]]
         /\ expires' = [t \in Tasks |-> IF t \in stale THEN "none" ELSE expires[t]]
         /\ failures' = [t \in Tasks |-> IF t \in stale THEN Bump(failures[t])
                                                       ELSE failures[t]]
    /\ agent' = [agent EXCEPT !.step = "select"]
    /\ UNCHANGED <<needs, review, request, tick, run, faults>>

\* Expired claims in any column; the claim is cleared whole.
ReapStaleClaims ==
    /\ agent.step = "reap"
    /\ LET stale == {t \in Tasks : owner[t] # NoOne /\ expires[t] = "past"} IN
         /\ column' = [t \in Tasks |-> IF t \in stale THEN "ready" ELSE column[t]]
         /\ owner' = [t \in Tasks |-> IF t \in stale THEN NoOne ELSE owner[t]]
         /\ expires' = [t \in Tasks |-> IF t \in stale THEN "none" ELSE expires[t]]
         /\ failures' = [t \in Tasks |-> IF t \in stale THEN Bump(failures[t])
                                                       ELSE failures[t]]
    /\ agent' = [agent EXCEPT !.step = "select"]
    /\ UNCHANGED <<needs, review, request, tick, run, faults>>

ToReview == {t \in Tasks : column[t] = "review" /\ needs[t] /\ review[t] = "none"}

ReviewSelects ==
    /\ agent.step = "select"
    /\ \E rows \in SUBSET ToReview :
         /\ Cardinality(rows) <= BatchSize
         /\ rows # ToReview => Cardinality(rows) = BatchSize
         /\ agent' = IF rows = {} THEN NextCycle
                     ELSE [agent EXCEPT !.step = "review", !.rows = rows]
    /\ UNCHANGED <<task, request, tick, run, faults>>

Verdict(t) ==
    /\ agent.step = "review"
    /\ t \in agent.rows
    /\ agent' = IF agent.rows = {t} THEN NextCycle
                ELSE [agent EXCEPT !.rows = @ \ {t}]
    /\ UNCHANGED <<owner, expires, failures, needs, request, tick, run, faults>>

\* The verdict is on the row as selected; the row may have moved since.
ReviewApproves(t) ==
    /\ Verdict(t)
    /\ Put(t, "done")
    /\ review' = [review EXCEPT ![t] = "approved"]

ReviewRejects(t) ==
    /\ Verdict(t)
    /\ review' = [review EXCEPT ![t] = "rejected"]
    /\ UNCHANGED column

\* The LLM call or its answer's JSON fails: the row is left for a later cycle.
ReviewSkips(t) ==
    /\ Verdict(t)
    /\ UNCHANGED <<column, review>>

ReviewAgent ==
    \/ ReapStaleClaims \/ ReviewSelects
    \/ \E t \in Tasks : ReviewApproves(t) \/ ReviewRejects(t) \/ ReviewSkips(t)

-----------------------------------------------------------------------------
(* Faults *)

\* A failing query ends the tick, or the sweep of the run.
TickFails(d) ==
    /\ faults < MaxFaults
    /\ faults' = faults + 1
    /\ Enter(d, "reclaim", {})
    /\ UNCHANGED <<task, request, agent, run>>

SweepFails ==
    /\ run.rows # {}
    /\ faults < MaxFaults
    /\ faults' = faults + 1
    /\ run' = [state |-> "over", rows |-> {}, sweep |-> NoRequest]
    /\ UNCHANGED <<task, request, tick, agent>>

\* The reaper's failure is swallowed; the query's ends the cycle.
CycleFails ==
    /\ agent.step # "review"
    /\ faults < MaxFaults
    /\ faults' = faults + 1
    /\ agent' = IF agent.step = "reap" THEN [agent EXCEPT !.step = "select"]
                                       ELSE NextCycle
    /\ UNCHANGED <<task, request, tick, run>>

\* The process dies: the rows survive, whatever was under way does not.
Crash ==
    /\ faults < MaxFaults
    /\ faults' = faults + 1
    /\ request' = [c \in Claimers |-> NoRequest]
    /\ tick' = [d \in Tickers |-> NewTick]
    /\ agent' = FirstCycle
    /\ run' = [state |-> "over", rows |-> {}, sweep |-> NoRequest]
    /\ UNCHANGED task

Next ==
    \/ \E c \in Claimers : Request(c)
    \/ \E t \in Tasks : Client(t) \/ ClaimExpires(t) \/ RunSweeps(t)
    \/ \E d \in Tickers : Dispatcher(d) \/ TickFails(d)
    \/ \E how \in {"succeeded", "failed"} : RunEnds(how)
    \/ ReviewAgent
    \/ SweepFails \/ CycleFails \/ Crash

Spec == Init /\ [][Next]_vars

(***************************************************************************)
(* The loops of the process keep going (both swallow every exception, and  *)
(* the LLM client has a timeout), a request under way is answered, the run's *)
(* sweep goes through, and hours pass. Nothing is assumed of the clients,  *)
(* of the admin's ticks, or of the run.                                    *)
(***************************************************************************)
Fairness ==
    /\ WF_vars(Dispatcher(Loop))
    /\ WF_vars(ReviewAgent)
    /\ \A t \in Tasks : WF_vars(ClaimExpires(t)) /\ WF_vars(RunSweeps(t))
    /\ \A c \in Claimers : WF_vars(request[c] # NoRequest /\ Request(c))

FairSpec == Spec /\ Fairness

-----------------------------------------------------------------------------
(* Properties *)

\* claim_task is atomic although it reads and writes in two statements: a
\* claim is never taken over by another claimer, it must be released first.
ClaimIsExclusive ==
    [][\A t \in Tasks :
          owner[t] # NoOne /\ owner'[t] # NoOne => owner'[t] = owner[t]]_vars

\* Every claim can expire: no reclaim, reap or sweep, on rows however stale,
\* leaves a claim_token without the claim_expires_at the reaper looks for.
LeaseHasExpiry == \A t \in Tasks : owner[t] # NoOne => expires[t] # "none"

\* Review is on and no completion under way has found it off.
UnderReview(t) ==
    /\ needs[t]
    /\ \A completion \in {request[c] : c \in Claimers} \union {run.sweep} :
          completion # [task |-> t, does |-> "done"]

\* As long as its review is not switched off, a task stays under review and
\* gets to done by an approval only: not by a worker's complete, a sweep, or a
\* verdict of the other kind. A completion that found review off is the gap:
\* it goes through although review has been switched on meanwhile.
DoneByApproval ==
    [][\A t \in Tasks :
          UnderReview(t) /\ needs'[t] =>
              /\ UnderReview(t)'
              /\ column[t] # "done" /\ column'[t] = "done"
                    => review'[t] = "approved"]_vars

\* No worker, dead or alive, keeps a task for ever, wherever it was moved.
LeaseEnds == \A t \in Tasks : owner[t] # NoOne ~> owner[t] = NoOne

\* No task stays in progress for ever, not even a rejected one that nobody
\* holds: it would block the board from being archived.
InProgressEnds ==
    \A t \in Tasks : column[t] = "in_progress" ~> column[t] # "in_progress"

\* A task that has used up its failures stops cycling, even if nobody claims
\* it again. True of limits from two on: the query has a two of its own.
OverLimitBlocked ==
    \A t \in Tasks :
        (failures[t] >= FailureLimit /\ column[t] \in Open)
            ~> (column[t] \notin Open \/ failures[t] < FailureLimit)
=============================================================================
