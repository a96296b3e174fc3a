-------------------------- MODULE KanbanBoardProofs --------------------------
(* What holds of KanbanBoard for any tasks, claimers, tickers, limits and   *)
(* any set of calls. DoneByApproval needs that nobody moves tasks to done.  *)
EXTENDS KanbanBoard, TLAPS

TaskTypes ==
    /\ column \in [Tasks -> Columns]
    /\ owner \in [Tasks -> Claimers \union {NoOne}]
    /\ expires \in [Tasks -> {"none", "live", "past"}]
    /\ failures \in [Tasks -> 0..FailureCap]
    /\ needs \in [Tasks -> BOOLEAN]
    /\ review \in [Tasks -> {"none", "approved", "rejected"}]

\* What the processes keep between two statements.
RequestType == request \in [Claimers -> Requests \union {NoRequest}]
TickType == tick \in [Tickers -> [pass : {"reclaim", "spin", "block", "orphans", "sweep"},
                                  rows : SUBSET Tasks]]
AgentType == agent \in [step : {"reap", "select", "review"}, even : BOOLEAN,
                        rows : SUBSET Tasks]
RunType == run \in [state : {"going", "succeeded", "failed", "over"}, rows : SUBSET Tasks,
                    sweep : Completions \union {NoRequest}]

LEMMA BumpType == \A n \in 0..FailureCap : Bump(n) \in 0..FailureCap
BY KanbanAssumption DEF Bump, FailureCap

\* A completion takes its task to review or to done, and NoRequest is none.
LEMMA RequestFacts ==
    /\ Completions \subseteq Requests
    /\ \A r \in Requests : r # NoRequest /\ r.task \in Tasks
    /\ \A r \in Requests : r.does \in {"review", "done"} => r \in Completions
    /\ \A r \in Completions : r.does \in {"review", "done"}
    /\ \A t \in Tasks : [task |-> t, does |-> Target(t)] \in Completions
    /\ \A t \in Tasks : [task |-> t, does |-> "claim"] \in Requests
    /\ \A t \in Tasks : [task |-> t, does |-> "block"] \in Requests
BY KanbanAssumption DEF Requests, Completions, Target

LEMMA InitIInv == Init => TypeOK /\ LeaseHasExpiry
<1> SUFFICES ASSUME Init PROVE TypeOK /\ LeaseHasExpiry
  OBVIOUS
<1> USE KanbanAssumption DEF Init
<1>1. TypeOK
  <2>1. 0 \in 0..FailureCap
    BY DEF FailureCap
  <2> QED
    BY <2>1 DEF TypeOK, Columns, NewTick, FirstCycle
<1>2. LeaseHasExpiry
  BY DEF LeaseHasExpiry
<1> QED
  BY <1>1, <1>2

-----------------------------------------------------------------------------
(* Type correctness: first the rows, then the processes *)

LEMMA RowTypes ==
    ASSUME TypeOK, [Next]_vars
    PROVE  TaskTypes'
<1> USE KanbanAssumption DEF TypeOK, TaskTypes, Columns
<1> USE BumpType
<1>1. CASE UNCHANGED vars
  BY <1>1 DEF vars, task
<1>0. ASSUME NEW r \in Completions, Complete(r) PROVE TaskTypes'
  BY <1>0 DEF Complete, Completions, Put, Release
<1>2. ASSUME NEW c \in Claimers, Request(c) PROVE TaskTypes'
  <2>1. ASSUME NEW t \in Tasks, ClaimReads(c, t) \/ CompleteReads(c, t) PROVE TaskTypes'
    BY <2>1 DEF ClaimReads, CompleteReads, Reads, task
  <2>2. CASE ClaimBlocks(c)
    BY <2>2 DEF ClaimBlocks, Put, Release
  <2>3. CASE ClaimTakes(c)
    BY <2>3 DEF ClaimTakes, Put
  <2>4. CASE ClaimRefused(c)
    BY <2>4 DEF ClaimRefused, task
  <2>5. CASE CompleteWrites(c)
    <3>1. request[c] \in Completions
      BY <2>5, RequestFacts DEF CompleteWrites
    <3> QED
      BY <1>0, <2>5, <3>1 DEF CompleteWrites
  <2> QED
    BY <1>2, <2>1, <2>2, <2>3, <2>4, <2>5 DEF Request
<1>3. ASSUME NEW t \in Tasks, Client(t) PROVE TaskTypes'
  <2>2. CASE BlockTask(t)
    BY <2>2 DEF BlockTask, Block, Put, Release
  <2>3. CASE HeartbeatTask(t)
    BY <2>3 DEF HeartbeatTask
  <2>4. CASE ApproveTask(t)
    BY <2>4 DEF ApproveTask, Put
  <2>5. CASE RejectTask(t)
    BY <2>5 DEF RejectTask, Put, Release
  <2>6. CASE UnblockTask(t)
    BY <2>6 DEF UnblockTask, Put, FailureCap
  <2>7. ASSUME NEW col \in Columns, NEW need \in BOOLEAN, UpdateTask(t, col, need)
        PROVE  TaskTypes'
    BY <2>7 DEF UpdateTask, Put
  <2> QED
    BY <1>3, <2>2, <2>3, <2>4, <2>5, <2>6, <2>7 DEF Client
<1>4. ASSUME NEW t \in Tasks, ClaimExpires(t) PROVE TaskTypes'
  BY <1>4 DEF ClaimExpires
<1>5. ASSUME NEW t \in Tasks, RunSweeps(t) PROVE TaskTypes'
  <2>1. CASE RunBlocks(t)
    BY <2>1 DEF RunBlocks, Block, Put, Release
  <2>2. CASE RunReads(t)
    BY <2>2 DEF RunReads, task
  <2>3. CASE RunCompletes(t)
    BY <1>0, <2>3, RequestFacts DEF RunCompletes
  <2> QED
    BY <1>5, <2>1, <2>2, <2>3 DEF RunSweeps
<1>6. ASSUME NEW d \in Tickers, Dispatcher(d) PROVE TaskTypes'
  <2>1. CASE ReclaimStaleClaims(d)
    BY <2>1 DEF ReclaimStaleClaims
  <2>2. CASE SpinSelects(d) \/ SweepSelects(d)
    BY <2>2 DEF SpinSelects, SweepSelects, task
  <2>3. ASSUME NEW t \in Tasks, SpinBlocks(d, t) PROVE TaskTypes'
    BY <2>3 DEF SpinBlocks, Put, Release
  <2>4. ASSUME NEW t \in Tasks, SweepBlocks(d, t) PROVE TaskTypes'
    BY <2>4 DEF SweepBlocks, Block, Put, Release
  <2> QED
    BY <1>6, <2>1, <2>2, <2>3, <2>4 DEF Dispatcher
<1>7. CASE ReviewAgent
  <2>1. CASE ReapStaleClaims
    BY <2>1 DEF ReapStaleClaims
  <2>2. CASE ReviewSelects
    BY <2>2 DEF ReviewSelects, task
  <2>3. ASSUME NEW t \in Tasks, ReviewApproves(t) PROVE TaskTypes'
    BY <2>3 DEF ReviewApproves, Verdict, Put
  <2>4. ASSUME NEW t \in Tasks, ReviewRejects(t) PROVE TaskTypes'
    BY <2>4 DEF ReviewRejects, Verdict
  <2>5. ASSUME NEW t \in Tasks, ReviewSkips(t) PROVE TaskTypes'
    BY <2>5 DEF ReviewSkips, Verdict
  <2> QED
    BY <1>7, <2>1, <2>2, <2>3, <2>4, <2>5 DEF ReviewAgent
<1>8. ASSUME UNCHANGED task PROVE TaskTypes'
  BY <1>8 DEF task
<1>9. CASE \/ \E d \in Tickers : TickFails(d)
           \/ \E how \in {"succeeded", "failed"} : RunEnds(how)
           \/ SweepFails \/ CycleFails \/ Crash
  BY <1>8, <1>9 DEF TickFails, RunEnds, SweepFails, CycleFails, Crash
<1> QED
  BY <1>1, <1>2, <1>3, <1>4, <1>5, <1>6, <1>7, <1>9 DEF Next

LEMMA ProcessTypes ==
    ASSUME TypeOK, [Next]_vars
    PROVE  /\ RequestType' /\ TickType' /\ AgentType' /\ RunType'
           /\ faults' \in 0..MaxFaults
<1> DEFINE Types == RequestType /\ TickType /\ AgentType /\ RunType
                    /\ faults \in 0..MaxFaults
<1>0. Types
  BY DEF TypeOK, RequestType, TickType, AgentType, RunType
<1> USE <1>0, KanbanAssumption DEF RequestType, TickType, AgentType, RunType
<1>1. CASE UNCHANGED <<request, tick, agent, run, faults>>
  BY <1>1
<1>2. ASSUME NEW c \in Claimers, Request(c) PROVE Types'
  <2>1. UNCHANGED <<tick, agent, run, faults>>
    BY <1>2 DEF Request, ClaimReads, CompleteReads, Reads, ClaimBlocks, ClaimTakes,
                ClaimRefused, CompleteWrites
  <2>2. RequestType'
    <3>1. ASSUME NEW t \in Tasks, ClaimReads(c, t) PROVE RequestType'
      BY <3>1, RequestFacts DEF ClaimReads, Reads
    <3>2. ASSUME NEW t \in Tasks, CompleteReads(c, t) PROVE RequestType'
      BY <3>2, RequestFacts DEF CompleteReads, Reads
    <3>3. CASE Answered(c)
      BY <3>3 DEF Answered
    <3> QED
      BY <1>2, <3>1, <3>2, <3>3 DEF Request, ClaimBlocks, ClaimTakes, ClaimRefused,
                                    CompleteWrites
  <2> QED
    BY <2>1, <2>2
<1>3. ASSUME NEW t \in Tasks, Client(t) \/ ClaimExpires(t) PROVE Types'
  BY <1>1, <1>3 DEF Client, ClaimExpires, BlockTask, HeartbeatTask, ApproveTask,
                    RejectTask, UnblockTask, UpdateTask, procs
<1>4. ASSUME NEW t \in Tasks, RunSweeps(t) PROVE Types'
  <2>1. CASE RunRowDone(t) /\ UNCHANGED <<request, tick, agent, faults>>
    BY <2>1 DEF RunRowDone
  <2>2. CASE RunReads(t)
    BY <2>2, RequestFacts DEF RunReads
  <2> QED
    BY <1>4, <2>1, <2>2 DEF RunSweeps, RunBlocks, RunCompletes
<1>5. ASSUME NEW d \in Tickers,
             NEW p \in {"reclaim", "spin", "block", "orphans", "sweep"},
             NEW rows \in SUBSET Tasks, Enter(d, p, rows)
      PROVE  TickType'
  BY <1>5 DEF Enter
<1>6. ASSUME NEW d \in Tickers, Dispatcher(d) PROVE Types'
  <2>1. UNCHANGED <<request, agent, run, faults>>
    BY <1>6 DEF Dispatcher, ReclaimStaleClaims, SpinSelects, SpinBlocks,
                SweepSelects, SweepBlocks
  <2>2. tick[d].pass \in {"reclaim", "spin", "block", "orphans", "sweep"}
        /\ tick[d].rows \subseteq Tasks
    OBVIOUS
  <2>3. ASSUME NEW t \in Tasks, NEW p \in {"reclaim", "orphans"}, RowDone(d, t, p)
        PROVE  TickType'
    BY <1>5, <2>2, <2>3 DEF RowDone
  <2>4. TickType'
    <3>1. CASE ReclaimStaleClaims(d)
      BY <1>5, <3>1 DEF ReclaimStaleClaims
    <3>2. CASE SpinSelects(d)
      BY <1>5, <3>2 DEF SpinSelects
    <3>3. CASE SweepSelects(d)
      BY <1>5, <3>3 DEF SweepSelects, Orphans
    <3>4. CASE \E t \in Tasks : SpinBlocks(d, t) \/ SweepBlocks(d, t)
      BY <2>3, <3>4 DEF SpinBlocks, SweepBlocks
    <3> QED
      BY <1>6, <3>1, <3>2, <3>3, <3>4 DEF Dispatcher
  <2> QED
    BY <2>1, <2>4
<1>7. CASE ReviewAgent
  <2>1. UNCHANGED <<request, tick, run, faults>>
    BY <1>7 DEF ReviewAgent, ReapStaleClaims, ReviewSelects, ReviewApproves,
                ReviewRejects, ReviewSkips, Verdict
  <2>2. AgentType'
    <3>1. CASE ReapStaleClaims
      BY <3>1 DEF ReapStaleClaims
    <3>2. CASE ReviewSelects
      <4>1. PICK rows \in SUBSET ToReview :
                agent' = IF rows = {} THEN NextCycle
                         ELSE [agent EXCEPT !.step = "review", !.rows = rows]
        BY <3>2 DEF ReviewSelects
      <4>2. rows \in SUBSET Tasks
        BY DEF ToReview
      <4> QED
        BY <4>1, <4>2 DEF NextCycle
    <3>3. ASSUME NEW t \in Tasks, Verdict(t) PROVE AgentType'
      BY <3>3 DEF Verdict, NextCycle
    <3> QED
      BY <1>7, <3>1, <3>2, <3>3 DEF ReviewAgent, ReviewApproves, ReviewRejects,
                                    ReviewSkips
  <2> QED
    BY <2>1, <2>2
<1>8. ASSUME NEW d \in Tickers, TickFails(d) PROVE Types'
  BY <1>5, <1>8 DEF TickFails
<1>9. ASSUME NEW how \in {"succeeded", "failed"}, RunEnds(how) PROVE Types'
  BY <1>9 DEF RunEnds, Orphans
<1>10. CASE SweepFails
  BY <1>10 DEF SweepFails
<1>11. CASE CycleFails
  BY <1>11 DEF CycleFails, NextCycle
<1>12. CASE Crash
  BY <1>12 DEF Crash, NewTick, FirstCycle
<1>13. CASE UNCHANGED vars
  BY <1>1, <1>13 DEF vars, procs
<1> QED
  BY <1>2, <1>3, <1>4, <1>6, <1>7, <1>8, <1>9, <1>10, <1>11, <1>12, <1>13 DEF Next

\* Every variable keeps its type: the counters stay in their ranges, and
\* whatever a process has selected are tasks of the board.
THEOREM TypeCorrect == Spec => []TypeOK
<1>1. TypeOK /\ [Next]_vars => TypeOK'
  BY RowTypes, ProcessTypes
     DEF TypeOK, TaskTypes, RequestType, TickType, AgentType, RunType
<1> QED
  BY <1>1, InitIInv, PTL DEF Spec

-----------------------------------------------------------------------------
(* Claims *)

\* What a step may do to the claim of a task: take it while it is free, with
\* an expiry; release it; let it expire or extend it; or leave it alone.
ClaimStep(t) ==
    \/ owner'[t] = NoOne
    \/ owner[t] = NoOne /\ expires'[t] = "live"
    \/ owner'[t] = owner[t] /\ (expires'[t] = expires[t] \/ expires'[t] # "none")

LEMMA ClaimSteps ==
    ASSUME TypeOK, [Next]_vars, NEW t \in Tasks
    PROVE  ClaimStep(t)
<1>0. /\ owner \in [Tasks -> Claimers \union {NoOne}]
      /\ expires \in [Tasks -> {"none", "live", "past"}]
      /\ request \in [Claimers -> Requests \union {NoRequest}]
  BY DEF TypeOK
<1> USE <1>0, KanbanAssumption DEF ClaimStep
<1>1. CASE UNCHANGED <<owner, expires>>
  BY <1>1
<1>2. ASSUME NEW u \in Tasks, Release(u), UNCHANGED expires PROVE ClaimStep(t)
  BY <1>2 DEF Release
<1>3. ASSUME NEW c \in Claimers, Request(c) PROVE ClaimStep(t)
  <2>1. ASSUME NEW u \in Tasks, ClaimReads(c, u) \/ CompleteReads(c, u) PROVE ClaimStep(t)
    BY <1>1, <2>1 DEF ClaimReads, CompleteReads, Reads, task
  <2>2. CASE ClaimBlocks(c) \/ CompleteWrites(c)
    <3>1. request[c].task \in Tasks
      BY <2>2, RequestFacts DEF ClaimBlocks, CompleteWrites
    <3> QED
      BY <1>2, <2>2, <3>1 DEF ClaimBlocks, CompleteWrites, Complete
  <2>3. CASE ClaimTakes(c)
    BY <2>3 DEF ClaimTakes
  <2>4. CASE ClaimRefused(c)
    BY <1>1, <2>4 DEF ClaimRefused, task
  <2> QED
    BY <1>3, <2>1, <2>2, <2>3, <2>4 DEF Request
<1>4. ASSUME NEW u \in Tasks, Client(u) PROVE ClaimStep(t)
  <2>1. CASE BlockTask(u) \/ RejectTask(u)
    BY <1>2, <2>1 DEF BlockTask, Block, RejectTask
  <2>2. CASE HeartbeatTask(u)
    BY <2>2 DEF HeartbeatTask
  <2>3. CASE \/ ApproveTask(u) \/ UnblockTask(u)
             \/ \E col \in Columns, need \in BOOLEAN : UpdateTask(u, col, need)
    BY <1>1, <2>3 DEF ApproveTask, UnblockTask, UpdateTask
  <2> QED
    BY <1>4, <2>1, <2>2, <2>3 DEF Client
<1>5. ASSUME NEW u \in Tasks, ClaimExpires(u) PROVE ClaimStep(t)
  BY <1>5 DEF ClaimExpires
<1>6. ASSUME NEW u \in Tasks, RunSweeps(u) PROVE ClaimStep(t)
  BY <1>1, <1>2, <1>6 DEF RunSweeps, RunBlocks, RunReads, RunCompletes, Complete,
                          Block, task
<1>7. ASSUME NEW d \in Tickers, Dispatcher(d) PROVE ClaimStep(t)
  <2>1. CASE ReclaimStaleClaims(d)
    BY <2>1 DEF ReclaimStaleClaims
  <2>2. CASE SpinSelects(d) \/ SweepSelects(d)
    BY <1>1, <2>2 DEF SpinSelects, SweepSelects, task
  <2>3. ASSUME NEW u \in Tasks, SpinBlocks(d, u) \/ SweepBlocks(d, u)
        PROVE  ClaimStep(t)
    BY <1>2, <2>3 DEF SpinBlocks, SweepBlocks, Block
  <2> QED
    BY <1>7, <2>1, <2>2, <2>3 DEF Dispatcher
<1>8. CASE ReviewAgent
  <2>1. CASE ReapStaleClaims
    BY <2>1 DEF ReapStaleClaims
  <2>2. CASE UNCHANGED <<owner, expires>>
    BY <1>1, <2>2
  <2> QED
    BY <1>8, <2>1, <2>2 DEF ReviewAgent, ReviewSelects, ReviewApproves,
                            ReviewRejects, ReviewSkips, Verdict, task
<1>9. CASE \/ \E d \in Tickers : TickFails(d)
           \/ \E how \in {"succeeded", "failed"} : RunEnds(how)
           \/ SweepFails \/ CycleFails \/ Crash
  BY <1>1, <1>9 DEF TickFails, RunEnds, SweepFails, CycleFails, Crash, task
<1>10. CASE UNCHANGED vars
  BY <1>1, <1>10 DEF vars, task
<1> QED
  BY <1>3, <1>4, <1>5, <1>6, <1>7, <1>8, <1>9, <1>10 DEF Next

\* No claim_token is left without a claim_expires_at: every claim can be
\* found by the reaper once its hour is over, whatever happened to the row.
THEOREM LeasesExpire == Spec => []LeaseHasExpiry
<1>1. TypeOK /\ LeaseHasExpiry /\ [Next]_vars => LeaseHasExpiry'
  BY ClaimSteps DEF LeaseHasExpiry, ClaimStep
<1> QED
  BY <1>1, InitIInv, TypeCorrect, PTL DEF Spec

\* However many requests, ticks and sweeps overlap, a claim is released before
\* it is taken again.
THEOREM ClaimsExclude == Spec => ClaimIsExclusive
<1>1. TypeOK /\ [Next]_vars =>
        [\A t \in Tasks :
            owner[t] # NoOne /\ owner'[t] # NoOne => owner'[t] = owner[t]]_vars
  BY ClaimSteps DEF ClaimStep
<1> QED
  BY <1>1, TypeCorrect, PTL DEF Spec, ClaimIsExclusive

-----------------------------------------------------------------------------
(* Reviews *)

\* What a step may do to the column of a task under review.
ColumnStep(t) == column'[t] \in {column[t]} \union (Columns \ {"done"})
                 \/ review'[t] = "approved"

LEMMA ColumnSteps ==
    ASSUME "done" \notin Moves, TypeOK, [Next]_vars, NEW t \in Tasks, UnderReview(t)
    PROVE  ColumnStep(t)
<1>0. /\ column \in [Tasks -> Columns]
      /\ review \in [Tasks -> {"none", "approved", "rejected"}]
      /\ request \in [Claimers -> Requests \union {NoRequest}]
      /\ run.sweep \in Completions \union {NoRequest}
  BY DEF TypeOK
<1>a. /\ \A c \in Claimers : request[c] # [task |-> t, does |-> "done"]
      /\ run.sweep # [task |-> t, does |-> "done"]
  BY DEF UnderReview
<1> USE <1>0, KanbanAssumption DEF ColumnStep, Columns
<1>1. CASE UNCHANGED column
  BY <1>1
<1>2. ASSUME NEW u \in Tasks, NEW col \in Columns \ {"done"}, Put(u, col)
      PROVE  ColumnStep(t)
  BY <1>2 DEF Put
<1>3. ASSUME NEW r \in Completions, r # [task |-> t, does |-> "done"], Complete(r)
      PROVE  ColumnStep(t)
  <2>1. r.task # t \/ r.does # "done"
    BY <1>3 DEF Completions
  <2>2. r.task \in Tasks /\ r.does \in Columns
    BY DEF Completions
  <2> QED
    BY <1>3, <2>1, <2>2 DEF Complete, Put
<1>4. ASSUME NEW u \in Tasks, Put(u, "done"),
             review' = [review EXCEPT ![u] = "approved"]
      PROVE  ColumnStep(t)
  BY <1>4 DEF Put
<1>5. ASSUME NEW c \in Claimers, Request(c) PROVE ColumnStep(t)
  <2>0. request[c] # NoRequest => request[c].task \in Tasks
    BY RequestFacts
  <2>1. CASE ClaimBlocks(c)
    BY <1>2, <2>0, <2>1 DEF ClaimBlocks
  <2>2. CASE ClaimTakes(c)
    BY <1>2, <2>0, <2>2 DEF ClaimTakes
  <2>3. CASE ClaimRefused(c) \/ \E u \in Tasks : ClaimReads(c, u) \/ CompleteReads(c, u)
    BY <1>1, <2>3 DEF ClaimReads, CompleteReads, Reads, ClaimRefused, task
  <2>4. CASE CompleteWrites(c)
    <3>1. request[c] \in Completions
      BY <2>4, RequestFacts DEF CompleteWrites
    <3> QED
      BY <1>3, <1>a, <2>4, <3>1 DEF CompleteWrites
  <2> QED
    BY <1>5, <2>1, <2>2, <2>3, <2>4 DEF Request
<1>6. ASSUME NEW u \in Tasks, Client(u) PROVE ColumnStep(t)
  <2>2. CASE BlockTask(u) \/ RejectTask(u) \/ UnblockTask(u)
    BY <1>2, <2>2 DEF BlockTask, Block, RejectTask, UnblockTask
  <2>3. CASE HeartbeatTask(u)
    BY <1>1, <2>3 DEF HeartbeatTask
  <2>4. CASE ApproveTask(u)
    BY <1>4, <2>4 DEF ApproveTask
  <2>5. ASSUME NEW col \in Columns, NEW need \in BOOLEAN, UpdateTask(u, col, need)
        PROVE  ColumnStep(t)
    <3>1. CASE col \in Moves
      BY <1>2, <2>5, <3>1 DEF UpdateTask
    <3>2. CASE col = column[u]
      BY <1>1, <2>5, <3>2 DEF UpdateTask, Put
    <3> QED
      BY <2>5, <3>1, <3>2 DEF UpdateTask
  <2> QED
    BY <1>6, <2>2, <2>3, <2>4, <2>5 DEF Client
<1>7. ASSUME NEW u \in Tasks, ClaimExpires(u) PROVE ColumnStep(t)
  BY <1>1, <1>7 DEF ClaimExpires
<1>8. ASSUME NEW u \in Tasks, RunSweeps(u) PROVE ColumnStep(t)
  <2>1. CASE RunBlocks(u)
    BY <1>2, <2>1 DEF RunBlocks, Block
  <2>2. CASE RunReads(u)
    BY <1>1, <2>2 DEF RunReads, task
  <2>3. CASE RunCompletes(u)
    BY <1>3, <1>a, <2>3 DEF RunCompletes
  <2> QED
    BY <1>8, <2>1, <2>2, <2>3 DEF RunSweeps
<1>9. ASSUME NEW d \in Tickers, Dispatcher(d) PROVE ColumnStep(t)
  <2>1. CASE ReclaimStaleClaims(d)
    BY <2>1 DEF ReclaimStaleClaims
  <2>2. CASE SpinSelects(d) \/ SweepSelects(d)
    BY <1>1, <2>2 DEF SpinSelects, SweepSelects, task
  <2>3. ASSUME NEW u \in Tasks, SpinBlocks(d, u) \/ SweepBlocks(d, u)
        PROVE  ColumnStep(t)
    BY <1>2, <2>3 DEF SpinBlocks, SweepBlocks, Block
  <2> QED
    BY <1>9, <2>1, <2>2, <2>3 DEF Dispatcher
<1>10. CASE ReviewAgent
  <2>1. CASE ReapStaleClaims
    BY <2>1 DEF ReapStaleClaims
  <2>2. ASSUME NEW u \in Tasks, ReviewApproves(u) PROVE ColumnStep(t)
    BY <1>4, <2>2 DEF ReviewApproves
  <2>3. CASE UNCHANGED column
    BY <1>1, <2>3
  <2> QED
    BY <1>10, <2>1, <2>2, <2>3 DEF ReviewAgent, ReviewSelects, ReviewRejects,
                                   ReviewSkips, task
<1>11. CASE \/ \E d \in Tickers : TickFails(d)
            \/ \E how \in {"succeeded", "failed"} : RunEnds(how)
            \/ SweepFails \/ CycleFails \/ Crash
  BY <1>1, <1>11 DEF TickFails, RunEnds, SweepFails, CycleFails, Crash, task
<1>12. CASE UNCHANGED vars
  BY <1>1, <1>12 DEF vars, task
<1> QED
  BY <1>5, <1>6, <1>7, <1>8, <1>9, <1>10, <1>11, <1>12 DEF Next

\* No completion that starts now finds a review switched off that is on.
LEMMA ReviewKept ==
    ASSUME TypeOK, [Next]_vars, NEW t \in Tasks, UnderReview(t), needs'[t]
    PROVE  UnderReview(t)'
<1> DEFINE Off == [task |-> t, does |-> "done"]
           Kept == /\ \A c \in Claimers : request'[c] # Off
                   /\ run'.sweep # Off
<1>0. /\ request \in [Claimers -> Requests \union {NoRequest}]
      /\ run \in [state : {"going", "succeeded", "failed", "over"}, rows : SUBSET Tasks,
                  sweep : Completions \union {NoRequest}]
  BY DEF TypeOK
<1>a. /\ needs[t]
      /\ \A c \in Claimers : request[c] # Off
      /\ run.sweep # Off
  BY DEF UnderReview
<1>b. NoRequest # Off
  BY RequestFacts DEF Requests, Completions
<1>c. ASSUME NEW u \in Tasks PROVE [task |-> u, does |-> Target(u)] # Off
  BY <1>a DEF Target
<1> SUFFICES Kept
  BY DEF UnderReview
<1> HIDE DEF Off
<1>1. CASE UNCHANGED <<request, run>>
  BY <1>1, <1>a
<1>2. ASSUME NEW c \in Claimers, Request(c) PROVE Kept
  <2>1. UNCHANGED run
    BY <1>2 DEF Request, ClaimReads, CompleteReads, Reads, ClaimBlocks, ClaimTakes,
                ClaimRefused, CompleteWrites
  <2>2. ASSUME NEW u \in Tasks, ClaimReads(c, u) PROVE Kept
    <3>1. \A does : does # "done" => [task |-> u, does |-> does] # Off
      BY DEF Off
    <3> QED
      BY <1>0, <1>a, <2>1, <2>2, <3>1 DEF ClaimReads, Reads
  <2>3. ASSUME NEW u \in Tasks, CompleteReads(c, u) PROVE Kept
    BY <1>0, <1>a, <1>c, <2>1, <2>3 DEF CompleteReads, Reads
  <2>4. CASE Answered(c)
    BY <1>0, <1>a, <1>b, <2>1, <2>4 DEF Answered
  <2> QED
    BY <1>2, <2>2, <2>3, <2>4 DEF Request, ClaimBlocks, ClaimTakes, ClaimRefused,
                                  CompleteWrites
<1>3. ASSUME NEW u \in Tasks, Client(u) \/ ClaimExpires(u) PROVE Kept
  BY <1>1, <1>3 DEF Client, ClaimExpires, BlockTask, HeartbeatTask, ApproveTask,
                    RejectTask, UnblockTask, UpdateTask, procs
<1>4. ASSUME NEW u \in Tasks, RunSweeps(u) PROVE Kept
  <2>1. UNCHANGED request
    BY <1>4 DEF RunSweeps, RunBlocks, RunReads, RunCompletes
  <2>2. CASE RunRowDone(u)
    BY <1>a, <1>b, <2>1, <2>2 DEF RunRowDone
  <2>3. CASE RunReads(u)
    BY <1>0, <1>a, <1>c, <2>1, <2>3 DEF RunReads
  <2> QED
    BY <1>4, <2>2, <2>3 DEF RunSweeps, RunBlocks, RunCompletes
<1>5. ASSUME NEW d \in Tickers, Dispatcher(d) \/ TickFails(d) PROVE Kept
  BY <1>1, <1>5 DEF Dispatcher, ReclaimStaleClaims, SpinSelects, SpinBlocks,
                    SweepSelects, SweepBlocks, TickFails
<1>6. CASE ReviewAgent \/ CycleFails
  BY <1>1, <1>6 DEF ReviewAgent, ReapStaleClaims, ReviewSelects, ReviewApproves,
                    ReviewRejects, ReviewSkips, Verdict, CycleFails
<1>7. ASSUME NEW how \in {"succeeded", "failed"}, RunEnds(how) PROVE Kept
  BY <1>0, <1>a, <1>7 DEF RunEnds
<1>8. CASE SweepFails \/ Crash
  BY <1>0, <1>a, <1>b, <1>8 DEF SweepFails, Crash
<1>9. CASE UNCHANGED vars
  BY <1>1, <1>9 DEF vars, procs
<1> QED
  BY <1>2, <1>3, <1>4, <1>5, <1>6, <1>7, <1>8, <1>9 DEF Next

\* Unless somebody moves tasks to done by hand, a task whose review is on and
\* stays on gets there by an approval only, however stale the rows a sweep or
\* the review agent works on; the exception is a completion that had read the
\* flag before it was switched on.
THEOREM DoneNeedsApproval ==
    ASSUME "done" \notin Moves
    PROVE  Spec => DoneByApproval
<1>1. TypeOK /\ [Next]_vars =>
        [\A t \in Tasks :
            UnderReview(t) /\ needs'[t] =>
                /\ UnderReview(t)'
                /\ column[t] # "done" /\ column'[t] = "done"
                      => review'[t] = "approved"]_vars
  BY ColumnSteps, ReviewKept DEF ColumnStep
<1> QED
  BY <1>1, TypeCorrect, PTL DEF Spec, DoneByApproval

-----------------------------------------------------------------------------
(* Failures and verdicts *)

\* What a step may do to failure_count: forget it, which only unblocking does;
\* count one more, which takes the task from whoever has it and makes it wait;
\* or leave it alone.
FailureStep(t) ==
    \/ failures'[t] = failures[t]
    \/ failures'[t] = 0 /\ column[t] = "blocked" /\ column'[t] = "ready"
    \/ /\ failures'[t] = Bump(failures[t])
       /\ owner'[t] = NoOne /\ column'[t] \in {"ready", "blocked"}

\* A verdict is never taken back, only replaced by another one; the review agent
\* picks up what waits for its first verdict and nothing else.
VerdictStep(t) ==
    /\ review[t] # "none" => review'[t] # "none"
    /\ t \in agent'.rows => t \in agent.rows \/ t \in ToReview

RowStep(t) == FailureStep(t) /\ VerdictStep(t)

LEMMA RowSteps ==
    ASSUME TypeOK, [Next]_vars, NEW t \in Tasks
    PROVE  RowStep(t)
<1>0. /\ column \in [Tasks -> Columns]
      /\ owner \in [Tasks -> Claimers \union {NoOne}]
      /\ failures \in [Tasks -> 0..FailureCap]
      /\ review \in [Tasks -> {"none", "approved", "rejected"}]
      /\ agent \in [step : {"reap", "select", "review"}, even : BOOLEAN,
                    rows : SUBSET Tasks]
  BY DEF TypeOK
<1> USE <1>0 DEF RowStep, FailureStep, VerdictStep
<1>1. CASE UNCHANGED <<failures, review, agent>>
  BY <1>1
<1>2. ASSUME NEW u \in Tasks, Block(u), UNCHANGED agent PROVE RowStep(t)
  BY <1>2 DEF Block, Put, Release
<1>3. ASSUME NEW c \in Claimers, Request(c) PROVE RowStep(t)
  BY <1>1, <1>3 DEF Request, ClaimReads, CompleteReads, Reads, ClaimBlocks, ClaimTakes,
                    ClaimRefused, CompleteWrites, Complete, task
<1>4. ASSUME NEW u \in Tasks, Client(u) PROVE RowStep(t)
  <2>1. CASE BlockTask(u)
    BY <1>2, <2>1 DEF BlockTask, procs
  <2>2. CASE UnblockTask(u)
    BY <2>2 DEF UnblockTask, Put, procs
  <2>3. CASE ApproveTask(u) \/ RejectTask(u)
    BY <2>3 DEF ApproveTask, RejectTask, procs
  <2>4. CASE \/ HeartbeatTask(u)
             \/ \E col \in Columns, need \in BOOLEAN : UpdateTask(u, col, need)
    BY <1>1, <2>4 DEF HeartbeatTask, UpdateTask, procs
  <2> QED
    BY <1>4, <2>1, <2>2, <2>3, <2>4 DEF Client
<1>5. ASSUME NEW u \in Tasks, ClaimExpires(u) PROVE RowStep(t)
  BY <1>1, <1>5 DEF ClaimExpires, procs
<1>6. ASSUME NEW u \in Tasks, RunSweeps(u) PROVE RowStep(t)
  BY <1>1, <1>2, <1>6 DEF RunSweeps, RunBlocks, RunReads, RunCompletes, Complete, task
<1>7. ASSUME NEW d \in Tickers, Dispatcher(d) PROVE RowStep(t)
  <2>1. CASE ReclaimStaleClaims(d)
    BY <2>1 DEF ReclaimStaleClaims
  <2>2. CASE SpinSelects(d) \/ SweepSelects(d) \/ \E u \in Tasks : SpinBlocks(d, u)
    BY <1>1, <2>2 DEF SpinSelects, SweepSelects, SpinBlocks, task
  <2>3. ASSUME NEW u \in Tasks, SweepBlocks(d, u) PROVE RowStep(t)
    BY <1>2, <2>3 DEF SweepBlocks
  <2> QED
    BY <1>7, <2>1, <2>2, <2>3 DEF Dispatcher
<1>8. CASE ReviewAgent
  <2>1. CASE ReapStaleClaims
    BY <2>1 DEF ReapStaleClaims
  <2>2. CASE ReviewSelects
    <3>1. agent'.rows \subseteq ToReview
      <4>1. PICK rows \in SUBSET ToReview :
                agent' = IF rows = {} THEN NextCycle
                         ELSE [agent EXCEPT !.step = "review", !.rows = rows]
        BY <2>2 DEF ReviewSelects
      <4> QED
        BY <4>1 DEF NextCycle
    <3> QED
      BY <2>2, <3>1 DEF ReviewSelects, task
  <2>3. ASSUME NEW u \in Tasks, Verdict(u) PROVE agent'.rows \subseteq agent.rows
    BY <2>3 DEF Verdict, NextCycle
  <2>4. ASSUME NEW u \in Tasks, ReviewApproves(u) \/ ReviewRejects(u) \/ ReviewSkips(u)
        PROVE  RowStep(t)
    <3>1. agent'.rows \subseteq agent.rows /\ UNCHANGED failures
      BY <2>3, <2>4 DEF ReviewApproves, ReviewRejects, ReviewSkips, Verdict
    <3>2. review[t] # "none" => review'[t] # "none"
      BY <2>4 DEF ReviewApproves, ReviewRejects, ReviewSkips
    <3> QED
      BY <3>1, <3>2
  <2> QED
    BY <1>8, <2>1, <2>2, <2>4 DEF ReviewAgent
<1>9. CASE CycleFails \/ Crash
  <2>1. agent'.rows \subseteq agent.rows /\ UNCHANGED task
    BY <1>9 DEF CycleFails, Crash, NextCycle, FirstCycle
  <2> QED
    BY <2>1 DEF task
<1>10. CASE \/ \E d \in Tickers : TickFails(d)
            \/ \E how \in {"succeeded", "failed"} : RunEnds(how)
            \/ SweepFails
  BY <1>1, <1>10 DEF TickFails, RunEnds, SweepFails, task
<1>11. CASE UNCHANGED vars
  BY <1>1, <1>11 DEF vars, task, procs
<1> QED
  BY <1>3, <1>4, <1>5, <1>6, <1>7, <1>8, <1>9, <1>10, <1>11 DEF Next

\* No claim, move, sweep or verdict takes a failure back, and none is counted on
\* a task that its worker keeps: the limit counts everything since the last time
\* somebody unblocked the task.
THEOREM FailuresAreKept == Spec => [][\A t \in Tasks : FailureStep(t)]_vars
<1>1. TypeOK /\ [Next]_vars => [\A t \in Tasks : FailureStep(t)]_vars
  BY RowSteps DEF RowStep
<1> QED
  BY <1>1, TypeCorrect, PTL DEF Spec

\* The review agent never judges a task a second time: one that was rejected and
\* completed again waits in review for somebody else.
THEOREM JudgedOnce == Spec => [][\A t \in Tasks : VerdictStep(t)]_vars
<1>1. TypeOK /\ [Next]_vars => [\A t \in Tasks : VerdictStep(t)]_vars
  BY RowSteps DEF RowStep
<1> QED
  BY <1>1, TypeCorrect, PTL DEF Spec

-----------------------------------------------------------------------------
(* Nobody is stuck in a pass *)

\* Whoever is in a pass over selected rows has a row left, and no one else has.
PassesHaveRows ==
    /\ \A d \in Tickers : tick[d].pass \in {"block", "sweep"} <=> tick[d].rows # {}
    /\ agent.step = "review" <=> agent.rows # {}
    /\ run.state \in {"succeeded", "failed"} <=> run.rows # {}

LEMMA PassesStep ==
    ASSUME TypeOK, PassesHaveRows, [Next]_vars
    PROVE  PassesHaveRows'
<1>0. TickType /\ AgentType /\ RunType
  BY DEF TypeOK, TickType, AgentType, RunType
<1> USE <1>0 DEF PassesHaveRows, TickType, AgentType, RunType
<1>1. CASE UNCHANGED <<tick, agent, run>>
  BY <1>1
<1>2. ASSUME NEW c \in Claimers, Request(c) PROVE PassesHaveRows'
  BY <1>1, <1>2 DEF Request, ClaimReads, CompleteReads, Reads, ClaimBlocks, ClaimTakes,
                    ClaimRefused, CompleteWrites
<1>3. ASSUME NEW t \in Tasks, Client(t) \/ ClaimExpires(t) PROVE PassesHaveRows'
  BY <1>1, <1>3 DEF Client, ClaimExpires, BlockTask, HeartbeatTask, ApproveTask,
                    RejectTask, UnblockTask, UpdateTask, procs
<1>4. ASSUME NEW t \in Tasks, RunSweeps(t) PROVE PassesHaveRows'
  BY <1>4 DEF RunSweeps, RunBlocks, RunReads, RunCompletes, RunRowDone
<1>5. ASSUME NEW d \in Tickers, NEW p, NEW rows, Enter(d, p, rows),
             p \in {"block", "sweep"} <=> rows # {}, UNCHANGED <<agent, run>>
      PROVE  PassesHaveRows'
  BY <1>5 DEF Enter
<1>6. ASSUME NEW d \in Tickers, Dispatcher(d) PROVE PassesHaveRows'
  <2>1. CASE ReclaimStaleClaims(d)
    BY <1>5, <2>1 DEF ReclaimStaleClaims
  <2>2. CASE SpinSelects(d)
    BY <1>5, <2>2 DEF SpinSelects
  <2>3. CASE SweepSelects(d)
    BY <1>5, <2>3 DEF SweepSelects
  <2>4. ASSUME NEW t \in Tasks, SpinBlocks(d, t) \/ SweepBlocks(d, t)
        PROVE  PassesHaveRows'
    <3>1. PICK p \in {"reclaim", "orphans"} : RowDone(d, t, p)
      BY <2>4 DEF SpinBlocks, SweepBlocks
    <3>2. t \in tick[d].rows /\ tick[d].pass \in {"block", "sweep"}
      BY <2>4 DEF SpinBlocks, SweepBlocks
    <3>3. UNCHANGED <<agent, run>>
      BY <2>4 DEF SpinBlocks, SweepBlocks
    <3> QED
      BY <1>5, <3>1, <3>2, <3>3 DEF RowDone
  <2> QED
    BY <1>6, <2>1, <2>2, <2>3, <2>4 DEF Dispatcher
<1>7. CASE ReviewAgent
  <2>1. CASE ReapStaleClaims
    BY <2>1 DEF ReapStaleClaims
  <2>2. CASE ReviewSelects
    <3>1. PICK rows \in SUBSET ToReview :
              agent' = IF rows = {} THEN NextCycle
                       ELSE [agent EXCEPT !.step = "review", !.rows = rows]
      BY <2>2 DEF ReviewSelects
    <3>2. agent'.step = "review" <=> agent'.rows # {}
      BY <3>1 DEF NextCycle
    <3> QED
      BY <2>2, <3>2 DEF ReviewSelects
  <2>3. ASSUME NEW t \in Tasks, Verdict(t) PROVE PassesHaveRows'
    BY <2>3 DEF Verdict, NextCycle
  <2> QED
    BY <1>7, <2>1, <2>2, <2>3 DEF ReviewAgent, ReviewApproves, ReviewRejects, ReviewSkips
<1>8. ASSUME NEW d \in Tickers, TickFails(d) PROVE PassesHaveRows'
  BY <1>5, <1>8 DEF TickFails
<1>9. ASSUME NEW how \in {"succeeded", "failed"}, RunEnds(how) PROVE PassesHaveRows'
  BY <1>9 DEF RunEnds
<1>10. CASE SweepFails \/ CycleFails
  BY <1>10 DEF SweepFails, CycleFails, NextCycle
<1>11. CASE Crash
  BY <1>11 DEF Crash, NewTick, FirstCycle
<1>12. CASE UNCHANGED vars
  BY <1>1, <1>12 DEF vars, procs
<1> QED
  BY <1>2, <1>3, <1>4, <1>6, <1>7, <1>8, <1>9, <1>10, <1>11, <1>12 DEF Next

\* Every tick, review cycle and sweep that has selected rows has one to go on
\* with, and one that has none is out of the pass: none waits for a row that
\* somebody else has moved meanwhile.
THEOREM PassesGoOn == Spec => []PassesHaveRows
<1>1. Init => PassesHaveRows
  BY DEF Init, PassesHaveRows, NewTick, FirstCycle
<1>2. TypeOK /\ PassesHaveRows /\ [Next]_vars => PassesHaveRows'
  BY PassesStep
<1> QED
  BY <1>1, <1>2, TypeCorrect, PTL DEF Spec
=============================================================================
