# TestAI: TLA+ models of the harness

TestAI is an agentic testing platform: a FastAPI backend (`src/backend`) accepts
jobs, an orchestrator runs each one as a pipeline of phases, subagents claim
tasks on a kanban board, and background loops reclaim, review and sweep what
they leave behind. Everything runs in one asyncio process in front of a Postgres
database. The models here are about the protocols between those parts: who may
write which row when, what happens between two awaits, what a crash, a timeout
or a failing query leaves.

## 1. Inventory

| Part | State it keeps | Operations | Hard behaviour | What makes it correct |
|---|---|---|---|---|
| Job row (`store/adapters/postgres.py`) | `job_specs.status` | `save`, `update_status`, `get_status`, `cancel`, `pause`, `resume` | each of `cancel/pause/resume` is a SELECT and an UPDATE that does not repeat the condition; everyone overwrites everyone | a decision a user was told of is not undone |
| Job runs (`orchestrator.py`, `phases/`) | an asyncio task, the phase it is in | `run_job_spec`, `run_single`, `run_resumed_job_spec` | several runs of one `spec_id` may overlap; `wait_for` cancels the watcher, not the run | no run goes on unwatched; no work is resumed twice |
| Cancel watcher (`services/cancel_watcher.py`) | where it is in poll / act / grace / sleep | `watch_for_cancel`, `run_with_cancel` | acts on a status read one query ago; cancels by `task.cancel()` | a cancel and a pause reach the run |
| Pause signal (`services/pause_signal.py`) | a process-wide set of spec ids | set, read, clear | set by one run's watcher, consumed by any run of the job | no stuck signal |
| Checkpoints, trackers (`services/job_checkpoint.py`) | `spec_id ->` checkpoint, `spec_id ->` tracker | save, pop, start, stop | lost in a crash; two runs share one tracker | handed over at most once; no leak |
| Job surfaces (`api/routers/jobs.py`, `services/job_control.py`, `jobs/submitter.py`) | none | submit, cancel, pause, resume | requests interleave query by query | (as above) |
| Kanban service (`services/kanban_service.py`) | a row per task: column, claim token and expiry, failure count, whether it needs a review, review status | claim, complete, heartbeat, review, block, unblock, update, triage, sweep, reap | anyone may call any operation on any task; claims expire; claiming and completing are a SELECT and an UPDATE | a lease ends; work under review is done by an approval only; failing tasks are stopped |
| Dispatcher (`dispatcher.py`) | none | `tick`: reclaim, auto-block, sweep | three SELECT-then-UPDATE passes against live workers | finished work is left alone |
| Task reviewer (`services/task_reviewer.py`) | none | reap every other cycle, review up to five tasks | an LLM call between SELECT and UPDATE | a human verdict stands |
| Delegation (`tools/delegate_task.py`, `tools/cancellation.py`) | a frame per subagent, the tree of cancellation nodes, the one `delegate_task` tool and its context | delegate, cancel a node, heartbeat, report | a `CancelledError` may arrive at every await; the tool's context is whoever used it last; batch and background subagents read it after an await; a subagent may hang | no success or failure is reported that did not happen; a delegation that is waited for leaves no node behind and is within the depth cap (section 5: neither is true of the others) |
| Background subagents (`tools/subagent.py`, `tools/collect_tool.py`) | futures, session rows | batch, background, collect, sweep | collects race answers and timeouts; agents may wait for each other; the sweep knows rows by age only | a success reported is the subagent's own; no wait is for ever; the sweep spares the living |
| Circuit breaker (`tools/circuit_breaker.py`) | state, window of events, when it opened | ask, record success, record failure | callers report to a breaker that has moved on | open means nobody calls; once calls go well the breaker closes |
| Chat agent (`agent/agent.py`, `api/routers/chat.py`, `chat/sse.py`) | one message list, budget and loop detector for all chats | answer a request, run tools, ask for approval | requests interleave wherever they await something; a request may be dropped anywhere | prompts are whole; loops are cut; requests end |
| Board waiter (`services/board_waiter.py`) | a future per board | register, wait, complete | its completion event is never raised | not modelled |
| Event bus, chat streams, A2A (`events.py`, `chat/`, `a2a/`) | subscriber queues, task states | publish, subscribe, replay | slow subscribers, replay gaps | order, no silent loss |
| Teams, sweeper, worktrees (`services/team_service.py`, ...) | members, worktrees | add, stop, sweep, prune | sweeping what is alive | nothing in use is removed |
| Budget tracker, retry tokens | counters, tokens | check, record, redeem | checked before, recorded after | see section 5 |
| Permissions, file state, loop detection, scheduler, workflows, process registry | mostly sequential state | - | boundaries, stale reads | see section 5 |
| Tools, skills, integrations, frontend | none of their own | I/O | - | not modelled |

How they meet: a job's `coordinator_spawn` phase and every agent call `delegate_task`; a
delegation runs a subagent, which claims tasks on the board and delegates in turn; every
subagent call goes through the breaker of its provider; the end of a run sweeps its board.
The chat agent starts jobs and uses the same `delegate_task` tool as the jobs do.

`PROJECT.json` lists the same parts one by one, with what of each is modelled.

## 2. Modules

| Module | What it is |
|---|---|
| `JobRun` | the life of one job: row, runs, watchers, signal, checkpoint, tracker, requests |
| `CheckpointCustody` | the abstract promise of the pause checkpoint; `JobRun` implements it |
| `KanbanBoard` | the tasks of one board and everyone who moves them |
| `Delegation` | subagents that are waited for, those of batches and the background beside them, the cancellation tree, the shared tool |
| `Spawning` | batches and background subagents, who collects them, the session sweep |
| `Promises` | the abstract promise of spawning: who owns a task, whose verdicts are settled, taken and collected as a success; `Spawning` implements it |
| `CircuitBreaker` | the breaker of one provider and the retry loops of its callers |
| `ChatAgent` | the one agent behind all chats, request by request |
| `MCJobRun`, `MCKanbanBoard`, `MCDelegation`, `MCSpawning`, `MCCircuitBreaker`, `MCChatAgent` | instances for TLC: sets of model values and symmetry |
| `JobRunProofs`, `CheckpointCustodyProofs`, `KanbanBoardProofs`, `DelegationProofs`, `SpawningProofs`, `PromisesProofs`, `CircuitBreakerProofs`, `ChatAgentProofs` | theorems and proofs |

An operator whose name ends in `Bug` is a slip a programmer could make in the
definition that follows it; `PROJECT.json` lists the property that catches each.

### JobRun

The unit of atomicity is the code between two awaits. Every read or write of the
row is a query of its own on a pooled connection, hence an action; the signal, the
checkpoint store and the tracker registry are dictionaries of the process and are
read and changed without yielding.

* `task[r]` is the asyncio task of `run_single`: `exec` in a phase, `wrote` after
  the last write of `finalize_job_spec`, `cancelling` between `task.cancel()` and the
  delivery of the `CancelledError`, then one of the ways to end. `phase[r]` is the
  phase; what a phase does is left out except that it returns, raises (skipped when
  `can_skip`), hangs, or, when it is one of `Catching`, takes a `CancelledError` for the end of
  what it waits for and goes on (`CancelCaught`). `coordinator_spawn` is such a phase:
  `Delegation` has the reason, `DeliveredInTry`.
* `watch[r]` is `run_job_spec` with its watcher: `poll` (about to query), `act` (a
  cancel or a pause was read, in `seen[r]`), `sleep`, `retry` (the query raised), `grace`
  (pause signalled, waiting for `PAUSE_GRACE_SECONDS`), `await` (awaiting the task),
  `post` (the submitter is to write the row), `end`. `PipelineTimeout` has one disjunct for each place the
  cancellation of `wait_for` can land in. In `await` that is the task itself, which is cancelled again, or
  the five seconds for which a cancelled task is awaited behind a shield, where the exception is
  swallowed (`cancel_watcher.py:184`, `:222`).
* `request[c]` is a request of a user between its queries: `cancel`, `pause`, the
  status flip of `store.resume`, and `run_resumed_job_spec` (read, flip, pop and spawn).
* `Submit` has three origins: the chat, the API (which writes the row after
  the run), and an API submission whose `save` failed.
* `Crash` empties what is in memory and keeps the row.

### CheckpointCustody

Three variables: the runs that have stopped, the checkpoint kept, the checkpoint
each run was started from. Only a stopped run leaves a checkpoint, and handing one over
takes it out of the store. `JobRun` implements it with `stopped` the runs
whose task has ended, `kept` the checkpoint store and `given` `resumedFrom`.

### KanbanBoard

One variable per column of a row that a statement tests: `column`, `owner`
(`claim_token`), `expires` (`claim_expires_at`: NULL, ahead, past), `failures`, `needs`
(`needs_review`), `review` (`review_status`). Every UPDATE is an action. `claim_task` and `complete_task`
are a SELECT and an UPDATE, with anything in between: `request[c]` is what the first has decided and the
second will do, and `run.sweep` the same for the completions of the sweep at the end of a run.
Rows a process has selected are kept with it (`tick[d].rows`, `agent.rows`, `run.rows`) and are
worked on one by one while everything else goes on. `UpdateTask` moves a task, or switches its review on
or off, as `update_task` and the PATCH endpoint do. `expires` goes on when the token
is cleared, because most statements clear only the token. `failures` saturates above both
limits it is compared with. `Calls` and `Moves` say what the clients of an instance
do; none of the operations asks who is calling, so any call may come at any time.
The column `backlog` stands for `triage` and `flaky_heat` as well, which no statement
names. The LIMIT of the review query is a parameter.

### Delegation

`mode[s]` says how a subagent was asked for: waited for (`sync`), in a batch or in the background.
For the first, `frame[s]` is where `_run_single_enhanced` is suspended: `creating` (the session
row), `setup`, `wait` (for the subagent's task), `killing` (it has cancelled that task and awaits
it), `reporting` (`persist_delegation`), `evidence`, `finally`. For the others it is where
`Subagent.spawn` is: `asked` (the session row), `apart` (under `asyncio.wait_for`), `late` (the timeout has
cancelled the subagent and awaits it). `task[t]` is the coroutine of a
job, a chat or a subagent, `node` and `kids` the cancellation tree, `ctx` the attribute
`delegation` of the one tool.

A subagent that is waited for gets its parent and depth from `ctx` in the step that sets it (`Delegates`). One of a
batch or of the background reads `ctx` after its session row was written (`BesideStarts`;
`delegate_task.py:1224`, `:1242`), when it may be another agent's. The check of `spawn` that
should cap the depth does not help: it finds no scope and takes every child for one of depth 1. A background
subagent has a node in the tree from the call on (`delegate_task.py:1302`), under a name of its own that no
subagent has as a parent, and nothing takes it out or reads its event. A batch has no nodes.
`wait_for` is that of the Dockerfile's Python 3.11: a subagent that ends by itself after it was cancelled
has its result reported (`BesideEnds`), which 3.12 would discard.

`persist_delegation` is an await and no more: nothing of a delegation is ever written there (section 5). What makes
the module hard is `Delivered`: a cancelled task gets its exception in the frame it is in, and the frame
treats it differently before its `try`, inside, in a handler, in `finally`, and while it awaits a
subagent that it has cancelled itself. In the `try` it takes the cancellation of its caller for
that of its subagent, answers "cancelled", and leaves the subagent running.

Registration in `_active_subagents` and in the tree is one step, for nothing is awaited in between.

### Spawning

`work[s]` follows `Subagent.spawn` under `asyncio.wait_for`; `call[c]` is the batch or the
collect an agent is blocked in, `future[s]` the entry of `_pending_results`, `session[s]` and `age[s]`
the row the sweep looks at, `answer[c]` what the last collect says until its caller spawns
something else. A collect answers `error` for a subagent that has failed, that nobody knows, and that
is still running when the time is up (`Says`; `subagent.py:585`, `:630`): the three cannot be told apart
by whoever asks. A subagent is an agent itself, so subagents may batch, spawn
and collect, themselves included. `absorbed` is a subagent whose timeout was delivered to a
delegation of its own that caught it (the step `DeliveredInTry` of `Delegation`): it
goes on, and `wait_for` waits for it without a limit, as it does in the Python 3.11 of the Dockerfile.
`blind` records whose row the store failed to write. A refusal (paused, too expensive, too
fast) may come at any time. `Delegation` has the same subagents from the side of the cancellation tree and
the shared context, `Spawning` from that of time, rows and collectors. The sweep sees the rows of
delegations that are waited for as well; they are not in this module, and what it says of the sweep is not
said of them.

### Promises

Five variables and no time: the verdict on each subagent, the background subagents, the batch each caller
has asked for, what it has taken of it, and what its last collect says. A verdict is settled once; a collect
says `ok` only of what has succeeded, and may say `error` of what is not settled or not known; a batch
belongs to its caller, which takes each task once and goes on when it has them all; a
subagent that ends, or an agent that is cancelled, leaves its batch and its answer, and an agent that spawns
again its answer; a crash, once there is something to lose, loses everything under way.
`Spawning` implements it with a verdict as soon as `work[s]` is `saving`, the futures as the
background subagents, `batch` as a set, `results` and `answer`. Timers, rows, the sweep and the waiting are
hidden: `Starts`, `Saves`, `Sweep`, `Tick` and a timeout that is absorbed are stutters.

### CircuitBreaker

`state`, `openedFor` (the time since `_opened_at`), `probes` and the events of the window by age; `at[c]` is
a caller's retry loop: `call` or `probe` once admitted, `backoff` between attempts. A call
may be admitted in one state and report in any other. The lottery among callers of a half-open breaker
is nondeterministic, and so are cancellations, which the breaker counts as failures, and `healthy`:
that calls go well, which takes a provider that answers and a child that raises nothing, for the breaker
counts every exception of the child (`subagent.py:688`).

### ChatAgent

All requests share `messages`, `used` (the round budget) and `history` (the loop detector's window);
`at`, `round`, `plan`, `done`, `tries` are each request's own. `messages` is a set: what a
prompt contains matters here, its order does not. Every place a request yields at is a
value of `at`: reading the store (`context`), looking for a checkpoint (`resume`), each event sent to the client (`strip`, `send`),
the model, a tool, an approval. The question joins the list before the checkpoint is looked for and the
budget is reset after it, hence `Questions` and `Begins`. `Strips` and `Sends` are two steps because an event is sent between them.
A list that is too long ends the request before a prompt is sent (`TooLong`), for the compaction raises.
`shared` is a history variable: the requests that were not alone on the agent from their
start on. The safety properties are about the others, and `finding_isolated` about these.

## 3. Runs

| Run | Instance | Shows |
|---|---|---|
| `job_overlap` | 3 runs, 1 phase, 2 clients | no checkpoint starts two runs (`OneResumePerCheckpoint`) or overlaps its saver (`ResumedAfterSaved`) |
| `job_faults` | 2 runs, 2 submissions, 1 client, 1 timeout, 1 failing query, 1 crash | `TypeOK`, `OrphanOnlyByTimeout`, `TrackerIsOwned`, refinement of `CheckpointCustody` |
| `job_liveness` | 2 runs, 1 client, 1 timeout, fairness | a cancel or a pause interrupts the phase under way (`CancelInterrupts`, `PauseInterrupts`) |
| `kanban_safety` | 1 task, 2 claim or complete requests, the loop's tick, every operation, a review that is switched on and off, 1 fault, failure limit 2 | `TypeOK`, `LeaseHasExpiry`, `ClaimIsExclusive`, `DoneByApproval` |
| `kanban_liveness` | 1 task, 1 claim or complete request, 1 fault, failure limit 2, fairness | `LeaseEnds`, `InProgressEnds`, `OverLimitBlocked` |
| `delegation` | 1 job, 1 chat, 2 subagents, depth 2, fairness | `TypeOK`, a subagent that is waited for is one below its caller and within the cap although the context is shared (`NestingIsCapped`), the tree has a node for exactly the delegations that are waited for now and every background subagent there ever was (`TreeIsExact`), a frame ends before the task that runs it, and a task is in one at a time (`FramesNest`), who is told of a success or a failure is told the truth (`AnswerIsTrue`), only a cancellation leaves a subagent running (`OnlyCancelOrphans`), every delegation ends (`DelegationsEnd`) |
| `spawning` | 1 agent, 2 subagents, 1 store failure or crash, fairness | `TypeOK`, a collected success is one, and an error of what may yet succeed comes only when the time is up (`CollectedIsTrue`), the row of who has answered says how (`RowSaysOutcome`), the sweep spares the spawned subagents that run (`SweepSparesRunning`), refinement of `Promises` (`PromiseSpec`), every spawn and every wait ends (`SpawnsEnd`, `WaitsEnd`) |
| `breaker` | 2 callers, 2 attempts, 3 calls to trip, fairness | `TypeOK`, `OpenedIsKnown`, `DocumentedTransitions`, `NobodyCallsWhileOpen`, `CallsEnd`, `Recovers` |
| `chat_agent` | 2 requests, plans of one and of two calls, 2 rounds, 2 attempts, fairness | `TypeOK`, `PromptIsWhole`, `LoopIsCut`, `RoundsAreGranted`, `ChatsEnd` |

The `finding_*` runs check one statement each that the repository makes about itself,
and TLC finds it violated:

| Run | What the code does |
|---|---|
| `finding_cancel` | a cancelled run goes on with its next phase: the delegation it waits for in `coordinator_spawn` catches the `CancelledError` (`delegate_task.py:1004`) |
| `finding_order` | a batch is answered with the results in the order of completion, printed under the goals in the order of the tasks (`delegate_task.py:364`) |
| `finding_isolated` | the prompt of one chat contains the question of another: they share one agent and its message list (`api/routers/chat.py:174`) |

**Bounds.** A checkpoint protocol goes wrong between a run, the run that resumes it and
one that overlaps either: `job_overlap` has all three. Its view `WithoutTracker` merges states that
differ in the tracker, which nothing else depends on, or in a row that says `failed` instead of `cancelled`,
which every action treats alike; the properties of the run read neither. Two runs suffice for faults, for
each is about one run and what it leaves to the next. Two phases are a last phase and
one before it; with one phase the loop ends at once. One timeout, one error and one crash
together give every pair of faults (`MaxTimeouts`, `MaxErrors`, `MaxCrashes`, `MaxSubmits`,
and `MaxFaults` of the board, are the only bounds on counters). Tasks of a board do not
interact except through the batch limit and the order of a pass, and rows may wait between
selection and use for as long as anything else takes, so one task has the interesting
interleavings; two requests, each a claim or a completion, race each other and the tick. That the loop's tick
and the admin endpoint's overlap, and what several tasks add, is left to the proofs, which are for any
number of both. `failures` saturates at the larger of the limit and 2, the only
numbers it is compared with. `CHECK_DEADLOCK FALSE` is set in the instances of `JobRun` and of
`Delegation` only: a job may be over, and the names for subagents may be used up. A board never
comes to rest, its loops go on, and neither does time.

Two subagents with depth 2 are a subagent inside another and two side by side, which is all the
frames can do to each other; a third level needs a larger cap than the code's default. In
`Spawning` two subagents can wait for each other and for themselves; the units of time keep
the order of the code's limits (`CHILD_TIMEOUT_SECONDS` 1000 below the sweep's 3600), the
only thing about them that matters, and that order is the module's assumption. In `CircuitBreaker` the
window is twice the cooldown, three calls trip so that a mixed window can stay closed, and
`MaxEvents` 7 leaves room for both callers to retry after a trip; without it the counts in
the window would grow for ever. In `ChatAgent` two rounds and a hard limit of two let the detector fire
just before the rounds run out, one plan is a single call and the other the two `execute_code`
calls whose round is refunded, and the window is as long as a run, as it is in the code (20 and 20).

**Fairness.** `JobRun` assumes weak fairness of what the event loop and the timers
owe: a scheduled coroutine starts, a watcher takes its next step, a cancellation is
delivered, a grace period ends, a request under way is answered. A phase may hang and
users may do nothing. After the last write nothing is left to wait for, so the
pipeline is fair there and only there. `KanbanBoard` assumes that the dispatcher's loop and
the review agent go on (both catch every exception, and LLM calls have a
timeout), that hours pass, that requests are answered and that a sweep under way
goes on. No fairness is assumed of clients, of other ticks than the loop's, or of a run's end.
`LeaseEnds` is checked with clients that do not move tasks into `in_progress` by hand: one
that did so between two selections of the dispatcher, and sent heartbeats there, would keep
a claim. `OverLimitBlocked` is checked for a failure limit of 2; with a limit of 1 it fails,
because the dispatcher's query has its own constant.

`Delegation` assumes that the event loop goes on with a frame and delivers cancellations, that
an agent ends unless it hangs (its rounds are limited), and that the heartbeat, or beside the caller the
timeout, notices a subagent that hangs while it is waited for. `DelegationsEnd` excludes a subagent that hangs
where neither looks any more: having swallowed its cancellation, or left
behind by a frame that answered. `Spawning` assumes the event loop and time and nothing else: some worker that can go on
does, so does every waiter, and time passes; a subagent may
hang for ever, and the timeouts must see to it. There are finitely many names for subagents and each
advances finitely often, so fairness among all workers is enough; `SpawnsEnd` says accordingly that again and again no
spawn is under way. `CircuitBreaker` assumes that calls end (`spawn`
bounds them by `asyncio.wait_for`), that time passes and calls come, and, as strong fairness, that a
half-open breaker that is asked again and again admits a call: each time it does with the same
probability. `Recovers` is conditional on calls that go well from some time on, and on callers that
are no longer cancelled. `ChatAgent` assumes the event loop and the timers of approvals: the model and
the tools may hang, users need not answer, clients need not go away.

## 4. Proofs

All theorems hold for every value of the constants that satisfies the module's named
assumption, and rest on nothing else unless said here.

**`JobRunProofs`.** The properties of the checkpoint are not inductive: from an
arbitrary state in which two resumed runs hold different checkpoints, a running pipeline
could save one that somebody already has. What prevents it is that a checkpoint names
its run and the kind of stop, and that whoever saves it is just ending. The inductive
invariant `IInv` says so:

* `TypeOK`;
* `Lifecycle`: a run whose `run_job_spec` has not started has no task, so an ended task
  is never started again;
* `References`: the checkpoint kept and those given to runs are `Settled` (their run has
  ended, and has left `run_job_spec` if `run_job_spec` is what saves it), the one kept is given to
  nobody, and no two runs share one;
* `OrphanOnlyByTimeout` and `TrackerIsOwned`, which are inductive next to these.

`EndedStays` and `SettledStays` carry what is settled over every step, `CheckpointSteps`
says what a step may do to the store, and each conjunct has a lemma with one case per
action. `Invariance` puts them together; `TypeCorrect`, `CheckpointResumedOnce`,
`ResumedRunsAlone`, `OnlyTimeoutOrphans` and `NoTrackerLeaks` follow. `ImplementsCustody`
shows that every step of `JobRun` is a step of `CheckpointCustody` or a stutter: a save is
`Keep` because its checkpoint is nobody's, a spawn is `HandOver`, a crash is `Lose`.

Three results are about the pipeline and its interruption. `RunsPhasesInOrder`: every step leaves a run where it is, takes
it from the start to the first phase or from a phase to the next, or ends it for good; it needs
`Lifecycle`, so that nothing starts an ended task. `CancelDiscardsElsewhere` says how far the finding
`finding_cancel` goes: a `CancelledError` ends a run in every phase that is not one of `Catching`.
`InterruptsAreOwed`: a cancel that was read, a grace period or a cancelled task stays under way until the run
has left its phase; only the timeout may take away a cancel that was read and not acted on.

**`CheckpointCustodyProofs`.** `CustodySafe`: the abstract module hands each
checkpoint over once and only after its run has stopped. It assumes `NamesItsRun`, that
every checkpoint names one of the runs, which the records of `JobRun` do.

**`KanbanBoardProofs`.** `TypeCorrect` (first the rows, then the processes). `ClaimSteps`
lists what any step may do to the claim of a task; `LeasesExpire` and `ClaimsExclude`
follow. `ColumnSteps` does the same for the column of a task that is `UnderReview`: its review is on, and no
completion under way has found it off. `ReviewKept` shows that it stays so while its review is not switched off, and
both give `DoneNeedsApproval`, under the assumption `"done" \notin Moves`: a client that
drags a task to `done` by hand needs no approval, and the service does not ask for one. The second half of
`UnderReview` is not a convenience: a completion that read the flag before it was switched on goes through.
`RowSteps` lists what a step does to the failures, the review status and the rows of the review
agent: failures are taken back by unblocking only, and one that is counted frees the task
(`FailuresAreKept`); a review status is never reset, and the agent selects only tasks without one, so it
judges no task twice (`JudgedOnce`, the behaviour at `task_reviewer.py:95`). `PassesGoOn` is an
invariant of the loops: a pass over selected rows has one left until it is over, so none waits for a
row that somebody else has moved.

**`DelegationProofs`.** `IInv` is `TypeOK`, the `Story` of each delegation, `NestingIsCapped`,
`TreeIsExact` and `OnlyCancelOrphans`. A story has two parts: `Links` (who delegates has a task, who is
delegated to has one once it is set up, and the places of a frame are those of its mode) and `Reports` (when an end
is being reported, the subagent has stopped unless it was cancelled), which carries `OnlyCancelOrphans` to
frames that are over. `NestingIsCapped` is preserved whatever is in `ctx`, for a frame that is waited for reads it in the
step that sets it. It says nothing of other frames, and its cap counts from the depth its caller was given.
The steps that touch neither the tree nor the links share the lemma `QuietKeeps`, the ends of a frame
`CleanupIsExact`. Proved: `DelegationTypeOK`, `DelegationNestingIsCapped`, `DelegationTreeIsExact`,
`DelegationOnlyCancelOrphans`.

`FramesNest` needs `IInv` beside it (`NInv`): a frame is opened by a running task that is in no other,
and `Links` says that this task is there until the frame is over.
`DelegationFramesNest`, `DelegationTasksEndOnce` and `DelegationAnswersOnce` come out of one
case analysis, `Nests`. `AnswerIsTrue` needs to know on top of that what a frame may say at each of its places
(`Truth`, in `TInv`): an outcome taken from a task stays true because a task that is over stays as it ended.
`DelegationFramesDescend` is a variant: each frame has a
distance to its end, ten places with the reports of an answer before those of a cancellation, and every
step leaves a frame alone or brings it nearer, the `CancelledError` that hits its handlers included. Both come
out of a second case analysis, `Proceeds`, and give `DelegationAnswerIsTrue` with it.

**`SpawningProofs`.** `IInv` is the type invariant of subagents and of callers, the story each subagent's
fields tell together (a future is pending until the outcome is there, and says the same
afterwards), `Collected` (who is told `ok` is told so of a future that says `ok`) and `RowSaysOutcome`.
Collected successes stay true because a future that is
resolved is never changed: no action takes `ok` or `error` out of `future` but a crash, which takes the
collectors with it. The other half of `CollectedIsTrue`, when an `error` may be told, is about the step that tells it: only
a collect does (`AnswersKept`), and `CollectsTruthful` and `CollectReturnsTruthful` show when. `SpawningSweepSpares` needs that a running subagent is younger than the sweep's
age, which is what the assumption `ChildTimeout < SweepAge` and the rule that due timers come
first give. Proved besides: `SpawningTypeOK`, `SpawningCollectedIsTrue`, `SpawningRowSaysOutcome`.

The refinement `SpawningKeepsPromises` needs more (`PInv`): `Fanned`, that a batch is what its caller still
waits for and what it has taken, never both, and that no task of a batch has a future; and `Settles`, that who
has ended has an outcome and who is not alive neither waits nor has collected. Without the first,
a caller could take a task twice or return without one; without the second, a dead subagent could act in
`Promises`. One lemma per action shows which step of `Promises` it is; `HiddenStep` does the stutters
and `AnswersPromised` both ways to collect. `SpawningBatchesComplete` follows from `PInv`;
`SpawningTasksAreOwned` and `SpawningVerdictsStand` are the theorems of `PromisesProofs` under the refinement mapping.

`WInv` adds who is waited for: a pending future has a subagent underway, and whoever waits does so for
one that was started since the last crash. Hence `SpawningNobodyWaitsInVain`. `SpawningAdvances` is the
step that goes with it: a subagent only goes on, and a call that waits is over or waits for fewer.

**`PromisesProofs`.** `IInv` is the types, `Spawned` (what is asked for or open has been spawned) and the three
invariants, of which `TasksAreOwned` is inductive only with `Spawned`: a batch takes new subagents.
`PromisesSafe` and `PromisesKept`; the latter assumes `Distinct`, that an agent is not a subagent, which is part
of `SpawningAssumption`.

**`CircuitBreakerProofs`.** `IInv` is the types of breaker and callers with `OpenedIsKnown`. One lemma
per operation of the breaker, whoever calls it. Proved: `BreakerTypeOK`,
`BreakerOpenedIsKnown`, and the action properties `BreakerTransitions` and `BreakerBlocks`.
`BreakerCallsDescend` gives each retry loop a variant, twice the attempts it has left and one for a call under way,
which every move of the loop takes one from and nothing else touches: not the breaker, not the other callers. `BreakerOpensOnlyUnderFailures`
names the only ways to open it: a call that fails, or one that is cancelled.

**`ChatAgentProofs`.** `IInv` is `TypeOK`, where the messages come from, what each request's own
fields say, and, for a request that has the agent to itself, four parts: `Cut` (the detector has not
counted too much), `Talk` (the calls and results of every round so far are in the list), `Remembered`
(every calls message of the run is in the detector's window) and `Afforded` (the budget used is
that of the rounds). `LoopIsCut` is not inductive: it needs that the window forgets no call of the
run, hence `MaxRounds <= Window` and the lemmas `LatestKeeps` and `CallsAreRemembered`, an
injection from the calls in the list to places of the window. A request that is not alone
claims nothing, and `Starts` makes everybody else shared, so one lemma (`StepOfOne`) reduces a step to
the request that takes it. Proved: `ChatTypeOK`, `ChatPromptIsWhole`, `ChatLoopIsCut`,
`ChatRoundsAreGranted`. `ChatsGoOn` holds of all requests, alone or not: a request that moves and is not over begins another
round, has its tools, goes to the next tool, tries again, or takes a later place, each of them within
its limit and ordered lexicographically. Other requests, which share the budget and the list, cannot
send it back.

**Only model-checked.** Liveness (`CancelInterrupts`, `PauseInterrupts`, `LeaseEnds`,
`InProgressEnds`, `OverLimitBlocked`, `DelegationsEnd`, `SpawnsEnd`, `WaitsEnd`, `CallsEnd`, `Recovers`,
`ChatsEnd`) is beyond the prover, which has no rule for fairness or `ENABLED`. What is proved of eight of
these is their step argument: that an interrupt is not taken back (`InterruptsAreOwed`, for `CancelInterrupts` and
`PauseInterrupts`), that nothing goes round in circles (`DelegationFramesDescend`, `SpawningAdvances` for
`SpawnsEnd` and `WaitsEnd`, `BreakerCallsDescend`, `ChatsGoOn`), and of `Recovers`, that calls that go
well keep the breaker from opening. That somebody goes on is left to TLC. Every invariant, action property and refinement of the
passing runs has a theorem. The `finding_*` runs are counterexamples and have nothing to prove.

## 5. Not modelled, and divergences without a run

* Most of the repository is tools, skills, integrations, reports and a frontend: I/O without a
  protocol of its own. What the models cover is the part that is concurrent and keeps state, and it is a
  small share of the lines.
* The Postgres checkpoint store: `set_checkpoint_backend` is called by tests only. Should
  it be wired, its read and its delete are two statements, and `HandOver` would break.
* The `job_outputs` row, session hooks, the tier-2 and tier-3 proposals, `rerun_from`:
  they write rows no modelled property reads.
* A `save` that times out although the row was written: the run goes on as it does after a
  failed save, and the submitter does not write the row afterwards.
* Creation and deletion of tasks while a board is worked on, task dependencies, the event
  log. The board's completion event is never raised, because the query behind it names a column
  the table lacks; a board waiter is one timer.
* Of delegations: the worktree (but for the await that removes it), team membership, tokens and the session
  a row is booked to. A subagent registered under a
  parent that is cancelled already is not cancelled itself, in the code and in the model.
* Of the chat agent: `run()`, what the context compressor leaves of a long list, reflection, memory, recording, the order of messages,
  the steer endpoint, and hooks that suspend. Detectors other than the repeating hash may end a run at
  any time in the model. The tracker of budgets and `interrupt()` are not reached by the application.
* Everything listed `not_modelled` in `PROJECT.json`, for the reason given there.

Modelled behaviour a maintainer may want to know of, without a run of its own.

Jobs:

* A resumed run starts while the pause signal of its predecessor is still set, consumes
  it and stops; its watcher writes nothing then, and the row stays `running`. The signal may outlive
  every run of its job; the docstring of `_reset_all_signals` says that production state should be
  self-healing.
* The pipeline timeout cancels the watcher and not always the run, which then goes on unwatched.
* When a phase outlasts the grace period, the run is cancelled without a checkpoint and
  the resume that follows starts the job from its first phase.
* A cancel accepted while the run finalizes is overwritten.
* A job submitted through the API goes from `completed` to `failed`: the submitter looks for a result
  that `run_job_spec` does not return.

Boards:

* A tick blocks tasks that are being worked on; one that has selected a task may block it
  after it was completed and is in review.
* A task over its failure limit can be claimed, even out of `blocked`.
* No claim succeeds between 23:00 and 23:59 UTC: the expiry replaces the hour by hour + 1.
* A rejection by the review agent leaves the task in `review`, where neither the agent
  nor a sweep looks at it again; `reject_task` sends it back to `in_progress`.
* A task once reviewed keeps its `review_status` when it is reworked and completed
  again, and the review agent does not see it any more.
* `complete_task` keeps `claim_expires_at`: a task rejected later is counted as a
  stale claim and charged with a failure.
* A review that is switched on between the two statements of `complete_task` (`kanban_service.py:464`, `:468`)
  is bypassed: the completion goes to `done`, as the flag was when it was read.
* A board with `failure_limit` 1 is not helped by the dispatcher, whose query has the
  constant 2.

Subagents:

* The coordinator of a job is given the context that the tool was left with by another agent:
  its parent and depth may be those of a stranger, and it may be refused for depth
  (`coordinator_spawn.py:51` sets `_session_id` but not `delegation`).
* So is a subagent of a batch or of the background, if another agent delegates before its session row is
  written (`delegate_task.py:1224`, `:1242`). The check that `Subagent.spawn` makes takes each of them for
  one of depth 1, and so the cap does not apply to them.
* The node of a background subagent (`delegate_task.py:1302`) is never removed from the cancellation tree,
  which grows with each, and cancelling it has no effect, for nobody waits for its event.
* No delegation is ever recorded. `persist_delegation` (`subagent.py:422`) inserts the subagent's id for
  `session_id`, which references `sessions(id)` (`schema.sql:493`, `migrations.sql:421`), where the row is
  `subagent-<id>`; the violation is swallowed at line 435.
* A subagent whose caller was cancelled runs on and nobody waits for it. The same catch lets a subagent slip
  the timeout of its own parent's `wait_for`; the sweep may then mark it failed while it is alive.
* A collect whose time is up reports a subagent that is still running as an error (`subagent.py:630`), and
  one that it does not know likewise (`:585`); the first may succeed a moment later.
* The sweep takes every session row of an age for dead, those of delegations that are waited for included, whose
  subagents have no timeout and may be alive.
* A collect without ids takes in every background subagent of the process, the caller's own included;
  only the timeout ends such a wait. Its summary then slices the result object
  (`collect_tool.py:63`), which raises.
* `_pending_results` keeps every result for ever: `drain_pending_results` has a caller that nobody calls.
* `Subagent.spawn` awaits `_build_child_system_prompt`, which is not a coroutine function
  (`subagent.py:1223`): the exception is caught and the fallback prompt is used each time.
* The breaker of a provider counts every exception of a child, a cancellation included, as a failure of the
  provider (`subagent.py:688`).

Chats:

* A request that starts replaces the message list of those under way, and its `Begins` resets
  their budget. The loop detector's history is never reset and carries over between chats.
* A run that was cancelled in `await_approval` leaves its pending approval behind.
* `_reflection_count`, limited by `MAX_REFLECTIONS_PER_RUN`, is counted over the life of the
  agent (`agent.py:59`, `agent.py:499`).
* `micro_compact` and `reactive_compact` call `m.get` on the entries of a list of `ChatMessage`, which has no such
  method (`agent.py:912`, `:1001`): instead of being compacted, a request whose list is long ends there.

## 6. Plan

What is left, the most shared state first.

| Module | Models | Properties | Proofs |
|---|---|---|---|
| `JobBoard` over `JobRun` and `KanbanBoard` | the end of a run sweeps its board (`_sweep_in_progress_tasks`, for which `RunEnds` stands now) | no task stays in progress after the last run of its job | the sweep's invariant |
| `JobTree` over `JobRun` and `Delegation` | the phase that catches, as the frame it is, instead of `Catching` | a cancelled run leaves no subagent, once the catch is repaired | refinement of `JobRun` |
| `EventStream` with the abstract `Delivery` | bounded queues, ring buffer, replay from the last id | no event out of order or twice; a gap is noticed | refinement of `Delivery` |
| `TaskStore` (A2A) | the task state machine, streams and cancels | final states are final; every subscriber sees the end | final states |
| `TeamSweeper`, `Worktrees` | teams, their members and the sweeps | nothing in use is removed | type and safety |
| `Scheduler` | due jobs, ticks, missed runs | no due job runs twice for one time | no double start |
| `RetryTokens`, `FileState`, `Workflow` | mostly sequential operations | a token is redeemed once; stale reads are refused; a step runs after those it needs | lemmas on the operators |
