----------------------------- MODULE Delegation -----------------------------
(***************************************************************************)
(* The delegations of harness/tools/delegate_task.py: those that are       *)
(* waited for (_run_single_enhanced), and the subagents of batches and of  *)
(* the background, which Subagent.spawn runs beside their callers.  All    *)
(* share the cancellation tree (harness/tools/cancellation.py) and the one *)
(* delegate_task tool of the process, which remembers who used it last.    *)
(* A frame that is waited for runs in its caller's task and runs the       *)
(* subagent in a task of its own; a subagent may delegate in turn.         *)
(***************************************************************************)
EXTENDS Naturals, FiniteSets

CONSTANTS
    Jobs,       \* job runs: coordinator_spawn calls the tool without a context
    Chats,      \* agents nobody has delegated to
    Subagents,  \* names for the subagents, each used once
    NoOne,
    MaxDepth    \* MAX_SPAWN_DEPTH_CAP

ASSUME DelegationAssumption ==
    /\ Jobs \cap Chats = {} /\ (Jobs \cup Chats) \cap Subagents = {}
    /\ NoOne \notin Jobs \cup Chats \cup Subagents
    /\ MaxDepth \in Nat

Roots == Jobs \cup Chats
Tasks == Roots \cup Subagents

VARIABLES
    mode,     \* subagent -> how it was asked for
    ctx,      \* DelegateTaskTool.delegation: whose context it is, NoOne at depth 0
    caller,   \* subagent -> who asked for it: whose task runs its frame
    parent,   \* subagent -> parent_id
    depth,    \* subagent -> child_depth
    frame,    \* subagent -> where its frame is
    outcome,  \* subagent -> how the frame ends, as far as it knows
    task,     \* task -> what its coroutine is doing
    node,     \* subagent -> its cancellation node and whether cancel_event is set
    kids      \* subagent -> children_ids of its node

tree == <<node, kids>>
origins == <<mode, caller, parent, depth>>
vars == <<mode, ctx, caller, parent, depth, frame, outcome, task, node, kids>>

\* creating: inserting the session row; setup: factory, worktree and events;
\* killing: the subagent was cancelled and is awaited; reporting:
\* persist_delegation; evidence: after a success; finally: clean-up.  Beside
\* the caller there is only Subagent.spawn: asked: inserting the session row;
\* apart: within wait_for; late: wait_for has timed out and awaits the subagent.
Beside == {"asked", "apart", "late"}
Frames == {"none", "creating", "setup", "wait", "killing", "reporting",
           "evidence", "finally", "done"} \cup Beside
Registered == {"setup", "wait", "killing", "reporting", "evidence"}
Modes == {"sync", "batch", "background"}
Outcomes == {"none", "ok", "failed", "stuck", "cancelled", "budget", "raised"}
Alive == {"running", "hung", "cancelling"}
Over == {"ok", "failed", "cancelled"}

Init ==
    /\ ctx = NoOne
    /\ mode = [s \in Subagents |-> "none"]
    /\ caller = [s \in Subagents |-> NoOne]
    /\ parent = [s \in Subagents |-> NoOne]
    /\ depth = [s \in Subagents |-> 0]
    /\ frame = [s \in Subagents |-> "none"]
    /\ outcome = [s \in Subagents |-> "none"]
    /\ task = [t \in Tasks |-> IF t \in Roots THEN "running" ELSE "none"]
    /\ node = [s \in Subagents |-> "none"]
    /\ kids = [s \in Subagents |-> {}]

AskedOf(t, how) ==
    {s \in Subagents : caller[s] = t /\ mode[s] = how /\ frame[s] \notin {"none", "done"}}

\* The frame t's coroutine is in, if it is in one, and the batch it waits for.
Nested(t) == AskedOf(t, "sync")
Fanned(t) == AskedOf(t, "batch")

-----------------------------------------------------------------------------
(* Starting a delegation *)

FoundContextBug(t) == ctx

\* The dispatcher of an agent puts its own context into the tool before it
\* calls it; coordinator_spawn leaves the one it finds there.
ContextOf(t) ==
    IF t \in Jobs THEN ctx ELSE IF t \in Chats THEN NoOne ELSE t

ChildDepth(c) == IF c = NoOne THEN 1 ELSE depth[c] + 1

Idle(t) == task[t] = "running" /\ Nested(t) = {} /\ Fanned(t) = {}

\* The context is read before anything is awaited.
Delegates(t, s) ==
    /\ Idle(t) /\ frame[s] = "none"
    /\ ctx' = ContextOf(t)
    /\ ChildDepth(ctx') <= MaxDepth
    /\ mode' = [mode EXCEPT ![s] = "sync"]
    /\ caller' = [caller EXCEPT ![s] = t]
    /\ parent' = [parent EXCEPT ![s] = ctx']
    /\ depth' = [depth EXCEPT ![s] = ChildDepth(ctx')]
    /\ frame' = [frame EXCEPT ![s] = "creating"]
    /\ UNCHANGED <<outcome, task, tree>>

\* Too deep: an error for an answer, and the context stays in the tool.
DelegationRefused(t) ==
    /\ Idle(t)
    /\ ctx' = ContextOf(t)
    /\ ChildDepth(ctx') > MaxDepth
    /\ UNCHANGED <<origins, frame, outcome, task, tree>>

\* tree.register: the parent's node may be gone, or cancelled already. A node
\* of the background has a name of its own, by which no subagent is a parent.
Register(s, p) ==
    /\ node' = [node EXCEPT ![s] = "clear"]
    /\ kids' = [q \in Subagents |->
                    IF q = p /\ mode[q] = "sync" /\ node[q] # "none"
                    THEN kids[q] \cup {s} ELSE kids[q]]

\* The session row is there; the budget of the parent session is checked.
SessionCreated(s) ==
    /\ frame[s] = "creating"
    /\ \/ /\ frame' = [frame EXCEPT ![s] = "done"]
          /\ outcome' = [outcome EXCEPT ![s] = "budget"]
          /\ UNCHANGED tree
       \/ /\ frame' = [frame EXCEPT ![s] = "setup"]
          /\ Register(s, parent[s])
          /\ UNCHANGED outcome
    /\ UNCHANGED <<ctx, origins, task>>

\* The subagent's task, its watcher and its heartbeat are started, or the
\* factory raises.
SetUp(s) ==
    /\ frame[s] = "setup"
    /\ \/ /\ frame' = [frame EXCEPT ![s] = "wait"]
          /\ task' = [task EXCEPT ![s] = "running"]
          /\ UNCHANGED outcome
       \/ /\ frame' = [frame EXCEPT ![s] = "reporting"]
          /\ outcome' = [outcome EXCEPT ![s] = "failed"]
          /\ UNCHANGED task
    /\ UNCHANGED <<ctx, origins, tree>>

-----------------------------------------------------------------------------
(* Subagents beside their callers *)

\* The context is put into the tool, and nothing of it is read yet.
Asks(t, S, how) ==
    /\ Idle(t) /\ t \notin Jobs
    /\ S # {} /\ \A s \in S : frame[s] = "none"
    /\ ctx' = ContextOf(t)
    /\ mode' = [s \in Subagents |-> IF s \in S THEN how ELSE mode[s]]
    /\ caller' = [s \in Subagents |-> IF s \in S THEN t ELSE caller[s]]
    /\ frame' = [s \in Subagents |-> IF s \in S THEN "asked" ELSE frame[s]]
    /\ UNCHANGED <<parent, depth, outcome, task>>

\* stream_fan_out: the caller goes on when all of the batch have ended.
RunBatch(t, S) == Asks(t, S, "batch") /\ UNCHANGED tree

\* The caller goes on at once. The node is the caller's child, and nobody
\* watches it or cleans it up.
RunBackground(t, s) == Asks(t, {s}, "background") /\ Register(s, ContextOf(t))

\* The session row is there. The factory takes parent and depth from the context
\* it finds in the tool by now, and the check of Subagent.spawn, which finds no
\* scope, takes every child for one of depth 1. Or the spawn is refused.
BesideStarts(s) ==
    /\ frame[s] = "asked"
    /\ \/ /\ 1 <= MaxDepth
          /\ parent' = [parent EXCEPT ![s] = ctx]
          /\ depth' = [depth EXCEPT ![s] = ChildDepth(ctx)]
          /\ frame' = [frame EXCEPT ![s] = "apart"]
          /\ task' = [task EXCEPT ![s] = "running"]
          /\ UNCHANGED outcome
       \/ /\ frame' = [frame EXCEPT ![s] = "done"]
          /\ outcome' = [outcome EXCEPT ![s] = "failed"]
          /\ UNCHANGED <<parent, depth, task>>
    /\ UNCHANGED <<ctx, mode, caller, tree>>

TimeoutStatusBug(s) ==   \* reports a status of its own
    /\ frame[s] = "apart" /\ task[s] \in {"running", "hung"}
    /\ frame' = [frame EXCEPT ![s] = "late"]
    /\ task' = [task EXCEPT ![s] = "cancelling"]
    /\ outcome' = [outcome EXCEPT ![s] = "timeout"]
    /\ UNCHANGED <<ctx, origins, tree>>

\* CHILD_TIMEOUT_SECONDS: wait_for cancels the subagent, once, and awaits it.
TimesOut(s) ==
    /\ frame[s] = "apart" /\ task[s] \in {"running", "hung"}
    /\ frame' = [frame EXCEPT ![s] = "late"]
    /\ task' = [task EXCEPT ![s] = "cancelling"]
    /\ UNCHANGED <<ctx, origins, outcome, tree>>

LateIsFailedBug(s) ==  \* what wait_for does from Python 3.12 on
    /\ frame[s] \in {"apart", "late"} /\ task[s] \in Over
    /\ frame' = [frame EXCEPT ![s] = "done"]
    /\ outcome' = [outcome EXCEPT ![s] =
                       IF frame[s] = "late" \/ task[s] = "cancelled" THEN "failed" ELSE task[s]]
    /\ UNCHANGED <<ctx, origins, task, tree>>

\* A late subagent that ends by itself all the same has its result reported.
BesideEnds(s) ==
    /\ frame[s] \in {"apart", "late"} /\ task[s] \in Over
    /\ frame' = [frame EXCEPT ![s] = "done"]
    /\ outcome' = [outcome EXCEPT ![s] = IF task[s] = "cancelled" THEN "failed" ELSE task[s]]
    /\ UNCHANGED <<ctx, origins, task, tree>>

-----------------------------------------------------------------------------
(* Waiting for the subagent *)

\* The subagent has finished, by itself, before or after it was cancelled.
SubagentDone(s) ==
    /\ frame[s] = "wait" /\ task[s] \in Over
    /\ frame' = [frame EXCEPT ![s] = "reporting"]
    /\ outcome' = [outcome EXCEPT ![s] = task[s]]
    /\ UNCHANGED <<ctx, origins, task, tree>>

NotCancelledBug(s, why) ==
    /\ frame[s] = "wait" /\ task[s] \in {"running", "hung"}
    /\ frame' = [frame EXCEPT ![s] = "reporting"]
    /\ outcome' = [outcome EXCEPT ![s] = why]
    /\ UNCHANGED <<ctx, origins, task, tree>>

\* The frame cancels its subagent, for `why', and awaits its end.
Kills(s, why) ==
    /\ frame[s] = "wait" /\ task[s] \in {"running", "hung"}
    /\ task' = [task EXCEPT ![s] = "cancelling"]
    /\ frame' = [frame EXCEPT ![s] = "killing"]
    /\ outcome' = [outcome EXCEPT ![s] = why]
    /\ UNCHANGED <<ctx, origins, tree>>

\* cancel_event is set, or the heartbeat has seen no progress for too long:
\* the subagent hangs, or is slow, or waits for a subagent of its own.
CancelSeen(s) == node[s] = "set" /\ Kills(s, "cancelled")
StuckSeen(s) == Kills(s, "stuck")

KilledIsCancelledBug(s) ==
    /\ frame[s] = "killing" /\ task[s] = "cancelled"
    /\ frame' = [frame EXCEPT ![s] = "reporting"]
    /\ UNCHANGED <<ctx, origins, outcome, task, tree>>

SubagentKilled(s) ==
    /\ frame[s] = "killing" /\ task[s] \in Over
    /\ frame' = [frame EXCEPT ![s] = "reporting"]
    /\ UNCHANGED <<ctx, origins, outcome, task, tree>>

-----------------------------------------------------------------------------
(* Ending a delegation *)

\* The first thing the finally clause does, without awaiting anything.
KeepsNodeBug(s) == UNCHANGED tree

Cleanup(s) ==
    /\ node' = [node EXCEPT ![s] = "none"]
    /\ kids' = [p \in Subagents |-> IF p = s THEN {} ELSE kids[p] \ {s}]

\* persist_delegation has come back; it swallows every exception.
Reported(s) ==
    /\ frame[s] = "reporting"
    /\ IF outcome[s] = "ok"
       THEN /\ frame' = [frame EXCEPT ![s] = "evidence"] /\ UNCHANGED tree
       ELSE /\ frame' = [frame EXCEPT ![s] = "finally"] /\ Cleanup(s)
    /\ UNCHANGED <<ctx, origins, outcome, task>>

EvidenceCollected(s) ==
    /\ frame[s] = "evidence"
    /\ frame' = [frame EXCEPT ![s] = "finally"] /\ Cleanup(s)
    /\ UNCHANGED <<ctx, origins, outcome, task>>

\* The worktree is removed; the caller gets its answer, or the exception that
\* interrupted the report.
FrameEnds(s) ==
    /\ frame[s] = "finally"
    /\ frame' = [frame EXCEPT ![s] = "done"]
    /\ task' = IF outcome[s] = "raised"
               THEN [task EXCEPT ![caller[s]] = "cancelled"] ELSE task
    /\ UNCHANGED <<ctx, origins, outcome, tree>>

-----------------------------------------------------------------------------
(* Subagents and roots *)

EndsAnywayBug(s) ==
    /\ task[s] = "running" /\ s \in Subagents
    /\ \E end \in {"ok", "failed"} : task' = [task EXCEPT ![s] = end]
    /\ UNCHANGED <<ctx, origins, frame, outcome, tree>>

SubagentEnds(s) ==
    /\ Idle(s) /\ s \in Subagents
    /\ \E end \in {"ok", "failed"} : task' = [task EXCEPT ![s] = end]
    /\ UNCHANGED <<ctx, origins, frame, outcome, tree>>

\* A call of the subagent's that has no timeout does not return.
SubagentHangs(s) ==
    /\ Idle(s) /\ s \in Subagents
    /\ task' = [task EXCEPT ![s] = "hung"]
    /\ UNCHANGED <<ctx, origins, frame, outcome, tree>>

\* The watcher of a job cancels its run, or a chat is stopped.
RootCancelled(r) ==
    /\ r \in Roots /\ task[r] = "running"
    /\ task' = [task EXCEPT ![r] = "cancelling"]
    /\ UNCHANGED <<ctx, origins, frame, outcome, tree>>

\* The node and, through nodes that are not cancelled yet, its descendants.
Cascade(s) ==
    {x \in Subagents :
        /\ node[x] = "clear"
        /\ \A D \in SUBSET Subagents :
               s \in D /\ (\A y \in D : node[y] = "clear" => kids[y] \subseteq D) => x \in D}

TreeCancelled(s) ==
    /\ node[s] = "clear"
    /\ node' = [x \in Subagents |-> IF x \in Cascade(s) THEN "set" ELSE node[x]]
    /\ UNCHANGED <<ctx, origins, frame, outcome, task, kids>>

-----------------------------------------------------------------------------
(* A cancelled task gets a CancelledError where it is *)

\* A batch that is waited for is left to itself.
DeliveredToAgent(t) ==
    /\ task[t] = "cancelling" /\ Nested(t) = {}
    /\ task' = [task EXCEPT ![t] = "cancelled"]
    /\ UNCHANGED <<ctx, origins, frame, outcome, tree>>

\* Before the try or within the finally: the frame is left at once.
DeliveredOutside(t, s) ==
    /\ frame[s] \in {"creating", "finally"}
    /\ frame' = [frame EXCEPT ![s] = "done"]
    /\ outcome' = [outcome EXCEPT ![s] = "raised"]
    /\ task' = [task EXCEPT ![t] = "cancelled"]
    /\ UNCHANGED <<ctx, origins, tree>>

\* Within the try: the frame catches the exception and reports a cancelled
\* subagent to its caller, which goes on.  The subagent is not cancelled.
DeliveredInTry(t, s) ==
    /\ \/ frame[s] \in {"setup", "wait", "evidence"}
       \/ frame[s] = "reporting" /\ outcome[s] \in {"ok", "stuck"}
    /\ frame' = [frame EXCEPT ![s] = "reporting"]
    /\ outcome' = [outcome EXCEPT ![s] = "cancelled"]
    /\ task' = [task EXCEPT ![t] = "running"]
    /\ UNCHANGED <<ctx, origins, tree>>

\* Within a handler that reports: clean-up, and the caller gets the exception.
DeliveredInHandler(t, s) ==
    /\ frame[s] = "reporting" /\ outcome[s] \in {"failed", "cancelled"}
    /\ frame' = [frame EXCEPT ![s] = "finally"]
    /\ outcome' = [outcome EXCEPT ![s] = "raised"]
    /\ task' = [task EXCEPT ![t] = "running"]
    /\ Cleanup(s)
    /\ UNCHANGED <<ctx, origins>>

\* An await of the subagent's task passes the cancellation on to it; the
\* frame suppresses what comes back, as it does while it stops the heartbeat.
DeliveredToKilled(t, s) ==
    /\ frame[s] = "killing" \/ (frame[s] = "wait" /\ task[s] \in Over)
    /\ task' = [task EXCEPT ![t] = "running",
                            ![s] = IF @ \in Alive THEN "cancelling" ELSE @]
    /\ UNCHANGED <<ctx, origins, frame, outcome, tree>>

Delivered(t) ==
    \/ DeliveredToAgent(t)
    \/ \E s \in Nested(t) :
          /\ task[t] = "cancelling"
          /\ \/ DeliveredOutside(t, s) \/ DeliveredInTry(t, s)
             \/ DeliveredInHandler(t, s) \/ DeliveredToKilled(t, s)

-----------------------------------------------------------------------------

FrameSteps(s) ==
    \/ SessionCreated(s) \/ SetUp(s) \/ SubagentDone(s) \/ CancelSeen(s)
    \/ SubagentKilled(s) \/ Reported(s) \/ EvidenceCollected(s) \/ FrameEnds(s)
    \/ BesideStarts(s) \/ BesideEnds(s)

Next ==
    \/ \E t \in Tasks : \/ \E s \in Subagents : Delegates(t, s) \/ RunBackground(t, s)
                        \/ \E S \in SUBSET Subagents : RunBatch(t, S)
                        \/ DelegationRefused(t)
                        \/ Delivered(t)
    \/ \E s \in Subagents : \/ FrameSteps(s) \/ StuckSeen(s) \/ TimesOut(s)
                            \/ SubagentEnds(s) \/ SubagentHangs(s)
                            \/ TreeCancelled(s)
    \/ \E r \in Roots : RootCancelled(r)

Spec == Init /\ [][Next]_vars

\* What the event loop owes: answered queries, delivered cancellations.  An
\* agent ends (its rounds are limited) unless it hangs, and the heartbeat of a
\* frame that waits for one that hangs ends too, or the timeout comes.
Fairness ==
    /\ \A s \in Subagents :
        /\ WF_vars(FrameSteps(s))
        /\ WF_vars(SubagentEnds(s))
        /\ WF_vars(task[s] = "hung" /\ (StuckSeen(s) \/ TimesOut(s)))
    /\ \A t \in Tasks : WF_vars(Delivered(t))

FairSpec == Spec /\ Fairness

-----------------------------------------------------------------------------
(* Properties *)

TypeOK ==
    /\ ctx \in Subagents \cup {NoOne}
    /\ mode \in [Subagents -> Modes \cup {"none"}]
    /\ caller \in [Subagents -> Tasks \cup {NoOne}]
    /\ parent \in [Subagents -> Subagents \cup {NoOne}]
    /\ depth \in [Subagents -> Nat]
    /\ frame \in [Subagents -> Frames]
    /\ outcome \in [Subagents -> Outcomes]
    /\ task \in [Tasks -> {"none"} \cup Alive \cup Over]
    /\ node \in [Subagents -> {"none", "clear", "set"}]
    /\ kids \in [Subagents -> SUBSET Subagents]

\* Agents of other jobs change the context of the tool at any time, yet a
\* subagent that is waited for has the agent that asked for it as its parent,
\* and its depth is that agent's plus one and within the cap. This counts from
\* the depth the agent was given: in a batch or in the background that is the
\* depth below whoever used the tool last, which no cap is applied to.
NestingIsCapped ==
    \A s \in Subagents :
        mode[s] = "sync" =>
            /\ depth[s] \in 1..MaxDepth
            /\ caller[s] \in Subagents =>
                   parent[s] = caller[s] /\ depth[s] = depth[caller[s]] + 1

\* Whatever ends the frame of a delegation that is waited for, it has a node
\* in the cancellation tree exactly while it is under way, and no node lists a
\* child that has none. A batch has no nodes; a background subagent has one
\* from the call on, and for ever.
TreeIsExact ==
    \A s \in Subagents :
        /\ node[s] # "none" <=>
               \/ mode[s] = "sync" /\ frame[s] \in Registered
               \/ mode[s] = "background"
        /\ \A k \in kids[s] :
               /\ mode[s] = "sync" /\ node[s] # "none" /\ node[k] # "none"
               /\ mode[k] = "sync" => parent[k] = s

\* Who is told ok, or that a subagent failed, is told how it has ended:
\* whichever of cancellation, timeout and end comes first, no success is
\* reported for work that was not done, and no failure for work that was. (Who
\* is told cancelled or stuck is told why the wait was over and no more.)
AnswerIsTrue ==
    \A s \in Subagents :
        frame[s] \in {"finally", "done"} =>
            /\ outcome[s] = "ok" => task[s] = "ok"
            /\ outcome[s] = "failed" => task[s] \in {"none", "failed", "cancelled"}

\* Of the subagents that have been reported on, only a cancellation leaves one
\* running: who succeeded, failed, hung or was late has stopped.
OnlyCancelOrphans ==
    \A s \in Subagents :
        frame[s] \in {"finally", "done"} /\ task[s] \in Alive
            => outcome[s] \in {"cancelled", "raised"}

\* A task is in one delegation at a time, waits for no batch meanwhile, and
\* outlives it: wherever a cancellation hits the frame, it ends before the task
\* that runs it.
FramesNest ==
    \A s \in Subagents :
        s \in Nested(caller[s]) =>
            /\ task[caller[s]] \in {"running", "cancelling"}
            /\ Nested(caller[s]) = {s} /\ Fanned(caller[s]) = {}

\* As long as no subagent hangs out of the reach of its heartbeat or timeout,
\* every delegation comes to an answer, those of subagents that hang included.
DelegationsEnd ==
    [](\A s \in Subagents : task[s] = "hung" => frame[s] \in {"wait", "apart"})
        => \A s \in Subagents : frame[s] # "none" ~> frame[s] = "done"
=============================================================================
