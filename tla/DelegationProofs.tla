-------------------------- MODULE DelegationProofs --------------------------
(* What holds of Delegation for any jobs, chats, subagents and depth. *)
EXTENDS Delegation, TLAPS

TaskStates == {"none"} \cup Alive \cup Over

\* Who delegates has a task; who is delegated to has one once it is set up; the
\* places of a frame are those of a call that waits or of one that does not.
Links(s) ==
    /\ frame[s] # "none" => caller[s] \in Tasks /\ task[caller[s]] # "none"
    /\ frame[s] \in {"none", "creating", "setup", "asked"} => task[s] = "none"
    /\ mode[s] = "none" <=> frame[s] = "none"
    /\ mode[s] = "sync" => frame[s] \notin Beside
    /\ mode[s] \in {"batch", "background"} => frame[s] \in Beside \cup {"done"}

\* When the end of s is reported, it has stopped unless it was cancelled.
Reports(s) ==
    /\ frame[s] = "reporting" /\ task[s] \in Alive => outcome[s] = "cancelled"
    /\ frame[s] = "evidence" => task[s] \notin Alive

Story == \A s \in Subagents : Links(s) /\ Reports(s)

IInv == TypeOK /\ Story /\ NestingIsCapped /\ TreeIsExact /\ OnlyCancelOrphans

-----------------------------------------------------------------------------
(* Facts that several actions share *)

\* Nobody's task is revived, forgotten or begun.
TasksGoOn ==
    /\ task' \in [Tasks -> TaskStates]
    /\ \A t \in Tasks : /\ task'[t] = "none" <=> task[t] = "none"
                        /\ task'[t] \in Alive => task[t] \in Alive

LEMMA OriginsKept ==
    ASSUME IInv, UNCHANGED origins,
           \A s \in Subagents : frame'[s] = "none" <=> frame[s] = "none"
    PROVE  NestingIsCapped'
BY DEF IInv, NestingIsCapped, origins

LEMMA TreeKept ==
    ASSUME IInv, UNCHANGED <<tree, origins>>,
           \A s \in Subagents : frame'[s] \in Registered <=> frame[s] \in Registered
    PROVE  TreeIsExact'
BY DEF IInv, TreeIsExact, tree, origins

LEMMA CleanupIsExact ==
    ASSUME IInv, NEW s \in Subagents, mode[s] = "sync", Cleanup(s), UNCHANGED origins,
           NEW f, f \in Frames \ Registered, frame' = [frame EXCEPT ![s] = f]
    PROVE  /\ TreeIsExact'
           /\ node' \in [Subagents -> {"none", "clear", "set"}]
           /\ kids' \in [Subagents -> SUBSET Subagents]
<1>1. /\ node' \in [Subagents -> {"none", "clear", "set"}]
      /\ kids' \in [Subagents -> SUBSET Subagents]
  BY DEF IInv, TypeOK, Cleanup
<1>2. ASSUME NEW x \in Subagents
      PROVE  node'[x] # "none" <=> \/ mode'[x] = "sync" /\ frame'[x] \in Registered
                                   \/ mode'[x] = "background"
  BY DEF IInv, TypeOK, TreeIsExact, Cleanup, origins
<1>3. ASSUME NEW x \in Subagents, NEW k \in kids'[x]
      PROVE  /\ mode'[x] = "sync" /\ node'[x] # "none" /\ node'[k] # "none"
             /\ mode'[k] = "sync" => parent'[k] = x
  <2>1. x # s /\ k # s /\ k \in kids[x] /\ k \in Subagents
    BY <1>3 DEF IInv, TypeOK, Cleanup
  <2>2. /\ mode[x] = "sync" /\ node[x] # "none" /\ node[k] # "none"
        /\ mode[k] = "sync" => parent[k] = x
    BY <2>1 DEF IInv, TreeIsExact
  <2> QED BY <2>1, <2>2 DEF IInv, TypeOK, Cleanup, origins
<1> QED BY <1>1, <1>2, <1>3 DEF TreeIsExact

\* A step in which tasks only go on.
LEMMA QuietKeeps ==
    ASSUME IInv, TasksGoOn, UNCHANGED <<ctx, origins, frame, outcome, tree>>
    PROVE  IInv'
<1>1. TypeOK'
  BY DEF IInv, TypeOK, TasksGoOn, TaskStates, origins, tree
<1>2. Story' /\ OnlyCancelOrphans'
  BY DEF IInv, TypeOK, Story, Links, Reports, OnlyCancelOrphans,
         TasksGoOn, origins, Tasks
<1>3. NestingIsCapped' /\ TreeIsExact'
  BY OriginsKept, TreeKept
<1> QED BY <1>1, <1>2, <1>3 DEF IInv

-----------------------------------------------------------------------------
(* The inductive step, for each action *)

LEMMA InitInv == Init => IInv
<1> SUFFICES ASSUME Init PROVE IInv
  OBVIOUS
<1>1. TypeOK
  BY DelegationAssumption DEF Init, TypeOK, Frames, Outcomes, Alive, Over, Tasks
<1>2. Story /\ NestingIsCapped /\ TreeIsExact /\ OnlyCancelOrphans
  BY DelegationAssumption
     DEF Init, Story, Links, Reports, NestingIsCapped, TreeIsExact,
         OnlyCancelOrphans, Registered, Alive, Tasks, Roots, Beside
<1> QED BY <1>1, <1>2 DEF IInv

\* The context that counts is that of a subagent that delegates, or nobody's.
LEMMA ContextIsTyped ==
    ASSUME IInv, NEW t \in Tasks
    PROVE  /\ ContextOf(t) \in Subagents \cup {NoOne}
           /\ t \in Subagents => ContextOf(t) = t
           /\ ChildDepth(ContextOf(t)) \in Nat \ {0}
<1>1. ContextOf(t) \in Subagents \cup {NoOne} /\ (t \in Subagents => ContextOf(t) = t)
  BY DelegationAssumption DEF IInv, TypeOK, ContextOf, Tasks, Roots
<1>2. \A c \in Subagents \cup {NoOne} : ChildDepth(c) \in Nat \ {0}
  BY DelegationAssumption DEF IInv, TypeOK, ChildDepth
<1> QED BY <1>1, <1>2

LEMMA DelegatesInv ==
    ASSUME IInv, NEW t \in Tasks, NEW s \in Subagents, Delegates(t, s)
    PROVE  IInv'
<1> DEFINE c == ContextOf(t)
           d == ChildDepth(c)
<1>1. /\ c \in Subagents \cup {NoOne} /\ (t \in Subagents => c = t)
      /\ d \in 1..MaxDepth
  <2>1. d <= MaxDepth
    BY DEF Delegates, ChildDepth
  <2> QED BY <2>1, ContextIsTyped, DelegationAssumption
<1>2. t \in Subagents => d = depth[t] + 1
  BY <1>1, DelegationAssumption DEF ChildDepth
<1>3. /\ task[t] = "running" /\ frame[s] = "none"
      /\ ctx' = c
      /\ mode' = [mode EXCEPT ![s] = "sync"]
      /\ caller' = [caller EXCEPT ![s] = t]
      /\ parent' = [parent EXCEPT ![s] = c]
      /\ depth' = [depth EXCEPT ![s] = d]
      /\ frame' = [frame EXCEPT ![s] = "creating"]
      /\ UNCHANGED <<outcome, task, node, kids>>
  BY DEF Delegates, Idle, ChildDepth, tree
<1> HIDE DEF c, d
<1>4. t # s /\ task[s] = "none" /\ mode[s] = "none"
  BY <1>3 DEF IInv, Story, Links
<1>5. TypeOK'
  BY <1>1, <1>3 DEF IInv, TypeOK, Frames, Modes
<1>6. Story' /\ OnlyCancelOrphans'
  BY <1>3, <1>4 DEF IInv, TypeOK, Story, Links, Reports, OnlyCancelOrphans, Beside
<1>7. NestingIsCapped'
  <2>1. ASSUME NEW x \in Subagents, mode'[x] = "sync"
        PROVE  /\ depth'[x] \in 1..MaxDepth
               /\ caller'[x] \in Subagents =>
                      parent'[x] = caller'[x] /\ depth'[x] = depth'[caller'[x]] + 1
    <3>1. CASE x = s
      BY <1>1, <1>2, <1>3, <1>4, <3>1 DEF IInv, TypeOK
    <3>2. CASE x # s
      <4>1. /\ mode[x] = "sync" /\ caller'[x] = caller[x]
            /\ parent'[x] = parent[x] /\ depth'[x] = depth[x]
        BY <1>3, <2>1, <3>2 DEF IInv, TypeOK
      <4>2. caller[x] # s
        BY <1>4, <4>1 DEF IInv, Story, Links
      <4> QED BY <1>3, <4>1, <4>2 DEF IInv, TypeOK, NestingIsCapped
    <3> QED BY <3>1, <3>2
  <2> QED BY <2>1 DEF NestingIsCapped
<1>8. TreeIsExact'
  <2>1. node[s] = "none" /\ (\A x \in Subagents : s \notin kids[x]) /\ kids[s] = {}
    BY <1>3, <1>4 DEF IInv, TypeOK, TreeIsExact
  <2>2. ASSUME NEW x \in Subagents
        PROVE  node'[x] # "none" <=> \/ mode'[x] = "sync" /\ frame'[x] \in Registered
                                     \/ mode'[x] = "background"
    BY <1>3, <2>1 DEF IInv, TypeOK, TreeIsExact, Registered
  <2>3. ASSUME NEW x \in Subagents, NEW k \in kids'[x]
        PROVE  /\ mode'[x] = "sync" /\ node'[x] # "none" /\ node'[k] # "none"
               /\ mode'[k] = "sync" => parent'[k] = x
    BY <1>3, <2>1, <2>3 DEF IInv, TypeOK, TreeIsExact
  <2> QED BY <2>2, <2>3 DEF TreeIsExact
<1> QED BY <1>5, <1>6, <1>7, <1>8 DEF IInv

LEMMA DelegationRefusedInv ==
    ASSUME IInv, NEW t \in Tasks, DelegationRefused(t)
    PROVE  IInv'
<1>1. UNCHANGED <<origins, frame, outcome, task, tree>>
      /\ ctx' \in Subagents \cup {NoOne}
  BY ContextIsTyped DEF DelegationRefused
<1>2. TypeOK'
  BY <1>1 DEF IInv, TypeOK, origins, tree
<1>3. Story' /\ OnlyCancelOrphans'
  BY <1>1 DEF IInv, Story, Links, Reports, OnlyCancelOrphans, Beside, origins
<1>4. NestingIsCapped' /\ TreeIsExact'
  BY <1>1, OriginsKept, TreeKept
<1> QED BY <1>2, <1>3, <1>4 DEF IInv

\* The last places within the tree are those of a call that waits.
LEMMA WaitsIsSync ==
    ASSUME IInv, NEW s \in Subagents, frame[s] \in Frames \ (Beside \cup {"none", "done"})
    PROVE  mode[s] = "sync"
BY DEF IInv, TypeOK, Modes, Story, Links

\* A new node is listed by the node of its parent, if that is there.
LEMMA RegisterAdds ==
    ASSUME IInv, NEW s \in Subagents, NEW p, Register(s, p),
           node[s] = "none", \A x \in Subagents \ {s} : mode'[x] = mode[x] /\ parent'[x] = parent[x],
           mode'[s] = "sync" => mode[s] = "sync" /\ parent'[s] = p,
           NEW x \in Subagents, NEW k \in kids'[x]
    PROVE  /\ mode'[x] = "sync" /\ node'[x] # "none" /\ node'[k] # "none"
           /\ mode'[k] = "sync" => parent'[k] = x
<1>1. /\ node' = [node EXCEPT ![s] = "clear"] /\ node'[s] = "clear"
      /\ \A y \in Subagents \ {s} : node'[y] = node[y]
  BY DEF Register, IInv, TypeOK
<1>2. CASE k \in kids[x]
  <2>1. /\ mode[x] = "sync" /\ node[x] # "none" /\ node[k] # "none" /\ k \in Subagents
        /\ mode[k] = "sync" => parent[k] = x
    BY <1>2 DEF IInv, TypeOK, TreeIsExact
  <2> QED BY <1>1, <2>1
<1>3. CASE k \notin kids[x]
  <2>1. x = p /\ mode[x] = "sync" /\ node[x] # "none" /\ k = s
    BY <1>3 DEF Register
  <2> QED BY <1>1, <2>1
<1> QED BY <1>2, <1>3

LEMMA SessionCreatedInv ==
    ASSUME IInv, NEW s \in Subagents, SessionCreated(s)
    PROVE  IInv'
<1>1. /\ frame[s] = "creating" /\ UNCHANGED <<ctx, origins, task>> /\ mode[s] = "sync"
  BY WaitsIsSync DEF SessionCreated, Frames, Beside
<1>2. CASE /\ frame' = [frame EXCEPT ![s] = "done"]
           /\ outcome' = [outcome EXCEPT ![s] = "budget"] /\ UNCHANGED tree
  <2>1. TypeOK'
    BY <1>1, <1>2 DEF IInv, TypeOK, Frames, Outcomes, origins, tree
  <2>2. Story' /\ OnlyCancelOrphans'
    BY <1>1, <1>2 DEF IInv, TypeOK, Story, Links, Reports, OnlyCancelOrphans, Alive, Beside, origins
  <2>3. NestingIsCapped' /\ TreeIsExact'
    <3>1. \A x \in Subagents : /\ frame'[x] = "none" <=> frame[x] = "none"
                               /\ frame'[x] \in Registered <=> frame[x] \in Registered
      BY <1>1, <1>2 DEF IInv, TypeOK, Registered
    <3> QED BY <1>1, <1>2, <3>1, OriginsKept, TreeKept
  <2> QED BY <2>1, <2>2, <2>3 DEF IInv
<1>3. CASE /\ frame' = [frame EXCEPT ![s] = "setup"]
           /\ Register(s, parent[s]) /\ UNCHANGED outcome
  <2>1. TypeOK'
    <3>1. /\ node' \in [Subagents -> {"none", "clear", "set"}]
          /\ kids' \in [Subagents -> SUBSET Subagents]
      BY <1>3 DEF Register, IInv, TypeOK
    <3> QED BY <1>1, <1>3, <3>1 DEF IInv, TypeOK, Frames, origins
  <2>2. Story' /\ OnlyCancelOrphans'
    BY <1>1, <1>3 DEF IInv, TypeOK, Story, Links, Reports, OnlyCancelOrphans, Alive, Beside, origins
  <2>3. NestingIsCapped'
    BY <1>1, <1>3, OriginsKept DEF IInv, TypeOK
  <2>4. TreeIsExact'
    <3>1. node[s] = "none" /\ parent' = parent /\ mode' = mode
      BY <1>1 DEF IInv, TreeIsExact, Registered, origins
    <3>2. ASSUME NEW x \in Subagents
          PROVE  node'[x] # "none" <=> \/ mode'[x] = "sync" /\ frame'[x] \in Registered
                                       \/ mode'[x] = "background"
      BY <1>1, <1>3, <3>1 DEF Register, IInv, TypeOK, TreeIsExact, Registered
    <3>3. ASSUME NEW x \in Subagents, NEW k \in kids'[x]
          PROVE  /\ mode'[x] = "sync" /\ node'[x] # "none" /\ node'[k] # "none"
                 /\ mode'[k] = "sync" => parent'[k] = x
      BY <1>1, <1>3, <3>1, <3>3, RegisterAdds
    <3> QED BY <3>2, <3>3 DEF TreeIsExact
  <2> QED BY <2>1, <2>2, <2>3, <2>4 DEF IInv
<1> QED BY <1>2, <1>3 DEF SessionCreated

LEMMA SetUpInv ==
    ASSUME IInv, NEW s \in Subagents, SetUp(s)
    PROVE  IInv'
<1>1. /\ frame[s] = "setup" /\ UNCHANGED <<ctx, origins, tree>>
      /\ task[s] = "none" /\ s \in Tasks
  BY DEF SetUp, IInv, Story, Links, Tasks
<1>2. NestingIsCapped' /\ TreeIsExact'
  <2>1. \A x \in Subagents : /\ frame'[x] = "none" <=> frame[x] = "none"
                             /\ frame'[x] \in Registered <=> frame[x] \in Registered
    BY DEF SetUp, IInv, TypeOK, Registered
  <2> QED BY <1>1, <2>1, OriginsKept, TreeKept
<1>3. CASE /\ frame' = [frame EXCEPT ![s] = "wait"]
           /\ task' = [task EXCEPT ![s] = "running"] /\ UNCHANGED outcome
  <2>1. TypeOK'
    BY <1>1, <1>3 DEF IInv, TypeOK, Frames, Alive, origins, tree
  <2>2. Story' /\ OnlyCancelOrphans'
    BY <1>1, <1>3 DEF IInv, TypeOK, Story, Links, Reports, OnlyCancelOrphans, Tasks, Beside, origins
  <2> QED BY <1>2, <2>1, <2>2 DEF IInv
<1>4. CASE /\ frame' = [frame EXCEPT ![s] = "reporting"]
           /\ outcome' = [outcome EXCEPT ![s] = "failed"] /\ UNCHANGED task
  <2>1. TypeOK'
    BY <1>1, <1>4 DEF IInv, TypeOK, Frames, Outcomes, origins, tree
  <2>2. Story' /\ OnlyCancelOrphans'
    BY <1>1, <1>4 DEF IInv, TypeOK, Story, Links, Reports, OnlyCancelOrphans, Alive, Tasks, Beside, origins
  <2> QED BY <1>2, <2>1, <2>2 DEF IInv
<1> QED BY <1>3, <1>4 DEF SetUp

LEMMA WaitOverInv ==
    ASSUME IInv, NEW s \in Subagents, SubagentDone(s) \/ SubagentKilled(s)
    PROVE  IInv'
<1>1. /\ frame[s] \in {"wait", "killing"} /\ task[s] \in Over
      /\ frame' = [frame EXCEPT ![s] = "reporting"]
      /\ outcome' = [outcome EXCEPT ![s] = outcome'[s]] /\ outcome'[s] \in Outcomes
      /\ UNCHANGED <<ctx, origins, task, tree>>
  BY DEF SubagentDone, SubagentKilled, IInv, TypeOK, Over, Outcomes
<1>2. TypeOK'
  BY <1>1 DEF IInv, TypeOK, Frames, origins, tree
<1>3. Story' /\ OnlyCancelOrphans'
  BY <1>1 DEF IInv, TypeOK, Story, Links, Reports, OnlyCancelOrphans, Alive, Over, Beside, origins
<1>4. NestingIsCapped' /\ TreeIsExact'
  <2>1. \A x \in Subagents : /\ frame'[x] = "none" <=> frame[x] = "none"
                             /\ frame'[x] \in Registered <=> frame[x] \in Registered
    BY <1>1 DEF IInv, TypeOK, Registered
  <2> QED BY <1>1, <2>1, OriginsKept, TreeKept
<1> QED BY <1>2, <1>3, <1>4 DEF IInv

LEMMA KillsInv ==
    ASSUME IInv, NEW s \in Subagents, NEW why \in {"cancelled", "stuck"}, Kills(s, why)
    PROVE  IInv'
<1>1. /\ frame[s] = "wait" /\ task[s] \in {"running", "hung"} /\ s \in Tasks
      /\ task' = [task EXCEPT ![s] = "cancelling"]
      /\ frame' = [frame EXCEPT ![s] = "killing"]
      /\ outcome' = [outcome EXCEPT ![s] = why]
      /\ UNCHANGED <<ctx, origins, tree>>
  BY DEF Kills, Tasks
<1>2. TypeOK'
  BY <1>1 DEF IInv, TypeOK, Frames, Outcomes, Alive, Over, origins, tree
<1>3. Story' /\ OnlyCancelOrphans'
  BY <1>1 DEF IInv, TypeOK, Story, Links, Reports, OnlyCancelOrphans, Alive, Tasks, Beside, origins
<1>4. NestingIsCapped' /\ TreeIsExact'
  <2>1. \A x \in Subagents : /\ frame'[x] = "none" <=> frame[x] = "none"
                             /\ frame'[x] \in Registered <=> frame[x] \in Registered
    BY <1>1 DEF IInv, TypeOK, Registered
  <2> QED BY <1>1, <2>1, OriginsKept, TreeKept
<1> QED BY <1>2, <1>3, <1>4 DEF IInv

LEMMA ReportedInv ==
    ASSUME IInv, NEW s \in Subagents, Reported(s)
    PROVE  IInv'
<1>1. /\ frame[s] = "reporting" /\ UNCHANGED <<ctx, origins, outcome, task>>
      /\ mode[s] = "sync"
  BY WaitsIsSync DEF Reported, Frames, Beside
<1>2. CASE outcome[s] = "ok" /\ frame' = [frame EXCEPT ![s] = "evidence"] /\ UNCHANGED tree
  <2>1. TypeOK'
    BY <1>1, <1>2 DEF IInv, TypeOK, Frames, origins, tree
  <2>2. Story' /\ OnlyCancelOrphans'
    BY <1>1, <1>2
       DEF IInv, TypeOK, Story, Links, Reports, OnlyCancelOrphans, Beside, origins
  <2>3. NestingIsCapped' /\ TreeIsExact'
    <3>1. \A x \in Subagents : /\ frame'[x] = "none" <=> frame[x] = "none"
                               /\ frame'[x] \in Registered <=> frame[x] \in Registered
      BY <1>1, <1>2 DEF IInv, TypeOK, Registered
    <3> QED BY <1>1, <1>2, <3>1, OriginsKept, TreeKept
  <2> QED BY <2>1, <2>2, <2>3 DEF IInv
<1>3. CASE outcome[s] # "ok" /\ frame' = [frame EXCEPT ![s] = "finally"] /\ Cleanup(s)
  <2>1. /\ TreeIsExact' /\ node' \in [Subagents -> {"none", "clear", "set"}]
        /\ kids' \in [Subagents -> SUBSET Subagents]
    BY <1>1, <1>3, CleanupIsExact DEF Frames, Registered
  <2>2. TypeOK'
    BY <1>1, <1>3, <2>1 DEF IInv, TypeOK, Frames, origins
  <2>3. Story' /\ OnlyCancelOrphans'
    BY <1>1, <1>3
       DEF IInv, TypeOK, Story, Links, Reports, OnlyCancelOrphans, Beside, origins
  <2>4. NestingIsCapped'
    BY <1>1, <1>3, OriginsKept DEF IInv, TypeOK
  <2> QED BY <2>1, <2>2, <2>3, <2>4 DEF IInv
<1> QED BY <1>2, <1>3 DEF Reported

LEMMA EvidenceCollectedInv ==
    ASSUME IInv, NEW s \in Subagents, EvidenceCollected(s)
    PROVE  IInv'
<1>1. /\ frame[s] = "evidence" /\ frame' = [frame EXCEPT ![s] = "finally"] /\ Cleanup(s)
      /\ UNCHANGED <<ctx, origins, outcome, task>> /\ mode[s] = "sync"
  BY WaitsIsSync DEF EvidenceCollected, Frames, Beside
<1>2. /\ TreeIsExact' /\ node' \in [Subagents -> {"none", "clear", "set"}]
      /\ kids' \in [Subagents -> SUBSET Subagents]
  BY <1>1, CleanupIsExact DEF Frames, Registered
<1>3. TypeOK'
  BY <1>1, <1>2 DEF IInv, TypeOK, Frames, origins
<1>4. Story' /\ OnlyCancelOrphans'
  BY <1>1
     DEF IInv, TypeOK, Story, Links, Reports, OnlyCancelOrphans, Beside, origins
<1>5. NestingIsCapped'
  BY <1>1, OriginsKept DEF IInv, TypeOK
<1> QED BY <1>2, <1>3, <1>4, <1>5 DEF IInv

LEMMA FrameEndsInv ==
    ASSUME IInv, NEW s \in Subagents, FrameEnds(s)
    PROVE  IInv'
<1>1. /\ frame[s] = "finally" /\ frame' = [frame EXCEPT ![s] = "done"]
      /\ UNCHANGED <<ctx, origins, outcome, tree>>
  BY DEF FrameEnds
<1>2. TasksGoOn
  BY <1>1 DEF FrameEnds, TasksGoOn, TaskStates, IInv, TypeOK, Story, Links, Alive, Over
<1>3. TypeOK'
  BY <1>1, <1>2 DEF TasksGoOn, TaskStates, IInv, TypeOK, Frames, origins, tree
<1>4. Story' /\ OnlyCancelOrphans'
  BY <1>1, <1>2 DEF TasksGoOn, IInv, TypeOK, Story, Links, Reports, OnlyCancelOrphans, Tasks, Beside, origins
<1>5. NestingIsCapped' /\ TreeIsExact'
  <2>1. \A x \in Subagents : /\ frame'[x] = "none" <=> frame[x] = "none"
                             /\ frame'[x] \in Registered <=> frame[x] \in Registered
    BY <1>1 DEF IInv, TypeOK, Registered
  <2> QED BY <1>1, <2>1, OriginsKept, TreeKept
<1> QED BY <1>3, <1>4, <1>5 DEF IInv

LEMMA AgentStepInv ==
    ASSUME IInv, NEW t \in Tasks,
           \/ t \in Subagents /\ (SubagentEnds(t) \/ SubagentHangs(t))
           \/ RootCancelled(t) \/ DeliveredToAgent(t)
    PROVE  IInv'
<1>1. TasksGoOn
  BY DEF SubagentEnds, SubagentHangs, RootCancelled, DeliveredToAgent, Idle,
         TasksGoOn, TaskStates, IInv, TypeOK, Alive, Over
<1> QED
  BY <1>1, QuietKeeps DEF SubagentEnds, SubagentHangs, RootCancelled, DeliveredToAgent

LEMMA TreeCancelledInv ==
    ASSUME IInv, NEW s \in Subagents, TreeCancelled(s)
    PROVE  IInv'
<1>1. /\ node' = [x \in Subagents |-> IF x \in Cascade(s) THEN "set" ELSE node[x]]
      /\ UNCHANGED <<ctx, origins, frame, outcome, task, kids>>
  BY DEF TreeCancelled
<1>2. \A x \in Cascade(s) : node[x] = "clear"
  BY DEF Cascade
<1>3. TypeOK'
  BY <1>1 DEF IInv, TypeOK, origins
<1>4. Story' /\ OnlyCancelOrphans'
  BY <1>1 DEF IInv, Story, Links, Reports, OnlyCancelOrphans, Beside, origins
<1>5. NestingIsCapped'
  BY <1>1, OriginsKept
<1>6. TreeIsExact'
  <2>1. \A x \in Subagents : node'[x] # "none" <=> node[x] # "none"
    BY <1>1, <1>2
  <2>2. \A x \in Subagents : \A k \in kids[x] : k \in Subagents
    BY DEF IInv, TypeOK
  <2>3. kids' = kids /\ frame' = frame /\ parent' = parent /\ mode' = mode
    BY <1>1 DEF origins
  <2> QED BY <2>1, <2>2, <2>3 DEF IInv, TreeIsExact
<1> QED BY <1>3, <1>4, <1>5, <1>6 DEF IInv

-----------------------------------------------------------------------------
(* ... for the subagents beside their callers *)

\* Subagents that are asked for were unknown, and known to nobody.
LEMMA AskedWereNew ==
    ASSUME IInv, NEW t \in Tasks, NEW S \in SUBSET Subagents, NEW how, Asks(t, S, how)
    PROVE  /\ t \notin S
           /\ \A s \in S : /\ mode[s] = "none" /\ node[s] = "none" /\ task[s] = "none"
                            /\ \A x \in Subagents : s \notin kids[x]
           /\ task[t] = "running"
<1>1. task[t] = "running" /\ \A s \in S : frame[s] = "none"
  BY DEF Asks, Idle
<1>2. \A s \in S : task[s] = "none" /\ mode[s] = "none"
  BY <1>1 DEF IInv, Story, Links
<1>3. \A s \in S : node[s] = "none"
  BY <1>2 DEF IInv, TreeIsExact
<1> QED BY <1>1, <1>2, <1>3 DEF IInv, TreeIsExact

LEMMA AsksInv ==
    ASSUME IInv, NEW t \in Tasks, NEW S \in SUBSET Subagents, NEW how \in {"batch", "background"},
           Asks(t, S, how), node' \in [Subagents -> {"none", "clear", "set"}],
           kids' \in [Subagents -> SUBSET Subagents]
    PROVE  TypeOK' /\ Story' /\ NestingIsCapped' /\ OnlyCancelOrphans'
<1>1. /\ ctx' = ContextOf(t)
      /\ mode' = [s \in Subagents |-> IF s \in S THEN how ELSE mode[s]]
      /\ caller' = [s \in Subagents |-> IF s \in S THEN t ELSE caller[s]]
      /\ frame' = [s \in Subagents |-> IF s \in S THEN "asked" ELSE frame[s]]
      /\ UNCHANGED <<parent, depth, outcome, task>>
  BY DEF Asks
<1>2. TypeOK'
  BY <1>1, ContextIsTyped DEF IInv, TypeOK, Frames, Beside, Modes
<1>3. Story' /\ OnlyCancelOrphans'
  BY <1>1, AskedWereNew DEF IInv, TypeOK, Story, Links, Reports, OnlyCancelOrphans, Beside, Modes
<1>4. NestingIsCapped'
  BY <1>1, AskedWereNew DEF IInv, TypeOK, NestingIsCapped
<1> QED BY <1>2, <1>3, <1>4

LEMMA RunBatchInv ==
    ASSUME IInv, NEW t \in Tasks, NEW S \in SUBSET Subagents, RunBatch(t, S)
    PROVE  IInv'
<1>1. Asks(t, S, "batch") /\ node' = node /\ kids' = kids
  BY DEF RunBatch, tree
<1>2. TypeOK' /\ Story' /\ NestingIsCapped' /\ OnlyCancelOrphans'
  BY <1>1, AsksInv DEF IInv, TypeOK
<1>3. /\ \A s \in S : mode[s] = "none" /\ node[s] = "none" /\ \A x \in Subagents : s \notin kids[x]
      /\ \A s \in Subagents \ S : mode'[s] = mode[s] /\ frame'[s] = frame[s]
      /\ \A s \in S : mode'[s] = "batch"
      /\ parent' = parent
  BY <1>1, AskedWereNew DEF Asks
<1>4. ASSUME NEW x \in Subagents
      PROVE  node'[x] # "none" <=> \/ mode'[x] = "sync" /\ frame'[x] \in Registered
                                   \/ mode'[x] = "background"
  BY <1>1, <1>3 DEF IInv, TreeIsExact
<1>5. ASSUME NEW x \in Subagents, NEW k \in kids'[x]
      PROVE  /\ mode'[x] = "sync" /\ node'[x] # "none" /\ node'[k] # "none"
             /\ mode'[k] = "sync" => parent'[k] = x
  <2>1. /\ mode[x] = "sync" /\ node[x] # "none" /\ node[k] # "none" /\ k \in Subagents
        /\ mode[k] = "sync" => parent[k] = x
    BY <1>1, <1>5 DEF IInv, TypeOK, TreeIsExact
  <2> QED BY <1>1, <1>3, <2>1
<1> QED BY <1>2, <1>4, <1>5 DEF IInv, TreeIsExact

LEMMA RunBackgroundInv ==
    ASSUME IInv, NEW t \in Tasks, NEW s \in Subagents, RunBackground(t, s)
    PROVE  IInv'
<1>1. Asks(t, {s}, "background") /\ Register(s, ContextOf(t))
  BY DEF RunBackground
<1>2. /\ node' \in [Subagents -> {"none", "clear", "set"}]
      /\ kids' \in [Subagents -> SUBSET Subagents]
  BY <1>1 DEF Register, IInv, TypeOK
<1>3. TypeOK' /\ Story' /\ NestingIsCapped' /\ OnlyCancelOrphans'
  BY <1>1, <1>2, AsksInv
<1>4. /\ mode[s] = "none" /\ node[s] = "none" /\ mode'[s] = "background"
      /\ \A x \in Subagents \ {s} : mode'[x] = mode[x] /\ frame'[x] = frame[x]
      /\ parent' = parent
  <2>1. mode[s] = "none" /\ node[s] = "none"
    <3>1. {s} \in SUBSET Subagents /\ s \in {s}
      OBVIOUS
    <3> QED BY <1>1, <3>1, AskedWereNew
  <2>2. /\ mode' = [x \in Subagents |-> IF x \in {s} THEN "background" ELSE mode[x]]
        /\ frame' = [x \in Subagents |-> IF x \in {s} THEN "asked" ELSE frame[x]]
        /\ UNCHANGED parent
    BY <1>1 DEF Asks
  <2> QED BY <2>1, <2>2
<1>5. ASSUME NEW x \in Subagents
      PROVE  node'[x] # "none" <=> \/ mode'[x] = "sync" /\ frame'[x] \in Registered
                                   \/ mode'[x] = "background"
  BY <1>1, <1>4 DEF Register, IInv, TypeOK, TreeIsExact
<1>6. ASSUME NEW x \in Subagents, NEW k \in kids'[x]
      PROVE  /\ mode'[x] = "sync" /\ node'[x] # "none" /\ node'[k] # "none"
             /\ mode'[k] = "sync" => parent'[k] = x
  BY <1>1, <1>4, <1>6, RegisterAdds
<1> QED BY <1>3, <1>5, <1>6 DEF IInv, TreeIsExact

LEMMA BesideIsApart ==
    ASSUME IInv, NEW s \in Subagents, frame[s] \in Beside
    PROVE  mode[s] \in {"batch", "background"}
BY DEF IInv, TypeOK, Modes, Story, Links, Beside

LEMMA BesideStartsInv ==
    ASSUME IInv, NEW s \in Subagents, BesideStarts(s)
    PROVE  IInv'
<1>1. /\ frame[s] = "asked" /\ UNCHANGED <<ctx, mode, caller, tree>>
      /\ mode[s] \in {"batch", "background"} /\ task[s] = "none" /\ s \in Tasks
  BY BesideIsApart DEF BesideStarts, Beside, IInv, Story, Links, Tasks
<1>2. ASSUME NEW f \in {"apart", "done"}, frame' = [frame EXCEPT ![s] = f],
             \A x \in Subagents \ {s} : parent'[x] = parent[x] /\ depth'[x] = depth[x]
      PROVE  NestingIsCapped' /\ TreeIsExact'
  <2>1. \A x \in Subagents : mode[x] = "sync" => caller[x] # s /\ x # s
    BY <1>1 DEF IInv, Story, Links
  <2>2. NestingIsCapped'
    BY <1>1, <1>2, <2>1 DEF IInv, NestingIsCapped
  <2>3. \A x \in Subagents : mode[x] = "sync" => frame'[x] = frame[x]
    BY <1>2, <2>1 DEF IInv, TypeOK
  <2>4. \A x \in Subagents : \A k \in kids[x] : k \in Subagents
    BY DEF IInv, TypeOK
  <2>5. TreeIsExact'
    BY <1>1, <1>2, <2>1, <2>3, <2>4 DEF IInv, TreeIsExact, tree
  <2> QED BY <2>2, <2>5
<1>3. CASE /\ parent' = [parent EXCEPT ![s] = ctx]
           /\ depth' = [depth EXCEPT ![s] = ChildDepth(ctx)]
           /\ frame' = [frame EXCEPT ![s] = "apart"]
           /\ task' = [task EXCEPT ![s] = "running"] /\ UNCHANGED outcome
  <2>1. ctx \in Subagents \cup {NoOne} /\ ChildDepth(ctx) \in Nat
    BY DEF IInv, TypeOK, ChildDepth
  <2>2. TypeOK'
    BY <1>1, <1>3, <2>1 DEF IInv, TypeOK, Frames, Beside, Alive, tree
  <2>3. Story' /\ OnlyCancelOrphans'
    BY <1>1, <1>3 DEF IInv, TypeOK, Story, Links, Reports, OnlyCancelOrphans, Tasks, Beside
  <2>4. NestingIsCapped' /\ TreeIsExact'
    BY <1>2, <1>3
  <2> QED BY <2>2, <2>3, <2>4 DEF IInv
<1>4. CASE /\ frame' = [frame EXCEPT ![s] = "done"]
           /\ outcome' = [outcome EXCEPT ![s] = "failed"]
           /\ UNCHANGED <<parent, depth, task>>
  <2>1. TypeOK'
    BY <1>1, <1>4 DEF IInv, TypeOK, Frames, Outcomes, tree
  <2>2. Story' /\ OnlyCancelOrphans'
    BY <1>1, <1>4 DEF IInv, TypeOK, Story, Links, Reports, OnlyCancelOrphans, Alive, Tasks, Beside
  <2>3. NestingIsCapped' /\ TreeIsExact'
    BY <1>2, <1>4
  <2> QED BY <2>1, <2>2, <2>3 DEF IInv
<1> QED BY <1>3, <1>4 DEF BesideStarts

LEMMA TimesOutInv ==
    ASSUME IInv, NEW s \in Subagents, TimesOut(s)
    PROVE  IInv'
<1>1. /\ frame[s] = "apart" /\ task[s] \in {"running", "hung"} /\ s \in Tasks
      /\ frame' = [frame EXCEPT ![s] = "late"]
      /\ task' = [task EXCEPT ![s] = "cancelling"]
      /\ UNCHANGED <<ctx, origins, outcome, tree>>
  BY DEF TimesOut, Tasks
<1>2. TypeOK'
  BY <1>1 DEF IInv, TypeOK, Frames, Beside, Alive, origins, tree
<1>3. Story' /\ OnlyCancelOrphans'
  BY <1>1 DEF IInv, TypeOK, Story, Links, Reports, OnlyCancelOrphans, Tasks, Beside, origins
<1>4. NestingIsCapped' /\ TreeIsExact'
  <2>1. \A x \in Subagents : /\ frame'[x] = "none" <=> frame[x] = "none"
                             /\ frame'[x] \in Registered <=> frame[x] \in Registered
    BY <1>1 DEF IInv, TypeOK, Registered
  <2> QED BY <1>1, <2>1, OriginsKept, TreeKept
<1> QED BY <1>2, <1>3, <1>4 DEF IInv

LEMMA BesideEndsInv ==
    ASSUME IInv, NEW s \in Subagents, BesideEnds(s)
    PROVE  IInv'
<1>1. /\ frame[s] \in {"apart", "late"} /\ task[s] \in Over
      /\ frame' = [frame EXCEPT ![s] = "done"]
      /\ outcome' = [outcome EXCEPT ![s] = outcome'[s]] /\ outcome'[s] \in Outcomes
      /\ UNCHANGED <<ctx, origins, task, tree>>
  BY DEF BesideEnds, IInv, TypeOK, Over, Outcomes
<1>2. TypeOK'
  BY <1>1 DEF IInv, TypeOK, Frames, origins, tree
<1>3. Story' /\ OnlyCancelOrphans'
  BY <1>1 DEF IInv, TypeOK, Story, Links, Reports, OnlyCancelOrphans, Alive, Over, Beside, origins
<1>4. NestingIsCapped' /\ TreeIsExact'
  <2>1. \A x \in Subagents : /\ frame'[x] = "none" <=> frame[x] = "none"
                             /\ frame'[x] \in Registered <=> frame[x] \in Registered
    BY <1>1 DEF IInv, TypeOK, Registered
  <2> QED BY <1>1, <2>1, OriginsKept, TreeKept
<1> QED BY <1>2, <1>3, <1>4 DEF IInv

-----------------------------------------------------------------------------
(* ... for the delivery of a cancellation to the frame of s *)

LEMMA DeliveredOutsideInv ==
    ASSUME IInv, NEW t \in Tasks, NEW s \in Subagents, task[t] = "cancelling",
           DeliveredOutside(t, s)
    PROVE  IInv'
<1>1. /\ frame[s] \in {"creating", "finally"} /\ frame' = [frame EXCEPT ![s] = "done"]
      /\ outcome' = [outcome EXCEPT ![s] = "raised"]
      /\ task' = [task EXCEPT ![t] = "cancelled"]
      /\ UNCHANGED <<ctx, origins, tree>>
  BY DEF DeliveredOutside
<1>2. TasksGoOn
  BY <1>1 DEF TasksGoOn, TaskStates, IInv, TypeOK, Alive, Over
<1>3. TypeOK'
  BY <1>1, <1>2 DEF TasksGoOn, TaskStates, IInv, TypeOK, Frames, Outcomes, origins, tree
<1>4. Story' /\ OnlyCancelOrphans'
  BY <1>1, <1>2 DEF TasksGoOn, IInv, TypeOK, Story, Links, Reports, OnlyCancelOrphans, Tasks, Beside, origins
<1>5. NestingIsCapped' /\ TreeIsExact'
  <2>1. \A x \in Subagents : /\ frame'[x] = "none" <=> frame[x] = "none"
                             /\ frame'[x] \in Registered <=> frame[x] \in Registered
    BY <1>1 DEF IInv, TypeOK, Registered
  <2> QED BY <1>1, <2>1, OriginsKept, TreeKept
<1> QED BY <1>3, <1>4, <1>5 DEF IInv

LEMMA DeliveredInTryInv ==
    ASSUME IInv, NEW t \in Tasks, NEW s \in Subagents, task[t] = "cancelling",
           DeliveredInTry(t, s)
    PROVE  IInv'
<1>1. /\ frame[s] \in {"setup", "wait", "evidence", "reporting"}
      /\ frame' = [frame EXCEPT ![s] = "reporting"]
      /\ outcome' = [outcome EXCEPT ![s] = "cancelled"]
      /\ task' = [task EXCEPT ![t] = "running"]
      /\ UNCHANGED <<ctx, origins, tree>>
  BY DEF DeliveredInTry
<1>2. TasksGoOn
  BY <1>1 DEF TasksGoOn, TaskStates, IInv, TypeOK, Alive, Over
<1>3. TypeOK'
  BY <1>1, <1>2 DEF TasksGoOn, TaskStates, IInv, TypeOK, Frames, Outcomes, origins, tree
<1>4. Story' /\ OnlyCancelOrphans'
  BY <1>1, <1>2 DEF TasksGoOn, IInv, TypeOK, Story, Links, Reports, OnlyCancelOrphans, Tasks, Beside, origins
<1>5. NestingIsCapped' /\ TreeIsExact'
  <2>1. \A x \in Subagents : /\ frame'[x] = "none" <=> frame[x] = "none"
                             /\ frame'[x] \in Registered <=> frame[x] \in Registered
    BY <1>1 DEF IInv, TypeOK, Registered
  <2> QED BY <1>1, <2>1, OriginsKept, TreeKept
<1> QED BY <1>3, <1>4, <1>5 DEF IInv

LEMMA DeliveredInHandlerInv ==
    ASSUME IInv, NEW t \in Tasks, NEW s \in Subagents, task[t] = "cancelling",
           DeliveredInHandler(t, s)
    PROVE  IInv'
<1>1. /\ frame[s] = "reporting" /\ frame' = [frame EXCEPT ![s] = "finally"]
      /\ outcome' = [outcome EXCEPT ![s] = "raised"]
      /\ task' = [task EXCEPT ![t] = "running"]
      /\ Cleanup(s) /\ UNCHANGED <<ctx, origins>> /\ mode[s] = "sync"
  BY WaitsIsSync DEF DeliveredInHandler, Frames, Beside
<1>2. TasksGoOn
  BY <1>1 DEF TasksGoOn, TaskStates, IInv, TypeOK, Alive, Over
<1>3. /\ TreeIsExact' /\ node' \in [Subagents -> {"none", "clear", "set"}]
      /\ kids' \in [Subagents -> SUBSET Subagents]
  BY <1>1, CleanupIsExact DEF Frames, Registered
<1>4. TypeOK'
  BY <1>1, <1>2, <1>3 DEF TasksGoOn, TaskStates, IInv, TypeOK, Frames, Outcomes, origins
<1>5. Story' /\ OnlyCancelOrphans'
  BY <1>1, <1>2 DEF TasksGoOn, IInv, TypeOK, Story, Links, Reports, OnlyCancelOrphans, Tasks, Beside, origins
<1>6. NestingIsCapped'
  BY <1>1, OriginsKept DEF IInv, TypeOK
<1> QED BY <1>3, <1>4, <1>5, <1>6 DEF IInv

LEMMA DeliveredToKilledInv ==
    ASSUME IInv, NEW t \in Tasks, NEW s \in Subagents, task[t] = "cancelling",
           DeliveredToKilled(t, s)
    PROVE  IInv'
<1>1. TasksGoOn
  BY DEF DeliveredToKilled, TasksGoOn, TaskStates, IInv, TypeOK, Alive, Over, Tasks
<1> QED BY <1>1, QuietKeeps DEF DeliveredToKilled

LEMMA DeliveredInv ==
    ASSUME IInv, NEW t \in Tasks, Delivered(t)
    PROVE  IInv'
<1>1. CASE DeliveredToAgent(t)
  BY <1>1, AgentStepInv
<1>2. ASSUME NEW s \in Nested(t), task[t] = "cancelling",
             \/ DeliveredOutside(t, s) \/ DeliveredInTry(t, s)
             \/ DeliveredInHandler(t, s) \/ DeliveredToKilled(t, s)
      PROVE  IInv'
  BY <1>2, DeliveredOutsideInv, DeliveredInTryInv, DeliveredInHandlerInv, DeliveredToKilledInv
     DEF Nested, AskedOf
<1> QED BY <1>1, <1>2 DEF Delivered

-----------------------------------------------------------------------------

LEMMA StepInv == IInv /\ [Next]_vars => IInv'
<1> SUFFICES ASSUME IInv, [Next]_vars PROVE IInv'
  OBVIOUS
<1>1. ASSUME NEW t \in Tasks, NEW s \in Subagents, Delegates(t, s) \/ RunBackground(t, s)
      PROVE  IInv'
  BY <1>1, DelegatesInv, RunBackgroundInv
<1>7. ASSUME NEW t \in Tasks, NEW S \in SUBSET Subagents, RunBatch(t, S) PROVE IInv'
  BY <1>7, RunBatchInv
<1>2. ASSUME NEW t \in Tasks, DelegationRefused(t) \/ Delivered(t) PROVE IInv'
  BY <1>2, DelegationRefusedInv, DeliveredInv
<1>3. ASSUME NEW s \in Subagents, FrameSteps(s) \/ StuckSeen(s) \/ TimesOut(s) PROVE IInv'
  BY <1>3, SessionCreatedInv, SetUpInv, WaitOverInv, KillsInv, ReportedInv,
     EvidenceCollectedInv, FrameEndsInv, BesideStartsInv, TimesOutInv, BesideEndsInv DEF FrameSteps, CancelSeen, StuckSeen
<1>4. ASSUME NEW s \in Subagents, SubagentEnds(s) \/ SubagentHangs(s) \/ TreeCancelled(s)
      PROVE  IInv'
  BY <1>4, AgentStepInv, TreeCancelledInv DEF Tasks
<1>5. ASSUME NEW r \in Roots, RootCancelled(r) PROVE IInv'
  BY <1>5, AgentStepInv DEF Tasks
<1>6. ASSUME UNCHANGED vars PROVE IInv'
  <2>1. TasksGoOn
    BY <1>6 DEF vars, TasksGoOn, TaskStates, IInv, TypeOK
  <2> QED BY <1>6, <2>1, QuietKeeps DEF vars, origins, tree
<1> QED BY <1>1, <1>2, <1>3, <1>4, <1>5, <1>6, <1>7 DEF Next

LEMMA Invariance == Spec => []IInv
BY InitInv, StepInv, PTL DEF Spec

\* Values keep their types: a frame has a place, an outcome and a task.
THEOREM DelegationTypeOK == Spec => []TypeOK
<1>1. IInv => TypeOK
  BY DEF IInv
<1> QED BY <1>1, Invariance, PTL

\* Delegations that are waited for nest at most MaxDepth deep, counting from the
\* depth an agent of a batch or of the background was given, whoever else uses
\* the tool.
THEOREM DelegationNestingIsCapped == Spec => []NestingIsCapped
<1>1. IInv => NestingIsCapped
  BY DEF IInv
<1> QED BY <1>1, Invariance, PTL

\* The cancellation tree holds the delegations under way that are waited for,
\* neither more nor less, wherever a cancellation has hit a frame, and every
\* background subagent there has ever been.
THEOREM DelegationTreeIsExact == Spec => []TreeIsExact
<1>1. IInv => TreeIsExact
  BY DEF IInv
<1> QED BY <1>1, Invariance, PTL

\* A subagent that has been reported to have succeeded, failed or hung has stopped.
THEOREM DelegationOnlyCancelOrphans == Spec => []OnlyCancelOrphans
<1>1. IInv => OnlyCancelOrphans
  BY DEF IInv
<1> QED BY <1>1, Invariance, PTL

-----------------------------------------------------------------------------
(* Frames nest like calls *)

\* s is waited for: it is one of Nested(caller[s]).
Busy(s) == mode[s] = "sync" /\ frame[s] \notin {"none", "done"}

NInv == IInv /\ FramesNest

\* What no step does: a task that is over stays as it ended, one that has not
\* begun begins when its frame is set up and not later, and a delegation that
\* has answered keeps its answer.
OverIsOver == \A t \in Tasks : task[t] \in Over => task'[t] = task[t]
UnbegunStays ==
    \A s \in Subagents :
        task[s] = "none" /\ frame[s] \notin {"setup", "asked"} => task'[s] = "none"
AnswerIsFinal ==
    \A s \in Subagents :
        frame[s] = "done" => frame'[s] = "done" /\ outcome'[s] = outcome[s]

Nests == FramesNest' /\ OverIsOver /\ UnbegunStays /\ AnswerIsFinal

LEMMA CallersAreTasks ==
    ASSUME IInv, NEW s \in Subagents, Busy(s)
    PROVE  caller[s] \in Tasks /\ caller[s] # s
<1>1. mode[s] = "sync" /\ frame[s] # "none"
  BY DEF Busy
<1>2. caller[s] \in Tasks
  BY <1>1 DEF IInv, Story, Links
<1>3. caller[s] # s
  <2>1. depth[s] \in Nat
    BY DEF IInv, TypeOK
  <2> QED BY <1>1, <2>1 DEF IInv, NestingIsCapped
<1> QED BY <1>2, <1>3

LEMMA BusyIsNested ==
    ASSUME NEW s \in Subagents
    PROVE  Busy(s) <=> s \in Nested(caller[s])
BY DEF Busy, Nested, AskedOf

\* What it means to be waited for by a task.
LEMMA BusyFacts ==
    ASSUME NInv, NEW s \in Subagents, Busy(s)
    PROVE  /\ caller[s] \in Tasks /\ caller[s] # s
           /\ task[caller[s]] \in {"running", "cancelling"}
           /\ Nested(caller[s]) = {s} /\ Fanned(caller[s]) = {}
BY CallersAreTasks, BusyIsNested DEF NInv, FramesNest

\* Who runs a frame runs no other.
LEMMA OneFrameEach ==
    ASSUME FramesNest, NEW s \in Subagents, NEW x \in Subagents,
           Busy(s), Busy(x), caller[x] = caller[s]
    PROVE  x = s
<1>1. x \in Nested(caller[s])
  BY DEF Nested, AskedOf, Busy
<1> QED BY <1>1, BusyIsNested DEF FramesNest

\* Steps that begin no frame and leave those who run one alive.
LEMMA NestKept ==
    ASSUME NInv, UNCHANGED <<caller, mode>>,
           \A s \in Subagents : frame'[s] \notin {"none", "done"} => frame[s] \notin {"none", "done"},
           \A s \in Subagents : Busy(s)' => task'[caller[s]] \in {"running", "cancelling"}
    PROVE  FramesNest'
<1> SUFFICES ASSUME NEW s \in Subagents, (s \in Nested(caller[s]))'
             PROVE  /\ task'[caller'[s]] \in {"running", "cancelling"}
                    /\ Nested(caller[s])' = {s} /\ Fanned(caller[s])' = {}
  BY DEF FramesNest
<1>1. Busy(s) /\ Busy(s)'
  BY DEF Nested, AskedOf, Busy
<1>2. /\ Nested(caller[s])' \subseteq Nested(caller[s])
      /\ Fanned(caller[s])' \subseteq Fanned(caller[s])
  BY DEF Nested, Fanned, AskedOf
<1>3. Nested(caller[s]) = {s} /\ Fanned(caller[s]) = {}
  BY <1>1, BusyFacts
<1> QED BY <1>1, <1>2, <1>3

LEMMA DelegatesNests ==
    ASSUME NInv, NEW t \in Tasks, NEW s \in Subagents, Delegates(t, s)
    PROVE  Nests
<1>1. /\ task[t] = "running" /\ Nested(t) = {} /\ Fanned(t) = {} /\ frame[s] = "none"
      /\ mode' = [mode EXCEPT ![s] = "sync"]
      /\ caller' = [caller EXCEPT ![s] = t]
      /\ frame' = [frame EXCEPT ![s] = "creating"]
      /\ UNCHANGED <<outcome, task>>
  BY DEF Delegates, Idle
<1>2. /\ caller \in [Subagents -> Tasks \cup {NoOne}] /\ frame \in [Subagents -> Frames]
      /\ mode \in [Subagents -> Modes \cup {"none"}]
  BY DEF NInv, IInv, TypeOK
<1>3. /\ mode'[s] = "sync" /\ caller'[s] = t /\ frame'[s] = "creating"
      /\ \A x \in Subagents \ {s} : mode'[x] = mode[x] /\ caller'[x] = caller[x] /\ frame'[x] = frame[x]
  BY <1>1, <1>2
<1>4. \A z \in Subagents : Busy(z) => caller[z] # t
  BY <1>1 DEF Nested, AskedOf, Busy
<1>5. ASSUME NEW x \in Subagents, Busy(x)'
      PROVE  /\ task'[caller'[x]] \in {"running", "cancelling"}
             /\ Nested(caller[x])' = {x} /\ Fanned(caller[x])' = {}
  <2>1. CASE x = s
    <3>1. \A y \in Subagents : Busy(y)' /\ caller'[y] = t => y = s
      BY <1>3, <1>4 DEF Busy
    <3>2. \A y \in Subagents : mode'[y] = "batch" /\ caller'[y] = t => frame'[y] \in {"none", "done"}
      BY <1>1, <1>3 DEF Fanned, AskedOf
    <3> QED BY <1>1, <1>3, <1>5, <2>1, <3>1, <3>2 DEF Nested, Fanned, AskedOf, Busy
  <2>2. CASE x # s
    <3>1. Busy(x) /\ caller'[x] = caller[x] /\ caller[x] # t
      BY <1>3, <1>4, <1>5, <2>2 DEF Busy
    <3>2. /\ task[caller[x]] \in {"running", "cancelling"}
          /\ Nested(caller[x]) = {x} /\ Fanned(caller[x]) = {}
      BY <3>1, BusyFacts
    <3>3. ASSUME NEW y \in Subagents
          PROVE  /\ caller'[y] = caller'[x] /\ frame'[y] \notin {"none", "done"} <=>
                        caller[y] = caller[x] /\ frame[y] \notin {"none", "done"}
                 /\ caller'[y] = caller'[x] => mode'[y] = mode[y]
      BY <1>1, <1>3, <3>1
    <3>4. /\ Nested(caller[x])' = Nested(caller[x])
          /\ Fanned(caller[x])' = Fanned(caller[x])
      BY <1>1, <1>3, <3>1, <3>3 DEF Nested, Fanned, AskedOf
    <3> QED BY <1>1, <3>1, <3>2, <3>4
  <2> QED BY <2>1, <2>2
<1>6. FramesNest'
  BY <1>5 DEF FramesNest, Nested, AskedOf, Busy
<1>7. OverIsOver /\ UnbegunStays /\ AnswerIsFinal
  BY <1>1, <1>2 DEF OverIsOver, UnbegunStays, AnswerIsFinal
<1> QED BY <1>6, <1>7 DEF Nests

LEMMA AsksNests ==
    ASSUME NInv, NEW t \in Tasks, NEW S \in SUBSET Subagents,
           NEW how \in {"batch", "background"}, Asks(t, S, how)
    PROVE  Nests
<1>1. /\ Nested(t) = {} /\ \A s \in S : frame[s] = "none"
      /\ mode' = [s \in Subagents |-> IF s \in S THEN how ELSE mode[s]]
      /\ caller' = [s \in Subagents |-> IF s \in S THEN t ELSE caller[s]]
      /\ frame' = [s \in Subagents |-> IF s \in S THEN "asked" ELSE frame[s]]
      /\ UNCHANGED <<outcome, task>>
  BY DEF Asks, Idle
<1>2. ASSUME NEW x \in Subagents, Busy(x)'
      PROVE  /\ task'[caller'[x]] \in {"running", "cancelling"}
             /\ Nested(caller[x])' = {x} /\ Fanned(caller[x])' = {}
  <2>1. x \notin S /\ Busy(x) /\ caller'[x] = caller[x]
    BY <1>1, <1>2 DEF Busy
  <2>2. /\ task[caller[x]] \in {"running", "cancelling"} /\ caller[x] # t
        /\ Nested(caller[x]) = {x} /\ Fanned(caller[x]) = {}
    BY <1>1, <2>1, BusyFacts
  <2>3. /\ Nested(caller[x])' = Nested(caller[x])
        /\ Fanned(caller[x])' = Fanned(caller[x])
    BY <1>1, <2>1, <2>2 DEF Nested, Fanned, AskedOf
  <2> QED BY <1>1, <2>1, <2>2, <2>3
<1>3. FramesNest'
  BY <1>2 DEF FramesNest, Nested, AskedOf, Busy
<1>4. OverIsOver /\ UnbegunStays /\ AnswerIsFinal
  BY <1>1 DEF OverIsOver, UnbegunStays, AnswerIsFinal
<1> QED BY <1>3, <1>4 DEF Nests

\* The steps of the frame of s but the last: whose task goes on.
LEMMA FrameGoesOn ==
    ASSUME NInv, NEW s \in Subagents, frame[s] \notin {"none", "done"}, NEW f \in Frames,
           frame' = [frame EXCEPT ![s] = f], UNCHANGED <<caller, mode>>,
           \A x \in Subagents \ {s} : outcome'[x] = outcome[x],
           \/ UNCHANGED task
           \/ /\ \/ task[s] \in {"running", "hung"}
                 \/ task[s] = "none" /\ frame[s] \in {"setup", "asked"}
              /\ \E v \in {"running", "cancelling"} : task' = [task EXCEPT ![s] = v]
    PROVE  Nests
<1>1. frame \in [Subagents -> Frames] /\ task \in [Tasks -> TaskStates] /\ s \in Tasks
  BY DEF NInv, IInv, TypeOK, TaskStates, Tasks
<1>2. ASSUME NEW x \in Subagents
      PROVE  /\ frame'[x] \notin {"none", "done"} => frame[x] \notin {"none", "done"}
             /\ Busy(x)' => task'[caller[x]] \in {"running", "cancelling"}
  <2>1. frame'[x] \notin {"none", "done"} => frame[x] \notin {"none", "done"}
    BY <1>1
  <2>2. ASSUME Busy(x)' PROVE task'[caller[x]] \in {"running", "cancelling"}
    <3>1. Busy(x)
      BY <2>1, <2>2 DEF Busy
    <3>2. caller[x] \in Tasks /\ task[caller[x]] \in {"running", "cancelling"}
      BY <3>1, BusyFacts
    <3> QED BY <1>1, <3>2
  <2> QED BY <2>1, <2>2
<1>3. FramesNest'
  BY <1>2, NestKept
<1>4. OverIsOver /\ UnbegunStays /\ AnswerIsFinal
  BY <1>1 DEF OverIsOver, UnbegunStays, AnswerIsFinal, Over, Tasks
<1> QED BY <1>3, <1>4 DEF Nests

LEMMA FrameStepsNest ==
    ASSUME NInv, NEW s \in Subagents,
           \/ SessionCreated(s) \/ SetUp(s) \/ SubagentDone(s) \/ SubagentKilled(s)
           \/ CancelSeen(s) \/ StuckSeen(s) \/ Reported(s) \/ EvidenceCollected(s)
           \/ BesideStarts(s) \/ TimesOut(s) \/ BesideEnds(s)
    PROVE  Nests
<1>1. \A x \in Subagents \ {s} : outcome'[x] = outcome[x]
  BY DEF SessionCreated, SetUp, SubagentDone, SubagentKilled, CancelSeen, StuckSeen, Kills,
         Reported, EvidenceCollected, BesideStarts, TimesOut, BesideEnds, NInv, IInv, TypeOK
<1>2. UNCHANGED <<caller, mode>> /\ frame[s] \notin {"none", "done"}
  BY DEF SessionCreated, SetUp, SubagentDone, SubagentKilled, CancelSeen, StuckSeen, Kills,
         Reported, EvidenceCollected, BesideStarts, TimesOut, BesideEnds, origins
<1>3. \E f \in Frames : frame' = [frame EXCEPT ![s] = f]
  BY DEF SessionCreated, SetUp, SubagentDone, SubagentKilled, CancelSeen, StuckSeen, Kills,
         Reported, EvidenceCollected, BesideStarts, TimesOut, BesideEnds, Frames, Beside
<1>4. \/ UNCHANGED task
      \/ /\ \/ task[s] \in {"running", "hung"}
            \/ task[s] = "none" /\ frame[s] \in {"setup", "asked"}
         /\ \E v \in {"running", "cancelling"} : task' = [task EXCEPT ![s] = v]
  <2>1. CASE SetUp(s) \/ BesideStarts(s)
    <3>1. task[s] = "none" /\ frame[s] \in {"setup", "asked"}
      BY <2>1 DEF SetUp, BesideStarts, NInv, IInv, Story, Links
    <3> QED BY <2>1, <3>1 DEF SetUp, BesideStarts
  <2>2. CASE ~SetUp(s) /\ ~BesideStarts(s)
    BY <2>2 DEF SessionCreated, SubagentDone, SubagentKilled, CancelSeen, StuckSeen, Kills,
                Reported, EvidenceCollected, TimesOut, BesideEnds
  <2> QED BY <2>1, <2>2
<1> QED BY <1>1, <1>2, <1>3, <1>4, FrameGoesOn

\* The frame of s is left, and t, whose frame it is, may be over with it.
LEMMA FrameIsLeft ==
    ASSUME NInv, NEW t \in Tasks, NEW s \in Subagents, Busy(s), caller[s] = t,
           frame' = [frame EXCEPT ![s] = "done"], UNCHANGED <<caller, mode>>,
           \A x \in Subagents \ {s} : outcome'[x] = outcome[x],
           UNCHANGED task \/ task' = [task EXCEPT ![t] = "cancelled"]
    PROVE  Nests
<1>1. frame \in [Subagents -> Frames] /\ task \in [Tasks -> TaskStates]
  BY DEF NInv, IInv, TypeOK, TaskStates
<1>2. ASSUME NEW x \in Subagents
      PROVE  /\ frame'[x] \notin {"none", "done"} => frame[x] \notin {"none", "done"}
             /\ Busy(x)' => task'[caller[x]] \in {"running", "cancelling"}
  <2>1. frame'[x] \notin {"none", "done"} => frame[x] \notin {"none", "done"} /\ x # s
    BY <1>1
  <2>2. ASSUME Busy(x)' PROVE task'[caller[x]] \in {"running", "cancelling"}
    <3>1. Busy(x) /\ x # s
      BY <2>1, <2>2 DEF Busy
    <3>2. caller[x] # t
      BY <3>1, OneFrameEach DEF NInv
    <3>3. caller[x] \in Tasks /\ task[caller[x]] \in {"running", "cancelling"}
      BY <3>1, BusyFacts
    <3> QED BY <1>1, <3>2, <3>3
  <2> QED BY <2>1, <2>2
<1>3. FramesNest'
  BY <1>2, NestKept
<1>4. task[t] \in {"running", "cancelling"}
  BY BusyFacts
<1>5. OverIsOver /\ UnbegunStays /\ AnswerIsFinal
  BY <1>1, <1>4 DEF OverIsOver, UnbegunStays, AnswerIsFinal, Over, Busy, Tasks
<1> QED BY <1>3, <1>5 DEF Nests

LEMMA FrameEndsNests ==
    ASSUME NInv, NEW s \in Subagents, FrameEnds(s)
    PROVE  Nests
<1>1. Busy(s)
  BY WaitsIsSync DEF FrameEnds, Busy, NInv, Frames, Beside
<1>2. caller[s] \in Tasks
  BY <1>1, BusyFacts
<1> QED BY <1>1, <1>2, FrameIsLeft DEF FrameEnds, origins

\* What a task does that runs no frame.
LEMMA AgentStepNests ==
    ASSUME NInv, NEW t \in Tasks, NEW v \in TaskStates,
           task' = [task EXCEPT ![t] = v], task[t] \in {"running", "cancelling"},
           Nested(t) = {} \/ v = "cancelling",
           UNCHANGED <<caller, mode, frame, outcome>>
    PROVE  Nests
<1>1. task \in [Tasks -> TaskStates]
  BY DEF NInv, IInv, TypeOK, TaskStates
<1>2. ASSUME NEW x \in Subagents, Busy(x)'
      PROVE  task'[caller[x]] \in {"running", "cancelling"}
  <2>1. Busy(x)
    BY <1>2 DEF Busy
  <2>2. caller[x] \in Tasks /\ task[caller[x]] \in {"running", "cancelling"}
    BY <2>1, BusyFacts
  <2>3. caller[x] = t => x \in Nested(t)
    BY <2>1, BusyIsNested
  <2> QED BY <1>1, <2>2, <2>3
<1>3. FramesNest'
  BY <1>2, NestKept
<1>4. OverIsOver /\ UnbegunStays /\ AnswerIsFinal
  BY <1>1 DEF OverIsOver, UnbegunStays, AnswerIsFinal, Over, Tasks
<1> QED BY <1>3, <1>4 DEF Nests

LEMMA AgentsNest ==
    ASSUME NInv, NEW t \in Tasks,
           \/ t \in Subagents /\ (SubagentEnds(t) \/ SubagentHangs(t))
           \/ RootCancelled(t) \/ DeliveredToAgent(t)
    PROVE  Nests
<1>1. UNCHANGED <<caller, mode, frame, outcome>>
  BY DEF SubagentEnds, SubagentHangs, RootCancelled, DeliveredToAgent, origins
<1>2. "ok" \in TaskStates /\ "failed" \in TaskStates /\ "hung" \in TaskStates
      /\ "cancelling" \in TaskStates /\ "cancelled" \in TaskStates
  BY DEF TaskStates, Alive, Over
<1>3. CASE RootCancelled(t)
  BY <1>1, <1>2, <1>3, AgentStepNests DEF RootCancelled
<1>4. CASE DeliveredToAgent(t)
  BY <1>1, <1>2, <1>4, AgentStepNests DEF DeliveredToAgent
<1>5. CASE SubagentEnds(t) \/ SubagentHangs(t)
  <2>1. PICK v \in TaskStates : task' = [task EXCEPT ![t] = v]
    BY <1>2, <1>5 DEF SubagentEnds, SubagentHangs
  <2>2. task[t] = "running" /\ Nested(t) = {}
    BY <1>5 DEF SubagentEnds, SubagentHangs, Idle
  <2> QED BY <1>1, <2>1, <2>2, AgentStepNests
<1> QED BY <1>3, <1>4, <1>5

\* The exception hits the frame of s: it goes on, and so does t.
LEMMA DeliveredNests ==
    ASSUME NInv, NEW t \in Tasks, NEW s \in Nested(t), task[t] = "cancelling",
           \/ DeliveredOutside(t, s) \/ DeliveredInTry(t, s)
           \/ DeliveredInHandler(t, s) \/ DeliveredToKilled(t, s)
    PROVE  Nests
<1>0. s \in Subagents /\ caller[s] = t /\ Busy(s)
  BY DEF Nested, AskedOf, Busy
<1>1. s \in Subagents /\ s \in Tasks /\ caller[s] = t /\ Busy(s) /\ t # s
  BY <1>0, BusyFacts DEF Tasks
<1>2. /\ task \in [Tasks -> TaskStates] /\ frame \in [Subagents -> Frames]
      /\ DOMAIN outcome = Subagents
  BY DEF NInv, IInv, TypeOK, TaskStates
<1>3. CASE DeliveredOutside(t, s)
  BY <1>1, <1>2, <1>3, FrameIsLeft DEF DeliveredOutside, origins
<1>4. CASE ~DeliveredOutside(t, s)
  <2>1. UNCHANGED <<caller, mode>>
    BY <1>4 DEF DeliveredInTry, DeliveredInHandler, DeliveredToKilled, origins
  <2>2. /\ task'[t] = "running"
        /\ \A x \in Tasks \ {t} : \/ task'[x] = task[x]
                                  \/ task[x] \in Alive /\ task'[x] = "cancelling"
    BY <1>1, <1>2, <1>4 DEF DeliveredInTry, DeliveredInHandler, DeliveredToKilled
  <2>3. \A x \in Subagents \ {s} : frame'[x] = frame[x] /\ outcome'[x] = outcome[x]
    BY <1>1, <1>2, <1>4 DEF DeliveredInTry, DeliveredInHandler, DeliveredToKilled
  <2>4. ASSUME NEW x \in Subagents, Busy(x)'
        PROVE  task'[caller[x]] \in {"running", "cancelling"}
    <3>1. Busy(x)
      BY <1>1, <2>1, <2>3, <2>4 DEF Busy
    <3>2. caller[x] \in Tasks /\ task[caller[x]] \in {"running", "cancelling"}
      BY <3>1, BusyFacts
    <3> QED BY <2>2, <3>2
  <2>5. FramesNest'
    <3>1. \A x \in Subagents :
              frame'[x] \notin {"none", "done"} => frame[x] \notin {"none", "done"}
      BY <1>1, <2>3 DEF Busy
    <3> QED BY <2>1, <2>4, <3>1, NestKept
  <2>6. OverIsOver /\ UnbegunStays
    BY <2>2 DEF OverIsOver, UnbegunStays, Over, Alive, Tasks
  <2>7. AnswerIsFinal
    BY <1>1, <2>3 DEF AnswerIsFinal, Busy
  <2> QED BY <2>5, <2>6, <2>7 DEF Nests
<1> QED BY <1>3, <1>4

\* Steps of the shared tool, of the tree, or of nobody.
LEMMA OthersNest ==
    ASSUME NInv, UNCHANGED <<caller, mode, frame, outcome, task>>
    PROVE  Nests
<1>1. FramesNest'
  BY DEF NInv, FramesNest, Nested, Fanned, AskedOf
<1> QED BY <1>1 DEF Nests, OverIsOver, UnbegunStays, AnswerIsFinal

LEMMA NestsStep ==
    ASSUME NInv, [Next]_vars
    PROVE  Nests
<1>1. ASSUME NEW t \in Tasks, NEW s \in Subagents, Delegates(t, s) \/ RunBackground(t, s)
      PROVE  Nests
  <2>1. {s} \in SUBSET Subagents
    OBVIOUS
  <2> QED BY <1>1, <2>1, DelegatesNests, AsksNests DEF RunBackground
<1>9. ASSUME NEW t \in Tasks, NEW S \in SUBSET Subagents, RunBatch(t, S) PROVE Nests
  BY <1>9, AsksNests DEF RunBatch
<1>2. ASSUME NEW t \in Tasks, DelegationRefused(t) PROVE Nests
  BY <1>2, OthersNest DEF DelegationRefused, origins
<1>3. ASSUME NEW t \in Tasks, Delivered(t) PROVE Nests
  BY <1>3, AgentsNest, DeliveredNests DEF Delivered
<1>4. ASSUME NEW s \in Subagents, FrameSteps(s) \/ StuckSeen(s) \/ TimesOut(s) PROVE Nests
  BY <1>4, FrameStepsNest, FrameEndsNests DEF FrameSteps
<1>5. ASSUME NEW s \in Subagents, SubagentEnds(s) \/ SubagentHangs(s) PROVE Nests
  BY <1>5, AgentsNest DEF Tasks
<1>6. ASSUME NEW s \in Subagents, TreeCancelled(s) PROVE Nests
  BY <1>6, OthersNest DEF TreeCancelled, origins
<1>7. ASSUME NEW r \in Roots, RootCancelled(r) PROVE Nests
  BY <1>7, AgentsNest DEF Tasks
<1>8. ASSUME UNCHANGED vars PROVE Nests
  BY <1>8, OthersNest DEF vars, origins
<1> QED BY <1>1, <1>2, <1>3, <1>4, <1>5, <1>6, <1>7, <1>8, <1>9 DEF Next

LEMMA NestInvariance == Spec => []NInv
<1>1. Init => NInv
  BY InitInv DEF NInv, Init, FramesNest, Nested, AskedOf
<1>2. NInv /\ [Next]_vars => NInv'
  BY StepInv, NestsStep DEF NInv, Nests
<1> QED BY <1>1, <1>2, PTL DEF Spec

\* Frames nest like calls: a task runs one at a time, waits for no batch
\* meanwhile and outlives it, wherever cancellations hit.
THEOREM DelegationFramesNest == Spec => []FramesNest
<1>1. NInv => FramesNest
  BY DEF NInv
<1> QED BY <1>1, NestInvariance, PTL

\* A task that is over, well or not, is never revived, nor ended otherwise by
\* the exception of a frame that it has left.
THEOREM DelegationTasksEndOnce == Spec => [][OverIsOver]_vars
<1>1. NInv /\ [Next]_vars => [OverIsOver]_vars
  BY NestsStep DEF Nests
<1> QED BY <1>1, NestInvariance, PTL DEF Spec

\* A delegation answers once: when it has, its answer stays as it is, whatever
\* its subagent, its caller and the tree do after.
THEOREM DelegationAnswersOnce == Spec => [][AnswerIsFinal]_vars
<1>1. NInv /\ [Next]_vars => [AnswerIsFinal]_vars
  BY NestsStep DEF Nests
<1> QED BY <1>1, NestInvariance, PTL DEF Spec

-----------------------------------------------------------------------------
(* Answers are true, and delegations run down *)

\* What a frame at f with outcome o may say of a subagent whose task is at v.
Tells(f, o, v) ==
    /\ f \in {"reporting", "finally", "done"} =>
           (o = "ok" => v = "ok") /\ (o = "failed" => v \in {"none", "failed", "cancelled"})
    /\ f = "evidence" => o = "ok" /\ v = "ok"
    /\ f = "killing" => o \in {"cancelled", "stuck"}

Truth(s) == Tells(frame[s], outcome[s], task[s])

TInv == NInv /\ \A s \in Subagents : Truth(s)

\* How far a frame is from its end: a report of a success or of a
\* subagent that hung may be turned into one of a cancellation, and that one is
\* given up when another cancellation hits it.
Dist(f, o) ==
    CASE f = "none"                 -> 10
      [] f = "creating"             -> 9
      [] f \in {"setup", "asked"}   -> 8
      [] f \in {"wait", "apart"}    -> 7
      [] f \in {"killing", "late"}  -> 6
      [] f = "reporting"            -> IF o \in {"ok", "stuck"} THEN 5 ELSE 3
      [] f = "evidence"             -> 4
      [] f = "finally"              -> 2
      [] f = "done"                 -> 1

Distance(s) == Dist(frame[s], outcome[s])

Unmoved(s) == frame'[s] = frame[s] /\ outcome'[s] = outcome[s]

\* The frame of s comes nearer to its end whenever it does anything.
Descends(s) == Unmoved(s) \/ Distance(s)' < Distance(s)

Proceeds == \A s \in Subagents : Descends(s) /\ Truth(s)'

LEMMA Distances ==
    /\ \A o : Dist("none", o) = 10 /\ Dist("creating", o) = 9 /\ Dist("setup", o) = 8
    /\ \A o : Dist("asked", o) = 8 /\ Dist("wait", o) = 7 /\ Dist("apart", o) = 7
    /\ \A o : Dist("killing", o) = 6 /\ Dist("late", o) = 6 /\ Dist("evidence", o) = 4
    /\ \A o : Dist("finally", o) = 2 /\ Dist("done", o) = 1
    /\ \A o \in {"ok", "stuck"} : Dist("reporting", o) = 5
    /\ \A o : o \in {"ok", "stuck"} \/ Dist("reporting", o) = 3
BY DEF Dist

\* A frame that does nothing has told the truth still: a task that is over, or
\* has not begun when its frame is set up, stays as it is.
LEMMA UnmovedKeeps ==
    ASSUME NEW s \in Subagents, Truth(s), OverIsOver, UnbegunStays, Unmoved(s)
    PROVE  Descends(s) /\ Truth(s)'
<1>1. Descends(s) /\ s \in Tasks
  BY DEF Descends, Tasks
<1>2. task[s] \in Over => task'[s] = task[s]
  BY <1>1 DEF OverIsOver
<1>3. frame[s] \in {"reporting", "finally", "done"} /\ task[s] = "none" => task'[s] = "none"
  BY DEF UnbegunStays
<1>4. Tells(frame[s], outcome[s], task'[s])
  BY <1>2, <1>3 DEF Truth, Tells, Over
<1> QED BY <1>1, <1>4 DEF Unmoved, Truth

\* One frame does something, and nobody else's.
LEMMA MovedKeeps ==
    ASSUME TInv, OverIsOver, UnbegunStays, NEW s \in Subagents, NEW f, NEW o,
           frame' = [frame EXCEPT ![s] = f], outcome' = [outcome EXCEPT ![s] = o],
           Dist(f, o) < Dist(frame[s], outcome[s]), Tells(f, o, task'[s])
    PROVE  Proceeds
<1>1. DOMAIN frame = Subagents /\ DOMAIN outcome = Subagents
  BY DEF TInv, NInv, IInv, TypeOK
<1>2. ASSUME NEW x \in Subagents, x # s PROVE Descends(x) /\ Truth(x)'
  BY <1>1, <1>2, UnmovedKeeps DEF Unmoved, TInv
<1>3. frame'[s] = f /\ outcome'[s] = o
  BY <1>1
<1>4. Descends(s) /\ Truth(s)'
  BY <1>3 DEF Descends, Distance, Truth
<1> QED BY <1>2, <1>4 DEF Proceeds

\* The steps of the frame itself.
LEMMA FrameStepsMove ==
    ASSUME TInv, OverIsOver, UnbegunStays, NEW s \in Subagents,
           FrameSteps(s) \/ StuckSeen(s) \/ TimesOut(s)
    PROVE  Proceeds
<1>0. /\ outcome = [outcome EXCEPT ![s] = outcome[s]]
      /\ Truth(s) /\ s \in Tasks
      /\ task[s] \in Over => task'[s] = task[s]
      /\ frame[s] \in {"setup", "asked"} => task[s] = "none"
  BY DEF TInv, NInv, IInv, TypeOK, Story, Links, Tasks, OverIsOver
<1> USE <1>0
<1>1. CASE SessionCreated(s)
  <2>1. frame[s] = "creating"
    BY <1>1 DEF SessionCreated
  <2>2. CASE frame' = [frame EXCEPT ![s] = "done"] /\ outcome' = [outcome EXCEPT ![s] = "budget"]
    <3>1. Dist("done", "budget") < Dist("creating", outcome[s])
          /\ Tells("done", "budget", task'[s])
      BY Distances DEF Tells
    <3> QED BY <2>1, <2>2, <3>1, MovedKeeps
  <2>3. CASE frame' = [frame EXCEPT ![s] = "setup"] /\ UNCHANGED outcome
    <3>1. Dist("setup", outcome[s]) < Dist("creating", outcome[s])
          /\ Tells("setup", outcome[s], task'[s])
      BY Distances DEF Tells
    <3> QED BY <2>1, <2>3, <3>1, MovedKeeps
  <2> QED BY <1>1, <2>2, <2>3 DEF SessionCreated
<1>2. CASE SetUp(s)
  <2>1. frame[s] = "setup" /\ task[s] = "none"
    BY <1>2 DEF SetUp
  <2>2. CASE frame' = [frame EXCEPT ![s] = "wait"] /\ UNCHANGED outcome
    <3>1. Dist("wait", outcome[s]) < Dist("setup", outcome[s])
          /\ Tells("wait", outcome[s], task'[s])
      BY Distances DEF Tells
    <3> QED BY <2>1, <2>2, <3>1, MovedKeeps
  <2>3. CASE /\ frame' = [frame EXCEPT ![s] = "reporting"]
             /\ outcome' = [outcome EXCEPT ![s] = "failed"] /\ UNCHANGED task
    <3>1. Dist("reporting", "failed") < Dist("setup", outcome[s])
          /\ Tells("reporting", "failed", task'[s])
      BY <2>1, <2>3, Distances DEF Tells
    <3> QED BY <2>1, <2>3, <3>1, MovedKeeps
  <2> QED BY <1>2, <2>2, <2>3 DEF SetUp
<1>3. CASE SubagentDone(s)
  <2>1. /\ frame[s] = "wait" /\ task'[s] = task[s]
        /\ frame' = [frame EXCEPT ![s] = "reporting"]
        /\ outcome' = [outcome EXCEPT ![s] = task[s]]
    BY <1>3 DEF SubagentDone
  <2>2. Dist("reporting", task[s]) < Dist("wait", outcome[s])
        /\ Tells("reporting", task[s], task'[s])
    BY <2>1, Distances DEF Tells
  <2> QED BY <2>1, <2>2, MovedKeeps
<1>4. CASE CancelSeen(s) \/ StuckSeen(s)
  <2>1. PICK why \in {"cancelled", "stuck"} : Kills(s, why)
    BY <1>4 DEF CancelSeen, StuckSeen
  <2>2. /\ frame[s] = "wait"
        /\ frame' = [frame EXCEPT ![s] = "killing"]
        /\ outcome' = [outcome EXCEPT ![s] = why]
    BY <2>1 DEF Kills
  <2>3. Dist("killing", why) < Dist("wait", outcome[s]) /\ Tells("killing", why, task'[s])
    BY Distances DEF Tells
  <2> QED BY <2>2, <2>3, MovedKeeps
<1>5. CASE SubagentKilled(s)
  <2>1. /\ frame[s] = "killing" /\ outcome' = [outcome EXCEPT ![s] = outcome[s]]
        /\ frame' = [frame EXCEPT ![s] = "reporting"]
        /\ outcome[s] \in {"cancelled", "stuck"}
    BY <1>5 DEF SubagentKilled, Truth, Tells
  <2>2. Dist("reporting", outcome[s]) < Dist("killing", outcome[s])
        /\ Tells("reporting", outcome[s], task'[s])
    BY <2>1, Distances DEF Tells
  <2> QED BY <2>1, <2>2, MovedKeeps
<1>6. CASE Reported(s)
  <2>1. /\ frame[s] = "reporting" /\ outcome' = [outcome EXCEPT ![s] = outcome[s]]
        /\ task' = task
    BY <1>6 DEF Reported
  <2>2. CASE outcome[s] = "ok" /\ frame' = [frame EXCEPT ![s] = "evidence"]
    <3>1. Dist("evidence", outcome[s]) < Dist("reporting", outcome[s])
          /\ Tells("evidence", outcome[s], task'[s])
      BY <2>1, <2>2, Distances DEF Tells, Truth
    <3> QED BY <2>1, <2>2, <3>1, MovedKeeps
  <2>3. CASE frame' = [frame EXCEPT ![s] = "finally"]
    <3>1. Dist("finally", outcome[s]) < Dist("reporting", outcome[s])
          /\ Tells("finally", outcome[s], task'[s])
      BY <2>1, Distances DEF Tells, Truth
    <3> QED BY <2>1, <2>3, <3>1, MovedKeeps
  <2> QED BY <1>6, <2>2, <2>3 DEF Reported
<1>7. CASE EvidenceCollected(s)
  <2>1. /\ frame[s] = "evidence" /\ frame' = [frame EXCEPT ![s] = "finally"]
        /\ outcome' = [outcome EXCEPT ![s] = outcome[s]] /\ task' = task
    BY <1>7 DEF EvidenceCollected
  <2>2. Dist("finally", outcome[s]) < Dist("evidence", outcome[s])
        /\ Tells("finally", outcome[s], task'[s])
    BY <2>1, Distances DEF Tells, Truth
  <2> QED BY <2>1, <2>2, MovedKeeps
<1>8. CASE FrameEnds(s)
  <2>1. /\ frame[s] = "finally" /\ frame' = [frame EXCEPT ![s] = "done"]
        /\ outcome' = [outcome EXCEPT ![s] = outcome[s]]
        /\ task[s] = "none" => task'[s] = "none"
    BY <1>8 DEF FrameEnds, UnbegunStays
  <2>2. Dist("done", outcome[s]) < Dist("finally", outcome[s])
        /\ Tells("done", outcome[s], task'[s])
    BY <2>1, Distances DEF Tells, Truth, Over
  <2> QED BY <2>1, <2>2, MovedKeeps
<1>9. CASE BesideStarts(s)
  <2>1. frame[s] = "asked" /\ task[s] = "none"
    BY <1>9 DEF BesideStarts
  <2>2. CASE frame' = [frame EXCEPT ![s] = "apart"] /\ UNCHANGED outcome
    <3>1. Dist("apart", outcome[s]) < Dist("asked", outcome[s])
          /\ Tells("apart", outcome[s], task'[s])
      BY Distances DEF Tells
    <3> QED BY <2>1, <2>2, <3>1, MovedKeeps
  <2>3. CASE /\ frame' = [frame EXCEPT ![s] = "done"]
             /\ outcome' = [outcome EXCEPT ![s] = "failed"] /\ UNCHANGED task
    <3>1. Dist("done", "failed") < Dist("asked", outcome[s])
          /\ Tells("done", "failed", task'[s])
      BY <2>1, <2>3, Distances DEF Tells
    <3> QED BY <2>1, <2>3, <3>1, MovedKeeps
  <2> QED BY <1>9, <2>2, <2>3 DEF BesideStarts
<1>10. CASE TimesOut(s)
  <2>1. /\ frame[s] = "apart" /\ frame' = [frame EXCEPT ![s] = "late"] /\ outcome' = outcome
    BY <1>10 DEF TimesOut
  <2>2. Dist("late", outcome[s]) < Dist("apart", outcome[s])
        /\ Tells("late", outcome[s], task'[s])
    BY Distances DEF Tells
  <2> QED BY <2>1, <2>2, MovedKeeps
<1>11. CASE BesideEnds(s)
  <2> DEFINE o == IF task[s] = "cancelled" THEN "failed" ELSE task[s]
  <2>1. /\ frame[s] \in {"apart", "late"} /\ task[s] \in Over /\ task' = task
        /\ frame' = [frame EXCEPT ![s] = "done"]
        /\ outcome' = [outcome EXCEPT ![s] = o]
    BY <1>11 DEF BesideEnds
  <2>2. Tells("done", o, task'[s])
    BY <2>1 DEF Tells, Over
  <2> HIDE DEF o
  <2>3. Dist("done", o) < Dist(frame[s], outcome[s])
    BY <2>1, Distances
  <2> QED BY <2>1, <2>2, <2>3, MovedKeeps
<1> QED BY <1>1, <1>2, <1>3, <1>4, <1>5, <1>6, <1>7, <1>8, <1>9, <1>10, <1>11 DEF FrameSteps

LEMMA DeliveredMoves ==
    ASSUME TInv, OverIsOver, UnbegunStays, NEW t \in Tasks, Delivered(t)
    PROVE  Proceeds
<1>1. CASE UNCHANGED <<frame, outcome>>
  BY <1>1, UnmovedKeeps DEF Unmoved, TInv, Proceeds
<1>2. ASSUME NEW s \in Nested(t),
             DeliveredOutside(t, s) \/ DeliveredInTry(t, s) \/ DeliveredInHandler(t, s)
      PROVE  Proceeds
  <2>0. s \in Subagents
    BY DEF Nested, AskedOf
  <2> USE <2>0
  <2>1. CASE DeliveredOutside(t, s)
    <3>1. /\ frame[s] \in {"creating", "finally"} /\ frame' = [frame EXCEPT ![s] = "done"]
          /\ outcome' = [outcome EXCEPT ![s] = "raised"]
      BY <2>1 DEF DeliveredOutside
    <3>2. Dist("done", "raised") < Dist(frame[s], outcome[s]) /\ Tells("done", "raised", task'[s])
      BY <3>1, Distances DEF Tells
    <3> QED BY <3>1, <3>2, MovedKeeps
  <2>2. CASE DeliveredInTry(t, s)
    <3>1. /\ frame' = [frame EXCEPT ![s] = "reporting"]
          /\ outcome' = [outcome EXCEPT ![s] = "cancelled"]
          /\ \/ frame[s] \in {"setup", "wait", "evidence"}
             \/ frame[s] = "reporting" /\ outcome[s] \in {"ok", "stuck"}
      BY <2>2 DEF DeliveredInTry
    <3>2. Dist("reporting", "cancelled") < Dist(frame[s], outcome[s])
          /\ Tells("reporting", "cancelled", task'[s])
      BY <3>1, Distances DEF Tells
    <3> QED BY <3>1, <3>2, MovedKeeps
  <2>3. CASE DeliveredInHandler(t, s)
    <3>1. /\ frame[s] = "reporting" /\ outcome[s] \in {"failed", "cancelled"}
          /\ frame' = [frame EXCEPT ![s] = "finally"]
          /\ outcome' = [outcome EXCEPT ![s] = "raised"]
      BY <2>3 DEF DeliveredInHandler
    <3>2. Dist("finally", "raised") < Dist(frame[s], outcome[s])
          /\ Tells("finally", "raised", task'[s])
      BY <3>1, Distances DEF Tells
    <3> QED BY <3>1, <3>2, MovedKeeps
  <2> QED BY <1>2, <2>1, <2>2, <2>3
<1> QED BY <1>1, <1>2 DEF Delivered, DeliveredToAgent, DeliveredToKilled

LEMMA StartsMove ==
    ASSUME TInv, OverIsOver, UnbegunStays, NEW t \in Tasks,
           \/ \E s \in Subagents : Delegates(t, s)
           \/ \E S \in SUBSET Subagents, how \in {"batch", "background"} : Asks(t, S, how)
    PROVE  Proceeds
<1>0. DOMAIN frame = Subagents /\ DOMAIN outcome = Subagents
  BY DEF TInv, NInv, IInv, TypeOK
<1>1. PICK S \in SUBSET Subagents, f \in {"creating", "asked"} :
          /\ \A s \in S : frame[s] = "none" /\ frame'[s] = f /\ outcome'[s] = outcome[s]
          /\ \A s \in Subagents \ S : Unmoved(s)
  <2>1. ASSUME NEW s \in Subagents, Delegates(t, s)
        PROVE  /\ {s} \in SUBSET Subagents
               /\ \A x \in {s} : frame[x] = "none" /\ frame'[x] = "creating" /\ outcome'[x] = outcome[x]
               /\ \A x \in Subagents \ {s} : Unmoved(x)
    BY <1>0, <2>1 DEF Delegates, Unmoved
  <2>2. ASSUME NEW S \in SUBSET Subagents, NEW how, Asks(t, S, how)
        PROVE  /\ \A s \in S : frame[s] = "none" /\ frame'[s] = "asked" /\ outcome'[s] = outcome[s]
               /\ \A s \in Subagents \ S : Unmoved(s)
    BY <2>2 DEF Asks, Unmoved
  <2> QED BY <2>1, <2>2
<1>2. ASSUME NEW s \in S PROVE Descends(s) /\ Truth(s)'
  <2>1. /\ Dist(f, outcome[s]) < Dist("none", outcome[s])
        /\ Tells(f, outcome[s], task'[s])
    BY Distances DEF Tells
  <2> QED BY <1>1, <2>1 DEF Descends, Distance, Truth
<1>3. ASSUME NEW s \in Subagents \ S PROVE Descends(s) /\ Truth(s)'
  BY <1>1, UnmovedKeeps DEF TInv
<1> QED BY <1>2, <1>3 DEF Proceeds

LEMMA ProceedsStep ==
    ASSUME TInv, [Next]_vars
    PROVE  Proceeds
<1>0. OverIsOver /\ UnbegunStays
  BY NestsStep DEF Nests, TInv
<1>1. ASSUME NEW t \in Tasks, NEW s \in Subagents, Delegates(t, s) \/ RunBackground(t, s)
      PROVE  Proceeds
  <2>1. {s} \in SUBSET Subagents
    OBVIOUS
  <2> QED BY <1>0, <1>1, <2>1, StartsMove DEF RunBackground
<1>2. ASSUME NEW t \in Tasks, NEW S \in SUBSET Subagents, RunBatch(t, S) PROVE Proceeds
  BY <1>0, <1>2, StartsMove DEF RunBatch
<1>3. ASSUME UNCHANGED <<frame, outcome>> PROVE Proceeds
  BY <1>0, <1>3, UnmovedKeeps DEF Unmoved, TInv, Proceeds
<1>4. ASSUME NEW t \in Tasks, DelegationRefused(t)
      PROVE  UNCHANGED <<frame, outcome>>
  BY <1>4 DEF DelegationRefused
<1>5. ASSUME NEW s \in Subagents, SubagentEnds(s) \/ SubagentHangs(s) \/ TreeCancelled(s)
      PROVE  UNCHANGED <<frame, outcome>>
  BY <1>5 DEF SubagentEnds, SubagentHangs, TreeCancelled
<1>6. ASSUME NEW r \in Roots, RootCancelled(r)
      PROVE  UNCHANGED <<frame, outcome>>
  BY <1>6 DEF RootCancelled
<1>7. ASSUME UNCHANGED vars PROVE UNCHANGED <<frame, outcome>>
  BY <1>7 DEF vars
<1>8. ASSUME NEW s \in Subagents, FrameSteps(s) \/ StuckSeen(s) \/ TimesOut(s) PROVE Proceeds
  BY <1>0, <1>8, FrameStepsMove
<1>9. ASSUME NEW t \in Tasks, Delivered(t) PROVE Proceeds
  BY <1>0, <1>9, DeliveredMoves
<1> QED BY <1>1, <1>2, <1>3, <1>4, <1>5, <1>6, <1>7, <1>8, <1>9 DEF Next

LEMMA TruthInvariance == Spec => []TInv
<1>1. Init => TInv
  <2>1. Init => NInv
    BY InitInv DEF NInv, Init, FramesNest, Nested, AskedOf
  <2> QED BY <2>1 DEF TInv, Init, Truth, Tells
<1>2. TInv /\ [Next]_vars => TInv'
  <2> SUFFICES ASSUME TInv, [Next]_vars PROVE TInv'
    OBVIOUS
  <2>1. NInv'
    BY StepInv, NestsStep DEF TInv, NInv, Nests
  <2> QED BY <2>1, ProceedsStep DEF TInv, Proceeds
<1> QED BY <1>1, <1>2, PTL DEF Spec

\* Who is told that a subagent succeeded or failed is told how it ended, and
\* this stays so: no step of a task that is over, or that has never begun when
\* its frame reports, makes the answer wrong.
THEOREM DelegationAnswerIsTrue == Spec => []AnswerIsTrue
<1>1. TInv => AnswerIsTrue
  BY DEF TInv, Truth, Tells, AnswerIsTrue
<1> QED BY <1>1, TruthInvariance, PTL

\* No frame goes round in its handlers: it does at most nine things, cancellations
\* that hit it included, and each brings it nearer to its end.
THEOREM DelegationFramesDescend == Spec => [][\A s \in Subagents : Descends(s)]_vars
<1>1. TInv /\ [Next]_vars => [\A s \in Subagents : Descends(s)]_vars
  BY ProceedsStep DEF Proceeds
<1> QED BY <1>1, TruthInvariance, PTL DEF Spec
=============================================================================
