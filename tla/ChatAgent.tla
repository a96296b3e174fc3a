------------------------------ MODULE ChatAgent ------------------------------
(* The agent behind the chat (harness/agent/agent.py, run_stream).  There is *)
(* one Agent object for all chats: its message list, its budget of rounds    *)
(* and its detector of loops are attributes of that object, and the requests *)
(* that are being answered interleave wherever they await something.         *)
EXTENDS Naturals, FiniteSets, Sequences

CONSTANTS
    Chats,       \* requests that may be answered at the same time
    Tools,
    Code,        \* the tool execute_code
    Plans,       \* tool calls the model may ask for at once
    MaxRounds,   \* max_tool_rounds
    MaxAttempts, \* 1 + tool_max_retries
    HardLimit,   \* _REPEATING_HARD
    Window       \* _REPEATING_WINDOW

ASSUME ChatAssumption ==
    /\ Plans \subseteq Seq(Tools) \ {<<>>}
    /\ {MaxRounds, MaxAttempts, HardLimit, Window} \subseteq Nat \ {0}
    /\ MaxRounds <= Window

VARIABLES
    at,       \* chat -> where its run_stream() is
    round,    \* chat -> round_num
    plan,     \* chat -> the tool calls of its round
    done,     \* chat -> how many of them have a result
    tries,    \* chat -> attempts at the next one
    messages, \* _messages: one list for all, without its order
    used,     \* iteration_budget._used
    history,  \* _rh_history of the loop detector
    shared    \* history variable: chats not alone on the agent since they started

local == <<round, plan, done, tries>>
agent == <<used, history>>
vars == <<at, local, messages, agent, shared>>

\* context: reading the store; resume: looking for a checkpoint; strip:
\* RoundStarted is emitted; send: LLMCallStarted is; call: before the next tool; asking: in await_approval;
\* answered: an answer is there and has not woken it yet.
Places == {"idle", "context", "resume", "round", "strip", "send", "llm",
           "call", "asking", "answered", "running"}

Question(c) == [by |-> c, kind |-> "question"]
CallsMessage(c, r, p) == [by |-> c, kind |-> "calls", round |-> r, plan |-> p]
ResultMessage(c, r, p, i) == [by |-> c, kind |-> "result", round |-> r, plan |-> p, call |-> i]

Add(m) == messages' = messages \cup {m}

Init ==
    /\ at = [c \in Chats |-> "idle"]
    /\ round = [c \in Chats |-> 0]
    /\ plan = [c \in Chats |-> <<>>]
    /\ done = [c \in Chats |-> 0]
    /\ tries = [c \in Chats |-> 0]
    /\ messages = {}
    /\ used = 0
    /\ history = <<>>
    /\ shared = {}

Goes(c, from, to) == at[c] = from /\ at' = [at EXCEPT ![c] = to]

Answering == {c \in Chats : at[c] # "idle"}

-----------------------------------------------------------------------------
(* A request begins and ends *)

\* _init_messages: the run gets a new list.
Starts(c) ==
    /\ Goes(c, "idle", "context")
    /\ messages' = {}
    /\ shared' = IF Answering = {} THEN {} ELSE shared \cup Answering \cup {c}
    /\ UNCHANGED <<local, agent>>

\* The question goes to the list there is by now.
Questions(c) ==
    /\ Goes(c, "context", "resume")
    /\ Add(Question(c))
    /\ UNCHANGED <<local, agent, shared>>

KeepsBudgetBug(c) ==
    /\ Goes(c, "resume", "round")
    /\ UNCHANGED <<local, messages, agent, shared>>

\* There is no checkpoint to resume.  The budget is reset, for everybody.
Begins(c) ==
    /\ Goes(c, "resume", "round")
    /\ used' = 0
    /\ UNCHANGED <<local, messages, history, shared>>

Over(c) ==
    /\ at' = [at EXCEPT ![c] = "idle"]
    /\ plan' = [plan EXCEPT ![c] = <<>>]
    /\ done' = [done EXCEPT ![c] = 0]
    /\ tries' = [tries EXCEPT ![c] = 0]
    /\ round' = [round EXCEPT ![c] = 0]
    /\ shared' = shared \ {c}

\* The client goes away, or max_run_seconds have passed: the request is dropped
\* where it is.  asyncio.wait_for prefers an answer it has to a cancellation,
\* which is lost then.
Cancelled(c) ==
    /\ at[c] \notin {"idle", "answered"}
    /\ Over(c)
    /\ UNCHANGED <<messages, agent>>

-----------------------------------------------------------------------------
(* A round: asking the model *)

IgnoresBudgetBug(c) ==
    /\ round[c] < MaxRounds
    /\ Goes(c, "round", "strip")
    /\ used' = used + 1
    /\ UNCHANGED <<local, messages, history, shared>>

RoundStarts(c) ==
    /\ round[c] < MaxRounds /\ used < MaxRounds
    /\ Goes(c, "round", "strip")
    /\ used' = used + 1
    /\ UNCHANGED <<local, messages, history, shared>>

\* No round or no budget is left.
RoundsAreOver(c) ==
    /\ at[c] = "round" /\ (round[c] = MaxRounds \/ used = MaxRounds)
    /\ Over(c)
    /\ UNCHANGED <<messages, agent>>

\* _strip_orphan_tool_calls: calls without all of their results are left out.
Answered(m, among) ==
    \A i \in DOMAIN m.plan : ResultMessage(m.by, m.round, m.plan, i) \in among

Strips(c) ==
    /\ Goes(c, "strip", "send")
    /\ messages' = {m \in messages : m.kind = "calls" => Answered(m, messages)}
    /\ UNCHANGED <<local, agent, shared>>

\* The list is too long, and micro_compact raises: it takes messages for dicts.
TooLong(c) ==
    /\ at[c] = "strip"
    /\ Over(c)
    /\ UNCHANGED <<messages, agent>>

Sends(c) ==
    /\ Goes(c, "send", "llm")
    /\ UNCHANGED <<local, messages, agent, shared>>

\* The model answers without tool calls, or the call fails: the run ends.  After
\* an answer that the prompt is too long reactive_compact raises as well.
ModelConcludes(c) ==
    /\ at[c] = "llm"
    /\ Over(c)
    /\ UNCHANGED <<messages, agent>>

Latest(h) == SubSeq(h, Len(h) - (IF Len(h) > Window THEN Window ELSE Len(h)) + 1, Len(h))

Repeats(p, h) == Cardinality({i \in DOMAIN h : h[i] = p})

CountsLateBug(c, p) ==
    /\ at[c] = "llm"
    /\ Add(CallsMessage(c, round[c], p))
    /\ history' = Latest(Append(history, p))
    /\ \/ /\ Repeats(p, history) < HardLimit
          /\ at' = [at EXCEPT ![c] = "call"]
          /\ plan' = [plan EXCEPT ![c] = p]
          /\ done' = [done EXCEPT ![c] = 0]
          /\ tries' = [tries EXCEPT ![c] = 1]
          /\ UNCHANGED <<round, shared>>
       \/ Over(c)
    /\ UNCHANGED used

\* The model asks for tools.  The loop detector stops the run when it has seen
\* the same calls too often; its other patterns may stop it at any time.
ModelCalls(c, p) ==
    /\ at[c] = "llm"
    /\ Add(CallsMessage(c, round[c], p))
    /\ history' = Latest(Append(history, p))
    /\ \/ /\ Repeats(p, history') < HardLimit
          /\ at' = [at EXCEPT ![c] = "call"]
          /\ plan' = [plan EXCEPT ![c] = p]
          /\ done' = [done EXCEPT ![c] = 0]
          /\ tries' = [tries EXCEPT ![c] = 1]
          /\ UNCHANGED <<round, shared>>
       \/ Over(c)
    /\ UNCHANGED used

-----------------------------------------------------------------------------
(* A round: running the tools, one after the other *)

\* Rounds of several execute_code calls are not counted.
Refunds(p) == Len(p) > 1 /\ \A i \in DOMAIN p : p[i] = Code

\* The next tool has a result: of the tool, or that it is blocked or denied.
ResultAdded(c) ==
    /\ Add(ResultMessage(c, round[c], plan[c], done[c] + 1))
    /\ IF done[c] + 1 = Len(plan[c])
       THEN /\ at' = [at EXCEPT ![c] = "round"]
            /\ round' = [round EXCEPT ![c] = @ + 1]
            /\ plan' = [plan EXCEPT ![c] = <<>>]
            /\ done' = [done EXCEPT ![c] = 0]
            /\ tries' = [tries EXCEPT ![c] = 0]
            /\ used' = IF Refunds(plan[c]) /\ used > 0 THEN used - 1 ELSE used
       ELSE /\ at' = [at EXCEPT ![c] = "call"]
            /\ done' = [done EXCEPT ![c] = @ + 1]
            /\ tries' = [tries EXCEPT ![c] = 1]
            /\ UNCHANGED <<round, plan, used>>
    /\ UNCHANGED <<history, shared>>

BlockedUnansweredBug(c) ==
    /\ at[c] = "call" /\ tries[c] = 1
    /\ at' = [at EXCEPT ![c] = "round"]
    /\ round' = [round EXCEPT ![c] = @ + 1]
    /\ UNCHANGED <<plan, done, tries, messages, agent, shared>>

\* A hook blocks the tool, before the first attempt.
Blocked(c) == at[c] = "call" /\ tries[c] = 1 /\ ResultAdded(c)

Allowed(c) ==
    /\ Goes(c, "call", "running")
    /\ UNCHANGED <<local, messages, agent, shared>>

Asks(c) ==
    /\ Goes(c, "call", "asking")
    /\ UNCHANGED <<local, messages, agent, shared>>

\* resolve_approval.  Until the run wakes up the verdict may change again.
Resolved(c) ==
    /\ Goes(c, "asking", "answered")
    /\ UNCHANGED <<local, messages, agent, shared>>

Granted(c) ==
    /\ Goes(c, "answered", "running")
    /\ UNCHANGED <<local, messages, agent, shared>>

\* Refused, or not approved in time: an answer that comes with the timeout is
\* accepted and ignored.
Refused(c) == at[c] \in {"asking", "answered"} /\ ResultAdded(c)

UncountedRetryBug(c) ==
    /\ Goes(c, "running", "call")
    /\ UNCHANGED <<local, messages, agent, shared>>

\* The tool, or the policy, reports an error: the whole call is tried again.
Retries(c) ==
    /\ tries[c] < MaxAttempts
    /\ Goes(c, "running", "call")
    /\ tries' = [tries EXCEPT ![c] = @ + 1]
    /\ UNCHANGED <<round, plan, done, messages, agent, shared>>

ToolReturns(c) == at[c] = "running" /\ ResultAdded(c)

-----------------------------------------------------------------------------

Advances(c) ==
    \/ Questions(c) \/ Begins(c) \/ RoundStarts(c) \/ RoundsAreOver(c)
    \/ Strips(c) \/ TooLong(c) \/ Sends(c)
    \/ Blocked(c) \/ Allowed(c) \/ Asks(c) \/ Granted(c) \/ Refused(c)

ToolEnds(c) == Retries(c) \/ ToolReturns(c)

Next ==
    \E c \in Chats :
        \/ Starts(c) \/ Cancelled(c) \/ Advances(c)
        \/ ToolEnds(c) \/ Resolved(c)
        \/ ModelConcludes(c) \/ \E p \in Plans : ModelCalls(c, p)

Spec == Init /\ [][Next]_vars

\* The event loop runs what is ready, and the timers of approvals fire.  The
\* model and the tools may hang, nobody need approve anything, and nobody need
\* cancel a request: the timeout of a request may be lost.
Fairness == \A c \in Chats : WF_vars(Advances(c))

FairSpec == Spec /\ Fairness

-----------------------------------------------------------------------------
(* Properties *)

Messages ==
    [by : Chats, kind : {"question"}]
        \cup [by : Chats, kind : {"calls"}, round : Nat, plan : Plans]
        \cup [by : Chats, kind : {"result"}, round : Nat, plan : Plans, call : Nat]

TypeOK ==
    /\ at \in [Chats -> Places]
    /\ round \in [Chats -> 0..MaxRounds]
    /\ plan \in [Chats -> Plans \cup {<<>>}]
    /\ done \in [Chats -> Nat]
    /\ \A c \in Chats : done[c] # 0 => done[c] < Len(plan[c])
    /\ tries \in [Chats -> 0..MaxAttempts]
    /\ messages \subseteq Messages
    /\ used \in 0..MaxRounds
    /\ history \in Seq(Plans) /\ Len(history) <= Window
    /\ shared \subseteq Chats

\* What a chat that has the agent to itself sends to the model is its own
\* conversation, the question included, and complete: a result for every tool
\* call, whatever became of the tool, and a call for every result.
PromptIsWhole ==
    \A c \in Chats \ shared :
        at[c] = "send" =>
            /\ Question(c) \in messages
            /\ \A m \in messages : m.by = c
            /\ \A m \in messages : m.kind = "calls" => Answered(m, messages)
            /\ \A m \in messages : m.kind = "result" =>
                   CallsMessage(c, m.round, m.plan) \in messages
            /\ \A r \in 0..(round[c] - 1) :
                   \E m \in messages : m.kind = "calls" /\ m.round = r

\* A chat that has the agent to itself never gets the same calls executed
\* HardLimit times: the detector's window is not shorter than a run.
LoopIsCut ==
    \A c \in Chats \ shared : at[c] # "idle" => \A p \in Plans :
        Cardinality({m \in messages : m.kind = "calls" /\ m.by = c /\ m.plan = p}) < HardLimit

\* The budget does not take a round from a chat that has the agent to itself:
\* it ends a run no earlier than max_tool_rounds does.
RoundsAreGranted ==
    \A c \in Chats \ shared : at[c] \notin {"idle", "context", "resume"} => used <= round[c] + 1
        /\ (at[c] = "round" => used <= round[c])

\* A request ends, whoever else uses the agent: its rounds, its attempts and its
\* approvals are limited.  Only a call that hangs keeps it, of the model or of a
\* tool, should the timeout of the request not come or be lost.
ChatsEnd ==
    \A c \in Chats :
        [](at[c] # "idle" => <>(at[c] = "idle") \/ <>[](at[c] \in {"llm", "running"}))

-----------------------------------------------------------------------------
(* What the documentation says and the code does not do *)

\* The model is sent nothing of another chat.
ChatsAreIsolated ==
    \A c \in Chats : at[c] = "send" => \A m \in messages : m.by = c
=============================================================================
