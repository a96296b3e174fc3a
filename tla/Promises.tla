------------------------------ MODULE Promises ------------------------------
(***************************************************************************)
(* What spawning promises, without queues, timers, rows or waiting.  The   *)
(* verdict on a subagent is settled once.  Anybody may collect that on a   *)
(* background subagent, any number of times.  A batch belongs to its       *)
(* caller, which takes each of its tasks once, as they are settled, and    *)
(* goes on when it has them all; a subagent that ends, an agent that is    *)
(* cancelled leaves its batch, and a crash loses everything that is under  *)
(* way.  Spawning implements this module.                                  *)
(***************************************************************************)
EXTENDS Sequences

CONSTANTS Agents, Subagents

Callers == Agents \cup Subagents

VARIABLES
    verdict,  \* subagent -> "none", "pending", "ok", "error", or "lost" in a crash
    open,     \* the background subagents, whose verdicts anybody may collect
    asked,    \* caller -> the tasks of its batch, {} without one
    taken,    \* caller -> the tasks of the batch it has the verdicts of, in their order
    got       \* caller -> subagent -> what it has been told of it, or "none"

vars == <<verdict, open, asked, taken, got>>

Elements(q) == {q[i] : i \in DOMAIN q}
Settled(s) == verdict[s] \in {"ok", "error"}
NoAnswer == [s \in Subagents |-> "none"]

\* A caller that may still do something.
Active(c) == c \in Subagents => verdict[c] = "pending"

Init ==
    /\ verdict = NoAnswer
    /\ open = {}
    /\ asked = [c \in Callers |-> {}]
    /\ taken = [c \in Callers |-> <<>>]
    /\ got = [c \in Callers |-> NoAnswer]

\* A caller without a batch spawns a background subagent.
Background(s) ==
    /\ verdict[s] = "none"
    /\ \E c \in Callers : Active(c) /\ asked[c] = {} /\ got' = [got EXCEPT ![c] = NoAnswer]
    /\ verdict' = [verdict EXCEPT ![s] = "pending"]
    /\ open' = open \cup {s}
    /\ UNCHANGED <<asked, taken>>

\* It asks for a batch of subagents, all of them new.
Ask(c, S) ==
    /\ Active(c) /\ asked[c] = {}
    /\ S # {} /\ \A s \in S : verdict[s] = "none"
    /\ verdict' = [s \in Subagents |-> IF s \in S THEN "pending" ELSE verdict[s]]
    /\ asked' = [asked EXCEPT ![c] = S]
    /\ got' = [got EXCEPT ![c] = NoAnswer]
    /\ UNCHANGED <<open, taken>>

\* It has nothing asked, nothing taken and nothing collected any more.
Leaves(c) ==
    /\ asked' = [asked EXCEPT ![c] = {}]
    /\ taken' = [taken EXCEPT ![c] = <<>>]
    /\ got' = [got EXCEPT ![c] = NoAnswer]

Settle(s) ==
    /\ verdict[s] = "pending"
    /\ \E v \in {"ok", "error"} : verdict' = [verdict EXCEPT ![s] = v]
    /\ Leaves(s)
    /\ UNCHANGED open

Take(c) ==
    /\ Active(c)
    /\ \E s \in asked[c] : /\ Settled(s) /\ s \notin Elements(taken[c])
                           /\ taken' = [taken EXCEPT ![c] = Append(@, s)]
    /\ UNCHANGED <<verdict, open, asked, got>>

\* The batch is complete, or an agent is cancelled.
Return(c) ==
    /\ Active(c)
    /\ c \in Agents \/ (asked[c] # {} /\ Elements(taken[c]) = asked[c])
    /\ Leaves(c)
    /\ UNCHANGED <<verdict, open>>

\* It is told of some of the successes there are, and that others have failed:
\* that they have, that nobody knows them, or that there is no time to wait for
\* them.  Of which a failure is said, it cannot know.
Collect(c) ==
    /\ Active(c) /\ asked[c] = {}
    /\ \E told \in [Subagents -> {"none", "ok", "error"}] :
           /\ \A s \in Subagents : told[s] = "ok" => s \in open /\ verdict[s] = "ok"
           /\ got' = [got EXCEPT ![c] = told]
    /\ UNCHANGED <<verdict, open, asked, taken>>

Crash ==
    /\ verdict' = [s \in Subagents |-> IF verdict[s] = "none" THEN "none" ELSE "lost"]
    /\ open' = {}
    /\ asked' = [c \in Callers |-> {}]
    /\ taken' = [c \in Callers |-> <<>>]
    /\ got' = [c \in Callers |-> NoAnswer]

Next ==
    \/ \E s \in Subagents : Background(s) \/ Settle(s)
    \/ \E c \in Callers : \/ \E S \in SUBSET Subagents : Ask(c, S)
                          \/ Take(c) \/ Return(c) \/ Collect(c)
    \/ Crash

Spec == Init /\ [][Next]_vars

-----------------------------------------------------------------------------
\* Each task has one owner: no two batches share a task, and nobody can collect
\* what belongs to a batch.
TasksAreOwned ==
    /\ \A c, d \in Callers : c # d => asked[c] \cap asked[d] = {}
    /\ \A c \in Callers : asked[c] \cap open = {}

\* What has been taken was asked for, is settled, and was taken once.
TakenOnce ==
    \A c \in Callers :
        /\ \A s \in Elements(taken[c]) : s \in asked[c] /\ Settled(s)
        /\ \A i, j \in DOMAIN taken[c] : taken[c][i] = taken[c][j] => i = j

\* Who is told of a success is told of one that there is, and that anybody may
\* be told of.
GotIsVerdict ==
    \A c \in Callers, s \in Subagents :
        got[c][s] = "ok" => s \in open /\ verdict[s] = "ok"

\* A verdict is never revised; only a crash takes it away.
SettledOnce == [][\A s \in Subagents : Settled(s) => verdict'[s] \in {verdict[s], "lost"}]_vars

\* A subagent that goes on after its batch has each of its tasks.
ReturnsAll ==
    [][\A c \in Subagents :
           asked[c] # {} /\ asked'[c] = {} /\ verdict'[c] = "pending"
               => Elements(taken[c]) = asked[c]]_vars
=============================================================================
