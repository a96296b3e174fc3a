--------------------------- MODULE PromisesProofs ---------------------------
(* What Promises promises holds for any agents and subagents. *)
EXTENDS Promises, Naturals, TLAPS

\* An agent that nobody spawned is not a subagent.
Distinct == Agents \cap Subagents = {}

Types ==
    /\ verdict \in [Subagents -> {"none", "pending", "ok", "error", "lost"}]
    /\ open \in SUBSET Subagents
    /\ asked \in [Callers -> SUBSET Subagents]
    /\ taken \in [Callers -> Seq(Subagents)]
    /\ got \in [Callers -> [Subagents -> {"none", "ok", "error"}]]

\* Only what has been spawned is asked for or may be collected.
Spawned ==
    /\ \A s \in open : verdict[s] # "none"
    /\ \A c \in Callers : \A s \in asked[c] : verdict[s] # "none"

IInv == Types /\ Spawned /\ TasksAreOwned /\ TakenOnce /\ GotIsVerdict

-----------------------------------------------------------------------------
(* Sequences without duplicates *)

LEMMA ElementsOfAppend ==
    ASSUME NEW q \in Seq(Subagents), NEW s \in Subagents
    PROVE  Elements(Append(q, s)) = Elements(q) \cup {s}
<1>1. DOMAIN q = 1..Len(q) /\ Len(q) \in Nat
  OBVIOUS
<1>2. DOMAIN Append(q, s) = 1..(Len(q) + 1)
  OBVIOUS
<1>3. /\ \A i \in 1..Len(q) : Append(q, s)[i] = q[i]
      /\ Append(q, s)[Len(q) + 1] = s
  OBVIOUS
<1> QED BY <1>1, <1>2, <1>3 DEF Elements

LEMMA AppendNew ==
    ASSUME NEW q \in Seq(Subagents), NEW s \in Subagents, s \notin Elements(q),
           \A i, j \in DOMAIN q : q[i] = q[j] => i = j
    PROVE  \A i, j \in DOMAIN Append(q, s) : Append(q, s)[i] = Append(q, s)[j] => i = j
<1>1. DOMAIN q = 1..Len(q) /\ Len(q) \in Nat
  OBVIOUS
<1>2. DOMAIN Append(q, s) = 1..(Len(q) + 1)
  OBVIOUS
<1>3. /\ \A i \in 1..Len(q) : Append(q, s)[i] = q[i] /\ q[i] # s
      /\ Append(q, s)[Len(q) + 1] = s
  BY <1>1 DEF Elements
<1> QED BY <1>1, <1>2, <1>3

-----------------------------------------------------------------------------
(* The inductive step *)

LEMMA InitInv == Init => IInv
<1> SUFFICES ASSUME Init PROVE IInv
  OBVIOUS
<1>1. <<>> \in Seq(Subagents) /\ Elements(<<>>) = {}
  BY DEF Elements
<1>2. Types /\ Spawned /\ TasksAreOwned /\ GotIsVerdict
  BY <1>1 DEF Init, Types, Spawned, TasksAreOwned, GotIsVerdict, NoAnswer
<1>3. TakenOnce
  BY <1>1 DEF Init, TakenOnce
<1> QED BY <1>2, <1>3 DEF IInv

LEMMA BackgroundInv ==
    ASSUME IInv, NEW s \in Subagents, Background(s)
    PROVE  IInv'
<1>1. Types'
  BY DEF Background, IInv, Types, NoAnswer
<1>2. Spawned' /\ TasksAreOwned'
  BY DEF Background, IInv, Types, Spawned, TasksAreOwned
<1>3. TakenOnce'
  BY DEF Background, IInv, Types, TakenOnce, Settled, Elements
<1>4. GotIsVerdict'
  BY DEF Background, IInv, Types, GotIsVerdict, NoAnswer
<1> QED BY <1>1, <1>2, <1>3, <1>4 DEF IInv

LEMMA AskInv ==
    ASSUME IInv, NEW c \in Callers, NEW S \in SUBSET Subagents, Ask(c, S)
    PROVE  IInv'
<1>1. Types'
  BY DEF Ask, IInv, Types, NoAnswer
<1>2. Spawned' /\ TasksAreOwned'
  BY DEF Ask, IInv, Types, Spawned, TasksAreOwned
<1>3. TakenOnce'
  <2>1. \A s \in Elements(taken[c]) : s \in asked[c]
    BY DEF IInv, TakenOnce
  <2>2. Elements(taken[c]) = {}
    BY <2>1 DEF Ask
  <2>3. ASSUME NEW d \in Callers, NEW s \in Elements(taken[d])
        PROVE  s \in asked'[d] /\ verdict'[s] = verdict[s]
    BY <2>2, <2>3 DEF Ask, IInv, Types, TakenOnce, Settled
  <2> QED BY <2>3 DEF Ask, IInv, TakenOnce, Settled
<1>4. GotIsVerdict'
  BY DEF Ask, IInv, Types, GotIsVerdict, NoAnswer
<1> QED BY <1>1, <1>2, <1>3, <1>4 DEF IInv

\* Leaving a batch disturbs nothing, as long as no verdict is revised.
LEMMA LeavesKeeps ==
    ASSUME IInv, NEW c \in Callers, Leaves(c), UNCHANGED open,
           NEW v \in [Subagents -> {"none", "pending", "ok", "error", "lost"}],
           verdict' = v,
           \A s \in Subagents : v[s] = verdict[s] \/ (verdict[s] = "pending" /\ v[s] # "none")
    PROVE  IInv'
<1>1. <<>> \in Seq(Subagents) /\ Elements(<<>>) = {}
  BY DEF Elements
<1>2. Types'
  BY <1>1 DEF Leaves, IInv, Types, NoAnswer
<1>3. Spawned' /\ TasksAreOwned'
  BY DEF Leaves, IInv, Types, Spawned, TasksAreOwned
<1>4. TakenOnce'
  <2> SUFFICES ASSUME NEW d \in Callers
               PROVE  /\ \A s \in Elements(taken'[d]) : s \in asked'[d] /\ v[s] \in {"ok", "error"}
                      /\ \A i, j \in DOMAIN taken'[d] : taken'[d][i] = taken'[d][j] => i = j
    BY DEF TakenOnce, Settled
  <2>1. CASE d = c
    BY <1>1, <2>1 DEF Leaves, IInv, Types
  <2>2. CASE d # c
    <3>1. taken'[d] = taken[d] /\ asked'[d] = asked[d] /\ asked[d] \in SUBSET Subagents
      BY <2>2 DEF Leaves, IInv, Types
    <3>2. /\ \A s \in Elements(taken[d]) : s \in asked[d] /\ verdict[s] \in {"ok", "error"}
          /\ \A i, j \in DOMAIN taken[d] : taken[d][i] = taken[d][j] => i = j
      BY DEF IInv, TakenOnce, Settled
    <3> QED BY <3>1, <3>2
  <2> QED BY <2>1, <2>2
<1>5. GotIsVerdict'
  <2> SUFFICES ASSUME NEW d \in Callers, NEW s \in Subagents
               PROVE  got'[d][s] = "ok" => s \in open /\ v[s] = "ok"
    BY DEF GotIsVerdict
  <2>1. CASE d = c
    BY <2>1 DEF Leaves, NoAnswer, IInv, Types
  <2>2. CASE d # c
    <3>1. got'[d][s] = got[d][s]
      BY <2>2 DEF Leaves, IInv, Types
    <3>2. got[d][s] = "ok" => s \in open /\ verdict[s] = "ok"
      BY DEF IInv, GotIsVerdict
    <3> QED BY <3>1, <3>2
  <2> QED BY <2>1, <2>2
<1> QED BY <1>2, <1>3, <1>4, <1>5 DEF IInv

LEMMA SettleInv ==
    ASSUME IInv, NEW s \in Subagents, Settle(s)
    PROVE  IInv'
<1>1. PICK v \in {"ok", "error"} : verdict' = [verdict EXCEPT ![s] = v]
  BY DEF Settle
<1>2. [verdict EXCEPT ![s] = v] \in [Subagents -> {"none", "pending", "ok", "error", "lost"}]
  BY DEF IInv, Types
<1>3. \A t \in Subagents : \/ verdict'[t] = verdict[t]
                           \/ verdict[t] = "pending" /\ verdict'[t] # "none"
  BY <1>1 DEF Settle, IInv, Types
<1> QED BY <1>1, <1>2, <1>3, LeavesKeeps DEF Settle, Callers

LEMMA ReturnInv ==
    ASSUME IInv, NEW c \in Callers, Return(c)
    PROVE  IInv'
BY LeavesKeeps DEF Return, IInv, Types

LEMMA TakeInv ==
    ASSUME IInv, NEW c \in Callers, Take(c)
    PROVE  IInv'
<1>1. PICK s \in asked[c] : /\ Settled(s) /\ s \notin Elements(taken[c])
                            /\ taken' = [taken EXCEPT ![c] = Append(@, s)]
  BY DEF Take
<1>2. s \in Subagents /\ taken[c] \in Seq(Subagents)
  BY DEF IInv, Types
<1>3. UNCHANGED <<verdict, open, asked, got>>
  BY DEF Take
<1>4. Types'
  BY <1>1, <1>2, <1>3 DEF IInv, Types
<1>5. TakenOnce'
  <2> SUFFICES ASSUME NEW d \in Callers
               PROVE  /\ \A t \in Elements(taken'[d]) : t \in asked[d] /\ Settled(t)
                      /\ \A i, j \in DOMAIN taken'[d] : taken'[d][i] = taken'[d][j] => i = j
    BY <1>3 DEF TakenOnce, Settled
  <2>1. CASE d = c
    <3>1. taken'[d] = Append(taken[c], s)
      BY <1>1, <2>1 DEF IInv, Types
    <3>2. Elements(taken'[d]) = Elements(taken[c]) \cup {s}
      BY <1>2, <3>1, ElementsOfAppend
    <3>3. \A i, j \in DOMAIN taken[c] : taken[c][i] = taken[c][j] => i = j
      BY DEF IInv, TakenOnce
    <3>4. \A i, j \in DOMAIN Append(taken[c], s) :
              Append(taken[c], s)[i] = Append(taken[c], s)[j] => i = j
      <4> DEFINE q == taken[c]
      <4>1. q \in Seq(Subagents) /\ s \in Subagents /\ s \notin Elements(q)
        BY <1>1, <1>2
      <4>2. \A i, j \in DOMAIN q : q[i] = q[j] => i = j
        BY <3>3
      <4> HIDE DEF q
      <4>3. \A i, j \in DOMAIN Append(q, s) : Append(q, s)[i] = Append(q, s)[j] => i = j
        BY <4>1, <4>2, AppendNew
      <4> QED BY <4>3 DEF q
    <3> QED BY <1>1, <2>1, <3>1, <3>2, <3>4 DEF IInv, TakenOnce
  <2>2. CASE d # c
    BY <1>1, <2>2 DEF IInv, Types, TakenOnce
  <2> QED BY <2>1, <2>2
<1>6. Spawned' /\ TasksAreOwned' /\ GotIsVerdict'
  BY <1>3 DEF IInv, Spawned, TasksAreOwned, GotIsVerdict
<1> QED BY <1>4, <1>5, <1>6 DEF IInv

LEMMA CollectInv ==
    ASSUME IInv, NEW c \in Callers, Collect(c)
    PROVE  IInv'
<1>1. PICK told \in [Subagents -> {"none", "ok", "error"}] :
          /\ \A s \in Subagents : told[s] = "ok" => s \in open /\ verdict[s] = "ok"
          /\ got' = [got EXCEPT ![c] = told]
  BY DEF Collect
<1>2. UNCHANGED <<verdict, open, asked, taken>>
  BY DEF Collect
<1>3. Types' /\ GotIsVerdict'
  BY <1>1, <1>2 DEF IInv, Types, GotIsVerdict
<1>4. Spawned' /\ TasksAreOwned' /\ TakenOnce'
  BY <1>2 DEF IInv, Spawned, TasksAreOwned, TakenOnce, Settled
<1> QED BY <1>3, <1>4 DEF IInv

LEMMA CrashInv ==
    ASSUME IInv, Crash
    PROVE  IInv'
<1>1. <<>> \in Seq(Subagents) /\ Elements(<<>>) = {}
  BY DEF Elements
<1>2. Types' /\ Spawned' /\ TasksAreOwned' /\ GotIsVerdict'
  BY <1>1 DEF Crash, IInv, Types, Spawned, TasksAreOwned, GotIsVerdict, NoAnswer
<1>3. TakenOnce'
  BY <1>1 DEF Crash, TakenOnce
<1> QED BY <1>2, <1>3 DEF IInv

LEMMA StepInv == IInv /\ [Next]_vars => IInv'
<1> SUFFICES ASSUME IInv, [Next]_vars PROVE IInv'
  OBVIOUS
<1>1. CASE UNCHANGED vars
  BY <1>1 DEF vars, IInv, Types, Spawned, TasksAreOwned, TakenOnce, Settled, GotIsVerdict
<1>2. CASE Next
  BY <1>2, BackgroundInv, SettleInv, AskInv, TakeInv, ReturnInv, CollectInv, CrashInv DEF Next
<1> QED BY <1>1, <1>2

-----------------------------------------------------------------------------
(* What follows *)

\* No two callers wait for the same task, nobody collects what belongs to a
\* batch, and a batch takes each of its tasks once; whoever is told of a success
\* is told of one that there is.
THEOREM PromisesSafe == Spec => [](TasksAreOwned /\ TakenOnce /\ GotIsVerdict)
<1>1. IInv => TasksAreOwned /\ TakenOnce /\ GotIsVerdict
  BY DEF IInv
<1> QED BY <1>1, InitInv, StepInv, PTL DEF Spec

\* What a step may do to a verdict and to a batch.
LEMMA StepOfPromises ==
    ASSUME Distinct, IInv, [Next]_vars
    PROVE  /\ \A s \in Subagents : Settled(s) => verdict'[s] \in {verdict[s], "lost"}
           /\ \A c \in Subagents :
                  asked[c] # {} /\ asked'[c] = {} /\ verdict'[c] = "pending"
                      => Elements(taken[c]) = asked[c]
<1>1. ASSUME NEW t \in Subagents, Background(t)
      PROVE  /\ \A s \in Subagents : Settled(s) => verdict'[s] = verdict[s]
             /\ UNCHANGED asked
  BY <1>1 DEF Background, IInv, Types, Settled
<1>2. ASSUME NEW t \in Subagents, Settle(t)
      PROVE  /\ \A s \in Subagents : Settled(s) => verdict'[s] = verdict[s]
             /\ verdict'[t] # "pending"
             /\ \A c \in Callers \ {t} : asked'[c] = asked[c]
  BY <1>2 DEF Settle, Leaves, IInv, Types, Settled
<1>3. ASSUME NEW d \in Callers, NEW S \in SUBSET Subagents, Ask(d, S)
      PROVE  /\ \A s \in Subagents : Settled(s) => verdict'[s] = verdict[s]
             /\ asked'[d] # {} /\ \A c \in Callers \ {d} : asked'[c] = asked[c]
  BY <1>3 DEF Ask, IInv, Types, Settled
<1>4. ASSUME NEW d \in Callers, Take(d) \/ Collect(d)
      PROVE  UNCHANGED <<verdict, asked>>
  BY <1>4 DEF Take, Collect
<1>5. ASSUME NEW d \in Callers, Return(d)
      PROVE  /\ UNCHANGED verdict
             /\ \A c \in Callers \ {d} : asked'[c] = asked[c]
             /\ d \in Subagents => Elements(taken[d]) = asked[d]
  BY <1>5 DEF Return, Leaves, Distinct, IInv, Types
<1>6. CASE Crash
  BY <1>6 DEF Crash, IInv, Types, Settled
<1>7. CASE UNCHANGED vars
  BY <1>7 DEF vars
<1> QED BY <1>1, <1>2, <1>3, <1>4, <1>5, <1>6, <1>7 DEF Next, Callers

\* A verdict is never revised, and a subagent that goes on after its batch has
\* all of it.
THEOREM PromisesKept ==
    ASSUME Distinct
    PROVE  Spec => SettledOnce /\ ReturnsAll
<1> DEFINE Once == \A s \in Subagents : Settled(s) => verdict'[s] \in {verdict[s], "lost"}
           All == \A c \in Subagents :
                      asked[c] # {} /\ asked'[c] = {} /\ verdict'[c] = "pending"
                          => Elements(taken[c]) = asked[c]
<1>1. IInv /\ [Next]_vars => [Once]_vars /\ [All]_vars
  BY StepOfPromises
<1>2. Spec => [][Once]_vars /\ [][All]_vars
  BY <1>1, InitInv, StepInv, PTL DEF Spec
<1> QED BY <1>2 DEF SettledOnce, ReturnsAll
=============================================================================
