--------------------------- MODULE ChatAgentProofs ---------------------------
(* What holds of ChatAgent for any chats, tools and plans and any limits. *)
EXTENDS ChatAgent, SequenceTheorems, FiniteSetTheorems, TLAPS

Tooling == {"call", "asking", "answered", "running"}

\* Rounds are counted from 0, one that is under way is one of MaxRounds, and
\* tools belong to a plan.
Within(c) ==
    /\ at[c] \in {"idle", "context", "resume"} => round[c] = 0
    /\ at[c] \in {"strip", "send", "llm"} \cup Tooling => round[c] < MaxRounds
    /\ at[c] \in Tooling => plan[c] \in Plans /\ done[c] < Len(plan[c])

\* Chats that are being answered at the same time know it.
Parties ==
    \A c, d \in Chats : c # d /\ at[c] # "idle" /\ at[d] # "idle" => c \in shared

Solo(c) == at[c] # "idle" /\ c \notin shared

\* The list holds the question, finished rounds and the round under way.
Talk(c) ==
    /\ Question(c) \in messages
    /\ \A m \in messages :
        /\ m.by = c
        /\ m.kind = "calls" =>
               \/ m.round < round[c] /\ Answered(m, messages)
               \/ at[c] \in Tooling /\ m = CallsMessage(c, round[c], plan[c])
        /\ m.kind = "result" => CallsMessage(c, m.round, m.plan) \in messages
    /\ \A r \in 0..(round[c] - 1) : \E m \in messages : m.kind = "calls" /\ m.round = r
    /\ at[c] \in Tooling =>
        /\ CallsMessage(c, round[c], plan[c]) \in messages
        /\ \A i \in 1..done[c] : ResultMessage(c, round[c], plan[c], i) \in messages

\* Rounds in which the model has asked for tools.
Asked(c) == IF at[c] \in Tooling THEN round[c] + 1 ELSE round[c]

\* The end of the detector's history is what was asked in this run.
Remembered(c) ==
    /\ Asked(c) <= Len(history)
    /\ \A m \in messages :
           m.kind = "calls" =>
               /\ m.round < Asked(c)
               /\ history[Len(history) - Asked(c) + m.round + 1] = m.plan

CallsFor(c, p) == {m \in messages : m.kind = "calls" /\ m.by = c /\ m.plan = p}

Cut(c) == \A p \in Plans : Cardinality(CallsFor(c, p)) < HardLimit

Afforded(c) == used <= round[c] + 1 /\ (at[c] = "round" => used <= round[c])

Alone(c) ==
    /\ Cut(c)
    /\ IF at[c] = "context" THEN messages = {}
       ELSE Talk(c) /\ Remembered(c) /\ (at[c] # "resume" => Afforded(c))

IInv ==
    /\ TypeOK /\ Parties
    /\ \A c \in Chats : Within(c) /\ (Solo(c) => Alone(c))

-----------------------------------------------------------------------------
(* Facts that several actions share *)

\* The other chats see what c does only if they share the agent with it.
LEMMA StepOfOne ==
    ASSUME IInv, NEW c \in Chats, at[c] # "idle",
           \A d \in Chats \ {c} : /\ at'[d] = at[d] /\ round'[d] = round[d]
                                  /\ plan'[d] = plan[d] /\ done'[d] = done[d],
           shared' = shared \/ (at'[c] = "idle" /\ shared' = shared \ {c}),
           TypeOK', Within(c)', Solo(c)' => Alone(c)'
    PROVE  IInv'
<1>1. Parties'
  BY DEF IInv, Parties
<1>2. ASSUME NEW d \in Chats \ {c} PROVE Within(d)' /\ ~Solo(d)'
  <2>1. Within(d)'
    BY <1>2 DEF IInv, Within
  <2>2. ~Solo(d)'
    BY <1>2 DEF IInv, Parties, Solo
  <2> QED BY <2>1, <2>2
<1> QED BY <1>1, <1>2 DEF IInv

\* A request that is over leaves nothing to be kept.
LEMMA OverInv ==
    ASSUME IInv, NEW c \in Chats, at[c] # "idle", Over(c),
           messages' \subseteq Messages, used' \in 0..MaxRounds,
           history' \in Seq(Plans) /\ Len(history') <= Window
    PROVE  IInv'
<1>1. TypeOK'
  BY ChatAssumption DEF Over, IInv, TypeOK, Places
<1>2. at'[c] = "idle" /\ Within(c)' /\ ~Solo(c)'
  BY DEF Over, IInv, TypeOK, Within, Solo, Tooling
<1> QED BY <1>1, <1>2, StepOfOne DEF Over, IInv, TypeOK

\* From one await to the next, within the tools or before them.
LEMMA MoveInv ==
    ASSUME IInv, NEW c \in Chats, NEW from, NEW to, Goes(c, from, to),
           {from, to} \subseteq Tooling \/ {from, to} \subseteq {"strip", "send", "llm"},
           UNCHANGED <<round, plan, done, messages, agent, shared>>,
           tries' \in [Chats -> 0..MaxAttempts]
    PROVE  IInv'
<1>1. at' = [at EXCEPT ![c] = to] /\ at[c] = from /\ to \in Places \ {"idle", "context", "resume"}
      /\ from \notin {"idle", "context", "resume"} /\ (to \in Tooling <=> from \in Tooling)
      /\ from # "round" /\ to # "round"
  BY DEF Goes, Tooling, Places
<1>2. TypeOK'
  BY <1>1 DEF IInv, TypeOK, agent
<1>3. Within(c)'
  BY <1>1 DEF IInv, TypeOK, Within, Tooling
<1>4. Solo(c)' => Alone(c)'
  <2>1. SUFFICES ASSUME Solo(c)' PROVE Alone(c)'
    OBVIOUS
  <2>2. at'[c] = to
    BY <1>1 DEF IInv, TypeOK
  <2>3. Alone(c)
    BY <1>1, <2>1 DEF IInv, Solo
  <2>4. Talk(c) /\ Remembered(c) /\ Afforded(c) /\ Cut(c)
    BY <1>1, <2>3 DEF Alone
  <2>5. Talk(c)'
    BY <1>1, <2>2, <2>4 DEF Talk
  <2>6. Remembered(c)' /\ Afforded(c)' /\ Cut(c)'
    BY <1>1, <2>2, <2>4 DEF Remembered, Asked, Afforded, Cut, CallsFor, agent
  <2> QED BY <1>1, <2>2, <2>5, <2>6 DEF Alone
<1> QED BY <1>1, <1>2, <1>3, <1>4, StepOfOne DEF IInv, TypeOK

LEMMA QuestionShape ==
    ASSUME NEW c \in Chats
    PROVE  /\ Question(c) \in Messages
           /\ Question(c).by = c /\ Question(c).kind = "question"
BY DEF Question, Messages

LEMMA CallsShape ==
    ASSUME NEW c \in Chats, NEW r \in Nat, NEW p \in Plans
    PROVE  LET m == CallsMessage(c, r, p)
           IN  /\ m \in Messages /\ m.by = c /\ m.kind = "calls"
               /\ m.round = r /\ m.plan = p
BY DEF CallsMessage, Messages

LEMMA ResultShape ==
    ASSUME NEW c \in Chats, NEW r \in Nat, NEW p \in Plans, NEW i \in Nat
    PROVE  LET m == ResultMessage(c, r, p, i)
           IN  /\ m \in Messages /\ m.by = c /\ m.kind = "result"
               /\ m.round = r /\ m.plan = p
BY DEF ResultMessage, Messages

LEMMA NoCallsAreFew == Cardinality({}) < HardLimit
<1>1. Cardinality({}) = 0
  BY FS_EmptySet
<1>2. HardLimit \in Nat \ {0}
  BY ChatAssumption
<1> QED BY <1>1, <1>2

LEMMA CallsAreCalls ==
    ASSUME NEW m \in Messages, m.kind = "calls"
    PROVE  m.by \in Chats /\ m.round \in Nat /\ m.plan \in Plans
           /\ m = CallsMessage(m.by, m.round, m.plan)
BY DEF Messages, CallsMessage

-----------------------------------------------------------------------------
(* The history of the loop detector *)

\* The window keeps what a run asks for: it is as long as a run at least.
LEMMA LatestKeeps ==
    ASSUME NEW h \in Seq(Plans), Len(h) <= Window, NEW p \in Plans,
           NEW n \in 0..(MaxRounds - 1), n <= Len(h)
    PROVE  LET g == Latest(Append(h, p))
           IN  /\ g \in Seq(Plans) /\ Len(g) <= Window /\ n + 1 <= Len(g)
               /\ g[Len(g)] = p
               /\ \A r \in 0..(n - 1) : g[Len(g) - n + r] = h[Len(h) - n + r + 1]
<1> DEFINE a == Append(h, p)
           l == Len(h)
           w == IF l + 1 > Window THEN Window ELSE l + 1
           k == l + 1 - w + 1
           g == SubSeq(a, k, l + 1)
<1>1. /\ a \in Seq(Plans) /\ Len(a) = l + 1 /\ a[l + 1] = p
      /\ \A i \in 1..l : a[i] = h[i]
  BY AppendProperties
<1>2. /\ Window \in Nat /\ MaxRounds \in Nat /\ MaxRounds <= Window
      /\ l \in Nat /\ n \in Nat /\ n + 1 <= MaxRounds /\ n <= l
  BY ChatAssumption
<1> HIDE DEF a, l
<1>3. g = Latest(a)
  <2>1. Latest(a) = SubSeq(a, Len(a) - (IF Len(a) > Window THEN Window ELSE Len(a)) + 1, Len(a))
    BY DEF Latest
  <2>2. Len(a) = l + 1
    BY <1>1
  <2>3. Latest(a) = SubSeq(a, (l + 1) - (IF l + 1 > Window THEN Window ELSE l + 1) + 1, l + 1)
    BY <2>1, <2>2, Zenon
  <2> QED BY <2>3, <1>2
<1>4. /\ w \in 1..(l + 1) /\ w <= Window /\ n + 1 <= w /\ k \in 1..(l + 1)
      /\ k + w = l + 2
  BY <1>2
<1> HIDE DEF w, k
<1>5. /\ g \in Seq(Plans) /\ Len(g) = w
      /\ \A i \in 1..w : g[i] = a[k + i - 1]
  <2>1. (l + 1) - k + 1 = w /\ k \in 1..(Len(a) + 1) /\ l + 1 \in 0..Len(a) /\ k <= l + 1
    BY <1>1, <1>2, <1>4
  <2>2. /\ g \in Seq(Plans) /\ Len(g) = IF k <= l + 1 THEN (l + 1) - k + 1 ELSE 0
        /\ \A i \in 1..((l + 1) - k + 1) : g[i] = a[k + i - 1]
    BY <1>1, <2>1, SubSeqProperties
  <2> QED BY <2>1, <2>2
<1> HIDE DEF g
<1>6. g[Len(g)] = p
  <2>1. w \in 1..w /\ k + w - 1 = l + 1
    BY <1>2, <1>4
  <2> QED BY <1>1, <1>5, <2>1
<1>7. ASSUME NEW r \in 0..(n - 1) PROVE g[Len(g) - n + r] = h[l - n + r + 1]
  <2>1. w - n + r \in 1..w /\ l - n + r + 1 \in 1..l
        /\ k + (w - n + r) - 1 = l - n + r + 1
    BY <1>2, <1>4
  <2> QED BY <1>1, <1>5, <2>1
<1> QED BY <1>3, <1>4, <1>5, <1>6, <1>7 DEF a, l

\* The calls for p of a run are places of the history that hold p.
LEMMA CallsAreRemembered ==
    ASSUME NEW c \in Chats, NEW p \in Plans, NEW h \in Seq(Plans),
           NEW M \in SUBSET Messages, NEW n \in 0..Len(h),
           \A m \in M : m.kind = "calls" =>
               m.by = c /\ m.round < n /\ h[Len(h) - n + m.round + 1] = m.plan
    PROVE  LET S == {m \in M : m.kind = "calls" /\ m.by = c /\ m.plan = p}
           IN  /\ Cardinality(S) \in Nat /\ Repeats(p, h) \in Nat
               /\ Cardinality(S) <= Repeats(p, h)
<1> DEFINE S == {m \in M : m.kind = "calls" /\ m.by = c /\ m.plan = p}
           T == {i \in DOMAIN h : h[i] = p}
           f == [m \in S |-> Len(h) - n + m.round + 1]
<1>1. ASSUME NEW m \in S
      PROVE  /\ m.round \in Nat /\ m = CallsMessage(c, m.round, p)
             /\ f[m] \in T /\ f[m] = Len(h) - n + m.round + 1
  <2>1. m.round \in Nat /\ m = CallsMessage(c, m.round, p)
    BY CallsAreCalls
  <2>2. m.round < n /\ h[Len(h) - n + m.round + 1] = p
    OBVIOUS
  <2>3. Len(h) - n + m.round + 1 \in DOMAIN h
    BY <2>1, <2>2
  <2> QED BY <2>1, <2>2, <2>3
<1>2. ASSUME NEW x \in S, NEW y \in S, f[x] = f[y] PROVE x = y
  <2>1. Len(h) - n + x.round + 1 = Len(h) - n + y.round + 1
    BY <1>1, <1>2
  <2>2. x.round \in Nat /\ y.round \in Nat
    BY <1>1
  <2>3. x.round = y.round
    <3>1. Len(h) \in Nat /\ n \in Nat
      OBVIOUS
    <3> QED BY <2>1, <2>2, <3>1
  <2>4. x = CallsMessage(c, x.round, p) /\ y = CallsMessage(c, y.round, p)
    BY <1>1
  <2> QED BY <2>3, <2>4
<1>3. f \in Injection(S, T)
  BY <1>1, <1>2 DEF Injection, IsInjective
<1>4. IsFiniteSet(T)
  <2>1. IsFiniteSet(1..Len(h)) /\ T \subseteq 1..Len(h)
    BY FS_Interval
  <2> QED BY <2>1, FS_Subset
<1> HIDE DEF S, T, f
<1>5. /\ Cardinality(S) <= Cardinality(T)
      /\ Cardinality(S) \in Nat /\ Cardinality(T) \in Nat
  BY <1>3, <1>4, FS_Injection, FS_CardinalityType
<1> QED BY <1>5 DEF S, T, Repeats

-----------------------------------------------------------------------------
(* The inductive step, for each action *)

LEMMA InitInv == Init => IInv
<1> SUFFICES ASSUME Init PROVE IInv
  OBVIOUS
<1>1. TypeOK
  <2>1. <<>> \in Seq(Plans) /\ Len(<<>>) = 0
    OBVIOUS
  <2> QED BY <2>1, ChatAssumption DEF Init, TypeOK, Places, Messages
<1>2. Parties /\ \A c \in Chats : Within(c) /\ ~Solo(c)
  BY DEF Init, Parties, Within, Solo, Tooling
<1> QED BY <1>1, <1>2 DEF IInv

LEMMA StartsInv ==
    ASSUME IInv, NEW c \in Chats, Starts(c)
    PROVE  IInv'
<1>1. /\ at[c] = "idle" /\ at' = [at EXCEPT ![c] = "context"] /\ messages' = {}
      /\ shared' = IF Answering = {} THEN {} ELSE shared \cup Answering \cup {c}
      /\ UNCHANGED <<round, plan, done, tries, used, history>>
  BY DEF Starts, Goes, local, agent
<1>2. TypeOK'
  BY <1>1 DEF IInv, TypeOK, Places, Answering
<1>3. Parties'
  BY <1>1 DEF IInv, TypeOK, Parties, Answering
<1>4. ASSUME NEW d \in Chats PROVE Within(d)' /\ (Solo(d)' => Alone(d)')
  <2>1. Within(d)'
    BY <1>1 DEF IInv, TypeOK, Within, Tooling
  <2>2. ASSUME Solo(d)' PROVE d = c
    BY <1>1, <2>2 DEF IInv, TypeOK, Solo, Answering
  <2>3. Alone(c)'
    <3>1. \A p \in Plans : CallsFor(c, p)' = {}
      BY <1>1 DEF CallsFor
    <3>2. Cut(c)'
      BY <3>1, NoCallsAreFew DEF Cut
    <3> QED BY <1>1, <3>2 DEF Alone, IInv, TypeOK
  <2> QED BY <2>1, <2>2, <2>3
<1> QED BY <1>2, <1>3, <1>4 DEF IInv

LEMMA QuestionsInv ==
    ASSUME IInv, NEW c \in Chats, Questions(c)
    PROVE  IInv'
<1>1. /\ at[c] = "context" /\ at' = [at EXCEPT ![c] = "resume"]
      /\ messages' = messages \cup {Question(c)}
      /\ UNCHANGED <<round, plan, done, tries, used, history, shared>>
  BY DEF Questions, Goes, Add, local, agent
<1>2. TypeOK'
  BY <1>1, QuestionShape DEF IInv, TypeOK, Places
<1>3. at'[c] = "resume" /\ Within(c)'
  BY <1>1 DEF IInv, TypeOK, Within, Tooling
<1>4. ASSUME Solo(c)' PROVE Alone(c)'
  <2>1. Cut(c) /\ messages = {}
    BY <1>1, <1>4 DEF IInv, Solo, Alone
  <2>2. messages' = {Question(c)}
    BY <1>1, <2>1
  <2>3. round'[c] = 0 /\ \A m \in messages' : m = Question(c)
    BY <1>1, <2>2 DEF IInv, Within
  <2>4. Talk(c)'
    BY <1>3, <2>2, <2>3, QuestionShape DEF Talk, Tooling
  <2>5. Remembered(c)'
    BY <1>1, <1>3, <2>3, QuestionShape DEF Remembered, Asked, Tooling, IInv, TypeOK
  <2>6. Cut(c)'
    <3>1. \A p \in Plans : CallsFor(c, p)' = {}
      BY <2>3, QuestionShape DEF CallsFor
    <3> QED BY <3>1, NoCallsAreFew DEF Cut
  <2> QED BY <1>3, <2>4, <2>5, <2>6 DEF Alone
<1> QED BY <1>1, <1>2, <1>3, <1>4, StepOfOne DEF IInv, TypeOK

LEMMA BeginsInv ==
    ASSUME IInv, NEW c \in Chats, Begins(c)
    PROVE  IInv'
<1>1. /\ at[c] = "resume" /\ at' = [at EXCEPT ![c] = "round"] /\ used' = 0
      /\ UNCHANGED <<round, plan, done, tries, messages, history, shared>>
  BY DEF Begins, Goes, local
<1>2. TypeOK'
  BY <1>1, ChatAssumption DEF IInv, TypeOK, Places
<1>3. at'[c] = "round" /\ Within(c)'
  BY <1>1 DEF IInv, TypeOK, Within, Tooling
<1>4. ASSUME Solo(c)' PROVE Alone(c)'
  <2>1. Talk(c) /\ Remembered(c) /\ Cut(c)
    BY <1>1, <1>4 DEF IInv, Solo, Alone
  <2>2. Talk(c)' /\ Remembered(c)' /\ Cut(c)'
    BY <1>1, <1>3, <2>1 DEF Talk, Remembered, Asked, Cut, CallsFor, Tooling
  <2>3. round'[c] = 0
    BY <1>1 DEF IInv, Within
  <2>4. Afforded(c)'
    BY <1>1, <2>3 DEF Afforded
  <2> QED BY <1>3, <2>2, <2>4 DEF Alone
<1> QED BY <1>1, <1>2, <1>3, <1>4, StepOfOne DEF IInv, TypeOK

LEMMA RoundStartsInv ==
    ASSUME IInv, NEW c \in Chats, RoundStarts(c)
    PROVE  IInv'
<1>1. /\ at[c] = "round" /\ at' = [at EXCEPT ![c] = "strip"]
      /\ round[c] < MaxRounds /\ used < MaxRounds /\ used' = used + 1
      /\ UNCHANGED <<round, plan, done, tries, messages, history, shared>>
  BY DEF RoundStarts, Goes, local
<1>2. TypeOK'
  BY <1>1, ChatAssumption DEF IInv, TypeOK, Places
<1>3. at'[c] = "strip" /\ Within(c)'
  BY <1>1 DEF IInv, TypeOK, Within, Tooling
<1>4. ASSUME Solo(c)' PROVE Alone(c)'
  <2>1. Talk(c) /\ Remembered(c) /\ Afforded(c) /\ Cut(c)
    BY <1>1, <1>4 DEF IInv, Solo, Alone
  <2>2. Talk(c)' /\ Remembered(c)' /\ Cut(c)'
    BY <1>1, <1>3, <2>1 DEF Talk, Remembered, Asked, Cut, CallsFor, Tooling
  <2>3. Afforded(c)'
    BY <1>1, <1>3, <2>1 DEF Afforded, IInv, TypeOK
  <2> QED BY <1>3, <2>2, <2>3 DEF Alone
<1> QED BY <1>1, <1>2, <1>3, <1>4, StepOfOne DEF IInv, TypeOK

\* A chat that is alone has no calls without results when it strips the list.
LEMMA StripsInv ==
    ASSUME IInv, NEW c \in Chats, Strips(c)
    PROVE  IInv'
<1>1. /\ at[c] = "strip" /\ at' = [at EXCEPT ![c] = "send"]
      /\ messages' = {m \in messages : m.kind = "calls" => Answered(m, messages)}
      /\ UNCHANGED <<round, plan, done, tries, used, history, shared>>
  BY DEF Strips, Goes, local, agent
<1>2. TypeOK'
  BY <1>1 DEF IInv, TypeOK, Places
<1>3. at'[c] = "send" /\ Within(c)'
  BY <1>1 DEF IInv, TypeOK, Within, Tooling
<1>4. ASSUME Solo(c)' PROVE Alone(c)'
  <2>1. Talk(c) /\ Remembered(c) /\ Afforded(c) /\ Cut(c)
    BY <1>1, <1>4 DEF IInv, Solo, Alone
  <2>2. messages' = messages
    BY <1>1, <2>1 DEF Talk, Tooling
  <2>3. Talk(c)' /\ Remembered(c)' /\ Afforded(c)' /\ Cut(c)'
    BY <1>1, <1>3, <2>1, <2>2 DEF Talk, Remembered, Asked, Afforded, Cut, CallsFor, Tooling
  <2> QED BY <1>3, <2>3 DEF Alone
<1> QED BY <1>1, <1>2, <1>3, <1>4, StepOfOne DEF IInv, TypeOK

LEMMA ModelCallsInv ==
    ASSUME IInv, NEW c \in Chats, NEW p \in Plans, ModelCalls(c, p)
    PROVE  IInv'
<1> DEFINE m0 == CallsMessage(c, round[c], p)
<1>1. /\ at[c] = "llm" /\ messages' = messages \cup {m0}
      /\ history' = Latest(Append(history, p)) /\ used' = used
  BY DEF ModelCalls, Add
<1>2. /\ round[c] \in Nat /\ round[c] < MaxRounds
      /\ m0 \in Messages /\ m0.by = c /\ m0.kind = "calls"
      /\ m0.round = round[c] /\ m0.plan = p
  BY <1>1, CallsShape, ChatAssumption DEF IInv, TypeOK, Within
<1> HIDE DEF m0
<1>3. messages' \subseteq Messages
  BY <1>1, <1>2 DEF IInv, TypeOK
<1>4. history' \in Seq(Plans) /\ Len(history') <= Window
  <2>1. 0 \in 0..(MaxRounds - 1) /\ 0 <= Len(history)
    BY ChatAssumption DEF IInv, TypeOK
  <2> QED BY <1>1, <2>1, LatestKeeps DEF IInv, TypeOK
<1>5. CASE Over(c)
  BY <1>1, <1>3, <1>4, <1>5, OverInv DEF IInv, TypeOK
<1>6. CASE /\ Repeats(p, history') < HardLimit
           /\ at' = [at EXCEPT ![c] = "call"]
           /\ plan' = [plan EXCEPT ![c] = p]
           /\ done' = [done EXCEPT ![c] = 0]
           /\ tries' = [tries EXCEPT ![c] = 1]
           /\ UNCHANGED <<round, shared>>
  <2>1. TypeOK'
    BY <1>1, <1>3, <1>4, <1>6, ChatAssumption DEF IInv, TypeOK, Places
  <2>2. at'[c] = "call" /\ plan'[c] = p /\ done'[c] = 0 /\ round'[c] = round[c]
    BY <1>6 DEF IInv, TypeOK
  <2>3. Within(c)'
    <3>1. Len(p) \in Nat /\ Len(p) # 0
      BY ChatAssumption
    <3> QED BY <1>2, <2>2, <3>1 DEF Within, Tooling
  <2>4. ASSUME Solo(c)' PROVE Alone(c)'
    <3>1. Talk(c) /\ Remembered(c) /\ Afforded(c) /\ Cut(c)
      BY <1>1, <1>6, <2>4 DEF IInv, Solo, Alone
    <3>2. Talk(c)'
      <4>1. \A m \in messages : Answered(m, messages) => Answered(m, messages')
        BY <1>1 DEF Answered
      <4>2. \A m \in messages : m.kind = "calls" =>
                m.round < round[c] /\ Answered(m, messages')
        BY <1>1, <3>1, <4>1 DEF Talk, Tooling
      <4>3. \A m \in messages : m.by = c /\
                (m.kind = "result" => CallsMessage(c, m.round, m.plan) \in messages)
        BY <3>1 DEF Talk
      <4>4. Question(c) \in messages
            /\ \A r \in 0..(round[c] - 1) : \E m \in messages : m.kind = "calls" /\ m.round = r
        BY <3>1 DEF Talk
      <4>5. m0 = CallsMessage(c, round'[c], plan'[c])
        BY <2>2 DEF m0
      <4>6. \A m \in messages' :
                /\ m.by = c
                /\ m.kind = "calls" =>
                       \/ m.round < round'[c] /\ Answered(m, messages')
                       \/ m = CallsMessage(c, round'[c], plan'[c])
                /\ m.kind = "result" => CallsMessage(c, m.round, m.plan) \in messages'
        BY <1>1, <1>2, <2>2, <4>2, <4>3, <4>5
      <4>7. /\ Question(c) \in messages' /\ m0 \in messages'
            /\ \A r \in 0..(round'[c] - 1) : \E m \in messages' : m.kind = "calls" /\ m.round = r
        BY <1>1, <2>2, <4>4
      <4> HIDE DEF m0
      <4> QED BY <2>2, <4>5, <4>6, <4>7 DEF Talk, Tooling
    <3>3. Remembered(c)'
      <4> DEFINE n == round[c]
      <4>1. /\ n \in 0..(MaxRounds - 1) /\ n <= Len(history)
            /\ \A m \in messages : m.kind = "calls" =>
                   /\ m.round \in Nat /\ m.round < n
                   /\ history[Len(history) - n + m.round + 1] = m.plan
        BY <1>1, <1>2, <3>1, CallsAreCalls, ChatAssumption
           DEF Remembered, Asked, Tooling, IInv, TypeOK
      <4>2. /\ history \in Seq(Plans) /\ Len(history) <= Window
            /\ Len(history) \in Nat /\ Len(history') \in Nat
        BY <1>4 DEF IInv, TypeOK
      <4>3. /\ n + 1 <= Len(history') /\ history'[Len(history')] = p
            /\ \A r \in 0..(n - 1) :
                   history'[Len(history') - n + r] = history[Len(history) - n + r + 1]
        BY <1>1, <4>1, <4>2, LatestKeeps
      <4>4. ASSUME NEW m \in messages', m.kind = "calls"
            PROVE  m.round < n + 1 /\ history'[Len(history') - (n + 1) + m.round + 1] = m.plan
        <5>1. CASE m \in messages
          <6>1. /\ m.round \in 0..(n - 1)
                /\ Len(history') - (n + 1) + m.round + 1 = Len(history') - n + m.round
            BY <4>1, <4>2, <4>4, <5>1
          <6>2. history'[Len(history') - n + m.round] = history[Len(history) - n + m.round + 1]
            BY <4>3, <6>1
          <6>3. m.round < n + 1 /\ history[Len(history) - n + m.round + 1] = m.plan
            BY <4>1, <4>4, <5>1
          <6> QED BY <6>1, <6>2, <6>3
        <5>2. CASE m = m0
          <6>1. m.round = n /\ m.plan = p /\ Len(history') - (n + 1) + n + 1 = Len(history')
            BY <1>2, <4>1, <4>2, <5>2
          <6> QED BY <4>1, <4>3, <6>1
        <5> QED BY <1>1, <4>4, <5>1, <5>2
      <4>5. Asked(c)' = n + 1
        BY <2>2 DEF Asked, Tooling
      <4> HIDE DEF n
      <4> QED BY <4>3, <4>4, <4>5 DEF Remembered
    <3>4. Cut(c)'
      <4>1. ASSUME NEW q \in Plans, q # p PROVE Cardinality(CallsFor(c, q)') < HardLimit
        <5>1. CallsFor(c, q)' = CallsFor(c, q)
          BY <1>1, <1>2, <4>1 DEF CallsFor
        <5> QED BY <3>1, <5>1 DEF Cut
      <4>2. Cardinality(CallsFor(c, p)') < HardLimit
        <5> DEFINE S == {m \in messages' : m.kind = "calls" /\ m.by = c /\ m.plan = p}
                   n == Asked(c)'
        <5>1. /\ n \in 0..Len(history')
              /\ \A m \in messages' : m.kind = "calls" =>
                     m.by = c /\ m.round < n /\ history'[Len(history') - n + m.round + 1] = m.plan
          BY <1>2, <1>4, <2>2, <3>2, <3>3 DEF Remembered, Asked, Talk, Tooling
        <5> HIDE DEF n
        <5>2. /\ Cardinality(S) \in Nat /\ Repeats(p, history') \in Nat
              /\ Cardinality(S) <= Repeats(p, history')
          BY <1>3, <1>4, <5>1, CallsAreRemembered
        <5>3. CallsFor(c, p)' = S
          BY DEF CallsFor
        <5> QED BY <1>6, <5>2, <5>3, ChatAssumption
      <4> QED BY <4>1, <4>2 DEF Cut
    <3>5. Afforded(c)'
      BY <1>1, <2>2, <3>1 DEF Afforded
    <3> QED BY <2>2, <3>2, <3>3, <3>4, <3>5 DEF Alone
  <2> QED BY <1>1, <1>6, <2>1, <2>3, <2>4, StepOfOne DEF IInv, TypeOK
<1> QED BY <1>1, <1>5, <1>6 DEF ModelCalls

LEMMA ResultAddedInv ==
    ASSUME IInv, NEW c \in Chats, at[c] \in Tooling, ResultAdded(c)
    PROVE  IInv'
<1> DEFINE k == round[c]
           p == plan[c]
           d == done[c]
           m0 == ResultMessage(c, k, p, d + 1)
           calls == CallsMessage(c, k, p)
<1>1. /\ k \in Nat /\ k < MaxRounds /\ p \in Plans /\ d \in Nat
      /\ Len(p) \in Nat /\ d + 1 <= Len(p) /\ DOMAIN p = 1..Len(p)
  BY ChatAssumption DEF IInv, TypeOK, Within
<1>2. /\ m0 \in Messages /\ m0.by = c /\ m0.kind = "result"
      /\ m0.round = k /\ m0.plan = p
  BY <1>1, ResultShape
<1>3. /\ calls.by = c /\ calls.kind = "calls" /\ calls.round = k /\ calls.plan = p
  BY <1>1, CallsShape
<1>4. messages' = messages \cup {m0} /\ UNCHANGED <<history, shared>>
  BY DEF ResultAdded, Add
<1>5. CASE /\ d + 1 = Len(p)
           /\ at' = [at EXCEPT ![c] = "round"]
           /\ round' = [round EXCEPT ![c] = @ + 1]
           /\ plan' = [plan EXCEPT ![c] = <<>>]
           /\ done' = [done EXCEPT ![c] = 0]
           /\ tries' = [tries EXCEPT ![c] = 0]
           /\ used' = IF Refunds(p) /\ used > 0 THEN used - 1 ELSE used
  <2>1. used' \in 0..MaxRounds /\ used' <= used
    BY <1>5, ChatAssumption DEF IInv, TypeOK
  <2>2. TypeOK'
    BY <1>1, <1>2, <1>4, <1>5, <2>1, ChatAssumption DEF IInv, TypeOK, Places
  <2>3. at'[c] = "round" /\ round'[c] = k + 1
    BY <1>5 DEF IInv, TypeOK
  <2>4. Within(c)'
    BY <2>3 DEF Within, Tooling
  <2>5. ASSUME Solo(c)' PROVE Alone(c)'
    <3>1. Talk(c) /\ Remembered(c) /\ Afforded(c) /\ Cut(c)
      BY <1>4, <2>5 DEF IInv, Solo, Alone, Tooling
    <3>2. /\ calls \in messages /\ Question(c) \in messages
          /\ \A i \in 1..d : ResultMessage(c, k, p, i) \in messages
      BY <3>1 DEF Talk
    <3>3. Answered(calls, messages')
      <4>1. \A i \in 1..Len(p) : i \in 1..d \/ i = d + 1
        BY <1>1, <1>5
      <4>2. \A i \in 1..Len(p) : ResultMessage(c, k, p, i) \in messages'
        BY <1>4, <3>2, <4>1
      <4> QED BY <1>1, <1>3, <4>2 DEF Answered
    <3>4. ASSUME NEW m \in messages'
          PROVE  /\ m.by = c
                 /\ m.kind = "calls" => m.round < round'[c] /\ Answered(m, messages')
                 /\ m.kind = "result" => CallsMessage(c, m.round, m.plan) \in messages'
      <4>1. CASE m = m0
        BY <1>2, <1>4, <3>2, <4>1
      <4>2. CASE m \in messages
        <5>1. m.by = c /\ (m.kind = "result" => CallsMessage(c, m.round, m.plan) \in messages)
          BY <3>1, <4>2 DEF Talk
        <5>2. ASSUME m.kind = "calls" PROVE m.round < k + 1 /\ Answered(m, messages')
          <6>1. CASE m.round < k /\ Answered(m, messages)
            <7>1. Answered(m, messages')
              BY <1>4, <6>1 DEF Answered
            <7>2. m.round \in Nat
              BY <4>2, <5>2, CallsAreCalls DEF IInv, TypeOK
            <7> QED BY <1>1, <6>1, <7>1, <7>2
          <6>2. CASE m = calls
            BY <1>1, <1>3, <3>3, <6>2
          <6> QED BY <3>1, <4>2, <5>2, <6>1, <6>2 DEF Talk
        <5> QED BY <1>4, <2>3, <5>1, <5>2
      <4> QED BY <1>4, <4>1, <4>2
    <3>5. \A r \in 0..(round'[c] - 1) : \E m \in messages' : m.kind = "calls" /\ m.round = r
      <4>1. \A r \in 0..(k - 1) : \E m \in messages : m.kind = "calls" /\ m.round = r
        BY <3>1 DEF Talk
      <4>2. \A r \in 0..(round'[c] - 1) : r \in 0..(k - 1) \/ r = k
        BY <1>1, <2>3
      <4> QED BY <1>3, <1>4, <3>2, <4>1, <4>2
    <3>6. Talk(c)'
      BY <1>4, <2>3, <3>2, <3>4, <3>5 DEF Talk, Tooling
    <3>7. Remembered(c)'
      BY <1>2, <1>4, <2>3, <3>1 DEF Remembered, Asked, Tooling
    <3>8. Cut(c)'
      <4>1. \A q \in Plans : CallsFor(c, q)' = CallsFor(c, q)
        BY <1>2, <1>4 DEF CallsFor
      <4> QED BY <3>1, <4>1 DEF Cut
    <3>9. Afforded(c)'
      BY <1>1, <2>1, <2>3, <3>1 DEF Afforded, IInv, TypeOK
    <3> QED BY <2>3, <3>6, <3>7, <3>8, <3>9 DEF Alone
  <2> QED BY <1>4, <1>5, <2>2, <2>4, <2>5, StepOfOne DEF IInv, TypeOK, Tooling
<1>6. CASE /\ d + 1 # Len(p)
           /\ at' = [at EXCEPT ![c] = "call"]
           /\ done' = [done EXCEPT ![c] = @ + 1]
           /\ tries' = [tries EXCEPT ![c] = 1]
           /\ UNCHANGED <<round, plan, used>>
  <2>1. TypeOK'
    BY <1>1, <1>2, <1>4, <1>6, ChatAssumption DEF IInv, TypeOK, Places
  <2>2. at'[c] = "call" /\ round'[c] = k /\ plan'[c] = p /\ done'[c] = d + 1
    BY <1>6 DEF IInv, TypeOK
  <2>3. Within(c)'
    BY <1>1, <1>6, <2>2 DEF Within, Tooling
  <2>4. ASSUME Solo(c)' PROVE Alone(c)'
    <3>1. Talk(c) /\ Remembered(c) /\ Afforded(c) /\ Cut(c)
      BY <1>4, <2>4 DEF IInv, Solo, Alone, Tooling
    <3>2. /\ calls \in messages /\ Question(c) \in messages
          /\ \A i \in 1..d : ResultMessage(c, k, p, i) \in messages
          /\ \A r \in 0..(k - 1) : \E m \in messages : m.kind = "calls" /\ m.round = r
      BY <3>1 DEF Talk
    <3>3. \A i \in 1..(d + 1) : ResultMessage(c, k, p, i) \in messages'
      <4>1. \A i \in 1..(d + 1) : i \in 1..d \/ i = d + 1
        BY <1>1
      <4> QED BY <1>4, <3>2, <4>1
    <3>4. ASSUME NEW m \in messages'
          PROVE  /\ m.by = c
                 /\ m.kind = "calls" => \/ m.round < k /\ Answered(m, messages')
                                        \/ m = calls
                 /\ m.kind = "result" => CallsMessage(c, m.round, m.plan) \in messages'
      <4>1. CASE m = m0
        BY <1>2, <1>4, <3>2, <4>1
      <4>2. CASE m \in messages
        <5>1. m.by = c /\ (m.kind = "result" => CallsMessage(c, m.round, m.plan) \in messages)
          BY <3>1, <4>2 DEF Talk
        <5>2. Answered(m, messages) => Answered(m, messages')
          BY <1>4 DEF Answered
        <5>3. m.kind = "calls" => (m.round < k /\ Answered(m, messages)) \/ m = calls
          BY <3>1, <4>2 DEF Talk
        <5> QED BY <1>4, <5>1, <5>2, <5>3
      <4> QED BY <1>4, <4>1, <4>2
    <3>5. Talk(c)'
      BY <1>4, <2>2, <3>2, <3>3, <3>4 DEF Talk, Tooling
    <3>6. Remembered(c)'
      BY <1>2, <1>4, <2>2, <3>1 DEF Remembered, Asked, Tooling
    <3>7. Cut(c)'
      <4>1. \A q \in Plans : CallsFor(c, q)' = CallsFor(c, q)
        BY <1>2, <1>4 DEF CallsFor
      <4> QED BY <3>1, <4>1 DEF Cut
    <3>8. Afforded(c)'
      BY <1>6, <2>2, <3>1 DEF Afforded
    <3> QED BY <2>2, <3>5, <3>6, <3>7, <3>8 DEF Alone
  <2> QED BY <1>4, <1>6, <2>1, <2>3, <2>4, StepOfOne DEF IInv, TypeOK, Tooling
<1> QED BY <1>5, <1>6 DEF ResultAdded

LEMMA AgentMoves ==
    ASSUME IInv, NEW c \in Chats,
           Sends(c) \/ Allowed(c) \/ Asks(c) \/ Resolved(c) \/ Granted(c) \/ Retries(c)
    PROVE  IInv'
<1>1. CASE Retries(c)
  <2>1. tries' \in [Chats -> 0..MaxAttempts]
    BY <1>1, ChatAssumption DEF Retries, IInv, TypeOK
  <2> QED BY <1>1, <2>1, MoveInv DEF Retries, Tooling
<1>2. CASE Sends(c)
  BY <1>2, MoveInv DEF Sends, local, IInv, TypeOK
<1>3. CASE Allowed(c) \/ Asks(c) \/ Resolved(c) \/ Granted(c)
  BY <1>3, MoveInv DEF Allowed, Asks, Resolved, Granted, Tooling, local, IInv, TypeOK
<1> QED BY <1>1, <1>2, <1>3

LEMMA StepInv == IInv /\ [Next]_vars => IInv'
<1> SUFFICES ASSUME IInv, [Next]_vars PROVE IInv'
  OBVIOUS
<1>1. ASSUME NEW c \in Chats, \/ Cancelled(c) \/ RoundsAreOver(c)
                                 \/ TooLong(c) \/ ModelConcludes(c)
      PROVE  IInv'
  BY <1>1, OverInv DEF Cancelled, RoundsAreOver, TooLong, ModelConcludes, agent, IInv, TypeOK
<1>2. ASSUME NEW c \in Chats, Blocked(c) \/ Refused(c) \/ ToolReturns(c)
      PROVE  IInv'
  BY <1>2, ResultAddedInv DEF Blocked, Refused, ToolReturns, Tooling
<1>3. ASSUME NEW c \in Chats, Advances(c) \/ ToolEnds(c) \/ Resolved(c) PROVE IInv'
  BY <1>1, <1>2, <1>3, AgentMoves, QuestionsInv, BeginsInv, RoundStartsInv, StripsInv
  DEF Advances, ToolEnds
<1>4. ASSUME NEW c \in Chats, NEW p \in Plans, ModelCalls(c, p) PROVE IInv'
  BY <1>4, ModelCallsInv
<1>5. ASSUME UNCHANGED vars PROVE IInv'
  <2>1. TypeOK' /\ Parties' /\ \A c \in Chats : Within(c)'
    BY <1>5 DEF vars, local, agent, IInv, TypeOK, Parties, Within
  <2>2. \A c \in Chats : Solo(c)' => Alone(c)'
    BY <1>5 DEF vars, local, agent, IInv, Solo, Alone, Talk, Remembered, Asked, Afforded,
                Cut, CallsFor
  <2> QED BY <2>1, <2>2 DEF IInv
<1> QED BY <1>1, <1>3, <1>4, <1>5, StartsInv DEF Next

-----------------------------------------------------------------------------
(* What follows *)

LEMMA Invariance == Spec => []IInv
BY InitInv, StepInv, PTL DEF Spec

\* Values keep their types: rounds, attempts, the budget and the window of the
\* loop detector keep their limits, however many chats share them.
THEOREM ChatTypeOK == Spec => []TypeOK
<1>1. IInv => TypeOK
  BY DEF IInv
<1> QED BY <1>1, Invariance, PTL

\* The prompt of a chat that is alone is its own conversation, and complete.
THEOREM ChatPromptIsWhole == Spec => []PromptIsWhole
<1>1. IInv => PromptIsWhole
  <2> SUFFICES ASSUME IInv, NEW c \in Chats \ shared, at[c] = "send"
               PROVE  /\ Question(c) \in messages
                      /\ \A m \in messages : m.by = c
                      /\ \A m \in messages : m.kind = "calls" => Answered(m, messages)
                      /\ \A m \in messages : m.kind = "result" =>
                             CallsMessage(c, m.round, m.plan) \in messages
                      /\ \A r \in 0..(round[c] - 1) :
                             \E m \in messages : m.kind = "calls" /\ m.round = r
    BY DEF PromptIsWhole
  <2>1. Talk(c)
    BY DEF IInv, Solo, Alone
  <2> QED BY <2>1 DEF Talk, Tooling
<1> QED BY <1>1, Invariance, PTL

\* The same calls are not executed HardLimit times for a chat that is alone.
THEOREM ChatLoopIsCut == Spec => []LoopIsCut
<1>1. IInv => LoopIsCut
  BY DEF IInv, Solo, Alone, Cut, CallsFor, LoopIsCut
<1> QED BY <1>1, Invariance, PTL

\* The budget takes no round from a chat that is alone.
THEOREM ChatRoundsAreGranted == Spec => []RoundsAreGranted
<1>1. IInv => RoundsAreGranted
  BY DEF IInv, Solo, Alone, Afforded, RoundsAreGranted
<1> QED BY <1>1, Invariance, PTL

-----------------------------------------------------------------------------
(* A request goes on *)

\* The places of a round in their order, those of one attempt at a tool last.
Stage ==
    [place \in Places \ {"idle"} |->
        CASE place = "context" -> 0 [] place = "resume" -> 1 [] place = "round" -> 2
          [] place = "strip" -> 3 [] place = "send" -> 4 [] place = "llm" -> 5
          [] place = "call" -> 6 [] place = "asking" -> 7 [] place = "answered" -> 8
          [] place = "running" -> 9]

SameRound(c) == round'[c] = round[c]
SameTool(c) == SameRound(c) /\ plan'[c] = plan[c] /\ done'[c] = done[c]
Still(c) == SameTool(c) /\ tries'[c] = tries[c] /\ at'[c] = at[c]

\* What a request does, if it does anything and is not over: it begins another
\* round, has its tools, goes to the next tool, makes another attempt at it, or
\* takes a later place in the attempt or the round it is in.  Each of these has
\* its limit and leaves those before it alone, so it cannot go on for ever.
GoesOn(c) ==
    \/ round'[c] = round[c] + 1 /\ round'[c] <= MaxRounds
    \/ /\ SameRound(c) /\ at[c] = "llm" /\ at'[c] = "call"
       /\ plan'[c] \in Plans /\ done'[c] = 0
    \/ /\ SameRound(c) /\ at[c] \in Tooling /\ at'[c] = "call"
       /\ plan'[c] = plan[c] /\ done'[c] = done[c] + 1 /\ done'[c] < Len(plan[c])
    \/ /\ SameTool(c) /\ at[c] = "running" /\ at'[c] = "call"
       /\ tries'[c] = tries[c] + 1 /\ tries'[c] <= MaxAttempts
    \/ SameTool(c) /\ tries'[c] = tries[c] /\ Stage[at[c]] < Stage[at'[c]]

Keep(c) == at[c] # "idle" /\ at'[c] # "idle" => Still(c) \/ GoesOn(c)

AllKeepOn == \A c \in Chats : Keep(c)

\* A step of c leaves the places of the other requests alone.
OnlyMoves(c) == \A d \in Chats \ {c} : Still(d)

LEMMA ResultGoesOn ==
    ASSUME IInv, NEW c \in Chats, at[c] \in Tooling, ResultAdded(c)
    PROVE  OnlyMoves(c) /\ Keep(c)
<1>1. /\ round[c] \in Nat /\ round[c] < MaxRounds /\ done[c] \in Nat
      /\ plan[c] \in Plans /\ done[c] < Len(plan[c]) /\ Len(plan[c]) \in Nat
  <2>1. plan[c] \in Plans
    BY DEF IInv, Within
  <2>2. plan[c] \in Seq(Tools)
    BY <2>1, ChatAssumption
  <2> QED BY <2>1, <2>2 DEF IInv, TypeOK, Within
<1>2. /\ DOMAIN at = Chats /\ DOMAIN round = Chats /\ DOMAIN plan = Chats
      /\ DOMAIN done = Chats /\ DOMAIN tries = Chats
  BY DEF IInv, TypeOK
<1>3. OnlyMoves(c)
  BY <1>2 DEF ResultAdded, OnlyMoves, Still, SameTool, SameRound
<1>4. CASE done[c] + 1 = Len(plan[c])
  <2>1. round'[c] = round[c] + 1
    BY <1>2, <1>4 DEF ResultAdded
  <2>2. round'[c] <= MaxRounds
    BY <1>1, <2>1, ChatAssumption
  <2> QED BY <1>3, <2>1, <2>2 DEF Keep, GoesOn
<1>5. CASE done[c] + 1 # Len(plan[c])
  <2>1. /\ round'[c] = round[c] /\ plan'[c] = plan[c] /\ done'[c] = done[c] + 1
        /\ at'[c] = "call"
    BY <1>2, <1>5 DEF ResultAdded
  <2>2. done'[c] < Len(plan[c])
    BY <1>1, <1>5, <2>1
  <2> QED BY <1>3, <2>1, <2>2 DEF Keep, GoesOn, SameRound
<1> QED BY <1>4, <1>5

\* From one place of an attempt, or of a round, to a later one.
LEMMA PlaceGoesOn ==
    ASSUME IInv, NEW c \in Chats, NEW from \in Places \ {"idle"}, NEW to \in Places \ {"idle"},
           Goes(c, from, to), UNCHANGED local, Stage[from] < Stage[to]
    PROVE  OnlyMoves(c) /\ Keep(c)
<1>1. /\ at[c] = from /\ at'[c] = to
      /\ \A d \in Chats \ {c} : at'[d] = at[d]
  BY DEF Goes, IInv, TypeOK
<1>2. UNCHANGED <<round, plan, done, tries>>
  BY DEF local
<1> QED BY <1>1, <1>2 DEF OnlyMoves, Keep, GoesOn, Still, SameTool, SameRound

LEMMA OverGoesOn ==
    ASSUME IInv, NEW c \in Chats, Over(c)
    PROVE  OnlyMoves(c) /\ Keep(c)
BY DEF Over, OnlyMoves, Keep, Still, SameTool, SameRound, IInv, TypeOK

LEMMA StartGoesOn ==
    ASSUME IInv, NEW c \in Chats, Starts(c)
    PROVE  OnlyMoves(c) /\ Keep(c)
BY DEF Starts, Goes, local, OnlyMoves, Keep, Still, SameTool, SameRound, IInv, TypeOK

LEMMA ModelCallsGoesOn ==
    ASSUME IInv, NEW c \in Chats, NEW p \in Plans, ModelCalls(c, p)
    PROVE  OnlyMoves(c) /\ Keep(c)
<1>1. CASE Over(c)
  BY <1>1, OverGoesOn
<1>2. CASE ~Over(c)
  <2>1. /\ at[c] = "llm" /\ at' = [at EXCEPT ![c] = "call"]
        /\ plan' = [plan EXCEPT ![c] = p] /\ done' = [done EXCEPT ![c] = 0]
        /\ tries' = [tries EXCEPT ![c] = 1] /\ UNCHANGED round
    BY <1>2 DEF ModelCalls
  <2>2. /\ at'[c] = "call" /\ plan'[c] = p /\ done'[c] = 0 /\ round'[c] = round[c]
        /\ \A d \in Chats \ {c} : /\ at'[d] = at[d] /\ plan'[d] = plan[d] /\ done'[d] = done[d]
                                  /\ tries'[d] = tries[d] /\ round'[d] = round[d]
    BY <2>1 DEF IInv, TypeOK
  <2> QED BY <2>1, <2>2 DEF OnlyMoves, Keep, GoesOn, Still, SameTool, SameRound
<1> QED BY <1>1, <1>2

LEMMA RetryGoesOn ==
    ASSUME IInv, NEW c \in Chats, Retries(c)
    PROVE  OnlyMoves(c) /\ Keep(c)
<1>1. /\ DOMAIN at = Chats /\ DOMAIN tries = Chats /\ tries[c] \in Nat
  BY ChatAssumption DEF IInv, TypeOK
<1>2. /\ tries[c] < MaxAttempts /\ tries'[c] = tries[c] + 1
      /\ at[c] = "running" /\ at'[c] = "call"
      /\ UNCHANGED <<round, plan, done>>
      /\ \A d \in Chats \ {c} : at'[d] = at[d] /\ tries'[d] = tries[d]
  BY <1>1 DEF Retries, Goes
<1>3. tries'[c] <= MaxAttempts
  BY <1>1, <1>2, ChatAssumption
<1> QED BY <1>2, <1>3 DEF OnlyMoves, Keep, GoesOn, Still, SameTool, SameRound

LEMMA MovesGoOn ==
    ASSUME IInv, NEW c \in Chats,
           \/ Questions(c) \/ Begins(c) \/ RoundStarts(c) \/ Strips(c) \/ Sends(c)
           \/ Allowed(c) \/ Asks(c) \/ Resolved(c) \/ Granted(c)
    PROVE  OnlyMoves(c) /\ Keep(c)
<1> DEFINE Step(from, to) == Goes(c, from, to) /\ UNCHANGED local
<1>1. \/ Step("context", "resume") \/ Step("resume", "round")
      \/ Step("round", "strip") \/ Step("strip", "send") \/ Step("send", "llm")
      \/ Step("call", "running") \/ Step("call", "asking")
      \/ Step("asking", "answered") \/ Step("answered", "running")
  BY DEF Questions, Begins, RoundStarts, Strips, Sends, Allowed, Asks, Resolved, Granted
<1>2. /\ Stage["context"] < Stage["resume"] /\ Stage["resume"] < Stage["round"]
      /\ Stage["round"] < Stage["strip"]
      /\ Stage["strip"] < Stage["send"] /\ Stage["send"] < Stage["llm"]
      /\ Stage["call"] < Stage["running"] /\ Stage["call"] < Stage["asking"]
      /\ Stage["asking"] < Stage["answered"] /\ Stage["answered"] < Stage["running"]
  BY DEF Stage, Places
<1>3. {"context", "resume", "round", "strip", "send", "llm",
       "call", "asking", "answered", "running"} \subseteq Places \ {"idle"}
  BY DEF Places
<1> QED BY <1>1, <1>2, <1>3, PlaceGoesOn

LEMMA StepGoesOn == IInv /\ [Next]_vars => AllKeepOn
<1> SUFFICES ASSUME IInv, [Next]_vars PROVE AllKeepOn
  OBVIOUS
<1>1. ASSUME NEW c \in Chats, OnlyMoves(c) /\ Keep(c) PROVE AllKeepOn
  BY <1>1 DEF OnlyMoves, Keep, AllKeepOn
<1>2. ASSUME NEW c \in Chats, Blocked(c) \/ Refused(c) \/ ToolReturns(c) PROVE AllKeepOn
  BY <1>1, <1>2, ResultGoesOn DEF Blocked, Refused, ToolReturns, Tooling
<1>3. ASSUME NEW c \in Chats, \/ Cancelled(c) \/ RoundsAreOver(c)
                                 \/ TooLong(c) \/ ModelConcludes(c)
      PROVE  AllKeepOn
  BY <1>1, <1>3, OverGoesOn DEF Cancelled, RoundsAreOver, TooLong, ModelConcludes
<1>4. ASSUME NEW c \in Chats, Starts(c) \/ Advances(c) \/ ToolEnds(c) \/ Resolved(c)
      PROVE  AllKeepOn
  BY <1>1, <1>2, <1>3, <1>4, StartGoesOn, MovesGoOn, RetryGoesOn DEF Advances, ToolEnds
<1>5. ASSUME NEW c \in Chats, NEW p \in Plans, ModelCalls(c, p) PROVE AllKeepOn
  BY <1>1, <1>5, ModelCallsGoesOn
<1>6. ASSUME UNCHANGED vars PROVE AllKeepOn
  BY <1>6 DEF vars, local, AllKeepOn, Keep, Still, SameTool, SameRound
<1> QED BY <1>3, <1>4, <1>5, <1>6 DEF Next

\* A request in its rounds only goes on, within its limits, whatever the other
\* requests do to the agent they share: what ChatsEnd says of the end, but for
\* the fairness that brings it about.
THEOREM ChatsGoOn == Spec => [][AllKeepOn]_vars
BY Invariance, StepGoesOn, PTL DEF Spec
=============================================================================
