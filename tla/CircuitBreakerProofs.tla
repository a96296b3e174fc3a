------------------------ MODULE CircuitBreakerProofs ------------------------
(* What holds of CircuitBreaker for any number of callers and any limits. *)
EXTENDS CircuitBreaker, TLAPS

BreakerTypes ==
    /\ state \in States /\ probes \in Nat
    /\ openedFor \in Nat \cup {Never}
    /\ failed \in [Ages -> Nat] /\ passed \in [Ages -> Nat]

CallerTypes ==
    /\ at \in [Callers -> {"idle", "call", "probe", "backoff"}]
    /\ attempt \in [Callers -> 0..MaxAttempts]
    /\ \A c \in Callers : at[c] = "backoff" => attempt[c] < MaxAttempts
    /\ healthy \in BOOLEAN

IInv == BreakerTypes /\ CallerTypes /\ OpenedIsKnown

LEMMA InitInv == Init => IInv
BY BreakerAssumption
   DEF Init, IInv, BreakerTypes, CallerTypes, OpenedIsKnown, States

\* What each method of the breaker does to its own attributes.
LEMMA AllowKeepsBreaker ==
    ASSUME BreakerTypes, OpenedIsKnown, AllowTrue \/ AllowFalse,
           UNCHANGED <<failed, passed>>
    PROVE  BreakerTypes' /\ OpenedIsKnown'
BY DEF BreakerTypes, OpenedIsKnown, AllowTrue, AllowFalse, HalfOpen, Cooled, States

LEMMA SuccessKeepsBreaker ==
    ASSUME BreakerTypes, OpenedIsKnown, RecordSuccess
    PROVE  BreakerTypes' /\ OpenedIsKnown'
<1>1. passed' \in [Ages -> Nat] /\ failed' \in [Ages -> Nat]
  BY BreakerAssumption DEF BreakerTypes, RecordSuccess, Ages
<1>2. /\ state' \in States /\ probes' \in Nat /\ openedFor' \in Nat \cup {Never}
      /\ OpenedIsKnown'
  BY DEF BreakerTypes, OpenedIsKnown, RecordSuccess, States
<1> QED
  BY <1>1, <1>2 DEF BreakerTypes

LEMMA FailureKeepsBreaker ==
    ASSUME BreakerTypes, OpenedIsKnown, RecordFailure
    PROVE  BreakerTypes' /\ OpenedIsKnown'
<1>1. passed' \in [Ages -> Nat] /\ failed' \in [Ages -> Nat]
  BY BreakerAssumption DEF BreakerTypes, RecordFailure, Ages
<1>2. /\ state' \in States /\ probes' \in Nat /\ openedFor' \in Nat \cup {Never}
      /\ OpenedIsKnown'
  BY BreakerAssumption DEF BreakerTypes, OpenedIsKnown, RecordFailure, States
<1> QED
  BY <1>1, <1>2 DEF BreakerTypes

\* An attempt is within the limit: a caller backs off only if one is left.
LEMMA AttemptIsLimited ==
    ASSUME CallerTypes, NEW c \in Callers, Attempts(c)
    PROVE  attempt' \in [Callers -> 0..MaxAttempts]
           /\ \A d \in Callers \ {c} : attempt'[d] = attempt[d]
BY BreakerAssumption DEF CallerTypes, Attempts

LEMMA OlderIsTyped ==
    ASSUME NEW events \in [Ages -> Nat]
    PROVE  Older(events) \in [Ages -> Nat]
BY BreakerAssumption DEF Older, Ages

LEMMA StepInv == IInv /\ [Next]_vars => IInv'
<1> SUFFICES ASSUME IInv, [Next]_vars PROVE IInv'
  OBVIOUS
<1> USE DEF IInv
<1>1. ASSUME NEW c \in Callers, Admitted(c) PROVE IInv'
  <2>1. BreakerTypes' /\ OpenedIsKnown'
    BY <1>1, AllowKeepsBreaker DEF Admitted
  <2>2. CallerTypes'
    BY <1>1, AttemptIsLimited DEF Admitted, CallerTypes
  <2> QED BY <2>1, <2>2
<1>2. ASSUME NEW c \in Callers, Refused(c) PROVE IInv'
  <2>1. BreakerTypes' /\ OpenedIsKnown'
    BY <1>2, AllowKeepsBreaker DEF Refused
  <2>2. CallerTypes'
    BY <1>2, AttemptIsLimited DEF Refused, CallerTypes
  <2> QED BY <2>1, <2>2
<1>3. ASSUME NEW c \in Callers, Succeeds(c) PROVE IInv'
  <2>1. BreakerTypes' /\ OpenedIsKnown'
    BY <1>3, SuccessKeepsBreaker DEF Succeeds
  <2>2. CallerTypes'
    BY <1>3 DEF Succeeds, CallerTypes
  <2> QED BY <2>1, <2>2
<1>4. ASSUME NEW c \in Callers, Fails(c) PROVE IInv'
  <2>1. BreakerTypes' /\ OpenedIsKnown'
    BY <1>4, FailureKeepsBreaker DEF Fails
  <2>2. CallerTypes'
    BY <1>4 DEF Fails, CallerTypes
  <2> QED BY <2>1, <2>2
<1>5. ASSUME NEW c \in Callers, Cancelled(c) PROVE IInv'
  <2>1. BreakerTypes' /\ OpenedIsKnown'
    <3>1. CASE InCall(c) /\ RecordFailure
      BY <3>1, FailureKeepsBreaker
    <3>2. CASE UNCHANGED <<state, openedFor, probes, failed, passed>>
      BY <3>2 DEF BreakerTypes, OpenedIsKnown
    <3> QED BY <1>5, <3>1, <3>2 DEF Cancelled
  <2>2. CallerTypes'
    BY <1>5 DEF Cancelled, CallerTypes
  <2> QED BY <2>1, <2>2
<1>6. ASSUME Tick PROVE IInv'
  <2>1. failed' \in [Ages -> Nat] /\ passed' \in [Ages -> Nat]
    BY <1>6, OlderIsTyped DEF Tick, BreakerTypes
  <2>2. openedFor' \in Nat \cup {Never} /\ OpenedIsKnown' /\ CallerTypes'
    BY <1>6, BreakerAssumption DEF Tick, BreakerTypes, OpenedIsKnown, CallerTypes
  <2> QED BY <1>6, <2>1, <2>2 DEF Tick, BreakerTypes
<1>7. ASSUME Provider PROVE IInv'
  BY <1>7 DEF Provider, BreakerTypes, OpenedIsKnown, CallerTypes
<1>8. ASSUME UNCHANGED vars PROVE IInv'
  BY <1>8 DEF vars, BreakerTypes, OpenedIsKnown, CallerTypes
<1> QED
  BY <1>1, <1>2, <1>3, <1>4, <1>5, <1>6, <1>7, <1>8 DEF Next

THEOREM Invariance == Spec => []IInv
BY InitInv, StepInv, PTL DEF Spec

\* Values keep their types, and no call is tried more than MaxAttempts times.
THEOREM BreakerTypeOK == Spec => []TypeOK
<1>1. IInv => TypeOK
  BY DEF IInv, BreakerTypes, CallerTypes, TypeOK
<1> QED BY <1>1, Invariance, PTL

\* _opened_at is set exactly as long as the breaker is not closed.
THEOREM BreakerOpenedIsKnown == Spec => []OpenedIsKnown
<1>1. IInv => OpenedIsKnown
  BY DEF IInv
<1> QED BY <1>1, Invariance, PTL

\* The breaker has the transitions of its docstring, however many callers
\* report to it, in whatever order and however late.
THEOREM BreakerTransitions == Spec => DocumentedTransitions
<1> DEFINE Step ==
        /\ state = "closed" => state' \in {"closed", "open"}
        /\ state = "open" => state' \in {"open", "half_open"}
        /\ state = "half_open" => state' \in States
        /\ state = "open" /\ state' # state => Cooled
<1>1. IInv /\ [Next]_vars => [Step]_vars
  <2> SUFFICES ASSUME IInv, Next PROVE Step
    OBVIOUS
  <2> USE DEF IInv, BreakerTypes, States
  <2>1. ASSUME NEW c \in Callers, Admitted(c) \/ Refused(c) PROVE Step
    BY <2>1 DEF Admitted, Refused, AllowTrue, AllowFalse, HalfOpen
  <2>2. ASSUME NEW c \in Callers, Succeeds(c) PROVE Step
    BY <2>2 DEF Succeeds, RecordSuccess
  <2>3. ASSUME NEW c \in Callers, Fails(c) \/ Cancelled(c) PROVE Step
    BY <2>3 DEF Fails, Cancelled, RecordFailure
  <2>4. ASSUME Tick \/ Provider PROVE Step
    BY <2>4 DEF Tick, Provider
  <2> QED BY <2>1, <2>2, <2>3, <2>4 DEF Next
<1>2. Spec => [][Step]_vars
  BY <1>1, Invariance, PTL DEF Spec
<1> QED BY <1>2 DEF DocumentedTransitions

\* An open breaker lets nobody through, retries included.
THEOREM BreakerBlocks == Spec => NobodyCallsWhileOpen
<1> DEFINE Step ==
        state = "open" /\ state' = "open" =>
            \A c \in Callers : InCall(c)' => InCall(c)
<1>1. IInv /\ [Next]_vars => [Step]_vars
  <2> SUFFICES ASSUME IInv, Next, state = "open", state' = "open",
                      NEW d \in Callers, InCall(d)'
               PROVE  InCall(d)
    OBVIOUS
  <2> USE DEF IInv, CallerTypes, InCall
  <2>1. ASSUME NEW c \in Callers, Admitted(c) PROVE FALSE
    BY <2>1 DEF Admitted, AllowTrue, HalfOpen
  <2>2. ASSUME NEW c \in Callers, Refused(c) \/ Succeeds(c) \/ Fails(c) \/ Cancelled(c)
        PROVE  InCall(d)
    BY <2>2 DEF Refused, Succeeds, Fails, Cancelled
  <2>3. ASSUME Tick \/ Provider PROVE InCall(d)
    BY <2>3 DEF Tick, Provider
  <2> QED BY <2>1, <2>2, <2>3 DEF Next
<1>2. Spec => [][Step]_vars
  BY <1>1, Invariance, PTL DEF Spec
<1> QED BY <1>2 DEF NobodyCallsWhileOpen

-----------------------------------------------------------------------------
(* The safety halves of CallsEnd and Recovers *)

\* What is left of the retry loop of c: twice the attempts it has not made, and
\* the one that is under way.
Left(c) == 2 * (MaxAttempts - attempt[c]) + (IF InCall(c) THEN 1 ELSE 0)

\* Whatever happens to a call under way, the breaker opening or time included,
\* takes something of its retry loop away, or the loop is where it was.
CallsDescend ==
    [][ \A c \in Callers :
            at[c] # "idle" /\ at'[c] # "idle" =>
                \/ at'[c] = at[c] /\ attempt'[c] = attempt[c]
                \/ Left(c)' = Left(c) - 1 /\ Left(c)' \in Nat ]_vars

\* No retry loop goes round for ever: each call starts with at most 2 * MaxAttempts
\* things to do, and does one fewer whenever it moves.
THEOREM BreakerCallsDescend == Spec => CallsDescend
<1> DEFINE Step ==
        \A c \in Callers :
            at[c] # "idle" /\ at'[c] # "idle" =>
                \/ at'[c] = at[c] /\ attempt'[c] = attempt[c]
                \/ Left(c)' = Left(c) - 1 /\ Left(c)' \in Nat
<1>1. IInv /\ [Next]_vars => [Step]_vars
  <2> SUFFICES ASSUME IInv, Next, NEW d \in Callers, at[d] # "idle", at'[d] # "idle"
               PROVE  \/ at'[d] = at[d] /\ attempt'[d] = attempt[d]
                      \/ Left(d)' = Left(d) - 1 /\ Left(d)' \in Nat
    OBVIOUS
  <2>0. /\ at \in [Callers -> {"idle", "call", "probe", "backoff"}]
        /\ attempt \in [Callers -> 0..MaxAttempts]
        /\ MaxAttempts \in Nat /\ attempt[d] \in 0..MaxAttempts
        /\ at[d] = "backoff" => attempt[d] < MaxAttempts
    BY BreakerAssumption DEF IInv, CallerTypes
  <2>1. ASSUME NEW c \in Callers, Admitted(c) PROVE
            \/ at'[d] = at[d] /\ attempt'[d] = attempt[d]
            \/ Left(d)' = Left(d) - 1 /\ Left(d)' \in Nat
    <3>1. CASE c # d
      BY <2>0, <2>1, <3>1 DEF Admitted, Attempts
    <3>2. CASE c = d
      <4>1. /\ at[d] = "backoff" /\ attempt'[d] = attempt[d] + 1
            /\ at'[d] \in {"call", "probe"}
        BY <2>0, <2>1, <3>2 DEF Admitted, Attempts
      <4> QED BY <2>0, <4>1 DEF Left, InCall
    <3> QED BY <3>1, <3>2
  <2>2. ASSUME NEW c \in Callers, Refused(c) \/ Succeeds(c) \/ Cancelled(c)
        PROVE  at'[d] = at[d] /\ attempt'[d] = attempt[d]
    BY <2>0, <2>2 DEF Refused, Succeeds, Cancelled, Attempts
  <2>3. ASSUME NEW c \in Callers, Fails(c) PROVE
            \/ at'[d] = at[d] /\ attempt'[d] = attempt[d]
            \/ Left(d)' = Left(d) - 1 /\ Left(d)' \in Nat
    <3>1. CASE c # d
      BY <2>0, <2>3, <3>1 DEF Fails
    <3>2. CASE c = d
      <4>1. /\ at[d] \in {"call", "probe"} /\ attempt'[d] = attempt[d]
            /\ at'[d] = "backoff" /\ attempt[d] < MaxAttempts
        BY <2>0, <2>3, <3>2 DEF Fails, InCall
      <4> QED BY <2>0, <4>1 DEF Left, InCall
    <3> QED BY <3>1, <3>2
  <2>4. ASSUME Tick \/ Provider PROVE at'[d] = at[d] /\ attempt'[d] = attempt[d]
    BY <2>4 DEF Tick, Provider
  <2> QED BY <2>1, <2>2, <2>3, <2>4 DEF Next
<1>2. Spec => [][Step]_vars
  BY <1>1, Invariance, PTL DEF Spec
<1> QED BY <1>2 DEF CallsDescend

\* The breaker opens only under a call that fails of itself or is cancelled; the
\* call has left the provider by then.
OpensUnderFailure ==
    state # "open" /\ state' = "open" =>
        \E c \in Callers : /\ InCall(c) /\ ~InCall(c)'
                           /\ ~healthy \/ Cancelled(c)

OpensOnlyUnderFailures == [][OpensUnderFailure]_vars

\* While calls go well and none is cancelled a breaker that has been
\* left by open never gets back there, whatever its window still holds.
THEOREM BreakerOpensOnlyUnderFailures == Spec => OpensOnlyUnderFailures
<1>1. IInv /\ [Next]_vars => [OpensUnderFailure]_vars
  <2> SUFFICES ASSUME IInv, Next, state # "open", state' = "open"
               PROVE  \E c \in Callers :
                          InCall(c) /\ ~InCall(c)' /\ (~healthy \/ Cancelled(c))
    BY DEF OpensUnderFailure
  <2>0. at \in [Callers -> {"idle", "call", "probe", "backoff"}]
    BY DEF IInv, CallerTypes
  <2>1. ASSUME NEW c \in Callers, Admitted(c) \/ Refused(c) PROVE FALSE
    BY <2>1 DEF Admitted, Refused, AllowTrue, AllowFalse, HalfOpen
  <2>2. ASSUME NEW c \in Callers, Succeeds(c) PROVE FALSE
    BY <2>2 DEF Succeeds, RecordSuccess
  <2>3. ASSUME NEW c \in Callers, Fails(c)
        PROVE  InCall(c) /\ ~InCall(c)' /\ ~healthy
    BY <2>0, <2>3 DEF Fails, InCall
  <2>4. ASSUME NEW c \in Callers, Cancelled(c)
        PROVE  InCall(c) /\ ~InCall(c)' /\ Cancelled(c)
    <3>1. InCall(c)
      BY <2>4 DEF Cancelled
    <3>2. ~InCall(c)'
      BY <2>0, <2>4 DEF Cancelled, InCall
    <3> QED BY <2>4, <3>1, <3>2
  <2>5. ASSUME Tick \/ Provider PROVE FALSE
    BY <2>5 DEF Tick, Provider
  <2> QED BY <2>1, <2>2, <2>3, <2>4, <2>5 DEF Next
<1> QED BY <1>1, Invariance, PTL DEF Spec, OpensOnlyUnderFailures
=============================================================================
