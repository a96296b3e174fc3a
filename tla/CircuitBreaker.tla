-------------------------- MODULE CircuitBreaker --------------------------
(* The circuit breaker of one provider (harness/tools/circuit_breaker.py)    *)
(* and the retry loop every subagent call goes through                       *)
(* (_call_child_with_enhancements in harness/tools/subagent.py).  Calls are  *)
(* admitted by the breaker, take as long as they take, and report to it      *)
(* whatever it has become in between.                                        *)
EXTENDS Naturals, FiniteSets, Functions

CONSTANTS
    Callers,        \* subagents that share the breaker
    MaxAttempts,    \* DEFAULT_RETRY_MAX_ATTEMPTS
    MinCalls,       \* calls in the window before the breaker may trip
    Window,         \* failure_window_seconds, in units of time
    Cooldown,       \* open_cooldown_seconds, in units of time
    ProbesToClose,  \* half_open_probes_before_close
    Never,          \* _opened_at is None
    MaxEvents       \* bound on the events in the window that new calls may add to

ASSUME BreakerAssumption ==
    /\ {MaxAttempts, MinCalls, ProbesToClose} \subseteq Nat \ {0}
    /\ {Window, Cooldown, MaxEvents} \subseteq Nat
    /\ Never \notin Nat

VARIABLES
    state,      \* _state
    openedFor,  \* time since _opened_at, up to Cooldown
    failed,     \* age -> failures in _events
    passed,     \* age -> successes in _events
    probes,     \* _half_open_probes_passed
    at,         \* caller -> where its retry loop is
    attempt,    \* caller -> attempt
    healthy     \* whether calls go well: the provider answers, the child raises nothing

vars == <<state, openedFor, failed, passed, probes, at, attempt, healthy>>

States == {"closed", "open", "half_open"}
Ages == 0..Window

-----------------------------------------------------------------------------
(* The breaker *)

Init ==
    /\ state = "closed" /\ openedFor = Never /\ probes = 0
    /\ failed = [a \in Ages |-> 0] /\ passed = [a \in Ages |-> 0]
    /\ at = [c \in Callers |-> "idle"]
    /\ attempt = [c \in Callers |-> 0]
    /\ healthy \in BOOLEAN

Cooled == openedFor # Never /\ openedFor >= Cooldown

\* OPEN becomes HALF_OPEN when it is asked after the cooldown.
HalfOpen == state' = "half_open" /\ probes' = 0 /\ UNCHANGED openedFor

IgnoresCooldownBug ==
    \/ state \in {"closed", "half_open"} /\ UNCHANGED <<state, probes, openedFor>>
    \/ state = "open" /\ UNCHANGED <<state, probes, openedFor>>

AllowTrue ==
    \/ state \in {"closed", "half_open"} /\ UNCHANGED <<state, probes, openedFor>>
    \/ state = "open" /\ Cooled /\ HalfOpen

AllowFalse ==
    \/ state = "open" /\ ~Cooled /\ UNCHANGED <<state, probes, openedFor>>
    \/ state = "open" /\ Cooled /\ HalfOpen
    \/ state = "half_open" /\ UNCHANGED <<state, probes, openedFor>>

ClosesInAnyStateBug ==
    /\ passed' = [passed EXCEPT ![0] = @ + 1]
    /\ state' = "closed" /\ openedFor' = Never /\ probes' = probes
    /\ UNCHANGED failed

KeepsOpenedBug ==
    /\ passed' = [passed EXCEPT ![0] = @ + 1]
    /\ IF state = "half_open"
       THEN /\ probes' = probes + 1
            /\ state' = IF probes + 1 >= ProbesToClose THEN "closed" ELSE state
       ELSE UNCHANGED <<state, probes>>
    /\ UNCHANGED <<failed, openedFor>>

NeverClosesBug ==
    /\ passed' = [passed EXCEPT ![0] = @ + 1]
    /\ UNCHANGED probes
    /\ UNCHANGED <<failed, openedFor, state>>

\* A success closes a half-open breaker, whoever reports it.
RecordSuccess ==
    /\ passed' = [passed EXCEPT ![0] = @ + 1]
    /\ IF state = "half_open"
       THEN /\ probes' = probes + 1
            /\ IF probes + 1 >= ProbesToClose
               THEN state' = "closed" /\ openedFor' = Never
               ELSE UNCHANGED <<state, openedFor>>
       ELSE UNCHANGED <<state, openedFor, probes>>
    /\ UNCHANGED failed

\* With this failure the window has enough calls, half of which failed.
Trips ==
    LET bad == SumFunction(failed) + 1
        all == bad + SumFunction(passed)
    IN  all >= MinCalls /\ 2 * bad >= all

RecordFailure ==
    /\ failed' = [failed EXCEPT ![0] = @ + 1]
    /\ IF state = "half_open" \/ (state = "closed" /\ Trips)
       THEN state' = "open" /\ openedFor' = 0
       ELSE UNCHANGED <<state, openedFor>>
    /\ UNCHANGED <<passed, probes>>

-----------------------------------------------------------------------------
(* The callers *)

InCall(c) == at[c] \in {"call", "probe"}

\* Calls the window has room for, should all of them be retried.
Room ==
    SumFunction(failed) + SumFunction(passed)
        + MaxAttempts * (Cardinality({c \in Callers : at[c] # "idle"}) + 1) <= MaxEvents

SameAttemptBug(c) ==
    \/ at[c] = "idle" /\ Room /\ attempt' = [attempt EXCEPT ![c] = 1]
    \/ at[c] = "backoff" /\ UNCHANGED attempt

\* A new attempt: the first, or the one after a backoff.
Attempts(c) ==
    \/ at[c] = "idle" /\ Room /\ attempt' = [attempt EXCEPT ![c] = 1]
    \/ at[c] = "backoff" /\ attempt' = [attempt EXCEPT ![c] = @ + 1]

Admitted(c) ==
    /\ Attempts(c) /\ AllowTrue
    /\ at' = [at EXCEPT ![c] = IF state = "closed" THEN "call" ELSE "probe"]
    /\ UNCHANGED <<failed, passed, healthy>>

\* circuit_open is raised.
Refused(c) ==
    /\ Attempts(c) /\ AllowFalse
    /\ at' = [at EXCEPT ![c] = "idle"]
    /\ UNCHANGED <<failed, passed, healthy>>

Succeeds(c) ==
    /\ InCall(c) /\ healthy /\ RecordSuccess
    /\ at' = [at EXCEPT ![c] = "idle"]
    /\ UNCHANGED <<attempt, healthy>>

RetriesForeverBug(c) ==
    /\ InCall(c) /\ ~healthy /\ RecordFailure
    /\ at' = [at EXCEPT ![c] = "backoff"]
    /\ UNCHANGED <<attempt, healthy>>

\* Whatever the child raises is a failure to the breaker, which cannot tell the
\* provider's errors from others.
Fails(c) ==
    /\ InCall(c) /\ ~healthy /\ RecordFailure
    /\ \/ at' = [at EXCEPT ![c] = "idle"]
       \/ attempt[c] < MaxAttempts /\ at' = [at EXCEPT ![c] = "backoff"]
    /\ UNCHANGED <<attempt, healthy>>

\* The task that runs the call is cancelled: within the call, which the breaker
\* counts as a failure too, or in the backoff.
Cancelled(c) ==
    /\ \/ InCall(c) /\ RecordFailure
       \/ at[c] = "backoff" /\ UNCHANGED <<state, openedFor, probes, failed, passed>>
    /\ at' = [at EXCEPT ![c] = "idle"]
    /\ UNCHANGED <<attempt, healthy>>

-----------------------------------------------------------------------------
(* Time and the provider *)

Older(events) == [a \in Ages |-> IF a = 0 THEN 0 ELSE events[a - 1]]

Tick ==
    /\ failed' = Older(failed) /\ passed' = Older(passed)
    /\ openedFor' = IF openedFor = Never \/ openedFor >= Cooldown
                    THEN openedFor ELSE openedFor + 1
    /\ UNCHANGED <<state, probes, at, attempt, healthy>>

\* Calls begin to go well, or to fail.
Provider ==
    /\ healthy' = ~healthy
    /\ UNCHANGED <<state, openedFor, failed, passed, probes, at, attempt>>

Next ==
    \/ \E c \in Callers : \/ Admitted(c) \/ Refused(c)
                          \/ Succeeds(c) \/ Fails(c) \/ Cancelled(c)
    \/ Tick
    \/ Provider

Spec == Init /\ [][Next]_vars

\* Calls end and backoffs do too (spawn bounds a call by asyncio.wait_for), time
\* passes and new calls come.  A half-open breaker that is asked again and
\* again admits a call, for it admits each with the same probability.
Fairness ==
    /\ \A c \in Callers :
        /\ WF_vars(Succeeds(c) \/ Fails(c))
        /\ WF_vars(at[c] = "backoff" /\ (Admitted(c) \/ Refused(c)))
    /\ WF_vars(Tick)
    /\ WF_vars(\E c \in Callers : Admitted(c) \/ Refused(c))
    /\ SF_vars(\E c \in Callers : Admitted(c))

FairSpec == Spec /\ Fairness

-----------------------------------------------------------------------------
(* Properties *)

TypeOK ==
    /\ state \in States /\ probes \in Nat
    /\ openedFor \in Nat \cup {Never}
    /\ failed \in [Ages -> Nat] /\ passed \in [Ages -> Nat]
    /\ at \in [Callers -> {"idle", "call", "probe", "backoff"}]
    /\ attempt \in [Callers -> 0..MaxAttempts]
    /\ \A c \in Callers : at[c] = "backoff" => attempt[c] < MaxAttempts
    /\ healthy \in BOOLEAN

\* An open breaker knows since when: without _opened_at, allow() would refuse
\* every call for ever.  A closed one has forgotten it.
OpenedIsKnown == (openedFor = Never) <=> (state = "closed")

\* The transitions of the class's docstring and no others, whichever of the
\* callers reports and however late: an open breaker is left by asking it once
\* the cooldown is over, never by a success.
DocumentedTransitions ==
    [][ /\ state = "closed" => state' \in {"closed", "open"}
        /\ state = "open" => state' \in {"open", "half_open"}
        /\ state = "half_open" => state' \in States
        /\ state = "open" /\ state' # state => Cooled ]_vars

\* While the breaker stays open nobody gets through to the provider, retries
\* of calls that were admitted before it opened included.
NobodyCallsWhileOpen ==
    [][ state = "open" /\ state' = "open" =>
            \A c \in Callers : InCall(c)' => InCall(c) ]_vars

\* Every call is answered, retried at most MaxAttempts times, or given up.
CallsEnd == \A c \in Callers : at[c] # "idle" ~> at[c] = "idle"

\* When calls go well again and none is cancelled, the breaker closes for good:
\* late failures and cooldowns may delay it but do not keep it open.
Recovers ==
    <>[]healthy /\ <>[][\A c \in Callers : ~Cancelled(c)]_vars => <>[](state = "closed")
=============================================================================
