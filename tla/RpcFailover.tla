----------------------------- MODULE RpcFailover ------------------------------
(***************************************************************************)
(* The RPC client of packages/chain/src/rpc: a call is sent to a provider  *)
(* the selector offers, fails over to another and is retried; every        *)
(* provider has a circuit breaker, fed by the calls and by a health check  *)
(* that runs beside them.  The tracker keeps a copy of the breaker's state,*)
(* and the selector looks at the copy.                                     *)
(***************************************************************************)
EXTENDS Integers, FiniteSets

CONSTANTS
    Providers,          \* the configured urls
    Primary,            \* the primary provider
    Archive,            \* the archive provider, NoProvider if none is configured
    NoProvider,
    After,              \* the provider whose health is checked after another's
    Calls,              \* calls of the client's users
    FailureThreshold, HalfOpenMax, MaxAttempts,
    MaxChanges,         \* bound: how often a provider changes
    MaxRefusals         \* bound: errors of providers that are up, such as reverts

ASSUME RpcAssumption ==
    /\ NoProvider \notin Providers
    /\ Primary \in Providers
    /\ Archive \in Providers \cup {NoProvider}
    /\ After \in [Providers -> Providers]
    /\ FailureThreshold \in Nat \ {0}
    /\ HalfOpenMax \in Nat \ {0}
    /\ MaxAttempts \in Nat \ {0}
    /\ MaxChanges \in Nat /\ MaxRefusals \in Nat

VARIABLES
    status,             \* what the provider is: up, down, or of another chain
    breaker,            \* its CircuitBreaker
    cached,             \* health.circuitState, the tracker's copy
    chainOk,            \* health.chainIdMatch
    archiveOk,          \* health.archiveCapable is true
    checking, probe,    \* the provider whose health is checked, and the await of it
    pinned,             \* the calls of a method that wants historical state
    pc, tried, at, error, attempt, fallback,    \* the calls
    asked, twice,       \* history: whom its operation was sent to; to one of them again
    changes, refusals

health == <<breaker, cached, chainOk, archiveOk>>
call == <<pinned, pc, tried, at, error, attempt, fallback, asked, twice>>
bounds == <<changes, refusals>>
checks == <<checking, probe>>
vars == <<status, health, checks, call, bounds>>

Errors ==
    {"none", "retryable", "final", "unavailable"}

Breakers ==
    [state : {"closed", "open", "half-open"}, failures : 0 .. FailureThreshold,
     tests : 0 .. HalfOpenMax, cooled : BOOLEAN]

TypeOK ==
    /\ status \in [Providers -> {"up", "down", "wrong"}]
    /\ breaker \in [Providers -> Breakers]
    /\ cached \in [Providers -> {"closed", "open", "half-open"}]
    /\ chainOk \in [Providers -> BOOLEAN]
    /\ archiveOk \in [Providers -> BOOLEAN]
    /\ checking \in Providers
    /\ probe \in {"chain", "block", "archive"}
    /\ pinned \subseteq Calls
    /\ pc \in [Calls -> {"new", "sent", "erred", "delay", "answered", "failed"}]
    /\ tried \in [Calls -> SUBSET Providers]
    /\ at \in [Calls -> Providers \cup {NoProvider}]
    /\ error \in [Calls -> Errors]
    /\ attempt \in [Calls -> 1 .. MaxAttempts]
    /\ fallback \in [Calls -> BOOLEAN]
    /\ asked \in [Calls -> SUBSET Providers]
    /\ twice \in [Calls -> BOOLEAN]
    /\ changes \in 0 .. MaxChanges
    /\ refusals \in 0 .. MaxRefusals

ClosedBreaker == [state |-> "closed", failures |-> 0, tests |-> 0, cooled |-> FALSE]

Init ==
    /\ status \in [Providers -> {"up", "down", "wrong"}]
    /\ breaker = [p \in Providers |-> ClosedBreaker]
    /\ cached = [p \in Providers |-> "closed"]
    /\ chainOk = [p \in Providers |-> TRUE]
    /\ archiveOk = [p \in Providers |-> FALSE]
    /\ checking = Primary
    /\ probe = "chain"
    /\ pinned \in SUBSET Calls
    /\ pc = [c \in Calls |-> "new"]
    /\ tried = [c \in Calls |-> {}]
    /\ at = [c \in Calls |-> NoProvider]
    /\ error = [c \in Calls |-> "none"]
    /\ attempt = [c \in Calls |-> 1]
    /\ fallback = [c \in Calls |-> FALSE]
    /\ asked = [c \in Calls |-> {}]
    /\ twice = [c \in Calls |-> FALSE]
    /\ changes = 0
    /\ refusals = 0

-------------------------------------------------------------------------------
(* The circuit breaker.  "cooled" says that resetTimeoutMs have passed     *)
(* since lastFailureTime, which matters to an open circuit only; the count *)
(* of failures stops at the threshold, beyond which nothing reads it.      *)

\* getCircuitState: reading an open circuit may half open it.
Checked(b) ==
    IF b.state = "open" /\ b.cooled
    THEN [b EXCEPT !.state = "half-open", !.tests = 0, !.cooled = FALSE] ELSE b

CanExecute(b) ==
    LET s == Checked(b) IN
    \/ s.state = "closed"
    \/ s.state = "half-open" /\ s.tests < HalfOpenMax

\* Bug: off by one.
AfterSuccessOneMore(b) ==
    LET s == Checked(b) IN
    CASE s.state = "open" -> s
      [] s.state = "closed" -> [s EXCEPT !.failures = 0]
      [] s.state = "half-open" ->
            IF s.tests + 1 > HalfOpenMax THEN ClosedBreaker
            ELSE [s EXCEPT !.tests = @ + 1]

AfterSuccess(b) ==
    LET s == Checked(b) IN
    CASE s.state = "open" -> s
      [] s.state = "closed" -> [s EXCEPT !.failures = 0]
      [] s.state = "half-open" ->
            IF s.tests + 1 >= HalfOpenMax THEN ClosedBreaker
            ELSE [s EXCEPT !.tests = @ + 1]

Opened(b) == [b EXCEPT !.state = "open", !.tests = 0]

\* Bug: the circuit opens one failure late.
AfterFailureLate(b) ==
    LET s == Checked(b)
        f == [s EXCEPT !.failures = @ + 1, !.cooled = FALSE]
    IN  IF s.state = "half-open" \/ (s.state = "closed" /\ f.failures > FailureThreshold)
        THEN Opened(f) ELSE f

AfterFailure(b) ==
    LET s == Checked(b)
        n == IF s.failures < FailureThreshold THEN s.failures + 1 ELSE FailureThreshold
        f == [s EXCEPT !.failures = n, !.cooled = FALSE]
    IN  IF s.state = "half-open" \/ (s.state = "closed" /\ n >= FailureThreshold)
        THEN Opened(f) ELSE f

\* ProviderHealthTracker: every record refreshes the copy.
Record(p, after) ==
    /\ breaker' = [breaker EXCEPT ![p] = after]
    /\ cached' = [cached EXCEPT ![p] = Checked(after).state]

RecordSuccess(p) == Record(p, AfterSuccess(breaker[p]))
RecordFailure(p) == Record(p, AfterFailure(breaker[p]))

Healthy(p) == chainOk[p] /\ cached[p] # "open"

-------------------------------------------------------------------------------
(* The selector.  Lag, latency and error rate order the candidates, and    *)
(* any order of them can arise.                                            *)

Plain == Providers \ {Archive}

Historical(c) == c \in pinned /\ Archive # NoProvider

\* getCandidateProviders: only a provider known to keep history serves a
\* historical method, and the archive serves nothing else.
Candidates(c) ==
    {p \in Providers : /\ Healthy(p)
                       /\ IF Historical(c) THEN archiveOk[p] ELSE p \in Plain}

\* selectFallbackProvider does not ask for history, and admits the archive.
Fallbacks(excluded) == {p \in Providers \ excluded : Healthy(p)}

\* Bug: a fallback is not looked for.
BestOnly(c, best) == {best} \ tried[c]

\* Bug: the best candidate whether it was tried or not.
BestAgain(c, best) == {best}

\* selectNextProvider: the best candidate, or a fallback when it was tried before.
Chosen(c, best) == IF best \in tried[c] THEN Fallbacks(tried[c]) ELSE {best}

-------------------------------------------------------------------------------
(* A call.                                                                 *)

\* The call returns; its local variables go.
Return(c, how) ==
    /\ pc' = [pc EXCEPT ![c] = how]
    /\ tried' = [tried EXCEPT ![c] = {}]
    /\ at' = [at EXCEPT ![c] = NoProvider]
    /\ error' = [error EXCEPT ![c] = "none"]
    /\ attempt' = [attempt EXCEPT ![c] = 1]
    /\ fallback' = [fallback EXCEPT ![c] = FALSE]
    /\ asked' = [asked EXCEPT ![c] = {}]
    /\ UNCHANGED <<pinned, twice>>

\* executeOnProvider, up to the operation's answer; waiting for a token of
\* the rate limiter and for the answer are one await.
Enter(c, p, isFallback) ==
    /\ tried' = [tried EXCEPT ![c] = @ \cup {p}]
    /\ at' = [at EXCEPT ![c] = p]
    /\ fallback' = [fallback EXCEPT ![c] = isFallback]
    /\ breaker' = [breaker EXCEPT ![p] = Checked(@)]
    /\ IF CanExecute(breaker[p])
       THEN /\ pc' = [pc EXCEPT ![c] = "sent"]
            /\ asked' = [asked EXCEPT ![c] = @ \cup {p}]
            /\ twice' = [twice EXCEPT ![c] = @ \/ p \in asked[c]]
            /\ UNCHANGED error
       ELSE /\ pc' = [pc EXCEPT ![c] = "erred"]
            /\ error' = [error EXCEPT ![c] = "unavailable"]
            /\ UNCHANGED <<asked, twice>>
    /\ UNCHANGED <<status, cached, chainOk, archiveOk, checks, pinned, attempt, bounds>>

Select(c) ==
    /\ pc[c] \in {"new", "delay"}
    /\ \E best \in Candidates(c) : \E p \in Chosen(c, best) : Enter(c, p, FALSE)

\* Nobody to ask: the error of it is not retried.
Unavailable(c) ==
    /\ pc[c] \in {"new", "delay"}
    /\ Candidates(c) = {} \/ \E best \in Candidates(c) : Chosen(c, best) = {}
    /\ Return(c, "failed")
    /\ UNCHANGED <<status, health, checks, bounds>>

Answer(c) ==
    /\ pc[c] = "sent"
    /\ status[at[c]] # "down"
    /\ RecordSuccess(at[c])
    /\ Return(c, "answered")
    /\ UNCHANGED <<status, chainOk, archiveOk, checks, bounds>>

Throw(c, kind) ==
    /\ RecordFailure(at[c])
    /\ pc' = [pc EXCEPT ![c] = "erred"]
    /\ error' = [error EXCEPT ![c] = kind]
    /\ UNCHANGED <<status, chainOk, archiveOk, checks, pinned, tried, at, attempt, fallback,
                   asked, twice, changes>>

\* A refused connection or a timeout is retried, an unreadable answer is not.
NoAnswer(c) ==
    /\ pc[c] = "sent"
    /\ status[at[c]] = "down"
    /\ \E kind \in {"retryable", "final"} : Throw(c, kind)
    /\ UNCHANGED refusals

\* A revert, which counts as a failure of the provider all the same.
Refuse(c) ==
    /\ pc[c] = "sent"
    /\ status[at[c]] # "down"
    /\ refusals < MaxRefusals
    /\ refusals' = refusals + 1
    /\ Throw(c, "final")

\* handleProviderError: once per attempt, whatever the error.
HandleProviderError(c) ==
    /\ pc[c] = "erred"
    /\ ~fallback[c]
    /\ \E p \in Fallbacks(tried[c]) : Enter(c, p, TRUE)

Rethrown(c) ==
    /\ pc[c] = "erred"
    /\ fallback[c] \/ Fallbacks(tried[c]) = {}

RetryLater(c) ==
    /\ Rethrown(c)
    /\ error[c] = "retryable"
    /\ attempt[c] < MaxAttempts
    /\ pc' = [pc EXCEPT ![c] = "delay"]
    /\ attempt' = [attempt EXCEPT ![c] = @ + 1]
    /\ UNCHANGED <<status, health, checks, pinned, tried, at, error, fallback, asked, twice, bounds>>

\* Bug: the loop over the attempts ends without an error.
GiveUpOnOthers(c) ==
    /\ Rethrown(c)
    /\ error[c] # "retryable"
    /\ Return(c, "failed")
    /\ UNCHANGED <<status, health, checks, bounds>>

GiveUp(c) ==
    /\ Rethrown(c)
    /\ error[c] # "retryable" \/ attempt[c] = MaxAttempts
    /\ Return(c, "failed")
    /\ UNCHANGED <<status, health, checks, bounds>>

Step(c) ==
    \/ Select(c) \/ Unavailable(c) \/ Answer(c) \/ NoAnswer(c)
    \/ HandleProviderError(c) \/ RetryLater(c) \/ GiveUp(c)

-------------------------------------------------------------------------------
(* The health check: one provider after the other, an await for its chain  *)
(* id, one for its block, one more for the archive.  It asks the provider  *)
(* whatever the breaker says.                                              *)

CheckNext ==
    /\ checking' = After[checking]
    /\ probe' = "chain"

ProbeFails ==
    /\ probe # "archive"
    /\ status[checking] = "down"
    /\ RecordFailure(checking)
    /\ CheckNext
    /\ UNCHANGED <<status, chainOk, archiveOk, call, bounds>>

\* validateChainId
ProbeChain ==
    /\ probe = "chain"
    /\ status[checking] = "up"
    /\ probe' = "block"
    /\ UNCHANGED <<status, health, checking, call, bounds>>

ProbeMismatch ==
    /\ probe = "chain"
    /\ status[checking] = "wrong"
    /\ chainOk' = [chainOk EXCEPT ![checking] = FALSE]
    /\ RecordFailure(checking)
    /\ CheckNext
    /\ UNCHANGED <<status, archiveOk, call, bounds>>

\* The archive is asked one thing more.
BlockSeen ==
    IF checking = Archive THEN probe' = "archive" /\ UNCHANGED checking ELSE CheckNext

\* Bug: the chain id stays in doubt once it was.
ProbeBlockOnly ==
    /\ probe = "block"
    /\ status[checking] # "down"
    /\ RecordSuccess(checking)
    /\ BlockSeen
    /\ UNCHANGED <<status, chainOk, archiveOk, call, bounds>>

\* updateBlockInfo
ProbeBlock ==
    /\ probe = "block"
    /\ status[checking] # "down"
    /\ chainOk' = [chainOk EXCEPT ![checking] = TRUE]
    /\ RecordSuccess(checking)
    /\ BlockSeen
    /\ UNCHANGED <<status, archiveOk, call, bounds>>

\* checkArchiveCapability
ProbeArchive ==
    /\ probe = "archive"
    /\ archiveOk' = [archiveOk EXCEPT ![checking] = status[checking] # "down"]
    /\ CheckNext
    /\ UNCHANGED <<status, breaker, cached, chainOk, call, bounds>>

Probe == ProbeFails \/ ProbeChain \/ ProbeMismatch \/ ProbeBlock \/ ProbeArchive

-------------------------------------------------------------------------------
(* Surroundings.                                                           *)

Change(p) ==
    /\ changes < MaxChanges
    /\ \E s \in {"up", "down", "wrong"} \ {status[p]} : status' = [status EXCEPT ![p] = s]
    /\ changes' = changes + 1
    /\ UNCHANGED <<health, checks, call, refusals>>

\* resetTimeoutMs pass without a failure of p.
Cool(p) ==
    /\ breaker[p].state = "open"
    /\ ~breaker[p].cooled
    /\ breaker' = [breaker EXCEPT ![p].cooled = TRUE]
    /\ UNCHANGED <<status, cached, chainOk, archiveOk, checks, call, bounds>>

Next ==
    \/ \E c \in Calls : Step(c) \/ Refuse(c)
    \/ Probe
    \/ \E p \in Providers : Cool(p) \/ Change(p)

Spec == Init /\ [][Next]_vars

\* A request is answered or times out, delays end, setInterval goes on and
\* the clock does.
FairSpec ==
    /\ Spec
    /\ \A c \in Calls : WF_vars(Step(c))
    /\ WF_vars(Probe)
    /\ \A p \in Providers : WF_vars(Cool(p))

-------------------------------------------------------------------------------
(* Properties.                                                             *)

\* The selector looks at a copy of the breaker's state and the call at the
\* breaker (rpc-client.ts:615): a provider that is offered is never refused,
\* half open or not, however calls and health checks interleave.
OfferedIsExecutable == \A p \in Providers : Healthy(p) => CanExecute(breaker[p])

\* Why: the copy is never behind, and a circuit closes at its last test.
BreakerInv ==
    \A p \in Providers :
        /\ cached[p] = breaker[p].state
        /\ breaker[p].state = "half-open" => breaker[p].tests < HalfOpenMax

\* executeWithFailover (rpc-client.ts:554) never sends a call to one provider
\* twice, over all its failovers and attempts: a broadcast reaches it once.
SentOnce == \A c \in Calls : ~twice[c]

\* Why: whom a call was sent to it has tried, over all its attempts.
CallInv ==
    \A c \in Calls :
        /\ pc[c] = "sent" => at[c] \in Providers
        /\ asked[c] \subseteq tried[c]
        /\ ~twice[c]

\* A call that fails for want of an answer leaves no healthy provider unasked, the
\* archive included (rpc-client.ts:576), unless there was none it could begin with:
\* for a historical method, with an archive configured, none that is known to keep
\* history, be the others up or not (provider-selector.ts:107); else none but the
\* archive.
GivesUp(c) == pc[c] # "failed" /\ pc'[c] = "failed" /\ error[c] # "final"

NobodyLeftUnasked ==
    [][\A c \in Calls : GivesUp(c) /\ Candidates(c) # {}
            => \A p \in Providers : Healthy(p) => p \in tried[c]]_vars

\* What it takes: every attempt tries a provider of its own, and the last
\* may end on a fallback of its own.
FewProviders == IsFiniteSet(Providers) /\ Cardinality(Providers) <= MaxAttempts + 1

\* Why: every attempt so far has cost a provider, and a fallback one more.
AskedInv ==
    \A c \in Calls :
        /\ pc[c] = "new" => attempt[c] = 1
        /\ pc[c] = "delay" => Cardinality(tried[c]) >= attempt[c] - 1
        /\ pc[c] \in {"sent", "erred"} => Cardinality(tried[c]) >= attempt[c]
        /\ pc[c] \in {"sent", "erred"} /\ fallback[c] => Cardinality(tried[c]) > attempt[c]
        /\ pc[c] = "erred" => error[c] \in {"retryable", "final"}

\* A provider that stays up is offered again for good, whatever its breaker
\* and its chain id had come to: only the health check can see to that, no
\* call is sent to it before (rpc-client.ts:159, circuit-breaker.ts:31).
RecoveredIsOfferedAgain ==
    \A p \in Providers : <>[](status[p] = "up") => <>[]Healthy(p)

\* Every call ends (retry-policy.ts:34): failing over does not go in circles.
CallsEnd == \A c \in Calls : pc[c] # "new" ~> pc[c] \in {"answered", "failed"}
===============================================================================
