--------------------------- MODULE RpcFailoverProofs --------------------------
(***************************************************************************)
(* Proofs about RpcFailover, for every set of providers and calls, every   *)
(* threshold and number of attempts.                                       *)
(***************************************************************************)
EXTENDS RpcFailover, FiniteSetTheorems, TLAPS

\* The inductive invariant.
IInv == TypeOK /\ BreakerInv /\ CallInv

\* A half-open breaker has tests left.
Fine(b) == b \in Breakers /\ (b.state = "half-open" => b.tests < HalfOpenMax)

\* Reading a breaker keeps it fine.
LEMMA CheckedFine ==
    ASSUME NEW b, Fine(b)
    PROVE  Fine(Checked(b))
  <1> DEFINE h == [b EXCEPT !.state = "half-open", !.tests = 0, !.cooled = FALSE]
  <1>1. b \in Breakers /\ 0 \in 0 .. HalfOpenMax /\ 0 < HalfOpenMax
    BY RpcAssumption DEF Fine
  <1>2. h \in Breakers /\ h.tests = 0
    BY <1>1 DEF Breakers
  <1> HIDE DEF h
  <1>3. Fine(h)
    BY <1>1, <1>2 DEF Fine
  <1>4. Checked(b) = h \/ Checked(b) = b
    BY DEF Checked, h
  <1> QED BY <1>3, <1>4

\* So does a success; what it leaves reads as it is.
LEMMA SuccessFine ==
    ASSUME NEW b, Fine(b)
    PROVE  Fine(AfterSuccess(b)) /\ Checked(AfterSuccess(b)) = AfterSuccess(b)
  <1> DEFINE s == Checked(b)
  <1> USE RpcAssumption
  <1>1. Fine(s) /\ (s.state = "open" => ~s.cooled)
    BY CheckedFine DEF Fine, Breakers, Checked
  <1>2. AfterSuccess(b) =
          CASE s.state = "open" -> s
            [] s.state = "closed" -> [s EXCEPT !.failures = 0]
            [] s.state = "half-open" ->
                  IF s.tests + 1 >= HalfOpenMax THEN ClosedBreaker
                  ELSE [s EXCEPT !.tests = @ + 1]
    BY DEF AfterSuccess
  <1> HIDE DEF s
  <1>3. CASE s.state = "open"
    BY <1>1, <1>2, <1>3 DEF Checked
  <1>4. CASE s.state = "closed"
    <2>1. AfterSuccess(b) = [s EXCEPT !.failures = 0]
      BY <1>2, <1>4
    <2> QED BY <1>1, <1>4, <2>1 DEF Fine, Breakers, Checked
  <1>5. CASE s.state = "half-open"
    <2>1. AfterSuccess(b) = IF s.tests + 1 >= HalfOpenMax THEN ClosedBreaker
                            ELSE [s EXCEPT !.tests = @ + 1]
      BY <1>2, <1>5
    <2> QED BY <1>1, <1>5, <2>1 DEF Fine, Breakers, Checked, ClosedBreaker
  <1> QED BY <1>1, <1>3, <1>4, <1>5 DEF Fine, Breakers

\* And so does a failure.
LEMMA FailureFine ==
    ASSUME NEW b, Fine(b)
    PROVE  Fine(AfterFailure(b)) /\ Checked(AfterFailure(b)) = AfterFailure(b)
  <1> DEFINE s == Checked(b)
             n == IF s.failures < FailureThreshold THEN s.failures + 1 ELSE FailureThreshold
             f == [s EXCEPT !.failures = n, !.cooled = FALSE]
  <1> USE RpcAssumption
  <1>1. Fine(s)
    BY CheckedFine
  <1>2. AfterFailure(b) = IF s.state = "half-open" \/ (s.state = "closed" /\ n >= FailureThreshold)
                          THEN Opened(f) ELSE f
    BY DEF AfterFailure
  <1> HIDE DEF s
  <1>3. n \in 0 .. FailureThreshold
    BY <1>1 DEF Fine, Breakers
  <1> HIDE DEF n
  <1>4. Fine(Opened(f)) /\ Checked(Opened(f)) = Opened(f)
    <2>1. f \in Breakers /\ f.cooled = FALSE
      BY <1>1, <1>3 DEF Fine, Breakers
    <2>2. 0 \in 0 .. HalfOpenMax
      OBVIOUS
    <2> HIDE DEF f
    <2>3. [f EXCEPT !.state = "open", !.tests = 0] \in Breakers
      BY <2>1, <2>2 DEF Breakers
    <2>4. Opened(f).state = "open" /\ Opened(f).cooled = FALSE
      BY <2>1 DEF Breakers, Opened
    <2> QED BY <2>3, <2>4 DEF Fine, Checked, Opened
  <1>5. ASSUME s.state # "half-open"
        PROVE  Fine(f) /\ Checked(f) = f
    BY <1>1, <1>3, <1>5 DEF Fine, Breakers, Checked
  <1> QED BY <1>2, <1>4, <1>5

\* The breakers before a step are fine.
LEMMA BreakersAreFine ==
    ASSUME IInv, NEW p \in Providers
    PROVE  Fine(breaker[p])
  BY DEF IInv, TypeOK, BreakerInv, Fine

\* A record keeps the copy with the breaker.
LEMMA RecordInv ==
    ASSUME IInv, NEW p \in Providers, NEW after, Fine(after), Checked(after) = after,
           Record(p, after)
    PROVE  /\ breaker' \in [Providers -> Breakers]
           /\ cached' \in [Providers -> {"closed", "open", "half-open"}]
           /\ BreakerInv'
  BY DEF Record, Fine, Breakers, IInv, TypeOK, BreakerInv

LEMMA SuccessInv ==
    ASSUME IInv, NEW p \in Providers, RecordSuccess(p)
    PROVE  /\ breaker' \in [Providers -> Breakers]
           /\ cached' \in [Providers -> {"closed", "open", "half-open"}]
           /\ BreakerInv'
  BY RecordInv, SuccessFine, BreakersAreFine DEF RecordSuccess

LEMMA FailureInv ==
    ASSUME IInv, NEW p \in Providers, RecordFailure(p)
    PROVE  /\ breaker' \in [Providers -> Breakers]
           /\ cached' \in [Providers -> {"closed", "open", "half-open"}]
           /\ BreakerInv'
  BY RecordInv, FailureFine, BreakersAreFine DEF RecordFailure

\* A provider that is offered is executable.
LEMMA OfferedFollows ==
    ASSUME IInv
    PROVE  OfferedIsExecutable
  BY DEF IInv, TypeOK, Breakers, BreakerInv, OfferedIsExecutable, Healthy, CanExecute, Checked

\* Entering a healthy provider not tried before.
LEMMA EnterInv ==
    ASSUME IInv, NEW c \in Calls, NEW p \in Providers \ tried[c], Healthy(p),
           NEW isFallback \in BOOLEAN, Enter(c, p, isFallback)
    PROVE  IInv'
  <1>1. CanExecute(breaker[p]) /\ Checked(breaker[p]) = breaker[p]
    <2>1. CanExecute(breaker[p])
      BY OfferedFollows DEF OfferedIsExecutable
    <2>2. breaker[p].state # "open"
      BY DEF IInv, BreakerInv, Healthy
    <2> QED BY <2>1, <2>2 DEF Checked
  <1>2. /\ tried' = [tried EXCEPT ![c] = @ \cup {p}]
        /\ at' = [at EXCEPT ![c] = p]
        /\ fallback' = [fallback EXCEPT ![c] = isFallback]
        /\ pc' = [pc EXCEPT ![c] = "sent"]
        /\ asked' = [asked EXCEPT ![c] = @ \cup {p}]
        /\ twice' = [twice EXCEPT ![c] = @ \/ p \in asked[c]]
        /\ error' = error
    BY <1>1 DEF Enter
  <1>3. breaker' = breaker
    BY <1>1 DEF Enter, IInv, TypeOK
  <1>4. p \notin asked[c] /\ ~twice[c]
    BY DEF IInv, CallInv
  <1>5. twice' = twice
    BY <1>2, <1>4 DEF IInv, TypeOK
  <1>6. UNCHANGED <<status, cached, chainOk, archiveOk, checks, pinned, attempt, bounds>>
    BY DEF Enter
  <1>7. TypeOK'
    BY <1>2, <1>3, <1>5, <1>6 DEF IInv, TypeOK, checks, bounds
  <1>8. BreakerInv'
    BY <1>3, <1>6 DEF IInv, BreakerInv
  <1>9. CallInv'
    BY <1>2, <1>5 DEF IInv, TypeOK, CallInv
  <1> QED BY <1>7, <1>8, <1>9 DEF IInv

\* A call that returns leaves nothing behind.
LEMMA ReturnInv ==
    ASSUME IInv, NEW c \in Calls, NEW how \in {"answered", "failed"}, Return(c, how)
    PROVE  /\ pc' \in [Calls -> {"new", "sent", "erred", "delay", "answered", "failed"}]
           /\ tried' \in [Calls -> SUBSET Providers]
           /\ at' \in [Calls -> Providers \cup {NoProvider}]
           /\ error' \in [Calls -> Errors]
           /\ attempt' \in [Calls -> 1 .. MaxAttempts]
           /\ fallback' \in [Calls -> BOOLEAN]
           /\ asked' \in [Calls -> SUBSET Providers]
           /\ pinned' = pinned /\ twice' = twice
           /\ CallInv'
  <1>1. 1 \in 1 .. MaxAttempts
    BY RpcAssumption
  <1>2. pinned' = pinned /\ twice' = twice
    BY DEF Return
  <1>3. CallInv'
    BY DEF Return, IInv, TypeOK, CallInv
  <1> QED BY <1>1, <1>2, <1>3 DEF Return, IInv, TypeOK, Errors

\* An answer that does not come.
LEMMA ThrowInv ==
    ASSUME IInv, NEW c \in Calls, pc[c] = "sent", NEW kind \in {"retryable", "final"},
           Throw(c, kind), refusals' \in 0 .. MaxRefusals
    PROVE  IInv'
  <1>1. at[c] \in Providers
    BY DEF IInv, CallInv
  <1>2. /\ breaker' \in [Providers -> Breakers]
        /\ cached' \in [Providers -> {"closed", "open", "half-open"}]
        /\ BreakerInv'
    BY <1>1, FailureInv DEF Throw
  <1>3. TypeOK'
    BY <1>2 DEF Throw, IInv, TypeOK, checks, Errors
  <1>4. CallInv'
    BY DEF Throw, IInv, TypeOK, CallInv
  <1> QED BY <1>2, <1>3, <1>4 DEF IInv

\* A call's own steps.
LEMMA StepInv ==
    ASSUME IInv, NEW c \in Calls, Step(c)
    PROVE  IInv'
  <1>1. CASE Select(c)
    <2>1. PICK best \in Candidates(c) : \E p \in Chosen(c, best) : Enter(c, p, FALSE)
      BY <1>1 DEF Select
    <2>2. PICK p \in Chosen(c, best) : Enter(c, p, FALSE)
      BY <2>1
    <2>3. p \in Providers \ tried[c] /\ Healthy(p)
      BY DEF Candidates, Chosen, Fallbacks
    <2> QED BY <2>2, <2>3, EnterInv
  <1>2. CASE Unavailable(c) \/ GiveUp(c)
    <2>1. Return(c, "failed") /\ UNCHANGED <<status, health, checks, bounds>>
      BY <1>2 DEF Unavailable, GiveUp
    <2>2. TypeOK'
      BY <2>1, ReturnInv DEF IInv, TypeOK, health, checks, bounds
    <2>3. BreakerInv'
      BY <2>1 DEF IInv, BreakerInv, health
    <2> QED BY <2>1, <2>2, <2>3, ReturnInv DEF IInv
  <1>3. CASE Answer(c)
    <2>1. at[c] \in Providers
      BY <1>3 DEF Answer, IInv, CallInv
    <2>2. /\ breaker' \in [Providers -> Breakers]
          /\ cached' \in [Providers -> {"closed", "open", "half-open"}]
          /\ BreakerInv'
      BY <1>3, <2>1, SuccessInv DEF Answer
    <2>3. Return(c, "answered") /\ UNCHANGED <<status, chainOk, archiveOk, checks, bounds>>
      BY <1>3 DEF Answer
    <2>4. TypeOK'
      BY <2>2, <2>3, ReturnInv DEF IInv, TypeOK, checks, bounds
    <2> QED BY <2>2, <2>3, <2>4, ReturnInv DEF IInv
  <1>4. CASE NoAnswer(c)
    BY <1>4, ThrowInv DEF NoAnswer, IInv, TypeOK
  <1>5. CASE HandleProviderError(c)
    <2>1. PICK p \in Fallbacks(tried[c]) : Enter(c, p, TRUE)
      BY <1>5 DEF HandleProviderError
    <2>2. p \in Providers \ tried[c] /\ Healthy(p)
      BY DEF Fallbacks
    <2> QED BY <2>1, <2>2, EnterInv
  <1>6. CASE RetryLater(c)
    <2>1. attempt[c] + 1 \in 1 .. MaxAttempts
      BY <1>6, RpcAssumption DEF RetryLater, IInv, TypeOK
    <2>2. TypeOK'
      BY <1>6, <2>1 DEF RetryLater, IInv, TypeOK, health, checks, bounds
    <2>3. BreakerInv' /\ CallInv'
      BY <1>6 DEF RetryLater, IInv, TypeOK, BreakerInv, CallInv, health
    <2> QED BY <2>2, <2>3 DEF IInv
  <1> QED BY <1>1, <1>2, <1>3, <1>4, <1>5, <1>6 DEF Step

\* The health check, whose records are the calls' kind.
LEMMA ProbeInv ==
    ASSUME IInv, Probe
    PROVE  IInv'
  <1> USE RpcAssumption
  <1>1. checking \in Providers
    BY DEF IInv, TypeOK
  <1>2. checking' \in Providers /\ probe' \in {"chain", "block", "archive"}
    BY <1>1 DEF Probe, ProbeFails, ProbeChain, ProbeMismatch, ProbeBlock, ProbeArchive,
                BlockSeen, CheckNext
  <1>3. UNCHANGED <<status, call, bounds>>
    BY DEF Probe, ProbeFails, ProbeChain, ProbeMismatch, ProbeBlock, ProbeArchive
  <1>4. chainOk' \in [Providers -> BOOLEAN] /\ archiveOk' \in [Providers -> BOOLEAN]
    BY <1>1 DEF Probe, ProbeFails, ProbeChain, ProbeMismatch, ProbeBlock, ProbeArchive,
                IInv, TypeOK, health
  <1>5. /\ breaker' \in [Providers -> Breakers]
        /\ cached' \in [Providers -> {"closed", "open", "half-open"}]
        /\ BreakerInv'
    <2>1. CASE ProbeFails \/ ProbeMismatch
      BY <1>1, <2>1, FailureInv DEF ProbeFails, ProbeMismatch
    <2>2. CASE ProbeBlock
      BY <1>1, <2>2, SuccessInv DEF ProbeBlock
    <2>3. CASE ProbeChain \/ ProbeArchive
      BY <2>3 DEF ProbeChain, ProbeArchive, health, IInv, TypeOK, BreakerInv
    <2> QED BY <2>1, <2>2, <2>3 DEF Probe
  <1>6. TypeOK'
    BY <1>2, <1>3, <1>4, <1>5 DEF IInv, TypeOK, call, bounds
  <1>7. CallInv'
    BY <1>3 DEF IInv, CallInv, call
  <1> QED BY <1>5, <1>6, <1>7 DEF IInv

LEMMA NextInv ==
    ASSUME IInv, [Next]_vars
    PROVE  IInv'
  <1> USE RpcAssumption
  <1>1. ASSUME NEW c \in Calls, Refuse(c)
        PROVE  IInv'
    <2>1. refusals' \in 0 .. MaxRefusals
      BY <1>1 DEF Refuse, IInv, TypeOK
    <2> QED BY <1>1, <2>1, ThrowInv DEF Refuse
  <1>2. ASSUME NEW p \in Providers, Cool(p)
        PROVE  IInv'
    <2>1. breaker' \in [Providers -> Breakers] /\ BreakerInv'
      <3>1. [breaker[p] EXCEPT !.cooled = TRUE] \in Breakers
        <4>1. breaker[p] \in Breakers
          BY DEF IInv, TypeOK
        <4> QED BY <4>1 DEF Breakers
      <3>2. breaker' = [breaker EXCEPT ![p] = [breaker[p] EXCEPT !.cooled = TRUE]]
        BY <1>2 DEF Cool
      <3>3. breaker' \in [Providers -> Breakers]
        BY <3>1, <3>2 DEF IInv, TypeOK
      <3>4. \A q \in Providers : breaker'[q].state = breaker[q].state
                                  /\ breaker'[q].tests = breaker[q].tests
        BY <3>2 DEF IInv, TypeOK, Breakers
      <3>5. cached' = cached
        BY <1>2 DEF Cool
      <3> QED BY <3>3, <3>4, <3>5 DEF IInv, BreakerInv
    <2>2. TypeOK' /\ CallInv'
      BY <1>2, <2>1 DEF Cool, IInv, TypeOK, CallInv, call, checks, bounds
    <2> QED BY <2>1, <2>2 DEF IInv
  <1>3. ASSUME NEW p \in Providers, Change(p)
        PROVE  IInv'
    <2>1. status' \in [Providers -> {"up", "down", "wrong"}] /\ changes' \in 0 .. MaxChanges
      BY <1>3 DEF Change, IInv, TypeOK
    <2>2. TypeOK' /\ BreakerInv' /\ CallInv'
      BY <1>3, <2>1 DEF Change, IInv, TypeOK, BreakerInv, CallInv, health, call, checks
    <2> QED BY <2>2 DEF IInv
  <1>4. CASE UNCHANGED vars
    BY <1>4 DEF vars, health, checks, call, bounds, IInv, TypeOK, BreakerInv, CallInv
  <1> QED BY <1>1, <1>2, <1>3, <1>4, StepInv, ProbeInv DEF Next

LEMMA InitInv == Init => IInv
  <1> SUFFICES ASSUME Init PROVE IInv
    OBVIOUS
  <1>1. ClosedBreaker \in Breakers /\ 1 \in 1 .. MaxAttempts /\ 0 \in 0 .. MaxChanges
        /\ 0 \in 0 .. MaxRefusals
    BY RpcAssumption DEF ClosedBreaker, Breakers
  <1>2. TypeOK
    BY <1>1, RpcAssumption DEF Init, TypeOK, Errors
  <1>3. BreakerInv /\ CallInv
    BY DEF Init, BreakerInv, CallInv, ClosedBreaker
  <1> QED BY <1>2, <1>3 DEF IInv

LEMMA Invariance == Spec => []IInv
  BY InitInv, NextInv, PTL DEF Spec

\* The variables keep their types, for every configuration of the client.
THEOREM TypeCorrect == Spec => []TypeOK
  <1>1. IInv => TypeOK
    BY DEF IInv
  <1> QED BY <1>1, Invariance, PTL

\* The breaker refuses nobody whom the selector offers: however calls and
\* health checks interleave, the tracker's copy (health-tracker.ts:70) is as
\* good as the breaker itself.
THEOREM OfferedProvidersExecute == Spec => []OfferedIsExecutable
  BY OfferedFollows, Invariance, PTL

\* Over all its attempts and failovers a call is sent to a provider at most
\* once (rpc-client.ts:554).
THEOREM CallsAreSentOnce == Spec => []SentOnce
  <1>1. IInv => SentOnce
    BY DEF IInv, CallInv, SentOnce
  <1> QED BY <1>1, Invariance, PTL

-------------------------------------------------------------------------------
(* How many providers a call has tried.                                    *)

\* The invariant of it, which says something of finitely many providers.
AInv == IInv /\ (IsFiniteSet(Providers) => AskedInv)

\* What has been tried can be counted.
LEMMA TriedIsFinite ==
    ASSUME IInv, IsFiniteSet(Providers), NEW c \in Calls
    PROVE  /\ IsFiniteSet(tried[c])
           /\ Cardinality(tried[c]) \in Nat
           /\ Cardinality(tried[c]) <= Cardinality(Providers)
           /\ Cardinality(tried[c]) = Cardinality(Providers) => tried[c] = Providers
  <1>1. tried[c] \in SUBSET Providers
    BY DEF IInv, TypeOK
  <1> QED BY <1>1, FS_Subset, FS_CardinalityType

\* Entering a provider not tried before counts one more.
LEMMA EnterAsked ==
    ASSUME IInv, IsFiniteSet(Providers), AskedInv,
           NEW c \in Calls, NEW p \in Providers \ tried[c], Healthy(p),
           NEW isFallback \in BOOLEAN, Enter(c, p, isFallback),
           Cardinality(tried[c]) >= attempt[c] - 1,
           isFallback => Cardinality(tried[c]) >= attempt[c]
    PROVE  AskedInv'
  <1>1. /\ tried' = [tried EXCEPT ![c] = @ \cup {p}]
        /\ fallback' = [fallback EXCEPT ![c] = isFallback]
        /\ pc' = [pc EXCEPT ![c] = "sent"]
        /\ UNCHANGED <<attempt, error>>
    BY OfferedFollows DEF OfferedIsExecutable, Enter
  <1>2. Cardinality(tried[c] \cup {p}) = Cardinality(tried[c]) + 1
    BY TriedIsFinite, FS_AddElement
  <1>3. /\ tried'[c] = tried[c] \cup {p}
        /\ fallback'[c] = isFallback
        /\ pc'[c] = "sent"
        /\ attempt'[c] = attempt[c] /\ attempt[c] \in Nat
    BY <1>1 DEF IInv, TypeOK
  <1>4. Cardinality(tried'[c]) >= attempt'[c]
    BY <1>2, <1>3, TriedIsFinite
  <1>5. fallback'[c] => Cardinality(tried'[c]) > attempt'[c]
    BY <1>2, <1>3, TriedIsFinite
  <1>6. ASSUME NEW d \in Calls \ {c}
        PROVE  /\ tried'[d] = tried[d] /\ fallback'[d] = fallback[d]
               /\ pc'[d] = pc[d] /\ attempt'[d] = attempt[d] /\ error'[d] = error[d]
    BY <1>1 DEF IInv, TypeOK
  <1> QED BY <1>3, <1>4, <1>5, <1>6 DEF AskedInv

\* A call that returned has nothing to count.
LEMMA ReturnAsked ==
    ASSUME IInv, AskedInv, NEW c \in Calls, NEW how \in {"answered", "failed"}, Return(c, how)
    PROVE  AskedInv'
  BY DEF IInv, TypeOK, AskedInv, Return

\* Nor does an answer that does not come count.
LEMMA ThrowAsked ==
    ASSUME IInv, AskedInv, NEW c \in Calls, pc[c] = "sent",
           NEW kind \in {"retryable", "final"}, Throw(c, kind)
    PROVE  AskedInv'
  BY DEF IInv, TypeOK, AskedInv, Throw

LEMMA StepAsked ==
    ASSUME IInv, IsFiniteSet(Providers), AskedInv, NEW c \in Calls, Step(c)
    PROVE  AskedInv'
  <1>1. CASE Select(c)
    <2>1. PICK best \in Candidates(c) : \E p \in Chosen(c, best) : Enter(c, p, FALSE)
      BY <1>1 DEF Select
    <2>2. PICK p \in Chosen(c, best) : Enter(c, p, FALSE)
      BY <2>1
    <2>3. p \in Providers \ tried[c] /\ Healthy(p)
      BY DEF Candidates, Chosen, Fallbacks
    <2>4. Cardinality(tried[c]) >= attempt[c] - 1
      BY <1>1, TriedIsFinite DEF Select, AskedInv
    <2> QED BY <2>2, <2>3, <2>4, EnterAsked
  <1>2. CASE Unavailable(c) \/ GiveUp(c)
    BY <1>2, ReturnAsked DEF Unavailable, GiveUp
  <1>3. CASE Answer(c)
    BY <1>3, ReturnAsked DEF Answer
  <1>4. CASE NoAnswer(c)
    BY <1>4, ThrowAsked DEF NoAnswer
  <1>5. CASE HandleProviderError(c)
    <2>1. PICK p \in Fallbacks(tried[c]) : Enter(c, p, TRUE)
      BY <1>5 DEF HandleProviderError
    <2>2. p \in Providers \ tried[c] /\ Healthy(p)
      BY DEF Fallbacks
    <2>3. Cardinality(tried[c]) >= attempt[c] /\ attempt[c] \in Nat
      BY <1>5 DEF HandleProviderError, AskedInv, IInv, TypeOK
    <2>4. Cardinality(tried[c]) >= attempt[c] - 1
      BY <2>3, TriedIsFinite
    <2> QED BY <2>1, <2>2, <2>3, <2>4, EnterAsked
  <1>6. CASE RetryLater(c)
    <2>1. /\ pc' = [pc EXCEPT ![c] = "delay"]
          /\ attempt' = [attempt EXCEPT ![c] = @ + 1]
          /\ UNCHANGED <<tried, fallback, error>>
      BY <1>6 DEF RetryLater
    <2>2. Cardinality(tried[c]) >= attempt[c] /\ attempt[c] \in Nat
      BY <1>6 DEF RetryLater, Rethrown, AskedInv, IInv, TypeOK
    <2>3. /\ pc'[c] = "delay"
          /\ Cardinality(tried'[c]) >= attempt'[c] - 1
      BY <2>1, <2>2, TriedIsFinite DEF IInv, TypeOK
    <2>4. ASSUME NEW d \in Calls \ {c}
          PROVE  /\ tried'[d] = tried[d] /\ fallback'[d] = fallback[d]
                 /\ pc'[d] = pc[d] /\ attempt'[d] = attempt[d] /\ error'[d] = error[d]
      BY <2>1 DEF IInv, TypeOK
    <2> QED BY <2>3, <2>4 DEF AskedInv
  <1> QED BY <1>1, <1>2, <1>3, <1>4, <1>5, <1>6 DEF Step

LEMMA NextAsked ==
    ASSUME AInv, [Next]_vars
    PROVE  AInv'
  <1>1. IInv'
    BY NextInv DEF AInv
  <1> SUFFICES ASSUME IsFiniteSet(Providers) PROVE AskedInv'
    BY <1>1 DEF AInv
  <1>2. IInv /\ AskedInv
    BY DEF AInv
  <1>3. ASSUME NEW c \in Calls, Step(c) \/ Refuse(c)
        PROVE  AskedInv'
    BY <1>2, <1>3, StepAsked, ThrowAsked DEF Refuse
  <1>4. CASE UNCHANGED call
    BY <1>2, <1>4 DEF AskedInv, call
  <1>5. ASSUME Probe \/ \E p \in Providers : Cool(p) \/ Change(p)
        PROVE  UNCHANGED call
    BY <1>5 DEF Probe, ProbeFails, ProbeChain, ProbeMismatch, ProbeBlock, ProbeArchive,
                Cool, Change
  <1> QED BY <1>3, <1>4, <1>5 DEF Next, vars

LEMMA AskedInvariance == Spec => []AInv
  <1>1. Init => AInv
    <2> SUFFICES ASSUME Init PROVE AskedInv
      BY InitInv DEF AInv
    <2> QED BY DEF Init, AskedInv
  <1> QED BY <1>1, NextAsked, PTL DEF Spec

\* Whoever gives up on others' failures has asked every healthy provider.
LEMMA GivingUp ==
    ASSUME FewProviders, AInv, [Next]_vars, NEW c \in Calls, GivesUp(c),
           Candidates(c) # {}, NEW p \in Providers, Healthy(p)
    PROVE  p \in tried[c]
  <1>1. IInv /\ AskedInv /\ p \in Providers
    BY DEF FewProviders, AInv
  <1>2. PICK d \in Calls : Unavailable(d) \/ GiveUp(d)
    <2>1. ~UNCHANGED call
      BY DEF GivesUp, call
    <2>2. ~(Probe \/ \E q \in Providers : Cool(q) \/ Change(q))
      BY <2>1 DEF Probe, ProbeFails, ProbeChain, ProbeMismatch, ProbeBlock, ProbeArchive,
                  Cool, Change
    <2>3. PICK d \in Calls : Step(d) \/ Refuse(d)
      BY <2>1, <2>2 DEF Next, vars
    <2>4. pc'[c] = "failed" /\ pc[c] # "failed"
      BY DEF GivesUp
    <2>5. ~(Select(d) \/ HandleProviderError(d))
      BY <1>1, <2>4 DEF Select, HandleProviderError, Enter, IInv, TypeOK
    <2>6. ~(Answer(d) \/ NoAnswer(d) \/ Refuse(d) \/ RetryLater(d))
      BY <1>1, <2>4 DEF Answer, NoAnswer, Refuse, RetryLater, Return, Throw, IInv, TypeOK
    <2> QED BY <2>3, <2>5, <2>6 DEF Step
  <1>3. d = c
    BY <1>1, <1>2 DEF GivesUp, Unavailable, GiveUp, Return, IInv, TypeOK
  <1>4. CASE Unavailable(c)
    <2>1. Fallbacks(tried[c]) = {}
      BY <1>4 DEF Unavailable, Chosen
    <2> QED BY <1>1, <2>1 DEF Fallbacks
  <1>5. CASE GiveUp(c)
    <2>1. pc[c] = "erred" /\ (fallback[c] \/ Fallbacks(tried[c]) = {})
      BY <1>5 DEF GiveUp, Rethrown
    <2>2. CASE Fallbacks(tried[c]) = {}
      BY <1>1, <2>2 DEF Fallbacks
    <2>3. CASE fallback[c]
      <3>1. error[c] = "retryable"
        BY <1>1, <2>1 DEF AskedInv, GivesUp
      <3>2. attempt[c] = MaxAttempts
        BY <1>5, <3>1 DEF GiveUp
      <3>3. Cardinality(tried[c]) > MaxAttempts
        BY <1>1, <2>1, <2>3, <3>2 DEF AskedInv
      <3>4. /\ IsFiniteSet(Providers) /\ Cardinality(Providers) \in Nat
            /\ Cardinality(Providers) <= MaxAttempts + 1
        BY FS_CardinalityType DEF FewProviders
      <3>5. tried[c] = Providers
        BY <1>1, <3>3, <3>4, TriedIsFinite, RpcAssumption
      <3> QED BY <1>1, <3>5
    <2> QED BY <2>1, <2>2, <2>3
  <1> QED BY <1>2, <1>3, <1>4, <1>5

\* A call that fails for want of an answer has tried every healthy provider
\* (rpc-client.ts:576), if it had a candidate to begin with and the attempts
\* suffice: one more provider, and a call whose last fallback fails leaves one unasked.
THEOREM NobodyIsLeftUnasked == FewProviders => (Spec => NobodyLeftUnasked)
  <1> SUFFICES ASSUME FewProviders PROVE Spec => NobodyLeftUnasked
    OBVIOUS
  <1>1. AInv /\ [Next]_vars
        => [\A c \in Calls : GivesUp(c) /\ Candidates(c) # {}
              => \A p \in Providers : Healthy(p) => p \in tried[c]]_vars
    BY GivingUp
  <1> QED BY <1>1, AskedInvariance, PTL DEF Spec, NobodyLeftUnasked
===============================================================================
