--------------------------- MODULE BreakerProofs ---------------------------
(***************************************************************************)
(* Proofs about the circuit breaker, for any number of overlapping calls   *)
(* and pings, any threshold, cooldown and number of attempts.              *)
(***************************************************************************)
EXTENDS CircuitBreaker, TLAPS

\* A call that waits for its next attempt has one left.
SleepersRetry ==
  \A c \in Clients : calls[c].phase = "sleeping" => calls[c].attempt < MaxAttempts

\* The inductive invariant.
BInv == TypeOK /\ StateFitsCount /\ SleepersRetry

\* The breaker's own part of the invariant.
Circuit ==
  /\ state \in {"CLOSED", "OPEN", "HALF_OPEN"}
  /\ failures \in 0..Threshold
  /\ openFor \in Never..Cooldown
  /\ StateFitsCount

\* Success, failure and the end of the cooldown keep it.
LEMMA CircuitStep ==
  ASSUME Circuit,
         \/ TryTransition
         \/ OnSuccess
         \/ \E error : OnFailure(error)
         \/ Tick
         \/ UNCHANGED <<state, failures, openFor>>
  PROVE  Circuit'
<1> USE ConfigAssumption DEF Circuit, StateFitsCount, Never
<1>1. CASE TryTransition
  BY <1>1 DEF TryTransition, CooledDown
<1>2. CASE OnSuccess
  BY <1>2 DEF OnSuccess
<1>3. ASSUME NEW error, OnFailure(error)
      PROVE  Circuit'
  <2>1. CASE Count
    BY <2>1 DEF Count
  <2> QED
    BY <1>3, <2>1 DEF OnFailure
<1>4. CASE Tick
  BY <1>4 DEF Tick
<1> QED
  BY <1>1, <1>2, <1>3, <1>4

\* What the calls contribute to the invariant.
CallsFit ==
  /\ calls \in [Clients -> CallStates]
  /\ \A c \in Clients : calls[c].phase # "idle" => calls[c].attempt # 0
  /\ \A c \in Clients : calls[c].phase # "trying" <=> calls[c].met = "none"
  /\ SleepersRetry

\* Calls begin with one attempt, and retry as long as they have one left.
LEMMA CallsStep ==
  ASSUME CallsFit, hcm \in HcmStates, [Next]_vars
  PROVE  CallsFit'
<1> USE ConfigAssumption DEF CallsFit, SleepersRetry, CallStates, HcmStates, NoCall
<1>1. ASSUME NEW c \in Clients, Begin(c) \/ FastFail(c)
      PROVE  CallsFit'
  BY <1>1 DEF Begin, FastFail, Attempt
<1>2. ASSUME NEW c \in Clients, Respond(c)
      PROVE  CallsFit'
  <2>1. CASE EndCall(c)
    BY <2>1 DEF EndCall
  <2>2. ASSUME NEW answer, Sleep(c, answer)
        PROVE  CallsFit'
    BY <2>2, SMTT(30) DEF Sleep, Answered, LastAttempt
  <2> QED
    BY <1>2, <2>1, <2>2 DEF Respond, Succeed, Fail
<1>3. ASSUME NEW c \in Clients, Retry(c)
      PROVE  CallsFit'
  <2>1. calls[c].attempt + 1 \in 0..MaxAttempts /\ calls[c].attempt + 1 # 0
    BY <1>3 DEF Retry
  <2> QED
    BY <1>3, <2>1 DEF Retry, Attempt
<1>4. CASE HcmTurns
  BY <1>4 DEF HcmTurns
<1>5. CASE Tick \/ UNCHANGED vars
  BY <1>5 DEF Tick, vars
<1> QED
  BY <1>1, <1>2, <1>3, <1>4, <1>5 DEF Next

\* Every step keeps the invariant.
LEMMA StepInv ==
  ASSUME BInv, [Next]_vars
  PROVE  BInv'
<1>1. Circuit /\ CallsFit /\ hcm \in HcmStates
  BY DEF BInv, TypeOK, Circuit, CallsFit
<1>2. \/ TryTransition \/ OnSuccess \/ (\E error : OnFailure(error)) \/ Tick
      \/ UNCHANGED <<state, failures, openFor>>
  BY DEF Next, Begin, FastFail, Respond, Succeed, Fail, Sleep, Retry, HcmTurns, vars
<1>3. Circuit'
  BY <1>1, <1>2, CircuitStep
<1>4. CallsFit'
  BY <1>1, CallsStep
<1>5. hcm' \in HcmStates
  BY DEF BInv, TypeOK, Next, Begin, FastFail, Respond, Succeed, Fail, Sleep, Answered,
    Retry, Tick, HcmTurns, vars
<1> QED
  BY <1>3, <1>4, <1>5 DEF BInv, TypeOK, Circuit, CallsFit

\* The invariant holds in every reachable state.
THEOREM Invariance == Spec => []BInv
<1>1. Init => BInv
  BY ConfigAssumption
  DEF Init, BInv, TypeOK, StateFitsCount, SleepersRetry, CallStates, HcmStates, NoCall, Never
<1>2. BInv /\ [Next]_vars => BInv'
  BY StepInv
<1> QED
  BY <1>1, <1>2, PTL DEF Spec

-----------------------------------------------------------------------------
(* The theorems *)

\* The types: no call makes more than MaxAttempts attempts at HCM.
THEOREM TypeCorrect == Spec => []TypeOK
<1>1. BInv => TypeOK
  BY DEF BInv
<1> QED
  BY <1>1, Invariance, PTL

\* The circuit is closed exactly below the threshold, and an open or half-open
\* one has the time it opened, however calls and pings overlap.
THEOREM CountDecides == Spec => []StateFitsCount
<1>1. BInv => StateFitsCount
  BY DEF BInv
<1> QED
  BY <1>1, Invariance, PTL

\* What a healthy HCM may answer a caller with is no reason to open a circuit.
LEMMA RefusalsDoNotCount ==
  ASSUME NEW c \in Clients, NEW answer \in HealthyAnswers(c)
  PROVE  ~HealthSignal(ErrorOf(c, answer))
<1>1. CASE c \in Pings
  <2>1. PingError("2xx") = "none"
    BY DEF PingError
  <2> QED
    BY <1>1, <2>1 DEF HealthyAnswers, ErrorOf, HealthSignal, Retryable
<1>2. CASE c \notin Pings
  <2>1. /\ CallError("2xx") = "none"
        /\ CallError("409 INSUFFICIENT_BALANCE") = "INSUFFICIENT_BALANCE"
        /\ CallError("422 INVALID_DIMENSION") = "INVALID_DIMENSION"
        /\ CallError("401") = "UNAUTHORIZED"
    BY DEF CallError
  <2> QED
    BY <1>2, <2>1 DEF HealthyAnswers, Refusals, ErrorOf, HealthSignal, Retryable
<1> QED
  BY <1>1, <1>2

\* Ends of calls that HCM was up for, from the last attempt's sending on.
KeepsOrClears ==
  \A c \in Clients : calls[c].met = "up" /\ calls'[c].phase = "idle" =>
    \/ failures' = failures /\ openFor' = openFor
    \/ failures' = 0 /\ openFor' = Never

\* Only its own steps end a call.
LEMMA EndsByItself ==
  ASSUME BInv, [Next]_vars, NEW c \in Clients, calls[c].met = "up", calls'[c].phase = "idle"
  PROVE  Respond(c)
<1> USE DEF BInv, TypeOK, CallStates
<1>1. calls[c].phase = "trying"
  OBVIOUS
<1>2. ASSUME NEW d \in Clients, d # c, Begin(d) \/ FastFail(d) \/ Respond(d) \/ Retry(d)
      PROVE  calls'[c] = calls[c]
  BY <1>2 DEF Begin, FastFail, Respond, Succeed, Fail, Sleep, Retry, Attempt, EndCall
<1>3. ~Begin(c) /\ ~Retry(c) /\ ~FastFail(c)
  BY <1>1 DEF Begin, Retry, FastFail
<1>4. Tick \/ HcmTurns \/ UNCHANGED vars => calls'[c].phase = calls[c].phase
  BY DEF Tick, HcmTurns, vars
<1> QED
  BY <1>1, <1>2, <1>3, <1>4 DEF Next

\* A call whose last attempt HCM was up for adds nothing to the count and puts
\* off no cooldown, whatever business error it gets, and whatever calls, HCM and
\* the circuit have been through since it began.
THEOREM HealthyCountsNothing == Spec => HealthyNeverCounts
<1>1. ASSUME BInv, [Next]_vars
      PROVE  KeepsOrClears
  <2>1. SUFFICES ASSUME NEW c \in Clients, calls[c].met = "up", calls'[c].phase = "idle"
                 PROVE  \/ failures' = failures /\ openFor' = openFor
                        \/ failures' = 0 /\ openFor' = Never
    BY DEF KeepsOrClears
  <2>2. PICK answer \in Answers :
          Succeed(c, answer) \/ Fail(c, answer) \/ Sleep(c, answer)
    BY <1>1, <2>1, EndsByItself DEF Respond
  <2>3. CASE Succeed(c, answer)
    BY <2>3 DEF Succeed, OnSuccess
  <2>4. CASE Fail(c, answer)
    <3>1. answer \in HealthyAnswers(c) /\ OnFailure(ErrorOf(c, answer))
      BY <2>1, <2>4 DEF Fail, Answered
    <3> QED
      BY <3>1, RefusalsDoNotCount DEF OnFailure
  <2>5. CASE Sleep(c, answer)
    BY <2>5 DEF Sleep
  <2> QED
    BY <2>2, <2>3, <2>4, <2>5
<1>2. BInv /\ [Next]_vars => KeepsOrClears
  BY <1>1
<1> QED
  BY <1>2, Invariance, PTL DEF Spec, HealthyNeverCounts, KeepsOrClears
=============================================================================
