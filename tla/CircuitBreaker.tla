--------------------------- MODULE CircuitBreaker ---------------------------
(***************************************************************************)
(* The circuit breaker of apps/timeoff/src/hcm/circuit-breaker.ts and the  *)
(* calls that go through it: HcmClient.executeWithResilience runs withRetry*)
(* inside of execute(), so a call asks the breaker once, and may then make *)
(* several attempts at HCM, whatever the circuit has become meanwhile.     *)
(*                                                                         *)
(* A step is what the code does between two answers or timers.  Calls      *)
(* overlap: approve(), the worker, the syncs and the health endpoint share *)
(* one breaker.                                                            *)
(***************************************************************************)
EXTENDS Integers

CONSTANTS
  Callers,      \* who calls debit() or getBalance(), one call at a time
  Pings,        \* who calls ping()
  Threshold,    \* HCM_CIRCUIT_FAILURE_THRESHOLD
  Cooldown,     \* HCM_CIRCUIT_COOLDOWN_MS, in ticks of the clock
  MaxAttempts   \* HCM_MAX_RETRIES

Clients == Callers \cup Pings

ASSUME ClientsAssumption == Callers \cap Pings = {}
ASSUME ConfigAssumption ==
  /\ Threshold \in Nat \ {0} /\ Cooldown \in Nat \ {0} /\ MaxAttempts \in Nat \ {0}

VARIABLES
  state,       \* the CircuitState
  failures,    \* failures, counted to Threshold: the code asks no more of it
  openFor,     \* now() - openedAt, counted to Cooldown; Never for a null
  calls,       \* each client's call: its phase, its attempts so far, and how HCM
               \* did while the attempt under way lasted
  hcm          \* how HCM is doing

vars == <<state, failures, openFor, calls, hcm>>

Never == -1

HcmStates == {"up", "flaky", "down"}

NoCall == [phase |-> "idle", attempt |-> 0, met |-> "none"]

\* "sleeping": withRetry waits before its next attempt.
CallStates == [phase: {"idle", "trying", "sleeping"}, attempt: 0..MaxAttempts,
               met: HcmStates \cup {"none"}]

\* Correct types.  No call makes more attempts than HCM_MAX_RETRIES, and the
\* breaker's count and clock stay within what the code tells apart.
TypeOK ==
  /\ state \in {"CLOSED", "OPEN", "HALF_OPEN"}
  /\ failures \in 0..Threshold
  /\ openFor \in Never..Cooldown
  /\ calls \in [Clients -> CallStates]
  /\ \A c \in Clients : calls[c].phase # "idle" => calls[c].attempt # 0
  /\ \A c \in Clients : calls[c].phase # "trying" <=> calls[c].met = "none"
  /\ hcm \in HcmStates

-----------------------------------------------------------------------------
(* Errors *)

\* What an attempt may meet with: an HTTP response, by status and code, or an
\* error of axios.
Answers == {"2xx", "409 INSUFFICIENT_BALANCE", "422 INVALID_DIMENSION", "401",
            "other 4xx", "5xx", "timeout", "network"}

\* Answers about the request, which a healthy HCM may give to a caller.  Any
\* other 4xx is an error of HCM to the code: the mock gives none to these calls.
Refusals == {"409 INSUFFICIENT_BALANCE", "422 INVALID_DIMENSION", "401"}

HealthyAnswers(c) == IF c \in Pings THEN {"2xx"} ELSE {"2xx"} \cup Refusals

\* handleResponse and translateAxiosError.
CallError(answer) ==
  CASE answer = "2xx" -> "none"
    [] answer = "409 INSUFFICIENT_BALANCE" -> "INSUFFICIENT_BALANCE"
    [] answer = "422 INVALID_DIMENSION" -> "INVALID_DIMENSION"
    [] answer = "401" -> "UNAUTHORIZED"
    [] answer = "timeout" -> "TIMEOUT"
    [] OTHER -> "UPSTREAM_ERROR"

\* ping() translates a status other than 200 itself, and an error of axios not
\* at all.
PingError(answer) ==
  CASE answer = "2xx" -> "none"
    [] answer \in {"timeout", "network"} -> "AxiosError"
    [] OTHER -> "UPSTREAM_ERROR"

ErrorOf(c, answer) == IF c \in Pings THEN PingError(answer) ELSE CallError(answer)

\* HcmError.retryable; withRetry also retries what is no HcmError.
Retryable(error) ==
  error \notin {"none", "INSUFFICIENT_BALANCE", "INVALID_DIMENSION", "UNAUTHORIZED"}

\* A mutant of HealthSignal: an attempt that timed out says nothing of HCM.
MutTimeoutIsNoSignal(error) ==
  error \in {"AxiosError", "UPSTREAM_ERROR", "UNKNOWN"}

\* A mutant of HealthSignal: business errors count as well.
MutEveryErrorCounts(error) == error # "none"

\* isHealthSignal of onFailure.
HealthSignal(error) ==
  error \in {"AxiosError", "TIMEOUT", "UPSTREAM_ERROR", "UNKNOWN"} \/ Retryable(error)

-----------------------------------------------------------------------------
(* CircuitBreaker *)

\* tryTransitionFromOpen makes the circuit half open.
CooledDown == state = "OPEN" /\ openFor = Cooldown

\* execute() lets a call through.
Admits == state # "OPEN" \/ CooledDown

\* A mutant of TryTransition: the half-open circuit starts to count anew.
MutCountAnew ==
  /\ state' = IF CooledDown THEN "HALF_OPEN" ELSE state
  /\ failures' = IF CooledDown THEN 0 ELSE failures
  /\ UNCHANGED openFor

\* tryTransitionFromOpen, of execute() and getState().
TryTransition ==
  /\ state' = IF CooledDown THEN "HALF_OPEN" ELSE state
  /\ UNCHANGED <<failures, openFor>>

OnSuccess ==
  /\ state' = "CLOSED"
  /\ failures' = 0
  /\ openFor' = Never

\* A failure that counts.  It also opens a circuit that is half open, and
\* starts the cooldown of an open one again.
Count ==
  LET n == IF failures = Threshold THEN Threshold ELSE failures + 1
  IN  /\ failures' = n
      /\ state' = IF n >= Threshold THEN "OPEN" ELSE state
      /\ openFor' = IF n >= Threshold THEN 0 ELSE openFor

OnFailure(error) ==
  IF HealthSignal(error) THEN Count ELSE UNCHANGED <<state, failures, openFor>>

-----------------------------------------------------------------------------
(* Calls *)

\* An attempt is sent to HCM.
Attempt(c, n) ==
  calls' = [calls EXCEPT ![c] = [phase |-> "trying", attempt |-> n, met |-> hcm]]

\* execute() and the first attempt of withRetry.
Begin(c) ==
  /\ calls[c].phase = "idle" /\ Admits
  /\ TryTransition
  /\ Attempt(c, 1)
  /\ UNCHANGED hcm

\* A mutant of FastFail: CIRCUIT_OPEN, thrown where onFailure catches it.
MutFastFailCounts(c) ==
  /\ calls[c].phase = "idle" /\ ~Admits
  /\ OnFailure("CIRCUIT_OPEN")
  /\ UNCHANGED <<calls, hcm>>

\* execute() throws CIRCUIT_OPEN, outside of the try that counts failures.
FastFail(c) ==
  /\ calls[c].phase = "idle" /\ ~Admits
  /\ TryTransition
  /\ UNCHANGED <<calls, hcm>>

\* The answers of HCM as it did since the attempt was sent: where it has come up
\* meanwhile, the attempt may still time out.
Answered(c, answer) ==
  /\ calls[c].phase = "trying"
  /\ calls[c].met = "up" => answer \in HealthyAnswers(c)
  /\ calls[c].met = "down" => answer \notin {"2xx"} \cup Refusals
  /\ UNCHANGED hcm

EndCall(c) == calls' = [calls EXCEPT ![c] = NoCall]

Succeed(c, answer) ==
  /\ Answered(c, answer) /\ ErrorOf(c, answer) = "none"
  /\ OnSuccess
  /\ EndCall(c)

\* A mutant of LastAttempt: withRetry gives up one attempt too late.
MutOneMoreAttempt(c) == calls[c].attempt > MaxAttempts

LastAttempt(c) == calls[c].attempt = MaxAttempts

Fail(c, answer) ==
  LET error == ErrorOf(c, answer)
  IN  /\ Answered(c, answer) /\ error # "none"
      /\ ~Retryable(error) \/ LastAttempt(c)
      /\ OnFailure(error)
      /\ EndCall(c)

Sleep(c, answer) ==
  /\ Answered(c, answer)
  /\ Retryable(ErrorOf(c, answer)) /\ ~LastAttempt(c)
  /\ calls' = [calls EXCEPT ![c].phase = "sleeping", ![c].met = "none"]
  /\ UNCHANGED <<state, failures, openFor>>

\* The next attempt, which asks the breaker nothing.
Retry(c) ==
  /\ calls[c].phase = "sleeping"
  /\ Attempt(c, calls[c].attempt + 1)
  /\ UNCHANGED <<state, failures, openFor, hcm>>

Respond(c) ==
  \E answer \in Answers : Succeed(c, answer) \/ Fail(c, answer) \/ Sleep(c, answer)

-----------------------------------------------------------------------------
(* Time, and HCM *)

Tick ==
  /\ openFor \in 0..(Cooldown - 1)
  /\ openFor' = openFor + 1
  /\ UNCHANGED <<state, failures, calls, hcm>>

HcmTurns ==
  /\ hcm' \in HcmStates \ {hcm}
  /\ calls' = [c \in Clients |->
       IF calls[c].phase = "trying" THEN [calls[c] EXCEPT !.met = "flaky"] ELSE calls[c]]
  /\ UNCHANGED <<state, failures, openFor>>

Init ==
  /\ state = "CLOSED" /\ failures = 0 /\ openFor = Never
  /\ calls = [c \in Clients |-> NoCall]
  /\ hcm \in HcmStates

Next ==
  \/ \E c \in Clients : Begin(c) \/ FastFail(c) \/ Respond(c) \/ Retry(c)
  \/ Tick \/ HcmTurns

Spec == Init /\ [][Next]_vars

\* Time passes; HTTP_TIMEOUT ends every attempt, and the timer of withRetry
\* goes off.  Nobody is obliged to call.
Fairness ==
  /\ WF_vars(Tick)
  /\ \A c \in Clients : WF_vars(Respond(c)) /\ WF_vars(Retry(c))

FairSpec == Spec /\ Fairness

-----------------------------------------------------------------------------
(* Properties *)

\* The circuit is closed exactly while fewer than Threshold failures have
\* been counted since the last success, and has an openedAt exactly when it
\* is not: so one failed call opens a half-open circuit again, and an open
\* one is never without the time from which it cools down.  Late answers of
\* calls from before the circuit opened do not change that.
StateFitsCount ==
  /\ state = "CLOSED" <=> failures < Threshold
  /\ state = "CLOSED" <=> openFor = Never

\* docs/TRD.md, "5.6 Defensive HCM client": business errors do not trip the
\* breaker.  A call whose last attempt HCM was up for, from its sending to its
\* answer, adds nothing to the count and puts off no cooldown, whatever became of
\* its attempts before that, of HCM and of the circuit since it began.
HealthyNeverCounts ==
  [][\A c \in Clients : calls[c].met = "up" /\ calls'[c].phase = "idle" =>
       \/ failures' = failures /\ openFor' = openFor
       \/ failures' = 0 /\ openFor' = Never]_vars

\* An open circuit cools down, although failures of calls from before it
\* opened start the cooldown again.
OpenCoolsDown == state = "OPEN" ~> Admits

\* Once HCM is up for good, from some time on every call is let through.
UpIsAdmitted == <>[](hcm = "up") => <>[]Admits

\* Where HCM stays down and calls keep coming, the circuit does not stay, or
\* get, closed: in the end each cooldown lets calls find out once more.
DownIsShutOff ==
  <>[](hcm = "down") /\ []<>(\E c \in Clients : calls[c].phase = "trying")
    => <>[](state # "CLOSED")
=============================================================================
