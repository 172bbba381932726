# The time-off service, specified and verified

`apps/timeoff` takes time-off requests of employees, reserves their days, and on
approval debits them from HCM, the external system that owns the balances
(`apps/hcm-mock` plays it).  This directory holds TLA+ modules of that program,
the TLC runs that check them, and theorems that TLAPS proves about them.

## 1. Inventory

| Part | State it keeps | Operations | Interacts with | Hard behaviour | What makes it correct |
| --- | --- | --- | --- | --- | --- |
| `requests/` (RequestsService) | rows of `time_off_requests` | create, approve, reject, cancel, handleHcmAbsoluteBalance | database; HCM client; outbox; called by the syncs | `approve` waits for HCM between two transactions; the row it read may be old by then | a request follows its state machine; its days are reserved exactly while it is pending or approved; it is committed exactly if debited |
| `domain/` | none | state machine, balance arithmetic in tenths of a day, ledger projection | called by all services | bounds, rounding | never negative; 0.1-day precision |
| `outbox/` | rows of `outbox_events`; the running flag of the worker | enqueueTx, tick, processOne, markDone, markFailed | HCM client; requests; snapshots | retries, last attempt, crash with a row PROCESSING | no debit is lost, none made twice; each event ends |
| `balance/` | rows of `balance_snapshots` | getBalance, refreshFromHcm | HCM client; ledger | a commit between HCM's answer and the write | balance = sum of the ledger |
| `reconciliation/` | none of its own | ingestBatch, reconcile (and its cron) | HCM client; handleHcmAbsoluteBalance | batches late or twice; the listed balance is old | nothing stays overbooked; newest requests fail first; a row whose call fails does not keep the others from being reconciled |
| `hcm/` client, retry | none | getBalance, debit, ping, withRetry | HCM | lost answers, retries of what was done | one debit per idempotency key |
| `hcm/` circuit breaker | state, failures, openedAt | execute | HCM client | answers that arrive after the state changed; several probes; retries inside of an admitted call | state and count fit; business errors open nothing; it opens when HCM is down, and recovers |
| HCM (`apps/hcm-mock`) | balances, debits by key | debit, report, batch, other clients' changes | the service | slow, failing, refusing | a key debits once |
| `persistence/`, `audit/` | the tables, `audit_log` | transactions | all | crash between transactions | a transaction is all or nothing |
| `common/idempotency` | `idempotency_records` | intercept | every mutating endpoint | two requests with one key at once, or for two endpoints; a crash between handler and record | one reservation and one id per key; an answer is about what was asked |
| auth, filters, admin, health, config | none | guards, formatting, reads | | | |

## 2. The modules

| Module | What it models |
| --- | --- |
| `RequestStatus` | the state machine of `domain/request.ts` |
| `Balance` | the arithmetic of `domain/balance.ts`; an operation that may throw is a condition and a result |
| `Reservations` | what `handleHcmAbsoluteBalance` computes: the days held, and the sets of requests it may flag, stated without the loop |
| `FlagLoop` | that loop, one iteration a step, shown to flag what `Reservations` states |
| `TimeOff` | the core: requests, outbox and worker, the three syncs, HCM and crashes together |
| `MCTimeOff` | TimeOff for TLC, with the symmetry of the requests |
| `Account` | what TimeOff promises, without outbox, handlers, calls and rows: an account of days with requests on it |
| `CircuitBreaker` | the breaker, with `withRetry` and the calls and pings that go through it |
| `Idempotency` | the interceptor, with the handlers of three endpoints and crashes |
| `MCIdempotency` | Idempotency for TLC, with the symmetry of the sends |
| `Reconciliation` | batches, refreshes and `reconcile()` over several (employee, location) pairs, in hundredths of a day |
| `TimeOffProofs` | the inductive invariant of TimeOff and six theorems |
| `HeldDaysProofs` | lemmas about the operators of Reservations, for any finite set of rows |
| `ReservationProofs` | the arithmetic of the reservations and five theorems |
| `AccountProofs` | TimeOff implements Account; theorems about instances without syncs, and without syncs and crashes |
| `FlagLoopProofs`, `BreakerProofs`, `IdempotencyProofs`, `ReconciliationProofs` | the inductive invariants and theorems of the four modules they are named after |

### TimeOff and the code

**State.** `snapshot`, `ledgerSum`, `debitLines` are the tables
`balance_snapshots` and `balance_ledger` (its sum, and which requests have a
DEBIT line: the column `hcm_idempotency_key` is unique); `status`, `days`,
`born` are the columns of `time_off_requests` that code reads; `outbox` and
`attempts` are the row of `outbox_events` that a request may have (its
`idempotency_key` is unique, so there is at most one); `audit` is `audit_log`.
`handler` and `call` are the stacks of the process: which of `approve()` and the
worker is busy with a request, and what its HCM call has come to.  `queue` is
what is left of `due` in `tick`.  `sync` has, for each batch, `reconcile()` and
`refreshFromHcm()`, its local variables.  `hcmBalance` and `hcmDebits` are HCM's
maps, `abandoned` the attempts the client timed out on.  `overridden` and
`crashes` are history: no action of the code reads them.

**Steps.** A run of code up to the next HCM call is one step, a database
transaction at most.  In the code each `await` within a transaction is one on
the single better-sqlite3 connection, which answers at once, so no other handler
runs in between (`balance.repository.ts:51`: "better-sqlite3 serializes all
write transactions").  The code interleaves where it waits for HCM:

| Code | Actions |
| --- | --- |
| `create`, `reject`, `cancel` | `Create`, `Reject`, `Cancel` |
| `approve` | `ApproveStart`, then, by the answer, `ApproveCommit`, `ApproveFail` (terminal error), `ApproveEnqueue` (retryable error), or `ApproveThrow` (the transaction throws) |
| `OutboxWorker.tick`, `processOne` | `WorkerTick`, `WorkerTake`; then `WorkerCommit` or `WorkerSkipCommit`, `WorkerRefused`, `WorkerRetryLater`; `WorkerDone` marks the row |
| `ingestBatch` | `BatchCut` (HCM), `ApplyBatch` |
| `reconcile` | `ReconcileStart`, `HcmReports`, `ApplyReconcile` or `SyncEnd` |
| `refreshFromHcm` | `RefreshStart`, `HcmReports`, `ApplyRefresh` or `SyncEnd` |
| HCM | `HcmAccept`, `HcmRefuse`, `HcmLateDebit`, `HcmAdjust` |
| `withRetry`, timeouts | `AbandonAttempt`: the attempt is given up; the call goes on with another one, or ends in the action of its handler for a call still "waiting" |
| `releaseReservationTx` | `ReleaseReservation`, a part of `Reject`, `Cancel` and `ApproveFail` |
| restart | `Crash`: the database, HCM and batches under way stay, every handler is gone |

**What is abstracted.**
One (employee, location): each operation reads and writes the rows of one pair
only, so pairs meet only in lists (`due`, the entries of a batch, the rows of
`reconcile`), whose order is left open.  The unit is a tenth of a day, as in
`domain/balance.ts`; other numbers are the subject of `Reconciliation`.  HCM's balances
are not negative (`batch-ingest.dto.ts` has `@Min(0)`, `setAbsolute` refuses less)
and HCM reports what it holds (the mock's test switch `driftDays` is left out).
Time is left out: the back-off lets a pending row be due, or not yet; a call may
take any time; `created_at` may or may not advance from one request to the next.
HCM may refuse a retry of a debit it has made (`HcmRefuse`): 401 and 403 are not
retried either (`hcm.client.ts:136`).
The circuit breaker is one more reason for a call to fail before HCM acts
(`CircuitBreaker` has it in full).
Actors, reasons, dates and the versions of rows (no code reads them) are left
out, and of the audit entries those about balances.

### Reservations and FlagLoop

`FlagSets` says which sets of requests an absolute balance may flag: the
newest-first ones that free enough and would not without their last one.  It is
a set, as rows of one `created_at` come in the order the database likes.
`TimeOff` uses it, and the proofs reason about it; that the loop computes a
member of it is the run `FlagLoop` and, for any rows, the theorem
`LoopFlagsAsStated`.  It is never empty (`SyncsFindFlagged`), so an action that
picks a member of it is not disabled by the choice, as the code is not.

### Account, and TimeOff as its implementation

`Account` is the abstract specification: requests are submitted if the balance
covers them next to all that is promised, withdrawn while they wait, approved,
debited by HCM once, taken once debited, or fail; HCM may grant or withdraw days
(`Regrant`), which fails requests only if the new balance does not cover them.
It has no outbox, no handler, no attempt and no row of balances.  `TimeOff`
instantiates it with

    opened  <- snapshot.seeded
    credit  <- snapshot.balance + the days of the COMMITTED requests
    debited <- hcmDebits

and `status` and `days` as they are.  `ImplementsAccount` is `Account!Spec`: every
step of TimeOff is a step of Account or leaves it alone.  With syncs that holds
until one of them fails a request whose `approve()` is waiting; what happens
then is the finding `StaleCommit`.  `AccountUntilOverridden` says so.  A refresh is no
step of Account, as it may leave less than is promised.

### CircuitBreaker and the code

`state`, `failures`, `openFor` are the fields of the breaker (`openFor` is
`now() - openedAt`); `calls` has for each client the call it is in: `Begin` or
`FastFail` is `execute` up to the first attempt, `Succeed`, `Fail` and `Sleep` are what
an answer does, `Retry` the next attempt.  `executeWithResilience` puts `withRetry`
inside of `execute`, so a call asks the breaker once, and `Retry` does not.  `hcm` is up,
flaky or down; `met` of a call says how HCM did while its attempt was under way
(flaky, if that changed) and decides which answers may come, so an attempt sent before
HCM came up may still time out after it.  `CallError` and `PingError` say which error
an answer becomes; a 4xx other than HCM's refusals counts as an error of HCM, and
HCM's API has none for these calls.  The counter stops at `Threshold` and the clock at
`Cooldown`: the code compares with `>=` only.

### Idempotency and the code

A send is one HTTP request.  `Replay` and `Handle` are the two ways through the
interceptor; the endpoints are `create` (`CreateAgain`, `CreateNew`, `CreateRefused`),
`approve` (`ApproveStart`, then `ApproveEnd` or `ApproveThrows`; `ApproveRefused`) and
`refreshFromHcm` (`RefreshStart`, then `RefreshEnd` or `RefreshThrows`), which stand for a
handler without a wait, one that works once and one that works each time.
`Return` is the response on its way out: the transaction of the handler, the
record and the answer to the client are three things, and a crash may leave the
first only (`Die` with "cut": the record went with it), or two of them.  `Saved` overwrites: `IdempotencyRepository.insert` is
TypeORM's `save`, an upsert, although the comment in the interceptor (lines 76-78)
expects the second insertion to fail.  What approvals do to balances and events is
reduced to what decides about their answers: `TimeOff` has the rest.

### Reconciliation and the code

Balances are hundredths of a day and the ledger tenths, so that a value between
tenths exists.  `InTenths` is `toUnits` not throwing, `Round` is `Math.round(days * 10)`.
`Absolute` is `handleHcmAbsoluteBalance` for a set of pairs (one transaction of a
batch, or one row of `reconcile()`); `walk` is the loop of `reconcile()`: what it listed,
which pairs are left, and the answer it holds.  Requests are for one day and
differ in being pending or stuck; `approve` is one step.  `rounded` and `walk.met`
are history.

## 3. The runs

| Run | Instance | Distinct states | Shows |
| --- | --- | --- | --- |
| `Lifecycle` | 2 requests of 1 or 2 units, balance up to 3, 2 attempts, no sync, no crash | 120 740 | no approved request is forgotten (`ApprovedIsTracked`), each is resolved in the end (`ApprovedIsResolved`), the balances differ by unbooked debits only (`DriftIsUnbookedDebits`), and TimeOff implements Account (`ImplementsAccount`) |
| `Batch` | 2 requests, balance up to 2, a batch that is cut and applied any number of times, other changes to 0 or 1, one crash, 1 attempt | 1.35 million (with symmetry) | the properties of every instance, `NoOverbooking`, that a debit HCM made can be booked (`DebitCanBeBooked`), and that every step is one of Account until a request is overridden (`AccountUntilOverridden`) |
| `Reads` | 2 requests, one `reconcile()` and one `refreshFromHcm()`, both again and again, HCM's balance changed to 0 | 3.7 million (with symmetry) | bounds, ledger and reservations also when old balances are written over new ones; a batch or `reconcile()` repairs what a refresh left overbooked (`SyncRepairs`) |
| `FlagLoop` | every choice of days, creation times and balance for 3 rows | 32 000 | the loop flags what is stated, ends, and leaves what the balance covers |
| `CircuitBreaker` | 2 callers and a health check, threshold 3, cooldown 2, 2 attempts per call | 2 641 | safety and liveness of the breaker under calls that overlap its changes of state |
| `Idempotency` | 4 sends, 1 key or none, 2 bodies, balance up to 1, 1 crash | 109 600 (with symmetry) | one reservation and one id per key; answers fit; retries are answered |
| `Reconciliation` | 2 pairs, one of them refreshed, HCM balances 0.40, 0.96 and 1 day, 1 rounded entry per pair | 597 000 | rounding is bounded, every row is met |
| `LedgerRounding` | 1 pair, balances 1 and 1.25 days | violation | see findings |
| `StaleCommit` | 2 requests, a batch | violation | see findings |
| `CrashAfterDebit` | 1 request, one crash | violation | see findings |
| `DeadEvent` | 1 request, 2 attempts | violation | see findings |
| `OtherBody` | 2 sends, 1 key, 2 bodies, 1 crash | violation | see findings |

**Why these bounds.**  The conflicts are between two requests over one balance,
or between two processes over one request; a third request adds no new kind of
either (`FlagLoop` has three, for the order of flagging).  Requests of 1 and 2
units against a balance of 2 or 3 give every relation of need, reservation and
balance: both fit, one fits, neither does, exactly and with a rest.  Two attempts
give a failure that is retried and one that is the last; in `Batch` and `Reads`
one attempt keeps the space small.  One crash hits every state; a second would
find the process in a state that the first left behind.  `Batches`,
`Reconciles` and `Refreshes` have one member each: it can start over, so an old
value is applied after a new one.  `TypeOK` does not bound the reservation or
the ledger: with one balance they stay finite by themselves.

`CircuitBreaker`: three clients are two calls under way from before a change and
one that meets it; with threshold 3 their failures open the circuit together,
and one late failure after that does too; two attempts give one in between and a last
one.  `Idempotency`: four sends are a creation, an approval, a retry and one that
overlaps them; a balance of 1 lets the reservation of the first attempt refuse the
second.  `Reconciliation`: 0.40 and 0.96 round down and up, 1 is a number of
tenths; a pair with refreshes and one without are the two kinds of pairs.
`MaxRounded` bounds the history that `DriftIsRounding` compares with; the theorem has
no bound.

`Idempotency`, `OtherBody`, `Lifecycle`, `CrashAfterDebit`, `DeadEvent` and `FlagLoop` do not check for
deadlock: there the system may stop for good, with every request at its end.
`Symmetry` is used for safety only: the requests occur in no action but as a
parameter, and `born` is a number.

**Fairness.**  `FlagLoop`: the loop goes on (`WF` of its step).  `Lifecycle`: a handler whose call can end does end it
(`WF` of `ApproveFinish` and `WorkerFinish`): the HTTP client has a timeout and
`withRetry` a last attempt.  The worker goes on with the rows it fetched (`WF` of
`WorkerTake`, `WorkerDone`: a loop).  A pending row is fetched if again and again
the worker is free (`SF` of `WorkerTick` with the row): `schedule` sets the next
timer after every tick, the back-off is at most a minute, and `findDue` orders
by `next_attempt_at`, so a row that waits gets to the front.  Nothing is
assumed of HCM, of employees and managers, or of syncs.  `CircuitBreaker`: time passes,
an attempt ends (the HTTP timeout), and the timer between attempts goes off;
nobody is obliged to call, and that HCM stays up or down is a premise of the
properties.

## 4. The properties

Of every instance: `TypeOK` (with it: balance and reservation never negative),
`UnapprovedNeverDebited`, `CommittedMeansDebited`, `DoneIsSettled`,
`LedgerExplainsBalance`, `ReservationIsHeld`, `OutcomeIsFinal`.

Of instances without refreshes: `NoOverbooking`, `DebitCanBeBooked`.  A refresh
writes HCM's balance without a look at the reservations, so with it neither holds,
and no document says so.

`SyncRepairs`, of every instance, is about what follows a refresh or a stale commit:
whatever was overbooked before, a batch or `reconcile()` leaves a reservation that the
new balance covers.

Of instances without syncs and crashes: `ApprovedIsTracked`,
`DriftIsUnbookedDebits`, `ApprovedIsResolved`.  With a crash the first and the
last fail (finding `CrashAfterDebit`; also a row left PROCESSING, which `findDue`,
`outbox.repository.ts:38`, never returns); with a sync, because a commit that throws leaves `approve()`
without an event.

`ReservationIsHeld` has the premise that no sync has failed a request whose
`approve()` was waiting.  `ReservedIsAlwaysHeld`, without it, is what
`docs/TRD.md` states and the code does not do.

Of CircuitBreaker: `StateFitsCount`, `HealthyNeverCounts` (a call that HCM was well for,
business errors included, adds no failure and opens nothing), and the liveness properties
`OpenCoolsDown` (failures of older calls start the cooldown again, and it ends all
the same), `UpIsAdmitted`, `DownIsShutOff`.

Of Idempotency: `KeyReservesOnce` and `SameKeySameId` (`docs/TRD.md`, C7),
`ReplyFitsOperation` (handlers under one key overwrite each other's record, and
a replay is still about what was asked for: operation, key and body.  Of the body of a
creation the property makes one exception, a row whose record a crash took: see
finding `OtherBody`), `ApprovalsAgree`, `OneApprovalWaits`
(approvals of one request under several keys, or none: `TimeOff` has one `approve()`
at most for each request, and this is why it may),
`RetriedCreationIsAnswered` (`README.md`: replaying is a no-op, also after a crash and
when the balance has fallen; it has the premise that the key was used for one
creation only: with another operation the answer is a 409 by intent).

Of Reconciliation: `DriftIsRounding`, `OverbookedByRounding` (pairs without refreshes),
`EveryRowIsMet`, `ReconciledToRounding`.  What `docs/TRD.md` states instead of the first,
`LedgerIsExact`, the code does not do.

### Findings

Each is a run that TLC finds violated.  One more divergence needs no run:
`docs/TRD.md:397` promises an audit entry for every mutation of a request, and flagging
writes none (`requests.service.ts:364-369`); that nothing else fails a request without
one is the theorem `FailuresAreAudited`.

- **StaleCommit.** `approve()` keeps the row it read before its HCM call.  If a
  batch fails the request meanwhile, the commit (`requests.service.ts:162-191`)
  turns FAILED into COMMITTED and takes the days off the reservation a second
  time, another request's: `reserved_days` is too small (`docs/TRD.md:341`).
  The worker reads the row again and is not affected.
- **CrashAfterDebit.** `docs/TRD.md:370` says that after a crash between HCM's
  debit and the commit the outbox re-issues the debit.  `approve()` enqueues only
  once its call has failed (`requests.service.ts:213`): after the crash there is
  no event, and the request stays APPROVED.
- **DeadEvent.** `docs/TRD.md:139-140` has a request fail when the outbox is out
  of retries; only the row becomes DEAD (`outbox.service.ts:59`).
- **OtherBody.** A key used with another body is answered with 409
  (`http-idempotency.interceptor.ts:19` and `76-78`).  The body is compared with the
  record only.  After a crash between the transaction of a creation and its record,
  `create` finds the row by its key and returns it, whatever the body
  (`requests.service.ts:62-66`): a 2xx for a request that was not asked for.
- **LedgerRounding.** `docs/TRD.md:345` has the balance equal the sum of the ledger.
  A sync stores HCM's balance as it comes and rounds the ledger entry to tenths
  (`requests.service.ts:321-328`): from 1.00 to 1.25 days the entry is 0.3.  From
  then on `toUnits` throws on the row, so requests are refused, and the commit of a
  debit that HCM has made fails.

## 5. What is proved

For every value of the constants that satisfies the named assumptions of the
module (of `TimeOff`: finitely many requests, bounds that are natural numbers,
adjustments within them, distinct syncs; of the others: finitely many rows, sends
and pairs, positive configuration values, natural numbers as bounds and balances):

| Module | Theorem | Says |
| --- | --- | --- |
| `TimeOffProofs` | `TypeCorrect`, `NoDebitUnapproved`, `CommitsAreDebits`, `DoneEventsSettled`, `LedgerIsBalance` | `Spec => []TypeOK`, and so on for `UnapprovedNeverDebited`, `CommittedMeansDebited`, `DoneIsSettled`, `LedgerExplainsBalance` |
| | `OutcomesAreFinal` | the action property `OutcomeIsFinal` |
| `ReservationProofs` | `ReservationsAreHeld` | `ReservationIsHeld` |
| | `NeverOverbooked`, `DebitsCanBeBooked` | `NoOverbooking` and `DebitCanBeBooked`, if `Refreshes = {}` |
| | `SyncsRepair` | the action property `SyncRepairs` |
| | `SyncsFindFlagged` | in every reachable state `FlagSets` has a member, for any balance HCM may report |
| `AccountProofs` | `AccountBeforeOverride` | `AccountUntilOverridden`, if `Refreshes = {}` |
| | `Implementation` | `ImplementsAccount`, if `Syncs = {}` |
| | `AlwaysHeldWithoutSyncs`, `FailuresAreAudited` | `ReservedIsAlwaysHeld` and `FailureIsAudited`, if `Syncs = {}` |
| | `ApprovedAreTracked`, `DebitsAreTracked` | `ApprovedIsTracked` and `DebitedIsTracked`, without syncs and crashes |
| | `DriftIsExplained` | `DriftIsUnbookedDebits`, without syncs, crashes and other clients of HCM |
| `FlagLoopProofs` | `LoopFlagsAsStated`, `RestCoveredAtEnd` | `FlagsAsStated`, and the safety half of `RestIsCovered` |
| `BreakerProofs` | `TypeCorrect`, `CountDecides`, `HealthyCountsNothing` | `TypeOK`, `StateFitsCount`, `HealthyNeverCounts` |
| `IdempotencyProofs` | `TypeCorrect`, `KeyReserves`, `SameId`, `ReplyFits`, `RetriesAreAnswered` | `TypeOK`, `KeyReservesOnce`, `SameKeySameId`, `ReplyFitsOperation`, `RetriedCreationIsAnswered` |
| | `OtherBodyNeedsCrash` | `OtherBodyRefused`, if `MaxCrashes = 0` |
| | `ApprovalsAnswerAlike`, `ApproverIsAlone` | `ApprovalsAgree`, `OneApprovalWaits` |
| `ReconciliationProofs` | `TypeCorrect`, `LedgerDrift`, `Overbooking`, `WalkMeetsAll`, `Reconciles` | `TypeOK`, `DriftIsRounding`, `OverbookedByRounding`, `EveryRowIsMet`, `ReconciledToRounding` |
| | `LedgerExactInTenths`, `CoveredInTenths` | `LedgerIsExact`, and no pair is overbooked (without refreshes of it), if every balance of HCM is in tenths |

**Boundaries of the findings.**  A statement that a run refutes is also proved
under the weakest premises that were found to restore it, which says what the bug
takes: `StaleCommit` a sync (`AlwaysHeldWithoutSyncs`), `CrashAfterDebit` a crash or a
sync (`DebitsAreTracked`), `OtherBody` a crash (`OtherBodyNeedsCrash`), `LedgerRounding` a balance finer than a tenth
(`LedgerExactInTenths`).  `DeadEvent` has no such theorem: the code that gives up an
event never touches its request.

**`IInv`** (`TimeOffProofs`) adds to the properties what ties the processes to
the rows: `CallInv` (a call under way belongs to a handler; an accepted call is a
debit of HCM) and `HandlerInv` (`approve()` works on an approved or failed
request without an event; the worker on a PROCESSING row of a request that has
been approved; a settled request has an outcome; an open row has attempts
left).  Without them the properties are not inductive: `CommittedMeansDebited`
needs that the call of a committing handler was accepted by HCM, `TypeOK` that a
retried row had an attempt left.  One lemma for each action shows that it keeps
`IInv`; `StepInv` puts them together.

**`HeldDaysProofs`** has what the sums of days need: `HeldDays` is a cardinality
of a set of pairs, and `DaysOfOne`, `DaysSplit`, `DaysRemove` show, by cardinalities of
finite sets, how it changes with the set of rows.  `SomeFlagSet` finds a member of
`FlagSets`: by well-founded induction on finite sets there is a smallest newest-first
set of rows that frees enough (`SmallestSet`), its oldest row (`OldestOf`) is the one it
could not do without.

**`RInv`** (`ReservationProofs`) is about the sum, with those lemmas.
`StaleInv` says that a failed request
under `approve()` is one a sync has overridden, and `ReservedAtMostHeld` that the
reservation is never more than what is held, which lets the re-summing of
`AbsoluteBalance` restore `NoOverbooking` even after a stale commit.
`ReservedAtMostHeld` holds unconditionally: the bug of `StaleCommit` gives back
too much, never too little.

**AccountProofs** maps each action of TimeOff to one of Account: `ApproveCommit`
and `WorkerCommit` to `Take`, which needs from `IInv` that a commit follows a debit
and from `RInv` that the balance covers it; HCM's debit to `Debit`; a sync to
`Regrant`, which needs the arithmetic of flagging; what only moves handlers, calls
and events to a stutter.  `AccountBeforeOverride` (if `Refreshes = {}`) is about every
instance with batches, `reconcile()` and crashes, `Implementation` (if `Syncs = {}`)
about those without syncs, where nothing is ever overridden.

Its last part is about instances without syncs and crashes (`Undisturbed`), where
nothing is overridden: what an approved request holds is reserved, and covered by the
balance (`ApprovedIsCovered`, from `RInv`), so neither transaction of `approve()`
throws and each way out of it leaves an outcome or an event (`ApprovedAreTracked`).
`DriftIsExplained` follows the two balances: a commit takes from the one, and an
accepted debit from the other, the days of one request, once.

**FlagLoopProofs**: `LoopInv` is the invariant of the loop.  `OverageLeft` has the
counter be what is still overbooked, which is what `FlagSets` computes from the set
at the end; `StillSorted` and `NewestFlagged` make each next row one that is no newer
than any flagged one; `EachOnce` has rows leave the list into `flagged` and nowhere
else, so that an empty list means that all are flagged; `LastWasNeeded` remembers
that the loop was not done before the last row.  The order of rows of one date is
whatever the sort gave them.

**BreakerProofs**: `BInv` adds to types and `StateFitsCount` that who sleeps has an
attempt left.  For `HealthyCountsNothing` a call with an attempt that HCM was up for is
ended by its own answer only (`EndsByItself`), and what HCM may then answer is no error
about its health (`RefusalsDoNotCount`).

**IdempotencyProofs**: `KInv` adds `SendsInv` (rows and replies come from sends that
arrived, a row has the key of its send, `approve()` waits with a row), `RecordsFit` (a
record's response fits the operation it is stored with) and `MadeRecorded` (who has made
a row under a key has left a record there too, unless a crash cut it short: from then on
another body is compared with a record).  `RowsKept` says that a row keeps its key and the
operation it comes from, so what fitted a reply goes on fitting it.
`OtherBodyNeedsCrash` follows: without crashes no row was cut short.
`KeyReservesOnce` is inductive with the former: the key is looked up in the table that
the row is inserted into.  `SameKeySameId` is then no induction of its own: each
answer is a row with the key, and there is one.  `RetriedCreationIsAnswered` needs
`RecordsFromSends` besides: a record was saved for a send with its key and operation, so
where the key had one operation only, a retry finds a record that matches, or none
and the row.  `AInv` is about approvals: the answers of one are collected over the replies
and the records of all keys (`Outcomes`), with the handlers that wait for it
(`Waiters`).  There is one waiter at most, no outcome while there is one, and one
outcome at most after it, because `approve()` needs a pending row and takes that away
before it waits, and a request never gets back to pending (`StartedStays`).  A crash
takes the waiter, and then there is no outcome at all.

**ReconciliationProofs**: `RoundOff` bounds one rounding, `FittingFits` what it adds to
the reservations, `AbsoluteStep` says what a sync does to each pair; `LInv` adds to the
properties `WalkInv`, that `reconcile()` has met what it need not ask for any more.
`InTenthsInv` goes on from there for balances in tenths: those in the tables, in HCM,
and in the hands of the walk are, so `Round` changes nothing and no entry is rounded.

Model-checked only: the liveness properties `ApprovedIsResolved`, `OpenCoolsDown`, `UpIsAdmitted`,
`DownIsShutOff`, and that the loop of `RestIsCovered` ends; their proofs need fairness
and ENABLED, which this prover cannot do.

## 6. Not modelled, and the plan

The plan of what is left:

1. Composition of `CircuitBreaker` with the outbox: attempts that an open circuit
   uses up.
2. An abstract specification that allows refreshes, which may leave less than is
   promised, and TimeOff with refreshes as its implementation.

Known to be left out of properties: that a ping that succeeds resets the count of failed
debits, and that rejected calls use up the attempts of an event; no document says
otherwise.  A database that fails in the middle of a transaction is not modelled:
the transaction rolls back, and what a crash leaves behind is.

Left out for good: authentication and roles (no state), exception filters,
admin and health endpoints and configuration (formatting, reads, wiring; what
they call is modelled).  `domain/ledger.ts` is called by tests only.
