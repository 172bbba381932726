------------------------------ MODULE TimeOff ------------------------------
(***************************************************************************)
(* The request lifecycle of apps/timeoff against HCM, the system that owns *)
(* the balances: the HTTP handlers of requests.service.ts, the outbox      *)
(* worker, the three ways an HCM balance reaches the service, HCM itself   *)
(* and crashes of the process.                                             *)
(*                                                                         *)
(* The model has one (employee, location): every operation of the code     *)
(* reads and writes the rows of one such pair.  A database transaction     *)
(* (withTx) is one step, as is a run of code without an HCM call in it.    *)
(* What interleaves is what the code interleaves: handlers waiting for     *)
(* HCM, the worker, the syncs, HCM's own changes and crashes.              *)
(***************************************************************************)
EXTENDS RequestStatus, Balance, Reservations

CONSTANTS
  Requests,      \* the ids a request may get
  MaxDays,       \* bound: the longest request, in units of the balance
  MaxBalance,    \* bound: the largest balance HCM holds
  MaxAttempts,   \* OUTBOX_MAX_ATTEMPTS
  Batches,       \* batches of HCM that may be under way at once
  Reconciles,    \* reconcile() calls that may be under way at once
  Refreshes,     \* refreshFromHcm() calls that may be under way at once
  Adjustments,   \* the balances that HCM's other clients may set
  MaxCrashes     \* bound: how often the process crashes

Syncs == Batches \cup Reconciles \cup Refreshes

ASSUME RequestsAssumption == IsFiniteSet(Requests)
ASSUME BoundsAssumption ==
  /\ MaxDays \in Nat \ {0} /\ MaxBalance \in Nat
  /\ MaxAttempts \in Nat \ {0} /\ MaxCrashes \in Nat
ASSUME AdjustmentsAssumption == Adjustments \subseteq 0..MaxBalance
ASSUME SyncsAssumption ==
  /\ Batches \cap Reconciles = {}
  /\ (Batches \cup Reconciles) \cap Refreshes = {}

VARIABLES
  snapshot,     \* the row of balance_snapshots
  ledgerSum,    \* the sum of delta over balance_ledger
  debitLines,   \* the requests with a DEBIT line (the unique hcm_idempotency_key)
  status,       \* status of each row of time_off_requests, "NONE" without a row
  days,         \* days_requested of each request
  born,         \* created_at of each request
  clock,        \* the latest created_at
  audit,        \* the (request, action) pairs in audit_log
  outbox,       \* status of the request's row of outbox_events, or "NONE"
  attempts,     \* attempts of that row
  handler,      \* who is busy with the request: approve(), the worker, nobody
  call,         \* the HCM debit call of that handler
  queue,        \* rows the worker's tick has fetched and not yet taken
  sync,         \* each sync: its phase, the balance it saw, HCM's value
  hcmBalance,   \* HCM's balance
  hcmDebits,    \* the requests HCM has debited (by idempotency key)
  abandoned,    \* attempts the client gave up on; HCM may still act on them
  overridden,   \* history: requests a sync failed while approve() was waiting
  crashes       \* how often the process has crashed

created == <<days, born, clock>>
books   == <<snapshot, ledgerSum, debitLines>>
events  == <<outbox, attempts>>
process == <<handler, call, queue>>
hcm     == <<hcmBalance, hcmDebits, abandoned>>
history == <<overridden, crashes>>
vars == <<books, status, created, audit, events, process, sync, hcm, history>>

-----------------------------------------------------------------------------
(* Types *)

Snapshots == [seeded: BOOLEAN, balance: 0..MaxBalance, reserved: Nat]

\* The enum OutboxStatus, and "NONE" for no row.
OutboxStatuses == {"NONE", "PENDING", "PROCESSING", "DONE", "DEAD"}

\* "settled": the worker has run handleDebit or handleTerminalHcmFailure,
\* and has yet to mark the row DONE.
Handlers == {"idle", "approve", "worker", "settled"}

Calls == {"none", "waiting", "accepted", "refused"}

AuditActions == {"request.created", "request.approved", "request.rejected",
  "request.cancelled", "request.committed", "request.failed",
  "request.outbox_enqueued"}

\* "seen" is the balance reconcile() read before it asked HCM.
SyncStates == [phase: {"idle", "asked", "answered"},
               seen: 0..MaxBalance, value: 0..MaxBalance]

NoSync == [phase |-> "idle", seen |-> 0, value |-> 0]

RowTypes ==
  /\ snapshot \in Snapshots /\ ledgerSum \in Int
  /\ debitLines \subseteq Requests
  /\ status \in [Requests -> RequestStatuses \cup {"NONE"}]
  /\ days \in [Requests -> 0..MaxDays]
  /\ born \in [Requests -> Nat] /\ clock \in Nat
  /\ audit \subseteq Requests \X AuditActions
  /\ outbox \in [Requests -> OutboxStatuses]
  /\ attempts \in [Requests -> 0..MaxAttempts]

ProcessTypes ==
  /\ handler \in [Requests -> Handlers] /\ call \in [Requests -> Calls]
  /\ queue \subseteq Requests
  /\ sync \in [Syncs -> SyncStates]

HcmTypes ==
  /\ hcmBalance \in 0..MaxBalance
  /\ hcmDebits \subseteq Requests /\ abandoned \subseteq Requests

\* Correct types.  The bounds on the snapshot are those of docs/TRD.md, "8.
\* Invariants": the balance and the reservation never get negative, whatever
\* syncs land between the HCM call and the commit of an approval.
TypeOK ==
  /\ RowTypes /\ ProcessTypes /\ HcmTypes
  /\ overridden \subseteq Requests /\ crashes \in 0..MaxCrashes

-----------------------------------------------------------------------------
(* Helpers *)

\* listPendingReservationsForEmployeeLocation.
Holders == {r \in Requests : HoldsReservation(status[r])}

Held(S) == HeldDays(S, days)

Record(r, action) == audit' = audit \cup {<<r, action>>}

\* The HCM call of a handler ends, and the handler with it.
Finish(r) ==
  /\ handler' = [handler EXCEPT ![r] = "idle"]
  /\ call' = [call EXCEPT ![r] = "none"]
  /\ UNCHANGED queue

WorkerBusy == queue # {} \/ \E r \in Requests : handler[r] \in {"worker", "settled"}

-----------------------------------------------------------------------------
(* RequestsService *)

\* create: reserves the days, if they are available.  The clock may not have
\* advanced since the last request.
Create(r, d) ==
  /\ status[r] = "NONE"
  /\ snapshot.seeded /\ CanReserve(snapshot, d)
  /\ snapshot' = Reserve(snapshot, d)
  /\ status' = [status EXCEPT ![r] = "PENDING"]
  /\ days' = [days EXCEPT ![r] = d]
  /\ clock' \in {clock, clock + 1}
  /\ born' = [born EXCEPT ![r] = clock']
  /\ Record(r, "request.created")
  /\ UNCHANGED <<ledgerSum, debitLines, events, process, sync, hcm, history>>

ReleaseReservation(r) ==
  /\ CanRelease(snapshot, days[r])
  /\ snapshot' = Release(snapshot, days[r])

\* reject and cancel: a pending request gives its reservation back.
Withdraw(r, to, action) ==
  /\ status[r] # "NONE" /\ CanTransition(status[r], to)
  /\ ReleaseReservation(r)
  /\ status' = [status EXCEPT ![r] = to]
  /\ Record(r, action)
  /\ UNCHANGED <<ledgerSum, debitLines, created, events, process, sync, hcm, history>>

Reject(r) == Withdraw(r, "REJECTED", "request.rejected")

Cancel(r) == Withdraw(r, "CANCELLED", "request.cancelled")

\* approve, up to its HCM call.
ApproveStart(r) ==
  /\ status[r] = "PENDING"
  /\ CanTransition(status[r], "APPROVED")
  /\ status' = [status EXCEPT ![r] = "APPROVED"]
  /\ Record(r, "request.approved")
  /\ handler' = [handler EXCEPT ![r] = "approve"]
  /\ call' = [call EXCEPT ![r] = "waiting"]
  /\ UNCHANGED <<books, created, events, queue, sync, hcm, history>>

\* What both commit transactions write.
CommitRows(r) ==
  /\ snapshot' = Commit(snapshot, days[r])
  /\ ledgerSum' = ledgerSum - days[r]
  /\ debitLines' = debitLines \cup {r}
  /\ status' = [status EXCEPT ![r] = "COMMITTED"]
  /\ Record(r, "request.committed")

\* A mutant of ApproveCommit: a call that failed counts as a debit.
MutCommitOnFailure(r) ==
  /\ handler[r] = "approve" /\ call[r] \in {"waiting", "accepted"}
  /\ CanCommit(snapshot, days[r])
  /\ CommitRows(r)
  /\ Finish(r)
  /\ UNCHANGED <<created, events, sync, hcm, history>>

\* approve, HCM having debited: commits the row it holds since ApproveStart,
\* whatever the status of the request is by now.
ApproveCommit(r) ==
  /\ handler[r] = "approve" /\ call[r] = "accepted"
  /\ CanCommit(snapshot, days[r])
  /\ CommitRows(r)
  /\ Finish(r)
  /\ UNCHANGED <<created, events, sync, hcm, history>>

\* handleTerminalHcmFailure of requests.service.ts, which also writes the row
\* of ApproveStart.  Its ledger entry has a delta of 0.
ApproveFail(r) ==
  /\ handler[r] = "approve" /\ call[r] = "refused"
  /\ ReleaseReservation(r)
  /\ status' = [status EXCEPT ![r] = "FAILED"]
  /\ Record(r, "request.failed")
  /\ Finish(r)
  /\ UNCHANGED <<ledgerSum, debitLines, created, events, sync, hcm, history>>

\* Either transaction throws and rolls back: an error that is not an HcmError
\* leaves approve(), and the request as it was.
ApproveThrow(r) ==
  /\ handler[r] = "approve"
  /\ \/ call[r] = "accepted" /\ ~CanCommit(snapshot, days[r])
     \/ call[r] = "refused" /\ ~CanRelease(snapshot, days[r])
  /\ Finish(r)
  /\ UNCHANGED <<books, status, created, audit, events, sync, hcm, history>>

\* A mutant of ApproveEnqueue: the failure is recorded, but nothing enqueued.
MutForgetEvent(r) ==
  /\ handler[r] = "approve" /\ call[r] = "waiting"
  /\ Record(r, "request.outbox_enqueued")
  /\ Finish(r)
  /\ UNCHANGED <<books, status, created, events, sync, hcm, history>>

\* enqueueRetryableDebit, after a timeout, a 5xx, or an open circuit.
ApproveEnqueue(r) ==
  /\ handler[r] = "approve" /\ call[r] = "waiting"
  /\ outbox' = IF outbox[r] = "NONE" THEN [outbox EXCEPT ![r] = "PENDING"] ELSE outbox
  /\ Record(r, "request.outbox_enqueued")
  /\ Finish(r)
  /\ UNCHANGED <<books, status, created, attempts, sync, hcm, history>>

-----------------------------------------------------------------------------
(* OutboxWorker *)

\* A mutant of WorkerTick: it fetches only what has not been tried before.
MutTickUntried(due) ==
  /\ ~WorkerBusy
  /\ due # {} /\ \A r \in due : outbox[r] = "PENDING" /\ attempts[r] = 0
  /\ queue' = due
  /\ UNCHANGED <<books, status, created, audit, events, handler, call, sync, hcm, history>>

\* tick and findDue: fetches pending rows whose next_attempt_at has come.
WorkerTick(due) ==
  /\ ~WorkerBusy
  /\ due # {} /\ \A r \in due : outbox[r] = "PENDING"
  /\ queue' = due
  /\ UNCHANGED <<books, status, created, audit, events, handler, call, sync, hcm, history>>

\* processOne, up to its HCM call.
WorkerTake(r) ==
  /\ r \in queue /\ \A q \in Requests : handler[q] \notin {"worker", "settled"}
  /\ queue' = queue \ {r}
  /\ outbox' = [outbox EXCEPT ![r] = "PROCESSING"]
  /\ handler' = [handler EXCEPT ![r] = "worker"]
  /\ call' = [call EXCEPT ![r] = "waiting"]
  /\ UNCHANGED <<books, status, created, audit, attempts, sync, hcm, history>>

WorkerHas(r, answer) == handler[r] = "worker" /\ call[r] = answer

\* The worker is through with the request, and has yet to mark the row.
Settle(r) ==
  /\ handler' = [handler EXCEPT ![r] = "settled"]
  /\ call' = [call EXCEPT ![r] = "none"]
  /\ UNCHANGED <<created, events, queue, sync, hcm, history>>

\* handleDebit, HCM having debited.
WorkerCommit(r) ==
  /\ WorkerHas(r, "accepted")
  /\ CanTransition(status[r], "COMMITTED") /\ CanCommit(snapshot, days[r])
  /\ CommitRows(r)
  /\ Settle(r)

\* handleDebit for a request that is no longer approved: nothing to do.
WorkerSkipCommit(r) ==
  /\ WorkerHas(r, "accepted")
  /\ ~CanTransition(status[r], "COMMITTED")
  /\ UNCHANGED <<books, status, audit>>
  /\ Settle(r)

\* handleTerminalHcmFailure of outbox.worker.ts, which never releases more
\* than is reserved.
WorkerRefused(r) ==
  /\ WorkerHas(r, "refused")
  /\ IF CanTransition(status[r], "FAILED")
     THEN /\ snapshot' = Release(snapshot,
               IF CanRelease(snapshot, days[r]) THEN days[r] ELSE snapshot.reserved)
          /\ status' = [status EXCEPT ![r] = "FAILED"]
          /\ Record(r, "request.failed")
     ELSE UNCHANGED <<snapshot, status, audit>>
  /\ UNCHANGED <<ledgerSum, debitLines>>
  /\ Settle(r)

\* markDone.
WorkerDone(r) ==
  /\ handler[r] = "settled"
  /\ outbox' = [outbox EXCEPT ![r] = "DONE"]
  /\ Finish(r)
  /\ UNCHANGED <<books, status, created, audit, attempts, sync, hcm, history>>

\* A mutant of WorkerRetryLater: the row is marked DONE whatever happened.
MutRetryMarksDone(r) ==
  /\ WorkerHas(r, "waiting")
  /\ outbox' = [outbox EXCEPT ![r] = "DONE"]
  /\ Finish(r)
  /\ UNCHANGED <<books, status, created, audit, attempts, sync, hcm, history>>

\* A mutant of WorkerRetryLater: one attempt too many.
MutRetryOnceMore(r) ==
  /\ WorkerHas(r, "waiting")
  /\ attempts' = [attempts EXCEPT ![r] = @ + 1]
  /\ outbox' = [outbox EXCEPT ![r] =
                  IF attempts'[r] > MaxAttempts THEN "DEAD" ELSE "PENDING"]
  /\ Finish(r)
  /\ UNCHANGED <<books, status, created, audit, sync, hcm, history>>

\* markFailed: a retryable failure of the call, or a commit that throws.
WorkerRetryLater(r) ==
  /\ \/ WorkerHas(r, "waiting")
     \/ /\ WorkerHas(r, "accepted")
        /\ CanTransition(status[r], "COMMITTED") /\ ~CanCommit(snapshot, days[r])
  /\ attempts' = [attempts EXCEPT ![r] = @ + 1]
  /\ outbox' = [outbox EXCEPT ![r] =
                  IF attempts'[r] >= MaxAttempts THEN "DEAD" ELSE "PENDING"]
  /\ Finish(r)
  /\ UNCHANGED <<books, status, created, audit, sync, hcm, history>>

-----------------------------------------------------------------------------
(* HCM, as apps/hcm-mock plays it *)

local == <<books, status, created, audit, events, handler, queue, sync, history>>

Debit(r) ==
  IF r \in hcmDebits
  THEN UNCHANGED <<hcmBalance, hcmDebits>>
  ELSE /\ hcmBalance >= days[r]
       /\ hcmBalance' = hcmBalance - days[r]
       /\ hcmDebits' = hcmDebits \cup {r}

\* HCM debits, or finds the idempotency key among its debits.
HcmAccept(r) ==
  /\ call[r] = "waiting"
  /\ Debit(r)
  /\ call' = [call EXCEPT ![r] = "accepted"]
  /\ UNCHANGED <<local, abandoned>>

\* HCM refuses for good: too low a balance, an unknown dimension, or a client
\* that is not allowed in (401, 403), perhaps on the retry of an attempt that
\* it has debited.
HcmRefuse(r) ==
  /\ call[r] = "waiting"
  /\ call' = [call EXCEPT ![r] = "refused"]
  /\ UNCHANGED <<local, hcm>>

\* An attempt times out, or its answer is lost.  withRetry tries again, or
\* the call fails: ApproveEnqueue, WorkerRetryLater.
AbandonAttempt(r) ==
  /\ call[r] = "waiting"
  /\ abandoned' = abandoned \cup {r}
  /\ UNCHANGED <<local, call, hcmBalance, hcmDebits>>

\* HCM gets to an attempt that its client gave up on.
HcmLateDebit(r) ==
  /\ r \in abandoned \ hcmDebits
  /\ Debit(r)
  /\ UNCHANGED <<local, call, abandoned>>

\* Another client of HCM: an accrual, a correction, an import.
HcmAdjust(v) ==
  /\ v # hcmBalance
  /\ hcmBalance' = v
  /\ UNCHANGED <<local, call, hcmDebits, abandoned>>

-----------------------------------------------------------------------------
(* Balances from HCM: batches, reconcile() and refreshFromHcm() *)

server == <<created, events, process, hcm, crashes>>

\* HCM cuts a batch.  It may arrive late, twice, or never: ingestBatch looks
\* at neither its id nor its asOf.
BatchCut(b) ==
  /\ sync' = [sync EXCEPT ![b] = [phase |-> "answered", seen |-> 0, value |-> hcmBalance]]
  /\ UNCHANGED <<books, status, audit, overridden, server>>

\* reconcile lists the snapshots and asks HCM for one of them.
ReconcileStart(s) ==
  /\ sync[s].phase = "idle" /\ snapshot.seeded
  /\ sync' = [sync EXCEPT ![s] = [phase |-> "asked", seen |-> snapshot.balance, value |-> 0]]
  /\ UNCHANGED <<books, status, audit, overridden, server>>

RefreshStart(s) ==
  /\ sync[s].phase = "idle"
  /\ sync' = [sync EXCEPT ![s] = [NoSync EXCEPT !.phase = "asked"]]
  /\ UNCHANGED <<books, status, audit, overridden, server>>

HcmReports(s) ==
  /\ sync[s].phase = "asked"
  /\ sync' = [sync EXCEPT ![s].phase = "answered", ![s].value = hcmBalance]
  /\ UNCHANGED <<books, status, audit, overridden, server>>

\* The call for the balance fails, or reconcile finds no drift.
SyncEnd(s) ==
  /\ \/ sync[s].phase = "asked"
     \/ /\ s \in Reconciles /\ sync[s].phase = "answered"
        /\ sync[s].value = sync[s].seen
  /\ sync' = [sync EXCEPT ![s] = NoSync]
  /\ UNCHANGED <<books, status, audit, overridden, server>>

\* A mutant of SetBalance: the ledger entry holds the balance.
MutLedgerTakesBalance(v) ==
  /\ ledgerSum' = ledgerSum + v
  /\ UNCHANGED <<debitLines, audit, server>>

\* The balance becomes v, and the difference a ledger entry.
SetBalance(v) ==
  /\ ledgerSum' = ledgerSum + (v - snapshot.balance)
  /\ UNCHANGED <<debitLines, audit, server>>

\* A mutant of AbsoluteBalance: approved requests are not looked at.
MutFlagsPendingOnly(v) ==
  \E flagged \in FlagSets({r \in Requests : status[r] = "PENDING"}, days, born, v) :
    /\ snapshot' = [SetAbsolute(snapshot, v) EXCEPT
         !.reserved = IF flagged = {} THEN @ ELSE Held(Holders \ flagged)]
    /\ status' = [r \in Requests |-> IF r \in flagged THEN "FAILED" ELSE status[r]]
    /\ UNCHANGED overridden
    /\ SetBalance(v)

\* handleHcmAbsoluteBalance: where v does not cover the requests that hold a
\* reservation, the newest become FAILED and the reservation is added up anew.
AbsoluteBalance(v) ==
  \E flagged \in FlagSets(Holders, days, born, v) :
    /\ snapshot' = [SetAbsolute(snapshot, v) EXCEPT
         !.reserved = IF flagged = {} THEN @ ELSE Held(Holders \ flagged)]
    /\ status' = [r \in Requests |-> IF r \in flagged THEN "FAILED" ELSE status[r]]
    /\ overridden' = overridden \cup {r \in flagged : handler[r] = "approve"}
    /\ SetBalance(v)

\* ingestBatch.
ApplyBatch(b) ==
  /\ sync[b].phase = "answered"
  /\ AbsoluteBalance(sync[b].value)
  /\ UNCHANGED sync

ApplyReconcile(s) ==
  /\ sync[s].phase = "answered" /\ sync[s].value # sync[s].seen
  /\ AbsoluteBalance(sync[s].value)
  /\ sync' = [sync EXCEPT ![s] = NoSync]

\* refreshFromHcm, which looks at no request.
ApplyRefresh(s) ==
  /\ sync[s].phase = "answered"
  /\ snapshot' = SetAbsolute(snapshot, sync[s].value)
  /\ SetBalance(sync[s].value)
  /\ sync' = [sync EXCEPT ![s] = NoSync]
  /\ UNCHANGED <<status, overridden>>

-----------------------------------------------------------------------------
(* The process crashes and restarts: the database stays, handlers do not. *)
Crash ==
  /\ crashes < MaxCrashes
  /\ crashes' = crashes + 1
  /\ abandoned' = abandoned \cup {r \in Requests : call[r] = "waiting"}
  /\ handler' = [r \in Requests |-> "idle"]
  /\ call' = [r \in Requests |-> "none"]
  /\ queue' = {}
  /\ sync' = [s \in Syncs |-> IF s \in Batches THEN sync[s] ELSE NoSync]
  /\ UNCHANGED <<books, status, created, audit, events, hcmBalance, hcmDebits, overridden>>

-----------------------------------------------------------------------------
\* No request yet; the snapshot is missing, or the first sync has made it.
Init ==
  /\ hcmBalance \in 0..MaxBalance
  /\ snapshot \in {NoRow, SetAbsolute(NoRow, hcmBalance)}
  /\ ledgerSum = snapshot.balance
  /\ debitLines = {}
  /\ status = [r \in Requests |-> "NONE"]
  /\ days = [r \in Requests |-> 0]
  /\ born = [r \in Requests |-> 0]
  /\ clock = 0
  /\ audit = {}
  /\ outbox = [r \in Requests |-> "NONE"]
  /\ attempts = [r \in Requests |-> 0]
  /\ handler = [r \in Requests |-> "idle"]
  /\ call = [r \in Requests |-> "none"]
  /\ queue = {}
  /\ sync = [s \in Syncs |-> NoSync]
  /\ hcmDebits = {}
  /\ abandoned = {}
  /\ overridden = {}
  /\ crashes = 0

Employee(r) == Cancel(r) \/ \E d \in 1..MaxDays : Create(r, d)

ApproveFinish(r) ==
  ApproveCommit(r) \/ ApproveFail(r) \/ ApproveThrow(r) \/ ApproveEnqueue(r)

WorkerFinish(r) ==
  \/ WorkerCommit(r) \/ WorkerSkipCommit(r) \/ WorkerRefused(r) \/ WorkerRetryLater(r)

Hcm(r) == HcmAccept(r) \/ HcmRefuse(r) \/ AbandonAttempt(r) \/ HcmLateDebit(r)

Sync ==
  \/ \E b \in Batches : BatchCut(b) \/ ApplyBatch(b)
  \/ \E s \in Reconciles : ReconcileStart(s) \/ ApplyReconcile(s)
  \/ \E s \in Refreshes : RefreshStart(s) \/ ApplyRefresh(s)
  \/ \E s \in Reconciles \cup Refreshes : HcmReports(s) \/ SyncEnd(s)

Next ==
  \/ \E r \in Requests :
       \/ Employee(r) \/ Reject(r)
       \/ ApproveStart(r) \/ ApproveFinish(r)
       \/ WorkerTake(r) \/ WorkerFinish(r) \/ WorkerDone(r)
       \/ Hcm(r)
  \/ \E due \in SUBSET Requests : WorkerTick(due)
  \/ \E v \in Adjustments : HcmAdjust(v)
  \/ Sync
  \/ Crash

Spec == Init /\ [][Next]_vars

\* The HTTP timeout ends every call, so the handler waiting for it goes on;
\* the worker takes each row it fetched; and since it polls again and again,
\* for the rows due longest, and the back-off is a minute at most, a pending
\* row is fetched if the worker is free often enough.
Fairness ==
  \A r \in Requests :
    /\ WF_vars(ApproveFinish(r))
    /\ WF_vars(WorkerTake(r)) /\ WF_vars(WorkerFinish(r)) /\ WF_vars(WorkerDone(r))
    /\ SF_vars(\E due \in SUBSET Requests : r \in due /\ WorkerTick(due))

FairSpec == Spec /\ Fairness

-----------------------------------------------------------------------------
(* Properties of every instance *)

\* HCM is never asked to debit a request that no manager has approved, nor
\* one that was rejected or cancelled: no call, no event, no late attempt.
\* (approve() and the worker race with reject(), cancel() and the syncs.)
UnapprovedNeverDebited ==
  \A r \in Requests : status[r] \in {"NONE", "PENDING", "REJECTED", "CANCELLED"} =>
    /\ r \notin hcmDebits \cup abandoned \cup queue
    /\ call[r] = "none" /\ outbox[r] = "NONE"

\* The requests with a DEBIT line are the committed ones, and HCM has debited
\* each of them: neither approve() nor the worker books a debit HCM has not
\* made, books one twice, or commits without booking it.
CommittedMeansDebited ==
  /\ debitLines = {r \in Requests : status[r] = "COMMITTED"}
  /\ debitLines \subseteq hcmDebits

\* The worker closes an event only when the request has an outcome.
DoneIsSettled ==
  \A r \in Requests : outbox[r] = "DONE" => status[r] \in {"COMMITTED", "FAILED"}

\* docs/TRD.md, "8. Invariants", 4: the balance is the sum of the ledger,
\* although commits, batches, reconcile() and refreshes write to both.
LedgerExplainsBalance == snapshot.balance = ledgerSum

\* docs/TRD.md, "8. Invariants", 2: the reservation is the sum over pending
\* and approved requests.  It holds as long as no sync has failed a request
\* whose approve() was waiting for HCM.
ReservationIsHeld == overridden = {} => snapshot.reserved = Held(Holders)

\* The balance is overbooked only until HCM's next word on it: whatever a
\* refresh has stored meanwhile, and whatever an approve() gave back that was
\* another's, a batch or a reconcile() leaves no more reserved than there is.
SyncRepairs ==
  [][(\E b \in Batches : ApplyBatch(b)) \/ (\E s \in Reconciles : ApplyReconcile(s))
       => snapshot'.reserved <= snapshot'.balance]_vars

\* Once a request is committed, rejected or cancelled it stays so.
OutcomeIsFinal ==
  [][\A r \in Requests : status[r] \in {"COMMITTED", "REJECTED", "CANCELLED"} =>
       status'[r] = status[r]]_vars

-----------------------------------------------------------------------------
(* Properties of the instances without refreshes *)

\* More is never reserved than there is: create() checks it, and batches and
\* reconcile() flag requests until it is so again.
NoOverbooking == snapshot.reserved <= snapshot.balance

\* A debit HCM has made can be booked: the commit of an approved request does
\* not throw, unless a sync failed a request whose approve() was waiting.
DebitCanBeBooked ==
  \A r \in Requests :
    overridden = {} /\ call[r] = "accepted" /\ status[r] = "APPROVED" =>
      CanCommit(snapshot, days[r])

-----------------------------------------------------------------------------
(* The account that employees and managers see *)

\* What the balance was before the committed requests took their days.
Credit == snapshot.balance + Held({r \in Requests : status[r] = "COMMITTED"})

Account == INSTANCE Account WITH
  opened  <- snapshot.seeded,
  credit  <- Credit,
  debited <- hcmDebits

\* Instances without syncs: the service implements Account.  Its reservation
\* counter, handlers, events, retries and late debits all come to a step of the
\* account or to none.
ImplementsAccount == Account!Spec

\* Instances without refreshes, batches and crashes included: each step is one
\* of Account until a sync fails a request whose approve() is waiting for HCM.
AccountUntilOverridden ==
  /\ Account!Init
  /\ [][overridden' = {} => Account!Next \/ UNCHANGED Account!vars]_vars

-----------------------------------------------------------------------------
(* Properties of the instances without syncs and crashes *)

\* The service is not done with an approved request: approve() or the worker
\* is on it, or it has an event the worker will take, or gave up on.
ApprovedIsTracked ==
  \A r \in Requests : status[r] = "APPROVED" =>
    handler[r] # "idle" \/ outbox[r] \in {"PENDING", "DEAD"}

\* Where nobody else changes HCM's balance, the service's balance differs
\* from it by the debits that HCM has made and the service has not booked.
DriftIsUnbookedDebits ==
  snapshot.seeded => snapshot.balance = hcmBalance + Held(hcmDebits \ debitLines)

\* Without syncs a request that fails has its audit entry, whoever failed it
\* (docs/TRD.md, "11. Observability").  A sync that flags one writes none.
FailureIsAudited ==
  \A r \in Requests : status[r] = "FAILED" => <<r, "request.failed">> \in audit

\* Every approved request is committed or failed, or ends as a dead event.
ApprovedIsResolved ==
  \A r \in Requests :
    status[r] = "APPROVED" ~> status[r] # "APPROVED" \/ outbox[r] = "DEAD"

-----------------------------------------------------------------------------
(* What the documentation says and the code does not do: the runs named in  *)
(* PROJECT.json show each of these violated.                                *)

\* docs/TRD.md, "8. Invariants", 2: reserved_days is the sum over PENDING and
\* APPROVED requests.  A batch that flags a request while its approve() waits
\* for HCM makes approve() give back a reservation that is gone already.
ReservedIsAlwaysHeld == snapshot.reserved = Held(Holders)

\* docs/TRD.md, "9. Failure Modes", crash between HCM debit and local commit:
\* the worker has an event for the debit.  approve() writes one only when its
\* call has failed, so after a crash there is none.  A row left PROCESSING by a
\* crash is no event the worker has: findDue looks for PENDING rows only.
DebitedIsTracked ==
  \A r \in hcmDebits : status[r] = "APPROVED" =>
    handler[r] # "idle" \/ outbox[r] \in {"PENDING", "DEAD"}

\* docs/TRD.md, "5.2 Request lifecycle": an approved request fails "via outbox
\* after exhausting retries".  The worker leaves it APPROVED, its days reserved.
DeadMeansFailed ==
  \A r \in Requests : outbox[r] = "DEAD" => status[r] = "FAILED"
=============================================================================
