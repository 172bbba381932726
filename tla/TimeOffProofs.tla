--------------------------- MODULE TimeOffProofs ---------------------------
(***************************************************************************)
(* Proofs of safety properties of TimeOff, for any set of requests, any    *)
(* bounds, any number of batches, reconcile() calls, refreshes and crashes.*)
(***************************************************************************)
EXTENDS TimeOff, TLAPS, FiniteSetTheorems

\* A handler with a call under way is approve() or the worker, and what HCM
\* accepts it has debited.
CallInv ==
  \A r \in Requests :
    /\ call[r] # "none" <=> handler[r] \in {"approve", "worker"}
    /\ call[r] = "accepted" => r \in hcmDebits

\* approve() works on a request that has no event, and that a sync may fail.
\* A request with an event has been approved.  The worker works on rows that
\* it has marked PROCESSING, and they have attempts left.
HandlerInv ==
  \A r \in Requests :
    /\ handler[r] = "approve" => /\ status[r] \in {"APPROVED", "FAILED"}
                                 /\ outbox[r] = "NONE"
    /\ handler[r] \in {"worker", "settled"} => outbox[r] = "PROCESSING"
    /\ handler[r] = "settled" => status[r] \in {"COMMITTED", "FAILED"}
    /\ r \in queue => outbox[r] = "PENDING"
    /\ outbox[r] # "NONE" => status[r] \in {"APPROVED", "COMMITTED", "FAILED"}
    /\ outbox[r] \in {"NONE", "PENDING", "PROCESSING"} => attempts[r] < MaxAttempts

\* The inductive invariant.
IInv ==
  /\ TypeOK /\ CallInv /\ HandlerInv
  /\ UnapprovedNeverDebited /\ CommittedMeansDebited
  /\ DoneIsSettled /\ LedgerExplainsBalance

-----------------------------------------------------------------------------
(* Lemmas *)

\* The days that a set of requests holds are a natural number.
LEMMA HeldIsNat ==
  ASSUME TypeOK, NEW S \in SUBSET Requests
  PROVE  Held(S) \in Nat
<1> DEFINE pairs == UNION {{r} \X (1..days[r]) : r \in S}
<1>1. pairs \subseteq Requests \X (1..MaxDays)
  BY BoundsAssumption DEF TypeOK, RowTypes
<1>2. IsFiniteSet(1..MaxDays)
  BY FS_Interval, BoundsAssumption
<1>3. IsFiniteSet(Requests \X (1..MaxDays))
  BY <1>2, FS_Product, RequestsAssumption
<1>4. IsFiniteSet(pairs)
  BY <1>1, <1>3, FS_Subset
<1> QED
  BY <1>4, FS_CardinalityType DEF Held, HeldDays

\* Only requests that hold a reservation are flagged.
LEMMA FlaggedHold ==
  ASSUME NEW v, NEW F \in FlagSets(Holders, days, born, v)
  PROVE  F \subseteq Holders
BY DEF FlagSets

\* What the transitions of the code allow.
LEMMA Transitions ==
  ASSUME NEW st \in RequestStatuses
  PROVE  /\ CanTransition(st, "APPROVED") <=> st = "PENDING"
         /\ CanTransition(st, "REJECTED") <=> st = "PENDING"
         /\ CanTransition(st, "CANCELLED") <=> st = "PENDING"
         /\ CanTransition(st, "COMMITTED") <=> st = "APPROVED"
         /\ CanTransition(st, "FAILED") <=> st = "APPROVED"
BY DEF RequestStatuses, CanTransition, ValidTransitions

\* The operations on the snapshot keep its bounds where they do not throw.
LEMMA SnapshotBounds ==
  ASSUME NEW row \in Snapshots, NEW n \in Nat
  PROVE  /\ CanReserve(row, n) => Reserve(row, n) \in Snapshots
         /\ CanRelease(row, n) => Release(row, n) \in Snapshots
         /\ Release(row, row.reserved) \in Snapshots
         /\ CanCommit(row, n) => Commit(row, n) \in Snapshots
         /\ n <= MaxBalance => SetAbsolute(row, n) \in Snapshots
<1> USE BoundsAssumption DEF Snapshots
<1>1. Reserve(row, n) \in Snapshots
  BY DEF Reserve
<1>2. CanRelease(row, n) => Release(row, n) \in Snapshots
  BY DEF CanRelease, Release
<1>3. Release(row, row.reserved) \in Snapshots
  BY DEF Release
<1>4. ASSUME CanCommit(row, n) PROVE Commit(row, n) \in Snapshots
  <2>1. row.balance - n \in 0..MaxBalance /\ row.reserved - n \in Nat
    BY <1>4 DEF CanCommit
  <2> QED
    BY <2>1 DEF Commit
<1>5. n <= MaxBalance => SetAbsolute(row, n) \in Snapshots
  BY DEF SetAbsolute
<1> QED
  BY <1>1, <1>2, <1>3, <1>4, <1>5

\* A new request reserves days: no event, call or DEBIT line is about it yet.
LEMMA CreateStep ==
  ASSUME IInv, NEW r \in Requests, NEW d \in 1..MaxDays, Create(r, d)
  PROVE  IInv'
<1> USE DEF IInv, TypeOK, Create
<1>0. d \in Nat /\ snapshot' \in Snapshots
  BY SnapshotBounds, BoundsAssumption DEF RowTypes
<1> USE DEF events, process, hcm, history, Record, Reserve
<1>1. TypeOK'
  BY <1>0, BoundsAssumption DEF RowTypes, ProcessTypes, HcmTypes, AuditActions,
     RequestStatuses
<1>2. CallInv' /\ HandlerInv'
  BY BoundsAssumption, Transitions DEF CallInv, HandlerInv,
     UnapprovedNeverDebited, RowTypes, ProcessTypes
<1>3. UnapprovedNeverDebited' /\ DoneIsSettled'
  BY Transitions DEF UnapprovedNeverDebited, DoneIsSettled, CallInv, HandlerInv,
     RowTypes, ProcessTypes
<1>4. CommittedMeansDebited' /\ LedgerExplainsBalance'
  BY Transitions DEF CommittedMeansDebited, LedgerExplainsBalance, CallInv,
     HandlerInv, RowTypes, Snapshots
<1> QED
  BY <1>1, <1>2, <1>3, <1>4

\* A request that is rejected or cancelled was pending, so nothing is under way
\* for it; the release does not get the reservation below 0.
LEMMA WithdrawStep ==
  ASSUME IInv, NEW r \in Requests, NEW to \in {"REJECTED", "CANCELLED"},
         NEW action \in AuditActions, Withdraw(r, to, action)
  PROVE  IInv'
<1> USE DEF IInv, TypeOK, Withdraw, ReleaseReservation
<1>0. days[r] \in Nat /\ snapshot' \in Snapshots
  BY SnapshotBounds, BoundsAssumption DEF RowTypes
<1> USE DEF created, events, process, hcm, history, Record, Release
<1>1. TypeOK'
  BY <1>0, BoundsAssumption DEF RowTypes, ProcessTypes, HcmTypes, AuditActions,
     RequestStatuses
<1>2. CallInv' /\ HandlerInv'
  BY BoundsAssumption, Transitions DEF CallInv, HandlerInv,
     UnapprovedNeverDebited, RowTypes, ProcessTypes
<1>3. UnapprovedNeverDebited' /\ DoneIsSettled'
  BY Transitions DEF UnapprovedNeverDebited, DoneIsSettled, CallInv, HandlerInv,
     RowTypes, ProcessTypes
<1>4. CommittedMeansDebited' /\ LedgerExplainsBalance'
  BY Transitions DEF CommittedMeansDebited, LedgerExplainsBalance, CallInv,
     HandlerInv, RowTypes, Snapshots
<1> QED
  BY <1>1, <1>2, <1>3, <1>4

\* approve() begins with a pending request, which no handler works on.
LEMMA ApproveStartStep ==
  ASSUME IInv, NEW r \in Requests, ApproveStart(r)
  PROVE  IInv'
<1> USE DEF IInv, TypeOK, ApproveStart, books, created, events, hcm, history,
    Record
<1>1. TypeOK'
  BY BoundsAssumption DEF RowTypes, ProcessTypes, HcmTypes, AuditActions,
     RequestStatuses, Handlers, Calls
<1>2. CallInv' /\ HandlerInv'
  BY BoundsAssumption, Transitions DEF CallInv, HandlerInv,
     UnapprovedNeverDebited, RowTypes, ProcessTypes
<1>3. UnapprovedNeverDebited' /\ DoneIsSettled'
  BY Transitions DEF UnapprovedNeverDebited, DoneIsSettled, CallInv, HandlerInv,
     RowTypes, ProcessTypes
<1>4. CommittedMeansDebited' /\ LedgerExplainsBalance'
  BY Transitions DEF CommittedMeansDebited, LedgerExplainsBalance, CallInv,
     HandlerInv, RowTypes, Snapshots
<1> QED
  BY <1>1, <1>2, <1>3, <1>4

\* approve() books a debit that HCM has made, and only if the balance covers it.
LEMMA ApproveCommitStep ==
  ASSUME IInv, NEW r \in Requests, ApproveCommit(r)
  PROVE  IInv'
<1> USE DEF IInv, TypeOK, ApproveCommit, CommitRows
<1>0. days[r] \in Nat /\ snapshot' \in Snapshots
  BY SnapshotBounds, BoundsAssumption DEF RowTypes
<1> USE DEF created, events, hcm, history, Finish, Record, Commit
<1>1. TypeOK'
  BY <1>0, BoundsAssumption DEF RowTypes, ProcessTypes, HcmTypes, AuditActions,
     RequestStatuses, Handlers, Calls
<1>2. CallInv' /\ HandlerInv'
  BY BoundsAssumption, Transitions DEF CallInv, HandlerInv,
     UnapprovedNeverDebited, RowTypes, ProcessTypes
<1>3. UnapprovedNeverDebited' /\ DoneIsSettled'
  BY Transitions DEF UnapprovedNeverDebited, DoneIsSettled, CallInv, HandlerInv,
     RowTypes, ProcessTypes
<1>4. CommittedMeansDebited' /\ LedgerExplainsBalance'
  BY Transitions DEF CommittedMeansDebited, LedgerExplainsBalance, CallInv,
     HandlerInv, RowTypes, Snapshots
<1> QED
  BY <1>1, <1>2, <1>3, <1>4

\* approve() fails its request; it has no DEBIT line, as approve() still has it.
LEMMA ApproveFailStep ==
  ASSUME IInv, NEW r \in Requests, ApproveFail(r)
  PROVE  IInv'
<1> USE DEF IInv, TypeOK, ApproveFail, ReleaseReservation
<1>0. days[r] \in Nat /\ snapshot' \in Snapshots
  BY SnapshotBounds, BoundsAssumption DEF RowTypes
<1> USE DEF created, events, hcm, history, Finish, Record, Release
<1>1. TypeOK'
  BY <1>0, BoundsAssumption DEF RowTypes, ProcessTypes, HcmTypes, AuditActions,
     RequestStatuses, Handlers, Calls
<1>2. CallInv' /\ HandlerInv'
  BY BoundsAssumption, Transitions DEF CallInv, HandlerInv,
     UnapprovedNeverDebited, RowTypes, ProcessTypes
<1>3. UnapprovedNeverDebited' /\ DoneIsSettled'
  BY Transitions DEF UnapprovedNeverDebited, DoneIsSettled, CallInv, HandlerInv,
     RowTypes, ProcessTypes
<1>4. CommittedMeansDebited' /\ LedgerExplainsBalance'
  BY Transitions DEF CommittedMeansDebited, LedgerExplainsBalance, CallInv,
     HandlerInv, RowTypes, Snapshots
<1> QED
  BY <1>1, <1>2, <1>3, <1>4

\* approve() that throws leaves the database alone.
LEMMA ApproveThrowStep ==
  ASSUME IInv, NEW r \in Requests, ApproveThrow(r)
  PROVE  IInv'
<1> USE DEF IInv, TypeOK, ApproveThrow, books, created, events, hcm, history,
    Finish
<1>1. TypeOK'
  BY BoundsAssumption DEF RowTypes, ProcessTypes, HcmTypes, Handlers, Calls
<1>2. CallInv' /\ HandlerInv'
  BY BoundsAssumption, Transitions DEF CallInv, HandlerInv,
     UnapprovedNeverDebited, RowTypes, ProcessTypes
<1>3. UnapprovedNeverDebited' /\ DoneIsSettled'
  BY Transitions DEF UnapprovedNeverDebited, DoneIsSettled, CallInv, HandlerInv,
     RowTypes, ProcessTypes
<1>4. CommittedMeansDebited' /\ LedgerExplainsBalance'
  BY Transitions DEF CommittedMeansDebited, LedgerExplainsBalance, CallInv,
     HandlerInv, RowTypes, Snapshots
<1> QED
  BY <1>1, <1>2, <1>3, <1>4

\* The event of approve() is the first one of an approved request.
LEMMA ApproveEnqueueStep ==
  ASSUME IInv, NEW r \in Requests, ApproveEnqueue(r)
  PROVE  IInv'
<1> USE DEF IInv, TypeOK, ApproveEnqueue, books, created, hcm, history, Finish,
    Record
<1>1. TypeOK'
  BY BoundsAssumption DEF RowTypes, ProcessTypes, HcmTypes, AuditActions,
     OutboxStatuses, Handlers, Calls
<1>2. CallInv' /\ HandlerInv'
  BY BoundsAssumption, Transitions DEF CallInv, HandlerInv,
     UnapprovedNeverDebited, RowTypes, ProcessTypes
<1>3. UnapprovedNeverDebited' /\ DoneIsSettled'
  BY Transitions DEF UnapprovedNeverDebited, DoneIsSettled, CallInv, HandlerInv,
     RowTypes, ProcessTypes
<1>4. CommittedMeansDebited' /\ LedgerExplainsBalance'
  BY Transitions DEF CommittedMeansDebited, LedgerExplainsBalance, CallInv,
     HandlerInv, RowTypes, Snapshots
<1> QED
  BY <1>1, <1>2, <1>3, <1>4

\* The tick fetches rows that are PENDING.
LEMMA WorkerTickStep ==
  ASSUME IInv, NEW due \in SUBSET Requests, WorkerTick(due)
  PROVE  IInv'
<1> USE DEF IInv, TypeOK, WorkerTick, books, created, events, hcm, history
<1>1. TypeOK'
  BY BoundsAssumption DEF RowTypes, ProcessTypes, HcmTypes, Handlers
<1>2. CallInv' /\ HandlerInv'
  BY BoundsAssumption, Transitions DEF CallInv, HandlerInv,
     UnapprovedNeverDebited, RowTypes, ProcessTypes
<1>3. UnapprovedNeverDebited' /\ DoneIsSettled'
  BY Transitions DEF UnapprovedNeverDebited, DoneIsSettled, CallInv, HandlerInv,
     RowTypes, ProcessTypes
<1>4. CommittedMeansDebited' /\ LedgerExplainsBalance'
  BY Transitions DEF CommittedMeansDebited, LedgerExplainsBalance, CallInv,
     HandlerInv, RowTypes, Snapshots
<1> QED
  BY <1>1, <1>2, <1>3, <1>4

\* The worker marks a row PROCESSING before it calls HCM.
LEMMA WorkerTakeStep ==
  ASSUME IInv, NEW r \in Requests, WorkerTake(r)
  PROVE  IInv'
<1> USE DEF IInv, TypeOK, WorkerTake, books, created, hcm, history
<1>1. TypeOK'
  BY BoundsAssumption DEF RowTypes, ProcessTypes, HcmTypes, OutboxStatuses,
     Handlers, Calls
<1>2. CallInv' /\ HandlerInv'
  BY BoundsAssumption, Transitions DEF CallInv, HandlerInv,
     UnapprovedNeverDebited, RowTypes, ProcessTypes
<1>3. UnapprovedNeverDebited' /\ DoneIsSettled'
  BY Transitions DEF UnapprovedNeverDebited, DoneIsSettled, CallInv, HandlerInv,
     RowTypes, ProcessTypes
<1>4. CommittedMeansDebited' /\ LedgerExplainsBalance'
  BY Transitions DEF CommittedMeansDebited, LedgerExplainsBalance, CallInv,
     HandlerInv, RowTypes, Snapshots
<1> QED
  BY <1>1, <1>2, <1>3, <1>4

\* The worker books a debit that HCM has made, of a request still approved.
LEMMA WorkerCommitStep ==
  ASSUME IInv, NEW r \in Requests, WorkerCommit(r)
  PROVE  IInv'
<1> USE DEF IInv, TypeOK, WorkerCommit, WorkerHas, CommitRows, Settle
<1>0. days[r] \in Nat /\ snapshot' \in Snapshots
  BY SnapshotBounds, BoundsAssumption DEF RowTypes
<1> USE DEF created, events, hcm, history, Record, Commit
<1>1. TypeOK'
  BY <1>0, BoundsAssumption DEF RowTypes, ProcessTypes, HcmTypes, AuditActions,
     RequestStatuses, Handlers, Calls
<1>2. CallInv' /\ HandlerInv'
  BY BoundsAssumption, Transitions DEF CallInv, HandlerInv,
     UnapprovedNeverDebited, RowTypes, ProcessTypes
<1>3. UnapprovedNeverDebited' /\ DoneIsSettled'
  BY Transitions DEF UnapprovedNeverDebited, DoneIsSettled, CallInv, HandlerInv,
     RowTypes, ProcessTypes
<1>4. CommittedMeansDebited' /\ LedgerExplainsBalance'
  BY Transitions DEF CommittedMeansDebited, LedgerExplainsBalance, CallInv,
     HandlerInv, RowTypes, Snapshots
<1> QED
  BY <1>1, <1>2, <1>3, <1>4

\* A request with an event that is not approved has an outcome already.
LEMMA WorkerSkipCommitStep ==
  ASSUME IInv, NEW r \in Requests, WorkerSkipCommit(r)
  PROVE  IInv'
<1> USE DEF IInv, TypeOK, WorkerSkipCommit, WorkerHas, Settle, books, created,
    events, hcm, history
<1>1. TypeOK'
  BY BoundsAssumption DEF RowTypes, ProcessTypes, HcmTypes, Handlers, Calls
<1>2. CallInv' /\ HandlerInv'
  BY BoundsAssumption, Transitions DEF CallInv, HandlerInv,
     UnapprovedNeverDebited, RowTypes, ProcessTypes
<1>3. UnapprovedNeverDebited' /\ DoneIsSettled'
  BY Transitions DEF UnapprovedNeverDebited, DoneIsSettled, CallInv, HandlerInv,
     RowTypes, ProcessTypes
<1>4. CommittedMeansDebited' /\ LedgerExplainsBalance'
  BY Transitions DEF CommittedMeansDebited, LedgerExplainsBalance, CallInv,
     HandlerInv, RowTypes, Snapshots
<1> QED
  BY <1>1, <1>2, <1>3, <1>4

\* The worker fails a request, unless it has an outcome already.
LEMMA WorkerRefusedStep ==
  ASSUME IInv, NEW r \in Requests, WorkerRefused(r)
  PROVE  IInv'
<1> USE DEF IInv, TypeOK, WorkerRefused, WorkerHas, Settle
<1>0. days[r] \in Nat /\ snapshot' \in Snapshots
  BY SnapshotBounds, BoundsAssumption DEF RowTypes
<1> USE DEF created, events, hcm, history, Record, Release
<1>1. TypeOK'
  BY <1>0, BoundsAssumption DEF RowTypes, ProcessTypes, HcmTypes, AuditActions,
     RequestStatuses, Handlers, Calls
<1>2. CallInv' /\ HandlerInv'
  BY BoundsAssumption, Transitions DEF CallInv, HandlerInv,
     UnapprovedNeverDebited, RowTypes, ProcessTypes
<1>3. UnapprovedNeverDebited' /\ DoneIsSettled'
  BY Transitions DEF UnapprovedNeverDebited, DoneIsSettled, CallInv, HandlerInv,
     RowTypes, ProcessTypes
<1>4. CommittedMeansDebited' /\ LedgerExplainsBalance'
  BY Transitions DEF CommittedMeansDebited, LedgerExplainsBalance, CallInv,
     HandlerInv, RowTypes, Snapshots
<1> QED
  BY <1>1, <1>2, <1>3, <1>4

\* The row is DONE when the request has an outcome.
LEMMA WorkerDoneStep ==
  ASSUME IInv, NEW r \in Requests, WorkerDone(r)
  PROVE  IInv'
<1> USE DEF IInv, TypeOK, WorkerDone, books, created, hcm, history, Finish
<1>1. TypeOK'
  BY BoundsAssumption DEF RowTypes, ProcessTypes, HcmTypes, OutboxStatuses,
     Handlers, Calls
<1>2. CallInv' /\ HandlerInv'
  BY BoundsAssumption, Transitions DEF CallInv, HandlerInv,
     UnapprovedNeverDebited, RowTypes, ProcessTypes
<1>3. UnapprovedNeverDebited' /\ DoneIsSettled'
  BY Transitions DEF UnapprovedNeverDebited, DoneIsSettled, CallInv, HandlerInv,
     RowTypes, ProcessTypes
<1>4. CommittedMeansDebited' /\ LedgerExplainsBalance'
  BY Transitions DEF CommittedMeansDebited, LedgerExplainsBalance, CallInv,
     HandlerInv, RowTypes, Snapshots
<1> QED
  BY <1>1, <1>2, <1>3, <1>4

\* A row that has attempts left when the worker takes it has none too many after.
LEMMA WorkerRetryLaterStep ==
  ASSUME IInv, NEW r \in Requests, WorkerRetryLater(r)
  PROVE  IInv'
<1> USE DEF IInv, TypeOK, WorkerRetryLater, WorkerHas, books, created, hcm,
    history, Finish
<1>1. TypeOK'
  BY BoundsAssumption DEF RowTypes, ProcessTypes, HcmTypes, HandlerInv,
     OutboxStatuses, Handlers, Calls
<1>2. CallInv' /\ HandlerInv'
  BY BoundsAssumption, Transitions DEF CallInv, HandlerInv,
     UnapprovedNeverDebited, RowTypes, ProcessTypes
<1>3. UnapprovedNeverDebited' /\ DoneIsSettled'
  BY Transitions DEF UnapprovedNeverDebited, DoneIsSettled, CallInv, HandlerInv,
     RowTypes, ProcessTypes
<1>4. CommittedMeansDebited' /\ LedgerExplainsBalance'
  BY Transitions DEF CommittedMeansDebited, LedgerExplainsBalance, CallInv,
     HandlerInv, RowTypes, Snapshots
<1> QED
  BY <1>1, <1>2, <1>3, <1>4

\* A call is about a request that is approved, and so is the debit.
LEMMA HcmAcceptStep ==
  ASSUME IInv, NEW r \in Requests, HcmAccept(r)
  PROVE  IInv'
<1> USE DEF IInv, TypeOK, HcmAccept, Debit, local, books, created, events,
    history
<1>1. TypeOK'
  BY BoundsAssumption DEF RowTypes, ProcessTypes, HcmTypes, Calls
<1>2. CallInv' /\ HandlerInv'
  BY BoundsAssumption, Transitions DEF CallInv, HandlerInv,
     UnapprovedNeverDebited, RowTypes, ProcessTypes
<1>3. UnapprovedNeverDebited' /\ DoneIsSettled'
  BY Transitions DEF UnapprovedNeverDebited, DoneIsSettled, CallInv, HandlerInv,
     RowTypes, ProcessTypes
<1>4. CommittedMeansDebited' /\ LedgerExplainsBalance'
  BY Transitions DEF CommittedMeansDebited, LedgerExplainsBalance, CallInv,
     HandlerInv, RowTypes, Snapshots
<1> QED
  BY <1>1, <1>2, <1>3, <1>4

\* A refusal changes nothing but the call.
LEMMA HcmRefuseStep ==
  ASSUME IInv, NEW r \in Requests, HcmRefuse(r)
  PROVE  IInv'
<1> USE DEF IInv, TypeOK, HcmRefuse, local, books, created, events, hcm, history
<1>1. TypeOK'
  BY BoundsAssumption DEF RowTypes, ProcessTypes, HcmTypes, Calls
<1>2. CallInv' /\ HandlerInv'
  BY BoundsAssumption, Transitions DEF CallInv, HandlerInv,
     UnapprovedNeverDebited, RowTypes, ProcessTypes
<1>3. UnapprovedNeverDebited' /\ DoneIsSettled'
  BY Transitions DEF UnapprovedNeverDebited, DoneIsSettled, CallInv, HandlerInv,
     RowTypes, ProcessTypes
<1>4. CommittedMeansDebited' /\ LedgerExplainsBalance'
  BY Transitions DEF CommittedMeansDebited, LedgerExplainsBalance, CallInv,
     HandlerInv, RowTypes, Snapshots
<1> QED
  BY <1>1, <1>2, <1>3, <1>4

\* An attempt that the client gives up on was made for an approved request.
LEMMA AbandonAttemptStep ==
  ASSUME IInv, NEW r \in Requests, AbandonAttempt(r)
  PROVE  IInv'
<1> USE DEF IInv, TypeOK, AbandonAttempt, local, books, created, events, history
<1>1. TypeOK'
  BY BoundsAssumption DEF RowTypes, ProcessTypes, HcmTypes, Calls
<1>2. CallInv' /\ HandlerInv'
  BY BoundsAssumption, Transitions DEF CallInv, HandlerInv,
     UnapprovedNeverDebited, RowTypes, ProcessTypes
<1>3. UnapprovedNeverDebited' /\ DoneIsSettled'
  BY Transitions DEF UnapprovedNeverDebited, DoneIsSettled, CallInv, HandlerInv,
     RowTypes, ProcessTypes
<1>4. CommittedMeansDebited' /\ LedgerExplainsBalance'
  BY Transitions DEF CommittedMeansDebited, LedgerExplainsBalance, CallInv,
     HandlerInv, RowTypes, Snapshots
<1> QED
  BY <1>1, <1>2, <1>3, <1>4

\* A late debit is of an attempt, so of a request that had been approved.
LEMMA HcmLateDebitStep ==
  ASSUME IInv, NEW r \in Requests, HcmLateDebit(r)
  PROVE  IInv'
<1> USE DEF IInv, TypeOK, HcmLateDebit, Debit, local, books, created, events,
    history
<1>1. TypeOK'
  BY BoundsAssumption DEF RowTypes, ProcessTypes, HcmTypes, Calls
<1>2. CallInv' /\ HandlerInv'
  BY BoundsAssumption, Transitions DEF CallInv, HandlerInv,
     UnapprovedNeverDebited, RowTypes, ProcessTypes
<1>3. UnapprovedNeverDebited' /\ DoneIsSettled'
  BY Transitions DEF UnapprovedNeverDebited, DoneIsSettled, CallInv, HandlerInv,
     RowTypes, ProcessTypes
<1>4. CommittedMeansDebited' /\ LedgerExplainsBalance'
  BY Transitions DEF CommittedMeansDebited, LedgerExplainsBalance, CallInv,
     HandlerInv, RowTypes, Snapshots
<1> QED
  BY <1>1, <1>2, <1>3, <1>4

\* HCM's other clients change its balance alone.
LEMMA HcmAdjustStep ==
  ASSUME IInv, NEW v \in Adjustments, HcmAdjust(v)
  PROVE  IInv'
<1> USE DEF IInv, TypeOK, HcmAdjust, local, books, created, events, history
<1>1. TypeOK'
  BY AdjustmentsAssumption DEF RowTypes, ProcessTypes, HcmTypes
<1>2. CallInv' /\ HandlerInv'
  BY BoundsAssumption, Transitions DEF CallInv, HandlerInv,
     UnapprovedNeverDebited, RowTypes, ProcessTypes
<1>3. UnapprovedNeverDebited' /\ DoneIsSettled'
  BY Transitions DEF UnapprovedNeverDebited, DoneIsSettled, CallInv, HandlerInv,
     RowTypes, ProcessTypes
<1>4. CommittedMeansDebited' /\ LedgerExplainsBalance'
  BY Transitions DEF CommittedMeansDebited, LedgerExplainsBalance, CallInv,
     HandlerInv, RowTypes, Snapshots
<1> QED
  BY <1>1, <1>2, <1>3, <1>4

\* A step that changes nothing but the state of a sync.
LEMMA SyncOnlyStep ==
  ASSUME IInv, sync' \in [Syncs -> SyncStates],
         UNCHANGED <<books, status, audit, overridden, server>>
  PROVE  IInv'
<1> USE DEF IInv, server, books, created, events, process, hcm
<1>1. TypeOK'
  BY DEF TypeOK, RowTypes, ProcessTypes, HcmTypes
<1>2. CallInv' /\ HandlerInv'
  BY DEF CallInv, HandlerInv
<1>3. UnapprovedNeverDebited' /\ DoneIsSettled'
  BY DEF UnapprovedNeverDebited, DoneIsSettled
<1>4. CommittedMeansDebited' /\ LedgerExplainsBalance'
  BY DEF CommittedMeansDebited, LedgerExplainsBalance
<1> QED
  BY <1>1, <1>2, <1>3, <1>4

\* The steps of a sync up to the point where it writes to the database.
LEMMA SyncProgressStep ==
  ASSUME IInv, NEW s \in Syncs,
         BatchCut(s) \/ ReconcileStart(s) \/ RefreshStart(s) \/ HcmReports(s) \/ SyncEnd(s)
  PROVE  IInv'
<1>1. hcmBalance \in 0..MaxBalance /\ snapshot.balance \in 0..MaxBalance
  BY DEF IInv, TypeOK, RowTypes, HcmTypes, Snapshots
<1>2. sync \in [Syncs -> SyncStates] /\ 0 \in 0..MaxBalance
  BY BoundsAssumption DEF IInv, TypeOK, ProcessTypes
<1>3. sync' \in [Syncs -> SyncStates]
  BY <1>1, <1>2
  DEF BatchCut, ReconcileStart, RefreshStart, HcmReports, SyncEnd, NoSync, SyncStates
<1>4. UNCHANGED <<books, status, audit, overridden, server>>
  BY DEF BatchCut, ReconcileStart, RefreshStart, HcmReports, SyncEnd
<1> QED
  BY <1>3, <1>4, SyncOnlyStep

\* A batch or reconcile() writes HCM's balance: the ledger follows, and the
\* requests that fail are pending or approved, so none with a DEBIT line.
LEMMA AbsoluteBalanceStep ==
  ASSUME IInv, NEW v \in 0..MaxBalance, AbsoluteBalance(v),
         sync' \in [Syncs -> SyncStates]
  PROVE  IInv'
<1>1. PICK flagged \in FlagSets(Holders, days, born, v) :
        /\ snapshot' = [SetAbsolute(snapshot, v) EXCEPT
             !.reserved = IF flagged = {} THEN @ ELSE Held(Holders \ flagged)]
        /\ status' = [r \in Requests |-> IF r \in flagged THEN "FAILED" ELSE status[r]]
        /\ overridden' = overridden \cup {r \in flagged : handler[r] = "approve"}
        /\ SetBalance(v)
  BY DEF AbsoluteBalance
<1>2. \A r \in flagged : r \in Requests /\ status[r] \in {"PENDING", "APPROVED"}
  BY FlaggedHold DEF Holders, HoldsReservation
<1>3. Held(Holders \ flagged) \in Nat
  BY HeldIsNat DEF IInv, Holders
<1> USE DEF IInv, TypeOK, SetBalance, server, created, events, process, hcm
<1>4. TypeOK'
  <2>1. SetAbsolute(snapshot, v) \in Snapshots
    BY SnapshotBounds, BoundsAssumption DEF RowTypes
  <2>2. snapshot' \in Snapshots
    BY <1>1, <1>3, <2>1 DEF Snapshots
  <2>3. ledgerSum' \in Int
    BY <1>1 DEF RowTypes, Snapshots
  <2> QED
    BY <2>2, <2>3, <1>1, <1>2 DEF RowTypes, ProcessTypes, HcmTypes, RequestStatuses
<1>5. CallInv' /\ HandlerInv'
  BY <1>1, <1>2 DEF CallInv, HandlerInv, UnapprovedNeverDebited, RowTypes
<1>6. UnapprovedNeverDebited' /\ DoneIsSettled'
  BY <1>1, <1>2 DEF UnapprovedNeverDebited, DoneIsSettled, RowTypes
<1>7. CommittedMeansDebited' /\ LedgerExplainsBalance'
  <2>1. CommittedMeansDebited'
    BY <1>1, <1>2 DEF CommittedMeansDebited, RowTypes
  <2>2. LedgerExplainsBalance'
    BY <1>1 DEF LedgerExplainsBalance, RowTypes, Snapshots, SetAbsolute
  <2> QED
    BY <2>1, <2>2
<1> QED
  BY <1>4, <1>5, <1>6, <1>7

\* A refresh writes the balance and its ledger entry, and touches no request.
LEMMA ApplyRefreshStep ==
  ASSUME IInv, NEW s \in Syncs, ApplyRefresh(s)
  PROVE  IInv'
<1> USE DEF IInv, TypeOK, ApplyRefresh, SetBalance, server, created, events, process, hcm
<1>0. sync[s].value \in 0..MaxBalance /\ sync' \in [Syncs -> SyncStates]
  BY BoundsAssumption DEF ProcessTypes, SyncStates, NoSync
<1>1. TypeOK'
  BY <1>0 DEF RowTypes, ProcessTypes, HcmTypes, Snapshots, SetAbsolute
<1>2. CallInv' /\ HandlerInv'
  BY DEF CallInv, HandlerInv
<1>3. UnapprovedNeverDebited' /\ DoneIsSettled'
  BY DEF UnapprovedNeverDebited, DoneIsSettled
<1>4. CommittedMeansDebited' /\ LedgerExplainsBalance'
  BY <1>0 DEF CommittedMeansDebited, LedgerExplainsBalance, RowTypes, Snapshots, SetAbsolute
<1> QED
  BY <1>1, <1>2, <1>3, <1>4

\* Every step of a sync.
LEMMA SyncStep ==
  ASSUME IInv, Sync
  PROVE  IInv'
<1>1. ASSUME NEW s \in Syncs, ApplyBatch(s) \/ ApplyReconcile(s)
      PROVE  IInv'
  <2>1. sync[s].value \in 0..MaxBalance /\ sync' \in [Syncs -> SyncStates]
    BY <1>1, BoundsAssumption
    DEF IInv, TypeOK, ProcessTypes, SyncStates, ApplyBatch, ApplyReconcile, NoSync
  <2> QED
    BY <1>1, <2>1, AbsoluteBalanceStep DEF ApplyBatch, ApplyReconcile
<1> QED
  BY <1>1, SyncProgressStep, ApplyRefreshStep DEF Sync, Syncs

\* A crash ends every handler and every call; the database is as it was.
LEMMA CrashStep ==
  ASSUME IInv, Crash
  PROVE  IInv'
<1> USE DEF IInv, TypeOK, Crash, books, created, events
<1>1. TypeOK'
  BY BoundsAssumption
  DEF RowTypes, ProcessTypes, HcmTypes, Handlers, Calls, SyncStates, NoSync
<1>2. CallInv' /\ HandlerInv'
  BY DEF CallInv, HandlerInv
<1>3. UnapprovedNeverDebited' /\ DoneIsSettled'
  BY DEF UnapprovedNeverDebited, DoneIsSettled
<1>4. CommittedMeansDebited' /\ LedgerExplainsBalance'
  BY DEF CommittedMeansDebited, LedgerExplainsBalance
<1> QED
  BY <1>1, <1>2, <1>3, <1>4

-----------------------------------------------------------------------------
(* The invariant is inductive *)

\* The initial states satisfy the invariant.
LEMMA InitInv ==
  ASSUME Init
  PROVE  IInv
<1> USE BoundsAssumption DEF Init
<1>1. snapshot \in Snapshots
  <2>1. NoRow \in Snapshots
    BY DEF Snapshots, NoRow
  <2> QED
    BY <2>1, SnapshotBounds
<1>2. TypeOK
  BY <1>1 DEF TypeOK, RowTypes, ProcessTypes, HcmTypes, Snapshots, RequestStatuses,
     OutboxStatuses, Handlers, Calls, SyncStates, NoSync
<1>3. CallInv /\ HandlerInv /\ UnapprovedNeverDebited /\ DoneIsSettled
  BY DEF CallInv, HandlerInv, UnapprovedNeverDebited, DoneIsSettled
<1>4. CommittedMeansDebited /\ LedgerExplainsBalance
  BY DEF CommittedMeansDebited, LedgerExplainsBalance
<1> QED
  BY <1>2, <1>3, <1>4 DEF IInv

\* Every step keeps the invariant.
LEMMA StepInv ==
  ASSUME IInv, [Next]_vars
  PROVE  IInv'
<1>1. ASSUME NEW r \in Requests, Employee(r) \/ Reject(r)
      PROVE  IInv'
  BY <1>1, CreateStep, WithdrawStep DEF Employee, Cancel, Reject, AuditActions
<1>2. ASSUME NEW r \in Requests, ApproveStart(r) \/ ApproveFinish(r)
      PROVE  IInv'
  BY <1>2, ApproveStartStep, ApproveCommitStep, ApproveFailStep, ApproveThrowStep,
     ApproveEnqueueStep DEF ApproveFinish
<1>3. ASSUME NEW r \in Requests, WorkerTake(r) \/ WorkerFinish(r) \/ WorkerDone(r)
      PROVE  IInv'
  BY <1>3, WorkerTakeStep, WorkerCommitStep, WorkerSkipCommitStep, WorkerRefusedStep,
     WorkerRetryLaterStep, WorkerDoneStep DEF WorkerFinish
<1>4. ASSUME NEW r \in Requests, Hcm(r)
      PROVE  IInv'
  BY <1>4, HcmAcceptStep, HcmRefuseStep, AbandonAttemptStep, HcmLateDebitStep DEF Hcm
<1>5. CASE UNCHANGED vars
  <2>1. UNCHANGED <<books, status, audit, overridden, server, sync>>
    BY <1>5 DEF vars, server, history
  <2>2. sync' \in [Syncs -> SyncStates]
    BY <2>1 DEF IInv, TypeOK, ProcessTypes
  <2> QED
    BY <2>1, <2>2, SyncOnlyStep
<1> QED
  BY <1>1, <1>2, <1>3, <1>4, <1>5, WorkerTickStep, HcmAdjustStep, SyncStep, CrashStep
  DEF Next

\* The inductive invariant holds in every reachable state.
THEOREM Invariance == Spec => []IInv
<1>1. Init => IInv
  BY InitInv
<1>2. IInv /\ [Next]_vars => IInv'
  BY StepInv
<1> QED
  BY <1>1, <1>2, PTL DEF Spec

-----------------------------------------------------------------------------
(* The theorems *)

\* The types, and with them the bounds of docs/TRD.md: the balance and the
\* reservation are never negative, and no row has more than MaxAttempts.
THEOREM TypeCorrect == Spec => []TypeOK
<1>1. IInv => TypeOK
  BY DEF IInv
<1> QED
  BY <1>1, Invariance, PTL

\* HCM is never asked to debit a request that is not approved.
THEOREM NoDebitUnapproved == Spec => []UnapprovedNeverDebited
<1>1. IInv => UnapprovedNeverDebited
  BY DEF IInv
<1> QED
  BY <1>1, Invariance, PTL

\* A request is committed exactly if it has a DEBIT line, and then HCM has
\* debited it, whatever crashes, syncs and lost answers came between.
THEOREM CommitsAreDebits == Spec => []CommittedMeansDebited
<1>1. IInv => CommittedMeansDebited
  BY DEF IInv
<1> QED
  BY <1>1, Invariance, PTL

\* An event that is DONE belongs to a request with an outcome.
THEOREM DoneEventsSettled == Spec => []DoneIsSettled
<1>1. IInv => DoneIsSettled
  BY DEF IInv
<1> QED
  BY <1>1, Invariance, PTL

\* The balance is the sum of the ledger.
THEOREM LedgerIsBalance == Spec => []LedgerExplainsBalance
<1>1. IInv => LedgerExplainsBalance
  BY DEF IInv
<1> QED
  BY <1>1, Invariance, PTL

\* What OutcomeIsFinal says of one step.
OutcomesKept ==
  \A r \in Requests : status[r] \in {"COMMITTED", "REJECTED", "CANCELLED"} =>
    status'[r] = status[r]

\* Every write of a status is to a request that has none, that holds a
\* reservation, or that approve() is working on, which is APPROVED or FAILED.
LEMMA OutcomesKeptStep ==
  ASSUME IInv, [Next]_vars
  PROVE  OutcomesKept
<1> USE DEF OutcomesKept, IInv, TypeOK, RowTypes
<1>1. ASSUME NEW r \in Requests, Employee(r) \/ Reject(r) PROVE OutcomesKept
  BY <1>1, Transitions DEF Employee, Cancel, Reject, Create, Withdraw
<1>2. ASSUME NEW r \in Requests, ApproveStart(r) \/ ApproveFinish(r) PROVE OutcomesKept
  BY <1>2 DEF ApproveStart, ApproveFinish, ApproveCommit, ApproveFail, ApproveThrow,
     ApproveEnqueue, CommitRows, HandlerInv
<1>3. ASSUME NEW r \in Requests, WorkerTake(r) \/ WorkerFinish(r) \/ WorkerDone(r)
      PROVE  OutcomesKept
  BY <1>3, Transitions DEF WorkerTake, WorkerFinish, WorkerDone, WorkerCommit,
     WorkerSkipCommit, WorkerRefused, WorkerRetryLater, CommitRows
<1>4. ASSUME NEW r \in Requests, Hcm(r) PROVE OutcomesKept
  BY <1>4 DEF Hcm, HcmAccept, HcmRefuse, AbandonAttempt, HcmLateDebit, local
<1>5. ASSUME NEW v, AbsoluteBalance(v) PROVE OutcomesKept
  BY <1>5, FlaggedHold DEF AbsoluteBalance, Holders, HoldsReservation
<1>6. CASE Sync
  BY <1>5, <1>6 DEF Sync, BatchCut, ApplyBatch, ReconcileStart, ApplyReconcile,
     RefreshStart, ApplyRefresh, HcmReports, SyncEnd
<1>7. ASSUME NEW due \in SUBSET Requests, WorkerTick(due) PROVE OutcomesKept
  BY <1>7 DEF WorkerTick
<1>8. ASSUME NEW v \in Adjustments, HcmAdjust(v) PROVE OutcomesKept
  BY <1>8 DEF HcmAdjust, local
<1>9. CASE Crash \/ UNCHANGED vars
  BY <1>9 DEF Crash, vars
<1> QED
  BY <1>1, <1>2, <1>3, <1>4, <1>6, <1>7, <1>8, <1>9 DEF Next

\* A committed, rejected or cancelled request keeps its status for good.
THEOREM OutcomesAreFinal == Spec => OutcomeIsFinal
<1>1. IInv /\ [Next]_vars => OutcomesKept
  BY OutcomesKeptStep
<1> QED
  BY <1>1, Invariance, PTL DEF Spec, OutcomeIsFinal, OutcomesKept
=============================================================================
