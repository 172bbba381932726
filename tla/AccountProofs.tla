--------------------------- MODULE AccountProofs ---------------------------
(***************************************************************************)
(* TimeOff implements Account: without syncs as it stands, and without     *)
(* refreshes until a sync fails a request whose approve() is waiting.      *)
(* Where no sync and no crash disturbs it, approved requests are tracked   *)
(* and the balances differ by unbooked debits.                             *)
(***************************************************************************)
EXTENDS ReservationProofs

Committed == {r \in Requests : status[r] = "COMMITTED"}

\* The account's derived quantities are those of the snapshot.
LEMMA AccountView ==
  IInv => /\ Account!Balance = snapshot.balance
          /\ Account!Promised = Held(Holders)
          /\ Held(Holders) \in Nat /\ Credit \in Int
<1> SUFFICES ASSUME IInv
             PROVE  /\ Account!Balance = snapshot.balance
                    /\ Account!Promised = Held(Holders)
                    /\ Held(Holders) \in Nat /\ Credit \in Int
  OBVIOUS
<1>1. Held(Committed) \in Nat /\ Held(Holders) \in Nat
  BY HeldIsNat DEF IInv, Committed, Holders
<1>2. Account!Those({"COMMITTED"}) = Committed
  BY DEF Account!Those, Committed
<1>3. Account!Those({"PENDING", "APPROVED"}) = Holders
  BY DEF Account!Those, Holders, HoldsReservation
<1>4. Credit = snapshot.balance + Held(Committed)
  BY DEF Credit, Committed
<1>5. Account!Balance = Credit - Held(Committed)
  BY <1>2 DEF Account!Balance, Held
<1>6. Account!Promised = Held(Holders)
  BY <1>3 DEF Account!Promised, Held
<1> QED
  BY <1>1, <1>4, <1>5, <1>6, RowFacts

\* The credit stays where neither the balance nor a committed request changes.
LEMMA CreditKept ==
  ASSUME IInv, snapshot'.balance = snapshot.balance,
         \A r \in Requests : status'[r] = "COMMITTED" <=> status[r] = "COMMITTED",
         \A r \in Requests : status[r] = "COMMITTED" => days'[r] = days[r]
  PROVE  Credit' = Credit
<1>1. Committed' = Committed
  BY DEF Committed
<1>2. HeldDays(Committed, days') = HeldDays(Committed, days)
  BY HeldSame DEF Committed
<1> QED
  BY <1>1, <1>2 DEF Credit, Held, Committed

\* A commit takes days off the balance that its request then accounts for.
LEMMA CreditOfCommit ==
  ASSUME IInv, NEW r \in Requests, status[r] = "APPROVED",
         CommitRows(r), UNCHANGED days
  PROVE  Credit' = Credit
<1>1. Committed' = Committed \cup {r} /\ r \notin Committed
  BY RowFacts DEF CommitRows, Committed
<1>2. /\ Held(Committed) \in Nat /\ days[r] \in Nat
      /\ HeldDays(Committed \cup {r}, days) = HeldDays(Committed, days) + days[r]
  <2>1. Committed \cup {r} \in SUBSET Requests /\ (Committed \cup {r}) \ {r} = Committed
    BY <1>1 DEF Committed
  <2> QED
    BY <2>1, HeldRemove, RowFacts DEF Held
<1>3. snapshot'.balance = snapshot.balance - days[r]
  BY DEF CommitRows, Commit, IInv, TypeOK, RowTypes, Snapshots
<1>4. /\ Credit = snapshot.balance + HeldDays(Committed, days)
      /\ Credit' = snapshot'.balance + HeldDays(Committed', days')
  BY DEF Credit, Committed, Held
<1> QED
  BY <1>1, <1>2, <1>3, <1>4, RowFacts DEF Held

-----------------------------------------------------------------------------
(* Steps *)

\* Reserving and releasing leave the other fields of the row.
LEMMA OtherFields ==
  ASSUME IInv, NEW n
  PROVE  /\ Reserve(snapshot, n).seeded = snapshot.seeded
         /\ Reserve(snapshot, n).balance = snapshot.balance
         /\ Release(snapshot, n).seeded = snapshot.seeded
         /\ Release(snapshot, n).balance = snapshot.balance
         /\ Commit(snapshot, n).seeded = snapshot.seeded
         /\ Commit(snapshot, n).balance = snapshot.balance - n
BY DEF IInv, TypeOK, RowTypes, Snapshots, Reserve, Release, Commit

\* A step of the account, or none.
AccountStep == Account!Next \/ UNCHANGED Account!vars

\* A step that touches none of it.
LEMMA HiddenStep ==
  ASSUME IInv, UNCHANGED <<snapshot, status, days, hcmDebits>>
  PROVE  AccountStep
<1>1. Credit' = Credit
  BY CreditKept
<1> QED
  BY <1>1 DEF AccountStep, Account!vars

\* create: what is available is what the account has and has not promised.
LEMMA CreateSubmits ==
  ASSUME IInv, RInv, overridden = {}, NEW r \in Requests, NEW d \in 1..MaxDays,
         Create(r, d)
  PROVE  AccountStep
<1>1. Account!Balance - Account!Promised >= d
  BY AccountView, RowFacts
  DEF Create, CanReserve, Available, RInv, ReservationIsHeld
<1>2. Credit' = Credit
  BY CreditKept, OtherFields, RowFacts DEF Create, DayCounts
<1>3. Account!Submit(r, d)
  BY <1>1, <1>2, OtherFields DEF Create, Account!Submit, hcm
<1> QED
  BY <1>3 DEF AccountStep, Account!Next

\* reject and cancel.
LEMMA WithdrawWithdraws ==
  ASSUME IInv, NEW r \in Requests, NEW to \in {"REJECTED", "CANCELLED"},
         NEW action, Withdraw(r, to, action)
  PROVE  AccountStep
<1>1. status[r] = "PENDING"
  BY RowFacts, Transitions DEF Withdraw
<1>2. Credit' = Credit
  BY <1>1, CreditKept, OtherFields, RowFacts DEF Withdraw, ReleaseReservation, created
<1>3. Account!CanTransition(status[r], to)
  BY <1>1 DEF Account!CanTransition, Account!ValidTransitions
<1>4. Account!Withdraw(r)
  <2>1. Account!Becomes(r, to)
    BY <1>2, <1>3, OtherFields DEF Withdraw, ReleaseReservation, Account!Becomes, created, hcm
  <2> QED
    BY <1>1, <2>1 DEF Account!Withdraw
<1> QED
  BY <1>4 DEF AccountStep, Account!Next

\* approve, up to its call.
LEMMA ApproveApproves ==
  ASSUME IInv, NEW r \in Requests, ApproveStart(r)
  PROVE  AccountStep
<1>1. Credit' = Credit
  BY CreditKept, RowFacts DEF ApproveStart, books, created
<1>2. Account!CanTransition("PENDING", "APPROVED")
  BY DEF Account!CanTransition, Account!ValidTransitions
<1>3. Account!Approve(r)
  BY <1>1, <1>2
  DEF ApproveStart, Account!Approve, Account!Becomes, books, created, hcm
<1> QED
  BY <1>3 DEF AccountStep, Account!Next

\* The two commits: HCM has debited the request, and it is still approved.
LEMMA CommitTakes ==
  ASSUME IInv, RInv, overridden = {}, NEW r \in Requests,
         ApproveCommit(r) \/ WorkerCommit(r)
  PROVE  AccountStep
<1>1. CommitRows(r) /\ UNCHANGED <<days, hcmDebits>>
  BY DEF ApproveCommit, WorkerCommit, Settle, created, hcm
<1>2. r \in hcmDebits
  BY DEF ApproveCommit, WorkerCommit, WorkerHas, IInv, CallInv
<1>3. status[r] = "APPROVED"
  <2>1. CASE ApproveCommit(r)
    BY <2>1 DEF ApproveCommit, IInv, HandlerInv, RInv, StaleInv
  <2>2. CASE WorkerCommit(r)
    BY <2>2, RowFacts, Transitions
    DEF WorkerCommit, WorkerHas, IInv, HandlerInv, CanTransition, ValidTransitions
  <2> QED
    BY <2>1, <2>2
<1>4. Credit' = Credit
  BY <1>1, <1>3, CreditOfCommit
<1>5. Account!CanTransition("APPROVED", "COMMITTED")
  BY DEF Account!CanTransition, Account!ValidTransitions
<1>6. Account!Take(r)
  BY <1>1, <1>2, <1>3, <1>4, <1>5, OtherFields
  DEF CommitRows, Account!Take, Account!Becomes
<1> QED
  BY <1>6 DEF AccountStep, Account!Next

\* A terminal failure, in approve() or the worker.
LEMMA RefusalFails ==
  ASSUME IInv, RInv, overridden = {}, NEW r \in Requests,
         ApproveFail(r) \/ WorkerRefused(r)
  PROVE  AccountStep
<1>1. UNCHANGED <<days, hcmDebits>>
  BY DEF ApproveFail, WorkerRefused, Settle, created, hcm
<1>2. CASE UNCHANGED <<snapshot, status>>
  BY <1>1, <1>2, HiddenStep
<1>3. CASE ~UNCHANGED <<snapshot, status>>
  <2>1. status[r] = "APPROVED"
    <3>1. CASE ApproveFail(r)
      BY <3>1 DEF ApproveFail, IInv, HandlerInv, RInv, StaleInv
    <3>2. CASE WorkerRefused(r)
      <4>1. CanTransition(status[r], "FAILED")
        BY <1>3, <3>2 DEF WorkerRefused
      <4>2. status[r] \in RequestStatuses
        BY <3>2, RowFacts
        DEF WorkerRefused, WorkerHas, IInv, HandlerInv, RequestStatuses
      <4> QED
        BY <4>1, <4>2, Transitions
    <3> QED
      BY <3>1, <3>2
  <2>2. /\ status' = [status EXCEPT ![r] = "FAILED"]
        /\ snapshot'.seeded = snapshot.seeded /\ snapshot'.balance = snapshot.balance
    BY <1>3, OtherFields DEF ApproveFail, ReleaseReservation, WorkerRefused
  <2>3. Credit' = Credit
    BY <1>1, <2>1, <2>2, CreditKept, RowFacts
  <2>4. Account!CanTransition("APPROVED", "FAILED")
    BY DEF Account!CanTransition, Account!ValidTransitions
  <2>5. Account!Fail(r)
    BY <1>1, <2>1, <2>2, <2>3, <2>4 DEF Account!Fail, Account!Becomes
  <2> QED
    BY <2>5 DEF AccountStep, Account!Next
<1> QED
  BY <1>2, <1>3

\* HCM debits at the call's time or late: never a request nobody approved, and
\* a committed one is debited already.
LEMMA HcmDebits ==
  ASSUME IInv, NEW r \in Requests, HcmAccept(r) \/ HcmLateDebit(r)
  PROVE  AccountStep
<1>1. UNCHANGED <<snapshot, status, days>>
  BY DEF HcmAccept, HcmLateDebit, local, books, created
<1>2. CASE r \in hcmDebits
  <2>1. UNCHANGED hcmDebits
    BY <1>2 DEF HcmAccept, HcmLateDebit, Debit
  <2> QED
    BY <1>1, <2>1, HiddenStep
<1>3. CASE r \notin hcmDebits
  <2>1. hcmDebits' = hcmDebits \cup {r}
    BY <1>3 DEF HcmAccept, HcmLateDebit, Debit
  <2>2. status[r] \in {"APPROVED", "FAILED"}
    BY <1>3, RowFacts
    DEF HcmAccept, HcmLateDebit, IInv, UnapprovedNeverDebited, CommittedMeansDebited,
      RequestStatuses
  <2>3. Credit' = Credit
    BY <1>1, CreditKept
  <2>4. Account!Debit(r)
    BY <1>1, <1>3, <2>1, <2>2, <2>3 DEF Account!Debit
  <2> QED
    BY <2>4 DEF AccountStep, Account!Next
<1> QED
  BY <1>2, <1>3

\* A batch or reconcile(): the rest fits, and nothing fails without need.
LEMMA AbsoluteRegrants ==
  ASSUME IInv, IInv', NEW v \in 0..MaxBalance, AbsoluteBalance(v)
  PROVE  AccountStep
<1>1. PICK F \in FlagSets(Holders, days, born, v) :
        /\ snapshot' = [SetAbsolute(snapshot, v) EXCEPT
             !.reserved = IF F = {} THEN @ ELSE Held(Holders \ F)]
        /\ status' = [r \in Requests |-> IF r \in F THEN "FAILED" ELSE status[r]]
        /\ SetBalance(v)
  BY DEF AbsoluteBalance
<1>2. v \in Nat /\ UNCHANGED <<days, hcmDebits>>
  BY <1>1, BoundsAssumption DEF SetBalance, server, created, hcm
<1>3. snapshot'.seeded = TRUE /\ snapshot'.balance = v
  BY <1>1 DEF SetAbsolute
<1>4. /\ Account!Balance' = snapshot'.balance
      /\ Account!Promised' = Held(Holders)' /\ Credit' \in Int
  <2>1. (IInv => /\ Account!Balance = snapshot.balance
                 /\ Account!Promised = Held(Holders)
                 /\ Held(Holders) \in Nat /\ Credit \in Int)'
    BY AccountView, PTL
  <2> QED
    BY <2>1
<1>5. Holders' = Holders \ F
  BY <1>1, RowFacts DEF Holders, HoldsReservation
<1>6. Account!Promised' <= Account!Balance'
  <2>1. Held(Holders)' = Held(Holders \ F)
    BY <1>2, <1>5 DEF Held
  <2> QED
    BY <1>2, <1>3, <1>4, <2>1, RestFits
<1>7. F # {} => Account!Balance' < Account!Promised
  <2>1. F # {} => Held(Holders) - v > 0
    BY AccountView DEF FlagSets, Held
  <2> QED
    BY <1>2, <1>3, <1>4, <2>1, AccountView
<1>8. F \subseteq Account!Those({"PENDING", "APPROVED"})
  BY FlaggedHold DEF Account!Those, Holders, HoldsReservation
<1>9. Account!Regrant(F)
  BY <1>1, <1>2, <1>3, <1>4, <1>6, <1>7, <1>8 DEF Account!Regrant
<1>10. F \in SUBSET Requests
  BY FlaggedHold, RowFacts
<1> QED
  BY <1>9, <1>10 DEF AccountStep, Account!Next

\* No step takes a request out of the overridden ones.
LEMMA OverriddenGrows ==
  ASSUME [Next]_vars
  PROVE  overridden \subseteq overridden' /\ (Syncs = {} => overridden' = overridden)
<1>1. ASSUME NEW r \in Requests,
             Employee(r) \/ Reject(r) \/ ApproveStart(r) \/ ApproveFinish(r)
      PROVE  overridden' = overridden
  BY <1>1 DEF Employee, Cancel, Reject, Create, Withdraw, ApproveStart, ApproveFinish,
    ApproveCommit, ApproveFail, ApproveThrow, ApproveEnqueue, history
<1>2. ASSUME NEW r \in Requests,
             WorkerTake(r) \/ WorkerFinish(r) \/ WorkerDone(r) \/ Hcm(r)
      PROVE  overridden' = overridden
  BY <1>2 DEF WorkerTake, WorkerFinish, WorkerDone, WorkerCommit, WorkerSkipCommit,
    WorkerRefused, WorkerRetryLater, Settle, Hcm, HcmAccept, HcmRefuse, AbandonAttempt,
    HcmLateDebit, local, history
<1>3. CASE Sync
  <2>1. Syncs # {}
    BY <1>3 DEF Sync, Syncs
  <2>2. overridden \subseteq overridden'
    BY <1>3 DEF Sync, BatchCut, ApplyBatch, ReconcileStart, ApplyReconcile, RefreshStart,
      ApplyRefresh, HcmReports, SyncEnd, AbsoluteBalance
  <2> QED
    BY <2>1, <2>2
<1>4. ASSUME NEW due \in SUBSET Requests, WorkerTick(due)
      PROVE  overridden' = overridden
  BY <1>4 DEF WorkerTick, history
<1>5. ASSUME NEW v \in Adjustments, HcmAdjust(v)
      PROVE  overridden' = overridden
  BY <1>5 DEF HcmAdjust, local, history
<1>6. CASE Crash \/ UNCHANGED vars
  BY <1>6 DEF Crash, vars, history
<1> QED
  BY <1>1, <1>2, <1>3, <1>4, <1>5, <1>6 DEF Next

\* Each step of TimeOff is one of the account.
LEMMA StepOfAccount ==
  ASSUME Refreshes = {}, IInv, RInv, [Next]_vars, overridden' = {}
  PROVE  AccountStep
<1>1. IInv' /\ overridden = {}
  BY StepInv, OverriddenGrows
<1>2. ASSUME NEW r \in Requests, Employee(r) \/ Reject(r)
      PROVE  AccountStep
  BY <1>1, <1>2, CreateSubmits, WithdrawWithdraws DEF Employee, Cancel, Reject
<1>3. ASSUME NEW r \in Requests,
             ApproveThrow(r) \/ ApproveEnqueue(r) \/ WorkerTake(r) \/ WorkerSkipCommit(r)
               \/ WorkerDone(r) \/ WorkerRetryLater(r) \/ HcmRefuse(r) \/ AbandonAttempt(r)
      PROVE  AccountStep
  <2>1. UNCHANGED <<snapshot, status, days, hcmDebits>>
    BY <1>3 DEF ApproveThrow, ApproveEnqueue, WorkerTake, WorkerSkipCommit, WorkerDone,
      WorkerRetryLater, HcmRefuse, AbandonAttempt, Settle, local, books, created, hcm
  <2> QED
    BY <2>1, HiddenStep
<1>4. ASSUME NEW r \in Requests, ApproveStart(r) \/ ApproveFinish(r)
      PROVE  AccountStep
  BY <1>1, <1>3, <1>4, ApproveApproves, CommitTakes, RefusalFails DEF ApproveFinish
<1>5. ASSUME NEW r \in Requests, WorkerFinish(r)
      PROVE  AccountStep
  BY <1>1, <1>3, <1>5, CommitTakes, RefusalFails DEF WorkerFinish
<1>6. ASSUME NEW r \in Requests, Hcm(r)
      PROVE  AccountStep
  BY <1>3, <1>6, HcmDebits DEF Hcm
<1>7. CASE Sync
  <2>1. ASSUME NEW s \in Syncs, ApplyBatch(s) \/ ApplyReconcile(s)
        PROVE  AccountStep
    <3>1. sync[s].value \in 0..MaxBalance
      BY DEF IInv, TypeOK, ProcessTypes, SyncStates
    <3> QED
      BY <1>1, <2>1, <3>1, AbsoluteRegrants DEF ApplyBatch, ApplyReconcile
  <2>2. ASSUME NEW s \in Syncs, BatchCut(s) \/ ReconcileStart(s) \/ HcmReports(s) \/ SyncEnd(s)
        PROVE  AccountStep
    <3>1. UNCHANGED <<snapshot, status, days, hcmDebits>>
      BY <2>2 DEF BatchCut, ReconcileStart, HcmReports, SyncEnd, server, books, created, hcm
    <3> QED
      BY <3>1, HiddenStep
  <2> QED
    BY <1>7, <2>1, <2>2 DEF Sync, Syncs
<1>8. CASE \/ \E due \in SUBSET Requests : WorkerTick(due)
           \/ \E v \in Adjustments : HcmAdjust(v)
           \/ Crash
           \/ UNCHANGED vars
  <2>1. UNCHANGED <<snapshot, status, days, hcmDebits>>
    BY <1>8 DEF WorkerTick, HcmAdjust, Crash, vars, local, books, created, hcm
  <2> QED
    BY <2>1, HiddenStep
<1> QED
  BY <1>2, <1>3, <1>4, <1>5, <1>6, <1>7, <1>8 DEF Next

\* The service begins as an account without requests.
LEMMA InitOfAccount ==
  ASSUME Init
  PROVE  Account!Init
<1>1. IInv
  BY InitInv
<1>2. Committed = {}
  BY DEF Init, Committed
<1>3. Credit = snapshot.balance
  <2>1. Held(Committed) = 0
    BY <1>2, FS_EmptySet DEF Held, HeldDays
  <2> QED
    BY <1>1, <2>1, RowFacts DEF Credit, Committed
<1>4. snapshot.seeded \in BOOLEAN /\ Credit \in Nat
  BY <1>1, <1>3, RowFacts DEF IInv, TypeOK, RowTypes, Snapshots
<1> QED
  BY <1>4 DEF Init, Account!Init

-----------------------------------------------------------------------------
(* The theorems *)

\* Without refreshes, the service does what an account does until a sync
\* fails a request whose approve() is waiting for HCM, for any number of
\* requests, batches, reconcile() calls and crashes.
THEOREM AccountBeforeOverride ==
  ASSUME Refreshes = {}
  PROVE  Spec => AccountUntilOverridden
<1>1. Init => Account!Init
  BY InitOfAccount
<1>2. IInv /\ RInv /\ [Next]_vars =>
        [overridden' = {} => Account!Next \/ UNCHANGED Account!vars]_vars
  BY StepOfAccount DEF AccountStep
<1> QED
  BY <1>1, <1>2, ReservationInvariance, PTL DEF Spec, AccountUntilOverridden

\* No sync has failed a request.
NoneOverridden == overridden = {}

\* Without syncs there is nobody to override a request.
LEMMA NeverOverridden ==
  ASSUME Syncs = {}
  PROVE  Spec => []NoneOverridden
<1>1. Init => NoneOverridden
  BY DEF Init, NoneOverridden
<1>2. NoneOverridden /\ [Next]_vars => NoneOverridden'
  BY OverriddenGrows DEF NoneOverridden
<1> QED
  BY <1>1, <1>2, PTL DEF Spec

\* Without syncs the service implements Account, crashes included.
THEOREM Implementation ==
  ASSUME Syncs = {}
  PROVE  Spec => ImplementsAccount
<1>1. Refreshes = {}
  BY DEF Syncs
<1>2. IInv /\ RInv /\ NoneOverridden /\ [Next]_vars => [Account!Next]_Account!vars
  BY <1>1, OverriddenGrows, StepOfAccount DEF AccountStep, NoneOverridden
<1>3. Spec => [][Account!Next]_Account!vars
  BY <1>2, NeverOverridden, ReservationInvariance, PTL DEF Spec
<1>4. Spec => Account!Init
  BY InitOfAccount, PTL DEF Spec
<1> QED
  BY <1>3, <1>4 DEF ImplementsAccount, Account!Spec

-----------------------------------------------------------------------------
(* Instances without syncs: two statements of docs/TRD.md *)

\* The statement of docs/TRD.md on reserved_days holds without an exception:
\* what breaks it is a sync that fails a request whose approve() is waiting.
THEOREM AlwaysHeldWithoutSyncs ==
  ASSUME Syncs = {}
  PROVE  Spec => []ReservedIsAlwaysHeld
<1>1. RInv /\ NoneOverridden => ReservedIsAlwaysHeld
  BY DEF RInv, NoneOverridden, ReservationIsHeld, ReservedIsAlwaysHeld
<1> QED
  BY <1>1, NeverOverridden, ReservationInvariance, PTL

\* What approve() and the worker do to one request: they fail it with an entry.
LEMMA FailsWithEntry ==
  ASSUME IInv, FailureIsAudited, NEW r \in Requests,
         \/ Employee(r) \/ Reject(r) \/ ApproveStart(r) \/ ApproveFinish(r)
         \/ WorkerTake(r) \/ WorkerFinish(r) \/ WorkerDone(r) \/ Hcm(r)
  PROVE  FailureIsAudited'
<1>1. status \in [Requests -> RequestStatuses \cup {"NONE"}]
  BY RowFacts
<1>2. ASSUME NEW to \in {"PENDING", "APPROVED", "REJECTED", "CANCELLED", "COMMITTED"},
             status' = [status EXCEPT ![r] = to], audit \subseteq audit'
      PROVE  FailureIsAudited'
  BY <1>1, <1>2 DEF FailureIsAudited
<1>3. ASSUME status' = [status EXCEPT ![r] = "FAILED"], Record(r, "request.failed")
      PROVE  FailureIsAudited'
  BY <1>1, <1>3 DEF FailureIsAudited, Record
<1>4. ASSUME UNCHANGED status, audit \subseteq audit'
      PROVE  FailureIsAudited'
  BY <1>4 DEF FailureIsAudited
<1>5. CASE Employee(r) \/ Reject(r) \/ ApproveStart(r)
  BY <1>2, <1>5 DEF Employee, Create, Cancel, Reject, Withdraw, ApproveStart, Record
<1>6. CASE ApproveFinish(r)
  BY <1>2, <1>3, <1>4, <1>6 DEF ApproveFinish, ApproveCommit, ApproveFail, ApproveThrow,
    ApproveEnqueue, CommitRows, Record
<1>7. CASE WorkerTake(r) \/ WorkerFinish(r) \/ WorkerDone(r)
  BY <1>2, <1>3, <1>4, <1>7 DEF WorkerTake, WorkerFinish, WorkerDone, WorkerCommit,
    WorkerSkipCommit, WorkerRefused, WorkerRetryLater, CommitRows, Record
<1>8. CASE Hcm(r)
  BY <1>4, <1>8 DEF Hcm, HcmAccept, HcmRefuse, AbandonAttempt, HcmLateDebit, local
<1> QED
  BY <1>5, <1>6, <1>7, <1>8

\* Without syncs every failed request has its audit entry, crashes and a
\* worker that fails it included: what breaks the statement of docs/TRD.md is
\* a batch or reconcile() that flags a request.
THEOREM FailuresAreAudited ==
  ASSUME Syncs = {}
  PROVE  Spec => []FailureIsAudited
<1>1. Init => FailureIsAudited
  BY DEF Init, FailureIsAudited
<1>2. IInv /\ FailureIsAudited /\ [Next]_vars => FailureIsAudited'
  <2> SUFFICES ASSUME IInv, FailureIsAudited, [Next]_vars
               PROVE  FailureIsAudited'
    OBVIOUS
  <2>1. ~Sync
    BY DEF Sync, Syncs
  <2>2. ASSUME \/ \E due \in SUBSET Requests : WorkerTick(due)
               \/ \E v \in Adjustments : HcmAdjust(v)
               \/ Crash \/ UNCHANGED vars
        PROVE  FailureIsAudited'
    BY <2>2 DEF WorkerTick, HcmAdjust, Crash, vars, local, FailureIsAudited
  <2> QED
    BY <2>1, <2>2, FailsWithEntry DEF Next
<1> QED
  BY <1>1, <1>2, Invariance, PTL DEF Spec

-----------------------------------------------------------------------------
(* Instances that no sync and no crash disturbs *)

\* Nobody but the service changes requests, and the process does not crash.
Undisturbed == Syncs = {} /\ MaxCrashes = 0

\* What the steps of undisturbed instances may rely on.
LInv == IInv /\ RInv /\ NoneOverridden

\* approve() works on approved requests.
LEMMA ApproveHasApproved ==
  ASSUME LInv, NEW r \in Requests, handler[r] = "approve"
  PROVE  status[r] = "APPROVED" /\ r \in Holders
BY DEF LInv, IInv, HandlerInv, RInv, StaleInv, NoneOverridden, Holders, HoldsReservation

\* What an approved request holds is reserved and covered: both ends of
\* approve() get through.
LEMMA ApprovedIsCovered ==
  ASSUME LInv, Refreshes = {}, NEW r \in Requests, status[r] = "APPROVED"
  PROVE  CanRelease(snapshot, days[r]) /\ CanCommit(snapshot, days[r])
<1>1. r \in Holders
  BY DEF Holders, HoldsReservation
<1>2. /\ Held(Holders \ {r}) \in Nat /\ days[r] \in Nat
      /\ Held(Holders) = Held(Holders \ {r}) + days[r]
  BY <1>1, RowFacts, HeldRemove DEF LInv, Held
<1>3. snapshot.reserved = Held(Holders) /\ snapshot.reserved <= snapshot.balance
  BY DEF LInv, NoneOverridden, RInv, ReservationIsHeld, NoOverbooking
<1> QED
  BY <1>2, <1>3, RowFacts DEF CanRelease, CanCommit, LInv

-----------------------------------------------------------------------------
(* Approved requests are tracked *)

\* create, reject, cancel: the request is not approved before or after.
LEMMA WithdrawnUntracked ==
  ASSUME LInv, ApprovedIsTracked, NEW r \in Requests, Employee(r) \/ Reject(r)
  PROVE  ApprovedIsTracked'
BY RowFacts
DEF LInv, ApprovedIsTracked, Employee, Cancel, Reject, Create, Withdraw, events, process

\* approve() ends with an outcome or an event, as neither transaction throws.
LEMMA ApproveTracks ==
  ASSUME LInv, Refreshes = {}, ApprovedIsTracked, NEW r \in Requests,
         ApproveStart(r) \/ ApproveFinish(r)
  PROVE  ApprovedIsTracked'
<1> USE DEF ApprovedIsTracked, events
<1>0. /\ handler \in [Requests -> Handlers] /\ outbox \in [Requests -> OutboxStatuses]
      /\ status \in [Requests -> RequestStatuses \cup {"NONE"}]
  BY DEF LInv, IInv, TypeOK, RowTypes, ProcessTypes
<1>1. CASE ApproveStart(r)
  BY <1>0, <1>1 DEF ApproveStart
<1>2. CASE ApproveCommit(r) \/ ApproveFail(r)
  BY <1>0, <1>2 DEF ApproveCommit, ApproveFail, CommitRows, Finish
<1>3. CASE ApproveThrow(r)
  <2>1. status[r] = "APPROVED"
    BY <1>3, ApproveHasApproved DEF ApproveThrow
  <2> QED
    BY <1>3, <2>1, ApprovedIsCovered DEF ApproveThrow
<1>4. CASE ApproveEnqueue(r)
  <2>1. outbox[r] = "NONE"
    BY <1>4 DEF ApproveEnqueue, LInv, IInv, HandlerInv
  <2> QED
    BY <1>0, <1>4, <2>1 DEF ApproveEnqueue, Finish
<1> QED
  BY <1>1, <1>2, <1>3, <1>4 DEF ApproveFinish

\* The worker leaves a request with an outcome, or its row open or dead.
LEMMA WorkerTracks ==
  ASSUME LInv, ApprovedIsTracked, NEW r \in Requests,
         WorkerTake(r) \/ WorkerFinish(r) \/ WorkerDone(r)
  PROVE  ApprovedIsTracked'
<1> USE DEF ApprovedIsTracked, events
<1>0. /\ handler \in [Requests -> Handlers] /\ outbox \in [Requests -> OutboxStatuses]
      /\ status \in [Requests -> RequestStatuses \cup {"NONE"}]
  BY DEF LInv, IInv, TypeOK, RowTypes, ProcessTypes
<1>1. CASE WorkerTake(r)
  BY <1>0, <1>1 DEF WorkerTake
<1>2. CASE WorkerCommit(r) \/ WorkerSkipCommit(r) \/ WorkerRefused(r)
  BY <1>0, <1>2 DEF WorkerCommit, WorkerSkipCommit, WorkerRefused, CommitRows, Settle
<1>3. CASE WorkerRetryLater(r)
  BY <1>0, <1>3 DEF WorkerRetryLater, Finish
<1>4. CASE WorkerDone(r)
  <2>1. status[r] # "APPROVED"
    BY <1>4 DEF WorkerDone, LInv, IInv, HandlerInv
  <2> QED
    BY <1>0, <1>4, <2>1 DEF WorkerDone, Finish
<1> QED
  BY <1>1, <1>2, <1>3, <1>4 DEF WorkerFinish

\* Every step keeps approved requests tracked.
LEMMA TrackedStep ==
  ASSUME Undisturbed, LInv, ApprovedIsTracked, [Next]_vars
  PROVE  ApprovedIsTracked'
<1>1. ASSUME NEW r \in Requests, Hcm(r)
      PROVE  ApprovedIsTracked'
  BY <1>1 DEF ApprovedIsTracked, Hcm, HcmAccept, HcmRefuse, AbandonAttempt, HcmLateDebit,
    local, events
<1>2. CASE \/ \E due \in SUBSET Requests : WorkerTick(due)
           \/ \E v \in Adjustments : HcmAdjust(v)
           \/ UNCHANGED vars
  BY <1>2 DEF ApprovedIsTracked, WorkerTick, HcmAdjust, vars, local, events, process
<1>3. ~Sync /\ ~Crash /\ Refreshes = {}
  <2>1. Syncs = {} /\ MaxCrashes = 0 /\ crashes \in 0..MaxCrashes
    BY DEF Undisturbed, LInv, IInv, TypeOK
  <2>2. ~Sync /\ Refreshes = {}
    BY <2>1 DEF Sync, Syncs
  <2>3. ~Crash
    BY <2>1 DEF Crash
  <2> QED
    BY <2>2, <2>3
<1> QED
  BY <1>1, <1>2, <1>3, WithdrawnUntracked, ApproveTracks, WorkerTracks DEF Next

-----------------------------------------------------------------------------
(* The balances differ by unbooked debits *)

\* The debits HCM has made that the service has not booked.
Unbooked == hcmDebits \ debitLines

\* A step that changes neither balance, and no days of a debited request.
LEMMA DriftKept ==
  ASSUME LInv, DriftIsUnbookedDebits,
         UNCHANGED <<snapshot.seeded, snapshot.balance, hcmBalance, hcmDebits, debitLines>>,
         \A r \in hcmDebits : days'[r] = days[r]
  PROVE  DriftIsUnbookedDebits'
<1>1. HeldDays(Unbooked', days') = HeldDays(Unbooked, days)
  <2>1. Unbooked' = Unbooked /\ \A r \in Unbooked : days'[r] = days[r]
    BY DEF Unbooked
  <2> QED
    BY <2>1, HeldSame
<1> QED
  BY <1>1 DEF DriftIsUnbookedDebits, Held, Unbooked

\* A new request has not been debited; the others keep their days.
LEMMA CreateDrift ==
  ASSUME LInv, DriftIsUnbookedDebits, NEW r \in Requests, NEW d \in 1..MaxDays,
         Create(r, d)
  PROVE  DriftIsUnbookedDebits'
<1>1. r \notin hcmDebits
  BY DEF Create, LInv, IInv, UnapprovedNeverDebited
<1>2. \A q \in hcmDebits : days'[q] = days[q]
  BY <1>1, RowFacts DEF Create, LInv, DayCounts
<1>3. UNCHANGED <<snapshot.seeded, snapshot.balance, hcmBalance, hcmDebits, debitLines>>
  BY OtherFields DEF Create, LInv, hcm
<1> QED
  BY <1>2, <1>3, DriftKept

\* A commit books a debit: the balance follows HCM's.
LEMMA CommitDrift ==
  ASSUME LInv, DriftIsUnbookedDebits, NEW r \in Requests,
         ApproveCommit(r) \/ WorkerCommit(r)
  PROVE  DriftIsUnbookedDebits'
<1>1. CommitRows(r) /\ UNCHANGED <<days, hcmBalance, hcmDebits>>
  BY DEF ApproveCommit, WorkerCommit, Settle, created, hcm
<1>2. r \in hcmDebits
  BY DEF ApproveCommit, WorkerCommit, WorkerHas, LInv, IInv, CallInv
<1>3. r \notin debitLines
  <2>1. status[r] # "COMMITTED"
    BY RowFacts, ApproveHasApproved
    DEF ApproveCommit, WorkerCommit, CanTransition, ValidTransitions
  <2> QED
    BY <2>1 DEF LInv, IInv, CommittedMeansDebited
<1>4. Unbooked \subseteq Requests /\ r \in Unbooked /\ Unbooked' = Unbooked \ {r}
  BY <1>1, <1>2, <1>3 DEF CommitRows, Unbooked, LInv, IInv, TypeOK, HcmTypes
<1>5. /\ HeldDays(Unbooked \ {r}, days) \in Nat /\ days[r] \in Nat
      /\ HeldDays(Unbooked, days) = HeldDays(Unbooked \ {r}, days) + days[r]
  BY <1>4, HeldRemove, RowFacts DEF LInv
<1>6. /\ snapshot'.seeded = snapshot.seeded
      /\ snapshot'.balance = snapshot.balance - days[r]
  BY <1>1, OtherFields DEF CommitRows, LInv
<1>7. hcmBalance \in Nat /\ snapshot.balance \in Nat
  BY RowFacts, BoundsAssumption DEF LInv, IInv, TypeOK, HcmTypes
<1>8. /\ HeldDays(Unbooked, days) \in Nat /\ days[r] \in Nat
      /\ HeldDays(Unbooked', days') = HeldDays(Unbooked, days) - days[r]
  BY <1>1, <1>4, <1>5
<1> QED
  BY <1>1, <1>6, <1>7, <1>8 DEF DriftIsUnbookedDebits, Held, Unbooked

\* HCM debits a request once, and it is not booked before.
LEMMA DebitDrift ==
  ASSUME LInv, DriftIsUnbookedDebits, NEW r \in Requests,
         HcmAccept(r) \/ HcmLateDebit(r)
  PROVE  DriftIsUnbookedDebits'
<1>1. UNCHANGED <<snapshot, days, debitLines>> /\ Debit(r)
  BY DEF HcmAccept, HcmLateDebit, local, books, created
<1>2. CASE r \in hcmDebits
  BY <1>1, <1>2, DriftKept DEF Debit
<1>3. CASE r \notin hcmDebits
  <2>1. hcmDebits' = hcmDebits \cup {r} /\ hcmBalance' = hcmBalance - days[r]
    BY <1>1, <1>3 DEF Debit
  <2>2. r \notin debitLines
    BY <1>3 DEF LInv, IInv, CommittedMeansDebited
  <2>3. /\ Unbooked' \subseteq Requests /\ r \in Unbooked'
        /\ Unbooked' \ {r} = Unbooked
    BY <1>1, <1>3, <2>1, <2>2 DEF Unbooked, LInv, IInv, TypeOK, HcmTypes
  <2>4. /\ HeldDays(Unbooked, days) \in Nat /\ days[r] \in Nat
        /\ HeldDays(Unbooked', days) = HeldDays(Unbooked, days) + days[r]
    BY <2>3, HeldRemove, RowFacts DEF LInv
  <2>5. hcmBalance \in Nat /\ snapshot.balance \in Nat
    BY RowFacts, BoundsAssumption DEF LInv, IInv, TypeOK, HcmTypes
  <2> QED
    BY <1>1, <2>1, <2>4, <2>5 DEF DriftIsUnbookedDebits, Held, Unbooked
<1> QED
  BY <1>2, <1>3

\* Every other step changes neither balance.
LEMMA DriftStep ==
  ASSUME Undisturbed, Adjustments = {}, LInv, DriftIsUnbookedDebits, [Next]_vars
  PROVE  DriftIsUnbookedDebits'
<1>1. ASSUME NEW r \in Requests,
             \/ Cancel(r) \/ Reject(r) \/ ApproveFail(r) \/ WorkerRefused(r)
      PROVE  DriftIsUnbookedDebits'
  <2>1. /\ UNCHANGED <<days, debitLines, hcmBalance, hcmDebits>>
        /\ snapshot' = snapshot \/ \E n : snapshot' = Release(snapshot, n)
    BY <1>1 DEF Cancel, Reject, Withdraw, ApproveFail, ReleaseReservation, WorkerRefused,
      Settle, created, hcm
  <2>2. UNCHANGED <<snapshot.seeded, snapshot.balance>>
    BY <2>1, OtherFields DEF LInv
  <2> QED
    BY <2>1, <2>2, DriftKept
<1>2. CASE \/ \E r \in Requests :
                \/ ApproveStart(r) \/ ApproveThrow(r) \/ ApproveEnqueue(r)
                \/ WorkerTake(r) \/ WorkerSkipCommit(r) \/ WorkerRetryLater(r)
                \/ WorkerDone(r) \/ HcmRefuse(r) \/ AbandonAttempt(r)
           \/ \E due \in SUBSET Requests : WorkerTick(due)
           \/ UNCHANGED vars
  <2>1. UNCHANGED <<snapshot, days, debitLines, hcmBalance, hcmDebits>>
    BY <1>2 DEF ApproveStart, ApproveThrow, ApproveEnqueue, WorkerTake, WorkerSkipCommit,
      WorkerRetryLater, WorkerDone, Settle, HcmRefuse, AbandonAttempt, WorkerTick, vars,
      local, books, created, hcm
  <2> QED
    BY <2>1, DriftKept
<1>3. ~Sync /\ ~Crash
  <2>1. Syncs = {} /\ MaxCrashes = 0 /\ crashes \in 0..MaxCrashes
    BY DEF Undisturbed, LInv, IInv, TypeOK
  <2>2. ~Sync
    BY <2>1 DEF Sync, Syncs
  <2> QED
    BY <2>1, <2>2 DEF Crash
<1> QED
  BY <1>1, <1>2, <1>3, CreateDrift, CommitDrift, DebitDrift
  DEF Next, Employee, ApproveFinish, WorkerFinish, Hcm

-----------------------------------------------------------------------------
(* The theorems *)

\* The invariants of all instances, and that no request is overridden.
LEMMA LInvariance ==
  ASSUME Undisturbed
  PROVE  Spec => []LInv
<1>1. Spec => []NoneOverridden
  BY NeverOverridden DEF Undisturbed
<1> QED
  BY <1>1, ReservationInvariance, PTL DEF LInv

\* Without syncs and crashes no approved request is forgotten: approve() or
\* the worker is on it, or its event is open or dead.
THEOREM ApprovedAreTracked ==
  ASSUME Undisturbed
  PROVE  Spec => []ApprovedIsTracked
<1>1. Init => ApprovedIsTracked
  BY DEF Init, ApprovedIsTracked
<1>2. LInv /\ ApprovedIsTracked /\ [Next]_vars => ApprovedIsTracked'
  BY TrackedStep
<1> QED
  BY <1>1, <1>2, LInvariance, PTL DEF Spec

\* So the worker has an event for every debit that is not booked yet: what
\* breaks this statement of docs/TRD.md is a crash, or a sync.
THEOREM DebitsAreTracked ==
  ASSUME Undisturbed
  PROVE  Spec => []DebitedIsTracked
<1>1. IInv /\ ApprovedIsTracked => DebitedIsTracked
  BY DEF IInv, TypeOK, HcmTypes, ApprovedIsTracked, DebitedIsTracked
<1> QED
  BY <1>1, ApprovedAreTracked, Invariance, PTL

\* Where only the service changes HCM's balance, the two balances differ by
\* the debits that HCM has made and the service has yet to book, retries,
\* late debits and refusals included.
THEOREM DriftIsExplained ==
  ASSUME Undisturbed, Adjustments = {}
  PROVE  Spec => []DriftIsUnbookedDebits
<1>1. ASSUME Init PROVE DriftIsUnbookedDebits
  <2>1. hcmDebits \ debitLines = {}
    BY <1>1 DEF Init
  <2>2. Held(hcmDebits \ debitLines) = 0
    BY <2>1, FS_EmptySet DEF Held, HeldDays
  <2>3. snapshot.seeded => snapshot.balance = hcmBalance
    BY <1>1 DEF Init, NoRow, SetAbsolute
  <2> QED
    BY <1>1, <2>2, <2>3, BoundsAssumption DEF DriftIsUnbookedDebits, Init
<1>2. LInv /\ DriftIsUnbookedDebits /\ [Next]_vars => DriftIsUnbookedDebits'
  BY DriftStep
<1> QED
  BY <1>1, <1>2, LInvariance, PTL DEF Spec
=============================================================================
