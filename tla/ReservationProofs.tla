------------------------- MODULE ReservationProofs -------------------------
(***************************************************************************)
(* Proofs about what is reserved: the reservation is the sum over pending  *)
(* and approved requests unless a sync failed a request whose approve()    *)
(* was waiting, and without refreshes nothing is overbooked.               *)
(***************************************************************************)
EXTENDS TimeOffProofs, HeldDaysProofs

-----------------------------------------------------------------------------
(* The sum HeldDays over requests *)

\* The functions that days is one of.
DayCounts == [Requests -> 0..MaxDays]

\* Sets of requests are finite and their days natural numbers.
LEMMA SummedRequests ==
  ASSUME NEW f \in DayCounts, NEW S \in SUBSET Requests
  PROVE  IsFiniteSet(S) /\ \A r \in S : f[r] \in Nat
<1>1. IsFiniteSet(S)
  BY RequestsAssumption, FS_Subset
<1> QED
  BY <1>1, BoundsAssumption DEF DayCounts

\* What DaysSplit says of requests.
LEMMA HeldSplit ==
  ASSUME NEW f \in DayCounts, NEW S \in SUBSET Requests, NEW F \in SUBSET S
  PROVE  /\ HeldDays(F, f) \in Nat /\ HeldDays(S \ F, f) \in Nat
         /\ HeldDays(S, f) = HeldDays(F, f) + HeldDays(S \ F, f)
BY SummedRequests, DaysSplit

\* What DaysRemove says of requests.
LEMMA HeldRemove ==
  ASSUME NEW f \in DayCounts, NEW S \in SUBSET Requests, NEW r \in S
  PROVE  /\ HeldDays(S \ {r}, f) \in Nat /\ f[r] \in Nat
         /\ HeldDays(S, f) = HeldDays(S \ {r}, f) + f[r]
BY SummedRequests, DaysRemove

-----------------------------------------------------------------------------
(* The invariant *)

\* Where approve() works on a request that is no longer approved, a sync has
\* failed it meanwhile.
StaleInv ==
  \A r \in Requests : handler[r] = "approve" /\ status[r] = "FAILED" => r \in overridden

\* The reservation never exceeds what is held: a stale approve() may only
\* give back too much.
ReservedAtMostHeld == snapshot.reserved <= Held(Holders)

\* The inductive invariant, on top of IInv.
RInv ==
  /\ StaleInv /\ ReservedAtMostHeld /\ ReservationIsHeld
  /\ Refreshes = {} => NoOverbooking

-----------------------------------------------------------------------------
(* Steps *)

\* The snapshot and the days have their types.
LEMMA RowFacts ==
  ASSUME IInv
  PROVE  /\ days \in DayCounts /\ Holders \subseteq Requests
         /\ snapshot.balance \in Nat /\ snapshot.reserved \in Nat
         /\ status \in [Requests -> RequestStatuses \cup {"NONE"}]
BY BoundsAssumption DEF IInv, TypeOK, RowTypes, Snapshots, DayCounts, Holders

\* A step that touches neither snapshot nor requests, and starts no approve().
LEMMA QuietStep ==
  ASSUME RInv, UNCHANGED <<snapshot, status, days, overridden>>,
         \A r \in Requests : handler'[r] = "approve" => handler[r] = "approve"
  PROVE  RInv'
<1>1. Held(Holders)' = Held(Holders)
  BY DEF Held, Holders
<1> QED
  BY <1>1 DEF RInv, StaleInv, ReservedAtMostHeld, ReservationIsHeld, NoOverbooking

\* create adds to the reservation what the new request holds.
LEMMA CreateReserves ==
  ASSUME IInv, IInv', RInv, NEW r \in Requests, NEW d \in 1..MaxDays, Create(r, d)
  PROVE  RInv'
<1>1. /\ Holders' = Holders \cup {r} /\ r \notin Holders
      /\ days' = [days EXCEPT ![r] = d]
  BY RowFacts DEF Create, Holders, HoldsReservation
<1>2. Held(Holders)' = Held(Holders) + d
  <2>1. days \in DayCounts /\ days' \in DayCounts /\ Holders' \in SUBSET Requests
    BY <1>1, RowFacts DEF IInv, TypeOK, RowTypes, DayCounts
  <2>2. HeldDays(Holders', days') = HeldDays(Holders' \ {r}, days') + days'[r]
    BY <1>1, <2>1, HeldRemove
  <2>3. Holders' \ {r} = Holders /\ days'[r] = d
    BY <1>1, <2>1 DEF DayCounts
  <2>4. HeldDays(Holders, days') = HeldDays(Holders, days)
    <3>1. \A q \in Holders : days'[q] = days[q]
      BY <1>1, <2>1, RowFacts DEF DayCounts
    <3> QED
      BY <3>1, HeldSame
  <2> QED
    BY <2>2, <2>3, <2>4 DEF Held
<1>3. /\ snapshot'.reserved = snapshot.reserved + d /\ snapshot'.balance = snapshot.balance
      /\ snapshot.balance - snapshot.reserved >= d
  BY DEF Create, Reserve, CanReserve, Available, IInv, TypeOK, RowTypes, Snapshots
<1>4. Held(Holders) \in Nat
  BY HeldIsNat, RowFacts DEF IInv
<1>5. StaleInv'
  BY RowFacts DEF Create, StaleInv, RInv, process, history
<1> QED
  BY <1>2, <1>3, <1>4, <1>5, RowFacts
  DEF RInv, ReservedAtMostHeld, ReservationIsHeld, NoOverbooking, Create, history

\* A step gives back what request r holds, or all there is, if that is less.
GivesBack(r) ==
  IF CanRelease(snapshot, days[r])
  THEN /\ snapshot'.reserved = snapshot.reserved - days[r]
       /\ snapshot'.balance \in {snapshot.balance, snapshot.balance - days[r]}
  ELSE snapshot'.reserved = 0 /\ snapshot'.balance = snapshot.balance

\* A request gets an outcome and gives its reservation back.  Either it held
\* one, or a sync has failed it while approve() was waiting.
LEMMA OutcomeReleases ==
  ASSUME IInv, RInv, NEW r \in Requests,
         NEW st \in {"COMMITTED", "REJECTED", "CANCELLED", "FAILED"},
         status' = [status EXCEPT ![r] = st], UNCHANGED <<days, overridden>>,
         \A q \in Requests : handler'[q] = "approve" => q # r /\ handler[q] = "approve",
         r \in Holders \/ (r \in overridden /\ status[r] = "FAILED"),
         GivesBack(r)
  PROVE  RInv'
<1>1. Held(Holders) \in Nat /\ days[r] \in Nat
  BY HeldIsNat, RowFacts, BoundsAssumption DEF IInv, DayCounts
<1>2. StaleInv'
  BY RowFacts DEF RInv, StaleInv
<1>3. NoOverbooking => NoOverbooking'
  BY <1>1, RowFacts DEF NoOverbooking, GivesBack, CanRelease
<1>4. CASE r \in Holders
  <2>1. Holders' = Holders \ {r}
    BY RowFacts DEF Holders, HoldsReservation
  <2>2. /\ Held(Holders \ {r}) \in Nat
        /\ Held(Holders) = Held(Holders \ {r}) + days[r]
    BY <1>4, RowFacts, HeldRemove DEF Held
  <2>3. Held(Holders)' = Held(Holders) - days[r]
    BY <1>1, <2>1, <2>2 DEF Held
  <2>4. ReservedAtMostHeld'
    BY <1>1, <2>2, <2>3, RowFacts DEF RInv, ReservedAtMostHeld, GivesBack, CanRelease
  <2>5. ReservationIsHeld'
    BY <1>1, <2>2, <2>3, RowFacts DEF RInv, ReservationIsHeld, GivesBack, CanRelease
  <2> QED
    BY <1>2, <1>3, <2>4, <2>5 DEF RInv
<1>5. CASE r \in overridden /\ status[r] = "FAILED"
  <2>1. Held(Holders)' = Held(Holders)
    <3>1. Holders' = Holders
      BY <1>5, RowFacts DEF Holders, HoldsReservation
    <3> QED
      BY <3>1 DEF Held
  <2>2. ReservedAtMostHeld'
    BY <1>1, <2>1, RowFacts DEF RInv, ReservedAtMostHeld, GivesBack, CanRelease
  <2>3. ReservationIsHeld'
    BY <1>5 DEF ReservationIsHeld
  <2> QED
    BY <1>2, <1>3, <2>2, <2>3 DEF RInv
<1> QED
  BY <1>4, <1>5

\* After the flagging, what is left fits into the balance.
LEMMA RestFits ==
  ASSUME IInv, NEW v \in Nat, NEW F \in FlagSets(Holders, days, born, v)
  PROVE  Held(Holders \ F) \in Nat /\ Held(Holders \ F) <= v
<1>1. /\ Held(F) \in Nat /\ Held(Holders \ F) \in Nat
      /\ Held(Holders) = Held(F) + Held(Holders \ F)
  BY FlaggedHold, HeldSplit, RowFacts DEF Held
<1>2. Held(Holders) - v <= 0 => F = {}
  BY DEF FlagSets, Held
<1>3. Held(Holders) - v > 0 => Held(F) >= Held(Holders) - v
  BY <1>1 DEF FlagSets, Held
<1>4. F = {} => Held(Holders \ F) = Held(Holders)
  <2>1. Holders \ {} = Holders
    OBVIOUS
  <2> QED
    BY <2>1
<1> QED
  BY <1>1, <1>2, <1>3, <1>4

\* A batch or reconcile() adds the reservation up anew, if it flags anything,
\* and leaves nothing overbooked.
LEMMA AbsoluteBalanceReserves ==
  ASSUME IInv, RInv, NEW v \in 0..MaxBalance, AbsoluteBalance(v)
  PROVE  RInv' /\ NoOverbooking'
<1>1. PICK F \in FlagSets(Holders, days, born, v) :
        /\ snapshot' = [SetAbsolute(snapshot, v) EXCEPT
             !.reserved = IF F = {} THEN @ ELSE Held(Holders \ F)]
        /\ status' = [r \in Requests |-> IF r \in F THEN "FAILED" ELSE status[r]]
        /\ overridden' = overridden \cup {r \in F : handler[r] = "approve"}
        /\ SetBalance(v)
  BY DEF AbsoluteBalance
<1>2. v \in Nat /\ UNCHANGED <<days, handler>>
  BY <1>1, BoundsAssumption DEF SetBalance, server, created, process
<1>3. Holders' = Holders \ F
  BY <1>1, RowFacts DEF Holders, HoldsReservation
<1>4. Held(Holders)' = Held(Holders \ F)
  BY <1>2, <1>3 DEF Held
<1>5. /\ snapshot'.balance = v
      /\ snapshot'.reserved = IF F = {} THEN snapshot.reserved ELSE Held(Holders \ F)
  BY <1>1 DEF SetAbsolute
<1>6. F = {} => Held(Holders \ F) = Held(Holders)
  <2>1. Holders \ {} = Holders
    OBVIOUS
  <2> QED
    BY <2>1
<1>7. Held(Holders \ F) \in Nat /\ Held(Holders \ F) <= v
  BY <1>2, RestFits
<1>8. StaleInv'
  BY <1>1, <1>2, RowFacts DEF RInv, StaleInv
<1>9. ReservedAtMostHeld' /\ NoOverbooking'
  BY <1>2, <1>4, <1>5, <1>6, <1>7, RowFacts DEF RInv, ReservedAtMostHeld, NoOverbooking
<1>10. ReservationIsHeld'
  <2>1. overridden' = {} => overridden = {}
    BY <1>1
  <2> QED
    BY <2>1, <1>4, <1>5, <1>6 DEF RInv, ReservationIsHeld
<1> QED
  BY <1>8, <1>9, <1>10 DEF RInv

\* reject, cancel, and what approve() and the worker write in the end.
LEMMA EndingReserves ==
  ASSUME IInv, RInv, NEW r \in Requests,
         \/ Reject(r) \/ Cancel(r) \/ ApproveCommit(r) \/ ApproveFail(r)
         \/ WorkerCommit(r) \/ WorkerRefused(r)
  PROVE  RInv'
<1>1. /\ days[r] \in Nat /\ snapshot.reserved \in Nat
      /\ handler \in [Requests -> Handlers] /\ HandlerInv /\ StaleInv
      /\ status[r] \in RequestStatuses \cup {"NONE"} /\ snapshot \in Snapshots
  BY RowFacts, BoundsAssumption DEF IInv, RInv, TypeOK, RowTypes, ProcessTypes, DayCounts
<1>2. ASSUME NEW to \in {"REJECTED", "CANCELLED"}, NEW action, Withdraw(r, to, action)
      PROVE  RInv'
  <2>1. status[r] = "PENDING"
    BY <1>1, <1>2, Transitions DEF Withdraw
  <2>2. r \in Holders /\ handler[r] # "approve"
    BY <1>1, <2>1 DEF Holders, HoldsReservation, HandlerInv
  <2>3. GivesBack(r)
    BY <1>1, <1>2 DEF Withdraw, ReleaseReservation, GivesBack, Release, CanRelease, Snapshots
  <2> QED
    BY <1>2, <2>2, <2>3, OutcomeReleases DEF Withdraw, created, process, history
<1>3. CASE ApproveCommit(r) \/ ApproveFail(r)
  <2>1. r \in Holders \/ (r \in overridden /\ status[r] = "FAILED")
    BY <1>1, <1>3
    DEF ApproveCommit, ApproveFail, HandlerInv, StaleInv, Holders, HoldsReservation
  <2>2. \A q \in Requests : handler'[q] = "approve" => q # r /\ handler[q] = "approve"
    BY <1>1, <1>3 DEF ApproveCommit, ApproveFail, Finish
  <2>3. GivesBack(r)
    <3>1. CASE ApproveCommit(r)
      BY <1>1, <3>1
      DEF ApproveCommit, CommitRows, GivesBack, Commit, CanCommit, CanRelease, Snapshots
    <3>2. CASE ApproveFail(r)
      BY <1>1, <3>2 DEF ApproveFail, ReleaseReservation, GivesBack, Release, CanRelease,
        Snapshots
    <3> QED
      BY <1>3, <3>1, <3>2
  <2>4. \E st \in {"COMMITTED", "FAILED"} : status' = [status EXCEPT ![r] = st]
    BY <1>3 DEF ApproveCommit, ApproveFail, CommitRows
  <2>5. UNCHANGED <<days, overridden>>
    BY <1>3 DEF ApproveCommit, ApproveFail, created, history
  <2> QED
    BY <2>1, <2>2, <2>3, <2>4, <2>5, OutcomeReleases
<1>4. ASSUME WorkerCommit(r) \/ WorkerRefused(r), status[r] = "APPROVED"
      PROVE  RInv'
  <2>1. r \in Holders
    BY <1>4 DEF Holders, HoldsReservation
  <2>2. \A q \in Requests : handler'[q] = "approve" => q # r /\ handler[q] = "approve"
    BY <1>1, <1>4 DEF WorkerCommit, WorkerRefused, Settle
  <2>3. CanTransition(status[r], "FAILED")
    BY <1>1, <1>4, Transitions DEF RequestStatuses
  <2>4. GivesBack(r)
    <3>1. CASE WorkerCommit(r)
      BY <3>1 DEF WorkerCommit, CommitRows, GivesBack, Commit, CanCommit, CanRelease
    <3>2. CASE WorkerRefused(r)
      <4>1. snapshot' = Release(snapshot,
              IF CanRelease(snapshot, days[r]) THEN days[r] ELSE snapshot.reserved)
        BY <2>3, <3>2 DEF WorkerRefused
      <4>2. snapshot.reserved - snapshot.reserved = 0
        BY <1>1
      <4> QED
        BY <4>1, <4>2 DEF GivesBack, Release
    <3> QED
      BY <1>4, <3>1, <3>2
  <2>5. \E st \in {"COMMITTED", "FAILED"} : status' = [status EXCEPT ![r] = st]
    BY <1>4, <2>3 DEF WorkerCommit, WorkerRefused, CommitRows
  <2>6. UNCHANGED <<days, overridden>>
    BY <1>4 DEF WorkerCommit, WorkerRefused, Settle, created, history
  <2> QED
    BY <2>1, <2>2, <2>4, <2>5, <2>6, OutcomeReleases
<1>5. ASSUME WorkerCommit(r) \/ WorkerRefused(r), status[r] # "APPROVED"
      PROVE  RInv'
  <2>1. WorkerRefused(r) /\ ~CanTransition(status[r], "FAILED")
    BY <1>1, <1>5, Transitions
    DEF WorkerCommit, WorkerRefused, WorkerHas, HandlerInv, CanTransition, ValidTransitions
  <2>2. \A q \in Requests : handler'[q] = "approve" => handler[q] = "approve"
    BY <1>1, <2>1 DEF WorkerRefused, Settle
  <2> QED
    BY <2>1, <2>2, QuietStep DEF WorkerRefused, Settle, created, history
<1> QED
  BY <1>2, <1>3, <1>4, <1>5 DEF Reject, Cancel

\* approve starts: a pending request and an approved one hold the same.
LEMMA ApproveStartReserves ==
  ASSUME IInv, RInv, NEW r \in Requests, ApproveStart(r)
  PROVE  RInv'
<1>1. Holders' = Holders
  BY RowFacts DEF ApproveStart, Holders, HoldsReservation
<1>2. Held(Holders)' = Held(Holders)
  BY <1>1 DEF ApproveStart, Held, created
<1>3. StaleInv'
  BY RowFacts DEF ApproveStart, StaleInv, RInv, IInv, TypeOK, ProcessTypes, history
<1> QED
  BY <1>2, <1>3
  DEF ApproveStart, RInv, ReservedAtMostHeld, ReservationIsHeld, NoOverbooking, books, history

\* Steps that write neither the snapshot nor a request.
LEMMA QuietReserves ==
  ASSUME IInv, RInv,
         \/ \E r \in Requests :
              \/ ApproveThrow(r) \/ ApproveEnqueue(r) \/ WorkerTake(r)
              \/ WorkerSkipCommit(r) \/ WorkerDone(r) \/ WorkerRetryLater(r) \/ Hcm(r)
         \/ \E due \in SUBSET Requests : WorkerTick(due)
         \/ \E v \in Adjustments : HcmAdjust(v)
         \/ Crash
         \/ UNCHANGED vars
  PROVE  RInv'
<1>1. handler \in [Requests -> Handlers]
  BY DEF IInv, TypeOK, ProcessTypes
<1>2. /\ UNCHANGED <<snapshot, status, days, overridden>>
      /\ \A r \in Requests : handler'[r] = "approve" => handler[r] = "approve"
  BY <1>1
  DEF ApproveThrow, ApproveEnqueue, WorkerTick, WorkerTake, WorkerSkipCommit, WorkerDone,
    WorkerRetryLater, Finish, Settle, Hcm, HcmAccept, HcmRefuse, AbandonAttempt,
    HcmLateDebit, HcmAdjust, Crash, local, vars, books, created, process, history
<1> QED
  BY <1>2, QuietStep

\* The syncs: the two that write HCM's balance, and their steps before it.
LEMMA SyncReserves ==
  ASSUME IInv, RInv, Sync
  PROVE  RInv'
<1>1. ASSUME NEW s \in Syncs, ApplyBatch(s) \/ ApplyReconcile(s)
      PROVE  RInv'
  <2>1. sync[s].value \in 0..MaxBalance
    BY DEF IInv, TypeOK, ProcessTypes, SyncStates
  <2> QED
    BY <1>1, <2>1, AbsoluteBalanceReserves DEF ApplyBatch, ApplyReconcile
<1>2. ASSUME NEW s \in Refreshes, ApplyRefresh(s)
      PROVE  RInv'
  <2>1. /\ UNCHANGED <<status, days, handler, overridden>>
        /\ snapshot'.reserved = snapshot.reserved
    BY <1>2 DEF ApplyRefresh, SetBalance, SetAbsolute, server, created, process
  <2>2. Held(Holders)' = Held(Holders)
    BY <2>1 DEF Held, Holders
  <2> QED
    BY <2>1, <2>2 DEF RInv, StaleInv, ReservedAtMostHeld, ReservationIsHeld
<1>3. ASSUME NEW s \in Syncs,
             BatchCut(s) \/ ReconcileStart(s) \/ RefreshStart(s) \/ HcmReports(s) \/ SyncEnd(s)
      PROVE  RInv'
  <2>1. UNCHANGED <<snapshot, status, days, overridden, handler>>
    BY <1>3 DEF BatchCut, ReconcileStart, RefreshStart, HcmReports, SyncEnd, server, books,
      created, process
  <2> QED
    BY <2>1, QuietStep
<1> QED
  BY <1>1, <1>2, <1>3 DEF Sync, Syncs

-----------------------------------------------------------------------------
(* The theorems *)

\* The invariant holds in every reachable state.
THEOREM ReservationInvariance == Spec => [](IInv /\ RInv)
<1>1. Init => IInv /\ RInv
  <2>1. SUFFICES ASSUME Init PROVE RInv
    BY InitInv
  <2>2. Held(Holders) = 0
    <3>1. Holders = {}
      BY <2>1 DEF Init, Holders, HoldsReservation
    <3> QED
      BY <3>1, DaysOfNone DEF Held
  <2>3. snapshot.reserved = 0 /\ 0 <= snapshot.balance
    BY <2>1, BoundsAssumption DEF Init, NoRow, SetAbsolute
  <2> QED
    BY <2>1, <2>2, <2>3
    DEF Init, RInv, StaleInv, ReservedAtMostHeld, ReservationIsHeld, NoOverbooking
<1>2. IInv /\ RInv /\ [Next]_vars => IInv' /\ RInv'
  <2>1. SUFFICES ASSUME IInv, RInv, [Next]_vars PROVE RInv'
    BY StepInv
  <2>2. IInv'
    BY <2>1, StepInv
  <2>3. ASSUME NEW r \in Requests, NEW d \in 1..MaxDays, Create(r, d)
        PROVE  RInv'
    BY <2>1, <2>2, <2>3, CreateReserves
  <2> QED
    BY <2>1, <2>3, EndingReserves, ApproveStartReserves, QuietReserves, SyncReserves
    DEF Next, Employee, ApproveFinish, WorkerFinish
<1> QED
  BY <1>1, <1>2, PTL DEF Spec

\* reserved_days is the sum over pending and approved requests, as long as no
\* sync has failed a request whose approve() was waiting for HCM.
THEOREM ReservationsAreHeld == Spec => []ReservationIsHeld
<1>1. RInv => ReservationIsHeld
  BY DEF RInv
<1> QED
  BY <1>1, ReservationInvariance, PTL

\* Without refreshes nothing is ever overbooked, stale approvals included.
THEOREM NeverOverbooked ==
  ASSUME Refreshes = {}
  PROVE  Spec => []NoOverbooking
<1>1. RInv => NoOverbooking
  BY DEF RInv
<1> QED
  BY <1>1, ReservationInvariance, PTL

\* Whatever refreshes and stale approvals have left, a batch or a reconcile()
\* leaves no more reserved than there is: the reservation is never more than
\* what is held, and what the balance does not cover of that is flagged.
THEOREM SyncsRepair == Spec => SyncRepairs
<1> DEFINE Repair ==
      (\E b \in Batches : ApplyBatch(b)) \/ (\E s \in Reconciles : ApplyReconcile(s))
        => snapshot'.reserved <= snapshot'.balance
<1>1. ASSUME IInv, RInv, NEW s \in Syncs, ApplyBatch(s) \/ ApplyReconcile(s)
      PROVE  NoOverbooking'
  <2>1. sync[s].value \in 0..MaxBalance
    BY <1>1 DEF IInv, TypeOK, ProcessTypes, SyncStates
  <2> QED
    BY <1>1, <2>1, AbsoluteBalanceReserves DEF ApplyBatch, ApplyReconcile
<1>2. IInv /\ RInv /\ [Next]_vars => [Repair]_vars
  BY <1>1 DEF NoOverbooking, Syncs
<1>3. [][Repair]_vars => SyncRepairs
  BY PTL DEF SyncRepairs
<1> HIDE DEF Repair
<1> QED
  BY <1>2, <1>3, ReservationInvariance, PTL DEF Spec

\* Without refreshes a debit that HCM has made can be booked, as long as no
\* sync has failed a request whose approve() was waiting.
THEOREM DebitsCanBeBooked ==
  ASSUME Refreshes = {}
  PROVE  Spec => []DebitCanBeBooked
<1>1. ASSUME IInv, RInv PROVE DebitCanBeBooked
  <2>1. SUFFICES ASSUME NEW r \in Requests, overridden = {}, status[r] = "APPROVED"
                 PROVE  CanCommit(snapshot, days[r])
    BY DEF DebitCanBeBooked
  <2>2. r \in Holders
    BY <2>1 DEF Holders, HoldsReservation
  <2>3. /\ Held(Holders \ {r}) \in Nat /\ days[r] \in Nat
        /\ Held(Holders) = Held(Holders \ {r}) + days[r]
    BY <1>1, <2>2, RowFacts, HeldRemove DEF Held
  <2>4. snapshot.reserved = Held(Holders) /\ snapshot.reserved <= snapshot.balance
    BY <1>1, <2>1 DEF RInv, ReservationIsHeld, NoOverbooking
  <2> QED
    BY <1>1, <2>3, <2>4, RowFacts DEF CanCommit
<1>2. IInv /\ RInv => DebitCanBeBooked
  BY <1>1
<1> QED
  BY <1>2, ReservationInvariance, PTL

\* A balance from HCM always finds a set of requests that it may flag: the
\* action of a sync never waits for the choice, as the loop of the code ends.
THEOREM SyncsFindFlagged ==
  Spec => [](\A v \in Nat : FlagSets(Holders, days, born, v) # {})
<1>1. IInv => \A v \in Nat : FlagSets(Holders, days, born, v) # {}
  <2> SUFFICES ASSUME IInv, NEW v \in Nat
               PROVE  FlagSets(Holders, days, born, v) # {}
    OBVIOUS
  <2>1. IsFiniteSet(Holders) /\ \A r \in Holders : days[r] \in Nat
    BY RowFacts, SummedRequests
  <2>2. \A r \in Holders : born[r] \in Nat
    BY DEF IInv, TypeOK, RowTypes, Holders
  <2> QED
    BY <2>1, <2>2, SomeFlagSet
<1> QED
  BY <1>1, Invariance, PTL
=============================================================================
