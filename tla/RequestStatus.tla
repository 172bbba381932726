--------------------------- MODULE RequestStatus ---------------------------
(***************************************************************************)
(* The request state machine of apps/timeoff/src/domain/request.ts.        *)
(***************************************************************************)

\* The enum RequestStatus.
RequestStatuses ==
  {"PENDING", "APPROVED", "COMMITTED", "REJECTED", "CANCELLED", "FAILED"}

\* The table VALID_TRANSITIONS: the statuses that may follow a status.
ValidTransitions(from) ==
  CASE from = "PENDING"  -> {"APPROVED", "REJECTED", "CANCELLED"}
    [] from = "APPROVED" -> {"COMMITTED", "FAILED"}
    [] OTHER             -> {}

\* A mutant of CanTransition: an approved request may still be withdrawn.
MutWithdrawApproved(from, to) ==
  \/ to \in ValidTransitions(from)
  \/ from = "APPROVED" /\ to \in {"REJECTED", "CANCELLED"}

CanTransition(from, to) == to \in ValidTransitions(from)

\* A mutant of HoldsReservation: a committed request still counts.
MutCommittedHolds(st) == st \in {"PENDING", "APPROVED", "COMMITTED"}

\* A request in one of these statuses counts towards reserved_days.
HoldsReservation(st) == st \in {"PENDING", "APPROVED"}
=============================================================================
