------------------------------ MODULE Balance ------------------------------
(***************************************************************************)
(* The balance arithmetic of apps/timeoff/src/domain/balance.ts on a row   *)
(* of balance_snapshots, in its integer unit (tenths of a day).  An        *)
(* operation of the code that may throw is two operators here: the         *)
(* condition under which it returns, and the row it returns.               *)
(*                                                                         *)
(* "seeded" says that the row exists: code that reads a missing row uses   *)
(* NoRow, a balance and a reservation of 0.                                *)
(***************************************************************************)
EXTENDS Integers

NoRow == [seeded |-> FALSE, balance |-> 0, reserved |-> 0]

Available(row) == row.balance - row.reserved

\* A mutant of CanReserve: it looks at the balance alone.
MutReserveBalance(row, n) == row.balance >= n

\* canReserve, and reserve when it holds.
CanReserve(row, n) == Available(row) >= n

Reserve(row, n) == [row EXCEPT !.reserved = @ + n]

\* A mutant of CanRelease: the check against a negative reservation is dropped.
MutReleaseUnchecked(row, n) == TRUE

\* releaseReservation throws InvalidAmountError unless enough is reserved.
CanRelease(row, n) == row.reserved >= n

Release(row, n) == [row EXCEPT !.reserved = @ - n]

\* A mutant of CanCommit: the check against a negative balance is dropped.
MutCommitUnchecked(row, n) == row.reserved >= n

\* commitReservation throws InvalidAmountError unless enough is reserved,
\* and InsufficientBalanceError unless the balance covers the debit.
CanCommit(row, n) == row.reserved >= n /\ row.balance >= n

\* A mutant of Commit: the reservation goes, the balance stays.
MutCommitKeepsBalance(row, n) == [row EXCEPT !.reserved = @ - n]

Commit(row, n) == [row EXCEPT !.balance = @ - n, !.reserved = @ - n]

\* A mutant of SetAbsolute: the reservation is cleared with the balance.
MutSetAbsoluteClears(row, v) ==
  [seeded |-> TRUE, balance |-> v, reserved |-> 0]

\* setAbsolute keeps the reservation whatever the new balance is.
SetAbsolute(row, v) ==
  [seeded |-> TRUE, balance |-> v, reserved |-> row.reserved]
=============================================================================
