---------------------------- MODULE Idempotency ----------------------------
(***************************************************************************)
(* The Idempotency-Key of apps/timeoff: the interceptor around every       *)
(* mutating endpoint (common/idempotency), and RequestsService.create,     *)
(* which keeps the key in a column of its own.                             *)
(*                                                                         *)
(* Each send is one HTTP request: a client that hears nothing sends again, *)
(* with the same key.  Three endpoints stand for all: create() runs        *)
(* without a wait; approve() waits for HCM, and works once per request;    *)
(* refreshFromHcm() waits for HCM, and works each time.  As in TimeOff, a  *)
(* run of code without an HCM call is one step; but the transaction of a   *)
(* handler, the insertion of the interceptor's record and the response are *)
(* three things of which a crash may leave only the first.                 *)
(***************************************************************************)
EXTENDS Integers, FiniteSets

CONSTANTS
  Sends,        \* the HTTP requests; a row of time_off_requests has its id
                \* from the send that created it
  Keys,         \* the values of the Idempotency-Key header
  Bodies,       \* the bodies of POST /requests, each for one day
  MaxBalance,   \* bound: the largest balance that HCM reports
  MaxCrashes    \* bound: how often the process crashes

ASSUME SendsAssumption == IsFiniteSet(Sends)
ASSUME BoundsAssumption == MaxBalance \in Nat /\ MaxCrashes \in Nat

NoKey == "no key"
Nobody == "nobody"
ASSUME NamesAssumption == NoKey \notin Keys /\ Nobody \notin Sends

VARIABLES
  phase,     \* of each send: not sent, its handler waits for HCM, over, or cut
             \* off by a crash between its handler and the record
  key,       \* its Idempotency-Key
  op,        \* its method, path and body
  reply,     \* what its client got
  rows,      \* time_off_requests: the status and idempotency_key of each row
  balance,   \* balance_days of the one snapshot
  records,   \* idempotency_records
  events,    \* outbox_events: the requests whose debit the worker is to retry
  crashes    \* how often the process has crashed

vars == <<phase, key, op, reply, rows, balance, records, events, crashes>>

-----------------------------------------------------------------------------
(* Types *)

\* POST /requests, POST /requests/:id/approve, POST /balances/.../refresh.
Operations ==
  [kind: {"create"}, body: Bodies] \cup [kind: {"approve"}, id: Sends]
    \cup [kind: {"refresh"}]

NoOperation == [kind |-> "none"]

Statuses == {"PENDING", "APPROVED", "COMMITTED", "FAILED"}

\* A response with status 2xx: the row of a request, or a balance.
RowReply(t, st) == [about |-> t, saw |-> st, value |-> 0]
BalanceReply(v) == [about |-> Nobody, saw |-> "BALANCE", value |-> v]

Responses ==
  {RowReply(t, st) : t \in Sends, st \in Statuses} \cup {BalanceReply(v) : v \in 0..MaxBalance}

NoReply == [about |-> Nobody, saw |-> "nothing", value |-> 0]
ErrorReply == [about |-> Nobody, saw |-> "an error", value |-> 0]

NoRow == [status |-> "NONE", key |-> NoKey]
Rows == [status: Statuses, key: Keys \cup {NoKey}] \cup {NoRow}

NoRecord == [op |-> NoOperation, response |-> NoReply]

\* Correct types; the commit of an approval leaves no negative balance.
TypeOK ==
  /\ phase \in [Sends -> {"unsent", "waiting", "over", "cut"}]
  /\ key \in [Sends -> Keys \cup {NoKey}]
  /\ op \in [Sends -> Operations \cup {NoOperation}]
  /\ reply \in [Sends -> Responses \cup {NoReply, ErrorReply}]
  /\ rows \in [Sends -> Rows]
  /\ balance \in 0..MaxBalance
  /\ records \in [Keys -> [op: Operations, response: Responses] \cup {NoRecord}]
  /\ events \subseteq Sends
  /\ crashes \in 0..MaxCrashes

-----------------------------------------------------------------------------
(* Helpers *)

Reserved == Cardinality({s \in Sends : rows[s].status \in {"PENDING", "APPROVED"}})

\* The send reaches the interceptor.
Arrives(s, k, o) ==
  /\ phase[s] = "unsent"
  /\ key' = [key EXCEPT ![s] = k]
  /\ op' = [op EXCEPT ![s] = o]

Over(s) == phase' = [phase EXCEPT ![s] = "over"]

Gets(s, r) == reply' = [reply EXCEPT ![s] = r]

\* A record is saved under its key, over one that may be there by now.
Saved(k, o, r) ==
  IF k = NoKey THEN records ELSE [records EXCEPT ![k] = [op |-> o, response |-> r]]

\* The process dies, and with it every handler that waits for HCM.
Die(s, how) ==
  /\ crashes < MaxCrashes
  /\ crashes' = crashes + 1
  /\ phase' = [t \in Sends |->
       IF t = s THEN how ELSE IF phase[t] = "waiting" THEN "over" ELSE phase[t]]

\* A handler has returned r.  The interceptor saves the record and the client
\* gets r, unless the process dies before either.
Return(s, k, o, r) ==
  \/ /\ Over(s) /\ Gets(s, r) /\ records' = Saved(k, o, r)
     /\ UNCHANGED crashes
  \/ /\ Die(s, "over") /\ UNCHANGED reply /\ records' = Saved(k, o, r)
  \/ /\ Die(s, "cut") /\ (Gets(s, r) \/ UNCHANGED reply) /\ UNCHANGED records

\* A handler has thrown: the client gets the error, and nothing is saved.
Throw(s) ==
  /\ Over(s) /\ Gets(s, ErrorReply)
  /\ UNCHANGED <<rows, balance, records, events, crashes>>

-----------------------------------------------------------------------------
(* HttpIdempotencyInterceptor *)

\* A mutant of Matches: the method and the path are compared, the body is not.
MutAnyBody(k, o) ==
  \/ records[k].op = o
  \/ records[k].op.kind = "create" /\ o.kind = "create"

\* The record is of this method, path and body.
Matches(k, o) == records[k].op = o

\* There is a record under the key: replay it, or answer 409.
Replay(s, k, o) ==
  /\ k # NoKey /\ records[k] # NoRecord
  /\ Arrives(s, k, o)
  /\ Over(s) /\ Gets(s, IF Matches(k, o) THEN records[k].response ELSE ErrorReply)
  /\ UNCHANGED <<rows, balance, records, events, crashes>>

\* There is none: the handler runs.
Handle(s, k, o) ==
  /\ k # NoKey => records[k] = NoRecord
  /\ Arrives(s, k, o)

-----------------------------------------------------------------------------
(* RequestsService.create *)

WithKey(k) == {t \in Sends : k # NoKey /\ rows[t] # NoRow /\ rows[t].key = k}

\* A row with the key is there, whatever it was created from.
CreateAgain(s, k, o) ==
  /\ o.kind = "create"
  /\ Handle(s, k, o)
  /\ \E t \in WithKey(k) : Return(s, k, o, RowReply(t, rows[t].status))
  /\ UNCHANGED <<rows, balance, events>>

\* A mutant of NewRow: the column idempotency_key stays empty.
MutKeyNotStored(k) == [status |-> "PENDING", key |-> NoKey]

NewRow(k) == [status |-> "PENDING", key |-> k]

CreateNew(s, k, o) ==
  /\ o.kind = "create"
  /\ Handle(s, k, o)
  /\ WithKey(k) = {}
  /\ balance - Reserved >= 1
  /\ rows' = [rows EXCEPT ![s] = NewRow(k)]
  /\ Return(s, k, o, RowReply(s, "PENDING"))
  /\ UNCHANGED <<balance, events>>

\* A mutant of CreateRefused: the balance is looked at before the key.
MutBalanceFirst(s, k, o) ==
  /\ o.kind = "create"
  /\ Handle(s, k, o)
  /\ balance - Reserved < 1
  /\ Throw(s)

CreateRefused(s, k, o) ==
  /\ o.kind = "create"
  /\ Handle(s, k, o)
  /\ WithKey(k) = {}
  /\ balance - Reserved < 1
  /\ Throw(s)

-----------------------------------------------------------------------------
(* RequestsService.approve *)

\* A mutant of Approvable: an approved request may be approved again.
MutApproveTwice(t) == rows[t].status \in {"PENDING", "APPROVED"}

Approvable(t) == rows[t].status = "PENDING"

ApproveStart(s, k, o) ==
  /\ o.kind = "approve"
  /\ Handle(s, k, o)
  /\ Approvable(o.id)
  /\ rows' = [rows EXCEPT ![o.id].status = "APPROVED"]
  /\ phase' = [phase EXCEPT ![s] = "waiting"]
  /\ UNCHANGED <<reply, balance, records, events, crashes>>

\* A request that is not pending; 404 where there is none.
ApproveRefused(s, k, o) ==
  /\ o.kind = "approve"
  /\ Handle(s, k, o)
  /\ ~Approvable(o.id)
  /\ Throw(s)

\* A mutant of CanCommit: commitReservation does not look at the balance.
MutCommitUnchecked == balance >= 0

\* commitReservation does not throw.
CanCommit == balance >= 1

\* HCM has debited, refused, or failed: in the end the request is committed,
\* failed, or left approved for the worker, with an event.
ApproveEnd(s) ==
  /\ phase[s] = "waiting" /\ op[s].kind = "approve"
  /\ \E st \in {"COMMITTED", "FAILED", "APPROVED"} :
       /\ rows' = [rows EXCEPT ![op[s].id].status = st]
       /\ st = "COMMITTED" => CanCommit
       /\ balance' = IF st = "COMMITTED" THEN balance - 1 ELSE balance
       /\ events' = IF st = "APPROVED" THEN events \cup {op[s].id} ELSE events
       /\ Return(s, key[s], op[s], RowReply(op[s].id, st))
  /\ UNCHANGED <<key, op>>

\* The commit throws: the balance has fallen meanwhile.
ApproveThrows(s) ==
  /\ phase[s] = "waiting" /\ op[s].kind = "approve" /\ ~CanCommit
  /\ Throw(s)
  /\ UNCHANGED <<key, op>>

\* The outbox worker commits, or fails, an approval that approve() left to it.
WorkerEnds(t) ==
  /\ t \in events /\ rows[t].status = "APPROVED"
  /\ \/ /\ CanCommit /\ balance' = balance - 1
        /\ rows' = [rows EXCEPT ![t].status = "COMMITTED"]
     \/ /\ rows' = [rows EXCEPT ![t].status = "FAILED"]
        /\ UNCHANGED balance
  /\ events' = events \ {t}
  /\ UNCHANGED <<phase, key, op, reply, records, crashes>>

-----------------------------------------------------------------------------
(* BalanceService.refreshFromHcm *)

RefreshStart(s, k, o) ==
  /\ o.kind = "refresh"
  /\ Handle(s, k, o)
  /\ phase' = [phase EXCEPT ![s] = "waiting"]
  /\ UNCHANGED <<reply, rows, balance, records, events, crashes>>

RefreshEnd(s) ==
  /\ phase[s] = "waiting" /\ op[s].kind = "refresh"
  /\ \E v \in 0..MaxBalance :
       /\ balance' = v
       /\ Return(s, key[s], op[s], BalanceReply(v))
  /\ UNCHANGED <<key, op, rows, events>>

\* The call for the balance fails.
RefreshThrows(s) ==
  /\ phase[s] = "waiting" /\ op[s].kind = "refresh"
  /\ Throw(s)
  /\ UNCHANGED <<key, op>>

-----------------------------------------------------------------------------
\* A crash while handlers wait for HCM.
Crash(s) ==
  /\ phase[s] = "waiting" /\ Die(s, "over")
  /\ UNCHANGED <<key, op, reply, rows, balance, records, events>>

Init ==
  /\ phase = [s \in Sends |-> "unsent"]
  /\ key = [s \in Sends |-> NoKey]
  /\ op = [s \in Sends |-> NoOperation]
  /\ reply = [s \in Sends |-> NoReply]
  /\ rows = [s \in Sends |-> NoRow]
  /\ balance \in 0..MaxBalance
  /\ records = [k \in Keys |-> NoRecord]
  /\ events = {}
  /\ crashes = 0

Arrive(s, k, o) ==
  \/ Replay(s, k, o)
  \/ CreateAgain(s, k, o) \/ CreateNew(s, k, o) \/ CreateRefused(s, k, o)
  \/ ApproveStart(s, k, o) \/ ApproveRefused(s, k, o)
  \/ RefreshStart(s, k, o)

Next ==
  \E s \in Sends :
    \/ \E k \in Keys \cup {NoKey}, o \in Operations : Arrive(s, k, o)
    \/ ApproveEnd(s) \/ ApproveThrows(s)
    \/ RefreshEnd(s) \/ RefreshThrows(s)
    \/ WorkerEnds(s) \/ Crash(s)

Spec == Init /\ [][Next]_vars

-----------------------------------------------------------------------------
(* Properties *)

\* A send that carried a key and got a response of status 2xx.
Answered(s) == key[s] # NoKey /\ reply[s] \notin {NoReply, ErrorReply}

\* docs/TRD.md, "4. Key Challenges", C7: the same key never re-reserves.  Of
\* the creations sent with one key, with whatever bodies, between whatever
\* crashes, one at most makes a row.
KeyReservesOnce ==
  \A s, t \in Sends :
    rows[s] # NoRow /\ rows[t] # NoRow /\ key[s] = key[t] /\ key[s] # NoKey => s = t

\* C7: the same key returns the same request id.
SameKeySameId ==
  \A s, t \in Sends :
    /\ Answered(s) /\ op[s].kind = "create"
    /\ Answered(t) /\ op[t].kind = "create"
    /\ key[s] = key[t]
    => reply[s].about = reply[t].about

\* Of each send: the key of the row it made, the operation it was, and whether
\* a crash kept it from saving its record.
Origins == [t \in Sends |-> [key |-> rows[t].key, op |-> op[t], cut |-> phase[t] = "cut"]]

\* Response r fits operation o, sent with key k: an approval is answered with
\* its request, once approved; a refresh with a balance; a creation with the
\* request that was created with the key, from the same body.  The body may be
\* another where the record of that creation was lost: see OtherBodyRefused.
Fits(origins, k, o, r) ==
  /\ o.kind = "create" =>
       /\ r.about \in Sends /\ origins[r.about].key = k
       /\ origins[r.about].op = o \/ origins[r.about].cut
  /\ o.kind = "approve" => r.about = o.id /\ r.saw # "PENDING"
  /\ o.kind = "refresh" => r.saw = "BALANCE"

\* A response is about what was asked for, body included, also where one key
\* was used for several endpoints or bodies whose handlers overlap and overwrite
\* each other's record.
ReplyFitsOperation ==
  \A s \in Sends : Answered(s) => Fits(Origins, key[s], op[s], reply[s])

\* All approvals of a request that were sent with one key and answered with
\* 2xx got the same response, whatever has become of the request since: a
\* second run of the handler ends with an error.
ApprovalsAgree ==
  \A s, t \in Sends :
    Answered(s) /\ Answered(t) /\ key[s] = key[t] /\ op[s] = op[t]
      /\ op[s].kind = "approve" => reply[s] = reply[t]

\* One handler at most waits for HCM to debit a request, though its approval
\* be sent several times, with one key, several or none.  TimeOff relies on it.
OneApprovalWaits ==
  \A s, t \in Sends :
    phase[s] = "waiting" /\ phase[t] = "waiting" /\ op[s] = op[t]
      /\ op[s].kind = "approve" => s = t

\* README.md, "How to use": replaying the same key and body is a no-op.  Where
\* a key was used for one creation only, no retry of it ends with an error
\* once its row is there: not after a crash that took the record, nor when
\* the balance has fallen below what is reserved.
RetriedCreationIsAnswered ==
  [][\A s \in Sends :
       /\ phase[s] = "unsent" /\ op'[s].kind = "create"
       /\ WithKey(key'[s]) # {}
       /\ \A t \in Sends : phase[t] # "unsent" /\ key[t] = key'[s] => op[t] = op'[s]
       => reply'[s] # ErrorReply]_vars

-----------------------------------------------------------------------------
(* What the code says of itself and does not do: the run OtherBody shows    *)
(* this violated.                                                           *)

\* http-idempotency.interceptor.ts: "different body, same key = 409", and where
\* no record was saved "body uniqueness is still guaranteed by the domain-level
\* idempotency in RequestsService.create".  create() looks for the key alone:
\* after a crash that took the record, a creation with the key and another body
\* is answered with the request that the first body made.
OtherBodyRefused ==
  \A s \in Sends : Answered(s) /\ op[s].kind = "create" => op[reply[s].about] = op[s]
=============================================================================
