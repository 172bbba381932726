------------------------- MODULE IdempotencyProofs -------------------------
(***************************************************************************)
(* Proofs about the Idempotency-Key, for any sends, keys, bodies and       *)
(* number of crashes.                                                      *)
(***************************************************************************)
EXTENDS Idempotency, TLAPS

\* Rows and replies come from sends that have arrived; a row has the key of
\* the send that created it; approve() waits with a row.
SendsInv ==
  \A s \in Sends :
    /\ phase[s] = "unsent" => rows[s] = NoRow /\ reply[s] = NoReply
    /\ phase[s] = "waiting" => reply[s] = NoReply
    /\ rows[s] # NoRow => rows[s].key = key[s]
    /\ phase[s] = "waiting" => op[s].kind \in {"approve", "refresh"}
    /\ phase[s] = "waiting" /\ op[s].kind = "approve" => rows[op[s].id] # NoRow

\* A record answers the operation it was saved for.
RecordsFit ==
  \A k \in Keys : records[k] # NoRecord =>
    Fits(Origins, k, records[k].op, records[k].response)

\* The key of a row has a record, unless a crash took it.
MadeRecorded ==
  \A s \in Sends :
    rows[s] # NoRow /\ key[s] # NoKey => phase[s] = "cut" \/ records[key[s]] # NoRecord

\* The inductive invariant.
KInv ==
  /\ TypeOK /\ SendsInv /\ RecordsFit /\ MadeRecorded
  /\ KeyReservesOnce /\ ReplyFitsOperation

\* No step removes a row, or changes where it comes from.
RowsKept ==
  \A t \in Sends : rows[t] # NoRow =>
    /\ rows'[t] # NoRow /\ rows'[t].key = rows[t].key
    /\ op'[t] = op[t]
    /\ phase[t] = "cut" => phase'[t] = "cut"

-----------------------------------------------------------------------------
(* Lemmas *)

\* A response that fits goes on to do so while rows keep their keys.
LEMMA FitsOn ==
  ASSUME TypeOK, RowsKept, NEW k \in Keys, NEW o, NEW r, Fits(Origins, k, o, r)
  PROVE  Fits(Origins', k, o, r)
<1>1. ASSUME o.kind = "create"
      PROVE  /\ r.about \in Sends /\ Origins'[r.about].key = k
             /\ Origins'[r.about].op = o \/ Origins'[r.about].cut
  <2>1. /\ r.about \in Sends /\ rows[r.about].key = k
        /\ op[r.about] = o \/ phase[r.about] = "cut"
    BY <1>1 DEF Fits, Origins
  <2>2. rows[r.about] # NoRow
    BY <2>1, NamesAssumption DEF NoRow
  <2>3. /\ rows'[r.about].key = k
        /\ op'[r.about] = o \/ phase'[r.about] = "cut"
    BY <2>1, <2>2 DEF RowsKept
  <2> QED
    BY <2>1, <2>3 DEF Origins
<1> QED
  BY <1>1 DEF Fits

\* A handler returns r, which fits: so does what it leaves behind.
LEMMA ReturnFits ==
  ASSUME TypeOK, TypeOK', RecordsFit, ReplyFitsOperation, RowsKept,
         NEW s \in Sends, reply[s] = NoReply,
         NEW r \in Responses, key'[s] \in Keys \cup {NoKey}, op'[s] \in Operations,
         Return(s, key'[s], op'[s], r),
         key'[s] # NoKey => Fits(Origins', key'[s], op'[s], r),
         \A t \in Sends \ {s} : (key'[t] = key[t] /\ op'[t] = op[t]) \/ reply[t] = NoReply
  PROVE  RecordsFit' /\ ReplyFitsOperation'
<1>1. /\ records' \in {records, Saved(key'[s], op'[s], r)}
      /\ reply' \in {reply, [reply EXCEPT ![s] = r]}
  BY DEF Return, Gets
<1>2. RecordsFit'
  <2>1. SUFFICES ASSUME NEW k \in Keys, records'[k] # NoRecord
                 PROVE  Fits(Origins', k, records'[k].op, records'[k].response)
    BY DEF RecordsFit
  <2>2. CASE records'[k] = records[k]
    BY <2>1, <2>2, FitsOn DEF RecordsFit
  <2>3. CASE records'[k] # records[k]
    <3>1. k = key'[s] /\ k # NoKey /\ records'[k] = [op |-> op'[s], response |-> r]
      BY <1>1, <2>3, NamesAssumption DEF Saved, TypeOK
    <3> QED
      BY <3>1
  <2> QED
    BY <2>2, <2>3
<1>3. ReplyFitsOperation'
  <2>1. SUFFICES ASSUME NEW t \in Sends, key'[t] # NoKey,
                        reply'[t] \notin {NoReply, ErrorReply}
                 PROVE  Fits(Origins', key'[t], op'[t], reply'[t])
    BY DEF ReplyFitsOperation, Answered
  <2>2. CASE t = s
    BY <1>1, <2>1, <2>2 DEF TypeOK
  <2>3. CASE t # s
    <3>1. reply'[t] = reply[t] /\ key'[t] = key[t] /\ op'[t] = op[t]
      BY <1>1, <2>1, <2>3 DEF TypeOK
    <3>2. key[t] \in Keys /\ Fits(Origins, key[t], op[t], reply[t])
      BY <2>1, <3>1 DEF TypeOK, ReplyFitsOperation, Answered
    <3> QED
      BY <3>1, <3>2, FitsOn
  <2> QED
    BY <2>2, <2>3
<1> QED
  BY <1>2, <1>3

\* The end of a handler keeps the types.
LEMMA ReturnTypes ==
  ASSUME TypeOK, NEW s \in Sends, NEW k \in Keys \cup {NoKey}, NEW o \in Operations,
         NEW r \in Responses, Return(s, k, o, r)
  PROVE  /\ phase' \in [Sends -> {"unsent", "waiting", "over", "cut"}]
         /\ reply' \in [Sends -> Responses \cup {NoReply, ErrorReply}]
         /\ records' \in [Keys -> [op: Operations, response: Responses] \cup {NoRecord}]
         /\ crashes' \in 0..MaxCrashes
<1> USE BoundsAssumption DEF TypeOK
<1>1. Saved(k, o, r) \in [Keys -> [op: Operations, response: Responses] \cup {NoRecord}]
  BY DEF Saved
<1>2. CASE Over(s) /\ Gets(s, r) /\ records' = Saved(k, o, r) /\ UNCHANGED crashes
  BY <1>1, <1>2 DEF Over, Gets
<1>3. CASE Die(s, "over") /\ UNCHANGED reply /\ records' = Saved(k, o, r)
  BY <1>1, <1>3 DEF Die
<1>4. CASE Die(s, "cut") /\ (Gets(s, r) \/ UNCHANGED reply) /\ UNCHANGED records
  BY <1>4 DEF Die, Gets
<1> QED
  BY <1>2, <1>3, <1>4 DEF Return

\* An error ends a handler.
LEMMA ThrowTypes ==
  ASSUME TypeOK, NEW s \in Sends, Throw(s),
         key' \in [Sends -> Keys \cup {NoKey}],
         op' \in [Sends -> Operations \cup {NoOperation}]
  PROVE  TypeOK'
BY DEF TypeOK, Throw, Over, Gets

\* Sends that arrive keep the types.
LEMMA ArriveTypes ==
  ASSUME TypeOK, NEW s \in Sends, NEW k \in Keys \cup {NoKey}, NEW o \in Operations,
         Arrive(s, k, o)
  PROVE  TypeOK'
<1>1. /\ key' \in [Sends -> Keys \cup {NoKey}]
      /\ op' \in [Sends -> Operations \cup {NoOperation}]
  BY DEF Arrive, Replay, CreateAgain, CreateNew, CreateRefused, ApproveStart,
    ApproveRefused, RefreshStart, Handle, Arrives, TypeOK
<1>2. CASE Replay(s, k, o)
  <2>1. records[k] \in [op: Operations, response: Responses]
    BY <1>2 DEF Replay, TypeOK
  <2> QED
    BY <1>1, <1>2, <2>1 DEF Replay, Over, Gets, TypeOK
<1>3. CASE CreateAgain(s, k, o)
  <2>1. PICK t \in WithKey(k) : Return(s, k, o, RowReply(t, rows[t].status))
    BY <1>3 DEF CreateAgain
  <2>2. RowReply(t, rows[t].status) \in Responses
    BY DEF WithKey, TypeOK, Rows, Responses
  <2> QED
    BY <1>1, <1>3, <2>1, <2>2, ReturnTypes DEF CreateAgain, TypeOK
<1>4. CASE CreateNew(s, k, o)
  <2>1. RowReply(s, "PENDING") \in Responses
    BY DEF Responses, Statuses
  <2>2. rows' \in [Sends -> Rows]
    BY <1>4 DEF CreateNew, NewRow, TypeOK, Rows, Statuses
  <2> QED
    BY <1>1, <1>4, <2>1, <2>2, ReturnTypes DEF CreateNew, TypeOK
<1>5. CASE ApproveStart(s, k, o)
  <2>1. rows' \in [Sends -> Rows]
    <3>1. rows[o.id].status = "PENDING" /\ rows' = [rows EXCEPT ![o.id].status = "APPROVED"]
      BY <1>5 DEF ApproveStart, Approvable
    <3>2. o.id \in Sends
      BY <1>5 DEF ApproveStart, Operations
    <3>3. rows[o.id] \in [status: Statuses, key: Keys \cup {NoKey}]
      BY <3>1, <3>2 DEF TypeOK, Rows, NoRow
    <3> QED
      BY <3>1, <3>2, <3>3 DEF TypeOK, Rows, Statuses
  <2> QED
    BY <1>1, <1>5, <2>1 DEF ApproveStart, TypeOK
<1>6. CASE RefreshStart(s, k, o)
  BY <1>1, <1>6 DEF RefreshStart, TypeOK
<1> QED
  BY <1>1, <1>2, <1>3, <1>4, <1>5, <1>6, ThrowTypes
  DEF Arrive, CreateRefused, ApproveRefused

\* What ends a wait keeps the types.
LEMMA EndTypes ==
  ASSUME KInv, NEW s \in Sends,
         \/ ApproveEnd(s) \/ ApproveThrows(s) \/ RefreshEnd(s) \/ RefreshThrows(s)
         \/ WorkerEnds(s) \/ Crash(s)
  PROVE  TypeOK'
<1> USE DEF KInv
<1>0. phase[s] = "waiting" => op[s] \in Operations /\ key[s] \in Keys \cup {NoKey}
  BY DEF TypeOK, SendsInv, NoOperation
<1>1. CASE ApproveEnd(s)
  <2>1. PICK st \in {"COMMITTED", "FAILED", "APPROVED"} :
          /\ rows' = [rows EXCEPT ![op[s].id].status = st]
          /\ st = "COMMITTED" => CanCommit
          /\ balance' = IF st = "COMMITTED" THEN balance - 1 ELSE balance
          /\ events' = IF st = "APPROVED" THEN events \cup {op[s].id} ELSE events
          /\ Return(s, key[s], op[s], RowReply(op[s].id, st))
    BY <1>1 DEF ApproveEnd
  <2>2. op[s].id \in Sends /\ rows[op[s].id] # NoRow
    BY <1>0, <1>1 DEF ApproveEnd, Operations, SendsInv
  <2>3. rows' \in [Sends -> Rows]
    BY <2>1, <2>2 DEF TypeOK, Rows, Statuses
  <2>4. balance' \in 0..MaxBalance
    BY <2>1, BoundsAssumption DEF TypeOK, CanCommit
  <2>5. RowReply(op[s].id, st) \in Responses /\ events' \subseteq Sends
    BY <2>1, <2>2 DEF Responses, Statuses, TypeOK
  <2> QED
    BY <1>0, <1>1, <2>1, <2>3, <2>4, <2>5, ReturnTypes DEF ApproveEnd, TypeOK
<1>2. CASE RefreshEnd(s)
  <2>1. PICK v \in 0..MaxBalance : balance' = v /\ Return(s, key[s], op[s], BalanceReply(v))
    BY <1>2 DEF RefreshEnd
  <2>2. BalanceReply(v) \in Responses
    BY DEF Responses
  <2> QED
    BY <1>0, <1>2, <2>1, <2>2, ReturnTypes DEF RefreshEnd, TypeOK
<1>3. CASE WorkerEnds(s)
  <2>1. rows' \in [Sends -> Rows]
    <3>1. \E st \in Statuses : rows' = [rows EXCEPT ![s].status = st]
      BY <1>3 DEF WorkerEnds, Statuses
    <3>2. rows[s] # NoRow
      BY <1>3 DEF WorkerEnds, NoRow
    <3> QED
      BY <3>1, <3>2 DEF TypeOK, Rows
  <2>2. balance' \in 0..MaxBalance
    BY <1>3, BoundsAssumption DEF WorkerEnds, CanCommit, TypeOK
  <2> QED
    BY <1>3, <2>1, <2>2 DEF WorkerEnds, TypeOK
<1>4. CASE Crash(s)
  BY <1>4, BoundsAssumption DEF Crash, Die, TypeOK
<1> QED
  BY <1>1, <1>2, <1>3, <1>4, ThrowTypes DEF ApproveThrows, RefreshThrows, TypeOK

-----------------------------------------------------------------------------
(* Steps *)

\* The key and the operation of a send change when it arrives only.
LEMMA OnlyArrivalsKey ==
  ASSUME TypeOK, [Next]_vars
  PROVE  \A t \in Sends : phase[t] # "unsent" => key'[t] = key[t] /\ op'[t] = op[t]
<1>1. ASSUME NEW s \in Sends, NEW k, NEW o, Arrive(s, k, o)
      PROVE  Arrives(s, k, o)
  BY <1>1 DEF Arrive, Replay, CreateAgain, CreateNew, CreateRefused, ApproveStart,
    ApproveRefused, RefreshStart, Handle
<1>2. ASSUME NEW s \in Sends,
             \/ ApproveEnd(s) \/ ApproveThrows(s) \/ RefreshEnd(s) \/ RefreshThrows(s)
             \/ WorkerEnds(s) \/ Crash(s)
      PROVE  UNCHANGED <<key, op>>
  BY <1>2 DEF ApproveEnd, ApproveThrows, RefreshEnd, RefreshThrows, WorkerEnds, Crash
<1>3. ASSUME NEW s \in Sends, NEW k, NEW o, Arrives(s, k, o)
      PROVE  \A t \in Sends : phase[t] # "unsent" => key'[t] = key[t] /\ op'[t] = op[t]
  BY <1>3 DEF Arrives, TypeOK
<1> QED
  BY <1>1, <1>2, <1>3 DEF Next, vars

\* The end of a handler is about its send, and perhaps the death of others.
LEMMA ReturnOthers ==
  ASSUME TypeOK, NEW s \in Sends, NEW k, NEW o, NEW r, Return(s, k, o, r)
  PROVE  /\ phase'[s] \in {"over", "cut"}
         /\ \A t \in Sends \ {s} :
              /\ phase'[t] = phase[t] \/ (phase[t] = "waiting" /\ phase'[t] = "over")
              /\ reply'[t] = reply[t]
BY DEF Return, Over, Gets, Die, TypeOK

\* Only sends that are new, or waiting, go on.
LEMMA CutStays ==
  ASSUME KInv, [Next]_vars, NEW t \in Sends, phase[t] = "cut"
  PROVE  phase'[t] = "cut"
<1> USE DEF KInv, TypeOK
<1>1. ASSUME NEW s \in Sends, NEW k, NEW o, Arrive(s, k, o)
      PROVE  phase'[t] = "cut"
  <2>1. CASE CreateAgain(s, k, o) \/ CreateNew(s, k, o)
    BY <2>1, ReturnOthers DEF CreateAgain, CreateNew, Handle, Arrives
  <2>2. CASE Replay(s, k, o)
    BY <2>2 DEF Replay, Arrives, Over
  <2>3. CASE CreateRefused(s, k, o) \/ ApproveRefused(s, k, o)
    BY <2>3 DEF CreateRefused, ApproveRefused, Throw, Over, Handle, Arrives
  <2>4. CASE ApproveStart(s, k, o) \/ RefreshStart(s, k, o)
    BY <2>4 DEF ApproveStart, RefreshStart, Handle, Arrives
  <2> QED
    BY <1>1, <2>1, <2>2, <2>3, <2>4 DEF Arrive
<1>2. ASSUME NEW s \in Sends, ApproveEnd(s) \/ RefreshEnd(s)
      PROVE  phase'[t] = "cut"
  BY <1>2, ReturnOthers DEF ApproveEnd, RefreshEnd
<1>3. ASSUME NEW s \in Sends, ApproveThrows(s) \/ RefreshThrows(s)
      PROVE  phase'[t] = "cut"
  BY <1>3 DEF ApproveThrows, RefreshThrows, Throw, Over
<1>4. ASSUME NEW s \in Sends, WorkerEnds(s) \/ Crash(s)
      PROVE  phase'[t] = "cut"
  BY <1>4 DEF WorkerEnds, Crash, Die
<1> QED
  BY <1>1, <1>2, <1>3, <1>4 DEF Next, vars

\* No handler removes a row or changes its key.
LEMMA RowsKeptStep ==
  ASSUME KInv, [Next]_vars
  PROVE  RowsKept
<1> DEFINE Kept == \A t \in Sends : rows[t] # NoRow =>
                     rows'[t] # NoRow /\ rows'[t].key = rows[t].key
<1> USE DEF KInv, TypeOK
<1>1. ASSUME NEW s \in Sends, NEW k, NEW o, Arrive(s, k, o)
      PROVE  Kept
  <2>1. CASE CreateNew(s, k, o)
    <3>1. rows[s] = NoRow
      BY <2>1 DEF CreateNew, Handle, Arrives, SendsInv
    <3> QED
      BY <2>1, <3>1 DEF CreateNew
  <2>2. CASE ApproveStart(s, k, o)
    BY <2>2 DEF ApproveStart, NoRow, Rows
  <2> QED
    BY <1>1, <2>1, <2>2
    DEF Arrive, Replay, CreateAgain, CreateRefused, ApproveRefused, RefreshStart, Throw
<1>2. ASSUME NEW s \in Sends, ApproveEnd(s)
      PROVE  Kept
  <2>1. PICK st \in {"COMMITTED", "FAILED", "APPROVED"} :
          rows' = [rows EXCEPT ![op[s].id].status = st]
    BY <1>2 DEF ApproveEnd
  <2> QED
    BY <2>1 DEF NoRow, Rows
<1>3. ASSUME NEW s \in Sends, WorkerEnds(s)
      PROVE  Kept
  <2>1. \E st \in {"COMMITTED", "FAILED"} : rows' = [rows EXCEPT ![s].status = st]
    BY <1>3 DEF WorkerEnds
  <2> QED
    BY <2>1 DEF NoRow, Rows
<1>4. ASSUME NEW s \in Sends,
             ApproveThrows(s) \/ RefreshEnd(s) \/ RefreshThrows(s) \/ Crash(s)
      PROVE  Kept
  BY <1>4 DEF ApproveThrows, RefreshEnd, RefreshThrows, Crash, Throw
<1>5. Kept
  BY <1>1, <1>2, <1>3, <1>4 DEF Next, vars
<1>6. ASSUME NEW t \in Sends, rows[t] # NoRow
      PROVE  op'[t] = op[t] /\ (phase[t] = "cut" => phase'[t] = "cut")
  BY <1>6, OnlyArrivalsKey, CutStays DEF SendsInv
<1> QED
  BY <1>5, <1>6 DEF RowsKept

\* Only create() makes rows, each its own.
LEMMA OnlyCreateNewRows ==
  ASSUME KInv, [Next]_vars, NEW t \in Sends, rows'[t] # NoRow, rows[t] = NoRow
  PROVE  \E k \in Keys \cup {NoKey}, o \in Operations : CreateNew(t, k, o)
<1> USE DEF KInv, TypeOK
<1>1. ASSUME NEW s \in Sends, ApproveEnd(s)
      PROVE  FALSE
  <2>1. rows[op[s].id] # NoRow
    BY <1>1 DEF ApproveEnd, SendsInv
  <2>2. \E st : rows' = [rows EXCEPT ![op[s].id].status = st]
    BY <1>1 DEF ApproveEnd
  <2> QED
    BY <2>1, <2>2
<1>2. ASSUME NEW s \in Sends, WorkerEnds(s)
      PROVE  FALSE
  <2>1. rows[s] # NoRow
    BY <1>2 DEF WorkerEnds, NoRow
  <2>2. \E st \in {"COMMITTED", "FAILED"} : rows' = [rows EXCEPT ![s].status = st]
    BY <1>2 DEF WorkerEnds
  <2> QED
    BY <2>1, <2>2
<1>3. ASSUME NEW s \in Sends, NEW k, NEW o, ApproveStart(s, k, o)
      PROVE  FALSE
  <2>1. rows[o.id] # NoRow
    BY <1>3 DEF ApproveStart, Approvable, NoRow
  <2>2. rows' = [rows EXCEPT ![o.id].status = "APPROVED"]
    BY <1>3 DEF ApproveStart
  <2> QED
    BY <2>1, <2>2
<1>4. PICK s \in Sends, k \in Keys \cup {NoKey}, o \in Operations : CreateNew(s, k, o)
  BY <1>1, <1>2, <1>3 DEF Next, vars, Arrive, Replay, CreateAgain, CreateRefused,
    ApproveRefused, RefreshStart, ApproveThrows, RefreshEnd, RefreshThrows, Crash, Throw
<1>5. s = t
  BY <1>4 DEF CreateNew
<1> QED
  BY <1>4, <1>5

\* The key is looked up before a row is created with it.
LEMMA OnceStep ==
  ASSUME KInv, [Next]_vars
  PROVE  KeyReservesOnce'
<1> USE DEF KInv, TypeOK
<1>1. RowsKept
  BY RowsKeptStep
<1>2. \A t \in Sends : rows[t] # NoRow => key'[t] = key[t]
  BY OnlyArrivalsKey DEF SendsInv
<1>3. CASE \A t \in Sends : rows'[t] # NoRow => rows[t] # NoRow
  BY <1>2, <1>3 DEF KeyReservesOnce
<1>4. ASSUME NEW s \in Sends, NEW k \in Keys \cup {NoKey}, NEW o \in Operations,
             CreateNew(s, k, o)
      PROVE  KeyReservesOnce'
  <2>1. /\ key'[s] = k /\ WithKey(k) = {}
        /\ \A t \in Sends \ {s} : rows'[t] = rows[t]
    BY <1>4 DEF CreateNew, Handle, Arrives
  <2>2. \A t \in Sends \ {s} : rows[t] # NoRow /\ k # NoKey => key[t] # k
    BY <2>1 DEF WithKey, SendsInv
  <2>3. SUFFICES ASSUME NEW t \in Sends, NEW u \in Sends, t # u,
                        rows'[t] # NoRow, rows'[u] # NoRow,
                        key'[t] = key'[u], key'[t] # NoKey
                 PROVE  FALSE
    BY DEF KeyReservesOnce
  <2>4. CASE t = s
    BY <1>2, <2>1, <2>2, <2>3, <2>4
  <2>5. CASE u = s
    BY <1>2, <2>1, <2>2, <2>3, <2>5
  <2>6. CASE t # s /\ u # s
    BY <1>2, <2>1, <2>3, <2>6 DEF KeyReservesOnce
  <2> QED
    BY <2>4, <2>5, <2>6
<1> QED
  BY <1>3, <1>4, OnlyCreateNewRows

\* Of the sends other than s, some handlers may die; nothing else happens.
OthersKept(s) ==
  \A t \in Sends \ {s} :
    /\ phase'[t] = phase[t] \/ (phase[t] = "waiting" /\ phase'[t] = "over")
    /\ reply'[t] = reply[t]
    /\ rows[t] = NoRow => rows'[t] = NoRow

\* So is an error.
LEMMA ThrowOthers ==
  ASSUME TypeOK, NEW s \in Sends, Throw(s)
  PROVE  /\ phase'[s] = "over" /\ reply'[s] = ErrorReply /\ OthersKept(s)
         /\ UNCHANGED <<rows, records>>
BY DEF Throw, Over, Gets, TypeOK, OthersKept

\* What a step about s has to show.
LEMMA SendsStep ==
  ASSUME KInv, [Next]_vars, NEW s \in Sends, OthersKept(s), phase'[s] # "unsent",
         phase'[s] = "waiting" =>
           /\ reply'[s] = NoReply /\ op'[s].kind \in {"approve", "refresh"}
           /\ op'[s].kind = "approve" => rows'[op'[s].id] # NoRow,
         rows'[s] # NoRow => rows'[s].key = key'[s]
  PROVE  SendsInv'
<1>1. RowsKept
  BY RowsKeptStep
<1>2. SUFFICES ASSUME NEW t \in Sends, t # s
               PROVE  /\ phase'[t] = "unsent" => rows'[t] = NoRow /\ reply'[t] = NoReply
                      /\ phase'[t] = "waiting" => reply'[t] = NoReply
                      /\ rows'[t] # NoRow => rows'[t].key = key'[t]
                      /\ phase'[t] = "waiting" => op'[t].kind \in {"approve", "refresh"}
                      /\ phase'[t] = "waiting" /\ op'[t].kind = "approve" =>
                           rows'[op'[t].id] # NoRow
  BY DEF SendsInv
<1>3. phase[t] # "unsent" => key'[t] = key[t] /\ op'[t] = op[t]
  BY OnlyArrivalsKey DEF KInv
<1>4. phase'[t] = "unsent" => rows'[t] = NoRow /\ reply'[t] = NoReply
  BY <1>2 DEF OthersKept, KInv, SendsInv
<1>5. rows'[t] # NoRow => rows'[t].key = key'[t]
  BY <1>1, <1>2, <1>3 DEF OthersKept, KInv, SendsInv, RowsKept
<1>6. ASSUME phase'[t] = "waiting"
      PROVE  /\ reply'[t] = NoReply /\ op'[t].kind \in {"approve", "refresh"}
             /\ op'[t].kind = "approve" => rows'[op'[t].id] # NoRow
  <2>1. phase[t] = "waiting" /\ reply'[t] = reply[t]
    BY <1>2, <1>6 DEF OthersKept
  <2>2. op'[t] = op[t] /\ op[t] \in Operations
    BY <1>3, <2>1 DEF KInv, TypeOK, SendsInv, NoOperation
  <2>3. op[t].kind = "approve" => op[t].id \in Sends
    BY <2>2 DEF Operations
  <2> QED
    BY <1>1, <2>1, <2>2, <2>3 DEF KInv, SendsInv, RowsKept
<1> QED
  BY <1>4, <1>5, <1>6

\* Where no response is given, or a record is, responses go on to fit.
LEMMA QuietFits ==
  ASSUME KInv, [Next]_vars, UNCHANGED records,
         \A t \in Sends :
           \/ reply'[t] \in {NoReply, ErrorReply}
           \/ reply'[t] = reply[t]
           \/ key'[t] \in Keys /\ Fits(Origins', key'[t], op'[t], reply'[t])
  PROVE  RecordsFit' /\ ReplyFitsOperation'
<1>1. RowsKept
  BY RowsKeptStep
<1>2. RecordsFit'
  BY <1>1, FitsOn DEF RecordsFit, KInv
<1>3. ASSUME NEW t \in Sends, reply'[t] \notin {NoReply, ErrorReply}, reply'[t] = reply[t],
             key'[t] # NoKey
      PROVE  Fits(Origins', key'[t], op'[t], reply'[t])
  <2>1. phase[t] # "unsent"
    BY <1>3 DEF KInv, SendsInv
  <2>2. key'[t] = key[t] /\ op'[t] = op[t] /\ key[t] \in Keys
    BY <1>3, <2>1, OnlyArrivalsKey DEF KInv, TypeOK
  <2>3. Fits(Origins, key[t], op[t], reply[t])
    BY <1>3, <2>2 DEF KInv, ReplyFitsOperation, Answered
  <2> QED
    BY <1>1, <1>3, <2>2, <2>3, FitsOn DEF KInv
<1>4. ReplyFitsOperation'
  BY <1>3 DEF ReplyFitsOperation, Answered
<1> QED
  BY <1>2, <1>4

\* The rest of a step that returns r to s.
LEMMA ReturnStep ==
  ASSUME KInv, TypeOK', [Next]_vars, NEW s \in Sends, phase[s] \in {"unsent", "waiting"},
         NEW r \in Responses, op'[s] \in Operations, Return(s, key'[s], op'[s], r),
         key'[s] # NoKey => Fits(Origins', key'[s], op'[s], r),
         \A t \in Sends \ {s} : rows[t] = NoRow => rows'[t] = NoRow,
         rows'[s] # NoRow => rows'[s].key = key'[s]
  PROVE  SendsInv' /\ RecordsFit' /\ ReplyFitsOperation'
<1>1. phase'[s] \in {"over", "cut"} /\ OthersKept(s)
  BY ReturnOthers DEF KInv, OthersKept
<1>2. SendsInv'
  BY <1>1, SendsStep
<1>3. RowsKept /\ reply[s] = NoReply /\ key'[s] \in Keys \cup {NoKey}
  BY RowsKeptStep DEF KInv, SendsInv, TypeOK
<1>4. \A t \in Sends \ {s} : (key'[t] = key[t] /\ op'[t] = op[t]) \/ reply[t] = NoReply
  BY OnlyArrivalsKey DEF KInv, SendsInv
<1>5. RecordsFit' /\ ReplyFitsOperation'
  BY <1>3, <1>4, ReturnFits DEF KInv
<1> QED
  BY <1>2, <1>5

\* A send that arrives.
LEMMA ArriveStep ==
  ASSUME KInv, [Next]_vars, NEW s \in Sends, NEW k \in Keys \cup {NoKey},
         NEW o \in Operations, Arrive(s, k, o)
  PROVE  SendsInv' /\ RecordsFit' /\ ReplyFitsOperation'
<1>1. /\ phase[s] = "unsent" /\ key'[s] = k /\ op'[s] = o
      /\ rows[s] = NoRow /\ reply[s] = NoReply
  BY DEF Arrive, Replay, CreateAgain, CreateNew, CreateRefused, ApproveStart,
    ApproveRefused, RefreshStart, Handle, Arrives, KInv, SendsInv, TypeOK
<1>2. TypeOK' /\ RowsKept
  BY ArriveTypes, RowsKeptStep DEF KInv
<1>3. CASE Replay(s, k, o)
  <2>1. /\ k \in Keys /\ records[k] # NoRecord /\ phase'[s] = "over" /\ UNCHANGED <<rows, records>>
        /\ reply'[s] = IF Matches(k, o) THEN records[k].response ELSE ErrorReply
        /\ OthersKept(s)
    BY <1>3 DEF Replay, Over, Gets, KInv, TypeOK, OthersKept
  <2>2. SendsInv'
    BY <1>1, <2>1, SendsStep
  <2>3. Matches(k, o) => Fits(Origins', k, o, reply'[s])
    <3>1. Matches(k, o) => Fits(Origins, k, o, records[k].response)
      BY <2>1 DEF Matches, KInv, RecordsFit
    <3> QED
      BY <1>2, <2>1, <3>1, FitsOn DEF KInv
  <2> QED
    BY <1>1, <2>1, <2>2, <2>3, QuietFits DEF OthersKept
<1>4. CASE CreateAgain(s, k, o)
  <2>1. PICK t \in WithKey(k) : Return(s, k, o, RowReply(t, rows[t].status))
    BY <1>4 DEF CreateAgain
  <2>2. t \in Sends /\ rows[t] # NoRow /\ rows[t].key = k /\ o.kind = "create" /\ rows' = rows
    BY <1>4 DEF WithKey, CreateAgain
  <2>3. k # NoKey /\ records[k] = NoRecord
    BY <1>4 DEF WithKey, CreateAgain, Handle
  <2>4. phase'[t] = "cut"
    BY <1>2, <2>2, <2>3 DEF RowsKept, KInv, MadeRecorded, SendsInv
  <2>5. RowReply(t, rows[t].status) \in Responses
    BY <2>2 DEF KInv, TypeOK, Rows, Responses
  <2>6. Fits(Origins', k, o, RowReply(t, rows[t].status))
    BY <2>2, <2>4 DEF Fits, Origins, RowReply
  <2> QED
    BY <1>1, <1>2, <2>1, <2>2, <2>5, <2>6, ReturnStep
<1>5. CASE CreateNew(s, k, o)
  <2>1. /\ rows' = [rows EXCEPT ![s] = NewRow(k)] /\ o.kind = "create"
        /\ Return(s, k, o, RowReply(s, "PENDING"))
    BY <1>5 DEF CreateNew
  <2>2. rows'[s].key = k /\ \A t \in Sends \ {s} : rows[t] = NoRow => rows'[t] = NoRow
    BY <2>1 DEF KInv, TypeOK, NewRow
  <2>3. RowReply(s, "PENDING") \in Responses /\ Fits(Origins', k, o, RowReply(s, "PENDING"))
    BY <1>1, <2>1, <2>2 DEF Responses, Fits, Origins, RowReply, Statuses
  <2> QED
    BY <1>1, <1>2, <2>1, <2>2, <2>3, ReturnStep
<1>6. CASE ApproveStart(s, k, o)
  <2>1. /\ o.kind = "approve" /\ Approvable(o.id)
        /\ rows' = [rows EXCEPT ![o.id].status = "APPROVED"]
        /\ phase'[s] = "waiting" /\ UNCHANGED <<reply, records>>
        /\ \A t \in Sends \ {s} : phase'[t] = phase[t]
    BY <1>6 DEF ApproveStart, KInv, TypeOK
  <2>2. rows[o.id] # NoRow /\ o.id \in Sends
    BY <2>1 DEF Approvable, NoRow, Operations
  <2>3. rows'[o.id] # NoRow /\ \A t \in Sends : rows[t] = NoRow => rows'[t] = NoRow
    BY <1>2, <2>1, <2>2 DEF RowsKept
  <2>4. OthersKept(s)
    BY <2>1, <2>3 DEF OthersKept
  <2>5. SendsInv'
    BY <1>1, <2>1, <2>3, <2>4, SendsStep
  <2> QED
    BY <2>1, <2>5, QuietFits
<1>7. CASE RefreshStart(s, k, o)
  <2>1. /\ o.kind = "refresh" /\ phase'[s] = "waiting" /\ UNCHANGED <<reply, rows, records>>
        /\ OthersKept(s)
    BY <1>7 DEF RefreshStart, KInv, TypeOK, OthersKept
  <2>2. SendsInv'
    BY <1>1, <2>1, SendsStep
  <2> QED
    BY <2>1, <2>2, QuietFits
<1>8. CASE CreateRefused(s, k, o) \/ ApproveRefused(s, k, o)
  <2>1. Throw(s)
    BY <1>8 DEF CreateRefused, ApproveRefused
  <2>2. /\ phase'[s] = "over" /\ reply'[s] = ErrorReply /\ OthersKept(s)
        /\ UNCHANGED <<rows, records>>
    BY <2>1, ThrowOthers DEF KInv
  <2>3. SendsInv'
    BY <1>1, <2>2, SendsStep
  <2> QED
    BY <2>2, <2>3, QuietFits DEF OthersKept
<1> QED
  BY <1>3, <1>4, <1>5, <1>6, <1>7, <1>8 DEF Arrive

\* A wait that ends, the worker, and a crash.
LEMMA EndStep ==
  ASSUME KInv, [Next]_vars, NEW s \in Sends,
         \/ ApproveEnd(s) \/ ApproveThrows(s) \/ RefreshEnd(s) \/ RefreshThrows(s)
         \/ WorkerEnds(s) \/ Crash(s)
  PROVE  SendsInv' /\ RecordsFit' /\ ReplyFitsOperation'
<1>1. /\ TypeOK' /\ RowsKept /\ UNCHANGED <<key, op>>
      /\ \A t \in Sends : rows[t] # NoRow => rows[t].key = key[t]
  BY EndTypes, RowsKeptStep DEF ApproveEnd, ApproveThrows, RefreshEnd, RefreshThrows,
    WorkerEnds, Crash, KInv, SendsInv
<1>2. phase[s] = "waiting" => /\ op[s] \in Operations
                              /\ op[s].kind = "approve" => op[s].id \in Sends
  BY DEF KInv, TypeOK, SendsInv, NoOperation, Operations
<1>3. CASE ApproveEnd(s)
  <2>1. PICK st \in {"COMMITTED", "FAILED", "APPROVED"} :
          /\ rows' = [rows EXCEPT ![op[s].id].status = st]
          /\ Return(s, key[s], op[s], RowReply(op[s].id, st))
    BY <1>3 DEF ApproveEnd
  <2>2. /\ phase[s] = "waiting" /\ op[s].kind = "approve" /\ op[s].id \in Sends
        /\ rows[op[s].id] # NoRow
    BY <1>2, <1>3 DEF ApproveEnd, KInv, SendsInv
  <2>3. \A t \in Sends : (rows[t] = NoRow => rows'[t] = NoRow)
                         /\ (rows'[t] # NoRow => rows'[t].key = key'[t])
    BY <1>1, <2>1, <2>2 DEF RowsKept
  <2>4. /\ RowReply(op[s].id, st) \in Responses
        /\ Fits(Origins', key[s], op[s], RowReply(op[s].id, st))
    BY <2>2 DEF Responses, Statuses, Fits, RowReply
  <2> QED
    BY <1>1, <1>2, <2>1, <2>2, <2>3, <2>4, ReturnStep
<1>4. CASE RefreshEnd(s)
  <2>1. PICK v \in 0..MaxBalance : Return(s, key[s], op[s], BalanceReply(v))
    BY <1>4 DEF RefreshEnd
  <2>2. phase[s] = "waiting" /\ op[s].kind = "refresh" /\ rows' = rows
    BY <1>4 DEF RefreshEnd
  <2>3. BalanceReply(v) \in Responses /\ Fits(Origins', key[s], op[s], BalanceReply(v))
    BY <2>2 DEF Responses, Fits, BalanceReply
  <2> QED
    BY <1>1, <1>2, <2>1, <2>2, <2>3, ReturnStep
<1>5. CASE ApproveThrows(s) \/ RefreshThrows(s)
  <2>1. /\ phase'[s] = "over" /\ reply'[s] = ErrorReply /\ OthersKept(s)
        /\ UNCHANGED <<rows, records>>
    BY <1>5, ThrowOthers DEF ApproveThrows, RefreshThrows, KInv
  <2>2. SendsInv'
    BY <1>1, <2>1, SendsStep
  <2> QED
    BY <2>1, <2>2, QuietFits DEF OthersKept
<1>6. CASE WorkerEnds(s)
  <2>1. PICK st \in {"COMMITTED", "FAILED"} : rows' = [rows EXCEPT ![s].status = st]
    BY <1>6 DEF WorkerEnds
  <2>2. rows[s] # NoRow /\ UNCHANGED <<phase, reply, records>>
    BY <1>6 DEF WorkerEnds, NoRow
  <2>3. OthersKept(s) /\ phase[s] # "unsent" /\ rows'[s].key = key'[s]
    BY <1>1, <2>1, <2>2 DEF OthersKept, KInv, SendsInv, RowsKept
  <2>4. phase[s] = "waiting" =>
          /\ reply[s] = NoReply /\ op[s].kind \in {"approve", "refresh"}
          /\ op[s].kind = "approve" => rows'[op[s].id] # NoRow
    BY <1>1, <1>2 DEF KInv, SendsInv, RowsKept
  <2>5. SendsInv'
    BY <1>1, <2>2, <2>3, <2>4, SendsStep
  <2> QED
    BY <2>2, <2>5, QuietFits
<1>7. CASE Crash(s)
  <2>1. phase'[s] = "over" /\ OthersKept(s) /\ UNCHANGED <<reply, rows, records>>
    BY <1>7 DEF Crash, Die, KInv, TypeOK, OthersKept
  <2>2. SendsInv'
    BY <1>1, <2>1, SendsStep
  <2> QED
    BY <2>1, <2>2, QuietFits
<1> QED
  BY <1>3, <1>4, <1>5, <1>6, <1>7

-----------------------------------------------------------------------------
(* What steps do to phases and replies *)

\* A send does not become unsent again; who waits is new only after a start;
\* only its own steps change what a client got.
LEMMA SendSteps ==
  ASSUME KInv, [Next]_vars, NEW t \in Sends
  PROVE  /\ phase[t] # "unsent" => phase'[t] # "unsent"
         /\ \/ reply'[t] = reply[t]
            \/ phase[t] = "waiting"
            \/ \E k \in Keys \cup {NoKey}, o \in Operations : Arrive(t, k, o)
<1> DEFINE Quiet(s) ==
      \A u \in Sends \ {s} :
        /\ phase'[u] = phase[u] \/ (phase[u] = "waiting" /\ phase'[u] = "over")
        /\ reply'[u] = reply[u]
<1> USE DEF KInv, TypeOK
<1>1. ASSUME NEW s \in Sends, NEW k, NEW o, Arrive(s, k, o)
      PROVE  phase'[s] # "unsent" /\ Quiet(s)
  <2>1. CASE CreateAgain(s, k, o) \/ CreateNew(s, k, o)
    BY <2>1, ReturnOthers DEF CreateAgain, CreateNew
  <2>2. CASE Replay(s, k, o)
    BY <2>2 DEF Replay, Over, Gets
  <2>3. CASE CreateRefused(s, k, o) \/ ApproveRefused(s, k, o)
    BY <2>3 DEF CreateRefused, ApproveRefused, Throw, Over, Gets
  <2>4. CASE ApproveStart(s, k, o) \/ RefreshStart(s, k, o)
    BY <2>4 DEF ApproveStart, RefreshStart
  <2> QED
    BY <1>1, <2>1, <2>2, <2>3, <2>4 DEF Arrive
<1>2. ASSUME NEW s \in Sends,
             ApproveEnd(s) \/ ApproveThrows(s) \/ RefreshEnd(s) \/ RefreshThrows(s)
      PROVE  phase[s] = "waiting" /\ phase'[s] # "unsent" /\ Quiet(s)
  <2>1. CASE ApproveEnd(s) \/ RefreshEnd(s)
    BY <2>1, ReturnOthers DEF ApproveEnd, RefreshEnd
  <2>2. CASE ApproveThrows(s) \/ RefreshThrows(s)
    BY <2>2 DEF ApproveThrows, RefreshThrows, Throw, Over, Gets
  <2> QED
    BY <1>2, <2>1, <2>2
<1>3. ASSUME NEW s \in Sends, Crash(s)
      PROVE  phase'[s] # "unsent" /\ Quiet(s) /\ reply' = reply
  BY <1>3 DEF Crash, Die
<1>4. ASSUME NEW s \in Sends, WorkerEnds(s)
      PROVE  phase' = phase /\ reply' = reply
  BY <1>4 DEF WorkerEnds
<1> QED
  BY <1>1, <1>2, <1>3, <1>4 DEF Next, vars

-----------------------------------------------------------------------------
(* Retried creations *)

\* A record was saved for a send with its key and its operation.
RecordsFromSends ==
  \A k \in Keys : records[k] # NoRecord =>
    \E t \in Sends : phase[t] # "unsent" /\ key[t] = k /\ op[t] = records[k].op

\* Only Return saves records.
LEMMA SaveStep ==
  ASSUME KInv, [Next]_vars
  PROVE  \/ UNCHANGED records
         \/ \E s \in Sends : /\ phase'[s] # "unsent" /\ op'[s] \in Operations
                             /\ \E r : records' = Saved(key'[s], op'[s], r)
<1>1. ASSUME NEW s \in Sends, NEW k \in Keys \cup {NoKey}, NEW o \in Operations, NEW r,
             Return(s, k, o, r)
      PROVE  phase'[s] # "unsent" /\ records' \in {records, Saved(k, o, r)}
  BY <1>1, ReturnOthers DEF Return, KInv
<1>2. ASSUME NEW s \in Sends, NEW k \in Keys \cup {NoKey}, NEW o \in Operations,
             Arrive(s, k, o)
      PROVE  \/ UNCHANGED records
             \/ /\ phase'[s] # "unsent" /\ op'[s] \in Operations
                /\ \E r : records' = Saved(key'[s], op'[s], r)
  <2>1. CASE CreateAgain(s, k, o) \/ CreateNew(s, k, o)
    <3>1. key'[s] = k /\ op'[s] = o /\ \E r : Return(s, k, o, r)
      BY <2>1 DEF CreateAgain, CreateNew, Handle, Arrives, KInv, TypeOK
    <3> QED
      BY <1>1, <3>1
  <2> QED
    BY <1>2, <2>1 DEF Arrive, Replay, CreateRefused, ApproveStart, ApproveRefused,
      RefreshStart, Throw
<1>3. ASSUME NEW s \in Sends, ApproveEnd(s) \/ RefreshEnd(s)
      PROVE  \/ UNCHANGED records
             \/ /\ phase'[s] # "unsent" /\ op'[s] \in Operations
                /\ \E r : records' = Saved(key'[s], op'[s], r)
  <2>1. /\ key' = key /\ op' = op /\ \E r : Return(s, key[s], op[s], r)
        /\ key[s] \in Keys \cup {NoKey} /\ op[s] \in Operations
    BY <1>3 DEF ApproveEnd, RefreshEnd, KInv, TypeOK, NoOperation
  <2> QED
    BY <1>1, <2>1
<1> QED
  BY <1>2, <1>3 DEF Next, vars, ApproveThrows, RefreshThrows, WorkerEnds, Crash, Throw

LEMMA RecordsFromStep ==
  ASSUME KInv, RecordsFromSends, [Next]_vars
  PROVE  RecordsFromSends'
<1>1. \A t \in Sends : phase[t] # "unsent" =>
        phase'[t] # "unsent" /\ key'[t] = key[t] /\ op'[t] = op[t]
  BY OnlyArrivalsKey, SendSteps DEF KInv
<1>2. CASE UNCHANGED records
  BY <1>1, <1>2 DEF RecordsFromSends
<1>3. ASSUME NEW s \in Sends, phase'[s] # "unsent", NEW r, records' = Saved(key'[s], op'[s], r)
      PROVE  RecordsFromSends'
  <2>1. SUFFICES ASSUME NEW k \in Keys, records'[k] # NoRecord
                 PROVE  \E t \in Sends : phase'[t] # "unsent" /\ key'[t] = k
                                         /\ op'[t] = records'[k].op
    BY DEF RecordsFromSends
  <2>2. CASE records'[k] = records[k]
    BY <1>1, <2>1, <2>2 DEF RecordsFromSends
  <2>3. CASE records'[k] # records[k]
    BY <1>3, <2>3 DEF Saved, KInv, TypeOK
  <2> QED
    BY <2>2, <2>3
<1> QED
  BY <1>2, <1>3, SaveStep

\* A record is never taken away.
LEMMA RecordsStay ==
  ASSUME KInv, [Next]_vars, NEW k \in Keys, records[k] # NoRecord
  PROVE  records'[k] # NoRecord
<1>1. CASE UNCHANGED records
  BY <1>1
<1>2. ASSUME NEW s \in Sends, op'[s] \in Operations, NEW r,
             records' = Saved(key'[s], op'[s], r)
      PROVE  records'[k] # NoRecord
  <2>1. op'[s] # NoOperation
    BY <1>2 DEF Operations, NoOperation
  <2> QED
    BY <1>2, <2>1 DEF Saved, NoRecord, KInv, TypeOK
<1> QED
  BY <1>1, <1>2, SaveStep

\* A row is made in one transaction with its key, and its record follows at
\* once: only a crash comes between.
LEMMA MadeRecordedStep ==
  ASSUME KInv, [Next]_vars
  PROVE  MadeRecorded'
<1> SUFFICES ASSUME NEW s \in Sends, rows'[s] # NoRow, key'[s] # NoKey
             PROVE  phase'[s] = "cut" \/ records'[key'[s]] # NoRecord
  BY DEF MadeRecorded
<1>1. ASSUME NEW o \in Operations, NEW r
      PROVE  [op |-> o, response |-> r] # NoRecord
  <2>1. o # NoOperation
    BY DEF Operations, NoOperation
  <2> QED
    BY <2>1 DEF NoRecord
<1>2. CASE rows[s] # NoRow
  <2>1. /\ key'[s] = key[s] /\ key[s] \in Keys
        /\ phase[s] = "cut" => phase'[s] = "cut"
    BY <1>2, OnlyArrivalsKey, CutStays DEF KInv, TypeOK, SendsInv
  <2>2. phase[s] = "cut" \/ records[key[s]] # NoRecord
    BY <1>2, <2>1 DEF KInv, MadeRecorded
  <2>3. records[key[s]] # NoRecord => records'[key[s]] # NoRecord
    BY <2>1, RecordsStay
  <2> QED
    BY <2>1, <2>2, <2>3
<1>3. CASE rows[s] = NoRow
  <2>1. PICK k \in Keys \cup {NoKey}, o \in Operations : CreateNew(s, k, o)
    BY <1>3, OnlyCreateNewRows
  <2>2. key'[s] = k /\ Return(s, k, o, RowReply(s, "PENDING"))
    BY <2>1 DEF CreateNew, Handle, Arrives, KInv, TypeOK
  <2>3. phase'[s] = "cut" \/ records' = Saved(k, o, RowReply(s, "PENDING"))
    BY <2>2 DEF Return, Die, KInv, TypeOK
  <2> QED
    BY <1>1, <2>2, <2>3 DEF Saved, KInv, TypeOK
<1> QED
  BY <1>2, <1>3

\* An error is no response, and not nothing either.
LEMMA ErrorIsNoResponse ==
  NoReply # ErrorReply /\ \A r \in Responses : r # ErrorReply /\ r # NoReply
<1>1. ErrorReply.saw = "an error" /\ NoReply.saw = "nothing"
  BY DEF ErrorReply, NoReply
<1>2. ASSUME NEW r \in Responses
      PROVE  r.saw \in Statuses \cup {"BALANCE"}
  BY DEF Responses, RowReply, BalanceReply
<1> QED
  BY <1>1, <1>2 DEF Statuses

\* A retry of the only creation with its key finds its row, or its record.
LEMMA RetryStep ==
  ASSUME KInv, RecordsFromSends, [Next]_vars, NEW s \in Sends,
         phase[s] = "unsent", op'[s].kind = "create", WithKey(key'[s]) # {},
         \A t \in Sends : phase[t] # "unsent" /\ key[t] = key'[s] => op[t] = op'[s]
  PROVE  reply'[s] # ErrorReply
<1>1. CASE reply'[s] = reply[s]
  BY <1>1, ErrorIsNoResponse DEF KInv, SendsInv
<1>2. ASSUME NEW k \in Keys \cup {NoKey}, NEW o \in Operations, Arrive(s, k, o)
      PROVE  reply'[s] # ErrorReply
  <2>1. key'[s] = k /\ op'[s] = o /\ reply[s] = NoReply
    BY <1>2 DEF Arrive, Replay, CreateAgain, CreateNew, CreateRefused, ApproveStart,
      ApproveRefused, RefreshStart, Handle, Arrives, KInv, SendsInv, TypeOK
  <2>2. ASSUME NEW r \in Responses, Return(s, k, o, r)
        PROVE  reply'[s] # ErrorReply
    <3>1. reply'[s] \in {NoReply, r}
      BY <2>1, <2>2 DEF Return, Gets, KInv, TypeOK
    <3> QED
      BY <3>1, ErrorIsNoResponse
  <2>3. CASE Replay(s, k, o)
    <3>1. k \in Keys /\ records[k] # NoRecord
      BY <2>3 DEF Replay
    <3>2. Matches(k, o)
      BY <2>1, <3>1 DEF RecordsFromSends, Matches
    <3>3. reply'[s] = records[k].response /\ records[k].response \in Responses
      BY <2>3, <3>1, <3>2 DEF Replay, Gets, KInv, TypeOK
    <3> QED
      BY <3>3, ErrorIsNoResponse
  <2>4. CASE CreateAgain(s, k, o)
    <3>1. PICK t \in WithKey(k) : Return(s, k, o, RowReply(t, rows[t].status))
      BY <2>4 DEF CreateAgain
    <3>2. RowReply(t, rows[t].status) \in Responses
      BY DEF WithKey, KInv, TypeOK, Rows, Responses
    <3> QED
      BY <2>2, <3>1, <3>2
  <2>5. CASE CreateNew(s, k, o)
    BY <2>1, <2>5 DEF CreateNew
  <2> QED
    BY <1>2, <2>1, <2>3, <2>4, <2>5
    DEF Arrive, CreateRefused, ApproveStart, ApproveRefused, RefreshStart
<1> QED
  BY <1>1, <1>2, SendSteps

-----------------------------------------------------------------------------
(* Approvals *)

Approvals == [kind: {"approve"}, id: Sends]

\* A request that has been approved, whatever has become of it.
Started(u) == rows[u].status \notin {"NONE", "PENDING"}

\* The sends whose handler waits in operation o.
Waiters(o) == {s \in Sends : phase[s] = "waiting" /\ op[s] = o}

\* The responses to operation o that a client got or that are to be replayed.
Outcomes(o) ==
  {reply[s] : s \in {t \in Sends : op[t] = o /\ reply[t] \notin {NoReply, ErrorReply}}}
    \cup {records[k].response : k \in {l \in Keys : records[l] # NoRecord /\ records[l].op = o}}

\* One handler at most gets as far as to wait for the approval of a request,
\* nothing is answered before it returns, and what it returns is the only
\* response there ever is, under whatever key.
AInv ==
  \A o \in Approvals :
    /\ Waiters(o) # {} \/ Outcomes(o) # {} => Started(o.id)
    /\ Waiters(o) # {} => Outcomes(o) = {}
    /\ \A s, t \in Waiters(o) : s = t
    /\ \A x, y \in Outcomes(o) : x = y

\* A request that has been approved is not pending again.
LEMMA StartedStays ==
  ASSUME KInv, [Next]_vars, NEW u \in Sends, Started(u)
  PROVE  Started(u)'
<1> USE DEF KInv, TypeOK, Started
<1>1. ASSUME NEW s \in Sends, NEW k, NEW o, CreateNew(s, k, o)
      PROVE  Started(u)'
  <2>1. rows[s] = NoRow
    BY <1>1 DEF CreateNew, Handle, Arrives, SendsInv
  <2> QED
    BY <1>1, <2>1 DEF CreateNew, NoRow
<1>2. ASSUME NEW t, NEW st \in {"APPROVED", "COMMITTED", "FAILED"},
             rows' = [rows EXCEPT ![t].status = st]
      PROVE  Started(u)'
  <2>1. CASE u # t
    BY <1>2, <2>1
  <2>2. CASE u = t
    <3>1. rows'[u].status = st
      BY <1>2, <2>2 DEF Rows, NoRow
    <3> QED
      BY <3>1
  <2> QED
    BY <2>1, <2>2
<1>3. ASSUME NEW s \in Sends, ApproveEnd(s)
      PROVE  Started(u)'
  BY <1>2, <1>3 DEF ApproveEnd
<1>4. ASSUME NEW s \in Sends, WorkerEnds(s)
      PROVE  Started(u)'
  BY <1>2, <1>4 DEF WorkerEnds
<1>5. ASSUME NEW s \in Sends, NEW k, NEW o, ApproveStart(s, k, o)
      PROVE  Started(u)'
  BY <1>2, <1>5 DEF ApproveStart
<1>6. CASE UNCHANGED rows
  BY <1>6
<1> QED
  BY <1>1, <1>3, <1>4, <1>5, <1>6 DEF Next, vars, Arrive, Replay, CreateAgain,
    CreateRefused, ApproveRefused, RefreshStart, ApproveThrows, RefreshEnd, RefreshThrows,
    Crash, Throw

\* Who waits, and what has been answered, is so for an operation that stays.
LEMMA FarKeeps ==
  ASSUME KInv, [Next]_vars, NEW t \in Sends,
         phase[t] = "waiting" \/ reply[t] # NoReply
  PROVE  op'[t] = op[t]
BY OnlyArrivalsKey DEF KInv, SendsInv

\* Steps after which nobody else waits and that save nothing: nor do they
\* answer anything but an error or what a record answers.
LEMMA QuietOutcomes ==
  ASSUME KInv, [Next]_vars, NEW o \in Approvals, NEW s \in Sends, UNCHANGED records,
         \A t \in Sends \ {s} :
           reply'[t] = reply[t] /\ (phase'[t] = "waiting" => phase[t] = "waiting"),
         \/ reply'[s] = reply[s] \/ reply'[s] = ErrorReply
         \/ \E k \in Keys : /\ records[k] # NoRecord /\ records[k].op = op'[s]
                            /\ reply'[s] = records[k].response
  PROVE  Outcomes(o)' \subseteq Outcomes(o) /\ Waiters(o)' \subseteq Waiters(o) \cup {s}
<1>1. ASSUME NEW t \in Sends, op'[t] = o, reply'[t] \notin {NoReply, ErrorReply}
      PROVE  reply'[t] \in Outcomes(o)
  <2>1. CASE reply'[t] = reply[t]
    BY <1>1, <2>1, FarKeeps DEF Outcomes
  <2>2. CASE reply'[t] # reply[t]
    BY <1>1, <2>2 DEF Outcomes
  <2> QED
    BY <2>1, <2>2
<1>2. ASSUME NEW k \in Keys, records'[k] # NoRecord, records'[k].op = o
      PROVE  records'[k].response \in Outcomes(o)
  BY <1>2 DEF Outcomes
<1>3. Outcomes(o)' \subseteq Outcomes(o)
  BY <1>1, <1>2 DEF Outcomes
<1>4. Waiters(o)' \subseteq Waiters(o) \cup {s}
  BY FarKeeps DEF Waiters
<1> QED
  BY <1>3, <1>4

\* A handler that returns r adds r to what its operation may answer.
LEMMA ReturnOutcomes ==
  ASSUME KInv, [Next]_vars, NEW o \in Approvals, NEW s \in Sends, NEW r,
         reply[s] = NoReply, Return(s, key'[s], op'[s], r)
  PROVE  /\ Outcomes(o)' \subseteq Outcomes(o) \cup {x \in {r} : op'[s] = o}
         /\ Waiters(o)' \subseteq Waiters(o) \ {s}
<1>1. /\ records' \in {records, Saved(key'[s], op'[s], r)}
      /\ reply' \in {reply, [reply EXCEPT ![s] = r]}
  BY DEF Return, Gets
<1>2. /\ phase'[s] \in {"over", "cut"}
      /\ \A t \in Sends \ {s} : /\ phase'[t] = "waiting" => phase[t] = "waiting"
                                /\ reply'[t] = reply[t]
  BY ReturnOthers DEF KInv
<1>3. ASSUME NEW t \in Sends, op'[t] = o, reply'[t] \notin {NoReply, ErrorReply}
      PROVE  reply'[t] \in Outcomes(o) \cup {x \in {r} : op'[s] = o}
  <2>1. CASE t = s
    BY <1>1, <1>3, <2>1 DEF KInv, TypeOK
  <2>2. CASE t # s
    BY <1>2, <1>3, <2>2, FarKeeps DEF Outcomes
  <2> QED
    BY <2>1, <2>2
<1>4. ASSUME NEW k \in Keys, records'[k] # NoRecord, records'[k].op = o
      PROVE  records'[k].response \in Outcomes(o) \cup {x \in {r} : op'[s] = o}
  <2>1. CASE records'[k] = records[k]
    BY <1>4, <2>1 DEF Outcomes
  <2>2. CASE records'[k] # records[k]
    <3>1. records'[k] = [op |-> op'[s], response |-> r]
      BY <1>1, <2>2 DEF Saved, KInv, TypeOK
    <3> QED
      BY <1>4, <3>1
  <2> QED
    BY <2>1, <2>2
<1>5. Outcomes(o)' \subseteq Outcomes(o) \cup {x \in {r} : op'[s] = o}
  BY <1>3, <1>4 DEF Outcomes
<1>6. Waiters(o)' \subseteq Waiters(o) \ {s}
  BY <1>2, FarKeeps DEF Waiters
<1> QED
  BY <1>5, <1>6

\* Of every approval a step starts the handler, ends it, or does neither.
ApprovalStarts(o) ==
  /\ ~Started(o.id) /\ Started(o.id)'
  /\ Outcomes(o)' \subseteq Outcomes(o)
  /\ \E s \in Sends : Waiters(o)' \subseteq Waiters(o) \cup {s}

ApprovalEnds(o) ==
  \E s \in Waiters(o) :
    /\ Waiters(o)' \subseteq Waiters(o) \ {s}
    /\ \E r : Outcomes(o)' \subseteq Outcomes(o) \cup {r}

ApprovalWaits(o) ==
  Outcomes(o)' \subseteq Outcomes(o) /\ Waiters(o)' \subseteq Waiters(o)

\* A send arrives.
LEMMA ArriveApproves ==
  ASSUME KInv, [Next]_vars, NEW o \in Approvals, NEW s \in Sends,
         NEW k \in Keys \cup {NoKey}, NEW q \in Operations, Arrive(s, k, q)
  PROVE  ApprovalStarts(o) \/ ApprovalWaits(o)
<1>1. /\ phase[s] = "unsent" /\ reply[s] = NoReply /\ key'[s] = k /\ op'[s] = q
      /\ s \notin Waiters(o)
  BY DEF Arrive, Replay, CreateAgain, CreateNew, CreateRefused, ApproveStart,
    ApproveRefused, RefreshStart, Handle, Arrives, KInv, SendsInv, TypeOK, Waiters
<1>2. CASE CreateAgain(s, k, q) \/ CreateNew(s, k, q)
  <2>1. PICK r : Return(s, key'[s], op'[s], r)
    BY <1>1, <1>2 DEF CreateAgain, CreateNew
  <2>2. op'[s] # o
    BY <1>1, <1>2 DEF CreateAgain, CreateNew, Approvals
  <2> QED
    BY <1>1, <2>1, <2>2, ReturnOutcomes DEF ApprovalWaits
<1>3. CASE Replay(s, k, q)
  <2>1. /\ UNCHANGED records /\ k \in Keys /\ records[k] # NoRecord
        /\ reply' = [reply EXCEPT ![s] = IF Matches(k, q) THEN records[k].response ELSE ErrorReply]
        /\ phase' = [phase EXCEPT ![s] = "over"]
    BY <1>3 DEF Replay, Gets, Over
  <2>2. \/ reply'[s] = ErrorReply
        \/ records[k].op = op'[s] /\ reply'[s] = records[k].response
    BY <1>1, <2>1 DEF Matches, KInv, TypeOK
  <2>3. \A t \in Sends \ {s} : reply'[t] = reply[t] /\ phase'[t] = phase[t]
    BY <2>1 DEF KInv, TypeOK
  <2>4. s \notin Waiters(o)'
    BY <2>1 DEF Waiters, KInv, TypeOK
  <2> QED
    BY <2>1, <2>2, <2>3, <2>4, QuietOutcomes DEF ApprovalWaits
<1>4. CASE CreateRefused(s, k, q) \/ ApproveRefused(s, k, q)
  <2>1. /\ phase'[s] = "over" /\ reply'[s] = ErrorReply /\ OthersKept(s)
        /\ UNCHANGED records
    BY <1>4, ThrowOthers DEF CreateRefused, ApproveRefused, KInv
  <2>2. s \notin Waiters(o)'
    BY <2>1 DEF Waiters
  <2> QED
    BY <2>1, <2>2, QuietOutcomes DEF ApprovalWaits, OthersKept
<1>5. CASE ApproveStart(s, k, q) \/ RefreshStart(s, k, q)
  <2>1. /\ UNCHANGED <<reply, records>> /\ phase' = [phase EXCEPT ![s] = "waiting"]
    BY <1>5 DEF ApproveStart, RefreshStart
  <2>2. \A t \in Sends \ {s} : reply'[t] = reply[t] /\ phase'[t] = phase[t]
    BY <2>1 DEF KInv, TypeOK
  <2>3. Outcomes(o)' \subseteq Outcomes(o) /\ Waiters(o)' \subseteq Waiters(o) \cup {s}
    BY <2>1, <2>2, QuietOutcomes
  <2>4. CASE q # o
    <3>1. s \notin Waiters(o)'
      BY <1>1, <2>4 DEF Waiters
    <3> QED
      BY <2>3, <3>1 DEF ApprovalWaits
  <2>5. CASE q = o
    <3>1. ApproveStart(s, k, o) /\ o.id \in Sends
      BY <1>5, <2>5 DEF RefreshStart, Approvals
    <3>2. rows[o.id].status = "PENDING" /\ rows' = [rows EXCEPT ![o.id].status = "APPROVED"]
      BY <3>1 DEF ApproveStart, Approvable
    <3>3. rows'[o.id].status = "APPROVED"
      BY <3>1, <3>2 DEF KInv, TypeOK, Rows, NoRow
    <3> QED
      BY <2>3, <3>2, <3>3 DEF ApprovalStarts, Started
  <2> QED
    BY <2>4, <2>5
<1> QED
  BY <1>2, <1>3, <1>4, <1>5 DEF Arrive

\* A wait ends, the worker works, or the process crashes.
LEMMA EndApproves ==
  ASSUME KInv, [Next]_vars, NEW o \in Approvals, NEW s \in Sends,
         \/ ApproveEnd(s) \/ ApproveThrows(s) \/ RefreshEnd(s) \/ RefreshThrows(s)
         \/ WorkerEnds(s) \/ Crash(s)
  PROVE  ApprovalEnds(o) \/ ApprovalWaits(o)
<1>1. UNCHANGED <<key, op>>
  BY DEF ApproveEnd, ApproveThrows, RefreshEnd, RefreshThrows, WorkerEnds, Crash
<1>2. CASE ApproveEnd(s) \/ RefreshEnd(s)
  <2>1. /\ phase[s] = "waiting" /\ reply[s] = NoReply
        /\ \E r : Return(s, key'[s], op'[s], r)
    BY <1>1, <1>2 DEF ApproveEnd, RefreshEnd, KInv, SendsInv
  <2>2. PICK r : /\ Outcomes(o)' \subseteq Outcomes(o) \cup {x \in {r} : op'[s] = o}
                 /\ Waiters(o)' \subseteq Waiters(o) \ {s}
    BY <2>1, ReturnOutcomes
  <2>3. CASE op[s] = o
    <3>1. s \in Waiters(o)
      BY <2>1, <2>3 DEF Waiters
    <3> QED
      BY <2>2, <3>1 DEF ApprovalEnds
  <2>4. CASE op[s] # o
    BY <1>1, <2>2, <2>4 DEF ApprovalWaits
  <2> QED
    BY <2>3, <2>4
<1>3. CASE ApproveThrows(s) \/ RefreshThrows(s)
  <2>1. /\ phase'[s] = "over" /\ reply'[s] = ErrorReply /\ OthersKept(s)
        /\ UNCHANGED records
    BY <1>3, ThrowOthers DEF ApproveThrows, RefreshThrows, KInv
  <2>2. s \notin Waiters(o)'
    BY <2>1 DEF Waiters
  <2> QED
    BY <2>1, <2>2, QuietOutcomes DEF ApprovalWaits, OthersKept
<1>4. CASE WorkerEnds(s)
  BY <1>4 DEF WorkerEnds, ApprovalWaits, Outcomes, Waiters
<1>5. CASE Crash(s)
  <2>1. /\ UNCHANGED <<op, reply, records>>
        /\ \A t \in Sends : phase'[t] = "waiting" => phase[t] = "waiting"
    BY <1>5 DEF Crash, Die, KInv, TypeOK
  <2> QED
    BY <2>1 DEF ApprovalWaits, Outcomes, Waiters
<1> QED
  BY <1>2, <1>3, <1>4, <1>5

\* Every step keeps the invariant of approvals.
LEMMA ApprovalsStep ==
  ASSUME KInv, AInv, [Next]_vars
  PROVE  AInv'
<1> SUFFICES ASSUME NEW o \in Approvals
             PROVE  /\ Waiters(o)' # {} \/ Outcomes(o)' # {} => Started(o.id)'
                    /\ Waiters(o)' # {} => Outcomes(o)' = {}
                    /\ \A s, t \in Waiters(o)' : s = t
                    /\ \A x, y \in Outcomes(o)' : x = y
  BY DEF AInv, Approvals
<1>1. /\ Waiters(o) # {} \/ Outcomes(o) # {} => Started(o.id)
      /\ Waiters(o) # {} => Outcomes(o) = {}
      /\ \A s, t \in Waiters(o) : s = t
      /\ \A x, y \in Outcomes(o) : x = y
  BY DEF AInv
<1>2. Started(o.id) => Started(o.id)'
  BY StartedStays DEF Approvals
<1>3. ApprovalStarts(o) \/ ApprovalEnds(o) \/ ApprovalWaits(o)
  <2>1. CASE Next
    BY <2>1, ArriveApproves, EndApproves DEF Next
  <2>2. CASE UNCHANGED vars
    BY <2>2 DEF vars, ApprovalWaits, Outcomes, Waiters
  <2> QED
    BY <2>1, <2>2
<1>4. CASE ApprovalStarts(o)
  BY <1>1, <1>4 DEF ApprovalStarts
<1>5. CASE ApprovalEnds(o)
  BY <1>1, <1>2, <1>5 DEF ApprovalEnds
<1>6. CASE ApprovalWaits(o)
  BY <1>1, <1>2, <1>6 DEF ApprovalWaits
<1> QED
  BY <1>3, <1>4, <1>5, <1>6

-----------------------------------------------------------------------------
(* Theorems *)

LEMMA InitInv == Init => KInv
<1> SUFFICES ASSUME Init
             PROVE  KInv
  OBVIOUS
<1>1. TypeOK
  BY BoundsAssumption DEF Init, TypeOK, Rows
<1>2. SendsInv /\ RecordsFit /\ MadeRecorded /\ KeyReservesOnce /\ ReplyFitsOperation
  BY DEF Init, SendsInv, RecordsFit, MadeRecorded, KeyReservesOnce, ReplyFitsOperation,
    Answered
<1> QED
  BY <1>1, <1>2 DEF KInv

LEMMA StepInv == KInv /\ [Next]_vars => KInv'
<1> SUFFICES ASSUME KInv, [Next]_vars
             PROVE  KInv'
  OBVIOUS
<1>1. KeyReservesOnce' /\ MadeRecorded'
  BY OnceStep, MadeRecordedStep
<1>2. CASE Next
  <2>1. PICK s \in Sends :
          \/ \E k \in Keys \cup {NoKey}, o \in Operations : Arrive(s, k, o)
          \/ ApproveEnd(s) \/ ApproveThrows(s) \/ RefreshEnd(s) \/ RefreshThrows(s)
          \/ WorkerEnds(s) \/ Crash(s)
    BY <1>2 DEF Next
  <2>2. TypeOK'
    BY <2>1, ArriveTypes, EndTypes DEF KInv
  <2>3. SendsInv' /\ RecordsFit' /\ ReplyFitsOperation'
    BY <2>1, ArriveStep, EndStep
  <2> QED
    BY <1>1, <2>2, <2>3 DEF KInv
<1>3. CASE UNCHANGED vars
  <2>1. TypeOK' /\ SendsInv'
    BY <1>3 DEF KInv, TypeOK, SendsInv, vars
  <2>2. RecordsFit' /\ ReplyFitsOperation'
    BY <1>3, QuietFits DEF vars
  <2> QED
    BY <1>1, <2>1, <2>2 DEF KInv
<1> QED
  BY <1>2, <1>3

THEOREM Invariance == Spec => []KInv
BY InitInv, StepInv, PTL DEF Spec

\* Types are kept; a commit after the wait for HCM leaves no negative balance,
\* whatever refreshes have stored in between.
THEOREM TypeCorrect == Spec => []TypeOK
<1>1. KInv => TypeOK
  BY DEF KInv
<1> QED
  BY <1>1, Invariance, PTL

\* The same key never reserves twice: not across crashes that take the
\* interceptor's record, nor with another body.
THEOREM KeyReserves == Spec => []KeyReservesOnce
<1>1. KInv => KeyReservesOnce
  BY DEF KInv
<1> QED
  BY <1>1, Invariance, PTL

\* A response is about what was asked for, from the body of the creation to the
\* id of the approval, though handlers that overlap under one key overwrite each
\* other's record: only where a crash took the record of a creation is a reply
\* to the key about a request made from another body.
THEOREM ReplyFits == Spec => []ReplyFitsOperation
<1>1. KInv => ReplyFitsOperation
  BY DEF KInv
<1> QED
  BY <1>1, Invariance, PTL

\* No send loses its record where the process does not crash.
NoneCut == \A s \in Sends : phase[s] # "cut"

LEMMA NoneCutStep ==
  ASSUME MaxCrashes = 0, KInv, NoneCut, [Next]_vars
  PROVE  NoneCut'
<1> USE DEF KInv, TypeOK, NoneCut
<1>1. ASSUME NEW s \in Sends, NEW how, Die(s, how)
      PROVE  FALSE
  BY <1>1 DEF Die
<1>2. ASSUME NEW s \in Sends, NEW k, NEW o, NEW r, Return(s, k, o, r)
      PROVE  NoneCut'
  BY <1>1, <1>2 DEF Return, Over
<1>3. ASSUME NEW s \in Sends, NEW k, NEW o, Arrive(s, k, o)
      PROVE  NoneCut'
  BY <1>2, <1>3 DEF Arrive, Replay, CreateAgain, CreateNew, CreateRefused, ApproveStart,
    ApproveRefused, RefreshStart, Throw, Over
<1>4. ASSUME NEW s \in Sends,
             \/ ApproveEnd(s) \/ ApproveThrows(s) \/ RefreshEnd(s) \/ RefreshThrows(s)
             \/ WorkerEnds(s) \/ Crash(s)
      PROVE  NoneCut'
  BY <1>1, <1>2, <1>4 DEF ApproveEnd, ApproveThrows, RefreshEnd, RefreshThrows,
    WorkerEnds, Crash, Throw, Over
<1> QED
  BY <1>3, <1>4 DEF Next, vars

\* What the interceptor says of a key used with another body is true while the
\* process does not crash: the run OtherBody needs its crash.
THEOREM OtherBodyNeedsCrash ==
  ASSUME MaxCrashes = 0
  PROVE  Spec => []OtherBodyRefused
<1>1. Init => NoneCut
  BY DEF Init, NoneCut
<1>2. KInv /\ NoneCut /\ [Next]_vars => NoneCut'
  BY NoneCutStep
<1>3. KInv /\ NoneCut => OtherBodyRefused
  BY DEF KInv, NoneCut, ReplyFitsOperation, OtherBodyRefused, Answered, Fits, Origins
<1> QED
  BY <1>1, <1>2, <1>3, Invariance, PTL DEF Spec

\* The same key returns the same request id: every creation with a key is
\* answered with a row of that key, and there is one such row.
THEOREM SameId == Spec => []SameKeySameId
<1>1. KInv => SameKeySameId
  <2> SUFFICES ASSUME KInv, NEW s \in Sends, NEW t \in Sends,
                      Answered(s), op[s].kind = "create",
                      Answered(t), op[t].kind = "create", key[s] = key[t]
               PROVE  reply[s].about = reply[t].about
    BY DEF SameKeySameId
  <2>1. /\ reply[s].about \in Sends /\ rows[reply[s].about].key = key[s]
        /\ reply[t].about \in Sends /\ rows[reply[t].about].key = key[s]
    BY DEF KInv, ReplyFitsOperation, Fits, Origins
  <2>2. /\ rows[reply[s].about] # NoRow /\ key[reply[s].about] = key[s]
        /\ rows[reply[t].about] # NoRow /\ key[reply[t].about] = key[s]
    BY <2>1 DEF Answered, NoRow, KInv, SendsInv
  <2> QED
    BY <2>1, <2>2 DEF Answered, KInv, KeyReservesOnce
<1> QED
  BY <1>1, Invariance, PTL

\* No retry of a creation whose row is there ends with an error, if its key
\* was used for nothing else.
THEOREM RetriesAreAnswered == Spec => RetriedCreationIsAnswered
<1> DEFINE Step ==
      \A s \in Sends :
        /\ phase[s] = "unsent" /\ op'[s].kind = "create"
        /\ WithKey(key'[s]) # {}
        /\ \A t \in Sends : phase[t] # "unsent" /\ key[t] = key'[s] => op[t] = op'[s]
        => reply'[s] # ErrorReply
<1>1. Init => RecordsFromSends
  BY DEF Init, RecordsFromSends
<1>2. KInv /\ RecordsFromSends /\ [Next]_vars => RecordsFromSends'
  BY RecordsFromStep
<1>3. KInv /\ RecordsFromSends /\ [Next]_vars => [Step]_vars
  BY RetryStep
<1>4. [][Step]_vars => RetriedCreationIsAnswered
  BY PTL DEF RetriedCreationIsAnswered
<1> HIDE DEF Step
<1> QED
  BY <1>1, <1>2, <1>3, <1>4, Invariance, PTL DEF Spec

\* The invariant of approvals holds in every reachable state.
LEMMA ApprovalsInvariance == Spec => []AInv
<1>1. Init => AInv
  BY DEF Init, AInv, Waiters, Outcomes
<1>2. KInv /\ AInv /\ [Next]_vars => AInv'
  BY ApprovalsStep
<1> QED
  BY <1>1, <1>2, Invariance, PTL DEF Spec

\* Whoever is answered with 2xx to the approval of a request hears the same,
\* the approver and every replay, whatever has become of the request since.
THEOREM ApprovalsAnswerAlike == Spec => []ApprovalsAgree
<1>1. KInv /\ AInv => ApprovalsAgree
  <2> SUFFICES ASSUME KInv, AInv, NEW s \in Sends, NEW t \in Sends,
                      Answered(s), Answered(t), op[s] = op[t], op[s].kind = "approve"
               PROVE  reply[s] = reply[t]
    BY DEF ApprovalsAgree
  <2>1. op[s] \in Approvals
    BY DEF KInv, TypeOK, Operations, NoOperation, Approvals
  <2>2. reply[s] \in Outcomes(op[s]) /\ reply[t] \in Outcomes(op[s])
    BY DEF Answered, Outcomes
  <2> QED
    BY <2>1, <2>2 DEF AInv
<1> QED
  BY <1>1, Invariance, ApprovalsInvariance, PTL

\* HCM is asked for a debit by one approve() of a request at a time.
THEOREM ApproverIsAlone == Spec => []OneApprovalWaits
<1>1. KInv /\ AInv => OneApprovalWaits
  <2> SUFFICES ASSUME KInv, AInv, NEW s \in Sends, NEW t \in Sends,
                      phase[s] = "waiting", phase[t] = "waiting",
                      op[s] = op[t], op[s].kind = "approve"
               PROVE  s = t
    BY DEF OneApprovalWaits
  <2>1. op[s] \in Approvals
    BY DEF KInv, TypeOK, Operations, NoOperation, Approvals
  <2>2. s \in Waiters(op[s]) /\ t \in Waiters(op[s])
    BY DEF Waiters
  <2> QED
    BY <2>1, <2>2 DEF AInv
<1> QED
  BY <1>1, Invariance, ApprovalsInvariance, PTL
=============================================================================
