------------------------- MODULE OutboundQueueProofs -------------------------
(* Proofs about OutboundQueue for every set of messages and workers, every  *)
(* retry budget and every choice of the time constants.                    *)
EXTENDS OutboundQueue, TLAPS

-----------------------------------------------------------------------------
(* Type correctness.                                                       *)

(* The fields of a row and of a worker.                                    *)
LEMMA RowFields ==
  ASSUME TypeOK, NEW k \in Keys
  PROVE  /\ row[k] \in Row
         /\ row[k].status \in Status /\ row[k].attempts \in Nat
         /\ row[k].wait \in Nat \cup {NoDate} /\ row[k].age \in Nat
         /\ row[k].permit \in Nat /\ row[k].revoked \in BOOLEAN
         /\ row[k].person \in BOOLEAN /\ row[k].acked \in BOOLEAN
BY DEF TypeOK, Row

LEMMA WorkerFields ==
  ASSUME TypeOK, NEW w \in Workers
  PROVE  /\ worker[w] \in WorkerState
         /\ worker[w].pc \in PC /\ worker[w].todo \in SUBSET Snapshot
         /\ worker[w].key \in Keys \cup {NoKey} /\ worker[w].tries \in Nat
         /\ worker[w].revoked \in BOOLEAN /\ worker[w].elapsed \in Nat
         /\ worker[w].outcome \in Outcomes
BY DEF TypeOK, WorkerState

LEMMA IdleWorkerType == IdleWorker \in WorkerState
BY DEF IdleWorker, WorkerState, PC, Outcomes

LEMMA AbsentRowType == AbsentRow \in Row
BY DEF AbsentRow, Row, Status

(* Writing one row or one worker keeps the type of its table.              *)
LEMMA SetRowType ==
  ASSUME TypeOK, NEW k \in Keys, NEW r \in Row, SetRow(k, r)
  PROVE  row' \in [Keys -> Row]
BY DEF SetRow, TypeOK

LEMMA SetWorkerType ==
  ASSUME TypeOK, NEW w \in Workers, NEW s \in WorkerState, SetWorker(w, s)
  PROVE  worker' \in [Workers -> WorkerState]
BY DEF SetWorker, TypeOK

(* What going to the next row writes.                                      *)
Next1(w) == [worker[w] EXCEPT !.pc = "row", !.key = NoKey, !.tries = 0,
                              !.revoked = FALSE, !.outcome = "none"]

LEMMA NextRowWrites ==
  ASSUME TypeOK, NEW w \in Workers, NextRow(w)
  PROVE  \E s \in {IdleWorker, Next1(w)} : s \in WorkerState /\ SetWorker(w, s)
<1>1. Next1(w) \in WorkerState
  BY WorkerFields DEF Next1, WorkerState, PC, Outcomes
<1>2. SetWorker(w, IdleWorker) \/ SetWorker(w, Next1(w))
  BY DEF NextRow, Next1, SetWorker
<1> QED BY <1>1, <1>2, IdleWorkerType

LEMMA NextRowType ==
  ASSUME TypeOK, NEW w \in Workers, NextRow(w)
  PROVE  worker' \in [Workers -> WorkerState]
BY NextRowWrites, SetWorkerType

(* A settlement writes a row; the backoff table is read within its domain.  *)
LEMMA SettledType ==
  ASSUME NEW r \in Row, NEW o \in Outcomes, NEW n \in Nat \ {0}, NEW t \in Nat
  PROVE  Settled(r, o, n, t) \in Row
<1>1. CASE o = "failed" /\ n < MaxAttempts
  <2> DEFINE d == IF Backoff[n] > t THEN Backoff[n] - t ELSE 0
  <2>1. Backoff[n] \in Nat
    BY <1>1, TimeAssumption, BoundsAssumption
  <2>2. d \in Nat
    BY <2>1
  <2>3. Settled(r, o, n, t) = [r EXCEPT !.status = "pending", !.age = 0, !.wait = d]
    BY <1>1 DEF Settled
  <2> HIDE DEF d
  <2>4. [r EXCEPT !.status = "pending", !.age = 0, !.wait = d] \in Row
    BY <2>2 DEF Row, Status, Undispatched
  <2> QED BY <2>3, <2>4
<1>2. CASE o = "sent"
  BY <1>2 DEF Settled, Row, Status, Final
<1>3. CASE o = "unknown"
  BY <1>3 DEF Settled, Row, Status
<1>4. CASE o = "none" \/ (o = "failed" /\ ~(n < MaxAttempts))
  <2>1. Settled(r, o, n, t) = [r EXCEPT !.status = "dead_letter", !.age = 0]
    BY <1>4 DEF Settled
  <2>2. [r EXCEPT !.status = "dead_letter", !.age = 0] \in Row
    BY DEF Row, Status, Final
  <2> QED BY <2>1, <2>2
<1> QED BY <1>1, <1>2, <1>3, <1>4 DEF Outcomes

LEMMA BeginPassType ==
  ASSUME TypeOK, NEW w \in Workers, NEW scope \in SUBSET Keys, BeginPass(w, scope)
  PROVE  TypeOK'
<1>1. row' \in [Keys -> Row]
  <2> SUFFICES ASSUME NEW k \in Keys PROVE row'[k] \in Row
    BY DEF BeginPass, TypeOK
  <2>1. [row[k] EXCEPT !.status = "reconciliation_required", !.age = 0] \in Row
    BY RowFields DEF Row, Status
  <2> QED BY <2>1, RowFields DEF BeginPass, Reclaimed
<1>2. worker' \in [Workers -> WorkerState]
  <2> DEFINE todo == { [key |-> k, attempts |-> row[k].attempts, revoked |-> row[k].revoked] :
                         k \in {d \in scope : Due(d)} }
  <2>1. todo \in SUBSET Snapshot
    BY RowFields DEF Snapshot
  <2>2. CASE todo = {}
    BY <2>2 DEF BeginPass, TypeOK
  <2>3. CASE todo # {}
    <3> DEFINE next == [worker[w] EXCEPT !.pc = "row", !.todo = todo]
    <3>1. SetWorker(w, next)
      BY <2>3 DEF BeginPass
    <3> HIDE DEF todo
    <3>2. next \in WorkerState
      BY <2>1, WorkerFields DEF WorkerState, PC
    <3> QED BY <3>1, <3>2, SetWorkerType
  <2> QED BY <2>2, <2>3
<1> QED BY <1>1, <1>2 DEF BeginPass, TypeOK

-----------------------------------------------------------------------------
(* A worker in an attempt has counted it.                                  *)
TriesPositive == \A w \in Workers : InAttempt(w) => worker[w].tries # 0

LEMMA TypeInit == Init => TypeOK /\ TriesPositive
BY IdleWorkerType, AbsentRowType, BoundsAssumption
   DEF Init, TypeOK, TriesPositive, InAttempt, IdleWorker

LEMMA CheckAuthorityType ==
  ASSUME TypeOK, NEW w \in Workers, CheckAuthority(w)
  PROVE  TypeOK'
<1>1. PICK s \in worker[w].todo :
        LET k == s.key
            rest == worker[w].todo \ {s}
        IN  IF PermitCurrent(k, s.revoked) /\ DispatchCurrent(k)
            THEN /\ SetWorker(w, [worker[w] EXCEPT !.pc = "checked", !.todo = rest,
                                    !.key = k, !.tries = s.attempts,
                                    !.revoked = s.revoked])
                 /\ UNCHANGED row
            ELSE /\ IF row[k].status \in Undispatched
                    THEN SetRow(k, [row[k] EXCEPT !.status = "blocked_authority"])
                    ELSE UNCHANGED row
                 /\ SetWorker(w, IF rest = {} THEN IdleWorker
                                 ELSE [worker[w] EXCEPT !.todo = rest])
  BY DEF CheckAuthority
<1> DEFINE k == s.key
           rest == worker[w].todo \ {s}
<1>2. s \in Snapshot /\ k \in Keys /\ s.attempts \in Nat /\ s.revoked \in BOOLEAN
  BY WorkerFields DEF Snapshot
<1>3. rest \in SUBSET Snapshot
  BY WorkerFields
<1> HIDE DEF rest
<1>4. [worker[w] EXCEPT !.pc = "checked", !.todo = rest, !.key = k,
                        !.tries = s.attempts, !.revoked = s.revoked] \in WorkerState
  BY <1>2, <1>3, WorkerFields DEF WorkerState, PC
<1>5. [worker[w] EXCEPT !.todo = rest] \in WorkerState
  BY <1>3, WorkerFields DEF WorkerState
<1>6. [row[k] EXCEPT !.status = "blocked_authority"] \in Row
  BY <1>2, RowFields DEF Row, Status, Final
<1>7. worker' \in [Workers -> WorkerState]
  BY <1>1, <1>4, <1>5, IdleWorkerType, SetWorkerType DEF rest
<1>8. row' \in [Keys -> Row]
  BY <1>1, <1>2, <1>6, SetRowType DEF TypeOK
<1> QED BY <1>7, <1>8 DEF CheckAuthority, TypeOK

LEMMA ClaimedRowType ==
  ASSUME NEW r \in Row, NEW a \in Nat
  PROVE  [r EXCEPT !.status = "sending", !.attempts = @ + 1, !.age = a] \in Row
<1>1. r.attempts + 1 \in Nat
  BY DEF Row
<1>2. \A n \in Nat : [r EXCEPT !.status = "sending", !.attempts = n, !.age = a] \in Row
  BY DEF Row, Status
<1> QED BY <1>1, <1>2

LEMMA ClaimedWorkerType ==
  ASSUME NEW s \in WorkerState
  PROVE  [s EXCEPT !.pc = "claimed", !.tries = @ + 1] \in WorkerState
<1>1. s.tries + 1 \in Nat
  BY DEF WorkerState
<1>2. \A n \in Nat : [s EXCEPT !.pc = "claimed", !.tries = n] \in WorkerState
  BY DEF WorkerState, PC
<1> QED BY <1>1, <1>2

(* The steps of an attempt: each writes the worker, and at most its row.    *)
LEMMA AttemptStepType ==
  ASSUME TypeOK, TriesPositive, HoldsRow, NEW w \in Workers,
         \/ Claim(w) \/ SkipClaim(w) \/ ScanAllows(w) \/ ScanBlocks(w)
         \/ Recheck(w) \/ Transmit(w) \/ Settle(w) \/ SkipSettle(w)
  PROVE  TypeOK'
<1> DEFINE k == worker[w].key
<1>1. k \in Keys
  BY DEF HoldsRow, InAttempt, At, Claim, SkipClaim, ScanAllows, ScanBlocks, Recheck,
         Transmit, Settle, SkipSettle
<1>2. \A p \in PC : [worker[w] EXCEPT !.pc = p] \in WorkerState
  BY WorkerFields DEF WorkerState
<1>3. \A st \in Status : [row[k] EXCEPT !.status = st, !.age = 0] \in Row
  BY <1>1, RowFields DEF Row
<1>4. CASE Claim(w)
  <2>1. [row[k] EXCEPT !.status = "sending", !.attempts = @ + 1,
                       !.age = worker[w].elapsed] \in Row
    BY <1>1, RowFields, WorkerFields, ClaimedRowType
  <2>2. [worker[w] EXCEPT !.pc = "claimed", !.tries = @ + 1] \in WorkerState
    BY WorkerFields, ClaimedWorkerType
  <2> QED BY <1>1, <1>4, <2>1, <2>2, SetRowType, SetWorkerType DEF Claim, TypeOK
<1>5. CASE SkipClaim(w) \/ SkipSettle(w)
  BY <1>5, NextRowType DEF SkipClaim, SkipSettle, TypeOK
<1>6. CASE ScanAllows(w)
  BY <1>6, <1>2, SetWorkerType DEF ScanAllows, TypeOK, PC
<1>7. CASE ScanBlocks(w)
  <2>1. row' \in [Keys -> Row]
    BY <1>1, <1>3, <1>7, SetRowType DEF ScanBlocks, Status, Final, TypeOK
  <2> QED BY <1>7, <2>1, NextRowType DEF ScanBlocks, TypeOK
<1>8. CASE Recheck(w)
  <2>1. row' \in [Keys -> Row]
    BY <1>1, <1>3, <1>8, SetRowType DEF Recheck, Status, Final, TypeOK
  <2>2. worker' \in [Workers -> WorkerState]
    BY <1>2, <1>8, NextRowType, SetWorkerType DEF Recheck, PC
  <2> QED BY <1>8, <2>1, <2>2 DEF Recheck, TypeOK
<1>9. CASE Transmit(w)
  <2>1. \A o \in Outcomes : [worker[w] EXCEPT !.pc = "answered", !.outcome = o] \in WorkerState
    BY WorkerFields DEF WorkerState, PC
  <2>2. worker' \in [Workers -> WorkerState]
    BY <1>9, <2>1, SetWorkerType DEF Transmit
  <2>3. delivered[k] + 1 \in Nat
    BY <1>1 DEF TypeOK
  <2>4. delivered' = delivered \/ delivered' = [delivered EXCEPT ![k] = delivered[k] + 1]
    BY <1>9 DEF Transmit
  <2>5. delivered' \in [Keys -> Nat]
    BY <1>1, <2>3, <2>4 DEF TypeOK
  <2> QED BY <1>9, <2>2, <2>5 DEF Transmit, TypeOK
<1>10. CASE Settle(w)
  <2>1. Settled(row[k], worker[w].outcome, worker[w].tries, worker[w].elapsed) \in Row
    BY <1>1, <1>10, RowFields, WorkerFields, SettledType
       DEF Settle, At, TriesPositive, InAttempt
  <2>2. row' \in [Keys -> Row]
    BY <1>1, <1>10, <2>1, SetRowType DEF Settle
  <2> QED BY <1>10, <2>2, NextRowType DEF Settle, TypeOK
<1> QED BY <1>4, <1>5, <1>6, <1>7, <1>8, <1>9, <1>10

(* The other writers of rows: enqueue, the operator, the clock.             *)
LEMMA EnqueueType ==
  ASSUME TypeOK, NEW k \in Keys, NEW s \in Schedule, NEW person \in BOOLEAN,
         Enqueue(k, s, person)
  PROVE  TypeOK'
<1>1. s.status \in Status /\ s.wait \in Nat \cup {NoDate}
  BY BoundsAssumption DEF Schedule, Status, Undispatched, Final
<1>2. [AbsentRow EXCEPT !.status = s.status, !.wait = s.wait,
                        !.permit = PermitLife, !.person = person] \in Row
  BY <1>1, AbsentRowType, BoundsAssumption DEF Row
<1> QED BY <1>2, SetRowType DEF Enqueue, TypeOK

LEMMA OperatorType ==
  ASSUME TypeOK, NEW k \in Keys,
         \/ RevokePermit(k)
         \/ RecordAck(k)
         \/ \E outcome \in {"submitted", "not_delivered"} : Resolve(k, outcome)
  PROVE  TypeOK'
<1>1. [row[k] EXCEPT !.status = "blocked_authority", !.revoked = TRUE] \in Row
  BY RowFields DEF Row, Status, Final
<1>2. [row[k] EXCEPT !.acked = TRUE] \in Row
  BY RowFields DEF Row
<1>3. \A st \in Status : [row[k] EXCEPT !.status = st] \in Row
  BY RowFields DEF Row
<1>4. CASE RevokePermit(k)
  BY <1>1, <1>4, SetRowType DEF RevokePermit, TypeOK
<1>5. CASE RecordAck(k)
  BY <1>2, <1>5, SetRowType DEF RecordAck, TypeOK
<1>6. ASSUME NEW outcome \in {"submitted", "not_delivered"}, Resolve(k, outcome)
      PROVE  TypeOK'
  <2>1. row' \in [Keys -> Row]
    BY <1>3, <1>6, SetRowType DEF Resolve, Resolution, Status, Final
  <2>2. observed' \in [Keys -> {"none", "submitted", "not_delivered"}]
    BY <1>6 DEF Resolve, TypeOK
  <2> QED BY <1>6, <2>1, <2>2 DEF Resolve, TypeOK
<1> QED BY <1>4, <1>5, <1>6

Grant == [state : {"none", "active", "revoked"}, life : Nat, standing : BOOLEAN]

LEMMA GrantType ==
  ASSUME TypeOK, NEW k \in Keys,
         \/ \E life \in 1..GrantLife : IssueApproval(k, life)
         \/ RevokeApproval(k)
         \/ ChangeStanding(k)
  PROVE  TypeOK'
<1>1. grant \in [Keys -> Grant]
  BY DEF TypeOK, Grant
<1>2. grant' \in [Keys -> Grant]
  <2>1. \A life \in Nat : [grant[k] EXCEPT !.state = "active", !.life = life] \in Grant
    BY <1>1 DEF Grant
  <2>2. CASE \E life \in 1..GrantLife : IssueApproval(k, life)
    <3>1. PICK life \in 1..GrantLife : IssueApproval(k, life)
      BY <2>2
    <3>2. life \in Nat
      BY BoundsAssumption
    <3>3. grant' = [grant EXCEPT ![k] = [grant[k] EXCEPT !.state = "active", !.life = life]]
      BY <3>1 DEF IssueApproval
    <3> QED BY <1>1, <2>1, <3>2, <3>3
  <2>3. CASE RevokeApproval(k)
    <3>1. [grant[k] EXCEPT !.state = "revoked"] \in Grant
      BY <1>1 DEF Grant
    <3> QED BY <1>1, <2>3, <3>1 DEF RevokeApproval
  <2>4. CASE ChangeStanding(k)
    <3>1. [grant[k] EXCEPT !.standing = ~@] \in Grant
      BY <1>1 DEF Grant
    <3> QED BY <1>1, <2>4, <3>1 DEF ChangeStanding
  <2> QED BY <2>2, <2>3, <2>4
<1> QED BY <1>2 DEF IssueApproval, RevokeApproval, ChangeStanding, TypeOK, Grant

LEMMA TickType == ASSUME TypeOK, Tick PROVE TypeOK'
<1>1. \A n \in Nat : Less(n) \in Nat /\ More(n) \in Nat
  BY TimeAssumption DEF Less, More
<1>2. ASSUME NEW k \in Keys PROVE row'[k] \in Row
  <2> DEFINE a == IF row[k].wait = NoDate THEN NoDate ELSE Less(row[k].wait)
             c == IF row[k].status = "sending" THEN More(row[k].age) ELSE row[k].age
             b == Less(row[k].permit)
  <2>1. a \in Nat \cup {NoDate} /\ b \in Nat /\ c \in Nat
    BY <1>1, RowFields
  <2>2. row'[k] = [row[k] EXCEPT !.wait = a, !.permit = b, !.age = c]
    BY DEF Tick
  <2> HIDE DEF a, b, c
  <2>3. [row[k] EXCEPT !.wait = a, !.permit = b, !.age = c] \in Row
    BY <2>1, RowFields DEF Row
  <2> QED BY <2>2, <2>3
<1>3. ASSUME NEW k \in Keys PROVE grant'[k] \in Grant
  <2>1. grant[k] \in Grant /\ Less(grant[k].life) \in Nat
    BY <1>1 DEF TypeOK, Grant
  <2> QED BY <2>1 DEF Tick, Grant
<1>4. ASSUME NEW w \in Workers PROVE worker'[w] \in WorkerState
  <2> DEFINE n == IF worker[w].pc = "idle" THEN worker[w].elapsed ELSE More(worker[w].elapsed)
  <2>1. n \in Nat
    BY <1>1, WorkerFields
  <2>2. worker'[w] = [worker[w] EXCEPT !.elapsed = n]
    BY DEF Tick
  <2> HIDE DEF n
  <2>3. [worker[w] EXCEPT !.elapsed = n] \in WorkerState
    BY <2>1, WorkerFields DEF WorkerState
  <2> QED BY <2>2, <2>3
<1>5. row' \in [Keys -> Row] /\ grant' \in [Keys -> Grant] /\ worker' \in [Workers -> WorkerState]
  BY <1>2, <1>3, <1>4 DEF Tick
<1> QED BY <1>5 DEF Tick, TypeOK, Grant

-----------------------------------------------------------------------------
(* A worker in an attempt holds a row and has counted the attempt.          *)
Holds(s) ==
  /\ s.pc \in {"checked", "claimed", "scanned", "cleared", "answered"} => s.key \in Keys
  /\ s.pc \in {"claimed", "scanned", "cleared", "answered"} => s.tries # 0

AllHold == \A w \in Workers : Holds(worker[w])

LEMMA AllHoldMeans == AllHold <=> HoldsRow /\ TriesPositive
BY DEF AllHold, Holds, HoldsRow, TriesPositive, InAttempt, At

LEMMA SetWorkerHolds ==
  ASSUME TypeOK, AllHold, NEW w \in Workers, NEW s, Holds(s), SetWorker(w, s)
  PROVE  AllHold'
BY DEF TypeOK, AllHold, SetWorker, Holds

LEMMA IdleHolds == Holds(IdleWorker)
BY DEF Holds, IdleWorker

LEMMA NextRowHolds ==
  ASSUME TypeOK, AllHold, NEW w \in Workers, NextRow(w)
  PROVE  AllHold'
<1>1. Holds(Next1(w))
  BY WorkerFields DEF Holds, Next1, WorkerState
<1> QED BY <1>1, IdleHolds, NextRowWrites, SetWorkerHolds

(* A worker that only moves on within its attempt still holds its row.      *)
LEMMA MoveHolds ==
  ASSUME TypeOK, AllHold, NEW w \in Workers,
         worker[w].pc \in {"claimed", "scanned", "cleared"},
         NEW p \in {"scanned", "cleared", "answered"}, NEW o \in Outcomes,
         \/ SetWorker(w, [worker[w] EXCEPT !.pc = p])
         \/ SetWorker(w, [worker[w] EXCEPT !.pc = p, !.outcome = o])
  PROVE  AllHold'
<1>1. Holds(worker[w]) /\ worker[w].key \in Keys /\ worker[w].tries # 0
  BY DEF AllHold, Holds
<1>2. Holds([worker[w] EXCEPT !.pc = p])
  BY <1>1, WorkerFields DEF Holds, WorkerState
<1>3. Holds([worker[w] EXCEPT !.pc = p, !.outcome = o])
  BY <1>1, WorkerFields DEF Holds, WorkerState
<1> QED BY <1>2, <1>3, SetWorkerHolds

LEMMA BeginPassHolds ==
  ASSUME TypeOK, AllHold, NEW w \in Workers, NEW scope \in SUBSET Keys, BeginPass(w, scope)
  PROVE  AllHold'
<1> DEFINE todo == { [key |-> k, attempts |-> row[k].attempts, revoked |-> row[k].revoked] :
                       k \in {d \in scope : Due(d)} }
<1>1. UNCHANGED worker \/ SetWorker(w, [worker[w] EXCEPT !.pc = "row", !.todo = todo])
  BY DEF BeginPass
<1> HIDE DEF todo
<1>2. Holds([worker[w] EXCEPT !.pc = "row", !.todo = todo])
  BY WorkerFields DEF Holds, WorkerState
<1> QED BY <1>1, <1>2, SetWorkerHolds DEF AllHold

LEMMA CheckAuthorityHolds ==
  ASSUME TypeOK, AllHold, NEW w \in Workers, CheckAuthority(w)
  PROVE  AllHold'
<1>1. PICK s \in worker[w].todo :
        LET rest == worker[w].todo \ {s}
        IN  \/ SetWorker(w, [worker[w] EXCEPT !.pc = "checked", !.todo = rest,
                               !.key = s.key, !.tries = s.attempts,
                               !.revoked = s.revoked])
            \/ SetWorker(w, IdleWorker)
            \/ SetWorker(w, [worker[w] EXCEPT !.todo = rest])
  BY DEF CheckAuthority
<1> DEFINE rest == worker[w].todo \ {s}
<1>2. s.key \in Keys
  BY WorkerFields DEF Snapshot
<1> HIDE DEF rest
<1>3. Holds([worker[w] EXCEPT !.pc = "checked", !.todo = rest, !.key = s.key,
                              !.tries = s.attempts, !.revoked = s.revoked])
  BY <1>2, WorkerFields DEF Holds, WorkerState
<1>4. Holds([worker[w] EXCEPT !.todo = rest])
  BY WorkerFields DEF AllHold, Holds, WorkerState
<1> QED BY <1>1, <1>3, <1>4, IdleHolds, SetWorkerHolds DEF rest

LEMMA ClaimHolds ==
  ASSUME TypeOK, AllHold, NEW w \in Workers, Claim(w)
  PROVE  AllHold'
<1> DEFINE n == worker[w].tries + 1
<1>1. worker[w].key \in Keys /\ n # 0
  BY WorkerFields DEF Claim, AllHold, Holds, At
<1>2. SetWorker(w, [worker[w] EXCEPT !.pc = "claimed", !.tries = n])
  BY DEF Claim
<1> HIDE DEF n
<1>3. Holds([worker[w] EXCEPT !.pc = "claimed", !.tries = n])
  BY <1>1, WorkerFields DEF Holds, WorkerState
<1> QED BY <1>2, <1>3, SetWorkerHolds

LEMMA TickHolds == ASSUME TypeOK, AllHold, Tick PROVE AllHold'
<1> SUFFICES ASSUME NEW w \in Workers PROVE Holds(worker'[w])
  BY DEF AllHold
<1>1. \A n : Holds([worker[w] EXCEPT !.elapsed = n])
  BY WorkerFields DEF AllHold, Holds, WorkerState
<1> QED BY <1>1 DEF Tick

-----------------------------------------------------------------------------
(* TypeOK with AllHold is inductive.                                       *)
TypeInv == TypeOK /\ AllHold

LEMMA TypeStep == TypeInv /\ [Next]_vars => TypeInv'
<1> SUFFICES ASSUME TypeOK, AllHold, [Next]_vars PROVE TypeOK' /\ AllHold'
  BY DEF TypeInv
<1> USE AllHoldMeans
<1>1. ASSUME NEW k \in Keys, NEW s \in Schedule, NEW person \in BOOLEAN, Enqueue(k, s, person)
      PROVE  TypeOK' /\ AllHold'
  BY <1>1, EnqueueType DEF Enqueue, AllHold
<1>2. ASSUME NEW w \in Workers, StartPass(w)
      PROVE  TypeOK' /\ AllHold'
  BY <1>2, BeginPassType, BeginPassHolds DEF StartPass
<1>3. ASSUME NEW w \in Workers, NEW k \in Keys, SendNow(w, k)
      PROVE  TypeOK' /\ AllHold'
  <2>1. {k} \in SUBSET Keys
    OBVIOUS
  <2> QED BY <1>3, <2>1, BeginPassType, BeginPassHolds DEF SendNow
<1>4. ASSUME NEW w \in Workers, WorkerStep(w)
      PROVE  TypeOK' /\ AllHold'
  <2>1. CASE CheckAuthority(w)
    BY <2>1, CheckAuthorityType, CheckAuthorityHolds
  <2>2. CASE Claim(w)
    BY <2>2, AttemptStepType, ClaimHolds
  <2>3. CASE SkipClaim(w) \/ ScanBlocks(w) \/ Settle(w) \/ SkipSettle(w)
    BY <2>3, AttemptStepType, NextRowHolds DEF SkipClaim, ScanBlocks, Settle, SkipSettle
  <2>4. CASE ScanAllows(w)
    <3>1. AllHold'
      BY <2>4, MoveHolds DEF ScanAllows, At, Outcomes
    <3> QED BY <2>4, <3>1, AttemptStepType
  <2>5. CASE Recheck(w)
    <3>1. AllHold'
      BY <2>5, MoveHolds, NextRowHolds DEF Recheck, At, Outcomes
    <3> QED BY <2>5, <3>1, AttemptStepType
  <2>6. CASE Transmit(w)
    <3>1. AllHold'
      BY <2>6, MoveHolds DEF Transmit, At
    <3> QED BY <2>6, <3>1, AttemptStepType
  <2> QED BY <1>4, <2>1, <2>2, <2>3, <2>4, <2>5, <2>6 DEF WorkerStep
<1>5. ASSUME NEW w \in Workers, Crash(w)
      PROVE  TypeOK' /\ AllHold'
  <2>1. AllHold' /\ worker' \in [Workers -> WorkerState]
    BY <1>5, IdleHolds, IdleWorkerType, SetWorkerHolds, SetWorkerType DEF Crash
  <2> QED BY <1>5, <2>1 DEF Crash, TypeOK
<1>6. ASSUME NEW k \in Keys,
             \/ RevokePermit(k)
             \/ RecordAck(k)
             \/ \E outcome \in {"submitted", "not_delivered"} : Resolve(k, outcome)
      PROVE  TypeOK' /\ AllHold'
  <2>1. TypeOK'
    BY <1>6, OperatorType
  <2> QED BY <1>6, <2>1 DEF RevokePermit, RecordAck, Resolve, AllHold
<1>7. ASSUME NEW k \in Keys,
             \/ \E life \in 1..GrantLife : IssueApproval(k, life)
             \/ RevokeApproval(k)
             \/ ChangeStanding(k)
      PROVE  TypeOK' /\ AllHold'
  <2>1. TypeOK'
    BY <1>7, GrantType
  <2> QED BY <1>7, <2>1 DEF IssueApproval, RevokeApproval, ChangeStanding, AllHold
<1>8. CASE Tick
  BY <1>8, TickType, TickHolds
<1>9. CASE UNCHANGED vars
  BY <1>9 DEF vars, TypeOK, AllHold
<1> QED BY <1>1, <1>2, <1>3, <1>4, <1>5, <1>6, <1>7, <1>8, <1>9, NamesAssumption DEF Next

(* Every table and every worker keeps its shape, for every set of messages *)
(* and workers.                                                            *)
THEOREM TypeCorrect == Spec => []TypeOK
<1>1. Init => TypeInv
  BY TypeInit, IdleHolds DEF TypeInv, AllHold, Init
<1> QED BY <1>1, TypeStep, PTL DEF Spec, TypeInv

-----------------------------------------------------------------------------
(* The fencing invariant.  Each step is first flattened to the fields that  *)
(* the invariant reads, then the invariant follows from those.             *)

LEMMA RowAfter ==
  ASSUME TypeOK, NEW k \in Keys, NEW r, SetRow(k, r)
  PROVE  row'[k] = r /\ \A j \in Keys : j # k => row'[j] = row[j]
BY DEF SetRow, TypeOK

LEMMA WorkerAfter ==
  ASSUME TypeOK, NEW w \in Workers, NEW s, SetWorker(w, s)
  PROVE  worker'[w] = s /\ \A v \in Workers : v # w => worker'[v] = worker[v]
BY DEF SetWorker, TypeOK

(* After NextRow the worker is in no attempt.                              *)
LEMMA NextRowAfter ==
  ASSUME TypeOK, NEW w \in Workers, NextRow(w)
  PROVE  /\ worker'[w].pc \in {"idle", "row"}
         /\ \A v \in Workers : v # w => worker'[v] = worker[v]
<1>1. IdleWorker.pc = "idle" /\ Next1(w).pc = "row"
  BY WorkerFields DEF IdleWorker, Next1, WorkerState
<1> QED BY <1>1, NextRowWrites, WorkerAfter

(* A write that moves row k to status st and touches nothing else that the  *)
(* invariant reads.                                                        *)
MovesRow(k, st) ==
  /\ row'[k].status = st /\ row'[k].attempts = row[k].attempts
  /\ row'[k].revoked = row[k].revoked
  /\ \A j \in Keys : j # k => row'[j] = row[j]

LEMMA StatusWrites ==
  ASSUME TypeOK, NEW k \in Keys, NEW st
  PROVE  /\ SetRow(k, [row[k] EXCEPT !.status = st]) => MovesRow(k, st)
         /\ SetRow(k, [row[k] EXCEPT !.status = st, !.age = 0]) => MovesRow(k, st)
<1>1. row[k] \in Row
  BY RowFields
<1>2. \A r \in Row : /\ [r EXCEPT !.status = st].status = st
                     /\ [r EXCEPT !.status = st].attempts = r.attempts
                     /\ [r EXCEPT !.status = st].revoked = r.revoked
                     /\ [r EXCEPT !.status = st, !.age = 0].status = st
                     /\ [r EXCEPT !.status = st, !.age = 0].attempts = r.attempts
                     /\ [r EXCEPT !.status = st, !.age = 0].revoked = r.revoked
  BY DEF Row
<1> DEFINE a == [row[k] EXCEPT !.status = st]
           b == [row[k] EXCEPT !.status = st, !.age = 0]
<1>3. /\ a.status = st /\ a.attempts = row[k].attempts /\ a.revoked = row[k].revoked
      /\ b.status = st /\ b.attempts = row[k].attempts /\ b.revoked = row[k].revoked
  BY <1>1, <1>2
<1> HIDE DEF a, b
<1>4. SetRow(k, a) => MovesRow(k, st)
  BY <1>3, RowAfter DEF MovesRow
<1>5. SetRow(k, b) => MovesRow(k, st)
  BY <1>3, RowAfter DEF MovesRow
<1> QED BY <1>4, <1>5 DEF a, b

LEMMA OperatorFence ==
  ASSUME TypeOK, FencingInv, NEW k \in Keys,
         \/ RevokePermit(k)
         \/ RecordAck(k)
         \/ \E outcome \in {"submitted", "not_delivered"} : Resolve(k, outcome)
  PROVE  FencingInv'
<1>0. row[k] \in Row
  BY RowFields
<1>1. CASE RevokePermit(k)
  <2> DEFINE r == [row[k] EXCEPT !.status = "blocked_authority", !.revoked = TRUE]
  <2>1. r.status = "blocked_authority" /\ r.attempts = row[k].attempts
    BY <1>0 DEF Row
  <2>2. row'[k] = r /\ \A j \in Keys : j # k => row'[j] = row[j]
    BY <1>1, RowAfter DEF RevokePermit
  <2> HIDE DEF r
  <2>3. UNCHANGED <<observed, worker, delivered>> /\ row[k].status \in Undispatched
    BY <1>1 DEF RevokePermit, Revocable
  <2> QED BY <2>1, <2>2, <2>3
      DEF FencingInv, HoldsRow, ObservedClosed, AttemptFenced, ExclusiveAttempt, OutcomeTrue,
          RecordedOutcomeTrue, AtMostOneDelivery, RevokedClosed, InAttempt, At, Undispatched
<1>2. CASE RecordAck(k)
  <2> DEFINE r == [row[k] EXCEPT !.acked = TRUE]
  <2>1. r.status = row[k].status /\ r.attempts = row[k].attempts /\ r.revoked = row[k].revoked
    BY <1>0 DEF Row
  <2>2. row'[k] = r /\ \A j \in Keys : j # k => row'[j] = row[j]
    BY <1>2, RowAfter DEF RecordAck
  <2> HIDE DEF r
  <2>3. UNCHANGED <<observed, worker, delivered>>
    BY <1>2 DEF RecordAck
  <2> QED BY <2>1, <2>2, <2>3
      DEF FencingInv, HoldsRow, ObservedClosed, AttemptFenced, ExclusiveAttempt, OutcomeTrue,
          RecordedOutcomeTrue, AtMostOneDelivery, RevokedClosed, InAttempt, At, Undispatched
<1>3. ASSUME NEW outcome \in {"submitted", "not_delivered"}, Resolve(k, outcome)
      PROVE  FencingInv'
  <2> DEFINE st == IF outcome = "submitted" THEN "sent" ELSE "resolved_not_delivered"
  <2>1. MovesRow(k, st)
    BY <1>3, StatusWrites DEF Resolve, Resolution
  <2>2. /\ UNCHANGED <<worker, delivered>>
        /\ row[k].status = "reconciliation_required"
        /\ observed'[k] = outcome
        /\ \A j \in Keys : j # k => observed'[j] = observed[j]
    BY <1>3 DEF Resolve, TypeOK
  <2>3. \/ outcome = "submitted" /\ st = "sent"
        \/ outcome = "not_delivered" /\ st = "resolved_not_delivered"
    OBVIOUS
  <2> HIDE DEF st
  <2>4. HoldsRow' /\ ExclusiveAttempt' /\ OutcomeTrue' /\ AtMostOneDelivery'
    BY <2>2 DEF FencingInv, HoldsRow, ExclusiveAttempt, OutcomeTrue, AtMostOneDelivery,
                InAttempt, At
  <2>5. ObservedClosed'
    BY <2>1, <2>2, <2>3 DEF MovesRow, FencingInv, ObservedClosed
  <2>6. AttemptFenced'
    BY <2>1, <2>2, <2>3 DEF MovesRow, FencingInv, AttemptFenced, HoldsRow, InAttempt, At
  <2>7. RecordedOutcomeTrue'
    BY <2>1, <2>2, <2>3 DEF MovesRow, FencingInv, RecordedOutcomeTrue, Undispatched
  <2>8. RevokedClosed'
    BY <2>1, <2>2, <2>3 DEF MovesRow, FencingInv, RevokedClosed
  <2> QED BY <2>4, <2>5, <2>6, <2>7, <2>8 DEF FencingInv
<1> QED BY <1>1, <1>2, <1>3

LEMMA EnqueueFence ==
  ASSUME TypeOK, FencingInv, NEW k \in Keys, NEW s \in Schedule, NEW person \in BOOLEAN,
         Enqueue(k, s, person)
  PROVE  FencingInv'
<1> DEFINE r == [AbsentRow EXCEPT !.status = s.status, !.wait = s.wait,
                                  !.permit = PermitLife, !.person = person]
<1>1. r.status \in Undispatched \cup {"held"} /\ ~r.revoked
  BY DEF AbsentRow, Schedule, Undispatched
<1>2. row'[k] = r /\ \A j \in Keys : j # k => row'[j] = row[j]
  BY RowAfter DEF Enqueue
<1> HIDE DEF r
<1>3. UNCHANGED <<observed, worker, delivered>> /\ row[k].status = "absent"
  BY DEF Enqueue
<1>4. observed[k] = "none"
  BY <1>3 DEF TypeOK, FencingInv, ObservedClosed
<1> QED BY <1>1, <1>2, <1>3, <1>4
  DEF FencingInv, HoldsRow, ObservedClosed, AttemptFenced, ExclusiveAttempt, OutcomeTrue,
          RecordedOutcomeTrue, AtMostOneDelivery, RevokedClosed, InAttempt, At, Undispatched

(* A pass starts: claims are quarantined, no attempt begins.               *)
LEMMA BeginPassFence ==
  ASSUME TypeOK, FencingInv, NEW w \in Workers, NEW scope \in SUBSET Keys, BeginPass(w, scope)
  PROVE  FencingInv'
<1> DEFINE todo == { [key |-> k, attempts |-> row[k].attempts, revoked |-> row[k].revoked] :
                       k \in {d \in scope : Due(d)} }
<1>1. /\ worker'[w].pc \in {"idle", "row"}
      /\ \A v \in Workers : v # w => worker'[v] = worker[v]
  <2>1. UNCHANGED worker \/ SetWorker(w, [worker[w] EXCEPT !.pc = "row", !.todo = todo])
    BY DEF BeginPass
  <2> HIDE DEF todo
  <2>2. [worker[w] EXCEPT !.pc = "row", !.todo = todo].pc = "row"
    BY WorkerFields DEF WorkerState
  <2>3. worker[w].pc = "idle"
    BY DEF BeginPass, At
  <2> QED BY <2>1, <2>2, <2>3, WorkerAfter
<1>2. ASSUME NEW k \in Keys
      PROVE  /\ row'[k].attempts = row[k].attempts /\ row'[k].revoked = row[k].revoked
             /\ \/ row'[k].status = row[k].status
                \/ row[k].status = "sending" /\ row'[k].status = "reconciliation_required"
  <2> DEFINE r == [row[k] EXCEPT !.status = "reconciliation_required", !.age = 0]
  <2>1. /\ r.status = "reconciliation_required" /\ r.attempts = row[k].attempts
        /\ r.revoked = row[k].revoked
    BY RowFields DEF Row
  <2>2. row'[k] = IF Stale(k) THEN r ELSE row[k]
    BY DEF BeginPass, Reclaimed
  <2> HIDE DEF r
  <2> QED BY <2>1, <2>2 DEF Stale
<1>3. UNCHANGED <<observed, delivered>>
  BY DEF BeginPass
<1> HIDE DEF todo
<1>4. HoldsRow' /\ ExclusiveAttempt' /\ OutcomeTrue' /\ AtMostOneDelivery'
  BY <1>1, <1>3 DEF FencingInv, HoldsRow, ExclusiveAttempt, OutcomeTrue, AtMostOneDelivery,
                    InAttempt, At
<1>5. AttemptFenced'
  BY <1>1, <1>2, <1>3 DEF FencingInv, AttemptFenced, HoldsRow, InAttempt, At
<1>6. ObservedClosed' /\ RecordedOutcomeTrue' /\ RevokedClosed'
  BY <1>2, <1>3 DEF FencingInv, ObservedClosed, RecordedOutcomeTrue, RevokedClosed, Undispatched
<1> QED BY <1>4, <1>5, <1>6 DEF FencingInv

(* Time changes nothing that the invariant reads.                          *)
LEMMA TickFence == ASSUME TypeOK, FencingInv, Tick PROVE FencingInv'
<1>1. ASSUME NEW k \in Keys
      PROVE  /\ row'[k].status = row[k].status /\ row'[k].attempts = row[k].attempts
             /\ row'[k].revoked = row[k].revoked
  <2>1. \A r \in Row : \A a, b, c :
           /\ [r EXCEPT !.wait = a, !.permit = b, !.age = c].status = r.status
           /\ [r EXCEPT !.wait = a, !.permit = b, !.age = c].attempts = r.attempts
           /\ [r EXCEPT !.wait = a, !.permit = b, !.age = c].revoked = r.revoked
    BY DEF Row
  <2>2. \E a, b, c : row'[k] = [row[k] EXCEPT !.wait = a, !.permit = b, !.age = c]
    BY DEF Tick
  <2> QED BY <2>1, <2>2, RowFields
<1>2. ASSUME NEW w \in Workers
      PROVE  /\ worker'[w].pc = worker[w].pc /\ worker'[w].key = worker[w].key
             /\ worker'[w].tries = worker[w].tries /\ worker'[w].outcome = worker[w].outcome
  <2>1. \A s \in WorkerState : \A n :
           /\ [s EXCEPT !.elapsed = n].pc = s.pc /\ [s EXCEPT !.elapsed = n].key = s.key
           /\ [s EXCEPT !.elapsed = n].tries = s.tries
           /\ [s EXCEPT !.elapsed = n].outcome = s.outcome
    BY DEF WorkerState
  <2>2. \E n : worker'[w] = [worker[w] EXCEPT !.elapsed = n]
    BY DEF Tick
  <2> QED BY <2>1, <2>2, WorkerFields
<1>3. UNCHANGED <<observed, delivered>>
  BY DEF Tick
<1>4. HoldsRow' /\ ExclusiveAttempt' /\ OutcomeTrue' /\ AtMostOneDelivery'
  BY <1>2, <1>3 DEF FencingInv, HoldsRow, ExclusiveAttempt, OutcomeTrue, AtMostOneDelivery,
                    InAttempt, At
<1>5. AttemptFenced'
  BY <1>1, <1>2, <1>3 DEF FencingInv, AttemptFenced, HoldsRow, InAttempt, At
<1>6. ObservedClosed' /\ RecordedOutcomeTrue' /\ RevokedClosed'
  BY <1>1, <1>3 DEF FencingInv, ObservedClosed, RecordedOutcomeTrue, RevokedClosed, Undispatched
<1> QED BY <1>4, <1>5, <1>6 DEF FencingInv

(* A worker leaves its row, or dies, without writing it.                   *)
LEMMA LeaveFence ==
  ASSUME TypeOK, FencingInv, NEW w \in Workers,
         worker'[w].pc \in {"idle", "row"},
         \A v \in Workers : v # w => worker'[v] = worker[v],
         UNCHANGED <<row, observed, delivered>>
  PROVE  FencingInv'
BY  DEF FencingInv, HoldsRow, ObservedClosed, AttemptFenced, ExclusiveAttempt, OutcomeTrue,
      RecordedOutcomeTrue, AtMostOneDelivery, RevokedClosed, InAttempt, At, Undispatched

LEMMA CheckAuthorityFence ==
  ASSUME TypeOK, FencingInv, NEW w \in Workers, CheckAuthority(w)
  PROVE  FencingInv'
<1>1. PICK s \in worker[w].todo :
        LET rest == worker[w].todo \ {s}
        IN  \/ /\ SetWorker(w, [worker[w] EXCEPT !.pc = "checked", !.todo = rest,
                                  !.key = s.key, !.tries = s.attempts,
                                  !.revoked = s.revoked])
               /\ UNCHANGED row
            \/ /\ \/ /\ row[s.key].status \in Undispatched
                     /\ SetRow(s.key, [row[s.key] EXCEPT !.status = "blocked_authority"])
                  \/ UNCHANGED row
               /\ \/ SetWorker(w, IdleWorker)
                  \/ SetWorker(w, [worker[w] EXCEPT !.todo = rest])
  BY DEF CheckAuthority
<1> DEFINE k == s.key
           rest == worker[w].todo \ {s}
<1>2. k \in Keys
  BY WorkerFields DEF Snapshot
<1>3. UNCHANGED <<observed, delivered>> /\ worker[w].pc = "row"
  BY DEF CheckAuthority, At
<1> HIDE DEF rest
<1>4. CASE /\ SetWorker(w, [worker[w] EXCEPT !.pc = "checked", !.todo = rest, !.key = k,
                              !.tries = s.attempts, !.revoked = s.revoked])
           /\ UNCHANGED row
  <2> DEFINE c == [worker[w] EXCEPT !.pc = "checked", !.todo = rest, !.key = k,
                                    !.tries = s.attempts, !.revoked = s.revoked]
  <2>1. c.pc = "checked" /\ c.key = k
    BY WorkerFields DEF WorkerState
  <2>2. worker'[w] = c /\ \A v \in Workers : v # w => worker'[v] = worker[v]
    BY <1>4, WorkerAfter
  <2> HIDE DEF c
  <2> QED BY <1>2, <1>3, <1>4, <2>1, <2>2
    DEF FencingInv, HoldsRow, ObservedClosed, AttemptFenced, ExclusiveAttempt, OutcomeTrue,
      RecordedOutcomeTrue, AtMostOneDelivery, RevokedClosed, InAttempt, At, Undispatched
<1>5. CASE SetWorker(w, IdleWorker) \/ SetWorker(w, [worker[w] EXCEPT !.todo = rest])
  <2>1. IdleWorker.pc = "idle" /\ [worker[w] EXCEPT !.todo = rest].pc = "row"
    BY <1>3, WorkerFields DEF IdleWorker, WorkerState
  <2>2. /\ worker'[w].pc \in {"idle", "row"}
        /\ \A v \in Workers : v # w => worker'[v] = worker[v]
    BY <1>5, <2>1, WorkerAfter
  <2>3. CASE UNCHANGED row
    BY <1>3, <2>2, <2>3, LeaveFence
  <2>4. CASE /\ row[k].status \in Undispatched
             /\ SetRow(k, [row[k] EXCEPT !.status = "blocked_authority"])
    <3>1. MovesRow(k, "blocked_authority")
      BY <1>2, <2>4, StatusWrites
    <3> QED BY <1>2, <1>3, <2>2, <2>4, <3>1
      DEF MovesRow, FencingInv, HoldsRow, ObservedClosed, AttemptFenced, ExclusiveAttempt, OutcomeTrue,
      RecordedOutcomeTrue, AtMostOneDelivery, RevokedClosed, InAttempt, At, Undispatched
  <2> QED BY <1>1, <1>4, <2>3, <2>4 DEF rest
<1> QED BY <1>1, <1>4, <1>5 DEF rest

(* The claim is the only step that begins an attempt; nobody can be in one  *)
(* of that row already, for the row is undispatched.                       *)
LEMMA ClaimFence ==
  ASSUME TypeOK, AllHold, FencingInv, NEW w \in Workers, Claim(w)
  PROVE  FencingInv'
<1> DEFINE k == worker[w].key
           r == [row[k] EXCEPT !.status = "sending", !.attempts = @ + 1,
                               !.age = worker[w].elapsed]
           s == [worker[w] EXCEPT !.pc = "claimed", !.tries = @ + 1]
<1>1. /\ k \in Keys /\ row[k].status \in Undispatched /\ ~row[k].revoked
      /\ row[k].attempts = worker[w].tries
      /\ UNCHANGED <<observed, delivered>>
  BY DEF Claim, Claimable, AllHold, Holds, At
<1>2. /\ r.status = "sending" /\ r.attempts = row[k].attempts + 1
      /\ r.revoked = row[k].revoked
  BY <1>1, RowFields DEF Row
<1>3. s.pc = "claimed" /\ s.key = k /\ s.tries = worker[w].tries + 1
  BY WorkerFields DEF WorkerState
<1>4. row'[k] = r /\ \A j \in Keys : j # k => row'[j] = row[j]
  BY <1>1, RowAfter DEF Claim
<1>5. worker'[w] = s /\ \A v \in Workers : v # w => worker'[v] = worker[v]
  BY WorkerAfter DEF Claim
<1>6. observed[k] = "none" /\ delivered[k] = 0
  BY <1>1 DEF TypeOK, FencingInv, ObservedClosed, RecordedOutcomeTrue, Undispatched
<1>7. \A v \in Workers : InAttempt(v) => worker[v].key # k
  BY <1>1, <1>6 DEF FencingInv, AttemptFenced, Undispatched
<1> HIDE DEF r, s
<1>8. \A v \in Workers : v # w /\ InAttempt(v)' => worker'[v].key # k /\ InAttempt(v)
  BY <1>5, <1>7 DEF InAttempt
<1>9. HoldsRow'
  BY <1>1, <1>3, <1>5 DEF FencingInv, HoldsRow, InAttempt, At
<1>10. AttemptFenced'
  BY <1>1, <1>2, <1>3, <1>4, <1>5, <1>8
     DEF FencingInv, HoldsRow, AttemptFenced, InAttempt, At
<1>11. ExclusiveAttempt'
  BY <1>3, <1>5, <1>8 DEF FencingInv, ExclusiveAttempt
<1>12. OutcomeTrue'
  BY <1>1, <1>3, <1>5, <1>6 DEF FencingInv, OutcomeTrue, At
<1>13. /\ ObservedClosed' /\ RecordedOutcomeTrue' /\ AtMostOneDelivery' /\ RevokedClosed'
  BY <1>1, <1>2, <1>4, <1>6
     DEF FencingInv, ObservedClosed, RecordedOutcomeTrue, AtMostOneDelivery, RevokedClosed,
         Undispatched
<1> QED BY <1>9, <1>10, <1>11, <1>12, <1>13 DEF FencingInv

(* The worker goes on within its attempt, the tables unchanged.            *)
LEMMA MoveFence ==
  ASSUME TypeOK, FencingInv, NEW w \in Workers, NEW p \in {"scanned", "cleared"},
         worker[w].pc \in {"claimed", "scanned"},
         SetWorker(w, [worker[w] EXCEPT !.pc = p]),
         UNCHANGED <<row, observed, delivered>>
  PROVE  FencingInv'
<1> DEFINE s == [worker[w] EXCEPT !.pc = p]
<1>1. s.pc = p /\ s.key = worker[w].key /\ s.tries = worker[w].tries
  BY WorkerFields DEF WorkerState
<1>2. worker'[w] = s /\ \A v \in Workers : v # w => worker'[v] = worker[v]
  BY WorkerAfter
<1> HIDE DEF s
<1> QED BY <1>1, <1>2
  DEF FencingInv, HoldsRow, ObservedClosed, AttemptFenced, ExclusiveAttempt, OutcomeTrue,
      RecordedOutcomeTrue, AtMostOneDelivery, RevokedClosed, InAttempt, At, Undispatched

(* The provider answers.  Nobody delivered the message before.             *)
LEMMA TransmitFence ==
  ASSUME TypeOK, AllHold, FencingInv, NEW w \in Workers, Transmit(w)
  PROVE  FencingInv'
<1> DEFINE k == worker[w].key
<1>1. PICK outcome \in Outcomes \ {"none"}, accepted \in BOOLEAN :
        /\ outcome = "sent" => accepted
        /\ outcome = "failed" => ~accepted
        /\ SetWorker(w, [worker[w] EXCEPT !.pc = "answered", !.outcome = outcome])
        /\ delivered' = IF accepted THEN [delivered EXCEPT ![k] = @ + 1] ELSE delivered
  BY DEF Transmit
<1>2. k \in Keys /\ delivered[k] = 0 /\ worker[w].pc = "cleared" /\ UNCHANGED <<row, observed>>
  BY DEF Transmit, AllHold, Holds, At, FencingInv, OutcomeTrue
<1> DEFINE s == [worker[w] EXCEPT !.pc = "answered", !.outcome = outcome]
<1>3. s.pc = "answered" /\ s.key = k /\ s.tries = worker[w].tries /\ s.outcome = outcome
  BY WorkerFields DEF WorkerState
<1>4. worker'[w] = s /\ \A v \in Workers : v # w => worker'[v] = worker[v]
  BY <1>1, WorkerAfter
<1> HIDE DEF s
<1>5. /\ delivered'[k] = IF accepted THEN 1 ELSE 0
      /\ \A j \in Keys : j # k => delivered'[j] = delivered[j]
  BY <1>1, <1>2 DEF TypeOK
<1>6. \A v \in Workers : v # w /\ InAttempt(v) => worker[v].key # k
  BY <1>2 DEF FencingInv, ExclusiveAttempt, InAttempt
<1>7. HoldsRow' /\ AttemptFenced' /\ ExclusiveAttempt'
  BY <1>2, <1>3, <1>4 DEF FencingInv, HoldsRow, AttemptFenced, ExclusiveAttempt, InAttempt, At
<1>8. OutcomeTrue'
  <2> SUFFICES ASSUME NEW v \in Workers, InAttempt(v)'
               PROVE  LET j == worker'[v].key
                      IN  /\ worker'[v].pc \in {"claimed", "scanned", "cleared"} => delivered'[j] = 0
                          /\ worker'[v].pc = "answered" =>
                               /\ worker'[v].outcome # "none"
                               /\ worker'[v].outcome = "sent" => delivered'[j] = 1
                               /\ worker'[v].outcome = "failed" => delivered'[j] = 0
    BY DEF OutcomeTrue, InAttempt, At
  <2>1. CASE v = w
    BY <1>1, <1>3, <1>4, <1>5, <2>1
  <2>2. CASE v # w
    <3>1. worker'[v] = worker[v] /\ InAttempt(v) /\ worker[v].key \in Keys /\ worker[v].key # k
      BY <1>4, <1>6, <2>2 DEF InAttempt, FencingInv, HoldsRow
    <3> QED BY <1>5, <3>1 DEF FencingInv, OutcomeTrue, At, InAttempt
  <2> QED BY <2>1, <2>2
<1>9. row[k].status \in {"sending", "reconciliation_required"} \/ observed[k] # "none"
  BY <1>2 DEF FencingInv, AttemptFenced, InAttempt
<1>10. \/ row[k].status \in {"sending", "reconciliation_required", "resolved_not_delivered"}
       \/ observed[k] = "submitted" /\ row[k].status = "sent"
  <2>1. observed[k] \in {"none", "submitted", "not_delivered"}
    BY <1>2 DEF TypeOK
  <2> QED BY <1>2, <1>9, <2>1 DEF FencingInv, ObservedClosed
<1>11. RecordedOutcomeTrue' /\ AtMostOneDelivery'
  BY <1>2, <1>5, <1>10 DEF FencingInv, RecordedOutcomeTrue, AtMostOneDelivery, Undispatched
<1>12. ObservedClosed' /\ RevokedClosed'
  BY <1>2 DEF FencingInv, ObservedClosed, RevokedClosed
<1> QED BY <1>7, <1>8, <1>11, <1>12 DEF FencingInv

(* A worker writes the row of its own attempt and leaves it.               *)
LEMMA CloseFence ==
  ASSUME TypeOK, AllHold, FencingInv, NEW w \in Workers, Owns(w), InAttempt(w),
         NEW st \in {"sent", "pending", "dead_letter", "reconciliation_required",
                     "blocked_content", "blocked_authority"},
         MovesRow(worker[w].key, st),
         NextRow(w), UNCHANGED <<observed, delivered>>,
         LET d == delivered[worker[w].key]
         IN  /\ st \in {"pending", "dead_letter", "blocked_content", "blocked_authority"} => d = 0
             /\ st = "sent" => d = 1
  PROVE  FencingInv'
<1> DEFINE k == worker[w].key
<1>1. k \in Keys /\ row[k].status = "sending" /\ ~row[k].revoked /\ observed[k] = "none"
  BY DEF AllHold, Holds, InAttempt, Owns, FencingInv, ObservedClosed, RevokedClosed, TypeOK
<1>2. /\ worker'[w].pc \in {"idle", "row"}
      /\ \A v \in Workers : v # w => worker'[v] = worker[v]
  BY NextRowAfter
<1>3. \A v \in Workers : v # w /\ InAttempt(v) => worker[v].key # k
  BY DEF FencingInv, ExclusiveAttempt
<1>4. HoldsRow' /\ ExclusiveAttempt' /\ OutcomeTrue' /\ AtMostOneDelivery'
  BY <1>2 DEF FencingInv, HoldsRow, ExclusiveAttempt, OutcomeTrue, AtMostOneDelivery,
              InAttempt, At
<1>5. AttemptFenced'
  BY <1>1, <1>2, <1>3 DEF MovesRow, FencingInv, AttemptFenced, HoldsRow, InAttempt, At
<1>6. ObservedClosed' /\ RecordedOutcomeTrue' /\ RevokedClosed'
  BY <1>1 DEF MovesRow, FencingInv, ObservedClosed, RecordedOutcomeTrue, RevokedClosed, Undispatched
<1> QED BY <1>4, <1>5, <1>6 DEF FencingInv

LEMMA SettleFence ==
  ASSUME TypeOK, AllHold, FencingInv, NEW w \in Workers, Settle(w)
  PROVE  FencingInv'
<1> DEFINE k == worker[w].key
           r == Settled(row[k], worker[w].outcome, worker[w].tries, worker[w].elapsed)
<1>1. k \in Keys /\ InAttempt(w) /\ worker[w].pc = "answered" /\ row[k] \in Row
  BY RowFields DEF Settle, AllHold, Holds, InAttempt, At
<1>2. SetRow(k, r)
  BY DEF Settle
<1>3. /\ worker[w].outcome \in {"sent", "failed", "unknown"}
      /\ worker[w].outcome = "sent" => delivered[k] = 1
      /\ worker[w].outcome = "failed" => delivered[k] = 0
  BY <1>1, WorkerFields DEF FencingInv, OutcomeTrue, At, Outcomes
<1>4. \E st \in {"sent", "pending", "dead_letter", "reconciliation_required"} :
        /\ r.status = st /\ r.attempts = row[k].attempts /\ r.revoked = row[k].revoked
        /\ st \in {"pending", "dead_letter"} => worker[w].outcome = "failed"
        /\ st = "sent" => worker[w].outcome = "sent"
  BY <1>1, <1>3 DEF Settled, Row
<1> HIDE DEF r
<1>5. PICK st \in {"sent", "pending", "dead_letter", "reconciliation_required"} :
        /\ MovesRow(k, st)
        /\ st \in {"pending", "dead_letter"} => worker[w].outcome = "failed"
        /\ st = "sent" => worker[w].outcome = "sent"
  BY <1>1, <1>2, <1>4, RowAfter DEF MovesRow
<1>6. Owns(w) /\ NextRow(w) /\ UNCHANGED <<observed, delivered>>
  BY DEF Settle
<1> QED BY <1>1, <1>3, <1>5, <1>6, CloseFence

LEMMA WorkerStepFence ==
  ASSUME TypeOK, AllHold, FencingInv, NEW w \in Workers, WorkerStep(w)
  PROVE  FencingInv'
<1> DEFINE k == worker[w].key
<1>1. CASE SkipClaim(w) \/ SkipSettle(w)
  BY <1>1, NextRowAfter, LeaveFence DEF SkipClaim, SkipSettle
<1>2. CASE ScanAllows(w)
  BY <1>2, MoveFence DEF ScanAllows, At
<1>3. CASE ScanBlocks(w)
  <2>1. CASE Owns(w) /\ SetRow(k, [row[k] EXCEPT !.status = "blocked_content", !.age = 0])
    <3>1. k \in Keys /\ InAttempt(w) /\ delivered[k] = 0
      BY <1>3 DEF ScanBlocks, AllHold, Holds, InAttempt, At, FencingInv, OutcomeTrue
    <3>2. MovesRow(k, "blocked_content")
      BY <2>1, <3>1, StatusWrites
    <3> QED BY <1>3, <2>1, <3>1, <3>2, CloseFence DEF ScanBlocks
  <2>2. CASE UNCHANGED row
    BY <1>3, <2>2, NextRowAfter, LeaveFence DEF ScanBlocks
  <2> QED BY <1>3, <2>1, <2>2 DEF ScanBlocks
<1>4. CASE Recheck(w)
  <2>1. CASE NextRow(w) /\ UNCHANGED row
    BY <1>4, <2>1, NextRowAfter, LeaveFence DEF Recheck
  <2>2. CASE /\ Owns(w) /\ NextRow(w)
             /\ SetRow(k, [row[k] EXCEPT !.status = "blocked_authority", !.age = 0])
    <3>1. k \in Keys /\ InAttempt(w) /\ delivered[k] = 0
      BY <1>4 DEF Recheck, AllHold, Holds, InAttempt, At, FencingInv, OutcomeTrue
    <3>2. MovesRow(k, "blocked_authority")
      BY <2>2, <3>1, StatusWrites
    <3> QED BY <1>4, <2>2, <3>1, <3>2, CloseFence DEF Recheck
  <2>3. CASE SetWorker(w, [worker[w] EXCEPT !.pc = "cleared"]) /\ UNCHANGED row
    BY <1>4, <2>3, MoveFence DEF Recheck, At
  <2> QED BY <1>4, <2>1, <2>2, <2>3 DEF Recheck
<1> QED BY <1>1, <1>2, <1>3, <1>4, CheckAuthorityFence, ClaimFence, TransmitFence, SettleFence
        DEF WorkerStep

LEMMA CrashFence ==
  ASSUME TypeOK, FencingInv, NEW w \in Workers, Crash(w)
  PROVE  FencingInv'
<1>1. IdleWorker.pc = "idle"
  BY DEF IdleWorker
<1>2. /\ worker'[w].pc = "idle" /\ \A v \in Workers : v # w => worker'[v] = worker[v]
  BY <1>1, WorkerAfter DEF Crash
<1> QED BY <1>2, LeaveFence DEF Crash

LEMMA FenceInit == Init => FencingInv
BY DEF Init, IdleWorker, AbsentRow, FencingInv, HoldsRow, ObservedClosed, AttemptFenced,
       ExclusiveAttempt, OutcomeTrue, RecordedOutcomeTrue, AtMostOneDelivery, RevokedClosed,
       InAttempt, At, Undispatched

LEMMA FenceStep == TypeInv /\ FencingInv /\ [Next]_vars => FencingInv'
<1> SUFFICES ASSUME TypeOK, AllHold, FencingInv, [Next]_vars PROVE FencingInv'
  BY DEF TypeInv
<1>1. ASSUME NEW k \in Keys, NEW s \in Schedule, NEW person \in BOOLEAN, Enqueue(k, s, person)
      PROVE  FencingInv'
  BY <1>1, EnqueueFence
<1>2. ASSUME NEW w \in Workers, StartPass(w)
      PROVE  FencingInv'
  BY <1>2, BeginPassFence DEF StartPass
<1>3. ASSUME NEW w \in Workers, NEW k \in Keys, SendNow(w, k)
      PROVE  FencingInv'
  BY <1>3, BeginPassFence DEF SendNow
<1>4. ASSUME NEW w \in Workers, WorkerStep(w) \/ Crash(w)
      PROVE  FencingInv'
  BY <1>4, WorkerStepFence, CrashFence
<1>5. ASSUME NEW k \in Keys,
             \/ RevokePermit(k)
             \/ RecordAck(k)
             \/ \E outcome \in {"submitted", "not_delivered"} : Resolve(k, outcome)
      PROVE  FencingInv'
  BY <1>5, OperatorFence
<1>6. ASSUME NEW k \in Keys,
             \/ \E life \in 1..GrantLife : IssueApproval(k, life)
             \/ RevokeApproval(k)
             \/ ChangeStanding(k)
      PROVE  FencingInv'
  <2>1. UNCHANGED <<row, observed, worker, delivered>>
    BY <1>6 DEF IssueApproval, RevokeApproval, ChangeStanding
  <2> QED BY <2>1 DEF FencingInv, HoldsRow, ObservedClosed, AttemptFenced, ExclusiveAttempt,
                OutcomeTrue, RecordedOutcomeTrue, AtMostOneDelivery, RevokedClosed, InAttempt, At
<1>7. CASE Tick
  BY <1>7, TickFence
<1>8. CASE UNCHANGED vars
  BY <1>8 DEF vars, FencingInv, HoldsRow, ObservedClosed, AttemptFenced, ExclusiveAttempt,
              OutcomeTrue, RecordedOutcomeTrue, AtMostOneDelivery, RevokedClosed, InAttempt, At
<1> QED BY <1>1, <1>2, <1>3, <1>4, <1>5, <1>6, <1>7, <1>8, NamesAssumption DEF Next

LEMMA FencingCorrect == Spec => [](TypeInv /\ FencingInv)
<1>1. Init => TypeInv
  BY TypeInit, IdleHolds DEF TypeInv, AllHold, Init
<1> QED BY <1>1, TypeStep, FenceInit, FenceStep, PTL DEF Spec

(* The supplier gets a message at most once, whatever workers race on its  *)
(* row, die, stall past the reclaim or retry, and whatever operators say.  *)
THEOREM DeliveredAtMostOnce == Spec => []AtMostOneDelivery
BY FencingCorrect, PTL DEF FencingInv

(* No row is ever in the attempt of two workers.                           *)
THEOREM AttemptsExclusive == Spec => []ExclusiveAttempt
BY FencingCorrect, PTL DEF FencingInv

(* A row never says "not delivered" of a message that was, nor "sent" of    *)
(* one that was not, unless an operator said so.                           *)
THEOREM RecordsTrue == Spec => []RecordedOutcomeTrue
BY FencingCorrect, PTL DEF FencingInv

-----------------------------------------------------------------------------
(* The retry budget.                                                       *)
Bounded(r) == r.attempts <= MaxAttempts /\ (r.status \in Undispatched => r.attempts < MaxAttempts)

(* A row that is not claimed, and not put back for another attempt.         *)
NoRetry(k) ==
  /\ row'[k].attempts = row[k].attempts
  /\ row'[k].status \in Undispatched => row[k].status \in Undispatched

LEMMA MovedIsNoRetry ==
  ASSUME NEW k \in Keys, NEW st, MovesRow(k, st), st \notin Undispatched
  PROVE  \A j \in Keys : NoRetry(j)
BY DEF MovesRow, NoRetry

LEMMA PassIsNoRetry ==
  ASSUME TypeOK,
         Tick \/ \E w \in Workers, scope \in SUBSET Keys : BeginPass(w, scope)
  PROVE  \A k \in Keys : NoRetry(k)
<1> SUFFICES ASSUME NEW k \in Keys PROVE NoRetry(k)
  OBVIOUS
<1>1. row[k] \in Row BY RowFields
<1>2. ASSUME NEW w \in Workers, NEW scope \in SUBSET Keys, BeginPass(w, scope)
      PROVE  NoRetry(k)
  <2>1. row'[k] = IF Stale(k) THEN Reclaimed(row[k]) ELSE row[k] BY <1>2 DEF BeginPass
  <2>2. /\ Reclaimed(row[k]).attempts = row[k].attempts
        /\ Reclaimed(row[k]).status = "reconciliation_required"
    BY <1>1 DEF Reclaimed, Row
  <2> QED BY <2>1, <2>2 DEF NoRetry, Undispatched
<1>3. CASE Tick
  <2>1. PICK wait, permit, age :
          row'[k] = [row[k] EXCEPT !.wait = wait, !.permit = permit, !.age = age]
    BY <1>3 DEF Tick
  <2> QED BY <1>1, <2>1 DEF NoRetry, Row
<1> QED BY <1>2, <1>3

LEMMA OperatorIsNoRetry ==
  ASSUME TypeOK, NEW k \in Keys,
         \/ RevokePermit(k)
         \/ RecordAck(k)
         \/ \E outcome \in {"submitted", "not_delivered"} : Resolve(k, outcome)
  PROVE  \A j \in Keys : NoRetry(j)
<1>1. row[k] \in Row BY RowFields
<1>2. CASE RevokePermit(k)
  <2> DEFINE r == [row[k] EXCEPT !.status = "blocked_authority", !.revoked = TRUE]
  <2>1. r.status = "blocked_authority" /\ r.attempts = row[k].attempts BY <1>1 DEF Row
  <2>2. SetRow(k, r) BY <1>2 DEF RevokePermit
  <2> HIDE DEF r
  <2> QED BY <2>1, <2>2, RowAfter DEF NoRetry, Undispatched
<1>3. CASE RecordAck(k)
  <2> DEFINE r == [row[k] EXCEPT !.acked = TRUE]
  <2>1. r.status = row[k].status /\ r.attempts = row[k].attempts BY <1>1 DEF Row
  <2>2. SetRow(k, r) BY <1>3 DEF RecordAck
  <2> HIDE DEF r
  <2> QED BY <2>1, <2>2, RowAfter DEF NoRetry
<1>4. ASSUME NEW outcome \in {"submitted", "not_delivered"}, Resolve(k, outcome)
      PROVE  \A j \in Keys : NoRetry(j)
  <2>1. MovesRow(k, Resolution(outcome)) BY <1>4, StatusWrites DEF Resolve
  <2> QED BY <2>1, MovedIsNoRetry DEF Resolution, Undispatched
<1> QED BY <1>2, <1>3, <1>4

LEMMA WorkerNoRetry ==
  ASSUME TypeOK, AllHold, NEW w \in Workers,
         CheckAuthority(w) \/ SkipClaim(w) \/ ScanAllows(w) \/ ScanBlocks(w) \/ Recheck(w)
           \/ Transmit(w) \/ SkipSettle(w) \/ Crash(w)
  PROVE  \A k \in Keys : NoRetry(k)
<1>1. CASE UNCHANGED row BY <1>1 DEF NoRetry
<1>2. CASE CheckAuthority(w) /\ row' # row
  <2>1. PICK s \in worker[w].todo :
          SetRow(s.key, [row[s.key] EXCEPT !.status = "blocked_authority"])
    BY <1>2 DEF CheckAuthority
  <2>2. s.key \in Keys BY <2>1, WorkerFields DEF Snapshot
  <2> QED BY <2>1, <2>2, StatusWrites, MovedIsNoRetry DEF Undispatched
<1>3. CASE (ScanBlocks(w) \/ Recheck(w)) /\ row' # row
  <2>1. PICK st \in {"blocked_content", "blocked_authority"} :
          SetRow(worker[w].key, [row[worker[w].key] EXCEPT !.status = st, !.age = 0])
    BY <1>3 DEF ScanBlocks, Recheck
  <2>2. worker[w].key \in Keys BY <1>3 DEF ScanBlocks, Recheck, AllHold, Holds, InAttempt, At
  <2> QED BY <2>1, <2>2, StatusWrites, MovedIsNoRetry DEF Undispatched
<1> QED BY <1>1, <1>2, <1>3 DEF SkipClaim, ScanAllows, Transmit, SkipSettle, Crash

LEMMA BudgetStep ==
  ASSUME TypeOK, AllHold, FencingInv, AttemptsBounded, [Next]_vars
  PROVE  AttemptsBounded'
<1>1. ASSUME \A k \in Keys : NoRetry(k) PROVE AttemptsBounded'
  BY <1>1 DEF NoRetry, AttemptsBounded
<1>2. ASSUME NEW k \in Keys, NEW s \in Schedule, NEW person \in BOOLEAN, Enqueue(k, s, person)
      PROVE  AttemptsBounded'
  <2> DEFINE r == [AbsentRow EXCEPT !.status = s.status, !.wait = s.wait,
                                    !.permit = PermitLife, !.person = person]
  <2>1. r.attempts = 0 BY DEF AbsentRow
  <2>2. SetRow(k, r) BY <1>2 DEF Enqueue
  <2> HIDE DEF r
  <2>3. row'[k].attempts = 0 /\ \A j \in Keys : j # k => row'[j] = row[j]
    BY <2>1, <2>2, RowAfter
  <2> QED BY <2>3, BoundsAssumption DEF AttemptsBounded
<1>3. ASSUME NEW w \in Workers, Claim(w) PROVE AttemptsBounded'
  <2> DEFINE k == worker[w].key
             r == [row[k] EXCEPT !.status = "sending", !.attempts = @ + 1, !.age = worker[w].elapsed]
  <2>1. k \in Keys /\ row[k] \in Row /\ row[k].attempts \in Nat /\ row[k].status \in Undispatched
    BY <1>3, RowFields DEF Claim, Claimable, AllHold, Holds, At
  <2>2. r.status = "sending" /\ r.attempts = row[k].attempts + 1 BY <2>1 DEF Row
  <2>3. SetRow(k, r) BY <1>3 DEF Claim
  <2> HIDE DEF k, r
  <2>4. row'[k] = r /\ \A j \in Keys : j # k => row'[j] = row[j] BY <2>1, <2>3, RowAfter
  <2>5. row[k].attempts < MaxAttempts BY <2>1 DEF AttemptsBounded
  <2>6. row'[k].attempts <= MaxAttempts /\ row'[k].status \notin Undispatched
    BY <2>1, <2>2, <2>4, <2>5, BoundsAssumption DEF Undispatched
  <2> QED BY <2>4, <2>6 DEF AttemptsBounded
<1>4. ASSUME NEW w \in Workers, Settle(w) PROVE AttemptsBounded'
  <2> DEFINE k == worker[w].key
             r == Settled(row[k], worker[w].outcome, worker[w].tries, worker[w].elapsed)
  <2>1. k \in Keys /\ row[k] \in Row /\ row[k].attempts = worker[w].tries
    BY <1>4, RowFields DEF Settle, Owns, AllHold, Holds, InAttempt, At
  <2>2. /\ r.attempts = row[k].attempts
        /\ r.status \in Undispatched => worker[w].tries < MaxAttempts
    BY <2>1 DEF Settled, Row, Undispatched
  <2>3. SetRow(k, r) BY <1>4 DEF Settle
  <2> HIDE DEF k, r
  <2>4. row'[k] = r /\ \A j \in Keys : j # k => row'[j] = row[j] BY <2>1, <2>3, RowAfter
  <2> QED BY <2>1, <2>2, <2>4 DEF AttemptsBounded
<1>5. ASSUME NEW w \in Workers, StartPass(w) \/ \E k \in Keys : SendNow(w, k)
      PROVE  AttemptsBounded'
  BY <1>1, <1>5, PassIsNoRetry DEF StartPass, SendNow
<1>6. CASE Tick
  BY <1>1, <1>6, PassIsNoRetry
<1>7. ASSUME NEW w \in Workers, WorkerStep(w) \/ Crash(w) PROVE AttemptsBounded'
  BY <1>1, <1>3, <1>4, <1>7, WorkerNoRetry DEF WorkerStep
<1>8. ASSUME NEW k \in Keys,
             \/ RevokePermit(k)
             \/ RecordAck(k)
             \/ \E outcome \in {"submitted", "not_delivered"} : Resolve(k, outcome)
      PROVE  AttemptsBounded'
  BY <1>1, <1>8, OperatorIsNoRetry
<1>9. ASSUME NEW k \in Keys,
             \/ \E life \in 1..GrantLife : IssueApproval(k, life)
             \/ RevokeApproval(k)
             \/ ChangeStanding(k)
      PROVE  AttemptsBounded'
  BY <1>9 DEF IssueApproval, RevokeApproval, ChangeStanding, AttemptsBounded
<1>10. CASE UNCHANGED vars BY <1>10 DEF vars, AttemptsBounded
<1> QED BY <1>2, <1>5, <1>6, <1>7, <1>8, <1>9, <1>10, NamesAssumption DEF Next

(* No row is attempted more often than its budget, and one that has used it *)
(* up is not put back, however attempts are lost and reclaimed.            *)
THEOREM RetriesBounded == Spec => []AttemptsBounded
<1>1. Init => AttemptsBounded
  <2>1. 0 <= MaxAttempts BY BoundsAssumption
  <2>2. AbsentRow.attempts = 0 /\ AbsentRow.status \notin Undispatched
    BY DEF AbsentRow, Undispatched
  <2> QED BY <2>1, <2>2 DEF Init, AttemptsBounded
<1>2. TypeInv /\ FencingInv /\ AttemptsBounded /\ [Next]_vars => AttemptsBounded'
  BY BudgetStep DEF TypeInv
<1> QED BY <1>1, <1>2, FencingCorrect, PTL DEF Spec


-----------------------------------------------------------------------------
(* The queue implements the at-most-once effect; and what its steps may     *)
(* never do.  Both rest on the fencing invariant.                          *)

(* The phase of a message is a function of two columns.                    *)
PhaseIs(st, seen) ==
  CASE st = "absent" -> "none"
    [] st \in Undispatched -> "open"
    [] st = "sending" -> "trying"
    [] st = "reconciliation_required" -> "uncertain"
    [] st = "sent" /\ seen = "none" -> "done"
    [] st = "sent" /\ seen # "none" -> "judged_done"
    [] st = "resolved_not_delivered" -> "judged_not_done"
    [] OTHER -> "not_done"

LEMMA PhaseColumns ==
  ASSUME NEW k \in Keys
  PROVE  /\ PhaseOf(k) = PhaseIs(row[k].status, observed[k])
         /\ PhaseOf(k)' = PhaseIs(row'[k].status, observed'[k])
BY DEF PhaseOf, PhaseIs

LEMMA PhaseValues ==
  ASSUME NEW seen \in {"none", "submitted", "not_delivered"}
  PROVE  /\ PhaseIs("absent", seen) = "none"
         /\ \A st \in Undispatched : PhaseIs(st, seen) = "open"
         /\ PhaseIs("sending", seen) = "trying"
         /\ PhaseIs("reconciliation_required", seen) = "uncertain"
         /\ PhaseIs("sent", seen) = IF seen = "none" THEN "done" ELSE "judged_done"
         /\ PhaseIs("resolved_not_delivered", seen) = "judged_not_done"
         /\ \A st \in {"held", "dead_letter", "blocked_content", "blocked_authority"} :
              PhaseIs(st, seen) = "not_done"
<1>1. PhaseIs("absent", seen) = "none" /\ PhaseIs("sending", seen) = "trying"
  BY DEF PhaseIs, Undispatched
<1>2. \A st \in Undispatched : PhaseIs(st, seen) = "open"
  BY DEF PhaseIs, Undispatched
<1>3. PhaseIs("reconciliation_required", seen) = "uncertain"
  BY DEF PhaseIs, Undispatched
<1>4. PhaseIs("sent", seen) = IF seen = "none" THEN "done" ELSE "judged_done"
  <2>1. CASE seen = "none"
    BY <2>1 DEF PhaseIs, Undispatched
  <2>2. CASE seen # "none"
    BY <2>2 DEF PhaseIs, Undispatched
  <2> QED BY <2>1, <2>2
<1>5. PhaseIs("resolved_not_delivered", seen) = "judged_not_done"
  BY DEF PhaseIs, Undispatched
<1>6. \A st \in {"held", "dead_letter", "blocked_content", "blocked_authority"} :
        PhaseIs(st, seen) = "not_done"
  BY DEF PhaseIs, Undispatched
<1> QED BY <1>1, <1>2, <1>3, <1>4, <1>5, <1>6

(* Only the phase of one message moves.                                    *)
PhaseMoves(k, p) ==
  PhaseOf(k)' = p /\ \A j \in Keys : j # k => PhaseOf(j)' = PhaseOf(j)

LEMMA MovedPhase ==
  ASSUME NEW k \in Keys, NEW st, MovesRow(k, st), UNCHANGED observed
  PROVE  PhaseMoves(k, PhaseIs(st, observed[k]))
BY PhaseColumns DEF MovesRow, PhaseMoves

LEMMA EffectMoves ==
  ASSUME NEW k \in Keys, NEW p, PhaseMoves(k, p), UNCHANGED delivered
  PROVE  Effect!MoveTo(k, p)
BY DEF PhaseMoves, Effect!MoveTo

LEMMA EffectStutters ==
  ASSUME \A k \in Keys : PhaseOf(k)' = PhaseOf(k), UNCHANGED delivered
  PROVE  UNCHANGED Effect!evars
BY DEF Effect!evars

(* A message that nobody observed, and what may still be said of one that   *)
(* is in the attempt of a worker.                                          *)
LEMMA Unobserved ==
  ASSUME TypeOK, FencingInv, NEW k \in Keys,
         row[k].status \notin {"sent", "resolved_not_delivered"}
  PROVE  observed[k] = "none"
BY DEF TypeOK, FencingInv, ObservedClosed

LEMMA OperatorImplements ==
  ASSUME TypeOK, FencingInv, NEW k \in Keys,
         \/ RevokePermit(k)
         \/ RecordAck(k)
         \/ \E outcome \in {"submitted", "not_delivered"} : Resolve(k, outcome)
  PROVE  [Effect!EffectNext]_(Effect!evars)
<1>0. row[k] \in Row /\ observed[k] \in {"none", "submitted", "not_delivered"}
  BY RowFields DEF TypeOK
<1>1. CASE RevokePermit(k)
  <2> DEFINE r == [row[k] EXCEPT !.status = "blocked_authority", !.revoked = TRUE]
  <2>1. r.status = "blocked_authority"
    BY <1>0 DEF Row
  <2>2. row'[k] = r /\ \A j \in Keys : j # k => row'[j] = row[j]
    BY <1>1, RowAfter DEF RevokePermit
  <2> HIDE DEF r
  <2>3. UNCHANGED <<observed, delivered>> /\ row[k].status \in Undispatched
    BY <1>1 DEF RevokePermit, Revocable
  <2>4. PhaseMoves(k, "not_done") /\ PhaseOf(k) = "open"
    BY <1>0, <2>1, <2>2, <2>3, PhaseColumns, PhaseValues DEF PhaseMoves
  <2>5. delivered[k] = 0
    BY <2>3 DEF FencingInv, RecordedOutcomeTrue
  <2>6. Effect!GiveUp(k)
    BY <2>3, <2>4, <2>5, EffectMoves DEF Effect!GiveUp
  <2> QED BY <2>6 DEF Effect!EffectNext
<1>2. CASE RecordAck(k)
  <2> DEFINE r == [row[k] EXCEPT !.acked = TRUE]
  <2>1. r.status = row[k].status
    BY <1>0 DEF Row
  <2>2. row'[k] = r /\ \A j \in Keys : j # k => row'[j] = row[j]
    BY <1>2, RowAfter DEF RecordAck
  <2> HIDE DEF r
  <2>3. UNCHANGED <<observed, delivered>>
    BY <1>2 DEF RecordAck
  <2>4. \A j \in Keys : PhaseOf(j)' = PhaseOf(j)
    BY <2>1, <2>2, <2>3, PhaseColumns
  <2> QED BY <2>3, <2>4, EffectStutters
<1>3. ASSUME NEW outcome \in {"submitted", "not_delivered"}, Resolve(k, outcome)
      PROVE  [Effect!EffectNext]_(Effect!evars)
  <2>1. MovesRow(k, Resolution(outcome))
    BY <1>3, StatusWrites DEF Resolve
  <2>2. /\ UNCHANGED delivered
        /\ row[k].status = "reconciliation_required"
        /\ observed'[k] = outcome
        /\ \A j \in Keys : j # k => observed'[j] = observed[j]
    BY <1>3 DEF Resolve, TypeOK
  <2>3. PhaseOf(k) = "uncertain"
    BY <1>0, <2>2, PhaseColumns, PhaseValues
  <2>4. PhaseIs(Resolution(outcome), outcome) \in {"judged_done", "judged_not_done"}
    BY PhaseValues DEF Resolution
  <2>5. PhaseMoves(k, PhaseIs(Resolution(outcome), outcome))
    BY <2>1, <2>2, PhaseColumns DEF PhaseMoves, MovesRow
  <2>6. Effect!Judge(k)
    BY <2>2, <2>3, <2>4, <2>5, EffectMoves DEF Effect!Judge
  <2> QED BY <2>6 DEF Effect!EffectNext
<1> QED BY <1>1, <1>2, <1>3

LEMMA EnqueueImplements ==
  ASSUME TypeOK, FencingInv, NEW k \in Keys, NEW s \in Schedule, NEW person \in BOOLEAN,
         Enqueue(k, s, person)
  PROVE  Effect!EffectNext
<1> DEFINE r == [AbsentRow EXCEPT !.status = s.status, !.wait = s.wait,
                                  !.permit = PermitLife, !.person = person]
<1>1. r.status \in Undispatched \cup {"held"}
  BY DEF AbsentRow, Schedule, Undispatched
<1>2. row'[k] = r /\ \A j \in Keys : j # k => row'[j] = row[j]
  BY RowAfter DEF Enqueue
<1> HIDE DEF r
<1>3. UNCHANGED <<observed, delivered>> /\ row[k].status = "absent"
  BY DEF Enqueue
<1>4. observed[k] = "none" /\ PhaseOf(k) = "none"
  BY <1>3, Unobserved, PhaseColumns, PhaseValues
<1>5. PhaseIs(r.status, "none") \in {"open", "not_done"}
  BY <1>1, PhaseValues
<1>6. PhaseMoves(k, PhaseIs(r.status, "none"))
  BY <1>2, <1>3, <1>4, PhaseColumns DEF PhaseMoves
<1>7. Effect!Request(k)
  BY <1>3, <1>4, <1>5, <1>6, EffectMoves DEF Effect!Request
<1> QED BY <1>7 DEF Effect!EffectNext

(* The claims that a pass finds expired are lost track of together.        *)
LEMMA BeginPassImplements ==
  ASSUME TypeOK, FencingInv, NEW w \in Workers, NEW scope \in SUBSET Keys, BeginPass(w, scope)
  PROVE  Effect!EffectNext
<1> DEFINE S == {k \in Keys : Stale(k)}
<1>1. UNCHANGED <<observed, delivered>>
  BY DEF BeginPass
<1>2. ASSUME NEW k \in Keys
      PROVE  row'[k].status = IF k \in S THEN "reconciliation_required" ELSE row[k].status
  <2>1. [row[k] EXCEPT !.status = "reconciliation_required", !.age = 0].status
          = "reconciliation_required"
    BY RowFields DEF Row
  <2> QED BY <2>1 DEF BeginPass, Reclaimed
<1>3. ASSUME NEW k \in Keys
      PROVE  /\ k \in S => PhaseOf(k) = "trying"
             /\ PhaseOf(k)' = IF k \in S THEN "uncertain" ELSE PhaseOf(k)
  <2>1. observed[k] \in {"none", "submitted", "not_delivered"}
    BY DEF TypeOK
  <2> QED BY <1>1, <1>2, <2>1, PhaseColumns, PhaseValues DEF Stale
<1> HIDE DEF S
<1>4. S \in SUBSET Keys
  BY DEF S
<1>5. Effect!LoseTrack(S)
  BY <1>1, <1>3, <1>4 DEF Effect!LoseTrack
<1> QED BY <1>4, <1>5 DEF Effect!EffectNext

(* A message still to be sent is closed for good.                          *)
LEMMA GivesUp ==
  ASSUME TypeOK, FencingInv, NEW k \in Keys,
         row[k].status \in Undispatched \cup {"sending"}, delivered[k] = 0,
         NEW st \in {"dead_letter", "blocked_content", "blocked_authority"},
         MovesRow(k, st), UNCHANGED <<observed, delivered>>
  PROVE  Effect!EffectNext
<1>1. observed[k] = "none"
  BY Unobserved DEF Undispatched
<1>2. PhaseOf(k) \in {"open", "trying"} /\ PhaseIs(st, observed[k]) = "not_done"
  BY <1>1, PhaseColumns, PhaseValues
<1>3. Effect!MoveTo(k, "not_done")
  BY <1>2, MovedPhase, EffectMoves
<1>4. Effect!GiveUp(k)
  BY <1>2, <1>3 DEF Effect!GiveUp
<1> QED BY <1>4 DEF Effect!EffectNext

LEMMA SameRowsImplement ==
  ASSUME UNCHANGED <<row, observed, delivered>>
  PROVE  UNCHANGED Effect!evars
<1>1. \A k \in Keys : PhaseOf(k)' = PhaseOf(k)
  BY PhaseColumns
<1> QED BY <1>1, EffectStutters

LEMMA CheckAuthorityImplements ==
  ASSUME TypeOK, FencingInv, NEW w \in Workers, CheckAuthority(w)
  PROVE  [Effect!EffectNext]_(Effect!evars)
<1>1. UNCHANGED <<observed, delivered>>
  BY DEF CheckAuthority
<1>2. CASE UNCHANGED row
  BY <1>1, <1>2, SameRowsImplement
<1>3. CASE row' # row
  <2>1. PICK s \in worker[w].todo :
          /\ row[s.key].status \in Undispatched
          /\ SetRow(s.key, [row[s.key] EXCEPT !.status = "blocked_authority"])
    BY <1>3 DEF CheckAuthority
  <2>2. s.key \in Keys
    BY <2>1, WorkerFields DEF Snapshot
  <2>3. MovesRow(s.key, "blocked_authority")
    BY <2>1, <2>2, StatusWrites
  <2>4. delivered[s.key] = 0
    BY <2>1, <2>2 DEF FencingInv, RecordedOutcomeTrue
  <2> QED BY <1>1, <2>1, <2>2, <2>3, <2>4, GivesUp
<1> QED BY <1>2, <1>3

LEMMA ClaimImplements ==
  ASSUME TypeOK, AllHold, FencingInv, NEW w \in Workers, Claim(w)
  PROVE  Effect!EffectNext
<1>0. PICK k \in Keys : k = worker[w].key
  BY DEF Claim, AllHold, Holds, At
<1> DEFINE r == [row[k] EXCEPT !.status = "sending", !.attempts = @ + 1,
                               !.age = worker[w].elapsed]
<1>1. row[k].status \in Undispatched /\ UNCHANGED <<observed, delivered>>
  BY <1>0 DEF Claim, Claimable
<1>2. r.status = "sending"
  BY <1>1, RowFields DEF Row
<1>3. row'[k] = r /\ \A j \in Keys : j # k => row'[j] = row[j]
  BY <1>0, RowAfter DEF Claim
<1> HIDE DEF r
<1>4. observed[k] \in {"none", "submitted", "not_delivered"}
  BY <1>1 DEF TypeOK
<1>5. PhaseOf(k) = "open" /\ PhaseMoves(k, "trying")
  BY <1>1, <1>2, <1>3, <1>4, PhaseColumns, PhaseValues DEF PhaseMoves
<1>6. Effect!Attempt(k)
  BY <1>1, <1>5, EffectMoves DEF Effect!Attempt
<1> QED BY <1>1, <1>6 DEF Effect!EffectNext

(* The provider may accept a message whose row was meanwhile quarantined or *)
(* even judged by an operator.                                             *)
LEMMA TransmitImplements ==
  ASSUME TypeOK, AllHold, FencingInv, NEW w \in Workers, Transmit(w)
  PROVE  [Effect!EffectNext]_(Effect!evars)
<1>0. PICK k \in Keys : k = worker[w].key
  BY DEF Transmit, AllHold, Holds, At
<1>1. delivered[k] = 0 /\ InAttempt(w) /\ UNCHANGED <<row, observed>>
  BY <1>0 DEF Transmit, At, FencingInv, OutcomeTrue, InAttempt
<1>2. delivered' = delivered \/ delivered' = [delivered EXCEPT ![k] = delivered[k] + 1]
  BY <1>0 DEF Transmit
<1>3. CASE delivered' = delivered
  BY <1>1, <1>3, SameRowsImplement
<1>4. CASE delivered' = [delivered EXCEPT ![k] = delivered[k] + 1]
  <2>1. observed[k] \in {"none", "submitted", "not_delivered"}
    BY <1>1 DEF TypeOK
  <2>2. row[k].status \in {"sending", "reconciliation_required"} \/ observed[k] # "none"
    BY <1>0, <1>1 DEF FencingInv, AttemptFenced
  <2>3. \/ row[k].status \in {"sending", "reconciliation_required", "resolved_not_delivered"}
        \/ row[k].status = "sent" /\ observed[k] # "none"
    BY <1>1, <2>1, <2>2 DEF FencingInv, ObservedClosed
  <2>4. PhaseOf(k) \in {"trying", "uncertain", "judged_done", "judged_not_done"}
    BY <1>1, <2>1, <2>3, PhaseColumns, PhaseValues
  <2>5. \A j \in Keys : PhaseOf(j)' = PhaseOf(j)
    BY <1>1, PhaseColumns
  <2>6. delivered' = [delivered EXCEPT ![k] = 1]
    BY <1>1, <1>4 DEF TypeOK
  <2>7. Effect!Happen(k)
    BY <1>1, <2>4, <2>5, <2>6 DEF Effect!Happen
  <2> QED BY <1>1, <2>7 DEF Effect!EffectNext
<1> QED BY <1>2, <1>3, <1>4

LEMMA SettleImplements ==
  ASSUME TypeOK, AllHold, FencingInv, NEW w \in Workers, Settle(w)
  PROVE  Effect!EffectNext
<1>0. PICK k \in Keys : k = worker[w].key
  BY DEF Settle, AllHold, Holds, At
<1> DEFINE r == Settled(row[k], worker[w].outcome, worker[w].tries, worker[w].elapsed)
<1>1. InAttempt(w) /\ worker[w].pc = "answered" /\ row[k] \in Row
  BY RowFields DEF Settle, InAttempt, At
<1>2. /\ worker[w].outcome \in {"sent", "failed", "unknown"}
      /\ worker[w].outcome = "sent" => delivered[k] = 1
      /\ worker[w].outcome = "failed" => delivered[k] = 0
  BY <1>0, <1>1, WorkerFields DEF FencingInv, OutcomeTrue, At, Outcomes
<1>3. \E st \in {"sent", "pending", "dead_letter", "reconciliation_required"} :
        /\ r.status = st /\ r.attempts = row[k].attempts /\ r.revoked = row[k].revoked
        /\ st \in {"pending", "dead_letter"} => worker[w].outcome = "failed"
        /\ st = "sent" => worker[w].outcome = "sent"
  BY <1>1, <1>2 DEF Settled, Row
<1>4. SetRow(k, r) /\ row[k].status = "sending" /\ UNCHANGED <<observed, delivered>>
  BY <1>0 DEF Settle, Owns
<1> HIDE DEF r
<1>5. PICK st \in {"sent", "pending", "dead_letter", "reconciliation_required"} :
        /\ MovesRow(k, st)
        /\ st \in {"pending", "dead_letter"} => delivered[k] = 0
        /\ st = "sent" => delivered[k] = 1
  BY <1>1, <1>2, <1>3, <1>4, RowAfter DEF MovesRow
<1>6. observed[k] = "none" /\ PhaseOf(k) = "trying"
  BY <1>1, <1>4, Unobserved, PhaseColumns, PhaseValues
<1>7. Effect!MoveTo(k, PhaseIs(st, "none"))
  BY <1>1, <1>4, <1>5, <1>6, MovedPhase, EffectMoves
<1>8. CASE st = "sent"
  <2>1. PhaseIs(st, "none") = "done"
    BY <1>8, PhaseValues
  <2>2. Effect!ReportDone(k)
    BY <1>1, <1>5, <1>6, <1>7, <1>8, <2>1 DEF Effect!ReportDone
  <2> QED BY <1>1, <2>2 DEF Effect!EffectNext
<1>9. CASE st = "pending"
  <2>1. PhaseIs(st, "none") = "open"
    BY <1>9, PhaseValues DEF Undispatched
  <2>2. Effect!Release(k)
    BY <1>1, <1>5, <1>6, <1>7, <1>9, <2>1 DEF Effect!Release
  <2> QED BY <1>1, <2>2 DEF Effect!EffectNext
<1>10. CASE st = "dead_letter"
  BY <1>1, <1>4, <1>5, <1>10, GivesUp
<1>11. CASE st = "reconciliation_required"
  <2>1. PhaseMoves(k, "uncertain")
    BY <1>1, <1>4, <1>5, <1>6, <1>11, MovedPhase, PhaseValues
  <2>2. Effect!LoseTrack({k})
    BY <1>1, <1>4, <1>6, <2>1 DEF Effect!LoseTrack, PhaseMoves
  <2> QED BY <1>1, <2>2 DEF Effect!EffectNext
<1> QED BY <1>5, <1>8, <1>9, <1>10, <1>11

LEMMA WorkerStepImplements ==
  ASSUME TypeOK, AllHold, FencingInv, NEW w \in Workers, WorkerStep(w)
  PROVE  [Effect!EffectNext]_(Effect!evars)
<1>1. CASE (SkipClaim(w) \/ SkipSettle(w) \/ ScanAllows(w))
  BY <1>1, SameRowsImplement DEF SkipClaim, SkipSettle, ScanAllows
<1>2. CASE ScanBlocks(w) \/ Recheck(w)
  <2>0. PICK k \in Keys : k = worker[w].key
    BY <1>2 DEF ScanBlocks, Recheck, AllHold, Holds, At
  <2>1. delivered[k] = 0 /\ UNCHANGED <<observed, delivered>>
    BY <1>2, <2>0 DEF ScanBlocks, Recheck, At, FencingInv, OutcomeTrue
  <2>2. CASE UNCHANGED row
    BY <2>1, <2>2, SameRowsImplement
  <2>3. CASE row' # row
    <3>1. PICK st \in {"blocked_content", "blocked_authority"} :
            Owns(w) /\ SetRow(k, [row[k] EXCEPT !.status = st, !.age = 0])
      BY <1>2, <2>0, <2>3 DEF ScanBlocks, Recheck
    <3>2. MovesRow(k, st) /\ row[k].status = "sending"
      BY <2>0, <3>1, StatusWrites DEF Owns
    <3> QED BY <2>1, <3>2, GivesUp
  <2> QED BY <2>2, <2>3
<1> QED BY <1>1, <1>2, CheckAuthorityImplements, ClaimImplements, TransmitImplements,
           SettleImplements DEF WorkerStep

LEMMA ImplementsStep ==
  TypeInv /\ FencingInv /\ [Next]_vars => [Effect!EffectNext]_(Effect!evars)
<1> SUFFICES ASSUME TypeOK, AllHold, FencingInv, [Next]_vars
             PROVE  [Effect!EffectNext]_(Effect!evars)
  BY DEF TypeInv
<1>1. ASSUME NEW k \in Keys, NEW s \in Schedule, NEW person \in BOOLEAN, Enqueue(k, s, person)
      PROVE  [Effect!EffectNext]_(Effect!evars)
  BY <1>1, EnqueueImplements
<1>2. ASSUME NEW w \in Workers, StartPass(w) \/ \E k \in Keys : SendNow(w, k)
      PROVE  [Effect!EffectNext]_(Effect!evars)
  BY <1>2, BeginPassImplements DEF StartPass, SendNow
<1>3. ASSUME NEW w \in Workers, WorkerStep(w) \/ Crash(w)
      PROVE  [Effect!EffectNext]_(Effect!evars)
  BY <1>3, WorkerStepImplements, SameRowsImplement DEF Crash
<1>4. ASSUME NEW k \in Keys,
             \/ RevokePermit(k)
             \/ RecordAck(k)
             \/ \E outcome \in {"submitted", "not_delivered"} : Resolve(k, outcome)
      PROVE  [Effect!EffectNext]_(Effect!evars)
  BY <1>4, OperatorImplements
<1>5. ASSUME NEW k \in Keys,
             \/ \E life \in 1..GrantLife : IssueApproval(k, life)
             \/ RevokeApproval(k)
             \/ ChangeStanding(k)
      PROVE  [Effect!EffectNext]_(Effect!evars)
  BY <1>5, SameRowsImplement DEF IssueApproval, RevokeApproval, ChangeStanding
<1>6. CASE Tick
  <2>1. ASSUME NEW k \in Keys PROVE row'[k].status = row[k].status
    <3>1. PICK a, b, c : row'[k] = [row[k] EXCEPT !.wait = a, !.permit = b, !.age = c]
      BY <1>6 DEF Tick
    <3> QED BY <3>1, RowFields DEF Row
  <2>2. \A k \in Keys : PhaseOf(k)' = PhaseOf(k)
    BY <1>6, <2>1, PhaseColumns DEF Tick
  <2> QED BY <1>6, <2>2, EffectStutters DEF Tick
<1>7. CASE UNCHANGED vars
  BY <1>7, SameRowsImplement DEF vars
<1> QED BY <1>1, <1>2, <1>3, <1>4, <1>5, <1>6, <1>7, NamesAssumption DEF Next

LEMMA ImplementsInit == Init => Effect!EffectInit
<1> SUFFICES ASSUME Init PROVE Effect!EffectInit
  OBVIOUS
<1>1. \A k \in Keys : PhaseOf(k) = "none"
  BY PhaseColumns, PhaseValues DEF Init, AbsentRow
<1> QED BY <1>1 DEF Init, Effect!EffectInit

(* The queue keeps the at-most-once promise of an effect that can be        *)
(* neither undone nor inspected: every statement of a worker, an operator   *)
(* or the clock is a step of AtMostOnceEffect, or none that it can see.     *)
THEOREM QueueImplementsEffect == Spec => ImplementsAtMostOnceEffect
BY FencingCorrect, ImplementsInit, ImplementsStep, PTL
   DEF Spec, ImplementsAtMostOnceEffect, Effect!EffectSpec

-----------------------------------------------------------------------------
(* What a step may do to a row: nothing to its status, or something to a    *)
(* row not yet settled, or the operator's word on a quarantined one.       *)
RowStep(k) ==
  \/ row'[k].status = row[k].status
  \/ row[k].status \in Undispatched \cup {"absent", "sending"}
  \/ /\ row[k].status = "reconciliation_required"
     /\ \/ row'[k].status = "sent" /\ observed'[k] = "submitted"
        \/ row'[k].status = "resolved_not_delivered"

LEMMA WriteIsRowStep ==
  ASSUME TypeOK, NEW k \in Keys, NEW r, SetRow(k, r),
         \/ row[k].status \in Undispatched \cup {"absent", "sending"}
         \/ r.status = row[k].status
  PROVE  \A j \in Keys : RowStep(j)
BY RowAfter DEF RowStep

LEMMA WorkerRowStep ==
  ASSUME TypeOK, AllHold, NEW w \in Workers, WorkerStep(w)
  PROVE  \A j \in Keys : RowStep(j)
<1>1. CASE UNCHANGED row
  BY <1>1 DEF RowStep
<1>2. CASE CheckAuthority(w) /\ row' # row
  <2>1. PICK s \in worker[w].todo :
          /\ row[s.key].status \in Undispatched
          /\ SetRow(s.key, [row[s.key] EXCEPT !.status = "blocked_authority"])
    BY <1>2 DEF CheckAuthority
  <2>2. s.key \in Keys
    BY <2>1, WorkerFields DEF Snapshot
  <2> QED BY <2>1, <2>2, WriteIsRowStep
<1>3. CASE (Claim(w) \/ ScanBlocks(w) \/ Recheck(w) \/ Settle(w)) /\ row' # row
  <2>0. PICK k \in Keys : k = worker[w].key
    BY <1>3 DEF Claim, ScanBlocks, Recheck, Settle, AllHold, Holds, At
  <2>1. row[k].status \in Undispatched \cup {"sending"} /\ \E r : SetRow(k, r)
    BY <1>3, <2>0 DEF Claim, Claimable, ScanBlocks, Recheck, Settle, Owns
  <2> QED BY <2>1, WriteIsRowStep
<1> QED BY <1>1, <1>2, <1>3
        DEF WorkerStep, SkipClaim, ScanAllows, Transmit, SkipSettle

LEMMA OperatorRowStep ==
  ASSUME TypeOK, NEW k \in Keys,
         \/ RevokePermit(k)
         \/ RecordAck(k)
         \/ \E outcome \in {"submitted", "not_delivered"} : Resolve(k, outcome)
  PROVE  \A j \in Keys : RowStep(j)
<1>1. CASE RevokePermit(k)
  BY <1>1, WriteIsRowStep DEF RevokePermit, Revocable
<1>2. CASE RecordAck(k)
  <2>1. [row[k] EXCEPT !.acked = TRUE].status = row[k].status
    BY RowFields DEF Row
  <2> QED BY <1>2, <2>1, WriteIsRowStep DEF RecordAck
<1>3. ASSUME NEW outcome \in {"submitted", "not_delivered"}, Resolve(k, outcome)
      PROVE  \A j \in Keys : RowStep(j)
  <2>1. MovesRow(k, Resolution(outcome))
    BY <1>3, StatusWrites DEF Resolve
  <2>2. row[k].status = "reconciliation_required" /\ observed'[k] = outcome
    BY <1>3 DEF Resolve, TypeOK
  <2> QED BY <2>1, <2>2 DEF MovesRow, RowStep, Resolution
<1> QED BY <1>1, <1>2, <1>3

LEMMA NextRowSteps ==
  ASSUME TypeOK, AllHold, [Next]_vars
  PROVE  \A k \in Keys : RowStep(k)
<1>1. ASSUME NEW k \in Keys, NEW s \in Schedule, NEW person \in BOOLEAN, Enqueue(k, s, person)
      PROVE  \A j \in Keys : RowStep(j)
  BY <1>1, WriteIsRowStep DEF Enqueue
<1>2. ASSUME NEW w \in Workers, StartPass(w) \/ \E k \in Keys : SendNow(w, k)
      PROVE  \A j \in Keys : RowStep(j)
  BY <1>2 DEF StartPass, SendNow, BeginPass, Stale, RowStep
<1>3. ASSUME NEW k \in Keys,
             \/ RevokePermit(k)
             \/ RecordAck(k)
             \/ \E outcome \in {"submitted", "not_delivered"} : Resolve(k, outcome)
      PROVE  \A j \in Keys : RowStep(j)
  BY <1>3, OperatorRowStep
<1>4. CASE UNCHANGED row
  BY <1>4 DEF RowStep
<1>5. CASE Tick
  <2> SUFFICES ASSUME NEW k \in Keys PROVE row'[k].status = row[k].status
    BY DEF RowStep
  <2>1. PICK a, b, c : row'[k] = [row[k] EXCEPT !.wait = a, !.permit = b, !.age = c]
    BY <1>5 DEF Tick
  <2> QED BY <2>1, RowFields DEF Row
<1> QED BY <1>1, <1>2, <1>3, <1>4, <1>5, WorkerRowStep, NamesAssumption
        DEF Next, Crash, IssueApproval, RevokeApproval, ChangeStanding, vars

(* A settled row keeps its outcome whatever worker comes back to it, and    *)
(* only an operator's observation moves a quarantined one.                 *)
THEOREM SettledForGood == Spec => SettledStays
<1>1. TypeInv /\ [Next]_vars =>
        [\A k \in Keys :
           /\ row[k].status \in Final => row'[k].status = row[k].status
           /\ row[k].status = "reconciliation_required"
              => row'[k].status \in {"reconciliation_required", "sent", "resolved_not_delivered"}
           /\ row[k].status = "reconciliation_required" /\ row'[k].status = "sent"
              => observed'[k] = "submitted"]_vars
  <2> SUFFICES ASSUME TypeOK, AllHold, [Next]_vars, NEW k \in Keys
               PROVE  /\ row[k].status \in Final => row'[k].status = row[k].status
                      /\ row[k].status = "reconciliation_required"
                         => row'[k].status \in {"reconciliation_required", "sent",
                                                "resolved_not_delivered"}
                      /\ row[k].status = "reconciliation_required" /\ row'[k].status = "sent"
                         => observed'[k] = "submitted"
    BY DEF TypeInv
  <2>1. RowStep(k)
    BY NextRowSteps
  <2> QED BY <2>1 DEF RowStep, Final, Undispatched
<1> QED BY <1>1, FencingCorrect, PTL DEF Spec, SettledStays

(* A revoked message is never handed to the provider again, not even by a   *)
(* worker that had selected it.                                            *)
THEOREM RevokedStaysUnsent == Spec => RevokedNeverSent
<1>1. TypeInv /\ FencingInv /\ [Next]_vars =>
        [\A k \in Keys : row[k].revoked => delivered'[k] = delivered[k]]_vars
  <2> SUFFICES ASSUME TypeOK, AllHold, FencingInv, [Next]_vars, NEW k \in Keys, row[k].revoked
               PROVE  delivered'[k] = delivered[k]
    BY DEF TypeInv
  <2>1. ASSUME NEW w \in Workers, Transmit(w)
        PROVE  delivered'[k] = delivered[k]
    <3>1. CASE worker[w].key # k
      BY <2>1, <3>1 DEF Transmit, TypeOK
    <3>2. CASE worker[w].key = k
      <4>1. row[k].status \in {"sending", "reconciliation_required"} \/ observed[k] # "none"
        BY <2>1, <3>2 DEF Transmit, At, InAttempt, FencingInv, AttemptFenced
      <4>2. observed[k] \in {"none", "submitted", "not_delivered"}
        BY DEF TypeOK
      <4> QED BY <4>1, <4>2 DEF FencingInv, RevokedClosed, ObservedClosed
    <3> QED BY <3>1, <3>2
  <2>2. CASE UNCHANGED delivered
    BY <2>2
  <2> QED BY <2>1, <2>2
      DEF Next, vars, Enqueue, StartPass, SendNow, BeginPass, WorkerStep, CheckAuthority, Claim,
          SkipClaim, ScanAllows, ScanBlocks, Recheck, Settle, SkipSettle, Crash, RevokePermit,
          RecordAck, Resolve, IssueApproval, RevokeApproval, ChangeStanding, Tick
<1> QED BY <1>1, FencingCorrect, PTL DEF Spec, RevokedNeverSent

-----------------------------------------------------------------------------
(* A worker stands behind the last check only because it stood there        *)
(* before, or because that check has just passed.                          *)
PassesLastCheck(w) ==
  At(w, "scanned") /\ worker[w].key \in Keys /\ DispatchCurrent(worker[w].key)

ClearedBefore(w) ==
  worker'[w].pc = "cleared" =>
    /\ worker'[w].key = worker[w].key
    /\ At(w, "cleared") \/ PassesLastCheck(w)

LEMMA OtherWorkers ==
  ASSUME TypeOK, NEW w \in Workers, NEW s, SetWorker(w, s), s.pc # "cleared",
         NEW v \in Workers
  PROVE  ClearedBefore(v)
BY WorkerAfter DEF ClearedBefore, At

LEMMA RecheckClears ==
  ASSUME TypeOK, AllHold, NEW w \in Workers, Recheck(w), NEW v \in Workers
  PROVE  ClearedBefore(v)
<1>1. CASE NextRow(w)
  BY <1>1, NextRowAfter DEF ClearedBefore, At
<1>2. CASE /\ DispatchCurrent(worker[w].key)
           /\ SetWorker(w, [worker[w] EXCEPT !.pc = "cleared"])
  <2> DEFINE s == [worker[w] EXCEPT !.pc = "cleared"]
  <2>1. s.key = worker[w].key
    BY WorkerFields DEF WorkerState
  <2>2. worker'[w] = s /\ \A u \in Workers : u # w => worker'[u] = worker[u]
    BY <1>2, WorkerAfter
  <2> HIDE DEF s
  <2>3. PassesLastCheck(w)
    BY <1>2 DEF PassesLastCheck, Recheck, AllHold, Holds, At
  <2> QED BY <2>1, <2>2, <2>3 DEF ClearedBefore, At
<1> QED BY <1>1, <1>2 DEF Recheck

LEMMA WorkerClears ==
  ASSUME TypeOK, AllHold, NEW w \in Workers, WorkerStep(w) \/ Crash(w), NEW v \in Workers
  PROVE  ClearedBefore(v)
<1>0. worker[w] \in WorkerState /\ IdleWorker.pc = "idle"
  BY WorkerFields DEF IdleWorker
<1>1. CASE NextRow(w)
  BY <1>1, NextRowAfter DEF ClearedBefore, At
<1>2. CASE CheckAuthority(w)
  <2>1. PICK s, rest :
          \/ SetWorker(w, [worker[w] EXCEPT !.pc = "checked", !.todo = rest, !.key = s.key,
                                            !.tries = s.attempts, !.revoked = s.revoked])
          \/ SetWorker(w, IdleWorker)
          \/ SetWorker(w, [worker[w] EXCEPT !.todo = rest])
    BY <1>2 DEF CheckAuthority
  <2>2. /\ [worker[w] EXCEPT !.pc = "checked", !.todo = rest, !.key = s.key,
                             !.tries = s.attempts, !.revoked = s.revoked].pc = "checked"
        /\ [worker[w] EXCEPT !.todo = rest].pc = "row"
    BY <1>0, <1>2 DEF WorkerState, CheckAuthority, At
  <2> QED BY <1>0, <2>1, <2>2, OtherWorkers
<1>3. CASE Claim(w)
  <2> DEFINE s == [worker[w] EXCEPT !.pc = "claimed", !.tries = @ + 1]
  <2>1. s.pc = "claimed"
    BY <1>0 DEF WorkerState
  <2>2. SetWorker(w, s)
    BY <1>3 DEF Claim
  <2> HIDE DEF s
  <2> QED BY <2>1, <2>2, OtherWorkers
<1>4. CASE ScanAllows(w)
  <2>1. [worker[w] EXCEPT !.pc = "scanned"].pc = "scanned"
    BY <1>0 DEF WorkerState
  <2> QED BY <1>4, <2>1, OtherWorkers DEF ScanAllows
<1>5. CASE Transmit(w)
  <2>1. PICK o : SetWorker(w, [worker[w] EXCEPT !.pc = "answered", !.outcome = o])
    BY <1>5 DEF Transmit
  <2>2. [worker[w] EXCEPT !.pc = "answered", !.outcome = o].pc = "answered"
    BY <1>0 DEF WorkerState
  <2> QED BY <2>1, <2>2, OtherWorkers
<1>6. CASE Crash(w)
  BY <1>0, <1>6, OtherWorkers DEF Crash
<1> QED BY <1>1, <1>2, <1>3, <1>4, <1>5, <1>6, RecheckClears
        DEF WorkerStep, SkipClaim, ScanBlocks, Settle, SkipSettle

LEMMA NextClears ==
  ASSUME TypeOK, AllHold, [Next]_vars, NEW v \in Workers
  PROVE  ClearedBefore(v)
<1>1. CASE UNCHANGED worker
  BY <1>1 DEF ClearedBefore, At
<1>2. ASSUME NEW w \in Workers, NEW scope \in SUBSET Keys, BeginPass(w, scope)
      PROVE  ClearedBefore(v)
  <2>1. UNCHANGED worker \/ \E t : SetWorker(w, [worker[w] EXCEPT !.pc = "row", !.todo = t])
    BY <1>2 DEF BeginPass
  <2>2. \A t : [worker[w] EXCEPT !.pc = "row", !.todo = t].pc = "row"
    BY WorkerFields DEF WorkerState
  <2> QED BY <1>1, <2>1, <2>2, OtherWorkers
<1>3. CASE Tick
  <2>1. PICK n : worker'[v] = [worker[v] EXCEPT !.elapsed = n]
    BY <1>3 DEF Tick
  <2>2. /\ [worker[v] EXCEPT !.elapsed = n].pc = worker[v].pc
        /\ [worker[v] EXCEPT !.elapsed = n].key = worker[v].key
    BY WorkerFields DEF WorkerState
  <2> QED BY <2>1, <2>2 DEF ClearedBefore, At
<1>4. ASSUME NEW w \in Workers, StartPass(w) \/ \E k \in Keys : SendNow(w, k)
      PROVE  ClearedBefore(v)
  BY <1>2, <1>4 DEF StartPass, SendNow
<1> QED BY <1>1, <1>3, <1>4, WorkerClears
        DEF Next, vars, Enqueue, RevokePermit, RecordAck, Resolve, IssueApproval,
            RevokeApproval, ChangeStanding

(* Withdrawing a person approval stops the message it covers wherever it is *)
(* in the pipeline: nobody passes the last check any more.                 *)
THEOREM WithdrawalStops == Spec => WithdrawnApprovalStops
<1>1. TypeInv /\ [Next]_vars =>
        [\A k \in Keys : row[k].person /\ ApprovalOver(k) /\ ~Cleared(k) => ~Cleared(k)']_vars
  <2> SUFFICES ASSUME TypeOK, AllHold, [Next]_vars, NEW k \in Keys,
                      row[k].person, ApprovalOver(k), ~Cleared(k),
                      NEW w \in Workers, worker'[w].pc = "cleared", worker'[w].key = k
               PROVE  FALSE
    BY DEF TypeInv, Cleared
  <2>1. worker[w].key = k /\ (At(w, "cleared") \/ PassesLastCheck(w))
    BY NextClears DEF ClearedBefore
  <2>2. PassesLastCheck(w)
    BY <2>1 DEF Cleared, At
  <2>3. ApprovalCurrent(k)
    BY <2>1, <2>2 DEF PassesLastCheck, DispatchCurrent
  <2> QED BY <2>3 DEF ApprovalCurrent, ApprovalOver
<1> QED BY <1>1, FencingCorrect, PTL DEF Spec, WithdrawnApprovalStops

=============================================================================
