---------------------------- MODULE OutboundQueue ----------------------------
(***************************************************************************)
(* The durable supplier-message queue of one tenant                        *)
(* (services/fulfillment/outbound_queue.py) with the two authorities that   *)
(* decide whether a message may leave: the row's own permit and the         *)
(* independent-person approval it may name (person_approval.py); and with   *)
(* the operator's settlement of uncertain sends (operator_recovery.py).     *)
(*                                                                         *)
(* Worker processes run process_pending.  Every SQL statement or            *)
(* transaction of it is one action, so workers, the operator, the approver  *)
(* and the clock interleave between any two of them, and a worker may die   *)
(* between any two of them.  The supplier's mailbox is `delivered`.         *)
(*                                                                         *)
(* Time is kept as countdowns and ages (so it needs no bound): `wait` until *)
(* next_attempt_at, `permit` until permit_expires_at, `age` since           *)
(* updated_at, `elapsed` since the pass took its timestamp.                 *)
(***************************************************************************)
EXTENDS Naturals

CONSTANTS
  Keys,         (* idempotency keys: one outbound_message row each           *)
  Workers,      (* processes that run process_pending                        *)
  Approvable,   (* messages a person approval may be issued for              *)
  NoKey,        (* a worker holds no row                                     *)
  NoDate,       (* next_attempt_at IS NULL                                   *)
  MaxAttempts,  (* outbound_message.max_attempts                             *)
  StaleAfter,   (* OUTBOUND_STALE_CLAIM_SEC, in ticks                        *)
  PermitLife,   (* permit_expires_at - created_at, in ticks                  *)
  GrantLife,    (* longest life of a person approval, in ticks               *)
  OpenDelay,    (* ticks until a closed supplier opens                       *)
  Backoff,      (* attempts made |-> ticks before the next one               *)
  Horizon,      (* ages saturate here                                        *)
  MaxCrashes    (* bound on worker deaths                                    *)

ASSUME NamesAssumption ==
  /\ NoKey \notin Keys
  /\ Approvable \subseteq Keys
  /\ NoDate \notin Nat

ASSUME BoundsAssumption ==
  /\ MaxAttempts \in Nat \ {0}
  /\ StaleAfter \in Nat
  /\ PermitLife \in Nat \ {0}
  /\ GrantLife \in Nat \ {0}
  /\ OpenDelay \in Nat
  /\ MaxCrashes \in Nat

ASSUME TimeAssumption ==
  /\ Horizon \in Nat
  /\ StaleAfter < Horizon
  /\ Backoff \in [1..MaxAttempts -> 0..Horizon]

VARIABLES
  row,          (* outbound_message, by idempotency key                      *)
  observed,     (* outbound_recovery_observation, by message                 *)
  grant,        (* person_effect_approval bound to the message's digest      *)
  worker,       (* local state of each process_pending                       *)
  delivered,    (* how often the provider accepted the message               *)
  crashes

vars == <<row, observed, grant, worker, delivered, crashes>>

(* _backoff_seconds, from which the value of Backoff is taken.             *)
BackoffOf(base, cap, n) ==
  LET d == base * 2^(n - 1) IN IF cap <= d THEN cap ELSE d

-----------------------------------------------------------------------------
(* Rows.  "held" stands for the states of channels the email worker never  *)
(* drives: queued_contact, connector_queued and blocked.                   *)

Undispatched == {"pending", "scheduled"}
Final == {"sent", "dead_letter", "blocked_content", "blocked_authority",
          "resolved_not_delivered", "held"}
Status == Undispatched \cup Final \cup {"absent", "sending", "reconciliation_required"}

Row == [status : Status, attempts : Nat, wait : Nat \cup {NoDate}, age : Nat,
        permit : Nat, revoked : BOOLEAN, person : BOOLEAN, acked : BOOLEAN]

AbsentRow == [status |-> "absent", attempts |-> 0, wait |-> 0, age |-> 0,
              permit |-> 0, revoked |-> FALSE, person |-> FALSE, acked |-> FALSE]

(* decide_contact_schedule: where a message of each kind starts.  A closed  *)
(* supplier waits for next_open_at; a supplier with no current calendar     *)
(* (blocked_unknown) is scheduled with no date.                             *)
Schedule ==
  { [status |-> "pending", wait |-> 0],
    [status |-> "scheduled", wait |-> OpenDelay],
    [status |-> "scheduled", wait |-> NoDate],
    [status |-> "held", wait |-> 0] }

Due(k) == row[k].status \in Undispatched /\ row[k].wait \in {0, NoDate}

(* Mutant of Stale: the comparison with the cutoff is turned round.        *)
StaleTurned(k) == row[k].status = "sending" /\ row[k].age < StaleAfter

Stale(k) == row[k].status = "sending" /\ row[k].age > StaleAfter

(* Mutant of Reclaimed: an expired claim is put back for another attempt.  *)
ReclaimedForResend(r) == [r EXCEPT !.status = "pending", !.age = 0]

(* _reclaim_stale: what becomes of an expired claim.                       *)
Reclaimed(r) == [r EXCEPT !.status = "reconciliation_required", !.age = 0]

(* Mutant of ApprovalCurrent: revoked_at is not looked at.                 *)
ApprovalCurrentUnrevoked(k) ==
  grant[k].state # "none" /\ grant[k].life > 0 /\ grant[k].standing

(* person_approval.validate: unrevoked, unexpired, and the people, the case *)
(* revision and the enquiry it was given for are still what they were.      *)
ApprovalCurrent(k) ==
  grant[k].state = "active" /\ grant[k].life > 0 /\ grant[k].standing

(* dispatch_current: a row that names no approval needs none.              *)
DispatchCurrent(k) == row[k].person => ApprovalCurrent(k)

-----------------------------------------------------------------------------
(* Workers.  `todo` is the result of the SELECT, read once per pass; `key`, *)
(* `tries` and `revoked` are the row being attempted, as it was read.       *)

Snapshot == [key : Keys, attempts : Nat, revoked : BOOLEAN]
Outcomes == {"none", "sent", "failed", "unknown"}
PC == {"idle", "row", "checked", "claimed", "scanned", "cleared", "answered"}

WorkerState == [pc : PC, todo : SUBSET Snapshot, key : Keys \cup {NoKey},
                tries : Nat, revoked : BOOLEAN, elapsed : Nat, outcome : Outcomes]

IdleWorker == [pc |-> "idle", todo |-> {}, key |-> NoKey, tries |-> 0,
               revoked |-> FALSE, elapsed |-> 0, outcome |-> "none"]

At(w, p) == worker[w].pc = p

SetRow(k, r) == row' = [row EXCEPT ![k] = r]
SetWorker(w, s) == worker' = [worker EXCEPT ![w] = s]

(* The pass goes on to its next row, or ends.                              *)
NextRow(w) ==
  SetWorker(w,
    IF worker[w].todo = {}
    THEN IdleWorker
    ELSE [worker[w] EXCEPT !.pc = "row", !.key = NoKey, !.tries = 0,
                           !.revoked = FALSE, !.outcome = "none"])

(* Mutant of Owns: settlement by id and attempt number alone.              *)
OwnsByAttempt(w) == row[worker[w].key].attempts = worker[w].tries

(* _CLAIM_WHERE: the row is still in the attempt this worker claimed.      *)
Owns(w) ==
  LET k == worker[w].key
  IN  row[k].status = "sending" /\ row[k].attempts = worker[w].tries

(* Mutant of PermitCurrent: the permit never expires.                      *)
PermitCurrentForever(k, revoked) == ~revoked

(* permit_current, on the revocation column as it was selected.            *)
PermitCurrent(k, revoked) == ~revoked /\ row[k].permit > 0

-----------------------------------------------------------------------------
Init ==
  /\ row = [k \in Keys |-> AbsentRow]
  /\ observed = [k \in Keys |-> "none"]
  /\ grant = [k \in Keys |-> [state |-> "none", life |-> 0, standing |-> TRUE]]
  /\ worker = [w \in Workers |-> IdleWorker]
  /\ delivered = [k \in Keys |-> 0]
  /\ crashes = 0

(* enqueue.  An existing row is returned as it is (deduped, or              *)
(* effect_conflict), which changes nothing.                                *)
Enqueue(k, s, person) ==
  /\ row[k].status = "absent"
  /\ person => ApprovalCurrent(k)
  /\ SetRow(k, [AbsentRow EXCEPT !.status = s.status, !.wait = s.wait,
                                  !.permit = PermitLife, !.person = person])
  /\ UNCHANGED <<observed, grant, worker, delivered, crashes>>

(* One transaction: _reclaim_stale quarantines the expired claims of the    *)
(* whole tenant, then the due rows among `scope` are read.                  *)
BeginPass(w, scope) ==
  /\ At(w, "idle")
  /\ row' = [k \in Keys |->
       IF Stale(k) THEN Reclaimed(row[k]) ELSE row[k]]
  /\ LET todo == { [key |-> k, attempts |-> row[k].attempts, revoked |-> row[k].revoked] :
                     k \in {d \in scope : Due(d)} }
     IN  IF todo = {}
         THEN UNCHANGED worker
         ELSE SetWorker(w, [worker[w] EXCEPT !.pc = "row", !.todo = todo])
  /\ UNCHANGED <<observed, grant, delivered, crashes>>

(* The scheduled sweep of the tenant.                                      *)
StartPass(w) == BeginPass(w, Keys)

(* send_now on a row that exists: a delivered or in-flight message is        *)
(* answered from the row, any other is attempted once (only_key).           *)
SendNow(w, k) ==
  /\ row[k].status \notin {"absent", "sent", "sending"}
  /\ BeginPass(w, {k})

(* First authority check of a selected row.  An invalid permit or approval  *)
(* closes the row if nobody claimed it meanwhile.                           *)
CheckAuthority(w) ==
  /\ At(w, "row")
  /\ \E s \in worker[w].todo :
       LET k == s.key
           rest == worker[w].todo \ {s}
       IN  IF PermitCurrent(k, s.revoked) /\ DispatchCurrent(k)
           THEN /\ SetWorker(w, [worker[w] EXCEPT !.pc = "checked", !.todo = rest,
                                   !.key = k, !.tries = s.attempts,
                                   !.revoked = s.revoked])
                /\ UNCHANGED row
           ELSE /\ IF row[k].status \in Undispatched
                   THEN SetRow(k, [row[k] EXCEPT !.status = "blocked_authority"])
                   ELSE UNCHANGED row
                /\ SetWorker(w, IF rest = {} THEN IdleWorker
                                ELSE [worker[w] EXCEPT !.todo = rest])
  /\ UNCHANGED <<observed, grant, delivered, crashes>>

(* Mutant of Claimable: a claim by id alone.                               *)
ClaimableById(w) == ~row[worker[w].key].revoked

(* The guarded UPDATE that turns pending into sending.                     *)
Claimable(w) ==
  LET k == worker[w].key
  IN  /\ row[k].status \in Undispatched
      /\ ~row[k].revoked
      /\ row[k].attempts = worker[w].tries

Claim(w) ==
  /\ At(w, "checked")
  /\ Claimable(w)
  /\ LET k == worker[w].key
     IN  /\ SetRow(k, [row[k] EXCEPT !.status = "sending", !.attempts = @ + 1,
                                     !.age = worker[w].elapsed])
         /\ SetWorker(w, [worker[w] EXCEPT !.pc = "claimed", !.tries = @ + 1])
  /\ UNCHANGED <<observed, grant, delivered, crashes>>

(* The UPDATE matched no row, or it raised and was rolled back.            *)
SkipClaim(w) ==
  /\ At(w, "checked")
  /\ NextRow(w)
  /\ UNCHANGED <<row, observed, grant, delivered, crashes>>

(* scan_outbound_supplier_message.  Its verdict is left open; a scanner     *)
(* that fails counts as a block.  The block is recorded only on a row still *)
(* owned, and the commit of the record may fail.                           *)
ScanAllows(w) ==
  /\ At(w, "claimed")
  /\ SetWorker(w, [worker[w] EXCEPT !.pc = "scanned"])
  /\ UNCHANGED <<row, observed, grant, delivered, crashes>>

ScanBlocks(w) ==
  /\ At(w, "claimed")
  /\ LET k == worker[w].key
     IN  \/ /\ Owns(w)
            /\ SetRow(k, [row[k] EXCEPT !.status = "blocked_content", !.age = 0])
         \/ UNCHANGED row
  /\ NextRow(w)
  /\ UNCHANGED <<observed, grant, delivered, crashes>>

(* Second check, right before transmission: a lost claim is abandoned, a    *)
(* lapsed authority closes the row, otherwise the message may leave.        *)
Recheck(w) ==
  /\ At(w, "scanned")
  /\ LET k == worker[w].key
     IN  \/ /\ ~Owns(w) \/ row[k].revoked
            /\ NextRow(w)
            /\ UNCHANGED row
         \/ /\ Owns(w) /\ ~row[k].revoked
            /\ ~(PermitCurrent(k, worker[w].revoked) /\ DispatchCurrent(k))
            /\ SetRow(k, [row[k] EXCEPT !.status = "blocked_authority", !.age = 0])
            /\ NextRow(w)
         \/ /\ Owns(w) /\ ~row[k].revoked
            /\ PermitCurrent(k, worker[w].revoked) /\ DispatchCurrent(k)
            /\ SetWorker(w, [worker[w] EXCEPT !.pc = "cleared"])
            /\ UNCHANGED row
  /\ UNCHANGED <<observed, grant, delivered, crashes>>

(* transport.send: "failed" is a known pre-send failure, "unknown" says     *)
(* nothing about what the provider did.                                     *)
Transmit(w) ==
  /\ At(w, "cleared")
  /\ LET k == worker[w].key
     IN  \E outcome \in Outcomes \ {"none"}, accepted \in BOOLEAN :
           /\ outcome = "sent" => accepted
           /\ outcome = "failed" => ~accepted
           /\ SetWorker(w, [worker[w] EXCEPT !.pc = "answered", !.outcome = outcome])
           /\ delivered' = IF accepted THEN [delivered EXCEPT ![k] = @ + 1] ELSE delivered
  /\ UNCHANGED <<row, observed, grant, crashes>>

(* Mutant of Settled: an unknown outcome is retried as if it were a failure. *)
SettledRetriesUnknown(r, outcome, tries, elapsed) ==
  CASE outcome = "sent" -> [r EXCEPT !.status = "sent", !.age = 0]
    [] outcome # "sent" /\ tries < MaxAttempts ->
         [r EXCEPT !.status = "pending", !.age = 0, !.wait = Backoff[tries]]
    [] OTHER -> [r EXCEPT !.status = "dead_letter", !.age = 0]

(* _delivery_update: the row an attempt with this outcome leaves behind.    *)
Settled(r, outcome, tries, elapsed) ==
  CASE outcome = "sent" -> [r EXCEPT !.status = "sent", !.age = 0]
    [] outcome = "unknown" -> [r EXCEPT !.status = "reconciliation_required", !.age = 0]
    [] outcome = "failed" /\ tries < MaxAttempts ->
         [r EXCEPT !.status = "pending", !.age = 0,
                   !.wait = IF Backoff[tries] > elapsed THEN Backoff[tries] - elapsed ELSE 0]
    [] OTHER -> [r EXCEPT !.status = "dead_letter", !.age = 0]

(* The guarded settlement.  A claim lost meanwhile is not settled, and a    *)
(* failed commit leaves the row sending.                                    *)
Settle(w) ==
  /\ At(w, "answered")
  /\ Owns(w)
  /\ LET k == worker[w].key
     IN  SetRow(k, Settled(row[k], worker[w].outcome, worker[w].tries, worker[w].elapsed))
  /\ NextRow(w)
  /\ UNCHANGED <<observed, grant, delivered, crashes>>

SkipSettle(w) ==
  /\ At(w, "answered")
  /\ NextRow(w)
  /\ UNCHANGED <<row, observed, grant, delivered, crashes>>

(* The process dies: its local state is gone, the row keeps its status.     *)
Crash(w) ==
  /\ ~At(w, "idle")
  /\ crashes < MaxCrashes
  /\ crashes' = crashes + 1
  /\ SetWorker(w, IdleWorker)
  /\ UNCHANGED <<row, observed, grant, delivered>>

-----------------------------------------------------------------------------
(* Mutant of Revocable: a message in flight is revoked as well.            *)
RevocableInFlight(k) == row[k].status \in Undispatched \cup {"sending"}

Revocable(k) == row[k].status \in Undispatched

(* revoke_pending_permit.                                                  *)
RevokePermit(k) ==
  /\ Revocable(k)
  /\ SetRow(k, [row[k] EXCEPT !.status = "blocked_authority", !.revoked = TRUE])
  /\ UNCHANGED <<observed, grant, worker, delivered, crashes>>

(* record_ack.                                                             *)
RecordAck(k) ==
  /\ row[k].status = "sent"
  /\ SetRow(k, [row[k] EXCEPT !.acked = TRUE])
  /\ UNCHANGED <<observed, grant, worker, delivered, crashes>>

(* Mutant of Resolution: an undelivered message is queued again.           *)
ResolutionRequeues(outcome) == IF outcome = "submitted" THEN "sent" ELSE "pending"

Resolution(outcome) == IF outcome = "submitted" THEN "sent" ELSE "resolved_not_delivered"

(* operator_recovery.resolve: one observation per message.                 *)
Resolve(k, outcome) ==
  /\ observed[k] = "none"
  /\ row[k].status = "reconciliation_required"
  /\ observed' = [observed EXCEPT ![k] = outcome]
  /\ SetRow(k, [row[k] EXCEPT !.status = Resolution(outcome)])
  /\ UNCHANGED <<grant, worker, delivered, crashes>>

(* person_approval.issue for the digest of message k.                      *)
IssueApproval(k, life) ==
  /\ grant[k].state = "none"
  /\ grant' = [grant EXCEPT ![k] = [@ EXCEPT !.state = "active", !.life = life]]
  /\ UNCHANGED <<row, observed, worker, delivered, crashes>>

(* person_approval.revoke.                                                 *)
RevokeApproval(k) ==
  /\ grant[k].state = "active"
  /\ grant' = [grant EXCEPT ![k].state = "revoked"]
  /\ UNCHANGED <<row, observed, worker, delivered, crashes>>

(* The ground of an approval moves: a membership is revoked or granted      *)
(* again, the case it was given for is revised.                             *)
ChangeStanding(k) ==
  /\ grant[k].state = "active"
  /\ grant' = [grant EXCEPT ![k].standing = ~@]
  /\ UNCHANGED <<row, observed, worker, delivered, crashes>>

Less(n) == IF n > 0 THEN n - 1 ELSE 0
More(n) == IF n < Horizon THEN n + 1 ELSE Horizon

(* Time passes for rows, approvals and running passes alike.                *)
Tick ==
  /\ row' = [k \in Keys |-> [row[k] EXCEPT
       !.wait = IF @ = NoDate THEN NoDate ELSE Less(@),
       !.permit = Less(@),
       !.age = IF row[k].status = "sending" THEN More(@) ELSE @]]
  /\ grant' = [k \in Keys |-> [grant[k] EXCEPT !.life = Less(@)]]
  /\ worker' = [w \in Workers |-> [worker[w] EXCEPT
       !.elapsed = IF worker[w].pc = "idle" THEN @ ELSE More(@)]]
  /\ UNCHANGED <<observed, delivered, crashes>>

-----------------------------------------------------------------------------
(* The statements of a running pass, in any of their outcomes.             *)
WorkerStep(w) ==
  \/ CheckAuthority(w)
  \/ Claim(w)
  \/ SkipClaim(w)
  \/ ScanAllows(w)
  \/ ScanBlocks(w)
  \/ Recheck(w)
  \/ Transmit(w)
  \/ Settle(w)
  \/ SkipSettle(w)

Next ==
  \/ \E k \in Keys, s \in Schedule, person \in BOOLEAN : Enqueue(k, s, person)
  \/ \E w \in Workers : StartPass(w)
  \/ \E w \in Workers, k \in Keys : SendNow(w, k)
  \/ \E w \in Workers : WorkerStep(w)
  \/ \E w \in Workers : Crash(w)
  \/ \E k \in Keys : RevokePermit(k)
  \/ \E k \in Keys : RecordAck(k)
  \/ \E k \in Keys, outcome \in {"submitted", "not_delivered"} : Resolve(k, outcome)
  \/ \E k \in Approvable, life \in 1..GrantLife : IssueApproval(k, life)
  \/ \E k \in Keys : RevokeApproval(k)
  \/ \E k \in Keys : ChangeStanding(k)
  \/ Tick

Spec == Init /\ [][Next]_vars

(* celery beat runs the sweep for ever, a live worker goes on with its      *)
(* pass, and the clock advances.  Nothing obliges an operator, an approver  *)
(* or the caller of enqueue to act.                                        *)
Fairness ==
  /\ WF_vars(Tick)
  /\ \A w \in Workers : WF_vars(StartPass(w)) /\ WF_vars(WorkerStep(w))

FairSpec == Spec /\ Fairness

-----------------------------------------------------------------------------
(* Every variable has the shape of its table or of the worker's locals.    *)
TypeOK ==
  /\ row \in [Keys -> Row]
  /\ observed \in [Keys -> {"none", "submitted", "not_delivered"}]
  /\ grant \in [Keys -> [state : {"none", "active", "revoked"},
                         life : Nat, standing : BOOLEAN]]
  /\ worker \in [Workers -> WorkerState]
  /\ delivered \in [Keys -> Nat]
  /\ crashes \in Nat

(* process_pending promises that two workers can never both send a row and  *)
(* that a crash after transmit is not re-sent: whatever workers, retries,   *)
(* deaths, stale reclaims and operators do, the supplier gets a message at  *)
(* most once.                                                              *)
AtMostOneDelivery == \A k \in Keys : delivered[k] <= 1

(* An attempt is under way from its claim to its settlement.               *)
InAttempt(w) == worker[w].pc \in {"claimed", "scanned", "cleared", "answered"}

(* A row is in the attempt of one worker only, also after the row was       *)
(* quarantined under a worker that is merely slow.                         *)
ExclusiveAttempt ==
  \A v, w \in Workers :
    InAttempt(v) /\ InAttempt(w) /\ worker[v].key = worker[w].key => v = w

(* The row never contradicts the mailbox: a row that may still be tried, or *)
(* was given up or blocked, was never delivered, and a row is recorded as   *)
(* sent only when it was delivered or an operator saw that it was.         *)
RecordedOutcomeTrue ==
  \A k \in Keys :
    /\ row[k].status \in Undispatched \cup
         {"absent", "held", "dead_letter", "blocked_content", "blocked_authority"}
       => delivered[k] = 0
    /\ row[k].status = "sent" => delivered[k] = 1 \/ observed[k] = "submitted"

(* A row has at most max_attempts attempts, and one with all of them used   *)
(* up is never put back for another.                                       *)
AttemptsBounded ==
  \A k \in Keys :
    /\ row[k].attempts <= MaxAttempts
    /\ row[k].status \in Undispatched => row[k].attempts < MaxAttempts

(* A settled row keeps its outcome: a worker that comes back after its row  *)
(* was quarantined, or after an operator resolved it, cannot overwrite it,  *)
(* and only the operator moves a quarantined row.                          *)
SettledStays ==
  [][\A k \in Keys :
       /\ row[k].status \in Final => row'[k].status = row[k].status
       /\ row[k].status = "reconciliation_required"
          => row'[k].status \in {"reconciliation_required", "sent", "resolved_not_delivered"}
       /\ row[k].status = "reconciliation_required" /\ row'[k].status = "sent"
          => observed'[k] = "submitted"]_vars

(* revoke_pending_permit answers true only when the message is withdrawn    *)
(* for good: a revoked row is never transmitted afterwards, not even by a   *)
(* worker that selected it before the revocation.                          *)
RevokedNeverSent == [][\A k \in Keys : row[k].revoked => delivered'[k] = delivered[k]]_vars

(* The person approval of message k can never be used again.               *)
ApprovalOver(k) ==
  grant[k].state = "revoked" \/ (grant[k].state = "active" /\ grant[k].life = 0)

Cleared(k) == \E w \in Workers : worker[w].pc = "cleared" /\ worker[w].key = k

(* Withdrawing a person approval stops the message it covers wherever it is *)
(* in the pipeline, claimed and scanned included: once the approval is over *)
(* and no worker has passed the last check, none ever passes it.           *)
WithdrawnApprovalStops ==
  [][\A k \in Keys : row[k].person /\ ApprovalOver(k) /\ ~Cleared(k) => ~Cleared(k)']_vars

(* Strengthenings.  A worker past its first check holds a row.              *)
HoldsRow == \A w \in Workers : At(w, "checked") \/ InAttempt(w) => worker[w].key \in Keys

(* Only a quarantined row is ever observed, and it stays as observed.      *)
ObservedClosed ==
  \A k \in Keys :
    /\ observed[k] = "submitted" => row[k].status = "sent"
    /\ observed[k] = "not_delivered" => row[k].status = "resolved_not_delivered"

(* The row of an attempt is as its worker claimed it, or was taken away    *)
(* from the worker by a quarantine; no second attempt ever starts.         *)
AttemptFenced ==
  \A w \in Workers : InAttempt(w) =>
    LET k == worker[w].key
    IN  /\ row[k].attempts = worker[w].tries
        /\ row[k].status \in {"sending", "reconciliation_required"} \/ observed[k] # "none"

(* What the worker of an attempt knows about the mailbox is true.          *)
OutcomeTrue ==
  \A w \in Workers :
    LET k == worker[w].key
    IN  /\ worker[w].pc \in {"claimed", "scanned", "cleared"} => delivered[k] = 0
        /\ At(w, "answered") =>
             /\ worker[w].outcome # "none"
             /\ worker[w].outcome = "sent" => delivered[k] = 1
             /\ worker[w].outcome = "failed" => delivered[k] = 0

(* A withdrawn permit goes with a closed row.                              *)
RevokedClosed == \A k \in Keys : row[k].revoked => row[k].status = "blocked_authority"

(* The inductive invariant behind the theorems: the queue's fencing, over  *)
(* all the interleavings that the properties above are about.              *)
FencingInv ==
  /\ HoldsRow
  /\ ObservedClosed
  /\ AttemptFenced
  /\ ExclusiveAttempt
  /\ OutcomeTrue
  /\ RecordedOutcomeTrue
  /\ AtMostOneDelivery
  /\ RevokedClosed

(* The queue implements the at-most-once promise: what a row says of its    *)
(* message, told by operators apart from what workers recorded.            *)
PhaseOf(k) ==
  CASE row[k].status = "absent" -> "none"
    [] row[k].status \in Undispatched -> "open"
    [] row[k].status = "sending" -> "trying"
    [] row[k].status = "reconciliation_required" -> "uncertain"
    [] row[k].status = "sent" /\ observed[k] = "none" -> "done"
    [] row[k].status = "sent" /\ observed[k] # "none" -> "judged_done"
    [] row[k].status = "resolved_not_delivered" -> "judged_not_done"
    [] OTHER -> "not_done"

Effect == INSTANCE AtMostOnceEffect WITH
  Effects <- Keys, phase <- [k \in Keys |-> PhaseOf(k)], happened <- delivered

ImplementsAtMostOnceEffect == Effect!EffectSpec

(* Every queued email is decided: sent, given up, blocked or handed to the  *)
(* operator; the permit's expiry ends even an endless series of failures.  *)
EveryMessageDecided ==
  \A k \in Keys : row[k].status \in Undispatched
                  ~> row[k].status \notin Undispatched \cup {"sending"}

(* No message stays in flight: a claim whose worker died is quarantined by  *)
(* the pass of another.                                                    *)
ClaimsEnd == \A k \in Keys : row[k].status = "sending" ~> row[k].status # "sending"

=============================================================================
