------------------------------- MODULE Payments -------------------------------
(***************************************************************************)
(* The payment of one order: checkouts create an intent at the provider     *)
(* and associate it with the order (routers/payments.py, checkout_initiate, *)
(* and payment_attempts.py), the provider reports what became of it by      *)
(* events that arrive at least once and in any order                        *)
(* (payment_webhook_delivery.py), and the side effects of an event are jobs *)
(* of an outbox: the ledger entry and the dispatch, which an owner approves  *)
(* first if the order is large (dispatch_agent.py).  Each process goes from  *)
(* one database transaction or one provider call to the next and may stop,  *)
(* fail or stall at any of them.                                           *)
(***************************************************************************)
EXTENDS Naturals, FiniteSets

CONSTANTS
  Keys,        (* idempotency keys of the checkouts of the order             *)
  NoKey,
  Workers,     (* threads that serve the webhook or the reconcile scheduler  *)
  Nobody,
  MaxMishaps   (* bound on failures, deaths and stalls beyond a lease        *)

ASSUME PaymentsAssumption ==
  /\ NoKey \notin Keys
  /\ Nobody \notin Workers
  /\ MaxMishaps \in Nat

Kinds == {"succeeded", "failed"}
Events == Kinds \X Keys
KeyOf(e) == e[2]
Effects == {"ledger", "dispatch"}
Jobs == (Events \X {"ledger"}) \cup (({"succeeded"} \X Keys) \X {"dispatch"})
EventOf(j) == j[1]

VARIABLES
  order,      (* the row of the order, and whether its stock is reserved     *)
  cancelling, (* a cancel request read the order as 'created'                *)
  checkout,   (* where the checkout with each key is                         *)
  attempt,    (* state of the payment_attempts row of each key               *)
  charge,     (* the intent of each key, at the provider                     *)
  emitted,    (* events the provider delivers, again and again               *)
  inbox,      (* stripe_events                                               *)
  jobs,       (* payment_side_effect_jobs                                    *)
  entries,    (* payment_transactions appended for each event                *)
  dispatch,   (* the dispatch of the order: what the queue and the ledger    *)
              (* hold of it, and whether a failed write was passed over      *)
  worker,     (* where each worker is                                        *)
  lock,       (* who holds the row of the order FOR UPDATE                   *)
  mishaps

vars == <<order, cancelling, checkout, attempt, charge, emitted, inbox, jobs,
          entries, dispatch, worker, lock, mishaps>>
storevars == <<order, cancelling, entries, dispatch>>
checkoutvars == <<checkout, attempt, charge, emitted>>
deliveryvars == <<inbox, jobs, worker>>

(* "paid" stands for what becomes of a paid order as well.                 *)
Statuses == {"created", "paid", "payment_failed", "cancelled"}
CheckoutPC == {"ready", "call", "mark", "associate", "answered", "ended"}
WorkerPC ==
  {"idle", "apply", "ack", "fail", "drain", "jobs", "write", "note", "done", "undone"}

(* The claim columns of an inbox or outbox row.                            *)
Claim == [state : {"none", "pending", "processing", "processed", "failed"},
          by : Workers \cup {Nobody}, expired : BOOLEAN]
Unclaimed(state) == [state |-> state, by |-> Nobody, expired |-> FALSE]
ClaimedBy(w) == [state |-> "processing", by |-> w, expired |-> FALSE]

IdleWorker == [pc |-> "idle", event |-> <<>>, todo |-> {}, job |-> <<>>, found |-> FALSE]

(* queued: outbound_message has the row of the order's key; held, noted: the *)
(* ledger has a dispatch_pending_approval, a dispatch_queued entry;         *)
(* swallowed: a job failed to write either, and no code knows.              *)
Dispatch == [queued : BOOLEAN, held : BOOLEAN, noted : BOOLEAN, swallowed : BOOLEAN]

TypeOK ==
  /\ order \in [status : Statuses, intent : Keys \cup {NoKey}, reserved : BOOLEAN]
  /\ cancelling \in BOOLEAN
  /\ checkout \in [Keys -> CheckoutPC]
  /\ attempt \in [Keys -> {"none", "reserved", "provider_created", "associated", "failed"}]
  /\ charge \in [Keys -> {"none", "open", "captured"}]
  /\ emitted \subseteq Events
  /\ inbox \in [Events -> Claim]
  /\ jobs \in [Jobs -> Claim]
  /\ entries \in [Events -> Nat]
  /\ dispatch \in Dispatch
  /\ worker \in [Workers -> [pc : WorkerPC, event : Events \cup {<<>>}, todo : SUBSET Jobs,
                             job : Jobs \cup {<<>>}, found : BOOLEAN]]
  /\ lock \in Workers \cup {Nobody}
  /\ mishaps \in 0..MaxMishaps

Init ==
  /\ order = [status |-> "created", intent |-> NoKey, reserved |-> TRUE]
  /\ cancelling = FALSE
  /\ checkout = [k \in Keys |-> "ready"]
  /\ attempt = [k \in Keys |-> "none"]
  /\ charge = [k \in Keys |-> "none"]
  /\ emitted = {}
  /\ inbox = [e \in Events |-> Unclaimed("none")]
  /\ jobs = [j \in Jobs |-> Unclaimed("none")]
  /\ entries = [e \in Events |-> 0]
  /\ dispatch = [queued |-> FALSE, held |-> FALSE, noted |-> FALSE, swallowed |-> FALSE]
  /\ worker = [w \in Workers |-> IdleWorker]
  /\ lock = Nobody
  /\ mishaps = 0

Mishap == mishaps < MaxMishaps /\ mishaps' = mishaps + 1
Unlocked == lock = Nobody

-----------------------------------------------------------------------------
(* checkout_initiate.                                                      *)
Checkout(k, pc) == checkout' = [checkout EXCEPT ![k] = pc]
Attempt(k, state) == attempt' = [attempt EXCEPT ![k] = state]

(* The key is reserved first, so that a second call with it is a 409 from   *)
(* then on; open_attempt, fail closed, follows.                            *)
Initiate(k) ==
  /\ checkout[k] = "ready"
  /\ \/ Attempt(k, "reserved") /\ Checkout(k, "call") /\ UNCHANGED mishaps
     \/ Checkout(k, "ended") /\ Mishap /\ UNCHANGED attempt
  /\ UNCHANGED <<storevars, charge, emitted, deliveryvars, lock>>

(* create_payment_intent.  Without an answer the intent may exist or not,   *)
(* and mark_failed is one more write that may be lost.                     *)
CreateIntent(k) ==
  /\ checkout[k] = "call"
  /\ \/ /\ charge' = [charge EXCEPT ![k] = "open"]
        /\ Checkout(k, "mark")
        /\ UNCHANGED <<attempt, mishaps>>
     \/ /\ charge' \in {charge, [charge EXCEPT ![k] = "open"]}
        /\ Attempt(k, "failed") \/ UNCHANGED attempt
        /\ Checkout(k, "ended")
        /\ Mishap
  /\ UNCHANGED <<storevars, emitted, deliveryvars, lock>>

(* mark_provider_created; its loss is only logged.                         *)
MarkCreated(k) ==
  /\ checkout[k] = "mark"
  /\ Checkout(k, "associate")
  /\ \/ Attempt(k, "provider_created") /\ UNCHANGED mishaps
     \/ Mishap /\ UNCHANGED attempt
  /\ UNCHANGED <<storevars, charge, emitted, deliveryvars, lock>>

(* Order and attempt in one transaction, whatever the order says by now; if *)
(* it is lost the buyer gets the answer all the same.                      *)
Associate(k) ==
  /\ checkout[k] = "associate"
  /\ Checkout(k, "answered")
  /\ \/ /\ Unlocked
        /\ order' = [order EXCEPT !.intent = k]
        /\ Attempt(k, "associated")
        /\ UNCHANGED mishaps
     \/ Mishap /\ UNCHANGED <<order, attempt>>
  /\ UNCHANGED <<cancelling, entries, dispatch, charge, emitted, deliveryvars, lock>>

(* The process dies; no answer reaches the buyer.                          *)
DieInCheckout(k) ==
  /\ checkout[k] \in {"call", "mark", "associate"}
  /\ Checkout(k, "ended")
  /\ Mishap
  /\ UNCHANGED <<storevars, attempt, charge, emitted, deliveryvars, lock>>

Linkable == order.intent = NoKey

(* reconcile_orphans, for one attempt.  The list it goes through was read   *)
(* before, which makes no difference: an attempt leaves provider_created    *)
(* only for associated, and the order never loses an intent.               *)
Reconcile(k) ==
  /\ attempt[k] = "provider_created"
  /\ Unlocked
  /\ order' = IF Linkable THEN [order EXCEPT !.intent = k] ELSE order
  /\ Attempt(k, "associated")
  /\ UNCHANGED <<cancelling, entries, dispatch, checkout, charge, emitted, deliveryvars,
                 lock, mishaps>>

-----------------------------------------------------------------------------
(* The provider: the buyer confirms an intent she has the secret of.        *)
Capture(k) ==
  /\ checkout[k] = "answered" /\ charge[k] = "open"
  /\ charge' = [charge EXCEPT ![k] = "captured"]
  /\ emitted' = emitted \cup {<<"succeeded", k>>}
  /\ UNCHANGED <<storevars, checkout, attempt, deliveryvars, lock, mishaps>>

(* The card is declined; the intent stays open for another one.            *)
Decline(k) ==
  /\ checkout[k] = "answered" /\ charge[k] = "open"
  /\ emitted' = emitted \cup {<<"failed", k>>}
  /\ emitted' # emitted
  /\ UNCHANGED <<storevars, checkout, attempt, charge, deliveryvars, lock, mishaps>>

-----------------------------------------------------------------------------
(* Operators: cancel reads the status and compares it again as it writes.   *)
ReadForCancel ==
  /\ ~cancelling /\ order.status = "created"
  /\ cancelling' = TRUE
  /\ UNCHANGED <<order, entries, dispatch, checkoutvars, deliveryvars, lock, mishaps>>

(* Mutant of CancelWins: the status is not compared again.                 *)
CancelAlwaysWins == TRUE

CancelWins == order.status = "created"

Cancel ==
  /\ cancelling /\ Unlocked
  /\ cancelling' = FALSE
  /\ order' = IF CancelWins
              THEN [order EXCEPT !.status = "cancelled", !.reserved = FALSE] ELSE order
  /\ UNCHANGED <<entries, dispatch, checkoutvars, deliveryvars, lock, mishaps>>

(* update_status; its compare-and-swap leaves nothing between its two reads. *)
MarkPaid ==
  /\ order.status = "created" /\ Unlocked
  /\ order' = [order EXCEPT !.status = "paid"]
  /\ UNCHANGED <<cancelling, entries, dispatch, checkoutvars, deliveryvars, lock, mishaps>>

-----------------------------------------------------------------------------
(* The webhook.                                                            *)
At(w, pc) == worker[w].pc = pc
SetWorker(w, r) == worker' = [worker EXCEPT ![w] = r]
Goto(w, pc) == SetWorker(w, IF pc = "idle" THEN IdleWorker ELSE [worker[w] EXCEPT !.pc = pc])

(* Mutant of Claimable: a row that is being processed is never taken over.  *)
ClaimableOnce(row) == row.state \in {"none", "pending", "failed"}

(* The guard of claim_event and of _claim_jobs.                            *)
Claimable(row) ==
  row.state \in {"none", "pending", "failed"} \/ (row.state = "processing" /\ row.expired)

(* claim_event, committed.  A live claim answers 503, and a processed event *)
(* only drains the outbox (Drain).                                         *)
Receive(w, e) ==
  /\ At(w, "idle")
  /\ e \in emitted
  /\ Claimable(inbox[e])
  /\ inbox' = [inbox EXCEPT ![e] = ClaimedBy(w)]
  /\ SetWorker(w, [IdleWorker EXCEPT !.pc = "apply", !.event = e])
  /\ UNCHANGED <<storevars, checkoutvars, jobs, lock, mishaps>>

(* Mutant of Matches: the event decides whatever the status of the order.   *)
MatchesIntent(k) == order.intent = k

Matches(k) == order.intent = k /\ order.status = "created"

Enqueued(new) ==
  [j \in Jobs |-> IF j \in new /\ jobs[j].state = "none" THEN Unclaimed("pending") ELSE jobs[j]]

(* _apply_payment_webhook_event: status, stock and jobs in one transaction; *)
(* an event that finds no order in 'created' changes nothing.              *)
Apply(w) ==
  /\ At(w, "apply")
  /\ LET e == worker[w].event
     IN  \/ /\ Matches(KeyOf(e)) /\ Unlocked
            /\ order' = IF e[1] = "succeeded"
                        THEN [order EXCEPT !.status = "paid"]
                        ELSE [order EXCEPT !.status = "payment_failed", !.reserved = FALSE]
            /\ jobs' = Enqueued({j \in Jobs : EventOf(j) = e})
            /\ Goto(w, "ack")
            /\ UNCHANGED mishaps
         \/ ~Matches(KeyOf(e)) /\ Goto(w, "ack") /\ UNCHANGED <<order, jobs, mishaps>>
         \/ Goto(w, "fail") /\ Mishap /\ UNCHANGED <<order, jobs>>
  /\ UNCHANGED <<cancelling, entries, dispatch, checkoutvars, inbox, lock>>

(* mark_event_processed: a claim that was lost ends the request, and its    *)
(* mark_event_failed then finds another token.                             *)
Ack(w) ==
  /\ At(w, "ack")
  /\ LET e == worker[w].event
     IN  IF inbox[e] \in [state : {"processing"}, by : {w}, expired : BOOLEAN]
         THEN inbox' = [inbox EXCEPT ![e] = Unclaimed("processed")] /\ Goto(w, "drain")
         ELSE UNCHANGED inbox /\ Goto(w, "idle")
  /\ UNCHANGED <<storevars, checkoutvars, jobs, lock, mishaps>>

(* mark_event_failed, and 503 to the provider.                             *)
Fail(w) ==
  /\ At(w, "fail")
  /\ LET e == worker[w].event
     IN  inbox' = IF inbox[e].by = w
                  THEN [inbox EXCEPT ![e] = Unclaimed("failed")] ELSE inbox
  /\ Goto(w, "idle")
  /\ UNCHANGED <<storevars, checkoutvars, jobs, lock, mishaps>>

-----------------------------------------------------------------------------
(* drain_jobs: behind a webhook, behind the duplicate of one, or in the     *)
(* scheduler's pass.                                                       *)
Open == {j \in Jobs : jobs[j].state # "none" /\ Claimable(jobs[j])}

Drain(w) ==
  /\ At(w, "drain") \/ (At(w, "idle") /\ Open # {})
  /\ jobs' = [j \in Jobs |-> IF j \in Open THEN ClaimedBy(w) ELSE jobs[j]]
  /\ SetWorker(w, IF Open = {} THEN IdleWorker
                  ELSE [IdleWorker EXCEPT !.pc = "jobs", !.todo = Open])
  /\ UNCHANGED <<storevars, checkoutvars, inbox, lock, mishaps>>

(* Mutant of LocksOrder: the order is read without FOR UPDATE.             *)
LocksNothing(j) == FALSE

LocksOrder(j) == j[2] = "ledger"

(* What _ledger_txn_for_intent and _dispatch_paid_order read: the order     *)
(* behind the intent, and whether the entry is there already.              *)
ToDo(j) ==
  /\ order.intent = KeyOf(EventOf(j))
  /\ j[2] = "ledger" => entries[EventOf(j)] = 0

BeginJob(w, j) ==
  /\ At(w, "jobs")
  /\ j \in worker[w].todo
  /\ LocksOrder(j) => Unlocked
  /\ lock' = IF LocksOrder(j) THEN w ELSE lock
  /\ SetWorker(w, [worker[w] EXCEPT !.pc = "write", !.job = j, !.found = ToDo(j)])
  /\ UNCHANGED <<storevars, checkoutvars, inbox, jobs, mishaps>>

Unlock(w) == lock' = IF lock = w THEN Nobody ELSE lock

(* _ledger_txn_for_intent: the entry commits, or the handler raises.       *)
WriteLedger(w) ==
  /\ At(w, "write") /\ worker[w].job[2] = "ledger"
  /\ LET e == EventOf(worker[w].job)
     IN  \/ /\ entries' = IF worker[w].found THEN [entries EXCEPT ![e] = @ + 1] ELSE entries
            /\ Goto(w, "done")
            /\ UNCHANGED mishaps
         \/ Goto(w, "undone") /\ Mishap /\ UNCHANGED entries
  /\ Unlock(w)
  /\ UNCHANGED <<order, cancelling, dispatch, checkoutvars, inbox, jobs>>

(* enqueue, under the key of the order, so that the row is there once.  It   *)
(* commits by itself, or answers status 'error', which execute_dispatch     *)
(* does not look at.                                                       *)
Queues ==
  \/ dispatch' = [dispatch EXCEPT !.queued = TRUE] /\ UNCHANGED mishaps
  \/ dispatch' = [dispatch EXCEPT !.swallowed = TRUE] /\ Mishap

(* record_txn of the hold, in a try that only logs.                        *)
Holds ==
  \/ dispatch' = [dispatch EXCEPT !.held = TRUE] /\ UNCHANGED mishaps
  \/ dispatch' = [dispatch EXCEPT !.swallowed = TRUE] /\ Mishap

(* record_txn of dispatch_queued, in a try that only logs.                 *)
Notes ==
  \/ dispatch' = [dispatch EXCEPT !.noted = TRUE] /\ UNCHANGED mishaps
  \/ UNCHANGED dispatch /\ Mishap

(* dispatch_for_paid_order up to the commit of the hold, or of the queue's   *)
(* row.  Which one is a choice: the total and the threshold, which each     *)
(* call reads from the environment, are not in the model.                   *)
DispatchOrder(w) ==
  /\ At(w, "write") /\ worker[w].job[2] = "dispatch"
  /\ \/ ~worker[w].found /\ Goto(w, "done") /\ UNCHANGED <<dispatch, mishaps>>
     \/ worker[w].found /\ Holds /\ Goto(w, "done")
     \/ worker[w].found /\ Queues /\ Goto(w, "note")
     \/ Goto(w, "undone") /\ Mishap /\ UNCHANGED dispatch
  /\ UNCHANGED <<order, cancelling, entries, checkoutvars, inbox, jobs, lock>>

(* The rest of execute_dispatch: the ledger says that it is queued.        *)
NoteDispatch(w) ==
  /\ At(w, "note")
  /\ \/ Notes /\ Goto(w, "done")
     \/ Goto(w, "undone") /\ Mishap /\ UNCHANGED dispatch
  /\ UNCHANGED <<order, cancelling, entries, checkoutvars, inbox, jobs, lock>>

(* The job is marked under the token it was claimed with.                  *)
MarkJob(w) ==
  /\ At(w, "done") \/ At(w, "undone")
  /\ LET j == worker[w].job
         rest == worker[w].todo \ {j}
     IN  /\ jobs' = IF jobs[j].by = w
                    THEN [jobs EXCEPT ![j] =
                            Unclaimed(IF At(w, "done") THEN "processed" ELSE "failed")]
                    ELSE jobs
         /\ SetWorker(w, IF rest = {} THEN IdleWorker
                         ELSE [IdleWorker EXCEPT !.pc = "jobs", !.todo = rest])
  /\ UNCHANGED <<storevars, checkoutvars, inbox, lock, mishaps>>

-----------------------------------------------------------------------------
(* pending_dispatch.                                                       *)
OpenHold == dispatch.held /\ ~dispatch.noted

(* dispatch_approve: the same execute_dispatch, for the owner.  Its two       *)
(* commits are one step, as nobody but another owner reads what they write,  *)
(* and she would write the same.                                           *)
ApproveDispatch ==
  /\ OpenHold
  /\ \/ dispatch' = [dispatch EXCEPT !.queued = TRUE, !.noted = TRUE] /\ UNCHANGED mishaps
     \/ /\ dispatch' \in {[dispatch EXCEPT !.queued = TRUE], [dispatch EXCEPT !.noted = TRUE]}
        /\ Mishap
  /\ UNCHANGED <<order, cancelling, entries, checkoutvars, deliveryvars, lock>>

-----------------------------------------------------------------------------
Die(w) ==
  /\ ~At(w, "idle")
  /\ Goto(w, "idle")
  /\ Unlock(w)
  /\ Mishap
  /\ UNCHANGED <<storevars, checkoutvars, inbox, jobs>>

(* Sixty seconds pass.  A claim runs out while its worker still works only  *)
(* if the worker stalls.                                                   *)
Held(row, working) == row.state = "processing" /\ ~row.expired /\
                      (IF working THEN Mishap ELSE UNCHANGED mishaps)

EventLeaseEnds(e) ==
  /\ Held(inbox[e], \E w \in Workers : inbox[e].by = w /\ worker[w].event = e)
  /\ inbox' = [inbox EXCEPT ![e].expired = TRUE]
  /\ UNCHANGED <<storevars, checkoutvars, jobs, worker, lock>>

JobLeaseEnds(j) ==
  /\ Held(jobs[j], \E w \in Workers : jobs[j].by = w /\ j \in worker[w].todo)
  /\ jobs' = [jobs EXCEPT ![j].expired = TRUE]
  /\ UNCHANGED <<storevars, checkoutvars, inbox, worker, lock>>

CheckoutStep(k) ==
  CreateIntent(k) \/ MarkCreated(k) \/ Associate(k) \/ DieInCheckout(k)
WorkerStep(w) ==
  \/ (\E e \in Events : Receive(w, e)) \/ Apply(w) \/ Ack(w) \/ Fail(w)
  \/ Drain(w) \/ (\E j \in Jobs : BeginJob(w, j))
  \/ WriteLedger(w) \/ DispatchOrder(w) \/ NoteDispatch(w) \/ MarkJob(w)
LeaseEnds == (\E e \in Events : EventLeaseEnds(e)) \/ (\E j \in Jobs : JobLeaseEnds(j))

Next ==
  \/ \E k \in Keys : Initiate(k) \/ CheckoutStep(k) \/ Reconcile(k) \/ Capture(k) \/ Decline(k)
  \/ ReadForCancel \/ Cancel
  \/ MarkPaid
  \/ ApproveDispatch
  \/ \E w \in Workers : WorkerStep(w) \/ Die(w)
  \/ LeaseEnds

Spec == Init /\ [][Next]_vars

(* The provider redelivers until it gets its 2xx, threads run on, leases    *)
(* run out, and the scheduler keeps reconciling and draining.              *)
Fairness ==
  /\ WF_vars(\E k \in Keys : Reconcile(k))
  /\ \A w \in Workers : WF_vars(WorkerStep(w))
  /\ WF_vars(LeaseEnds)

FairSpec == Spec /\ Fairness

-----------------------------------------------------------------------------
(* However often an event is delivered and its job is driven, by however    *)
(* many workers at a time, the ledger gets one entry of it: a doubled       *)
(* payment_succeeded would loosen the cap on refunds.                      *)
BookedOnce == \A e \in Events : entries[e] <= 1

(* No race of a cancellation or of a decline with a payment leaves a paid   *)
(* order without the stock that was reserved for it.                       *)
PaidKeepsStock == order.status = "paid" => order.reserved

(* An event that was overtaken by another one does not undo it: a paid      *)
(* order is not failed by the late report of an earlier decline, nor        *)
(* cancelled by a request that read it before it was paid.                  *)
PaidStays == [][order.status = "paid" => order'.status = "paid"]_order

(* A payment reported after the order named its intent is not lost on the   *)
(* way: deaths, stalls and lost claims only delay the event, until the      *)
(* order has left 'created'.                                               *)
NamedIsPaid ==
  \A k \in Keys :
    (/\ charge[k] = "captured"
     /\ order.intent = k
     /\ inbox[<<"succeeded", k>>].state \in {"none", "failed"})
      ~> (order.status # "created" \/ order.intent # k)

(* What an acknowledged event set in motion is carried out: the ledger gets *)
(* its entry, and the dispatch is queued or held for an owner, unless a      *)
(* failure to do so was swallowed, or a later checkout has given the order   *)
(* another intent.                                                         *)
FollowedUp ==
  \A j \in Jobs :
    jobs[j].state = "pending"
      ~> (\/ IF j[2] = "ledger" THEN entries[EventOf(j)] = 1
             ELSE dispatch.queued \/ OpenHold \/ dispatch.swallowed
          \/ order.intent # KeyOf(EventOf(j)))

(* An order whose only checkout was charged does not stay unpaid            *)
(* (payment_attempts: "This makes the association RECOVERABLE").            *)
ChargedIsPaid == \A k \in Keys : charge[k] = "captured" ~> order.status # "created"

=============================================================================
