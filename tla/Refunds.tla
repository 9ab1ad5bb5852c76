-------------------------------- MODULE Refunds --------------------------------
(***************************************************************************)
(* The refunds of one paid order.  A refund is requested and approved on    *)
(* the append-only ledger (refund_requests.py, payment_ledger.py and        *)
(* routers/payments.py), executed at the provider by passes over            *)
(* refund_executions (refund_execution.py), and booked when jobs of the     *)
(* webhook's outbox bring the provider's receipts (Payments has what        *)
(* carries these jobs).  The ledger appears as refund_state folds it.  The   *)
(* model is of one charge: what is approved once the order names the intent *)
(* of a later checkout is a refund of another charge.                       *)
(***************************************************************************)
EXTENDS Integers, Sequences, FiniteSets, FiniteSetsExt

CONSTANTS
  Captured,    (* what was charged, in units a refund can be split into      *)
  Executors,   (* passes over the executions: scheduler, approve, execute    *)
  Bookers,     (* drains of the outbox: webhooks, scheduler                  *)
  Nobody,
  Reports,     (* events that carry the receipt of one refund                *)
  MaxMishaps   (* bound on lost answers, failures, deaths, stalls and later   *)
               (* checkouts                                                  *)

ASSUME RefundsAssumption ==
  /\ Captured \in Nat \ {0} /\ Reports \in Nat \ {0} /\ MaxMishaps \in Nat
  /\ Nobody \notin Executors /\ Nobody \notin Bookers

Amounts == 1..Captured
Index == 1..Captured    (* approvals; none is for less than a unit           *)

(* A refund at the provider is known by the approval it came from and a key; *)
(* the one a person makes in the provider's dashboard came from none.       *)
Refs == (0..Captured) \X (Executors \cup {Nobody})
Manual == <<0, Nobody>>
NoRef == <<>>

VARIABLES
  order,      (* "paid" (shipped, delivered), or "returned" by the bookings  *)
  linked,     (* the order names the intent of this charge                   *)
  requested,  (* amounts of the refund_requested entries                     *)
  approvals,  (* number of refund_approved entries, and their total          *)
  approved,
  refundable, (* what a request could ask for just after the last approval   *)
  settled,    (* total of the refund_settled entries                         *)
  booked,     (* number of refund_settled entries for each refund            *)
  exec,       (* refund_executions                                           *)
  refund,     (* refunds at the provider                                     *)
  due,        (* jobs of the outbox that carry the receipt of a refund       *)
  executor, booker,
  lock,       (* the booker that holds the order FOR UPDATE                  *)
  mishaps

vars == <<order, linked, requested, approvals, approved, refundable, settled, booked, exec, refund, due,
          executor, booker, lock, mishaps>>
approvalvars == <<approvals, approved, refundable>>
bookvars == <<order, linked, settled, booked, booker, lock>>
providervars == <<refund, due>>

Execution == [state : {"none", "pending", "processing", "provider_submitted", "settled", "failed"},
              by : Executors \cup {Nobody}, expired : BOOLEAN, ref : Refs \cup {NoRef},
              permit : BOOLEAN]
NoExecution ==
  [state |-> "none", by |-> Nobody, expired |-> FALSE, ref |-> NoRef, permit |-> TRUE]
NoRefund == [amount |-> 0, status |-> "none"]

IdleExecutor == [pc |-> "idle", row |-> 1, answer |-> "none"]
IdleBooker == [pc |-> "idle", ref |-> NoRef, seen |-> FALSE]

TypeOK ==
  /\ order \in {"paid", "returned"}
  /\ linked \in BOOLEAN
  /\ requested \in Seq(Amounts)
  /\ approvals \in Nat /\ approved \in Nat /\ refundable \in Int /\ settled \in Nat
  /\ booked \in [Refs -> Nat]
  /\ exec \in [Index -> Execution]
  /\ refund \in [Refs -> [amount : 0..Captured,
                          status : {"none", "pending", "succeeded", "failed"}]]
  /\ due \in [Refs -> Nat]
  /\ executor \in [Executors -> [pc : {"idle", "call", "mark"}, row : Index,
                                 answer : {"none", "pending", "succeeded", "failed"}]]
  /\ booker \in [Bookers -> [pc : {"idle", "book"}, ref : Refs \cup {NoRef}, seen : BOOLEAN]]
  /\ lock \in Bookers \cup {Nobody}
  /\ mishaps \in 0..MaxMishaps

Init ==
  /\ order = "paid"
  /\ linked = TRUE
  /\ requested = <<>> /\ approvals = 0 /\ approved = 0 /\ refundable = Captured /\ settled = 0
  /\ booked = [r \in Refs |-> 0]
  /\ exec = [i \in Index |-> NoExecution]
  /\ refund = [r \in Refs |-> NoRefund]
  /\ due = [r \in Refs |-> 0]
  /\ executor = [x \in Executors |-> IdleExecutor]
  /\ booker = [b \in Bookers |-> IdleBooker]
  /\ lock = Nobody
  /\ mishaps = 0

Mishap == mishaps < MaxMishaps /\ mishaps' = mishaps + 1

-----------------------------------------------------------------------------
(* A request or an approval counts the ledger, and appends to it later.  As *)
(* the ledger only grows, what it acts on is any earlier state of it; the   *)
(* slot it reserves with the append lets the latest count through only.     *)

(* Mutant of SlotFree: the slot is not reserved.                           *)
SlotFreeAlways(n, count) == TRUE

(* reserve_refund_slot.  Slot n is taken in the transaction that appends    *)
(* entry n+1, so it is free as long as the ledger has n of them.           *)
SlotFree(n, count) == n = count

(* create_refund_request, which read the ledger when it had no open request. *)
(* The amount then refundable was at most what the last approval left; an   *)
(* order returned by then had nothing left.                                *)
Request(a) ==
  /\ a <= refundable
  /\ SlotFree(approvals, Len(requested))
  /\ requested' = Append(requested, a)
  /\ UNCHANGED <<approvalvars, bookvars, exec, providervars, executor, mishaps>>

(* refund_approve, which read n approvals and a request more: approval and   *)
(* execution in one commit.  open_execution keeps a row that has the key.   *)
Approve(n) ==
  /\ linked
  /\ n < Len(requested)
  /\ SlotFree(n, approvals)
  /\ approvals' = approvals + 1
  /\ approved' = approved + requested[n + 1]
  /\ refundable' = Captured - (IF approved' > settled THEN approved' ELSE settled)
  /\ exec' = IF exec[n + 1].state = "none"
             THEN [exec EXCEPT ![n + 1].state = "pending"] ELSE exec
  /\ UNCHANGED <<requested, bookvars, providervars, executor, mishaps>>

-----------------------------------------------------------------------------
(* execute_pending.                                                        *)
SetExecutor(x, r) == executor' = [executor EXCEPT ![x] = r]
At(x, pc) == executor[x].pc = pc

(* Mutant of Selectable: a claim is never taken over.                      *)
SelectableOnce(row) == row.state \in {"pending", "failed"}

Selectable(row) ==
  row.state \in {"pending", "failed"} \/ (row.state = "processing" /\ row.expired)

(* Mutant of Permitted: the permit is not asked for again by the claim.     *)
PermittedOnce(row) == TRUE

Permitted(row) == row.permit

(* A pass selects rows and claims them one by one, asking again for all     *)
(* that it saw; the selection appears with the claim.                      *)
Claim(x, i) ==
  /\ At(x, "idle")
  /\ Selectable(exec[i]) /\ Permitted(exec[i])
  /\ exec' = [exec EXCEPT ![i].state = "processing", ![i].by = x, ![i].expired = FALSE]
  /\ SetExecutor(x, [IdleExecutor EXCEPT !.pc = "call", !.row = i])
  /\ UNCHANGED <<requested, approvalvars, bookvars, providervars, mishaps>>

(* Mutant of KeyOf: every claim calls the provider with a key of its own.   *)
KeyOfClaim(x, i) == <<i, x>>

(* The idempotency key of the approval.                                    *)
KeyOf(x, i) == <<i, Nobody>>

(* What these refunds amount to.                                           *)
AmountOf(refs) == SumFunctionOnSet([r \in Refs |-> refund[r].amount], refs)

(* What the provider has of the charge still.                              *)
Live == {r \in Refs : refund[r].status \in {"pending", "succeeded"}}
Left == Captured - AmountOf(Live)

MakeRefund(r, a, status) ==
  /\ refund[r].status = "none"
  /\ a <= Left
  /\ refund' = [refund EXCEPT ![r] = [amount |-> a, status |-> status]]
  /\ due' = IF status = "succeeded" THEN [due EXCEPT ![r] = Reports] ELSE due

(* create_refund: a new refund, the one that has the key already, or an     *)
(* error; the answer, or the process that waits for it, may be lost.        *)
CallProvider(x) ==
  /\ At(x, "call")
  /\ LET i == executor[x].row
         r == KeyOf(x, i)
         Answered(status) == SetExecutor(x, [executor[x] EXCEPT !.pc = "mark", !.answer = status])
     IN  \/ \E status \in {"pending", "succeeded"} :
              /\ MakeRefund(r, requested[i], status)
              /\ \/ Answered(status) /\ UNCHANGED mishaps
                 \/ Answered("failed") /\ Mishap
         \/ /\ refund[r].status # "none"
            /\ Answered(refund[r].status)
            /\ UNCHANGED <<providervars, mishaps>>
         \/ /\ refund[r].status = "none"
            /\ IF requested[i] > Left THEN UNCHANGED mishaps ELSE Mishap
            /\ Answered("failed")
            /\ UNCHANGED providervars
  /\ UNCHANGED <<requested, approvalvars, bookvars, exec>>

(* Mutant of Owns: any executor may mark the row.                          *)
OwnsAlways(x, i) == TRUE

(* The guard of _set.                                                      *)
Owns(x, i) == exec[i].by = x /\ exec[i].state = "processing"

(* mark_settled, mark_submitted or mark_failed.                            *)
Mark(x) ==
  /\ At(x, "mark")
  /\ LET i == executor[x].row
         answer == executor[x].answer
         Marked(state) == [exec[i] EXCEPT !.state = state, !.by = Nobody, !.expired = FALSE]
     IN  exec' =
           IF ~Owns(x, i) THEN exec
           ELSE [exec EXCEPT ![i] =
                   IF answer = "failed" THEN Marked("failed")
                   ELSE [Marked(IF answer = "succeeded" THEN "settled" ELSE "provider_submitted")
                           EXCEPT !.ref = KeyOf(x, i)]]
  /\ SetExecutor(x, IdleExecutor)
  /\ UNCHANGED <<requested, approvalvars, bookvars, providervars, mishaps>>

DieExecuting(x) ==
  /\ ~At(x, "idle")
  /\ SetExecutor(x, IdleExecutor)
  /\ Mishap
  /\ UNCHANGED <<requested, approvalvars, bookvars, exec, providervars>>

(* Sixty seconds pass, for a live executor only if it stalls.              *)
LeaseEnds(i) ==
  /\ exec[i].state = "processing" /\ ~exec[i].expired
  /\ IF \E x \in Executors : /\ exec[i].by = x
                             /\ executor[x].pc \in {"call", "mark"} /\ executor[x].row = i
     THEN Mishap ELSE UNCHANGED mishaps
  /\ exec' = [exec EXCEPT ![i].expired = TRUE]
  /\ UNCHANGED <<requested, approvalvars, bookvars, providervars, executor>>

(* revoke_pending, or authorized_until passes a day after the approval; the *)
(* latter alone can meet a row that is being processed.                    *)
PermitEnds(i) ==
  /\ exec[i].state \in {"pending", "processing", "failed"} /\ exec[i].permit
  /\ exec' = [exec EXCEPT ![i].permit = FALSE]
  /\ UNCHANGED <<requested, approvalvars, bookvars, providervars, executor, mishaps>>

-----------------------------------------------------------------------------
(* The provider.                                                           *)
RefundByHand(a) ==
  /\ MakeRefund(Manual, a, "succeeded")
  /\ UNCHANGED <<requested, approvalvars, bookvars, exec, executor, mishaps>>

Complete(r) ==
  /\ refund[r].status = "pending"
  /\ \/ /\ refund' = [refund EXCEPT ![r].status = "succeeded"]
        /\ due' = [due EXCEPT ![r] = Reports]
     \/ refund' = [refund EXCEPT ![r].status = "failed"] /\ UNCHANGED due
  /\ UNCHANGED <<requested, approvalvars, bookvars, exec, executor, mishaps>>

-----------------------------------------------------------------------------
(* The job reconcile_refund.                                               *)
SetBooker(b, r) == booker' = [booker EXCEPT ![b] = r]

OrderFree == lock = Nobody

(* A later checkout of the order, which no status of it forbids, gives it    *)
(* another intent; none gives it this one again.  It counts as a mishap.    *)
LaterCheckout ==
  /\ linked /\ OrderFree
  /\ linked' = FALSE
  /\ Mishap
  /\ UNCHANGED <<requested, approvalvars, order, settled, booked, booker, lock, exec,
                 providervars, executor>>

(* Mutants of Booked: the ledger is not asked; or the entry of any refund of *)
(* the intent counts.                                                      *)
BookedNever(r) == FALSE
BookedAny(r) == settled > 0

(* An entry for this very refund is there already.                         *)
Booked(r) == booked[r] > 0

(* The order is looked up by the intent of the receipt.                    *)
BeginBooking(b, r) ==
  /\ booker[b].pc = "idle"
  /\ due[r] > 0
  /\ linked /\ OrderFree
  /\ lock' = b
  /\ due' = [due EXCEPT ![r] = @ - 1]
  /\ SetBooker(b, [pc |-> "book", ref |-> r, seen |-> Booked(r)])
  /\ UNCHANGED <<requested, approvalvars, order, linked, settled, booked, exec, refund,
                 executor, mishaps>>

(* No order has the intent: the job is done, and the receipt is lost.       *)
DropReceipt(b, r) ==
  /\ booker[b].pc = "idle"
  /\ due[r] > 0
  /\ ~linked
  /\ due' = [due EXCEPT ![r] = @ - 1]
  /\ UNCHANGED <<requested, approvalvars, bookvars, exec, refund, executor, mishaps>>

(* Mutant of Settles: the receipt settles what is submitted on the intent.  *)
SettlesIntent(row, r) == row.state = "provider_submitted"

(* settle_submitted_for_intent.                                            *)
Settles(row, r) == row.state = "provider_submitted" /\ row.ref = r

JobDone == UNCHANGED <<due, mishaps>>
JobLeft(r) == due' = [due EXCEPT ![r] = @ + 1] /\ Mishap

(* The entry, the execution and the order in one commit, or nothing; in      *)
(* either case the job may be left to be driven again.                     *)
Book(b) ==
  /\ booker[b].pc = "book"
  /\ LET r == booker[b].ref
     IN  \/ /\ ~booker[b].seen
            /\ booked' = [booked EXCEPT ![r] = @ + 1]
            /\ settled' = settled + refund[r].amount
            /\ exec' = [i \in Index |-> IF Settles(exec[i], r)
                                        THEN [exec[i] EXCEPT !.state = "settled", !.ref = r]
                                        ELSE exec[i]]
            /\ order' = IF settled' >= Captured THEN "returned" ELSE order
            /\ JobDone \/ JobLeft(r)
         \/ booker[b].seen /\ JobDone /\ UNCHANGED <<order, settled, booked, exec>>
         \/ JobLeft(r) /\ UNCHANGED <<order, settled, booked, exec>>
  /\ SetBooker(b, IdleBooker)
  /\ lock' = IF lock = b THEN Nobody ELSE lock
  /\ UNCHANGED <<requested, approvalvars, linked, refund, executor>>

-----------------------------------------------------------------------------
ExecutorStep(x) == CallProvider(x) \/ Mark(x)
BookerStep(b) == (\E r \in Refs : BeginBooking(b, r) \/ DropReceipt(b, r)) \/ Book(b)

Next ==
  \/ \E a \in Amounts : Request(a)
  \/ \E n \in 0..approvals : Approve(n)
  \/ \E x \in Executors : (\E i \in Index : Claim(x, i)) \/ ExecutorStep(x) \/ DieExecuting(x)
  \/ \E b \in Bookers : BookerStep(b)
  \/ \E i \in Index : LeaseEnds(i) \/ PermitEnds(i)
  \/ \E a \in Amounts : RefundByHand(a)
  \/ \E r \in Refs : Complete(r)
  \/ LaterCheckout

Spec == Init /\ [][Next]_vars

(* The scheduler passes over the executions and drains the outbox without   *)
(* end, and leases run out.  Each pass comes to every open row: it selects  *)
(* the oldest twenty of all orders, so that fewer wait is assumed.          *)
Fairness ==
  /\ \A i \in Index : SF_vars(\E x \in Executors : Claim(x, i))
  /\ \A x \in Executors : WF_vars(ExecutorStep(x))
  /\ \A b \in Bookers : WF_vars(BookerStep(b))
  /\ WF_vars(\E i \in Index : LeaseEnds(i))

FairSpec == Spec /\ Fairness

-----------------------------------------------------------------------------
(* Two merchants who ask at once, two owners who approve at once and a      *)
(* settlement in between do not authorize more than was charged.           *)
ApprovedWithinCapture == approved <= Captured

(* Retries, take-overs and late answers pay an approval out at most once.   *)
OneRefundPerApproval == \A r, s \in Live : r[1] = s[1] => r = s

(* An execution recorded as settled is one whose own refund succeeded: the  *)
(* receipt of one partial refund does not settle another one.              *)
SettledIsPaidOut ==
  \A i \in Index : exec[i].state = "settled" =>
    exec[i].ref \in Refs /\ exec[i].ref[1] = i /\ refund[exec[i].ref].status = "succeeded"

(* The bookings return an order only when the provider has paid all of it   *)
(* back: neither the reports of one refund nor a job driven again count it   *)
(* twice.  (What an operator returns by update_status is not in this model.) *)
ReturnedIsRefunded ==
  order = "returned" =>
    AmountOf({r \in Refs : refund[r].status = "succeeded"}) >= Captured

(* An executor whose claim was taken over does not unsettle the row.        *)
SettledStays ==
  [][\A i \in Index : exec[i].state = "settled" => exec'[i].state = "settled"]_exec

(* A refund that is revoked before anyone claimed it is never paid, also by *)
(* a pass that selected it before.                                         *)
RevokedIsNeverPaid ==
  [][\A i \in Index :
       exec[i].state = "pending" /\ ~exec[i].permit =>
         /\ exec'[i].state = "pending"
         /\ \A x \in Executors : refund'[KeyOf(x, i)] = refund[KeyOf(x, i)]]_<<exec, refund>>

(* An approved refund is paid out, however executors die or stall, unless   *)
(* its permit ends, the provider fails it, or a refund by hand was faster.  *)
ApprovedIsPaidOut ==
  \A i \in Index :
    exec[i].state = "pending"
      ~> (\/ exec[i].state \in {"provider_submitted", "settled"}
          \/ ~exec[i].permit
          \/ refund[<<i, Nobody>>].status = "failed"
          \/ refund[Manual].status # "none")

(* What the provider has paid back reaches the ledger, unless a later       *)
(* checkout has given the order another intent.                            *)
RefundReachesBooks ==
  \A i \in 0..Captured :
    refund[<<i, Nobody>>].status = "succeeded" ~> (booked[<<i, Nobody>>] > 0 \/ ~linked)

=============================================================================
