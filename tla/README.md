# A TLA+ model of ShopSquire's commercial core

ShopSquire (`src/src/app`) is a FastAPI commerce platform: a buyer talks to
it, agents propose procurement, orders and stock changes, and a human
operator or the buyer's own commitment lets them take effect. Most of its
340,000 lines transform data: prompts, ranking, parsing, reports, request
handlers. The part whose correctness depends on *order* is narrow: commercial
authority → durable record → worker → effect at a supplier or a payment
provider, and beside it the stock and payment ledgers. This directory models
that part.

All paths below are relative to `src/`; `fulfillment/` is short for
`src/app/services/fulfillment/`.

## 1. The system

### Components, their state and operations

| Component | State | Operations | What must hold |
|---|---|---|---|
| Durable outbound queue, `fulfillment/outbound_queue.py` | `outbound_message` rows: status, attempts, `effect_digest`, `next_attempt_at`, `updated_at` | `enqueue`, `process_pending`, `send_now`, stale reclaim, `record_ack`, `revoke_pending_permit` | a message leaves at most once; what is recorded about it is true; a withdrawn authority stops it |
| Permits, person approvals, operator recovery, `fulfillment/{effect_contract,person_approval,operator_recovery}.py` | permit columns of the row, `person_approval` rows, recovery rows | issue, revoke, validate, expire; one verdict per quarantined message | revoked or lapsed authority is effective; an uncertain send is settled by a person only |
| Contact schedule, `src/app/services/supplier_contact_schedule.py` | supplier calendar | `decide_contact_schedule` | a message waits for the supplier's window |
| Delivery task and replay, `fulfillment/outbound_delivery.py`, `src/app/tasks/fulfillment_tasks.py` | none of its own | beat sweep; replay of the case transition of what was sent | a delivered message moves its case |
| Case workflow, `fulfillment/{domain,workflow,repository}.py` | bitemporal `fulfillment_case_version` rows | `transition`: idempotency lookup, read of the open version, compare-and-swap append | the transition table is obeyed by every interleaving; nothing is sent or ordered without commitment and approval |
| External communication, `fulfillment/{external_comms,transport,autonomous_send,draft}.py` | the draft in the case version | dispatch, autonomous send, clarification request, send | only the approved text leaves, once, from a case that allows it |
| Purchase order, `fulfillment/{purchase_order,po_transport}.py` | `purchase_order` field of the case | `execute`: approve, intent, create, record | one order per case; the case knows of any order that may exist |
| Inventory effects, `src/app/services/inventory_transactions.py` | `inventory_level`, `inventory_reservation`, event and movement ledgers | `reserve`, `ship`, `cancel`, `return`, `expire_due`, `receive`, `transfer` | nothing is promised twice; ledger, counters and reservations agree; each effect once |
| Catalog feed, `src/app/services/commerce_catalog.py` | the same `inventory_level` rows | `upsert_inventory` | must not forget what is reserved |
| Stock acceptance, `src/app/services/case_inventory_acceptance.py` | reservations under one case revision | `accept_request`, `release_holds` | all lines of a case or none |
| Scheduler lease, `src/app/services/scheduler_lease.py`, `src/app/workers/leased_beat.py` | lease row | acquire, renew, release | at most one beat ticks |
| Payments, `src/app/services/payment_{attempts,webhook_delivery,reconcile_scheduler}.py`, `src/app/services/dispatch_agent.py`, `src/app/routers/payments.py` | `payment_attempts`, `stripe_events` (inbox), `payment_side_effect_jobs` (outbox), `payment_transactions` (ledger), `orders` | checkout, reconciliation of lost associations, receive and apply an event, drain jobs, approve a dispatch that is held | an event is applied and entered once, however often it comes; a paid order keeps its stock and stays paid; what is charged is followed up |
| Refunds, `src/app/services/refund_{requests,execution,authorization}.py`, `payment_ledger.py` | ledger entries, `refund_executions` with claims and permits | request, approve, execute, settle by receipt | no more than was charged is approved; an approval is paid once, and in the end; the ledger agrees with the provider |
| Orders of the shop, `src/app/routers/orders.py` | `orders` rows, reserved stock | cancel, mark as paid | a cancellation never takes a paid order's stock |
| Cart, reordering, draft retry, policy and kill switch, workers, conversation, evidence governance | see `PROJECT.json` | | |

### How they interact

The case is the authority. An operator's dispatch (`src/app/routers/fulfillment_cases.py`)
or the agent's autonomous send first appends an approval version through
`transition`, then calls the send in `external_comms.py`. With
`FULFILLMENT_OUTBOUND_QUEUE_ENABLED` the send stores a queue row and attempts it
at once (`send_now`); otherwise it calls the transport itself. If the attempt is
deferred, the beat task (`fulfillment_tasks.py`) delivers it in a later
`process_pending` pass and replays the stored case event
(`replay_deferred_send_transitions`). The order call has no queue: a committed
dispatch intent in the case precedes the transport call. Inventory effects run
in the caller's transaction; what orders them is row locks and unique event ids.
A checkout writes an attempt, calls the provider and associates the intent with
the order; the scheduler repairs a lost association. The provider's events enter
an inbox, change the order and put jobs in an outbox in one transaction; ledger
entries, dispatches and the booking of refunds are those jobs. An approved
refund is an execution row that any pass may claim and drive.
These parts share database rows only; there is no in-process state between them.

### What is hard here

Between the statements of one operation other workers, operators and the clock
act: a queue pass works on rows it read earlier; `transition` reads twice before
it writes; the provider's answer is lost or comes after the claim was taken
away; a process dies between an effect outside and its record; a permit runs
out between check and send; a batch of expiries meets a return; a payment is
reported before its order knows the intent; a refund's executor is taken over
while it waits for the provider. `hazards` in
`PROJECT.json` lists 40 of these at the lines where they bite, each with the
properties that would catch it or with the reason why none does yet.

## 2. The modules

| Module | Models | Role |
|---|---|---|
| `OutboundQueue` | `outbound_queue.py`, permits, person approvals, operator recovery | one action per SQL statement or transaction of `process_pending` and of the operators' calls |
| `AtMostOnceEffect` | – | abstract specification: an effect that can be neither undone nor inspected |
| `OutboundQueueProofs` | – | theorems about `OutboundQueue`, the refinement of `AtMostOnceEffect` among them |
| `InventoryTransactions` | `inventory_transactions.py`, stock rows, feed | sessions with open transactions, row and key locks |
| `StockPromises` | – | abstract specification: promises without counters, locks or events |
| `FiniteSums` | – | lemmas about sums over finite sets, for the two modules of proofs that count units and money |
| `InventoryTransactionsProofs` | – | theorems about `InventoryTransactions`, the refinement of `StockPromises` among them |
| `FulfillmentCase` | `domain.py`, `workflow.py`, `repository.py` | the transition table and the three steps of a command |
| `FulfillmentCaseProofs` | – | theorems about `FulfillmentCase` |
| `CaseCallers` | `buyer_qualification.py`, `draft.py`, `external_comms.py`, `options.py`, `cart_commitment.py`, `change_order.py`, … | extends `FulfillmentCase` with the commands each function may issue |
| `PurchaseOrder` | `purchase_order.py`, `po_transport.py` | extends `FulfillmentCase` with `execute` |
| `PurchaseOrderProofs` | – | theorems about `PurchaseOrder`, from those about the case |
| `OutboundDelivery` | dispatch, autonomous send, clarification, delivery task | extends `FulfillmentCase`; uses the queue through `AtMostOnceEffect` |
| `OutboundDeliveryProofs` | – | theorems about `OutboundDelivery`, from those about the case |
| `Payments` | `payment_attempts.py`, `payment_webhook_delivery.py`, the checkout and webhook of `routers/payments.py`, `dispatch_agent.py`, `cancel_order` | one order, its checkouts, the provider, inbox and outbox with their leases |
| `PaymentsProofs` | – | theorems about `Payments` |
| `Refunds` | `refund_requests.py`, `refund_execution.py`, `refund_approve`, the booking of receipts | one order's refunds from request to ledger |
| `RefundsProofs` | – | theorems about `Refunds` |
| `MC…` | – | symmetry sets and the command sets and constants of the instances |

The composition is by contract: `OutboundQueue` is proved to implement
`AtMostOnceEffect` (`QueueImplementsEffect`), and `OutboundDelivery` uses the actions
of `AtMostOnceEffect` in place of the queue. Every fact the case learns from the
queue there is one that the queue was proved to report truly.

### OutboundQueue

`row` is the table, `worker` the locals of each `process_pending` (its position
`pc`, the row snapshot, the pass's timestamp as `elapsed`), `grant` the person
approval of a message, `observed` the recovery row, `delivered` the supplier's
mailbox. `BeginPass` is the reclaim and the SELECT at the head of a pass;
`CheckAuthority`, `Claim`/`SkipClaim`, `ScanAllows`/`ScanBlocks`, `Recheck`,
`Transmit`, `Settle`/`SkipSettle` are the statements of the loop in their order.
`Transmit` chooses delivered or not, and independently what the worker is told:
a timeout after acceptance is an unknown outcome. `Crash` may take a worker
anywhere. Time is countdowns and ages, so runs need no clock bound: `Tick`
decreases `wait`, `permit` and `grant.life` and increases `age` and `elapsed`.
Claims are dated with the timestamp of the *pass* (`updated_at=now`), so
a row claimed late in a long pass is already old: `Claim` copies `elapsed` to
`age`, and the stale reclaim can take a claim that is just being sent.
There is no claim token: a settlement names the row by status `sending`, the
attempt number and the effect digest (`_CLAIM_WHERE`), and each claim increments
the attempt number. `Owns` is this test; the digest of a row never changes.

### InventoryTransactions

A session `tx[s]` is an open transaction: the effect, the locks taken, the
images it read, the writes nobody sees before `Commit`. The first statement
(`Reserve`, `LockRow`, `Receive`, `Transfer`, `ExpireDue`) takes its key or row,
`Close` and `Return` decide with the locked row, `UpdateStock` takes one stock
row at a time in the order the code does (ascending location for transfers).
`Rollback` is possible everywhere. Under READ COMMITTED the guarded UPDATE
re-evaluates its condition on the row it locked, which is why `UpdateStock`
tests `stock`, not an earlier snapshot. `DeadlinePasses` lets a timed reservation
become overdue at any time, so no clock is needed. One tenant and one SKU: the code
never relates two of either.

### FulfillmentCase

`Transitions` is the table of `domain.py` row by row. `versions` is the history;
its last element is the open version. A session fires a command with `Lookup`
(find a version with the same key), `Read` (the open version, the table, the
confidence gate), `Commit` (close and insert if the version read is still open).
`Abandon` covers every refusal and a death before the write. Of a draft only
its identity (`content_hash`) is kept. `Commands` is a constant: the theorems
hold for any callers. `CaseCallers` says which commands the code's functions
issue and as whom; the instances are built from it, and add actors who try what
they may not do.

### PurchaseOrder

`run[x].pc` is where an `execute` stands: `Approve`, `CheckCreated`, `Dispatch`
(the intent), `Send` (the transport, which may create the order and not say so),
`Record`. Each of the three commands inside goes through `Lookup`, `Read` and
`Commit` of the case. `Die` ends the execute at any position. Other sessions fire
the remaining commands of the case, cancellation included.

### OutboundDelivery

Couriers are operators' requests (`Desks`), autonomous sends (`Agents`) and
delivery tasks (`Workers`). `Dispatch`/`Approve`/`ReadDraft`/`Matches` are the
dispatch endpoint up to the hash check, `SendDirect` the transport without the
queue, `Enqueue`/`SendNow`/`Answer`/`Record` the way through it, `Sweep` the
task, `Judge` the autonomous guards, `Ask`/`Tell` the clarification. `phase` and
`happened` are the variables of `AtMostOnceEffect`; `QueueMoves` is any step of
the queue on its own. `vouched` records which texts a person, or the guards,
passed; it is a history variable no guard reads.

### Payments

`checkout[k]` is where the checkout with idempotency key `k` stands:
`Initiate` (open the attempt), `CreateIntent` (the provider call, whose answer may be
lost), `MarkCreated`, `Associate`; the last two are best effort in the code, so
each may be lost and the buyer still gets her secret. `Reconcile` is
`reconcile_orphans`. `Capture` and `Decline` are the provider's; each leaves an
event that is delivered again and again. A worker goes from `Receive` (claim in
the inbox) to `Apply` (order, stock and jobs in one transaction) to `Ack`, and
drains the outbox: `Drain` claims all open jobs, `BeginJob` to `MarkJob` take
them one by one. The scheduler's pass drains as well. `WriteLedger` is the
ledger job; `lock` is its `FOR UPDATE`. The dispatch job holds the order for an
owner or queues it and notes so in the ledger (`DispatchOrder`, `NoteDispatch`), in two
commits, for `enqueue` commits by itself. Which of the two it does is a choice,
as the total and the threshold are not in the model. `enqueue` answers an error and the
entry of the hold is written in a `try`, so both can fail without the job
failing (`Queues`, `Holds`); `dispatch.swallowed` records that, a history
variable no guard reads. `ApproveDispatch` is the owner's `dispatch_approve`. Claims carry their worker for a token;
`expired` says that their lease has run out, which for a live worker is a
mishap. "paid" stands for all that becomes of a paid order.

### Refunds

Money comes in units: `Captured` of them were charged. `requested` and
`approved` are the ledger's entries, `exec[i]` the execution row of approval
`i`, `refund[r]` what the provider has under an idempotency key. A request and an
approval read the ledger first and take slot `n` when they append
(`SlotFree`), which is how stale readers are told apart; `refundable` is what the
last approval left. `Claim` selects and claims a row, asking again for what the
pass saw; `CallProvider` makes the refund, finds the one its key has, or loses
the answer; `Mark` writes under the claim. `BeginBooking` and `Book` are the job
that enters a receipt, settles its own execution and may return the order.
`PermitEnds` is a revocation or the end of the permit's day; `RefundByHand` is
a refund from the provider's dashboard. The order is found by the intent of the
receipt: `linked` says that it still names the one of this charge.
`LaterCheckout` takes it away, and the receipts that come then are dropped
(`DropReceipt`), as in the code.

## 3. The runs

Deadlock is checked in the inventory and queue runs. The others switch it off:
a case, an order and a charge end in terminal states, where nothing more happens.

| Run | Instance | Shows |
|---|---|---|
| `outbound_race` | 1 message, 2 workers, 2 attempts, 1 worker death, claims stale after 1 tick, permit 3 ticks, approval 2, fair | sent at most once, one attempt at a time, true records, settled rows stay settled, revoked or withdrawn authority stops a message, refinement of `AtMostOnceEffect`; every message is decided and no claim stays in flight |
| `inventory_holds` | 2 sessions, 2 reservations, 2 locations, 2 event ids, 2 references, quantities ≤ 2, 1 unit at each location | reserved = sum of holds, ledger accounts for stock, each hold closes once, refinement of `StockPromises`, with receipts and transfers both ways beside; single effects never deadlock |
| `inventory_feed` | 1 session, 2 reservations, a feed | **violated**: see findings |
| `order_executes` | clerk and 2 executors, one always with the default key, the other with either of two, ≤ 17 versions | one dispatch per key; each order behind an intent; `created` is true; order gate up to a created and a cancelled order |
| `order_double_click` | the same with one key | **violated**: see findings |
| `delivery_queued` | clerk, desk, agent, worker, 2 texts, queue on, ≤ 10 versions, 1 mishap, fair | one committed, approved, unretired enquiry; the case says so truly and as the right actor's; without a mishap whatever is delivered moves its case to `QUOTE_SENT` |
| `delivery_direct` | clerk, 2 desks, 2 texts, queue off, all commands of an enquiry, ≤ 11 versions, 1 mishap, 1 clarification | nothing before the commitment; only a text an operator named is sent; a send stands behind an approval of its text; a sent case is retired by people |
| `delivery_crash`, `delivery_autonomous` | 1 or 2 couriers | **violated**: see findings |
| `payments_delivered` | 1 checkout, 2 workers, 2 mishaps, fair | a payment is entered once; no race with a cancellation or a decline costs a paid order its stock or its payment; an order that names its intent in time is paid, and what is paid is entered in the ledger; its dispatch is queued or held for an owner unless a failed write of it was swallowed |
| `payments_unlinked` | 1 checkout, 1 worker, 1 mishap, fair | **violated**: see findings |
| `refunds_paid` | 2 units, up to 2 partial refunds and one by hand, 2 executors, 1 booker, 1 mishap, fair | approvals within the charge, each paid once; settled means paid, and stays; returned means refunded; a revoked refund is never paid; an approved one is, and reaches the ledger unless a later checkout took the order's intent |

### Bounds and why they are enough

*Queue.* A worker is a pass; the races of the code are between a claim and one
other actor (another pass, the reclaim, an operator), so two workers with a
death and a restart give each pair twice. Two attempts are one retry and the
dead letter; ages above `Horizon` are all stale, so saturation loses nothing.
Messages interact only through the batch reclaim and the pass's row list; the
runs have one message, and the theorems hold for any number. *Inventory.* Two
sessions are every pair of effects on one row, key or reservation; two locations
with transfers both ways are the cycle the lock order has to break; one unit
with quantities of 1 and 2 gives the exact fit and the refusal, two event ids a
repetition and a different effect.
*Case.* The bound on versions is the shortest path to the last state of interest
plus the loops a second session can add; each passing run reaches the
final events it is about: `delivery_direct` the supplier's answer, the order runs
the receipt, the cancellation and the completion, with a key on every command of
an execute. *Delivery.* One mishap (a refusal, a failure or a death) at any step:
the recovery logic here never retries more than once without a new request. The agent writes
the first text and people edit it into the others. *Payments.* Two workers
are the two that can hold the same event or job, two mishaps a death or stall of
one and a loss elsewhere. A second checkout of the same order can take the
order's intent over, which the theorems of section 4 cover; its liveness is not
run. The failed write that a dispatch passes over is one of the mishaps. *Refunds.* The one
mishap may be a later checkout, which is not combined with a death or a loss:
`RefundReachesBooks` excepts what comes after it anyway. Two units give one full, or two partial refunds, of which each
can meet the other's receipt; `Reports` is 1 because a job left by a failure
(`JobLeft`) is the second report already. Two bookers add no behaviour that
the lock lets through; the theorems hold for any number.
Where a bound would hide a case rather than finish it, the theorems below hold
without it.

### Fairness

`outbound_race` assumes weak fairness of starting a pass (celery beat schedules
the sweep for ever, `fulfillment_tasks.py`), of a live worker's next statement,
and of the clock. Not of enqueue, operators or approvers. `Crash` is bounded and
unfair. `delivery_queued` and `delivery_crash` assume weak fairness of a courier's
next step and of `Sweep`; the provider is never obliged to accept a message.
The payment runs assume it of the scheduler's reconciliation, of each worker (the
provider redelivers an event until it is acknowledged, the scheduler drains for
ever) and of the end of leases (they are compared with the clock); not of the
buyer, of operators or of a checkout. `refunds_paid` assumes strong fairness of
claiming a row, since every pass comes back to it while other rows come and go
(a pass takes the twenty oldest open rows, so that fewer wait is assumed), and
weak fairness of an executor's and a booker's next step and of leases. In all of
them deaths, stalls and losses are bounded (`MaxMishaps`) and unfair.

## 4. The proofs

`tlapm` checks these for every value of the constants, under the named assumptions
of each module. TLC evaluates the assumptions in every run. They say that:

- names differ from the null values, limits are naturals, commands are commands
  (`NamesAssumption`, `BoundsAssumption`, `TimeAssumption` of the queue, `CaseAssumption`,
  `PaymentsAssumption`, `RefundsAssumption`);
- locations are ordered, so numbers, and finitely many: they are rows of a table
  (`InventoryAssumption`);
- there are finitely many executors, and nobody else fires the three events of
  `execute` (`ExecutorsAssumption`; only `purchase_order.py` fires them);
- only couriers approve and record the sending of an enquiry
  (`CouriersAssumption`): the approvals come from
  `src/app/routers/fulfillment_cases.py:1613` and `fulfillment/autonomous_send.py:220`, the
  sends from `fulfillment/external_comms.py:374` and `:389` and the replay of the queue.

*Queue* (`OutboundQueueProofs`): `TypeCorrect`, `DeliveredAtMostOnce`,
`AttemptsExclusive`, `RecordsTrue`, `RetriesBounded`, `QueueImplementsEffect`,
`SettledForGood`, `RevokedStaysUnsent`, `WithdrawalStops`. "At most once" is not
inductive: a worker that is about to send must be known to be the only one. `FencingInv` adds
what each position of a worker implies about its row (`HoldsRow`), that a row in
quarantine or settled has no later attempt (`ObservedClosed`, `RevokedClosed`),
that attempt numbers fence (`AttemptFenced`, `ExclusiveAttempt`), and that a
worker's outcome and the row's record agree with the mailbox (`OutcomeTrue`,
`RecordedOutcomeTrue`). The step lemma has a case per action.
`RetriesBounded` (`AttemptsBounded`) needs only the guard of the claim: a row that
waits has an attempt left. The refinement follows: in a
`FencingInv` state each action changes the phase of at most one message, by the
step of `AtMostOnceEffect` that it stands for (`PhaseIs`, `PhaseMoves`), the stale
reclaim that of several. The three action properties are read off how a row
may change (`RowStep`) and who passes the last check before the provider
(`PassesLastCheck`, `ClearedBefore`).

*Inventory* (`InventoryTransactionsProofs`). `TypeCorrect`, `StockAlwaysSound`,
`ReturnsNeverExceed`, `ReservationClosesOnce` rest on `LedgerInv`: the image a
transaction has of a locked row is still the row (`SeenSound`, by the exclusive
locks), its pending write follows from the row it holds
(`WritesFollow`, `RowsExclusive`), and the properties themselves. The catalog
feed, which only `inventory_feed` runs, is part of these theorems: it breaks
promises, not the arithmetic of a row.

`EffectsGetThrough` (`NoDeadlock`, circles of any length): a single effect takes stock
rows by location, so all it has locked lies below what it still waits for
(`LockOrder`). In a circle the effect with the highest locked row would wait for
one that another has locked, higher still. A batch of `expire_due` has no such
order; it is excepted in the property and listed as a hazard.

`ReservedAlwaysHeld`, `LedgerAccounts`, `OnlyFeedsOversell` are about sums over all
reservations, events and movements. Between a transaction's updates the
committed tables say nothing of them, so the invariant (`SumInv`) keeps a balance for each
open transaction: what it has added to a row so far is the sum over the reservations,
events and movements whose updates are done (`BalancedAt`), each planned update
belongs to exactly one of these (`HoldEffect`, `MoveEffect`), and a key that it
inserts is in no table and no other transaction (`KeysFresh`). At `Commit` nothing
waits, and the balance is the difference of the sums. The facts about sums are in
`FiniteSums`, proved from the recursive definition of the library by taking a
smallest subset at which a fact fails. `UnfedRowsKept` holds with feeds: in
each row that no feed writes, the counter, the ledger and the promises agree,
whatever feeds do to other rows. The three theorems above are this one with no feed at all,
which is the instance `inventory_holds` runs; `inventory_feed` shows that the hypothesis is
needed.

`PromisesAreKept` is the refinement of `StockPromises`, again without a feed. Only
`Commit` moves anything the abstract specification sees (`OnlyCommitsMove`).
`EffectInv` says that what a transaction will commit is one effect: it turns one
reservation and moves just the stock that this accounts for (`TurnsOne`), or
lets several expire and moves none (`LetsExpire`), or is a receipt or transfer
(`MovesStock`). That the stock promised or transferred was free, counted from the reservations, follows
from `SumInv` before and `StockSound` after the commit. TLC finds
`EffectInv` invariant in the instance of `inventory_holds`.

*Case* (`FulfillmentCaseProofs`): `TypeCorrect`, `HistoryAlwaysLegal`,
`CommitmentGateKept`, `SendGateKept`, `OrderGateKept`, `SentRetiredByPeople`.
`CommitmentGate`, `HistoryLegal` and the bound on returns (`ReturnsBounded`, above)
are stated by these theorems alone. A session ready to commit saw an existing
version from which the table lets its command go on (`CaseInv`); the compare-and-swap turns that into legality of the
next version. The gates follow from one schema: `Behind(S, event, actor)` says
that a history whose last state is in `S` contains `event` fired by `actor`, and is
inductive when `OnlyWay` holds of the table – every row into `S` from outside is that
event by that actor. `OnlyWay` is decided by expanding the table; a new
row in `domain.py` that opens a way round a gate breaks the leaf that says so.
`SendGate` also needs `TextKept`: the text changes by drafting only. What they need of a
history (`CaseHistory`) and of a step (`CaseStep`) is stated without the commands, so that
the two modules below use it for their own steps.

*Purchase order* (`PurchaseOrderProofs`): `OneKeyDispatched`, `IntentBeforeOrder`,
`CreatedOnlyByReceipt`, `OrderGateOfExecutes`, for any executors and keys, and deaths
anywhere. The table lets a case be approved once (`ApprovedKept`); an `execute` that is past its
first transition, and every intent, has the key of that approval
(`PastApproval`, `IntentApproved`). "Never without an intent" is a count: the orders
made and the executors about to call the transport are together no more than the
intents (`Counted`). It counts intents, so that two orders behind two intents,
the finding of `order_double_click`, do not contradict it.

*Delivery* (`OutboundDeliveryProofs`): `ContactAfterCommitment`, `SendGateOfDelivery`,
`SentRetiredInDelivery`, `OneEnquiryOnly`, `SentAlwaysTrue`, `SendFollowsItsApproval`,
`RetiredNeverSent`, `OnlyAgentsUnseen`, `OperatorsVouch`, with and without the queue, for any
couriers, texts and mishaps. A case is approved for sending once (`GrantKept`) and the text
that was approved stands for good (`TextStands`). `DeliveryInv` ties what is
underway to that approval: what a courier carries and what the queue has of a text was passed by the
actor it names (`JobTrue`, `RowTrue`), one request at most carries it
(`OneHolder`), and without the queue nothing was received before that one sends (`Unsend`).
`VouchedText` fails when an agent approves (the finding of `delivery_autonomous`);
`OperatorsVouch` proves it without agents, and `OnlyAgentsUnseen` says of every
instance that what was not vouched for was approved by the agent.

*Payments* (`PaymentsProofs`): `TypeCorrect`, `BookedAtMostOnce`,
`PaidKeepsItsStock`, `PaidNeverUndone`, for any number of checkouts, workers and
mishaps. An entry is made from an answer read earlier (`found`), so "once" needs
that a worker about to write a ledger job holds the order's lock and that what
it found is still so; `PaymentsInv` says both. The other two rest on one
lemma, `OrderChanges`: whoever writes the order's status or stock
compares its status with `created` in the same statement. The dispatch is written
without the lock and changes neither order nor entries (`DispatchKeeps`).

*Refunds* (`RefundsProofs`): `TypeCorrect`, `ApprovalsAreCovered`,
`ApprovalsPayOnce`, `SettlementsArePaid`, `SettledForGood`, `RevokedUnpaid`,
`RefundsBookedOnce`, `ReturnsArePaid`. `RefundsInv` joins `LedgerTrue` (what is approved and what the
last approval left never exceed the charge, and no request waits that asks for
more), the keys the provider can have seen, and for each process what its
position implies of its row and refund: an answer "succeeded" is of a refund
that did, under the key of this very approval. `RowSteps` lists how an execution
row may change, from which the two action properties follow. For the returned order
`BooksTrue` adds that the order's lock covers a booker from its question whether a
receipt is booked to its booking, and that what the ledger has settled is the sum of
the booked refunds, which are some of those that succeeded.

### Only model-checked

Liveness needs ENABLED, which the prover does not treat: `EveryMessageDecided`, `ClaimsEnd`,
`UndisturbedAdvances`, `NamedIsPaid`, `FollowedUp`, `ApprovedIsPaidOut`,
`RefundReachesBooks`. The properties of the runs that expect a violation are refuted by
them. Every other property of a run has a theorem. `VouchedText` has it
under the hypothesis that no agent sends, and the four properties of the inventory that
feeds break (`ReservedIsHeld`, `EventsAccountForStock`, `NeverOversold`,
`KeepsPromises`) under the hypothesis that no feed writes the SKU's rows.

## 5. Findings

Each is a run in which TLC shows the code doing what a comment or docstring of
the repository rules out; `PROJECT.json` quotes the lines.

1. `inventory_feed`: `upsert_inventory` overwrites `reserved` and `available`;
   the reserved units no longer count, and what is promised exceeds what is on hand.
2. `order_double_click`: two `execute` calls with one key both pass the dispatch
   intent, because the key lookup and the read of the open version are two
   reads and the intent's event loops in its state. (Both carry the same provider key.)
3. `delivery_crash`: a death between the settled row and the replayed transition
   leaves the case in `APPROVED_TO_SEND` for good.
4. `delivery_autonomous`: an edit between the autonomous guards and the
   autonomous approval is sent without having passed the guards.
5. `payments_unlinked`: when the association of an intent is lost and the buyer
   pays before it is repaired, the payment's event finds no order and is
   acknowledged. The repair links the order later, without asking the provider,
   and the order stays in `created`. If the record of the intent's id is lost as
   well, the attempt stays `reserved` and nothing looks at it.

More observations have no run of their own; most are in `hazards` at their lines.

A dispatch can be lost for good: `execute_dispatch` does not look at the answer of
`enqueue`, which turns any exception into status `error`
(`fulfillment/outbound_queue.py:222-228`). The ledger then says `dispatch_queued`,
the job is processed, and `dispatch_approve` refuses a hold that counts as closed,
while no message is in the queue (against "queue the dispatch through the durable
outbound queue", `dispatch_agent.py:115`). In the model these are `Queues` or
`ApproveDispatch` with a mishap, then `NoteDispatch` and `MarkJob`. A hold that
cannot be written is passed over too, and the order is neither held nor queued
(`dispatch_agent.py:162-168`). `FollowedUp` excepts both losses.

After a failed send the only path to a retry asks for `approval_granted` again,
which the table refuses (against `external_comms.py:124-125`). A clarification is
transmitted before the case is asked whether it may be. A second checkout overwrites
the order's intent whatever happened to the first (`routers/payments.py:399-402`);
the refunds of the first charge then find no order, and their receipts are dropped
without a trace (`:791-792`), which `RefundReachesBooks` excepts. The replay of a
deferred send passes no `tenant_id` (`fulfillment/outbound_delivery.py:27-28`), so
that it moves the cases of the tenant `default` only. A success reported after a
decline leaves the order in `payment_failed`. A pending refund whose receipt is
booked before its executor has marked the row shows `provider_submitted` for ever. A
refund the provider failed is retried under the same key, which answers the same
failure. An approval whose permit ended cannot be renewed. Two retries of a reorder
whose executor died reset each other's claims, after which the purchase order is
never recorded on the proposal.

## 6. Not modelled

*External:* the supplier, the mail and ERP transports and PostgreSQL appear by
what the code relies on: an accepted message may be reported as failed or not at
all; a row lock is exclusive to the end of the transaction; a guarded UPDATE
tests the row it locks. *Text:* composing, parsing and scanning; the scanner's verdict
is a nondeterministic choice. *Tenants:* one; all queries are by tenant. The replay of
deferred sends is not: it looks for the case under `default`, so
`UndisturbedAdvances` holds of that tenant.
*Reports:* job rows, audit events, telemetry. *Case figures:* prices, matching
tolerances and split quantities; their events are commands of `CaseCallers`.
Components with status `not_modelled` in `PROJECT.json` carry their reasons:
conversation, recommendation, vision, evidence scanning and policy evaluation
keep no protocol state; stock acceptance, the scheduler lease, reordering and
the cart are planned.

*Payments:* the demo checkout, amounts and currencies, PayPal, the firewall, and
the carriers, fees and tracking numbers of a dispatch. What the queue does with a
dispatch is `OutboundQueue`. An operator's return through
`update_status` is not in `Refunds`. `ledger_for_order` reads a hundred entries;
fewer are assumed. `FOR UPDATE` is that of PostgreSQL; SQLite, which the tests
use, has none. `revoke_pending` has no caller in the application.

## 7. Plan

In order of what can go wrong expensively:

1. `OutboundQueue` with `AtMostOnceEffect` – done, all safety and the refinement proved.
2. `InventoryTransactions` with `StockPromises` – done, all safety and the refinement proved.
3. `FulfillmentCase` and `CaseCallers` – done, all invariants proved.
4. `PurchaseOrder` – done, all safety proved.
5. `OutboundDelivery` – done, all safety proved, liveness checked.
6. `Payments` – done; all safety proved, liveness checked.
7. `Refunds` – done; all safety proved, liveness checked.
8. `ReorderExecution`: `execute_approved_reorder` with its claim by status, the
   stale reset and the unique index.
9. `CaseInventory`: `accept_request` and `release_holds` over several
   reservations; the lock order of batches (an open gate in
   `docs/ROADMAP_EXECUTION_STATUS_2026-10-21.md:196`).
10. `SchedulerLease`: the beat's lease with a stalled holder.
11. The case's callers with what they read first: `complete_case` matches order,
    receipt and invoice on one version and completes another; two edits of one draft.
12. Cart plans, draft retry, kill switch, agent budgets.

Proofs next: that `StockPromises` never promises more than is there, as a theorem
of the abstract specification alone; that a case on which only one `execute` runs
under each key gets one order, which is what the finding of `order_double_click`
leaves of that promise; for `OutboundDelivery`, that a courier which
was not disturbed is never refused its record.

## 8. Running

    tlc -config OutboundQueue_race.cfg MCOutboundQueue
    tlapm OutboundQueueProofs.tla

Every run of section 3 finishes within minutes on two cores. `mutants` in
`PROJECT.json` names, for each checked property, a plausible bug in a mapped
definition that makes TLC find the property violated; the mutated forms stand
beside the definitions they change.
