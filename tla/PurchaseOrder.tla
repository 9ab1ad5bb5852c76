---------------------------- MODULE PurchaseOrder ----------------------------
(***************************************************************************)
(* Placing the supplier's order for a case                                  *)
(* (services/fulfillment/purchase_order.py, execute): the operator's        *)
(* approval, the durable dispatch intent, the call of the order transport   *)
(* and its record are four steps over the versioned case, each of which may *)
(* fail or be the last one before a crash.  Executors run execute at the    *)
(* same time, with the same idempotency key or with different ones; other   *)
(* sessions go on firing commands at the case.                             *)
(***************************************************************************)
EXTENDS FulfillmentCase, FiniteSets

CONSTANTS
  Executors,   (* sessions that run execute; the others run single commands  *)
  KeysOf       (* the idempotency keys an executor may be called with        *)

(* Only execute fires the events of a purchase order.                      *)
ExecuteEvents ==
  {"purchase_order_approved", "purchase_order_dispatch_started", "purchase_order_created"}

ASSUME ExecutorsAssumption ==
  /\ Executors \subseteq Sessions
  /\ IsFiniteSet(Executors)
  /\ KeysOf \in [Executors -> SUBSET Keys]
  /\ \A c \in Commands : c.event \notin ExecuteEvents

VARIABLES
  run,       (* where each execute is, and its key                           *)
  created    (* how many orders the transport created at the supplier        *)

vars == <<versions, session, run, created>>

PC == {"idle", "approve", "check", "dispatch", "send", "record"}
IdleRun == [pc |-> "idle", key |-> NoKey]

At(x, pc) == run[x].pc = pc
Goto(x, pc) ==
  run' = [run EXCEPT ![x] = IF pc = "idle" THEN IdleRun ELSE [@ EXCEPT !.pc = pc]]

OrderCommand(k, event) ==
  [event |-> event, actor |-> "human_operator", key |-> k, draft |-> NoDraft]

(* purchase_order.status = 'dispatching': the last write of the field was   *)
(* that of the dispatch intent.                                            *)
Dispatching ==
  \E i \in 1..Len(versions) :
    /\ Happened(i, "purchase_order_dispatch_started")
    /\ \A j \in (i + 1)..Len(versions) :
         versions[j].event \notin {"purchase_order_proposed", "purchase_order_created"}

POInit == Init /\ run = [x \in Executors |-> IdleRun] /\ created = 0

(* execute up to its guards on the order as it was read.                   *)
Execute(x, k) ==
  /\ At(x, "idle")
  /\ ~Dispatching
  /\ run' = [run EXCEPT ![x] = [pc |-> "approve", key |-> k]]
  /\ UNCHANGED <<versions, session, created>>

(* One workflow.transition of execute: it replays, goes through the steps   *)
(* of a command, or fails, which ends execute.                             *)
Fire(x, event, done, replayed) ==
  /\ LET cmd == OrderCommand(run[x].key, event)
     IN  \/ Free(x) /\ Applied(cmd) /\ Goto(x, replayed) /\ UNCHANGED casevars
         \/ (Lookup(x, cmd) \/ Read(x, cmd)) /\ UNCHANGED run
         \/ Commit(x) /\ Goto(x, done)
         \/ Abandon(x) /\ Goto(x, "idle")
  /\ UNCHANGED created

Approve(x) == At(x, "approve") /\ Fire(x, "purchase_order_approved", "check", "check")

(* The replay guard before the transport call.                             *)
CheckCreated(x) ==
  /\ At(x, "check")
  /\ Goto(x, IF Applied(OrderCommand(run[x].key, "purchase_order_created"))
             THEN "idle" ELSE "dispatch")
  /\ UNCHANGED <<versions, session, created>>

(* Mutant of Dispatch: the intent is written after the order was placed.    *)
DispatchLater(x) == At(x, "dispatch") /\ Goto(x, "send") /\ UNCHANGED <<versions, session, created>>

(* A replayed intent means that somebody else dispatched: reconciliation.   *)
Dispatch(x) == At(x, "dispatch") /\ Fire(x, "purchase_order_dispatch_started", "send", "idle")

(* Mutant of Send: any answer of the transport counts as a receipt.        *)
SendAssumesCreated(x) ==
  /\ At(x, "send")
  /\ created' \in {created, created + 1}
  /\ Goto(x, "record")
  /\ UNCHANGED <<versions, session>>

(* tx.create.  An unconfirmed call may have created the order or not.       *)
Send(x) ==
  /\ At(x, "send")
  /\ \/ created' = created + 1 /\ Goto(x, "record")
     \/ created' \in {created, created + 1} /\ Goto(x, "idle")
  /\ UNCHANGED <<versions, session>>

Record(x) == At(x, "record") /\ Fire(x, "purchase_order_created", "idle", "idle")

(* The request dies between two of its calls.                              *)
Die(x) ==
  /\ ~At(x, "idle")
  /\ Free(x)
  /\ Goto(x, "idle")
  /\ UNCHANGED <<versions, session, created>>

(* Every other command of the case.                                        *)
Other(s) == Transit(s) /\ UNCHANGED <<run, created>>

PONext ==
  \/ \E x \in Executors : \E k \in KeysOf[x] : Execute(x, k)
  \/ \E x \in Executors : Approve(x) \/ CheckCreated(x) \/ Dispatch(x) \/ Send(x)
                             \/ Record(x) \/ Die(x)
  \/ \E s \in Sessions \ Executors : Other(s)

POSpec == POInit /\ [][PONext]_vars

-----------------------------------------------------------------------------
Intent == "purchase_order_dispatch_started"

(* However often execute is called, however the calls race and wherever     *)
(* they die, the supplier gets one order ("a double-clicked execute creates *)
(* exactly one PO").                                                       *)
OnePurchaseOrder == created <= 1

(* Executes that were called with different keys never both get as far as   *)
(* the transport: all intents of a case carry one key, so that the provider *)
(* is asked for a second order, if at all, as a repetition of the first.    *)
OneKeyDispatches ==
  \A i, j \in 1..Len(versions) :
    Happened(i, Intent) /\ Happened(j, Intent) => versions[i].key = versions[j].key

(* The transport is called only behind a committed intent, each time behind *)
(* one of its own: an order the case does not know of is always found by    *)
(* looking for an intent without a created event, in a case a person        *)
(* approved the order of.                                                  *)
IntentFirst ==
  /\ created <= Cardinality({i \in 1..Len(versions) : Happened(i, Intent)})
  /\ created > 0 =>
       \E i \in 1..Len(versions) :
         /\ Happened(i, Intent)
         /\ \E j \in 1..(i - 1) : By(j, "purchase_order_approved", "human_operator")

(* The case says that the order was created only when it was.              *)
CreatedIsTrue ==
  (\E i \in 1..Len(versions) : Happened(i, "purchase_order_created")) => created > 0

=============================================================================
