--------------------------- MODULE OutboundDelivery ---------------------------
(***************************************************************************)
(* How a case reaches its supplier: the case workflow (FulfillmentCase)      *)
(* together with the durable outbound queue, of which only its promise      *)
(* AtMostOnceEffect is used here (OutboundQueue is checked to keep it).      *)
(*                                                                         *)
(* Desks run the operator's dispatch (routers/fulfillment_cases.py), the    *)
(* agent's autonomous send (autonomous_send.py) and the clarification       *)
(* request (draft.py); workers run the delivery task and replay the case    *)
(* transition of what they delivered (outbound_delivery.py); the remaining  *)
(* sessions fire single commands.  Each goes from one database transaction  *)
(* or one transport call to the next, and may stop at any of them.         *)
(***************************************************************************)
EXTENDS FulfillmentCase

CONSTANTS
  Desks,        (* sessions of operators' requests                           *)
  Agents,       (* sessions of the autonomous send                           *)
  Workers,      (* sessions of the delivery task                             *)
  QueueOn,      (* FULFILLMENT_OUTBOUND_QUEUE_ENABLED                         *)
  MaxMishaps,   (* bound on what goes wrong: refusals, failures, deaths      *)
  MaxRfis       (* bound on clarification requests                           *)

Couriers == Desks \cup Agents \cup Workers

(* Nobody but a courier fires an approval or a send.                       *)
ASSUME CouriersAssumption ==
  /\ Couriers \subseteq Sessions
  /\ Desks \cap Agents = {} /\ Desks \cap Workers = {} /\ Agents \cap Workers = {}
  /\ \A c \in Commands : c.event \notin Approvals \cup SendEvents
  /\ QueueOn \in BOOLEAN
  /\ MaxMishaps \in Nat
  /\ MaxRfis \in Nat

VARIABLES
  phase,      (* what the queue knows of the message with each text           *)
  happened,   (* how often the supplier received each text                   *)
  origin,     (* actor_type and transition_event stored with the message     *)
  job,        (* where each courier is                                       *)
  vouched,    (* texts an operator, or the agent's guards, passed for sending *)
  rfis,       (* clarification requests the supplier received                *)
  mishaps

vars == <<versions, session, phase, happened, origin, job, vouched, rfis, mishaps>>
queuevars == <<phase, happened, origin>>
notes == <<vouched, rfis>>

Queue == INSTANCE AtMostOnceEffect WITH Effects <- Drafts

Senders == {"human_operator", "agent"}
PC == {"idle", "approve", "read", "send", "now", "answer", "record", "tell"}

Job == [pc : PC, actor : Senders, hash : Drafts \cup {NoDraft}, draft : Drafts \cup {NoDraft}]
IdleJob == [pc |-> "idle", actor |-> "human_operator", hash |-> NoDraft, draft |-> NoDraft]

At(x, pc) == job[x].pc = pc
SetJob(x, j) == job' = [job EXCEPT ![x] = j]
Goto(x, pc) == SetJob(x, IF pc = "idle" THEN IdleJob ELSE [job[x] EXCEPT !.pc = pc])
Done(x) == Goto(x, "idle")
Mishap == mishaps < MaxMishaps /\ mishaps' = mishaps + 1

Unkeyed(event, actor) == [event |-> event, actor |-> actor, key |-> NoKey, draft |-> NoDraft]
ApprovalOf(actor) ==
  Unkeyed(IF actor = "agent" THEN "approval_granted_autonomous" ELSE "approval_granted", actor)
SendOf(actor) ==
  Unkeyed(IF actor = "agent" THEN "external_message_sent_autonomous"
          ELSE "external_message_sent", actor)

DeliveryInit ==
  /\ Init
  /\ Queue!EffectInit
  /\ origin = [d \in Drafts |-> "none"]
  /\ job = [x \in Couriers |-> IdleJob]
  /\ vouched = {}
  /\ rfis = 0
  /\ mishaps = 0

(* One workflow.transition of a courier: it is refused, applied, loses the  *)
(* version to another session, or fails for its own reasons.               *)
Fire(x, cmd, next) ==
  \/ /\ Free(x) /\ ~CanFire(Current.state, cmd)
     /\ Done(x)
     /\ UNCHANGED <<versions, session, mishaps>>
  \/ Read(x, cmd) /\ UNCHANGED <<job, mishaps>>
  \/ Commit(x) /\ Goto(x, next) /\ UNCHANGED mishaps
  \/ Ready(x) /\ ~StillOpen(x) /\ Abandon(x) /\ Done(x) /\ UNCHANGED mishaps
  \/ Abandon(x) /\ Done(x) /\ Mishap

-----------------------------------------------------------------------------
(* The operator dispatches the text whose hash is on the screen.           *)
Dispatch(x, d) ==
  /\ At(x, "idle")
  /\ \E i \in 1..Len(versions) : versions[i].draft = d
  /\ SetJob(x, [IdleJob EXCEPT !.pc = "approve", !.hash = d])
  /\ vouched' = vouched \cup {d}
  /\ UNCHANGED <<versions, session, queuevars, rfis, mishaps>>

(* maybe_autonomous_send: the guards pass the text of the open version.     *)
Judge(x) ==
  /\ At(x, "idle")
  /\ Current.draft # NoDraft
  /\ SetJob(x, [IdleJob EXCEPT !.pc = "approve", !.actor = "agent", !.hash = Current.draft])
  /\ vouched' = vouched \cup {Current.draft}
  /\ UNCHANGED <<versions, session, queuevars, rfis, mishaps>>

Approve(x) ==
  /\ At(x, "approve")
  /\ Fire(x, ApprovalOf(job[x].actor), "read")
  /\ UNCHANGED <<queuevars, notes>>

(* Mutant of Matches: the operator's hash is not compared either.          *)
MatchesAny(x, d) == d # NoDraft

(* send_approved compares the approved hash with the text that stands now;  *)
(* send_autonomous does not.                                               *)
Matches(x, d) == d # NoDraft /\ (job[x].actor = "human_operator" => job[x].hash = d)

(* send_approved or send_autonomous up to the transmission: a stale hash, a *)
(* channel or binding that is refused, or a text held by the scanner ends   *)
(* the request.                                                            *)
ReadDraft(x) ==
  /\ At(x, "read")
  /\ \/ Matches(x, Current.draft)
        /\ SetJob(x, [job[x] EXCEPT !.pc = "send", !.draft = Current.draft])
        /\ UNCHANGED mishaps
     \/ ~Matches(x, Current.draft) /\ Done(x) /\ UNCHANGED mishaps
     \/ Done(x) /\ Mishap
  /\ UNCHANGED <<versions, session, queuevars, notes>>

(* With the queue off the transport is called once, here.                  *)
SendDirect(x) ==
  /\ At(x, "send")
  /\ ~QueueOn
  /\ LET d == job[x].draft
     IN  \/ happened' = [happened EXCEPT ![d] = @ + 1] /\ Goto(x, "record") /\ UNCHANGED mishaps
         \/ /\ happened' \in {happened, [happened EXCEPT ![d] = @ + 1]}
            /\ Done(x)
            /\ Mishap
  /\ UNCHANGED <<versions, session, phase, origin, notes>>

(* send_now: enqueue, idempotent on the text.                              *)
Enqueue(x) ==
  /\ At(x, "send")
  /\ QueueOn
  /\ LET d == job[x].draft
     IN  \/ Queue!Request(d) /\ origin' = [origin EXCEPT ![d] = job[x].actor]
         \/ phase[d] # "none" /\ UNCHANGED <<phase, happened, origin>>
  /\ Goto(x, "now")
  /\ UNCHANGED <<versions, session, notes, mishaps>>

(* Mutant of Delivered: a message in flight counts as sent.                *)
DeliveredOrTrying(d) == phase[d] \in {"done", "judged_done", "trying"}

Delivered(d) == phase[d] \in {"done", "judged_done"}

(* send_now: the row is sent already, or is attempted once, or is left to   *)
(* whoever has it.                                                         *)
SendNow(x) ==
  /\ At(x, "now")
  /\ LET d == job[x].draft
     IN  \/ Delivered(d) /\ Goto(x, "record") /\ UNCHANGED <<phase, happened>>
         \/ Queue!Attempt(d) /\ Goto(x, "answer")
         \/ ~Delivered(d) /\ Done(x) /\ UNCHANGED <<phase, happened>>
  /\ UNCHANGED <<versions, session, origin, notes, mishaps>>

(* The delivery task claims a message that is due.                         *)
Sweep(w, d) ==
  /\ At(w, "idle")
  /\ Queue!Attempt(d)
  /\ SetJob(w, [IdleJob EXCEPT !.pc = "answer", !.draft = d])
  /\ UNCHANGED <<versions, session, origin, notes, mishaps>>

(* Mutant of AfterDone: the delivery task only transmits.                  *)
AfterDoneForgotten(x) == IF x \in Workers THEN "idle" ELSE "record"

(* A confirmed attempt goes on to the case: the dispatcher's with its own   *)
(* transition, the task's with the one stored in the row.                  *)
AfterDone(x) == "record"

(* The attempt ends: confirmed, refused, or out of sight.                  *)
Answer(x) ==
  /\ At(x, "answer")
  /\ LET d == job[x].draft
     IN  \/ Queue!ReportDone(d) /\ Goto(x, AfterDone(x))
         \/ (Queue!Release(d) \/ Queue!GiveUp(d) \/ Queue!LoseTrack({d})) /\ Done(x)
         \/ phase[d] # "trying" /\ Done(x) /\ UNCHANGED <<phase, happened>>
  /\ UNCHANGED <<versions, session, origin, notes, mishaps>>

(* Mutant of Sender: every deferred send is replayed as the operator's.     *)
SenderHuman(x) == IF x \in Workers THEN "human_operator" ELSE job[x].actor

Sender(x) == IF x \in Workers THEN origin[job[x].draft] ELSE job[x].actor

(* The case learns that the message left (replay_deferred_send_transitions, *)
(* or the end of _transmit_current_draft).                                 *)
Record(x) ==
  /\ At(x, "record")
  /\ Fire(x, SendOf(Sender(x)), "idle")
  /\ UNCHANGED <<queuevars, notes>>

-----------------------------------------------------------------------------
(* request_supplier_info transmits, and only then asks the case.           *)
Ask(x) ==
  /\ At(x, "idle")
  /\ rfis < MaxRfis
  /\ Current.draft # NoDraft
  /\ rfis' = rfis + 1
  /\ Goto(x, "tell")
  /\ UNCHANGED <<versions, session, queuevars, vouched, mishaps>>

Tell(x) ==
  /\ At(x, "tell")
  /\ Fire(x, Unkeyed("supplier_info_requested", "human_operator"), "idle")
  /\ UNCHANGED <<queuevars, notes>>

(* The process of a courier dies between two of its steps.                 *)
Die(x) ==
  /\ ~At(x, "idle")
  /\ Free(x)
  /\ Done(x)
  /\ Mishap
  /\ UNCHANGED <<versions, session, queuevars, notes>>

(* The provider accepts a message; a pass quarantines a claim; an operator  *)
(* settles a quarantined message.  Only the row changes.                   *)
QueueMoves(d) ==
  /\ Queue!Happen(d) \/ Queue!LoseTrack({d}) \/ Queue!Judge(d)
  /\ UNCHANGED <<versions, session, origin, job, notes, mishaps>>

(* Versions of the bound kept for the couriers' own approval and send.      *)
CourierRoom == 2

Other(s) ==
  /\ Transit(s)
  /\ Len(versions') <= MaxVersions - CourierRoom
  /\ UNCHANGED <<queuevars, job, notes, mishaps>>

CourierStep(x) ==
  Approve(x) \/ ReadDraft(x) \/ SendDirect(x) \/ Enqueue(x) \/ SendNow(x)
  \/ Answer(x) \/ Record(x) \/ Tell(x)

DeliveryNext ==
  \/ \E x \in Desks : Ask(x) \/ \E d \in Drafts : Dispatch(x, d)
  \/ \E x \in Agents : Judge(x)
  \/ \E w \in Workers, d \in Drafts : Sweep(w, d)
  \/ \E x \in Couriers : CourierStep(x) \/ Die(x)
  \/ \E d \in Drafts : QueueMoves(d)
  \/ \E s \in Sessions \ Couriers : Other(s)

DeliverySpec == DeliveryInit /\ [][DeliveryNext]_vars

(* A live process goes on with its request or task, and beat starts the     *)
(* delivery task for ever.  The provider is not obliged to accept anything. *)
DeliveryFairness ==
  /\ \A x \in Couriers : WF_vars(CourierStep(x))
  /\ \A w \in Workers, d \in Drafts : WF_vars(Sweep(w, d))

FairSpec == DeliverySpec /\ DeliveryFairness

-----------------------------------------------------------------------------
(* The queue's columns and the couriers' locals have their types.          *)
DeliveryTypeOK ==
  /\ TypeOK
  /\ phase \in [Drafts -> Queue!Phases]
  /\ happened \in [Drafts -> Nat]
  /\ origin \in [Drafts -> Senders \cup {"none"}]
  /\ job \in [Couriers -> Job]
  /\ vouched \subseteq Drafts
  /\ rfis \in Nat /\ mishaps \in Nat

Received(d) == happened[d] > 0
Occurred(event) == \E i \in 1..Len(versions) : Happened(i, event)

(* GATE 1 at the mailbox: no letter of any kind reaches a supplier before   *)
(* the buyer committed to the order.                                       *)
NoContactBeforeCommitment ==
  rfis > 0 \/ (\E d \in Drafts : Received(d))
    => \E i \in 1..Len(versions) : By(i, "buyer_committed", "buyer")

(* A case sends one enquiry: one text, once, whatever dispatches, retries,  *)
(* edits, workers and autonomous sends meet.                               *)
OneEnquiry ==
  \A c, d \in Drafts : happened[d] <= 1 /\ (Received(c) /\ Received(d) => c = d)

(* What reaches the supplier is a text an operator dispatched by its hash,  *)
(* or the agent's guards passed.                                           *)
VouchedText == \A d \in Drafts : Received(d) => d \in vouched

(* The case says "sent" of a text only when the supplier has it, or an      *)
(* operator observed so.                                                   *)
SentIsTrue ==
  \A i \in 1..Len(versions) : versions[i].event \in SendEvents
    => Received(versions[i].draft) \/ phase[versions[i].draft] = "judged_done"

(* A deferred send is recorded as what it was: the operator's transition    *)
(* after the operator's approval, the autonomous one after the agent's.    *)
SendMatchesApproval ==
  \A i \in 2..Len(versions) : versions[i].event \in SendEvents
    => versions[i - 1].actor = versions[i].actor

(* An enquiry never leaves, before or after, from a case that the buyer or  *)
(* the system retired.                                                     *)
SupersededNeverSent ==
  (\E i \in 1..Len(versions) :
     Happened(i, "case_superseded") /\ versions[i].actor # "human_operator")
    => \A d \in Drafts : ~Received(d)

(* A delivered message moves its case on; it is not stranded where it was.  *)
DeliveredAdvances ==
  \A d \in Drafts : phase[d] = "done" ~> \E e \in SendEvents : Occurred(e)

(* So it is while nothing goes wrong: whether its own request sent it or a  *)
(* later pass of the queue did, the message's case is moved by its replay.  *)
(* The replay names no tenant: this is about the cases of 'default'.        *)
UndisturbedAdvances ==
  \A d \in Drafts :
    phase[d] = "done" ~> (mishaps > 0 \/ \E e \in SendEvents : Occurred(e))

=============================================================================
