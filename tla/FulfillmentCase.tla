--------------------------- MODULE FulfillmentCase ---------------------------
(***************************************************************************)
(* One procurement case: the transition table that says who may do what and *)
(* when (services/fulfillment/domain.py), the command every caller runs     *)
(* (workflow.py, transition) and the bitemporal versions it appends         *)
(* (repository.py).                                                        *)
(*                                                                         *)
(* A session runs one command in up to three database reads and writes: it  *)
(* looks for a version with the same idempotency key, reads the open        *)
(* version, and closes that version while it inserts the next.  Sessions    *)
(* interleave between them.                                                 *)
(***************************************************************************)
EXTENDS Naturals, Sequences

CONSTANTS
  Sessions,     (* requests and tasks, each with its database session        *)
  Commands,     (* the commands they may issue                               *)
  Keys, NoKey,  (* idempotency keys, and a command without one               *)
  Drafts,       (* texts of the supplier message, told apart by content_hash *)
  NoDraft,      (* a command, or a case, without a text                      *)
  MaxVersions   (* bound on the length of a history                          *)

Actors == {"agent", "buyer", "human_operator", "external", "system"}

-----------------------------------------------------------------------------
(* The transition table.                                                   *)

Rows(event, sources, target, who) ==
  {[event |-> event, src |-> s, dst |-> target, who |-> who] : s \in sources}

Loops(event, sources, who) ==
  {[event |-> event, src |-> s, dst |-> s, who |-> who] : s \in sources}

Human == {"human_operator"}
Agent == {"agent"}
Buyer == {"buyer"}
System == {"system"}
Anyone == {"agent", "buyer", "system", "human_operator"}

(* From the query to the commitment: GATE 1.                               *)
CommitmentRows ==
  UNION {
    Rows("availability_assessed", {"NEW"}, "AVAILABILITY_ASSESSED", Agent),
    Rows("request_buyer_commitment", {"AVAILABILITY_ASSESSED"},
         "AWAITING_BUYER_COMMITMENT", Agent \cup System),
    Rows("buyer_committed", {"AWAITING_BUYER_COMMITMENT"}, "COMMITTED", Buyer),
    Rows("buyer_declined", {"AWAITING_BUYER_COMMITMENT"}, "BUYER_DECLINED", Buyer) }

(* Preparing, approving and sending the enquiry: GATE 2.                   *)
EnquiryRows ==
  UNION {
    Loops("supplier_candidates_ranked", {"COMMITTED"}, Agent),
    Loops("buyer_qualification_requested", {"COMMITTED"}, Agent \cup System \cup Human),
    Loops("buyer_qualified", {"COMMITTED"}, Human),
    Rows("buyer_disqualified", {"COMMITTED"}, "BUYER_DECLINED", Human),
    Rows("external_message_drafted", {"COMMITTED"}, "QUOTE_DRAFTED", Agent),
    Rows("no_approved_supplier", {"COMMITTED"}, "NO_APPROVED_SUPPLIER", Agent \cup System),
    Rows("approval_requested", {"QUOTE_DRAFTED"}, "AWAITING_APPROVAL", Agent),
    Rows("external_message_drafted", {"QUOTE_DRAFTED", "AWAITING_APPROVAL"},
         "QUOTE_DRAFTED", Agent \cup Human),
    Rows("supplier_info_requested", {"AWAITING_APPROVAL"}, "AWAITING_SUPPLIER_INFO", Human),
    Rows("supplier_info_received", {"AWAITING_SUPPLIER_INFO"}, "AWAITING_APPROVAL",
         {"external"} \cup System \cup Human),
    Rows("approval_granted", {"AWAITING_APPROVAL"}, "APPROVED_TO_SEND", Human),
    Rows("approval_rejected", {"AWAITING_APPROVAL"}, "QUOTE_DRAFTED", Human),
    Rows("policy_blocked", {"AWAITING_APPROVAL"}, "POLICY_BLOCKED", System),
    Rows("external_message_sent", {"APPROVED_TO_SEND"}, "QUOTE_SENT", Human),
    Rows("recipient_blocked", {"APPROVED_TO_SEND"}, "RECIPIENT_BLOCKED", System),
    Rows("approval_granted_autonomous", {"AWAITING_APPROVAL"}, "APPROVED_TO_SEND", Agent),
    Rows("external_message_sent_autonomous", {"APPROVED_TO_SEND"}, "QUOTE_SENT", Agent) }

(* Mutant of SupersedeRows: the send stops no supersession.                *)
SupersedeRowsAnytime ==
  Rows("case_superseded",
       {"AVAILABILITY_ASSESSED", "AWAITING_BUYER_COMMITMENT", "COMMITTED", "QUOTE_DRAFTED",
        "AWAITING_APPROVAL", "APPROVED_TO_SEND", "QUOTE_SENT", "QUOTE_RECEIVED"},
       "SUPERSEDED", Buyer \cup System \cup Human)

(* The buyer amends the order, before and after the enquiry was sent.       *)
SupersedeRows ==
  Rows("case_superseded",
       {"AVAILABILITY_ASSESSED", "AWAITING_BUYER_COMMITMENT", "COMMITTED", "QUOTE_DRAFTED",
        "AWAITING_APPROVAL"},
       "SUPERSEDED", Buyer \cup System \cup Human)
  \cup Rows("case_superseded", {"QUOTE_SENT", "QUOTE_RECEIVED"}, "SUPERSEDED", Human)

(* The supplier's answer and the buyer's choice.                           *)
QuoteRows ==
  UNION {
    Rows("external_message_received", {"QUOTE_SENT"}, "QUOTE_RECEIVED", {"external"} \cup System),
    Rows("supplier_response_quarantined", {"QUOTE_SENT"}, "SUPPLIER_RESPONSE_QUARANTINED",
         {"external"} \cup System),
    Loops("supplier_response_parsed", {"QUOTE_RECEIVED"}, Agent),
    Rows("supplier_quote_validated", {"QUOTE_RECEIVED"}, "QUOTE_VALIDATED", Human),
    Rows("quote_parse_failed", {"QUOTE_RECEIVED"}, "QUOTE_PARSE_FAILED", Agent \cup System),
    Rows("quote_expired", {"QUOTE_RECEIVED"}, "QUOTE_EXPIRED", System),
    Rows("fulfillment_options_generated", {"QUOTE_VALIDATED"}, "OPTIONS_READY", Agent),
    Rows("buyer_fulfillment_selected", {"OPTIONS_READY"}, "SELECTED", Buyer),
    Rows("buyer_declined", {"OPTIONS_READY"}, "BUYER_DECLINED", Buyer) }

(* The order with the supplier and what follows it: GATE 3.                *)
OrderRows ==
  UNION {
    Rows("purchase_order_proposed", {"SELECTED"}, "PROCUREMENT_APPROVAL_REQUIRED", Agent),
    Rows("purchase_order_approved", {"PROCUREMENT_APPROVAL_REQUIRED"},
         "PROCUREMENT_IN_PROGRESS", Human),
    Rows("approval_rejected", {"PROCUREMENT_APPROVAL_REQUIRED"}, "SELECTED", Human),
    Rows("purchase_order_created", {"PROCUREMENT_IN_PROGRESS"}, "READY_TO_SHIP",
         Human \cup System),
    Loops("purchase_order_dispatch_started", {"PROCUREMENT_IN_PROGRESS"}, Human),
    Rows("shipment_plan_created", {"PROCUREMENT_IN_PROGRESS"}, "PARTIALLY_READY", System),
    Loops("goods_receipt_recorded", {"READY_TO_SHIP", "PARTIALLY_READY"}, System \cup Human),
    Loops("invoice_recorded", {"READY_TO_SHIP", "PARTIALLY_READY"}, System \cup Human),
    Rows("completed", {"READY_TO_SHIP", "PARTIALLY_READY"}, "COMPLETED", System \cup Human),
    Loops("change_requested",
          {"PROCUREMENT_IN_PROGRESS", "PARTIALLY_READY", "READY_TO_SHIP"}, Anyone),
    Rows("order_cancelled", {"PROCUREMENT_IN_PROGRESS", "PARTIALLY_READY", "READY_TO_SHIP"},
         "CANCELLED", Human) }

Transitions == CommitmentRows \cup EnquiryRows \cup SupersedeRows \cup QuoteRows \cup OrderRows

States == {"NEW"} \cup {t.dst : t \in Transitions}
Events == {t.event : t \in Transitions}

(* Mutant of Permitted: any actor may fire a listed event.                 *)
PermittedToAll(t, state, cmd) == t.src = state /\ t.event = cmd.event

(* find_transition.                                                        *)
Permitted(t, state, cmd) ==
  t.src = state /\ t.event = cmd.event /\ cmd.actor \in t.who

(* can_fire.  No row leaves a terminal state.                              *)
CanFire(state, cmd) == \E t \in Transitions : Permitted(t, state, cmd)

(* next_state.                                                             *)
NextState(state, cmd) == (CHOOSE t \in Transitions : Permitted(t, state, cmd)).dst

-----------------------------------------------------------------------------
(* A command carries the new text in its state_patch when it has one: only  *)
(* drafting and editing do.                                                *)
Command == [event : Events, actor : Actors, key : Keys \cup {NoKey},
            draft : Drafts \cup {NoDraft}]

Version == [state : States, event : Events \cup {"case_opened"}, actor : Actors,
            key : Keys \cup {NoKey}, draft : Drafts \cup {NoDraft}]

ASSUME CaseAssumption ==
  /\ NoKey \notin Keys
  /\ NoDraft \notin Drafts
  /\ Commands \subseteq Command
  /\ \A c \in Commands : c.draft # NoDraft => c.event = "external_message_drafted"
  /\ MaxVersions \in Nat \ {0}

VARIABLES
  versions,   (* fulfillment_case_version, oldest first; the last one is open *)
  session     (* what each session is in the middle of                       *)

casevars == <<versions, session>>

NoCommand == [event |-> "case_opened", actor |-> "system", key |-> NoKey, draft |-> NoDraft]
IdleSession == [phase |-> "idle", cmd |-> NoCommand, seen |-> 0]

Opened == [state |-> "NEW", event |-> "case_opened", actor |-> "system",
           key |-> NoKey, draft |-> NoDraft]

Current == versions[Len(versions)]
SetSession(s, r) == session' = [session EXCEPT ![s] = r]
Free(s) == session[s].phase = "idle"
Ready(s) == session[s].phase = "ready"

(* find_idempotent_version.                                                *)
Applied(cmd) ==
  \E i \in 1..Len(versions) : versions[i].event = cmd.event /\ versions[i].key = cmd.key

Init ==
  /\ versions = <<Opened>>
  /\ session = [s \in Sessions |-> IdleSession]

(* A keyed command is looked up first.  Found, it is answered from the      *)
(* version it made, which changes nothing.                                 *)
Lookup(s, cmd) ==
  /\ Free(s)
  /\ cmd.key # NoKey
  /\ ~Applied(cmd)
  /\ SetSession(s, [phase |-> "looked", cmd |-> cmd, seen |-> 0])
  /\ UNCHANGED versions

(* The open version is read and the command checked against it.            *)
Read(s, cmd) ==
  /\ \/ Free(s) /\ cmd.key = NoKey
     \/ session[s].phase = "looked" /\ session[s].cmd = cmd
  /\ CanFire(Current.state, cmd)
  /\ SetSession(s, [phase |-> "ready", cmd |-> cmd, seen |-> Len(versions)])
  /\ UNCHANGED versions

(* Mutant of StillOpen: the UPDATE does not name the version that was read. *)
AnyOpen(s) == Ready(s)

(* The version that was read is still the open one (expected_version_id,    *)
(* and the UPDATE ... WHERE valid_to IS NULL that closes it).              *)
StillOpen(s) == Ready(s) /\ session[s].seen = Len(versions)

(* append_version and the commit of it.  state_patch is merged into the     *)
(* state_json of the version that is closed.                               *)
Commit(s) ==
  /\ StillOpen(s)
  /\ Len(versions) < MaxVersions
  /\ LET cmd == session[s].cmd
     IN  versions' = Append(versions,
           [state |-> NextState(versions[session[s].seen].state, cmd),
            event |-> cmd.event, actor |-> cmd.actor, key |-> cmd.key,
            draft |-> IF cmd.draft = NoDraft THEN Current.draft ELSE cmd.draft])
  /\ SetSession(s, IdleSession)

(* The command is refused, denied by the confidence gate, lost its version  *)
(* to another session, failed to commit, or the process died.              *)
Abandon(s) ==
  /\ ~Free(s)
  /\ SetSession(s, IdleSession)
  /\ UNCHANGED versions

Transit(s) ==
  \/ \E cmd \in Commands : Lookup(s, cmd) \/ Read(s, cmd)
  \/ Commit(s)
  \/ Abandon(s)

Next == \E s \in Sessions : Transit(s)

Spec == Init /\ [][Next]_casevars

-----------------------------------------------------------------------------
(* Versions and sessions have the shape of the table and of transition's    *)
(* locals.                                                                 *)
TypeOK ==
  /\ versions \in Seq(Version)
  /\ versions # <<>>
  /\ session \in [Sessions -> [phase : {"idle", "looked", "ready"},
                               cmd : Command \cup {NoCommand}, seen : Nat]]

(* transition is the only way a case changes state, and no race gets round  *)
(* it: each version follows from the one before it by a row of the table    *)
(* that its actor may fire.                                                *)
HistoryLegal ==
  \A i \in 2..Len(versions) :
    \E t \in Transitions :
      Permitted(t, versions[i - 1].state, versions[i]) /\ versions[i].state = t.dst

Happened(i, event) == versions[i].event = event

SendEvents == {"external_message_sent", "external_message_sent_autonomous"}

(* Events by which a supplier is written to.                               *)
ContactEvents == SendEvents \cup {"supplier_info_requested"}

(* GATE 1: no supplier is engaged for a mere query.  Any contact was        *)
(* preceded by the buyer's own commitment.                                 *)
CommitmentGate ==
  \A i \in 1..Len(versions) :
    versions[i].event \in ContactEvents
      => \E j \in 1..(i - 1) : Happened(j, "buyer_committed") /\ versions[j].actor = "buyer"

Approvals == {"approval_granted", "approval_granted_autonomous"}

(* GATE 2: what is sent is the text that stood when the sending was         *)
(* approved; an edit in between voids the approval.                        *)
SendGate ==
  \A i \in 1..Len(versions) :
    versions[i].event \in SendEvents
      => \E j \in 1..(i - 1) :
           /\ versions[j].event \in Approvals
           /\ \A k \in j..i :
                /\ versions[k].draft = versions[j].draft
                /\ ~Happened(k, "external_message_drafted")

(* The supplier's order is placed, and a placed order cancelled, only after *)
(* a person validated the quote, the buyer chose and a person approved the  *)
(* order, in this order.                                                   *)
OrderEvents == {"purchase_order_dispatch_started", "purchase_order_created", "order_cancelled"}

By(i, event, actor) == Happened(i, event) /\ versions[i].actor = actor

OrderGate ==
  \A i \in 1..Len(versions) :
    versions[i].event \in OrderEvents
      => \E c \in 1..(i - 1) : \E b \in 1..(c - 1) : \E a \in 1..(b - 1) :
           /\ By(a, "supplier_quote_validated", "human_operator")
           /\ By(b, "buyer_fulfillment_selected", "buyer")
           /\ By(c, "purchase_order_approved", "human_operator")

(* A case whose enquiry was sent is retired by a person only; the buyer's   *)
(* amendment and the system's batch reach the cases before the send.       *)
SentRetiredByHuman ==
  \A i \in 1..Len(versions) :
    Happened(i, "case_superseded") /\ (\E j \in 1..(i - 1) : versions[j].event \in SendEvents)
      => versions[i].actor = "human_operator"

=============================================================================
