---------------------------- MODULE CaseCallers ----------------------------
(***************************************************************************)
(* Who fires which event of a case: for each function that calls            *)
(* transition outside the sends and the order, the commands it may issue.   *)
(* A function that looks at the case first (an edit needs a draft, a choice *)
(* an option) appears as its commands alone: the look can only withhold     *)
(* them, and transition reads the case again.  approval_rejected,           *)
(* policy_blocked, recipient_blocked, buyer_declined and                    *)
(* supplier_candidates_ranked are rows of the table nobody fires.           *)
(***************************************************************************)
EXTENDS FulfillmentCase

Call(event, actor) == [event |-> event, actor |-> actor, key |-> NoKey, draft |-> NoDraft]

Texts(actor, drafts) ==
  {[Call("external_message_drafted", actor) EXCEPT !.draft = d] : d \in drafts}

(* The split of an order opens a case per supplier and offers it to the buyer. *)
CreateGroupedCases ==
  {Call("availability_assessed", "agent"), Call("request_buyer_commitment", "agent")}

(* The buyer's own request.                                                *)
CommitCase == {Call("buyer_committed", "buyer")}

(* A human talks to the buyer before a supplier is written to.             *)
RequestQualification == {Call("buyer_qualification_requested", "agent")}
RecordQualification ==
  {Call("buyer_qualified", "human_operator"), Call("buyer_disqualified", "human_operator")}

(* The agent composes the enquiry, or finds no supplier to write to; people *)
(* edit it and ask for the approval of what stands.                        *)
DraftAndRecord(drafts) ==
  Texts("agent", drafts) \cup {Call("no_approved_supplier", "agent")}
EditDraft(drafts) == Texts("human_operator", drafts)
RequestSupplierApproval == {Call("approval_requested", "agent")}

(* The answer to a clarification comes by mail from a trusted domain, or is *)
(* entered by an operator.                                                 *)
ReceiveSupplierInfo == {Call("supplier_info_received", "external")}
RecordSupplierInfo == {Call("supplier_info_received", "human_operator")}

(* The buyer amends the order, or an operator retires a case.              *)
SupersedeOrder == {Call("case_superseded", "buyer")}
OperatorSupersedeCase == {Call("case_superseded", "human_operator")}

(* The supplier's answer: screened, correlated, parsed, validated.  A quote *)
(* past its expiry is refused whoever validates it.                        *)
ReceiveReply ==
  { Call("external_message_received", "external"),
    Call("supplier_response_quarantined", "system") }
RecordParsed ==
  {Call("supplier_response_parsed", "agent"), Call("quote_parse_failed", "system")}
ValidateQuote ==
  {Call("supplier_quote_validated", "human_operator"), Call("quote_expired", "system")}

(* The options, the buyer's choice, and the order proposed from it.        *)
GenerateOptions == {Call("fulfillment_options_generated", "agent")}
SelectOption == {Call("buyer_fulfillment_selected", "buyer")}
Propose == {Call("purchase_order_proposed", "agent")}

(* What follows the order.                                                 *)
RecordDelivery ==
  {Call("goods_receipt_recorded", "human_operator"), Call("invoice_recorded", "human_operator")}
Complete == {Call("completed", "human_operator")}
ProposeChange == {Call("change_requested", "human_operator")}
AuthorizeCancellation == {Call("order_cancelled", "human_operator")}

=============================================================================
