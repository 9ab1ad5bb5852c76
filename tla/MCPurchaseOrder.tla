--------------------------- MODULE MCPurchaseOrder ---------------------------
(* Instances of PurchaseOrder for TLC: one clerk takes the case to the       *)
(* order and may cancel it, two executors place it.                        *)
EXTENDS PurchaseOrder, CaseCallers, TLC

Enquiry ==
  CreateGroupedCases \cup CommitCase \cup Texts("agent", Drafts) \cup RequestSupplierApproval
  \cup {Call("approval_granted", "human_operator"),
        Call("external_message_sent", "human_operator"),
        Call("external_message_received", "external")}

ClerkCommands ==
  Enquiry \cup RecordParsed \cup ValidateQuote \cup GenerateOptions \cup SelectOption \cup Propose
  \cup ProposeChange \cup AuthorizeCancellation \cup RecordDelivery \cup Complete
  \cup {Call("buyer_fulfillment_selected", "agent"), Call("approval_rejected", "human_operator")}

(* Both executors are called with the default key of the case, or one of    *)
(* them, besides, with the others.                                         *)
CONSTANT FirstExecutor
SameKey == [x \in Executors |-> Keys]
MixedKeys ==
  [x \in Executors |-> IF x = FirstExecutor THEN {CHOOSE k \in Keys : TRUE} ELSE Keys]

=============================================================================
