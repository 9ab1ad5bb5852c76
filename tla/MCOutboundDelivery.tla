-------------------------- MODULE MCOutboundDelivery --------------------------
(* Instances of OutboundDelivery for TLC: one clerk session takes the case    *)
(* to its approval, edits and supersedes it; the approvals and the sends      *)
(* come from the couriers only.                                             *)
EXTENDS OutboundDelivery, CaseCallers, TLC

(* An agent that claims to speak for the buyer is among the callers.        *)
CaseCommands ==
  CreateGroupedCases \cup CommitCase \cup {Call("buyer_committed", "agent")}
  \cup RequestSupplierApproval \cup SupersedeOrder \cup ReceiveSupplierInfo
  \cup RecordSupplierInfo

(* The agent composes the first text; people edit it into the others.       *)
FirstDraft == CHOOSE d \in Drafts : TRUE
DraftCommands ==
  CaseCommands \cup Texts("agent", {FirstDraft}) \cup EditDraft(Drafts \ {FirstDraft})

(* Besides, the buyer is qualified first, no supplier may be found, an        *)
(* operator retires the case, and the supplier answers.                     *)
EnquiryCommands ==
  CaseCommands \cup RequestQualification \cup RecordQualification
  \cup DraftAndRecord({FirstDraft}) \cup EditDraft(Drafts \ {FirstDraft})
  \cup OperatorSupersedeCase \cup ReceiveReply

Symmetry == Permutations(Desks)

=============================================================================
