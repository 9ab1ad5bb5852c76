------------------------ MODULE FulfillmentCaseProofs ------------------------
(***************************************************************************)
(* What FulfillmentCase promises for any number of sessions, any commands   *)
(* and histories of any length.                                            *)
(***************************************************************************)
EXTENDS FulfillmentCase, TLAPS

-----------------------------------------------------------------------------
(* The table and its lookups.                                              *)

LEMMA NextStateFollowsRow ==
  ASSUME NEW state, NEW cmd, CanFire(state, cmd)
  PROVE  \E t \in Transitions : Permitted(t, state, cmd) /\ NextState(state, cmd) = t.dst
<1> DEFINE t == CHOOSE t \in Transitions : Permitted(t, state, cmd)
<1>1. t \in Transitions /\ Permitted(t, state, cmd)
  BY Zenon DEF CanFire
<1>2. NextState(state, cmd) = t.dst
  BY DEF NextState
<1> QED BY <1>1, <1>2

LEMMA NextStateInStates ==
  ASSUME NEW state, NEW cmd, CanFire(state, cmd)
  PROVE  NextState(state, cmd) \in States
BY NextStateFollowsRow, Zenon DEF States

-----------------------------------------------------------------------------
(* The commands that any caller may build: only drafting brings a text.     *)
Issuable == {c \in Command : c.draft # NoDraft => c.event = "external_message_drafted"}

(* A step of transition by any session with any such command.  The modules  *)
(* that compose the case with its callers take no other steps of it.        *)
CaseStep ==
  \/ \E s \in Sessions :
       \/ \E cmd \in Issuable : Lookup(s, cmd) \/ Read(s, cmd)
       \/ Commit(s)
       \/ Abandon(s)
  \/ UNCHANGED casevars

LEMMA NextIsCaseStep == ASSUME CaseAssumption, [Next]_casevars PROVE CaseStep
<1>1. Commands \subseteq Issuable
  BY DEF CaseAssumption, Issuable
<1> QED BY <1>1 DEF Next, Transit, CaseStep

(* What a session carries between its steps: a command, and once it has     *)
(* read the case, a version from which the table lets it go on.            *)
SessionsTrue ==
  \A s \in Sessions :
    /\ session[s].phase # "idle" => session[s].cmd \in Issuable
    /\ Ready(s) => /\ session[s].seen \in 1..Len(versions)
                   /\ CanFire(versions[session[s].seen].state, session[s].cmd)

CaseInv == TypeOK /\ SessionsTrue

(* The version a commit writes.                                            *)
Written(s) ==
  [state |-> NextState(versions[session[s].seen].state, session[s].cmd),
   event |-> session[s].cmd.event, actor |-> session[s].cmd.actor,
   key |-> session[s].cmd.key,
   draft |-> IF session[s].cmd.draft = NoDraft THEN Current.draft ELSE session[s].cmd.draft]

LEMMA OpenedIsVersion == Opened \in Version
BY DEF Opened, Version, States, Actors

LEMMA CommitAppends ==
  ASSUME CaseAssumption, CaseInv, NEW s \in Sessions, Commit(s)
  PROVE  /\ versions' = Append(versions, Written(s))
         /\ session[s].cmd \in Issuable
         /\ Written(s) \in Version
         /\ session[s].seen = Len(versions)
         /\ CanFire(Current.state, session[s].cmd)
         /\ session' = [session EXCEPT ![s] = IdleSession]
<1>1. /\ versions \in Seq(Version) /\ versions # <<>>
      /\ session[s].cmd \in Issuable
      /\ session[s].cmd \in Command
      /\ session[s].seen = Len(versions)
      /\ CanFire(versions[session[s].seen].state, session[s].cmd)
  BY DEF Issuable, CaseInv, TypeOK, SessionsTrue, Commit, StillOpen, Ready
<1>2. Len(versions) \in 1..Len(versions) /\ Current \in Version
  BY <1>1 DEF Current
<1>3. NextState(versions[session[s].seen].state, session[s].cmd) \in States
  BY <1>1, NextStateInStates
<1>4. Current.draft \in Drafts \cup {NoDraft}
  BY <1>2 DEF Version
<1>5. Written(s) \in Version
  BY <1>1, <1>3, <1>4 DEF Written, Version, Command
<1>6. versions' = Append(versions, Written(s)) /\ session' = [session EXCEPT ![s] = IdleSession]
  BY DEF Commit, Written, SetSession
<1> QED BY <1>1, <1>5, <1>6 DEF Current

(* What a history says stays said when a version is added.                 *)
LEMMA StaysSaid ==
  ASSUME versions \in Seq(Version), NEW w \in Version, versions' = Append(versions, w)
  PROVE  /\ Len(versions') = Len(versions) + 1
         /\ \A i \in 1..Len(versions) : i \in 1..Len(versions') /\ versions'[i] = versions[i]
         /\ \A i \in 1..Len(versions') : i \in 1..Len(versions) \/ i = Len(versions) + 1
         /\ versions'[Len(versions) + 1] = w
         /\ Len(versions) + 1 \in 1..Len(versions')
         /\ Len(versions) + 1 \notin 1..Len(versions)
OBVIOUS

LEMMA CaseInvInitially == ASSUME CaseAssumption, Init PROVE CaseInv
<1>1. TypeOK
  BY OpenedIsVersion DEF Init, TypeOK, IdleSession, NoCommand
<1>2. SessionsTrue
  BY DEF Init, SessionsTrue, IdleSession, Ready
<1> QED BY <1>1, <1>2 DEF CaseInv

LEMMA CaseInvStep == ASSUME CaseAssumption, CaseInv, CaseStep PROVE CaseInv'
<1>0. CASE UNCHANGED casevars
  BY <1>0 DEF casevars, CaseInv, TypeOK, SessionsTrue, Ready
<1>1. ASSUME NEW s \in Sessions, NEW cmd \in Issuable, Lookup(s, cmd)
      PROVE  CaseInv'
  <2>1. cmd \in Command
    BY <1>1 DEF Issuable
  <2> QED BY <1>1, <2>1 DEF Lookup, SetSession, CaseInv, TypeOK, SessionsTrue, Ready
<1>2. ASSUME NEW s \in Sessions, NEW cmd \in Issuable, Read(s, cmd)
      PROVE  CaseInv'
  <2>1. cmd \in Command
    BY <1>2 DEF Issuable
  <2>2. Len(versions) \in 1..Len(versions) /\ Len(versions) \in Nat
    BY DEF CaseInv, TypeOK
  <2>3. /\ session' = [session EXCEPT ![s] = [phase |-> "ready", cmd |-> cmd, seen |-> Len(versions)]]
        /\ versions' = versions
        /\ CanFire(versions[Len(versions)].state, cmd)
    BY <1>2 DEF Read, SetSession, Current
  <2>4. TypeOK'
    BY <2>1, <2>2, <2>3 DEF CaseInv, TypeOK
  <2>5. SessionsTrue'
    BY <2>1, <2>2, <2>3 DEF CaseInv, TypeOK, SessionsTrue, Ready
  <2> QED BY <2>4, <2>5 DEF CaseInv
<1>3. ASSUME NEW s \in Sessions, Commit(s)
      PROVE  CaseInv'
  <2>1. /\ versions' = Append(versions, Written(s))
        /\ Written(s) \in Version
        /\ session' = [session EXCEPT ![s] = IdleSession]
    BY <1>3, CommitAppends
  <2>2. /\ versions' \in Seq(Version)
        /\ Len(versions') = Len(versions) + 1
        /\ \A i \in 1..Len(versions) : versions'[i] = versions[i]
    BY <2>1 DEF CaseInv, TypeOK
  <2>3. TypeOK'
    BY <2>1, <2>2 DEF CaseInv, TypeOK, IdleSession, NoCommand
  <2>4. SessionsTrue'
    BY <2>1, <2>2 DEF CaseInv, TypeOK, SessionsTrue, Ready, IdleSession
  <2> QED BY <2>3, <2>4 DEF CaseInv
<1>4. ASSUME NEW s \in Sessions, Abandon(s)
      PROVE  CaseInv'
  BY <1>4 DEF Abandon, SetSession, CaseInv, TypeOK, SessionsTrue, Ready, IdleSession, NoCommand
<1> QED BY <1>0, <1>1, <1>2, <1>3, <1>4 DEF CaseStep

-----------------------------------------------------------------------------
(* No race and no caller gets round the table.                             *)

LEMMA WrittenFollows ==
  ASSUME CaseAssumption, CaseInv, NEW s \in Sessions, Commit(s)
  PROVE  \E t \in Transitions :
           Permitted(t, Current.state, Written(s)) /\ Written(s).state = t.dst
<1>1. /\ CanFire(Current.state, session[s].cmd)
      /\ session[s].seen = Len(versions)
  BY CommitAppends
<1>2. PICK t \in Transitions : /\ Permitted(t, Current.state, session[s].cmd)
                              /\ NextState(Current.state, session[s].cmd) = t.dst
  BY <1>1, NextStateFollowsRow
<1>3. Permitted(t, Current.state, Written(s)) /\ Written(s).state = t.dst
  BY <1>1, <1>2 DEF Permitted, Written, Current
<1> QED BY <1>3

LEMMA HistoryStep ==
  ASSUME CaseAssumption, CaseInv, HistoryLegal, CaseStep
  PROVE  HistoryLegal'
<1>1. ASSUME NEW s \in Sessions, Commit(s)
      PROVE  HistoryLegal'
  <2>1. /\ versions' = Append(versions, Written(s))
        /\ versions \in Seq(Version) /\ versions # <<>>
    BY <1>1, CommitAppends DEF CaseInv, TypeOK
  <2>2. SUFFICES ASSUME NEW i \in 2..Len(versions')
                 PROVE  \E t \in Transitions :
                          /\ Permitted(t, versions'[i - 1].state, versions'[i])
                          /\ versions'[i].state = t.dst
    BY DEF HistoryLegal
  <2>3. CASE i = Len(versions')
    <3>1. versions'[i] = Written(s) /\ versions'[i - 1] = Current
      BY <2>1, <2>3 DEF Current
    <3> QED BY <1>1, <3>1, WrittenFollows
  <2>4. CASE i # Len(versions')
    <3>1. /\ i \in 2..Len(versions)
          /\ versions'[i] = versions[i] /\ versions'[i - 1] = versions[i - 1]
      BY <2>1, <2>4
    <3> QED BY <3>1 DEF HistoryLegal
  <2> QED BY <2>3, <2>4
<1>2. ASSUME UNCHANGED versions
      PROVE  HistoryLegal'
  BY <1>2 DEF HistoryLegal
<1> QED BY <1>1, <1>2 DEF CaseStep, Lookup, Read, Abandon, casevars

-----------------------------------------------------------------------------
(* A gate of the case: who is in one of some states has passed an event by   *)
(* an actor.                                                               *)

(* Histories open with the opening.                                        *)
OpenedFirst == versions # <<>> /\ versions[1] = Opened

Behind(S, event, actor) ==
  \A i \in 1..Len(versions) : versions[i].state \in S => \E j \in 1..i : By(j, event, actor)

OnlyWay(S, event, actor) ==
  /\ "NEW" \notin S
  /\ \A t \in Transitions :
       t.dst \in S => t.src \in S \/ (t.event = event /\ t.who = {actor})

LEMMA OpenedFirstStep ==
  ASSUME CaseAssumption, CaseInv, OpenedFirst, CaseStep
  PROVE  OpenedFirst'
<1>1. ASSUME NEW s \in Sessions, Commit(s)
      PROVE  OpenedFirst'
  <2>1. versions' = Append(versions, Written(s)) /\ versions \in Seq(Version) /\ versions # <<>>
    BY <1>1, CommitAppends DEF CaseInv, TypeOK
  <2> QED BY <2>1 DEF OpenedFirst
<1>2. ASSUME UNCHANGED versions
      PROVE  OpenedFirst'
  BY <1>2 DEF OpenedFirst
<1> QED BY <1>1, <1>2 DEF CaseStep, Lookup, Read, Abandon, casevars

LEMMA BehindInitially ==
  ASSUME Init, NEW S, NEW event, NEW actor, OnlyWay(S, event, actor)
  PROVE  Behind(S, event, actor)
BY DEF Init, Behind, OnlyWay, Opened

LEMMA BehindStep ==
  ASSUME CaseAssumption, CaseInv, CaseStep,
         NEW CONSTANT S, NEW CONSTANT event, NEW CONSTANT actor,
         OnlyWay(S, event, actor), Behind(S, event, actor)
  PROVE  Behind(S, event, actor)'
<1>1. ASSUME NEW s \in Sessions, Commit(s)
      PROVE  Behind(S, event, actor)'
  <2>1. /\ versions' = Append(versions, Written(s))
        /\ versions \in Seq(Version) /\ versions # <<>>
    BY <1>1, CommitAppends DEF CaseInv, TypeOK
  <2>2. SUFFICES ASSUME NEW i \in 1..Len(versions'), versions'[i].state \in S
                 PROVE  \E j \in 1..i : versions'[j].event = event /\ versions'[j].actor = actor
    BY DEF Behind, By, Happened
  <2>3. \A k \in 1..Len(versions) : versions'[k] = versions[k]
    BY <2>1
  <2>4. CASE i \in 1..Len(versions)
    <3>1. PICK j \in 1..i : By(j, event, actor)
      BY <2>2, <2>3, <2>4 DEF Behind
    <3>2. versions'[j] = versions[j]
      BY <2>3, <2>4
    <3> QED BY <3>1, <3>2 DEF By, Happened
  <2>5. CASE i \notin 1..Len(versions)
    <3>1. i = Len(versions) + 1 /\ versions'[i] = Written(s)
      BY <2>1, <2>5
    <3>2. PICK t \in Transitions :
            Permitted(t, Current.state, Written(s)) /\ Written(s).state = t.dst
      BY <1>1, WrittenFollows
    <3>3. CASE t.event = event /\ t.who = {actor}
      <4>1. Written(s).event = event /\ Written(s).actor = actor
        BY <3>2, <3>3 DEF Permitted
      <4> QED BY <3>1, <4>1
    <3>4. CASE t.src \in S
      <4>1. Current.state \in S /\ Len(versions) \in 1..Len(versions)
        BY <2>1, <3>2, <3>4 DEF Permitted
      <4>2. PICK j \in 1..Len(versions) : By(j, event, actor)
        BY <4>1 DEF Behind, Current
      <4>3. versions'[j] = versions[j] /\ j \in 1..i
        BY <2>3, <3>1, <4>2
      <4> QED BY <4>2, <4>3 DEF By, Happened
    <3> QED BY <2>2, <3>1, <3>2, <3>3, <3>4 DEF OnlyWay
  <2> QED BY <2>4, <2>5
<1>2. ASSUME UNCHANGED versions
      PROVE  Behind(S, event, actor)'
  BY <1>2 DEF Behind, By, Happened
<1> QED BY <1>1, <1>2 DEF CaseStep, Lookup, Read, Abandon, casevars

(* What a legal history says of a version that is not the first.            *)
LEMMA RowOf ==
  ASSUME HistoryLegal, OpenedFirst, versions \in Seq(Version),
         NEW i \in 1..Len(versions), versions[i].event # "case_opened"
  PROVE  /\ i \in 2..Len(versions) /\ (i - 1) \in 1..Len(versions)
         /\ \E t \in Transitions :
              Permitted(t, versions[i - 1].state, versions[i]) /\ versions[i].state = t.dst
<1>1. i # 1
  BY DEF OpenedFirst, Opened
<1>2. i \in 2..Len(versions) /\ (i - 1) \in 1..Len(versions)
  BY <1>1
<1> QED BY <1>2 DEF HistoryLegal

-----------------------------------------------------------------------------
(* GATE 1.  The states from the commitment to the send, and how the table   *)
(* lets a case into them.                                                  *)
Committed ==
  {"COMMITTED", "QUOTE_DRAFTED", "AWAITING_APPROVAL", "AWAITING_SUPPLIER_INFO",
   "APPROVED_TO_SEND"}

CommitmentRow(t) ==
  /\ t.dst \in Committed =>
       t.src \in Committed \/ (t.event = "buyer_committed" /\ t.who = {"buyer"})
  /\ t.event \in ContactEvents => t.src \in Committed

LEMMA CommitmentTable == \A t \in Transitions : CommitmentRow(t)
<1> USE DEF CommitmentRow, Committed, ContactEvents, SendEvents, Rows, Loops
<1>1. \A t \in CommitmentRows : CommitmentRow(t)
  BY DEF CommitmentRows, Buyer
<1>2. \A t \in EnquiryRows : CommitmentRow(t)
  BY DEF EnquiryRows
<1>3. \A t \in SupersedeRows : CommitmentRow(t)
  BY DEF SupersedeRows, Human
<1>4. \A t \in QuoteRows : CommitmentRow(t)
  BY DEF QuoteRows, Human, Buyer
<1>5. \A t \in OrderRows : CommitmentRow(t)
  BY DEF OrderRows, Human
<1> QED BY <1>1, <1>2, <1>3, <1>4, <1>5 DEF Transitions

LEMMA CommitmentOnlyWay == OnlyWay(Committed, "buyer_committed", "buyer")
BY CommitmentTable DEF OnlyWay, CommitmentRow, Committed

CommitmentKept == Behind(Committed, "buyer_committed", "buyer")

LEMMA CommitmentGateHolds ==
  ASSUME CaseInv, HistoryLegal, OpenedFirst, CommitmentKept
  PROVE  CommitmentGate
<1>1. SUFFICES ASSUME NEW i \in 1..Len(versions), versions[i].event \in ContactEvents
               PROVE  \E j \in 1..(i - 1) :
                        Happened(j, "buyer_committed") /\ versions[j].actor = "buyer"
  BY DEF CommitmentGate
<1>2. versions[i].event # "case_opened"
  BY <1>1 DEF ContactEvents, SendEvents
<1>3. /\ (i - 1) \in 1..Len(versions)
      /\ \E t \in Transitions : Permitted(t, versions[i - 1].state, versions[i])
  BY <1>2, RowOf DEF CaseInv, TypeOK
<1>4. versions[i - 1].state \in Committed
  BY <1>1, <1>3, CommitmentTable DEF CommitmentRow, Permitted
<1> QED BY <1>3, <1>4 DEF CommitmentKept, Behind, By

-----------------------------------------------------------------------------
(* GATE 2.  The send follows the approval at once, with the same text.      *)
ApprovalRow(t) ==
  /\ t.event \in SendEvents => t.src = "APPROVED_TO_SEND"
  /\ t.dst = "APPROVED_TO_SEND" => t.event \in Approvals

LEMMA ApprovalTable == \A t \in Transitions : ApprovalRow(t)
<1> USE DEF ApprovalRow, SendEvents, Approvals, Rows, Loops
<1>1. \A t \in CommitmentRows : ApprovalRow(t)
  BY DEF CommitmentRows, Buyer
<1>2. \A t \in EnquiryRows : ApprovalRow(t)
  BY DEF EnquiryRows
<1>3. \A t \in SupersedeRows : ApprovalRow(t)
  BY DEF SupersedeRows, Human
<1>4. \A t \in QuoteRows : ApprovalRow(t)
  BY DEF QuoteRows, Human, Buyer
<1>5. \A t \in OrderRows : ApprovalRow(t)
  BY DEF OrderRows, Human
<1> QED BY <1>1, <1>2, <1>3, <1>4, <1>5 DEF Transitions

(* A version that is not drafted has the text of the one before it.         *)
TextKept ==
  \A i \in 2..Len(versions) :
    versions[i].event # "external_message_drafted" => versions[i].draft = versions[i - 1].draft

LEMMA TextKeptStep ==
  ASSUME CaseAssumption, CaseInv, TextKept, CaseStep
  PROVE  TextKept'
<1>1. ASSUME NEW s \in Sessions, Commit(s)
      PROVE  TextKept'
  <2>1. /\ versions' = Append(versions, Written(s))
        /\ versions \in Seq(Version) /\ versions # <<>>
        /\ session[s].cmd \in Issuable
    BY <1>1, CommitAppends DEF CaseInv, TypeOK
  <2>2. Written(s).event # "external_message_drafted" => Written(s).draft = Current.draft
    BY <2>1 DEF Issuable, Written
  <2>3. SUFFICES ASSUME NEW i \in 2..Len(versions'),
                        versions'[i].event # "external_message_drafted"
                 PROVE  versions'[i].draft = versions'[i - 1].draft
    BY DEF TextKept
  <2>4. CASE i = Len(versions')
    <3>1. versions'[i] = Written(s) /\ versions'[i - 1] = Current
      BY <2>1, <2>4 DEF Current
    <3> QED BY <2>2, <2>3, <3>1
  <2>5. CASE i # Len(versions')
    <3>1. /\ i \in 2..Len(versions)
          /\ versions'[i] = versions[i] /\ versions'[i - 1] = versions[i - 1]
      BY <2>1, <2>5
    <3> QED BY <2>3, <3>1 DEF TextKept
  <2> QED BY <2>4, <2>5
<1>2. ASSUME UNCHANGED versions
      PROVE  TextKept'
  BY <1>2 DEF TextKept
<1> QED BY <1>1, <1>2 DEF CaseStep, Lookup, Read, Abandon, casevars

LEMMA SendGateHolds ==
  ASSUME CaseInv, HistoryLegal, OpenedFirst, TextKept
  PROVE  SendGate
<1>1. SUFFICES ASSUME NEW i \in 1..Len(versions), versions[i].event \in SendEvents
               PROVE  \E j \in 1..(i - 1) :
                        /\ versions[j].event \in Approvals
                        /\ \A k \in j..i : /\ versions[k].draft = versions[j].draft
                                           /\ ~Happened(k, "external_message_drafted")
  BY DEF SendGate
<1>2. versions[i].event \notin {"case_opened", "external_message_drafted"}
  BY <1>1 DEF SendEvents
<1>3. /\ i \in 2..Len(versions) /\ (i - 1) \in 1..Len(versions)
      /\ \E t \in Transitions : Permitted(t, versions[i - 1].state, versions[i])
  BY <1>2, RowOf DEF CaseInv, TypeOK
<1>4. versions[i - 1].state = "APPROVED_TO_SEND"
  BY <1>1, <1>3, ApprovalTable DEF ApprovalRow, Permitted
<1>5. i - 1 # 1
  BY <1>4 DEF OpenedFirst, Opened
<1>6. \E t \in Transitions :
        /\ Permitted(t, versions[(i - 1) - 1].state, versions[i - 1])
        /\ versions[i - 1].state = t.dst
  <2>1. (i - 1) \in 2..Len(versions)
    BY <1>3, <1>5
  <2> QED BY <2>1 DEF HistoryLegal
<1>7. versions[i - 1].event \in Approvals
  BY <1>4, <1>6, ApprovalTable DEF ApprovalRow, Permitted
<1>8. versions[i].draft = versions[i - 1].draft
  BY <1>2, <1>3 DEF TextKept
<1>9. versions[i - 1].event # "external_message_drafted"
  BY <1>7 DEF Approvals
<1>10. \A k \in (i - 1)..i : k = i - 1 \/ k = i
  BY <1>3
<1> QED BY <1>2, <1>3, <1>7, <1>8, <1>9, <1>10 DEF Happened

-----------------------------------------------------------------------------
(* GATE 3.  Three sets of states, each entered by one event from the one    *)
(* before it.                                                              *)
Validated == {"QUOTE_VALIDATED", "OPTIONS_READY"}
Chosen == {"SELECTED", "PROCUREMENT_APPROVAL_REQUIRED"}
Ordered == {"PROCUREMENT_IN_PROGRESS", "PARTIALLY_READY", "READY_TO_SHIP"}

OrderRow(t) ==
  /\ t.dst \in Validated =>
       t.src \in Validated \/ (t.event = "supplier_quote_validated" /\ t.who = {"human_operator"})
  /\ t.dst \in Chosen =>
       t.src \in Chosen \/ (t.event = "buyer_fulfillment_selected" /\ t.who = {"buyer"})
  /\ t.dst \in Ordered =>
       t.src \in Ordered \/ (t.event = "purchase_order_approved" /\ t.who = {"human_operator"})
  /\ t.event = "buyer_fulfillment_selected" => t.src \in Validated
  /\ t.event = "purchase_order_approved" => t.src \in Chosen
  /\ t.event \in OrderEvents => t.src \in Ordered

LEMMA OrderTable == \A t \in Transitions : OrderRow(t)
<1> USE DEF OrderRow, Validated, Chosen, Ordered, OrderEvents, Rows, Loops
<1>1. \A t \in CommitmentRows : OrderRow(t)
  BY DEF CommitmentRows, Buyer
<1>2. \A t \in EnquiryRows : OrderRow(t)
  BY DEF EnquiryRows
<1>3. \A t \in SupersedeRows : OrderRow(t)
  BY DEF SupersedeRows, Human
<1>4. \A t \in QuoteRows : OrderRow(t)
  BY DEF QuoteRows, Human, Buyer
<1>5. \A t \in OrderRows : OrderRow(t)
  BY DEF OrderRows, Human
<1> QED BY <1>1, <1>2, <1>3, <1>4, <1>5 DEF Transitions

LEMMA OrderOnlyWays ==
  /\ OnlyWay(Validated, "supplier_quote_validated", "human_operator")
  /\ OnlyWay(Chosen, "buyer_fulfillment_selected", "buyer")
  /\ OnlyWay(Ordered, "purchase_order_approved", "human_operator")
BY OrderTable DEF OnlyWay, OrderRow, Validated, Chosen, Ordered

OrderKept ==
  /\ Behind(Validated, "supplier_quote_validated", "human_operator")
  /\ Behind(Chosen, "buyer_fulfillment_selected", "buyer")
  /\ Behind(Ordered, "purchase_order_approved", "human_operator")

LEMMA SourceOf ==
  ASSUME CaseInv, HistoryLegal, OpenedFirst,
         NEW i \in 1..Len(versions), NEW S,
         versions[i].event # "case_opened",
         \A t \in Transitions : t.event = versions[i].event => t.src \in S
  PROVE  (i - 1) \in 1..Len(versions) /\ versions[i - 1].state \in S
<1>1. /\ (i - 1) \in 1..Len(versions)
      /\ \E t \in Transitions : Permitted(t, versions[i - 1].state, versions[i])
  BY RowOf DEF CaseInv, TypeOK
<1> QED BY <1>1 DEF Permitted

LEMMA OrderGateHolds ==
  ASSUME CaseInv, HistoryLegal, OpenedFirst, OrderKept
  PROVE  OrderGate
<1>1. SUFFICES ASSUME NEW i \in 1..Len(versions), versions[i].event \in OrderEvents
               PROVE  \E c \in 1..(i - 1) : \E b \in 1..(c - 1) : \E a \in 1..(b - 1) :
                        /\ By(a, "supplier_quote_validated", "human_operator")
                        /\ By(b, "buyer_fulfillment_selected", "buyer")
                        /\ By(c, "purchase_order_approved", "human_operator")
  BY DEF OrderGate
<1>2. (i - 1) \in 1..Len(versions) /\ versions[i - 1].state \in Ordered
  <2>1. versions[i].event # "case_opened"
    BY <1>1 DEF OrderEvents
  <2>2. \A t \in Transitions : t.event = versions[i].event => t.src \in Ordered
    BY <1>1, OrderTable DEF OrderRow
  <2> QED BY <2>1, <2>2, SourceOf
<1>3. PICK c \in 1..(i - 1) : By(c, "purchase_order_approved", "human_operator")
  BY <1>2 DEF OrderKept, Behind
<1>4. (c - 1) \in 1..Len(versions) /\ versions[c - 1].state \in Chosen
  <2>1. c \in 1..Len(versions)
    BY <1>2, <1>3
  <2>2. \A t \in Transitions : t.event = versions[c].event => t.src \in Chosen
    BY <1>3, OrderTable DEF OrderRow, By, Happened
  <2>3. versions[c].event # "case_opened"
    BY <1>3 DEF By, Happened
  <2> QED BY <2>1, <2>2, <2>3, SourceOf
<1>5. PICK b \in 1..(c - 1) : By(b, "buyer_fulfillment_selected", "buyer")
  BY <1>4 DEF OrderKept, Behind
<1>6. (b - 1) \in 1..Len(versions) /\ versions[b - 1].state \in Validated
  <2>1. b \in 1..Len(versions)
    BY <1>4, <1>5
  <2>2. \A t \in Transitions : t.event = versions[b].event => t.src \in Validated
    BY <1>5, OrderTable DEF OrderRow, By, Happened
  <2>3. versions[b].event # "case_opened"
    BY <1>5 DEF By, Happened
  <2> QED BY <2>1, <2>2, <2>3, SourceOf
<1>7. PICK a \in 1..(b - 1) : By(a, "supplier_quote_validated", "human_operator")
  BY <1>6 DEF OrderKept, Behind
<1> QED BY <1>3, <1>5, <1>7

-----------------------------------------------------------------------------
(* After the send.  No row leads back before it.                           *)
Unsent ==
  {"NEW", "AVAILABILITY_ASSESSED", "AWAITING_BUYER_COMMITMENT", "COMMITTED", "QUOTE_DRAFTED",
   "AWAITING_APPROVAL", "AWAITING_SUPPLIER_INFO", "APPROVED_TO_SEND"}

SentRow(t) ==
  /\ t.event \in SendEvents \/ t.src \notin Unsent => t.dst \notin Unsent
  /\ t.event = "case_superseded" /\ t.src \notin Unsent => t.who = {"human_operator"}

LEMMA SentTable == \A t \in Transitions : SentRow(t)
<1> USE DEF SentRow, SendEvents, Unsent, Rows, Loops
<1>1. \A t \in CommitmentRows : SentRow(t)
  BY DEF CommitmentRows
<1>2. \A t \in EnquiryRows : SentRow(t)
  BY DEF EnquiryRows
<1>3. \A t \in SupersedeRows : SentRow(t)
  BY DEF SupersedeRows, Human
<1>4. \A t \in QuoteRows : SentRow(t)
  BY DEF QuoteRows
<1>5. \A t \in OrderRows : SentRow(t)
  BY DEF OrderRows
<1> QED BY <1>1, <1>2, <1>3, <1>4, <1>5 DEF Transitions

SentBy(i) == \E j \in 1..i : versions[j].event \in SendEvents
SentKept == \A i \in 1..Len(versions) : SentBy(i) => versions[i].state \notin Unsent

LEMMA SentKeptStep ==
  ASSUME CaseAssumption, CaseInv, SentKept, CaseStep
  PROVE  SentKept'
<1>1. ASSUME NEW s \in Sessions, Commit(s)
      PROVE  SentKept'
  <2>1. /\ versions' = Append(versions, Written(s))
        /\ versions \in Seq(Version) /\ versions # <<>>
    BY <1>1, CommitAppends DEF CaseInv, TypeOK
  <2>2. SUFFICES ASSUME NEW i \in 1..Len(versions'),
                        NEW j \in 1..i, versions'[j].event \in SendEvents
                 PROVE  versions'[i].state \notin Unsent
    BY DEF SentKept, SentBy
  <2>3. \A k \in 1..Len(versions) : versions'[k] = versions[k]
    BY <2>1
  <2>4. CASE i \in 1..Len(versions)
    <3>1. j \in 1..Len(versions)
      BY <2>4
    <3>2. SentBy(i)
      BY <2>2, <2>3, <3>1 DEF SentBy
    <3> QED BY <2>3, <2>4, <3>2 DEF SentKept
  <2>5. CASE i \notin 1..Len(versions)
    <3>1. i = Len(versions) + 1 /\ versions'[i] = Written(s)
      BY <2>1, <2>5
    <3>2. PICK t \in Transitions :
            Permitted(t, Current.state, Written(s)) /\ Written(s).state = t.dst
      BY <1>1, WrittenFollows
    <3>3. CASE j = i
      BY <2>2, <3>1, <3>2, <3>3, SentTable DEF SentRow, Permitted
    <3>4. CASE j # i
      <4>1. j \in 1..Len(versions) /\ Len(versions) \in 1..Len(versions)
        BY <2>1, <3>1, <3>4
      <4>2. SentBy(Len(versions))
        BY <2>2, <2>3, <4>1 DEF SentBy
      <4>3. t.src \notin Unsent
        BY <3>2, <4>1, <4>2 DEF SentKept, Permitted, Current
      <4> QED BY <3>1, <3>2, <4>3, SentTable DEF SentRow
    <3> QED BY <3>3, <3>4
  <2> QED BY <2>4, <2>5
<1>2. ASSUME UNCHANGED versions
      PROVE  SentKept'
  BY <1>2 DEF SentKept, SentBy
<1> QED BY <1>1, <1>2 DEF CaseStep, Lookup, Read, Abandon, casevars

LEMMA SentRetiredHolds ==
  ASSUME CaseInv, HistoryLegal, OpenedFirst, SentKept
  PROVE  SentRetiredByHuman
<1>1. SUFFICES ASSUME NEW i \in 1..Len(versions), Happened(i, "case_superseded"),
                      NEW j \in 1..(i - 1), versions[j].event \in SendEvents
               PROVE  versions[i].actor = "human_operator"
  BY DEF SentRetiredByHuman
<1>2. /\ (i - 1) \in 1..Len(versions)
      /\ \E t \in Transitions : Permitted(t, versions[i - 1].state, versions[i])
  BY <1>1, RowOf DEF CaseInv, TypeOK, Happened
<1>3. versions[i - 1].state \notin Unsent
  BY <1>1, <1>2 DEF SentKept, SentBy
<1> QED BY <1>1, <1>2, <1>3, SentTable DEF SentRow, Permitted, Happened

-----------------------------------------------------------------------------
(* All of it together: what is true of a case whatever its sessions do.     *)
CaseHistory ==
  CaseInv /\ HistoryLegal /\ OpenedFirst /\ CommitmentKept /\ TextKept /\ OrderKept /\ SentKept

LEMMA CaseHistoryInitially == ASSUME CaseAssumption, Init PROVE CaseHistory
<1>1. OpenedFirst /\ HistoryLegal /\ TextKept
  BY DEF Init, OpenedFirst, HistoryLegal, TextKept
<1>2. CommitmentKept /\ OrderKept
  BY BehindInitially, CommitmentOnlyWay, OrderOnlyWays DEF CommitmentKept, OrderKept
<1>3. SentKept
  BY DEF Init, SentKept, SentBy, Opened, SendEvents
<1> QED BY <1>1, <1>2, <1>3, CaseInvInitially DEF CaseHistory

LEMMA CaseHistoryStep == ASSUME CaseAssumption, CaseHistory, CaseStep PROVE CaseHistory'
<1> USE DEF CaseHistory
<1>1. CaseInv' /\ HistoryLegal' /\ OpenedFirst'
  BY CaseInvStep, HistoryStep, OpenedFirstStep
<1>2. CommitmentKept' /\ OrderKept'
  BY BehindStep, CommitmentOnlyWay, OrderOnlyWays DEF CommitmentKept, OrderKept
<1>3. TextKept' /\ SentKept'
  BY TextKeptStep, SentKeptStep
<1> QED BY <1>1, <1>2, <1>3

(* The gates follow from it in any state.                                  *)
LEMMA CaseGates ==
  ASSUME CaseHistory
  PROVE  TypeOK /\ HistoryLegal /\ CommitmentGate /\ SendGate /\ OrderGate /\ SentRetiredByHuman
BY CommitmentGateHolds, SendGateHolds, OrderGateHolds, SentRetiredHolds DEF CaseHistory, CaseInv

LEMMA CaseHistoryAlways == Spec => []CaseHistory
<1>1. Init => CaseHistory
  BY CaseAssumption, CaseHistoryInitially
<1>2. CaseHistory /\ [Next]_casevars => CaseHistory'
  BY CaseAssumption, NextIsCaseStep, CaseHistoryStep
<1> QED BY <1>1, <1>2, PTL DEF Spec

(* Versions and sessions keep their shape (transition, append_version).     *)
THEOREM TypeCorrect == Spec => []TypeOK
BY CaseHistoryAlways, CaseGates, PTL

(* transition is the only way a case changes state: each version follows    *)
(* from the one before it by a row that its actor may fire, however the     *)
(* sessions interleave.                                                    *)
THEOREM HistoryAlwaysLegal == Spec => []HistoryLegal
BY CaseHistoryAlways, CaseGates, PTL

(* GATE 1: no supplier is written to before the buyer's own commitment, and *)
(* nobody else can commit for the buyer.                                   *)
THEOREM CommitmentGateKept == Spec => []CommitmentGate
BY CaseHistoryAlways, CaseGates, PTL

(* GATE 2: what is sent is the text that stood when its sending was         *)
(* approved; no edit comes between the approval and the send.              *)
THEOREM SendGateKept == Spec => []SendGate
BY CaseHistoryAlways, CaseGates, PTL

(* GATE 3: the supplier's order is placed, or a placed one cancelled, only  *)
(* after a person validated the quote, then the buyer chose, then a person  *)
(* approved the order.                                                     *)
THEOREM OrderGateKept == Spec => []OrderGate
BY CaseHistoryAlways, CaseGates, PTL

(* A case whose enquiry was sent is retired by a person only: neither the   *)
(* buyer's amendment nor the system's batch can get in behind the send.     *)
THEOREM SentRetiredByPeople == Spec => []SentRetiredByHuman
BY CaseHistoryAlways, CaseGates, PTL

=============================================================================
