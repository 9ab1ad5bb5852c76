------------------------- MODULE PurchaseOrderProofs -------------------------
(***************************************************************************)
(* What PurchaseOrder promises for any number of executors and any keys.    *)
(*                                                                         *)
(* The steps of execute and of the other sessions are steps of the case, so *)
(* that everything FulfillmentCaseProofs shows of a history holds here.     *)
(* The rest is a count and a chain: each intent carries the key of the one  *)
(* approval there can be, and each executor that is about to call the       *)
(* transport stands for an intent that no order has used up.               *)
(***************************************************************************)
EXTENDS PurchaseOrder, FulfillmentCaseProofs, FiniteSetTheorems

-----------------------------------------------------------------------------
(* The event that execute fires where it is.                               *)
EventAt(pc) ==
  IF pc = "approve" THEN "purchase_order_approved"
  ELSE IF pc = "dispatch" THEN Intent ELSE "purchase_order_created"

RunsTyped ==
  /\ run \in [Executors -> [pc : PC, key : Keys \cup {NoKey}]]
  /\ created \in Nat

(* Every session runs the command that its caller built: the clerks one of  *)
(* theirs, an executor that of the step of execute it is in.               *)
CallsTrue ==
  /\ \A s \in Sessions \ Executors : ~Free(s) => session[s].cmd \in Commands
  /\ \A x \in Executors :
       ~Free(x) => /\ run[x].pc \in {"approve", "dispatch", "record"}
                   /\ session[x].cmd = OrderCommand(run[x].key, EventAt(run[x].pc))

(* Once the order is approved the case does not come back before it.        *)
Approved == {"PROCUREMENT_IN_PROGRESS", "PARTIALLY_READY", "READY_TO_SHIP", "COMPLETED", "CANCELLED"}
ApprovedBy(i) == \E j \in 1..i : Happened(j, "purchase_order_approved")
ApprovedKept == \A i \in 1..Len(versions) : ApprovedBy(i) => versions[i].state \in Approved

(* execute is past its first transition under the key that was approved.    *)
PastApproval ==
  \A x \in Executors :
    run[x].pc \in {"check", "dispatch", "send", "record"} =>
      \E j \in 1..Len(versions) :
        Happened(j, "purchase_order_approved") /\ versions[j].key = run[x].key

(* An intent has the key of an approval.                                   *)
IntentApproved ==
  \A i \in 1..Len(versions) :
    Happened(i, Intent) =>
      \E j \in 1..Len(versions) :
        Happened(j, "purchase_order_approved") /\ versions[j].key = versions[i].key

(* Only a receipt is recorded.                                             *)
ReceiptFirst == \A x \in Executors : run[x].pc = "record" => created > 0

Intents == {i \in 1..Len(versions) : Happened(i, Intent)}
Sending == {x \in Executors : At(x, "send")}

(* Each call of the transport that was made or is about to be made has an   *)
(* intent of its own.                                                      *)
Counted == created + Cardinality(Sending) <= Cardinality(Intents)

OrderInv ==
  /\ CaseHistory
  /\ RunsTyped
  /\ CallsTrue
  /\ ApprovedKept
  /\ PastApproval
  /\ IntentApproved
  /\ ReceiptFirst
  /\ CreatedIsTrue
  /\ Counted

-----------------------------------------------------------------------------
(* The steps as the invariant sees them: what becomes of the history, of    *)
(* the runs and of the orders at the supplier.                             *)
Moves(x, pc, k) == run' = [run EXCEPT ![x] = [pc |-> pc, key |-> k]]

(* Nothing is written.                                                     *)
Silent(x) ==
  /\ versions' = versions
  /\ \/ /\ created' = created
        /\ \/ run[x].pc = "idle" /\ \E k \in Keys : Moves(x, "approve", k)
           \/ /\ run[x].pc = "approve" /\ Moves(x, "check", run[x].key)
              /\ Applied(OrderCommand(run[x].key, "purchase_order_approved"))
           \/ run[x].pc = "check" /\ Moves(x, "dispatch", run[x].key)
           \/ Moves(x, "idle", NoKey)
     \/ /\ run[x].pc = "send"
        /\ \/ created' = created + 1 /\ Moves(x, "record", run[x].key)
           \/ created' \in {created, created + 1} /\ Moves(x, "idle", NoKey)

(* execute writes a version and goes on.                                   *)
Places(x) ==
  /\ run[x].pc \in {"approve", "dispatch", "record"}
  /\ created' = created
  /\ \E w \in Version :
       /\ versions' = Append(versions, w)
       /\ w.event = EventAt(run[x].pc)
       /\ w.key = run[x].key
  /\ \/ run[x].pc = "approve" /\ Moves(x, "check", run[x].key)
     \/ run[x].pc = "dispatch" /\ Moves(x, "send", run[x].key)
     \/ run[x].pc = "record" /\ Moves(x, "idle", NoKey)

(* The others write what is none of execute's, or nothing.                  *)
Beside ==
  /\ run' = run
  /\ created' = created
  /\ \/ versions' = versions
     \/ \E w \in Version : versions' = Append(versions, w) /\ w.event \notin ExecuteEvents

OrderStep == Beside \/ \E x \in Executors : Silent(x) \/ Places(x)

LEMMA ExecuteEventsListed == ExecuteEvents \subseteq Events
<1> DEFINE row(event, target, who) ==
             [event |-> event, src |-> "PROCUREMENT_IN_PROGRESS", dst |-> target, who |-> who]
<1>1. row("purchase_order_created", "READY_TO_SHIP", Human \cup System) \in OrderRows
  BY DEF OrderRows, Rows
<1>2. row(Intent, "PROCUREMENT_IN_PROGRESS", Human) \in OrderRows
  BY DEF OrderRows, Loops, Intent
<1>3. [event |-> "purchase_order_approved", src |-> "PROCUREMENT_APPROVAL_REQUIRED",
       dst |-> "PROCUREMENT_IN_PROGRESS", who |-> Human] \in OrderRows
  BY DEF OrderRows, Rows
<1>4. OrderRows \subseteq Transitions
  BY DEF Transitions
<1>5. \A t \in Transitions : t.event \in Events
  BY DEF Events
<1>6. "purchase_order_approved" \in Events
  BY <1>3, <1>4, <1>5
<1>7. "purchase_order_dispatch_started" \in Events
  BY <1>2, <1>4, <1>5 DEF Intent
<1>8. "purchase_order_created" \in Events
  BY <1>1, <1>4, <1>5
<1> QED BY <1>6, <1>7, <1>8 DEF ExecuteEvents

LEMMA OrderCommandIssuable ==
  ASSUME NEW k \in Keys \cup {NoKey}, NEW event \in ExecuteEvents
  PROVE  OrderCommand(k, event) \in Issuable
BY ExecuteEventsListed DEF OrderCommand, Issuable, Command, Actors

LEMMA GotoMoves ==
  ASSUME RunsTyped, NEW x \in Executors, NEW pc \in PC, Goto(x, pc)
  PROVE  IF pc = "idle" THEN Moves(x, "idle", NoKey) ELSE Moves(x, pc, run[x].key)
<1>1. CASE pc = "idle"
  BY <1>1 DEF Goto, Moves, IdleRun
<1>2. CASE pc # "idle"
  <2>1. run' = [run EXCEPT ![x] = [run[x] EXCEPT !.pc = pc]]
    BY <1>2 DEF Goto
  <2>2. [run[x] EXCEPT !.pc = pc] = [pc |-> pc, key |-> run[x].key]
    BY DEF RunsTyped
  <2> QED BY <1>2, <2>1, <2>2 DEF Moves
<1> QED BY <1>1, <1>2

LEMMA StepShape ==
  ASSUME CaseAssumption, ExecutorsAssumption, OrderInv, [PONext]_vars
  PROVE  OrderStep
<1> USE DEF OrderInv
<1>0. CASE UNCHANGED vars
  BY <1>0 DEF vars, OrderStep, Beside
<1>1. ASSUME NEW x \in Executors, NEW k \in KeysOf[x], Execute(x, k)
      PROVE  OrderStep
  <2>1. k \in Keys
    BY DEF ExecutorsAssumption
  <2> QED BY <1>1, <2>1 DEF Execute, At, OrderStep, Silent, Moves
<1>2. ASSUME NEW x \in Executors, NEW done \in PC, NEW replayed \in PC,
             run[x].pc \in {"approve", "dispatch", "record"},
             Fire(x, EventAt(run[x].pc), done, replayed),
             \/ run[x].pc = "approve" /\ done = "check" /\ replayed = "check"
             \/ run[x].pc = "dispatch" /\ done = "send" /\ replayed = "idle"
             \/ run[x].pc = "record" /\ done = "idle" /\ replayed = "idle"
      PROVE  OrderStep
  <2> DEFINE cmd == OrderCommand(run[x].key, EventAt(run[x].pc))
  <2>1. /\ created' = created
        /\ \/ Free(x) /\ Applied(cmd) /\ Goto(x, replayed) /\ UNCHANGED casevars
           \/ (Lookup(x, cmd) \/ Read(x, cmd)) /\ run' = run
           \/ Commit(x) /\ Goto(x, done)
           \/ Abandon(x) /\ Goto(x, "idle")
    BY <1>2 DEF Fire
  <2>2. CASE Applied(cmd) /\ Goto(x, replayed) /\ UNCHANGED casevars
    <3>1. CASE run[x].pc = "approve"
      <4>1. Moves(x, "check", run[x].key)
        BY <1>2, <2>2, <3>1, GotoMoves
      <4>2. Applied(OrderCommand(run[x].key, "purchase_order_approved"))
        BY <2>2, <3>1 DEF EventAt
      <4> QED BY <2>1, <2>2, <3>1, <4>1, <4>2 DEF casevars, OrderStep, Silent
    <3>2. CASE run[x].pc # "approve"
      <4>1. Moves(x, "idle", NoKey)
        BY <1>2, <2>2, <3>2, GotoMoves
      <4> QED BY <2>1, <2>2, <4>1 DEF casevars, OrderStep, Silent
    <3> QED BY <3>1, <3>2
  <2>3. CASE (Lookup(x, cmd) \/ Read(x, cmd)) /\ run' = run
    BY <2>1, <2>3 DEF Lookup, Read, OrderStep, Beside
  <2>4. CASE Commit(x) /\ Goto(x, done)
    <3>1. x \in Sessions /\ ~Free(x)
      BY <2>4 DEF ExecutorsAssumption, Commit, StillOpen, Ready, Free
    <3>2. /\ versions' = Append(versions, Written(x))
          /\ Written(x) \in Version
      BY <2>4, <3>1, CommitAppends DEF CaseHistory
    <3>3. session[x].cmd = OrderCommand(run[x].key, EventAt(run[x].pc))
      BY <3>1 DEF CallsTrue
    <3>4. Written(x).event = EventAt(run[x].pc) /\ Written(x).key = run[x].key
      BY <3>3 DEF Written, OrderCommand
    <3>5. Moves(x, done, IF done = "idle" THEN NoKey ELSE run[x].key)
      BY <1>2, <2>4, GotoMoves
    <3> QED BY <1>2, <2>1, <3>2, <3>4, <3>5 DEF OrderStep, Places
  <2>5. CASE Abandon(x) /\ Goto(x, "idle")
    <3>1. Moves(x, "idle", NoKey)
      BY <2>5, GotoMoves DEF PC
    <3> QED BY <2>1, <2>5, <3>1 DEF Abandon, OrderStep, Silent
  <2> QED BY <2>1, <2>2, <2>3, <2>4, <2>5
<1>3. ASSUME NEW x \in Executors, Approve(x)
      PROVE  OrderStep
  BY <1>2, <1>3 DEF Approve, At, EventAt, PC
<1>4. ASSUME NEW x \in Executors, CheckCreated(x)
      PROVE  OrderStep
  <2>1. Moves(x, "idle", NoKey) \/ Moves(x, "dispatch", run[x].key)
    BY <1>4, GotoMoves DEF CheckCreated, PC
  <2> QED BY <1>4, <2>1 DEF CheckCreated, At, OrderStep, Silent
<1>5. ASSUME NEW x \in Executors, Dispatch(x)
      PROVE  OrderStep
  BY <1>2, <1>5 DEF Dispatch, At, EventAt, PC, Intent
<1>6. ASSUME NEW x \in Executors, Send(x)
      PROVE  OrderStep
  <2>1. \/ created' = created + 1 /\ Moves(x, "record", run[x].key)
        \/ created' \in {created, created + 1} /\ Moves(x, "idle", NoKey)
    BY <1>6, GotoMoves DEF Send, PC
  <2> QED BY <1>6, <2>1 DEF Send, At, OrderStep, Silent
<1>7. ASSUME NEW x \in Executors, Record(x)
      PROVE  OrderStep
  BY <1>2, <1>7 DEF Record, At, EventAt, PC
<1>8. ASSUME NEW x \in Executors, Die(x)
      PROVE  OrderStep
  <2>1. Moves(x, "idle", NoKey)
    BY <1>8, GotoMoves DEF Die, PC
  <2> QED BY <1>8, <2>1 DEF Die, OrderStep, Silent
<1>9. ASSUME NEW s \in Sessions \ Executors, Other(s)
      PROVE  OrderStep
  <2>1. CASE Commit(s)
    <3>1. ~Free(s)
      BY <2>1 DEF Commit, StillOpen, Ready, Free
    <3>2. session[s].cmd \in Commands
      BY <3>1 DEF CallsTrue
    <3>3. versions' = Append(versions, Written(s)) /\ Written(s) \in Version
      BY <2>1, CommitAppends DEF CaseHistory
    <3>4. Written(s).event \notin ExecuteEvents
      BY <3>2 DEF Written, ExecutorsAssumption
    <3> QED BY <1>9, <3>3, <3>4 DEF Other, OrderStep, Beside
  <2>2. CASE ~Commit(s)
    BY <1>9, <2>2 DEF Other, Transit, Lookup, Read, Abandon, OrderStep, Beside
  <2> QED BY <2>1, <2>2
<1> QED BY <1>0, <1>1, <1>3, <1>4, <1>5, <1>6, <1>7, <1>8, <1>9 DEF PONext

-----------------------------------------------------------------------------
(* The case and the sessions.                                              *)

LEMMA OrderIsCaseStep ==
  ASSUME CaseAssumption, ExecutorsAssumption, OrderInv, [PONext]_vars
  PROVE  CaseStep
<1> USE DEF OrderInv
<1>0. CASE UNCHANGED vars
  BY <1>0 DEF vars, casevars, CaseStep
<1>1. ASSUME NEW x \in Executors, NEW done, NEW replayed,
             run[x].pc \in {"approve", "dispatch", "record"},
             Fire(x, EventAt(run[x].pc), done, replayed)
      PROVE  CaseStep
  <2> DEFINE cmd == OrderCommand(run[x].key, EventAt(run[x].pc))
  <2>1. x \in Sessions
    BY DEF ExecutorsAssumption
  <2>2. cmd \in Issuable
    <3>1. run[x].key \in Keys \cup {NoKey}
      BY DEF RunsTyped
    <3>2. EventAt(run[x].pc) \in ExecuteEvents
      BY DEF EventAt, ExecuteEvents, Intent
    <3> QED BY <3>1, <3>2, OrderCommandIssuable
  <2>3. Lookup(x, cmd) \/ Read(x, cmd) \/ Commit(x) \/ Abandon(x) \/ UNCHANGED casevars
    BY <1>1 DEF Fire
  <2> HIDE DEF cmd
  <2> QED BY <2>1, <2>2, <2>3 DEF CaseStep
<1>2. ASSUME NEW x \in Executors, Approve(x) \/ Dispatch(x) \/ Record(x)
      PROVE  CaseStep
  BY <1>1, <1>2 DEF Approve, Dispatch, Record, At, EventAt, Intent
<1>3. ASSUME NEW x \in Executors, CheckCreated(x) \/ Send(x) \/ Die(x) \/ \E k \in KeysOf[x] : Execute(x, k)
      PROVE  CaseStep
  BY <1>3 DEF CheckCreated, Send, Die, Execute, CaseStep, casevars
<1>4. ASSUME NEW s \in Sessions \ Executors, Other(s)
      PROVE  CaseStep
  <2>1. Commands \subseteq Issuable
    BY DEF CaseAssumption, Issuable
  <2> QED BY <1>4, <2>1 DEF Other, Transit, CaseStep
<1> QED BY <1>0, <1>2, <1>3, <1>4 DEF PONext

LEMMA RunsTypedStep ==
  ASSUME RunsTyped, OrderStep
  PROVE  RunsTyped'
<1>1. CASE Beside
  BY <1>1 DEF Beside, RunsTyped
<1>2. ASSUME NEW x \in Executors, Silent(x)
      PROVE  RunsTyped'
  BY <1>2 DEF Silent, Moves, RunsTyped, PC
<1>3. ASSUME NEW x \in Executors, Places(x)
      PROVE  RunsTyped'
  BY <1>3 DEF Places, Moves, RunsTyped, PC
<1> QED BY <1>1, <1>2, <1>3 DEF OrderStep

(* A session is left to its caller, freed, or given a command of its        *)
(* caller's; an executor changes its place only with its session free.      *)
LEMMA CallsTrueStep ==
  ASSUME CaseAssumption, ExecutorsAssumption, OrderInv, [PONext]_vars
  PROVE  CallsTrue'
<1> USE DEF OrderInv
<1>t. session \in [Sessions -> [phase : {"idle", "looked", "ready"},
                                cmd : Command \cup {NoCommand}, seen : Nat]]
  BY DEF CaseHistory, CaseInv, TypeOK
<1>e. Executors \subseteq Sessions
  BY DEF ExecutorsAssumption
<1>0. CASE UNCHANGED vars
  BY <1>0 DEF vars, CallsTrue, Free
<1>1. ASSUME NEW x \in Executors, NEW pc \in PC, NEW k,
             Moves(x, pc, k), session'[x].phase = "idle",
             \A s \in Sessions \ {x} : session'[s] = session[s]
      PROVE  CallsTrue'
  BY <1>1, <1>e DEF CallsTrue, Free, Moves, RunsTyped
<1>2. ASSUME NEW x \in Executors, run' = run, NEW phase, NEW seen,
             run[x].pc \in {"approve", "dispatch", "record"},
             session' = [session EXCEPT ![x] =
               [phase |-> phase, cmd |-> OrderCommand(run[x].key, EventAt(run[x].pc)), seen |-> seen]]
      PROVE  CallsTrue'
  BY <1>2, <1>e, <1>t DEF CallsTrue, Free
<1>3. ASSUME NEW x \in Executors, NEW done \in PC, NEW replayed \in PC,
             run[x].pc \in {"approve", "dispatch", "record"},
             Fire(x, EventAt(run[x].pc), done, replayed)
      PROVE  CallsTrue'
  <2> DEFINE cmd == OrderCommand(run[x].key, EventAt(run[x].pc))
  <2>1. CASE Free(x) /\ Goto(x, replayed) /\ UNCHANGED casevars
    <3>1. \E k : Moves(x, replayed, k)
      BY <2>1, GotoMoves
    <3> QED BY <1>1, <2>1, <3>1 DEF casevars, Free
  <2>2. CASE (Lookup(x, cmd) \/ Read(x, cmd)) /\ run' = run
    BY <1>2, <1>3, <2>2 DEF Lookup, Read, SetSession
  <2>3. CASE Commit(x) /\ Goto(x, done)
    <3>1. \E k : Moves(x, done, k)
      BY <2>3, GotoMoves
    <3> QED BY <1>1, <1>t, <1>e, <2>3, <3>1 DEF Commit, SetSession, IdleSession
  <2>4. CASE Abandon(x) /\ Goto(x, "idle")
    <3>1. Moves(x, "idle", NoKey)
      BY <2>4, GotoMoves DEF PC
    <3> QED BY <1>1, <1>t, <1>e, <2>4, <3>1 DEF Abandon, SetSession, IdleSession, PC
  <2> QED BY <1>3, <2>1, <2>2, <2>3, <2>4 DEF Fire
<1>4. ASSUME NEW x \in Executors, Approve(x) \/ Dispatch(x) \/ Record(x)
      PROVE  CallsTrue'
  BY <1>3, <1>4 DEF Approve, Dispatch, Record, At, EventAt, Intent, PC
<1>5. ASSUME NEW x \in Executors, NEW k \in KeysOf[x], Execute(x, k)
      PROVE  CallsTrue'
  <2>1. Free(x)
    BY <1>5 DEF Execute, At, CallsTrue
  <2>2. Moves(x, "approve", k) /\ session' = session
    BY <1>5 DEF Execute, Moves
  <2> QED BY <1>1, <2>1, <2>2 DEF PC, Free
<1>6. ASSUME NEW x \in Executors, CheckCreated(x) \/ Send(x) \/ Die(x)
      PROVE  CallsTrue'
  <2>1. Free(x)
    BY <1>6 DEF CheckCreated, Send, Die, At, CallsTrue
  <2>2. session' = session /\ \E pc \in PC : Goto(x, pc)
    BY <1>6 DEF CheckCreated, Send, Die, PC
  <2>3. \E pc \in PC : \E k : Moves(x, pc, k)
    BY <2>2, GotoMoves
  <2> QED BY <1>1, <2>1, <2>2, <2>3 DEF Free
<1>7. ASSUME NEW s \in Sessions \ Executors, Other(s)
      PROVE  CallsTrue'
  <2>1. \/ session'[s].phase = "idle"
        \/ session'[s].cmd \in Commands
    BY <1>7, <1>t DEF Other, Transit, Lookup, Read, Commit, Abandon, SetSession, IdleSession
  <2>2. \A r \in Sessions \ {s} : session'[r] = session[r]
    BY <1>7, <1>t DEF Other, Transit, Lookup, Read, Commit, Abandon, SetSession
  <2>3. run' = run
    BY <1>7 DEF Other
  <2> QED BY <1>e, <2>1, <2>2, <2>3 DEF CallsTrue, Free
<1> QED BY <1>0, <1>4, <1>5, <1>6, <1>7 DEF PONext

-----------------------------------------------------------------------------
(* One approval.  No row leads from behind it to before it.                 *)
ApprovedRow(t) ==
  /\ t.event = "purchase_order_approved" \/ t.src \in Approved => t.dst \in Approved
  /\ t.event = "purchase_order_approved" => t.src \notin Approved

LEMMA ApprovedTable == \A t \in Transitions : ApprovedRow(t)
<1> USE DEF ApprovedRow, Approved, Rows, Loops
<1>1. \A t \in CommitmentRows : ApprovedRow(t)
  BY DEF CommitmentRows
<1>2. \A t \in EnquiryRows : ApprovedRow(t)
  BY DEF EnquiryRows
<1>3. \A t \in SupersedeRows : ApprovedRow(t)
  BY DEF SupersedeRows
<1>4. \A t \in QuoteRows : ApprovedRow(t)
  BY DEF QuoteRows
<1>5. \A t \in OrderRows : ApprovedRow(t)
  BY DEF OrderRows
<1> QED BY <1>1, <1>2, <1>3, <1>4, <1>5 DEF Transitions

LEMMA ApprovedKeptStep ==
  ASSUME CaseAssumption, CaseInv, ApprovedKept, CaseStep
  PROVE  ApprovedKept'
<1>1. ASSUME NEW s \in Sessions, Commit(s)
      PROVE  ApprovedKept'
  <2>1. /\ versions' = Append(versions, Written(s))
        /\ versions \in Seq(Version) /\ versions # <<>>
    BY <1>1, CommitAppends DEF CaseInv, TypeOK
  <2>2. SUFFICES ASSUME NEW i \in 1..Len(versions'),
                        NEW j \in 1..i, versions'[j].event = "purchase_order_approved"
                 PROVE  versions'[i].state \in Approved
    BY DEF ApprovedKept, ApprovedBy, Happened
  <2>3. \A k \in 1..Len(versions) : versions'[k] = versions[k]
    BY <2>1
  <2>4. CASE i \in 1..Len(versions)
    <3>1. j \in 1..Len(versions)
      BY <2>4
    <3>2. ApprovedBy(i)
      BY <2>2, <2>3, <3>1 DEF ApprovedBy, Happened
    <3> QED BY <2>3, <2>4, <3>2 DEF ApprovedKept
  <2>5. CASE i \notin 1..Len(versions)
    <3>1. i = Len(versions) + 1 /\ versions'[i] = Written(s)
      BY <2>1, <2>5
    <3>2. PICK t \in Transitions :
            Permitted(t, Current.state, Written(s)) /\ Written(s).state = t.dst
      BY <1>1, WrittenFollows
    <3>3. CASE j = i
      BY <2>2, <3>1, <3>2, <3>3, ApprovedTable DEF ApprovedRow, Permitted
    <3>4. CASE j # i
      <4>1. j \in 1..Len(versions) /\ Len(versions) \in 1..Len(versions)
        BY <2>1, <3>1, <3>4
      <4>2. ApprovedBy(Len(versions))
        BY <2>2, <2>3, <4>1 DEF ApprovedBy, Happened
      <4>3. t.src \in Approved
        BY <3>2, <4>1, <4>2 DEF ApprovedKept, Permitted, Current
      <4> QED BY <3>1, <3>2, <4>3, ApprovedTable DEF ApprovedRow
    <3> QED BY <3>3, <3>4
  <2> QED BY <2>4, <2>5
<1>2. ASSUME UNCHANGED versions
      PROVE  ApprovedKept'
  BY <1>2 DEF ApprovedKept, ApprovedBy, Happened
<1> QED BY <1>1, <1>2 DEF CaseStep, Lookup, Read, Abandon, casevars

LEMMA OneApproval ==
  ASSUME CaseHistory, ApprovedKept,
         NEW i \in 1..Len(versions), NEW j \in 1..Len(versions),
         Happened(i, "purchase_order_approved"), Happened(j, "purchase_order_approved")
  PROVE  i = j
<1>1. ASSUME NEW a \in 1..Len(versions), NEW b \in 1..Len(versions), a < b,
             Happened(a, "purchase_order_approved"), Happened(b, "purchase_order_approved")
      PROVE  FALSE
  <2>1. /\ (b - 1) \in 1..Len(versions)
        /\ \E t \in Transitions : Permitted(t, versions[b - 1].state, versions[b])
    BY <1>1, RowOf DEF CaseHistory, CaseInv, TypeOK, Happened
  <2>2. versions[b - 1].state \notin Approved
    BY <1>1, <2>1, ApprovedTable DEF ApprovedRow, Permitted, Happened
  <2>3. a \in 1..(b - 1)
    BY <1>1
  <2>4. ApprovedBy(b - 1)
    BY <1>1, <2>3 DEF ApprovedBy
  <2> QED BY <2>1, <2>2, <2>4 DEF ApprovedKept
<1> QED BY <1>1

-----------------------------------------------------------------------------
(* Keys: an intent is written by an execute that is past the approval.      *)

ApprovedKey(k) ==
  \E j \in 1..Len(versions) :
    Happened(j, "purchase_order_approved") /\ versions[j].key = k

LEMMA ApprovedKeyStays ==
  ASSUME versions \in Seq(Version), NEW CONSTANT k, ApprovedKey(k),
         versions' = versions \/ \E w \in Version : versions' = Append(versions, w)
  PROVE  ApprovedKey(k)'
<1>1. PICK j \in 1..Len(versions) :
        versions[j].event = "purchase_order_approved" /\ versions[j].key = k
  BY DEF ApprovedKey, Happened
<1>2. j \in 1..Len(versions') /\ versions'[j] = versions[j]
  BY StaysSaid
<1> QED BY <1>1, <1>2 DEF ApprovedKey, Happened

LEMMA PastApprovalStep ==
  ASSUME versions \in Seq(Version), RunsTyped, PastApproval, OrderStep
  PROVE  PastApproval'
<1>0. versions' = versions \/ \E w \in Version : versions' = Append(versions, w)
  BY DEF OrderStep, Beside, Silent, Places
<1>1. SUFFICES ASSUME NEW y \in Executors, run'[y].pc \in {"check", "dispatch", "send", "record"}
               PROVE  \E k \in Keys \cup {NoKey} : k = run'[y].key /\ ApprovedKey(k)'
  BY DEF PastApproval, ApprovedKey, Happened
<1>2. CASE run'[y] = run[y]
  <2>1. PICK k \in Keys \cup {NoKey} : k = run[y].key
    BY DEF RunsTyped
  <2>2. ApprovedKey(k)
    BY <1>1, <1>2, <2>1 DEF PastApproval, ApprovedKey
  <2> QED BY <1>0, <1>2, <2>1, <2>2, ApprovedKeyStays
<1>3. CASE run'[y] # run[y]
  <2>1. Silent(y) \/ Places(y)
    BY <1>3 DEF OrderStep, Beside, Silent, Places, Moves, RunsTyped
  <2>2. PICK k \in Keys \cup {NoKey} : k = run[y].key
    BY DEF RunsTyped
  <2>3. run'[y].key = k
    BY <1>1, <2>1, <2>2 DEF Silent, Places, Moves, RunsTyped
  <2>4. CASE run[y].pc \in {"check", "dispatch", "send"}
    <3>1. ApprovedKey(k)
      BY <2>2, <2>4 DEF PastApproval, ApprovedKey
    <3> QED BY <1>0, <2>3, <3>1, ApprovedKeyStays
  <2>5. CASE run[y].pc = "approve" /\ Silent(y)
    <3>1. ApprovedKey(k)
      BY <1>1, <2>2, <2>5 DEF Silent, Moves, RunsTyped, Applied, OrderCommand, ApprovedKey, Happened
    <3> QED BY <1>0, <2>3, <3>1, ApprovedKeyStays
  <2>6. CASE run[y].pc = "approve" /\ Places(y)
    <3>1. PICK w \in Version : /\ versions' = Append(versions, w)
                               /\ w.event = "purchase_order_approved" /\ w.key = k
      BY <2>2, <2>6 DEF Places, EventAt
    <3>2. ApprovedKey(k)'
      BY <3>1, StaysSaid DEF ApprovedKey, Happened
    <3> QED BY <2>3, <3>2
  <2> QED BY <1>1, <2>1, <2>4, <2>5, <2>6 DEF Silent, Places, Moves, RunsTyped
<1> QED BY <1>2, <1>3

LEMMA IntentApprovedStep ==
  ASSUME versions \in Seq(Version), RunsTyped, PastApproval, IntentApproved, OrderStep
  PROVE  IntentApproved'
<1>1. SUFFICES ASSUME NEW i \in 1..Len(versions'), versions'[i].event = Intent
               PROVE  \E k \in Keys \cup {NoKey} : k = versions'[i].key /\ ApprovedKey(k)'
  BY DEF IntentApproved, ApprovedKey, Happened
<1>2. ASSUME i \in 1..Len(versions), versions'[i] = versions[i],
             versions' = versions \/ \E w \in Version : versions' = Append(versions, w)
      PROVE  \E k \in Keys \cup {NoKey} : k = versions'[i].key /\ ApprovedKey(k)'
  <2>0. versions[i] \in Version
    BY <1>2
  <2>1. PICK k \in Keys \cup {NoKey} : k = versions[i].key
    BY <2>0 DEF Version
  <2>2. ApprovedKey(k)
    BY <1>1, <1>2, <2>1 DEF IntentApproved, ApprovedKey, Happened
  <2> QED BY <1>2, <2>1, <2>2, ApprovedKeyStays
<1>3. CASE versions' = versions
  BY <1>2, <1>3
<1>4. ASSUME NEW w \in Version, versions' = Append(versions, w),
             \/ w.event \notin ExecuteEvents
             \/ \E x \in Executors : /\ run[x].pc \in {"approve", "dispatch", "record"}
                                     /\ w.event = EventAt(run[x].pc) /\ w.key = run[x].key
      PROVE  \E k \in Keys \cup {NoKey} : k = versions'[i].key /\ ApprovedKey(k)'
  <2>1. CASE i \in 1..Len(versions)
    BY <1>2, <1>4, <2>1, StaysSaid
  <2>2. CASE i \notin 1..Len(versions)
    <3>1. versions'[i] = w
      BY <1>4, <2>2, StaysSaid
    <3>2. PICK x \in Executors : run[x].pc = "dispatch" /\ w.key = run[x].key
      BY <1>1, <1>4, <3>1 DEF EventAt, Intent, ExecuteEvents
    <3>3. PICK k \in Keys \cup {NoKey} : k = w.key
      BY DEF Version
    <3>4. ApprovedKey(k)
      BY <3>2, <3>3 DEF PastApproval, ApprovedKey
    <3> QED BY <1>4, <3>1, <3>3, <3>4, ApprovedKeyStays
  <2> QED BY <2>1, <2>2
<1> QED BY <1>3, <1>4 DEF OrderStep, Beside, Silent, Places

-----------------------------------------------------------------------------
(* Receipts and counts.                                                    *)

LEMMA ReceiptStep ==
  ASSUME versions \in Seq(Version), RunsTyped, ReceiptFirst, CreatedIsTrue, OrderStep
  PROVE  ReceiptFirst' /\ CreatedIsTrue'
<1>1. created' \in Nat /\ created' >= created
  BY DEF OrderStep, Beside, Silent, Places, RunsTyped
<1>2. ReceiptFirst'
  <2>1. SUFFICES ASSUME NEW y \in Executors, run'[y].pc = "record"
                 PROVE  created' > 0
    BY DEF ReceiptFirst
  <2>2. CASE run'[y] = run[y]
    BY <1>1, <2>1, <2>2 DEF ReceiptFirst, RunsTyped
  <2>3. CASE run'[y] # run[y]
    <3>1. Silent(y) \/ Places(y)
      BY <2>3 DEF OrderStep, Beside, Silent, Places, Moves, RunsTyped
    <3> QED BY <2>1, <3>1 DEF Silent, Places, Moves, RunsTyped
  <2> QED BY <2>2, <2>3
<1>3. CreatedIsTrue'
  <2>1. SUFFICES ASSUME NEW i \in 1..Len(versions'), versions'[i].event = "purchase_order_created"
                 PROVE  created' > 0
    BY DEF CreatedIsTrue, Happened
  <2>2. CASE i \in 1..Len(versions) /\ versions'[i] = versions[i]
    BY <1>1, <2>1, <2>2 DEF CreatedIsTrue, Happened, RunsTyped
  <2>3. ASSUME NEW w \in Version, versions' = Append(versions, w),
               \/ w.event \notin ExecuteEvents
               \/ \E x \in Executors : /\ run[x].pc \in {"approve", "dispatch", "record"}
                                       /\ w.event = EventAt(run[x].pc)
        PROVE  created' > 0
    <3>1. CASE i \in 1..Len(versions)
      BY <2>2, <2>3, <3>1, StaysSaid
    <3>2. CASE i \notin 1..Len(versions)
      <4>1. versions'[i] = w
        BY <2>3, <3>2, StaysSaid
      <4>2. \E x \in Executors : run[x].pc = "record"
        BY <2>1, <2>3, <4>1 DEF EventAt, Intent, ExecuteEvents
      <4> QED BY <1>1, <4>2 DEF ReceiptFirst, RunsTyped
    <3> QED BY <3>1, <3>2
  <2>4. CASE versions' = versions
    BY <2>2, <2>4, <2>1
  <2> QED BY <2>3, <2>4 DEF OrderStep, Beside, Silent, Places
<1> QED BY <1>2, <1>3

LEMMA CountsFinite ==
  ASSUME ExecutorsAssumption, versions \in Seq(Version)
  PROVE  /\ IsFiniteSet(Intents) /\ Cardinality(Intents) \in Nat
         /\ IsFiniteSet(Sending) /\ Cardinality(Sending) \in Nat
<1>1. IsFiniteSet(1..Len(versions))
  BY FS_Interval
<1>2. Intents \subseteq 1..Len(versions) /\ Sending \subseteq Executors
  BY DEF Intents, Sending
<1>3. IsFiniteSet(Intents) /\ IsFiniteSet(Sending)
  BY <1>1, <1>2, FS_Subset DEF ExecutorsAssumption
<1> QED BY <1>3, FS_CardinalityType

LEMMA IntentsStay ==
  ASSUME versions \in Seq(Version),
         versions' = versions \/ \E w \in Version : versions' = Append(versions, w)
  PROVE  Intents \subseteq Intents'
<1>1. CASE versions' = versions
  BY <1>1 DEF Intents, Happened
<1>2. CASE \E w \in Version : versions' = Append(versions, w)
  BY <1>2, StaysSaid DEF Intents, Happened
<1> QED BY <1>1, <1>2

LEMMA CountedStep ==
  ASSUME ExecutorsAssumption, versions \in Seq(Version), versions' \in Seq(Version),
         RunsTyped, Counted, OrderStep
  PROVE  Counted'
<1>0. versions' = versions \/ \E w \in Version : versions' = Append(versions, w)
  BY DEF OrderStep, Beside, Silent, Places
<1>1. /\ IsFiniteSet(Intents) /\ Cardinality(Intents) \in Nat
      /\ IsFiniteSet(Sending) /\ Cardinality(Sending) \in Nat
  BY CountsFinite
<1>2. IsFiniteSet(Intents') /\ Cardinality(Intents') \in Nat
  <2>1. IsFiniteSet(1..Len(versions'))
    BY FS_Interval
  <2>2. Intents' \subseteq 1..Len(versions')
    BY DEF Intents
  <2>3. IsFiniteSet(Intents')
    BY <2>1, <2>2, FS_Subset
  <2> QED BY <2>3, FS_CardinalityType
<1>3. Cardinality(Intents) <= Cardinality(Intents')
  BY <1>0, <1>2, IntentsStay, FS_Subset
(* Nobody gets to the transport, and nobody calls it.                       *)
<1>4. ASSUME created' = created, Sending' \subseteq Sending
      PROVE  Counted'
  <2>1. Cardinality(Sending') <= Cardinality(Sending) /\ Cardinality(Sending') \in Nat
    BY <1>1, <1>4, FS_Subset, FS_CardinalityType
  <2> QED BY <1>1, <1>2, <1>3, <1>4, <2>1 DEF Counted, RunsTyped
<1>5. CASE Beside
  BY <1>4, <1>5 DEF Beside, Sending, At
<1>6. ASSUME NEW x \in Executors, Silent(x)
      PROVE  Counted'
  <2>1. CASE created' = created
    <3>1. Sending' \subseteq Sending
      BY <1>6, <2>1 DEF Silent, Moves, Sending, At, RunsTyped
    <3> QED BY <1>4, <2>1, <3>1
  <2>2. CASE created' # created
    <3>1. run[x].pc = "send" /\ created' = created + 1
      BY <1>6, <2>2 DEF Silent
    <3>2. Sending' = Sending \ {x} /\ x \in Sending
      BY <1>6, <3>1, <2>2 DEF Silent, Moves, Sending, At, RunsTyped
    <3>3. Cardinality(Sending') = Cardinality(Sending) - 1
      BY <1>1, <3>2, FS_RemoveElement
    <3> QED BY <1>1, <1>2, <1>3, <3>1, <3>3 DEF Counted, RunsTyped
  <2> QED BY <2>1, <2>2
<1>7. ASSUME NEW x \in Executors, Places(x)
      PROVE  Counted'
  <2>1. CASE run[x].pc # "dispatch"
    <3>1. Sending' \subseteq Sending
      BY <1>7, <2>1 DEF Places, Moves, Sending, At, RunsTyped
    <3> QED BY <1>4, <1>7, <3>1 DEF Places
  <2>2. CASE run[x].pc = "dispatch"
    <3>1. PICK w \in Version : versions' = Append(versions, w) /\ w.event = Intent
      BY <1>7, <2>2 DEF Places, EventAt
    <3>2. Intents' = Intents \cup {Len(versions) + 1} /\ Len(versions) + 1 \notin Intents
      BY <3>1, StaysSaid DEF Intents, Happened
    <3>3. Cardinality(Intents') = Cardinality(Intents) + 1
      BY <1>1, <3>2, FS_AddElement
    <3>4. Sending' = Sending \cup {x} /\ x \notin Sending
      BY <1>7, <2>2 DEF Places, Moves, Sending, At, RunsTyped
    <3>5. Cardinality(Sending') = Cardinality(Sending) + 1
      BY <1>1, <3>4, FS_AddElement
    <3>6. created' = created
      BY <1>7 DEF Places
    <3> QED BY <1>1, <3>3, <3>5, <3>6 DEF Counted, RunsTyped
  <2> QED BY <2>1, <2>2
<1> QED BY <1>5, <1>6, <1>7 DEF OrderStep

-----------------------------------------------------------------------------
(* All of it.                                                              *)

LEMMA OrderInitially ==
  ASSUME CaseAssumption, ExecutorsAssumption, POInit
  PROVE  OrderInv
<1>1. CaseHistory
  BY CaseHistoryInitially DEF POInit
<1>2. /\ versions = <<Opened>> /\ created = 0
      /\ \A s \in Sessions : Free(s)
      /\ run = [x \in Executors |-> IdleRun]
  BY DEF POInit, Init, IdleSession, Free
<1>3. /\ Len(versions) = 1
      /\ \A i \in 1..Len(versions) : i = 1 /\ versions[i].event = "case_opened"
  BY <1>2 DEF Opened
<1>4. Intents = {} /\ Sending = {}
  BY <1>2, <1>3 DEF Intents, Sending, Happened, Intent, At, IdleRun
<1>5. Counted
  BY <1>2, <1>4, FS_EmptySet DEF Counted
<1>6. RunsTyped /\ CallsTrue
  BY <1>2 DEF RunsTyped, CallsTrue, IdleRun, PC, ExecutorsAssumption
<1>7. ApprovedKept /\ IntentApproved /\ CreatedIsTrue
  BY <1>3 DEF ApprovedKept, ApprovedBy, IntentApproved, CreatedIsTrue, Happened, Intent
<1>8. PastApproval /\ ReceiptFirst
  BY <1>2 DEF PastApproval, ReceiptFirst, IdleRun
<1> QED BY <1>1, <1>5, <1>6, <1>7, <1>8 DEF OrderInv

LEMMA OrderInvStep ==
  ASSUME CaseAssumption, ExecutorsAssumption, OrderInv, [PONext]_vars
  PROVE  OrderInv'
<1>1. CaseHistory' /\ CaseStep /\ OrderStep
  BY OrderIsCaseStep, CaseHistoryStep, StepShape DEF OrderInv
<1>2. versions \in Seq(Version) /\ versions' \in Seq(Version)
  BY <1>1 DEF OrderInv, CaseHistory, CaseInv, TypeOK
<1>3. RunsTyped' /\ CallsTrue'
  BY <1>1, RunsTypedStep, CallsTrueStep DEF OrderInv
<1>4. ApprovedKept'
  BY <1>1, ApprovedKeptStep DEF OrderInv, CaseHistory
<1>5. PastApproval' /\ IntentApproved'
  BY <1>1, <1>2, PastApprovalStep, IntentApprovedStep DEF OrderInv
<1>6. ReceiptFirst' /\ CreatedIsTrue' /\ Counted'
  BY <1>1, <1>2, ReceiptStep, CountedStep DEF OrderInv
<1> QED BY <1>1, <1>3, <1>4, <1>5, <1>6 DEF OrderInv

LEMMA OrderInvAlways == POSpec => []OrderInv
<1>1. POInit => OrderInv
  BY CaseAssumption, ExecutorsAssumption, OrderInitially
<1>2. OrderInv /\ [PONext]_vars => OrderInv'
  BY CaseAssumption, ExecutorsAssumption, OrderInvStep
<1> QED BY <1>1, <1>2, PTL DEF POSpec

LEMMA OneKey == ASSUME OrderInv PROVE OneKeyDispatches
<1>1. SUFFICES ASSUME NEW i \in 1..Len(versions), NEW j \in 1..Len(versions),
                      Happened(i, Intent), Happened(j, Intent)
               PROVE  versions[i].key = versions[j].key
  BY DEF OneKeyDispatches
<1>2. PICK a \in 1..Len(versions) :
        Happened(a, "purchase_order_approved") /\ versions[a].key = versions[i].key
  BY <1>1 DEF OrderInv, IntentApproved
<1>3. PICK b \in 1..Len(versions) :
        Happened(b, "purchase_order_approved") /\ versions[b].key = versions[j].key
  BY <1>1 DEF OrderInv, IntentApproved
<1>4. a = b
  BY <1>2, <1>3, OneApproval DEF OrderInv
<1> QED BY <1>2, <1>3, <1>4

LEMMA CountedIntents ==
  ASSUME ExecutorsAssumption, OrderInv
  PROVE  IntentFirst
<1>1. /\ IsFiniteSet(Intents) /\ Cardinality(Intents) \in Nat
      /\ IsFiniteSet(Sending) /\ Cardinality(Sending) \in Nat
  BY CountsFinite DEF OrderInv, CaseHistory, CaseInv, TypeOK
<1>2. created <= Cardinality(Intents)
  BY <1>1 DEF OrderInv, RunsTyped, Counted
<1>3. ASSUME created > 0
      PROVE  \E i \in 1..Len(versions) :
               /\ Happened(i, Intent)
               /\ \E j \in 1..(i - 1) : By(j, "purchase_order_approved", "human_operator")
  <2>1. Intents # {}
    BY <1>1, <1>2, <1>3, FS_EmptySet DEF OrderInv, RunsTyped
  <2>2. PICK i \in 1..Len(versions) : Happened(i, Intent)
    BY <2>1 DEF Intents
  <2>3. versions[i].event \in OrderEvents
    BY <2>2 DEF Happened, Intent, OrderEvents
  <2>4. OrderGate
    BY CaseGates DEF OrderInv
  <2> QED BY <2>2, <2>3, <2>4 DEF OrderGate
<1> QED BY <1>2, <1>3 DEF IntentFirst, Intents

(* However many operators execute at once and under whatever keys, and      *)
(* wherever their requests die, all dispatch intents of a case carry one    *)
(* key, the one that was approved: the supplier's side can recognise every  *)
(* further call as a repetition (purchase_order.execute).                  *)
THEOREM OneKeyDispatched == POSpec => []OneKeyDispatches
BY OrderInvAlways, OneKey, PTL

(* The transport is called at most once per committed intent, and never     *)
(* without one that a person's approval precedes: every order the case does *)
(* not know of can be found from its history.                              *)
THEOREM IntentBeforeOrder == POSpec => []IntentFirst
<1>1. OrderInv => IntentFirst
  BY ExecutorsAssumption, CountedIntents
<1> QED BY <1>1, OrderInvAlways, PTL

(* The case records the order as created only if the transport created one. *)
THEOREM CreatedOnlyByReceipt == POSpec => []CreatedIsTrue
<1>1. OrderInv => CreatedIsTrue
  BY DEF OrderInv
<1> QED BY <1>1, OrderInvAlways, PTL

(* GATE 3 with the executes of an order among the commands: it is placed or *)
(* cancelled only after validation, choice and approval, in this order.     *)
THEOREM OrderGateOfExecutes == POSpec => []OrderGate
<1>1. OrderInv => OrderGate
  BY CaseGates DEF OrderInv
<1> QED BY <1>1, OrderInvAlways, PTL

=============================================================================
