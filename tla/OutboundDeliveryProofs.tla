------------------------ MODULE OutboundDeliveryProofs ------------------------
(***************************************************************************)
(* What OutboundDelivery promises for any number of desks, agents and       *)
(* workers, any commands of the other sessions and any number of mishaps.   *)
(*                                                                         *)
(* Every step is a step of the case, so that FulfillmentCaseProofs speaks   *)
(* of its history.  The table lets a case be approved for sending once, and *)
(* with one text; everything that is underway to the supplier, in a         *)
(* courier's hands or in the queue, goes back to that approval.             *)
(***************************************************************************)
EXTENDS OutboundDelivery, FulfillmentCaseProofs

-----------------------------------------------------------------------------
(* Every session runs the command that its caller built: the others one of  *)
(* theirs, a courier that of the step it is in.                            *)
Calls(x) ==
  IF At(x, "approve") THEN {ApprovalOf(job[x].actor)}
  ELSE IF At(x, "record") THEN {SendOf(Sender(x))}
  ELSE IF At(x, "tell") THEN {Unkeyed("supplier_info_requested", "human_operator")}
  ELSE {}

CallsTrue ==
  /\ \A s \in Sessions \ Couriers : ~Free(s) => session[s].cmd \in Commands
  /\ \A x \in Couriers : ~Free(x) => session[x].cmd \in Calls(x)

(* No row leads from behind the approval of the send to before it.          *)
Before ==
  {"NEW", "AVAILABILITY_ASSESSED", "AWAITING_BUYER_COMMITMENT", "COMMITTED", "QUOTE_DRAFTED",
   "AWAITING_APPROVAL", "AWAITING_SUPPLIER_INFO"}
Granted(j) == versions[j].event \in Approvals
GrantedBy(i) == \E j \in 1..i : Granted(j)
GrantKept == \A i \in 1..Len(versions) : GrantedBy(i) => versions[i].state \notin Before

(* The text that was approved stands for good.                             *)
TextStands ==
  \A i \in 1..Len(versions) : \A j \in 1..i :
    Granted(j) => versions[i].draft = versions[j].draft

(* A text stands only in a case that drafted one.                          *)
TextDrafted ==
  \A i \in 1..Len(versions) :
    versions[i].draft # NoDraft => \E j \in 1..i : Happened(j, "external_message_drafted")

(* The sending of a text was approved by somebody.                         *)
Passed(d, actor) ==
  \E j \in 1..Len(versions) :
    Granted(j) /\ versions[j].draft = d /\ versions[j].actor = actor

(* An operator passes a text only by its hash.                             *)
Vouched(d, actor) == actor = "human_operator" => d \in vouched

Known(d) == Received(d) \/ phase[d] = "judged_done"

Carries(x) == job[x].pc \in {"send", "now", "answer", "record"}

(* What a courier has in its hands.                                        *)
JobTrue(x) ==
  /\ x \in Workers => job[x].pc \in {"idle", "answer", "record"}
  /\ job[x].pc \in {"approve", "read"} => Vouched(job[x].hash, "human_operator")
  /\ job[x].pc = "read" => \E d \in Drafts \cup {NoDraft} : Passed(d, job[x].actor)
  /\ Carries(x) => job[x].draft \in Drafts
  /\ Carries(x) /\ x \notin Workers =>
       Passed(job[x].draft, job[x].actor) /\ Vouched(job[x].draft, job[x].actor)
  /\ Carries(x) /\ x \in Workers => phase[job[x].draft] # "none"
  /\ At(x, "record") => Known(job[x].draft)

JobsTrue == \A x \in Couriers : JobTrue(x)

(* What the queue has of a text, and what the supplier has.                 *)
RowTrue(d) ==
  /\ phase[d] # "none" =>
       QueueOn /\ origin[d] \in Senders /\ Passed(d, origin[d]) /\ Vouched(d, origin[d])
  /\ Received(d) => \E a \in Senders : Passed(d, a) /\ Vouched(d, a)
  /\ phase[d] = "done" => Received(d)
  /\ happened[d] <= 1

RowsTrue == \A d \in Drafts : RowTrue(d)

(* One request got the approval, and until it sends without the queue       *)
(* nothing was received.                                                   *)
Holds(x) == x \notin Workers /\ job[x].pc \in {"read", "send", "now", "answer", "record"}
OneHolder == \A x, y \in Couriers : Holds(x) /\ Holds(y) => x = y
Unsend == \A x \in Couriers :
  job[x].pc \in {"read", "send"} /\ ~QueueOn => \A d \in Drafts : happened[d] = 0

(* What the history says of a send.                                        *)
SendsTrue ==
  \A i \in 1..Len(versions) :
    versions[i].event \in SendEvents =>
      /\ versions[i].draft \in Drafts
      /\ Known(versions[i].draft) /\ Passed(versions[i].draft, versions[i].actor)

(* A clarification was asked for only of a case that had a text.            *)
AskedTrue == rfis > 0 => \E i \in 1..Len(versions) : By(i, "buyer_committed", "buyer")

DeliveryInv ==
  /\ CaseHistory
  /\ DeliveryTypeOK
  /\ CallsTrue
  /\ GrantKept /\ TextStands /\ TextDrafted
  /\ JobsTrue /\ RowsTrue
  /\ OneHolder /\ Unsend
  /\ SendsTrue /\ AskedTrue

-----------------------------------------------------------------------------
(* The steps as the invariant sees them: what becomes of the history, of    *)
(* the couriers' locals and of the queue's rows.                           *)
Moves(x, pc, d) ==
  job' = [job EXCEPT ![x] =
            [pc |-> pc, actor |-> job[x].actor, hash |-> job[x].hash, draft |-> d]]
Stops(x) == job' = [job EXCEPT ![x] = IdleJob]
SameRows == phase' = phase /\ happened' = happened /\ origin' = origin
SameNotes == vouched' = vouched /\ rfis' = rfis

(* A courier's transition is committed.                                    *)
Writes(x) ==
  /\ SameRows /\ SameNotes
  /\ \E w \in Version :
       /\ versions' = Append(versions, w)
       /\ w.draft = Current.draft
       /\ \/ /\ At(x, "approve") /\ Moves(x, "read", job[x].draft)
             /\ w.event = ApprovalOf(job[x].actor).event /\ w.actor = job[x].actor
          \/ /\ At(x, "record") /\ Stops(x)
             /\ w.event = SendOf(Sender(x)).event /\ w.actor = Sender(x)
          \/ At(x, "tell") /\ Stops(x) /\ w.event = "supplier_info_requested"

(* A desk or an agent begins.                                              *)
Begins(x) ==
  /\ versions' = versions /\ SameRows
  /\ At(x, "idle") /\ x \notin Workers
  /\ \/ \E d \in Drafts, a \in Senders :
          /\ a = "agent" => x \in Agents
          /\ job' = [job EXCEPT ![x] = [pc |-> "approve", actor |-> a, hash |-> d, draft |-> NoDraft]]
          /\ vouched' = vouched \cup {d} /\ rfis' = rfis
     \/ /\ Current.draft # NoDraft
        /\ Moves(x, "tell", job[x].draft)
        /\ rfis' = rfis + 1 /\ vouched' = vouched

(* A courier goes on without the case.                                     *)
Carry(x) ==
  /\ versions' = versions /\ SameNotes
  /\ \/ Stops(x) /\ SameRows
     \/ /\ At(x, "read") /\ SameRows
        /\ Matches(x, Current.draft) /\ Moves(x, "send", Current.draft)
     \/ /\ At(x, "send") /\ ~QueueOn
        /\ phase' = phase /\ origin' = origin
        /\ \/ /\ happened' = [happened EXCEPT ![job[x].draft] = @ + 1]
              /\ Moves(x, "record", job[x].draft)
           \/ /\ happened' \in {happened, [happened EXCEPT ![job[x].draft] = @ + 1]}
              /\ Stops(x)
     \/ /\ At(x, "send") /\ QueueOn /\ Moves(x, "now", job[x].draft)
        /\ \/ Queue!Request(job[x].draft) /\ origin' = [origin EXCEPT ![job[x].draft] = job[x].actor]
           \/ phase[job[x].draft] # "none" /\ SameRows
     \/ /\ At(x, "now") /\ origin' = origin
        /\ \/ Delivered(job[x].draft) /\ Moves(x, "record", job[x].draft) /\ SameRows
           \/ Queue!Attempt(job[x].draft) /\ Moves(x, "answer", job[x].draft)
     \/ /\ At(x, "idle") /\ x \in Workers /\ origin' = origin
        /\ \E d \in Drafts :
             /\ Queue!Attempt(d)
             /\ job' = [job EXCEPT ![x] = [IdleJob EXCEPT !.pc = "answer", !.draft = d]]
     \/ /\ At(x, "answer") /\ origin' = origin
        /\ \/ Queue!ReportDone(job[x].draft) /\ Moves(x, "record", job[x].draft)
           \/ /\ Stops(x)
              /\ \/ Queue!Release(job[x].draft)
                 \/ Queue!GiveUp(job[x].draft)
                 \/ Queue!LoseTrack({job[x].draft})

(* Everybody else: the rest of the sessions, the queue of its own accord.   *)
Beside ==
  /\ job' = job /\ SameNotes
  /\ \/ /\ SameRows
        /\ \/ versions' = versions
           \/ \E w \in Version : /\ versions' = Append(versions, w)
                                 /\ w.event \notin Approvals \cup SendEvents
     \/ /\ versions' = versions /\ origin' = origin
        /\ \E d \in Drafts : Queue!Happen(d) \/ Queue!LoseTrack({d}) \/ Queue!Judge(d)

DeliveryStep == Beside \/ \E x \in Couriers : Writes(x) \/ Begins(x) \/ Carry(x)

LEMMA JobShape ==
  ASSUME job \in [Couriers -> Job], NEW x \in Couriers
  PROVE  /\ job[x] = [pc |-> job[x].pc, actor |-> job[x].actor, hash |-> job[x].hash,
                      draft |-> job[x].draft]
         /\ job[x].pc \in PC /\ job[x].actor \in Senders
         /\ job[x].hash \in Drafts \cup {NoDraft} /\ job[x].draft \in Drafts \cup {NoDraft}
BY DEF Job

LEMMA SameJob ==
  ASSUME NEW j \in Job, NEW k \in Job,
         j.pc = k.pc, j.actor = k.actor, j.hash = k.hash, j.draft = k.draft
  PROVE  j = k
BY DEF Job

LEMMA GotoMoves ==
  ASSUME job \in [Couriers -> Job], NEW x \in Couriers, NEW pc \in PC, Goto(x, pc)
  PROVE  IF pc = "idle" THEN Stops(x) ELSE Moves(x, pc, job[x].draft)
<1>1. CASE pc = "idle"
  BY <1>1 DEF Goto, SetJob, Stops
<1>2. CASE pc # "idle"
  <2>1. job' = [job EXCEPT ![x] = [job[x] EXCEPT !.pc = pc]]
    BY <1>2 DEF Goto, SetJob
  <2>2. [job[x] EXCEPT !.pc = pc]
          = [pc |-> pc, actor |-> job[x].actor, hash |-> job[x].hash, draft |-> job[x].draft]
    BY DEF Job
  <2> QED BY <1>2, <2>1, <2>2 DEF Moves
<1> QED BY <1>1, <1>2

(* A transition of a courier is a step of the case, and what it writes.     *)
LEMMA FireShape ==
  ASSUME CaseAssumption, CouriersAssumption, DeliveryInv, NEW x \in Couriers,
         NEW cmd, NEW next \in PC, Fire(x, cmd, next), SameRows, SameNotes,
         Calls(x) = {cmd}, cmd.draft = NoDraft,
         \/ /\ At(x, "approve") /\ next = "read"
            /\ cmd.event = ApprovalOf(job[x].actor).event /\ cmd.actor = job[x].actor
         \/ /\ At(x, "record") /\ next = "idle"
            /\ cmd.event = SendOf(Sender(x)).event /\ cmd.actor = Sender(x)
         \/ At(x, "tell") /\ next = "idle" /\ cmd.event = "supplier_info_requested"
  PROVE  DeliveryStep
<1> USE DEF DeliveryInv
<1>0. job \in [Couriers -> Job] /\ x \in Sessions
  BY DEF DeliveryTypeOK, CouriersAssumption
<1>1. CASE versions' = versions /\ Goto(x, "idle")
  <2>1. Stops(x)
    BY <1>0, <1>1, GotoMoves DEF PC
  <2> QED BY <1>1, <2>1 DEF DeliveryStep, Carry
<1>2. CASE Read(x, cmd) /\ job' = job
  BY <1>2 DEF Read, DeliveryStep, Beside
<1>3. CASE Commit(x) /\ Goto(x, next)
  <2>1. ~Free(x)
    BY <1>3 DEF Commit, StillOpen, Ready, Free
  <2>2. session[x].cmd = cmd
    BY <2>1 DEF CallsTrue
  <2>3. versions' = Append(versions, Written(x)) /\ Written(x) \in Version
    BY <1>0, <1>3, CommitAppends DEF CaseHistory
  <2>4. Written(x).event = cmd.event /\ Written(x).actor = cmd.actor /\ Written(x).draft = Current.draft
    BY <2>2 DEF Written
  <2>5. IF next = "idle" THEN Stops(x) ELSE Moves(x, next, job[x].draft)
    BY <1>0, <1>3, GotoMoves
  <2> QED BY <2>3, <2>4, <2>5 DEF DeliveryStep, Writes
<1> QED BY <1>1, <1>2, <1>3 DEF Fire, Done, Abandon

LEMMA CourierFires ==
  ASSUME CaseAssumption, CouriersAssumption, DeliveryInv, NEW x \in Couriers,
         Approve(x) \/ Record(x) \/ Tell(x)
  PROVE  DeliveryStep
<1>1. CASE Approve(x)
  <2> DEFINE cmd == ApprovalOf(job[x].actor)
  <2>1. At(x, "approve") /\ Fire(x, cmd, "read") /\ SameRows /\ SameNotes
    BY <1>1 DEF Approve, queuevars, notes, SameRows, SameNotes
  <2>2. cmd.draft = NoDraft /\ cmd.actor = job[x].actor
    BY DEF ApprovalOf, Unkeyed
  <2>3. Calls(x) = {cmd}
    BY <2>1 DEF Calls, At
  <2> QED BY <2>1, <2>2, <2>3, FireShape DEF PC
<1>2. CASE Record(x)
  <2> DEFINE cmd == SendOf(Sender(x))
  <2>1. At(x, "record") /\ Fire(x, cmd, "idle") /\ SameRows /\ SameNotes
    BY <1>2 DEF Record, queuevars, notes, SameRows, SameNotes
  <2>2. cmd.draft = NoDraft /\ cmd.actor = Sender(x)
    BY DEF SendOf, Unkeyed
  <2>3. Calls(x) = {cmd}
    BY <2>1 DEF Calls, At
  <2> QED BY <2>1, <2>2, <2>3, FireShape DEF PC
<1>3. CASE Tell(x)
  <2> DEFINE cmd == Unkeyed("supplier_info_requested", "human_operator")
  <2>1. At(x, "tell") /\ Fire(x, cmd, "idle") /\ SameRows /\ SameNotes
    BY <1>3 DEF Tell, queuevars, notes, SameRows, SameNotes
  <2>2. cmd.draft = NoDraft /\ cmd.event = "supplier_info_requested"
    BY DEF Unkeyed
  <2>3. Calls(x) = {cmd}
    BY <2>1 DEF Calls, At
  <2> QED BY <2>1, <2>2, <2>3, FireShape DEF PC
<1> QED BY <1>1, <1>2, <1>3

LEMMA CourierCarries ==
  ASSUME DeliveryTypeOK, NEW x \in Couriers,
         Current.draft \in Drafts \cup {NoDraft},
         ReadDraft(x) \/ SendDirect(x) \/ Enqueue(x) \/ SendNow(x) \/ Answer(x) \/ Die(x)
  PROVE  Carry(x)
<1>0. job \in [Couriers -> Job]
  BY DEF DeliveryTypeOK
<1>d. Current.draft \in Drafts \cup {NoDraft}
  OBVIOUS
<1>g. /\ \A pc \in PC \ {"idle"} : Goto(x, pc) => Moves(x, pc, job[x].draft)
      /\ Done(x) => Stops(x)
  BY <1>0, GotoMoves DEF Done, PC
<1>1. CASE ReadDraft(x)
  <2>1. /\ versions' = versions /\ SameNotes /\ SameRows /\ At(x, "read")
        /\ \/ /\ Matches(x, Current.draft)
              /\ job' = [job EXCEPT ![x] = [job[x] EXCEPT !.pc = "send", !.draft = Current.draft]]
           \/ Done(x)
    BY <1>1 DEF ReadDraft, queuevars, notes, SameNotes, SameRows, SetJob
  <2>2. CASE Done(x)
    BY <1>g, <2>1, <2>2 DEF Carry
  <2>3. CASE /\ Matches(x, Current.draft)
             /\ job' = [job EXCEPT ![x] = [job[x] EXCEPT !.pc = "send", !.draft = Current.draft]]
    <3> DEFINE j == [job[x] EXCEPT !.pc = "send", !.draft = Current.draft]
               k == [pc |-> "send", actor |-> job[x].actor, hash |-> job[x].hash,
                     draft |-> Current.draft]
    <3>1. j \in Job /\ k \in Job
      BY <1>0, <1>d DEF Job, PC
    <3>2. j.pc = k.pc /\ j.actor = k.actor /\ j.hash = k.hash /\ j.draft = k.draft
      BY <1>0 DEF Job
    <3>3. j = k
      BY <3>1, <3>2, SameJob
    <3> HIDE DEF j
    <3>4. Moves(x, "send", Current.draft)
      BY <2>3, <3>3 DEF Moves, j
    <3> QED BY <2>1, <2>3, <3>4 DEF Carry
  <2> QED BY <2>1, <2>2, <2>3
<1>2. CASE SendDirect(x)
  <2>1. /\ versions' = versions /\ SameNotes /\ At(x, "send") /\ ~QueueOn
        /\ phase' = phase /\ origin' = origin
        /\ \/ /\ happened' = [happened EXCEPT ![job[x].draft] = @ + 1]
              /\ Goto(x, "record")
           \/ /\ happened' \in {happened, [happened EXCEPT ![job[x].draft] = @ + 1]}
              /\ Done(x)
    BY <1>2 DEF SendDirect, notes, SameNotes
  <2> QED BY <1>g, <2>1 DEF Carry, PC
<1>3. CASE Enqueue(x)
  <2>1. /\ versions' = versions /\ SameNotes /\ At(x, "send") /\ QueueOn /\ Goto(x, "now")
        /\ \/ Queue!Request(job[x].draft) /\ origin' = [origin EXCEPT ![job[x].draft] = job[x].actor]
           \/ phase[job[x].draft] # "none" /\ SameRows
    BY <1>3 DEF Enqueue, notes, SameNotes, SameRows
  <2> QED BY <1>g, <2>1 DEF Carry, PC
<1>4. CASE SendNow(x)
  <2>1. /\ versions' = versions /\ SameNotes /\ At(x, "now") /\ origin' = origin
        /\ \/ Delivered(job[x].draft) /\ Goto(x, "record") /\ SameRows
           \/ Queue!Attempt(job[x].draft) /\ Goto(x, "answer")
           \/ Done(x) /\ SameRows
    BY <1>4 DEF SendNow, notes, SameNotes, SameRows
  <2> QED BY <1>g, <2>1 DEF Carry, PC
<1>5. CASE Answer(x)
  <2>1. /\ versions' = versions /\ SameNotes /\ At(x, "answer") /\ origin' = origin
        /\ \/ Queue!ReportDone(job[x].draft) /\ Goto(x, "record")
           \/ /\ Done(x)
              /\ \/ Queue!Release(job[x].draft)
                 \/ Queue!GiveUp(job[x].draft)
                 \/ Queue!LoseTrack({job[x].draft})
           \/ Done(x) /\ SameRows
    BY <1>5 DEF Answer, AfterDone, notes, SameNotes, SameRows
  <2> QED BY <1>g, <2>1 DEF Carry, PC
<1>6. CASE Die(x)
  BY <1>g, <1>6 DEF Die, queuevars, notes, SameRows, SameNotes, Carry
<1> QED BY <1>1, <1>2, <1>3, <1>4, <1>5, <1>6

LEMMA IdleIs ==
  ASSUME DeliveryInv, NEW x \in Couriers, At(x, "idle")
  PROVE  Free(x)
BY DEF DeliveryInv, CallsTrue, Calls, At

LEMMA StepShape ==
  ASSUME CaseAssumption, CouriersAssumption, DeliveryInv, [DeliveryNext]_vars
  PROVE  DeliveryStep
<1> USE DEF DeliveryInv
<1>t. job \in [Couriers -> Job]
  BY DEF DeliveryTypeOK
<1>d. Current.draft \in Drafts \cup {NoDraft}
  <2>1. Current \in Version
    BY DEF CaseHistory, CaseInv, TypeOK, Current
  <2> QED BY <2>1 DEF Version
<1>0. CASE UNCHANGED vars
  BY <1>0 DEF vars, DeliveryStep, Beside, SameRows, SameNotes
<1>1. ASSUME NEW x \in Desks, Ask(x)
      PROVE  DeliveryStep
  <2>1. x \in Couriers /\ x \notin Workers
    BY DEF Couriers, CouriersAssumption
  <2>2. Moves(x, "tell", job[x].draft)
    BY <1>1, <1>t, <2>1, GotoMoves DEF Ask, PC
  <2> QED BY <1>1, <2>1, <2>2 DEF Ask, DeliveryStep, Begins, SameRows, queuevars
<1>2. ASSUME NEW x \in Desks, NEW d \in Drafts, Dispatch(x, d)
      PROVE  DeliveryStep
  <2>1. x \in Couriers /\ x \notin Workers
    BY DEF Couriers, CouriersAssumption
  <2>2. job' = [job EXCEPT ![x] = [pc |-> "approve", actor |-> "human_operator", hash |-> d,
                                   draft |-> NoDraft]]
    <3> DEFINE j == [IdleJob EXCEPT !.pc = "approve", !.hash = d]
               k == [pc |-> "approve", actor |-> "human_operator", hash |-> d, draft |-> NoDraft]
    <3>1. j \in Job /\ k \in Job
      BY DEF Job, IdleJob, PC, Senders
    <3>2. j.pc = k.pc /\ j.actor = k.actor /\ j.hash = k.hash /\ j.draft = k.draft
      BY DEF IdleJob
    <3>3. j = k
      BY <3>1, <3>2, SameJob
    <3>4. job' = [job EXCEPT ![x] = j]
      BY <1>2 DEF Dispatch, SetJob
    <3> QED BY <3>3, <3>4
  <2> QED BY <1>2, <2>1, <2>2 DEF Dispatch, DeliveryStep, Begins, SameRows, queuevars, Senders
<1>3. ASSUME NEW x \in Agents, Judge(x)
      PROVE  DeliveryStep
  <2>1. x \in Couriers /\ x \notin Workers
    BY DEF Couriers, CouriersAssumption
  <2>2. PICK d \in Drafts : d = Current.draft
    BY <1>3, <1>d DEF Judge
  <2>3. job' = [job EXCEPT ![x] = [pc |-> "approve", actor |-> "agent", hash |-> d,
                                   draft |-> NoDraft]]
    <3> DEFINE j == [IdleJob EXCEPT !.pc = "approve", !.actor = "agent", !.hash = d]
               k == [pc |-> "approve", actor |-> "agent", hash |-> d, draft |-> NoDraft]
    <3>1. j \in Job /\ k \in Job
      BY DEF Job, IdleJob, PC, Senders
    <3>2. j.pc = k.pc /\ j.actor = k.actor /\ j.hash = k.hash /\ j.draft = k.draft
      BY DEF IdleJob
    <3>3. j = k
      BY <3>1, <3>2, SameJob
    <3>4. job' = [job EXCEPT ![x] = j]
      BY <1>3, <2>2 DEF Judge, SetJob
    <3> QED BY <3>3, <3>4
  <2>4. vouched' = vouched \cup {d}
    BY <1>3, <2>2 DEF Judge
  <2> QED BY <1>3, <2>1, <2>3, <2>4 DEF Judge, DeliveryStep, Begins, SameRows, queuevars, Senders
<1>4. ASSUME NEW x \in Workers, NEW d \in Drafts, Sweep(x, d)
      PROVE  DeliveryStep
  BY <1>4 DEF Sweep, SetJob, notes, SameNotes, DeliveryStep, Carry, Couriers
<1>5. ASSUME NEW x \in Couriers, CourierStep(x) \/ Die(x)
      PROVE  DeliveryStep
  BY <1>5, <1>d, CourierFires, CourierCarries DEF CourierStep, DeliveryStep
<1>6. ASSUME NEW d \in Drafts, QueueMoves(d)
      PROVE  DeliveryStep
  BY <1>6 DEF QueueMoves, notes, SameNotes, DeliveryStep, Beside
<1>7. ASSUME NEW s \in Sessions \ Couriers, Other(s)
      PROVE  DeliveryStep
  <2>1. job' = job /\ SameRows /\ SameNotes
    BY <1>7 DEF Other, queuevars, notes, SameRows, SameNotes
  <2>2. CASE Commit(s)
    <3>1. ~Free(s)
      BY <2>2 DEF Commit, StillOpen, Ready, Free
    <3>2. session[s].cmd \in Commands
      BY <3>1 DEF CallsTrue
    <3>3. versions' = Append(versions, Written(s)) /\ Written(s) \in Version
      BY <2>2, CommitAppends DEF CaseHistory
    <3>4. Written(s).event \notin Approvals \cup SendEvents
      BY <3>2 DEF Written, CouriersAssumption
    <3> QED BY <2>1, <3>3, <3>4 DEF DeliveryStep, Beside
  <2>3. CASE ~Commit(s)
    <3>1. versions' = versions
      BY <1>7, <2>3 DEF Other, Transit, Lookup, Read, Abandon
    <3> QED BY <2>1, <3>1 DEF DeliveryStep, Beside
  <2> QED BY <2>2, <2>3
<1> QED BY <1>0, <1>1, <1>2, <1>3, <1>4, <1>5, <1>6, <1>7 DEF DeliveryNext

-----------------------------------------------------------------------------
(* Nothing that was once true of a text is taken back.                     *)
Grows ==
  /\ versions' = versions \/ \E w \in Version : versions' = Append(versions, w)
  /\ vouched \subseteq vouched'
  /\ \A d \in Drafts :
       /\ happened[d] <= happened'[d]
       /\ phase[d] # "none" => phase'[d] # "none" /\ origin'[d] = origin[d]
       /\ phase[d] = "judged_done" => phase'[d] = "judged_done"

LEMMA CarriedText ==
  ASSUME JobsTrue, NEW x \in Couriers, Carries(x)
  PROVE  job[x].draft \in Drafts
BY DEF JobsTrue, JobTrue

LEMMA RowMoves ==
  ASSUME DeliveryTypeOK, NEW d \in Drafts,
         \/ Queue!Request(d) \/ Queue!Attempt(d) \/ Queue!ReportDone(d) \/ Queue!Release(d)
         \/ Queue!GiveUp(d) \/ Queue!LoseTrack({d}) \/ Queue!Judge(d)
  PROVE  /\ happened' = happened
         /\ \E p \in Queue!Phases \ {"none"} :
              /\ phase' = [phase EXCEPT ![d] = p]
              /\ p = "done" => happened[d] = 1
         /\ phase[d] # "judged_done"
         /\ phase[d] = "none" => Queue!Request(d)
<1>1. phase \in [Drafts -> Queue!Phases] /\ happened \in [Drafts -> Nat]
  BY DEF DeliveryTypeOK
<1>2. ASSUME NEW p \in Queue!Phases \ {"none"},
             phase' = [phase EXCEPT ![d] = p], happened' = happened,
             p = "done" => happened[d] = 1
      PROVE  /\ happened' = happened
             /\ \E q \in Queue!Phases \ {"none"} :
                  /\ phase' = [phase EXCEPT ![d] = q]
                  /\ q = "done" => happened[d] = 1
  BY <1>2
<1>3. {"open", "not_done", "trying", "uncertain", "done", "judged_done", "judged_not_done"}
        = Queue!Phases \ {"none"}
  BY DEF Queue!Phases
<1>4. CASE Queue!Request(d)
  BY <1>2, <1>3, <1>4 DEF Queue!Request, Queue!MoveTo
<1>5. CASE Queue!Attempt(d)
  BY <1>2, <1>3, <1>5 DEF Queue!Attempt, Queue!MoveTo
<1>6. CASE Queue!ReportDone(d)
  BY <1>2, <1>3, <1>6 DEF Queue!ReportDone, Queue!MoveTo
<1>7. CASE Queue!Release(d)
  BY <1>2, <1>3, <1>7 DEF Queue!Release, Queue!MoveTo
<1>8. CASE Queue!GiveUp(d)
  BY <1>2, <1>3, <1>8 DEF Queue!GiveUp, Queue!MoveTo
<1>9. CASE Queue!LoseTrack({d})
  <2>1. phase' = [phase EXCEPT ![d] = "uncertain"] /\ happened' = happened /\ phase[d] = "trying"
    BY <1>1, <1>9 DEF Queue!LoseTrack
  <2> QED BY <1>2, <1>3, <2>1
<1>10. CASE Queue!Judge(d)
  BY <1>2, <1>3, <1>10 DEF Queue!Judge, Queue!MoveTo
<1> QED BY <1>4, <1>5, <1>6, <1>7, <1>8, <1>9, <1>10

(* The queue's side of a step: nothing, one row, or one letter.             *)
RowStep ==
  \/ SameRows
  \/ \E d \in Drafts : \E p \in Queue!Phases \ {"none"} :
       /\ phase' = [phase EXCEPT ![d] = p] /\ happened' = happened
       /\ phase[d] # "judged_done"
       /\ p = "done" => happened[d] = 1
       /\ \/ phase[d] # "none" /\ origin' = origin
          \/ /\ phase[d] = "none" /\ QueueOn
             /\ \E x \in Couriers : /\ At(x, "send") /\ job[x].draft = d
                                    /\ origin' = [origin EXCEPT ![d] = job[x].actor]
  \/ \E d \in Drafts :
       /\ happened' = [happened EXCEPT ![d] = @ + 1]
       /\ phase' = phase /\ origin' = origin
       /\ \/ phase[d] # "none" /\ happened[d] = 0
          \/ /\ ~QueueOn
             /\ \E x \in Couriers : At(x, "send") /\ job[x].draft = d

LEMMA QueueRowStep ==
  ASSUME DeliveryInv, DeliveryStep
  PROVE  RowStep
<1> USE DEF DeliveryInv
<1>t. DeliveryTypeOK
  OBVIOUS
<1>1. ASSUME NEW d \in Drafts, Queue!Happen(d), origin' = origin
      PROVE  RowStep
  <2>1. /\ happened' = [happened EXCEPT ![d] = 1] /\ happened[d] = 0 /\ phase[d] # "none"
        /\ phase' = phase
    BY <1>1 DEF Queue!Happen
  <2>2. happened' = [happened EXCEPT ![d] = @ + 1]
    BY <2>1
  <2> QED BY <1>1, <2>1, <2>2 DEF RowStep
<1>2. ASSUME NEW d \in Drafts, origin' = origin,
             \/ Queue!Attempt(d) \/ Queue!ReportDone(d) \/ Queue!Release(d)
             \/ Queue!GiveUp(d) \/ Queue!LoseTrack({d}) \/ Queue!Judge(d)
      PROVE  RowStep
  <2>1. phase[d] # "none"
    BY <1>2 DEF Queue!Attempt, Queue!ReportDone, Queue!Release, Queue!GiveUp, Queue!LoseTrack,
                Queue!Judge
  <2>2. /\ happened' = happened /\ phase[d] # "judged_done"
        /\ \E p \in Queue!Phases \ {"none"} : /\ phase' = [phase EXCEPT ![d] = p]
                                              /\ p = "done" => happened[d] = 1
    BY <1>2, <1>t, RowMoves
  <2> QED BY <1>2, <2>1, <2>2 DEF RowStep
<1>3. CASE Beside
  BY <1>1, <1>2, <1>3 DEF Beside, RowStep
<1>4. ASSUME NEW x \in Couriers, Writes(x) \/ Begins(x)
      PROVE  RowStep
  BY <1>4 DEF Writes, Begins, RowStep
<1>5. ASSUME NEW x \in Couriers, Carry(x)
      PROVE  RowStep
  <2>1. CASE SameRows
    BY <2>1 DEF RowStep
  <2>2. CASE /\ At(x, "send") /\ ~QueueOn /\ phase' = phase /\ origin' = origin
             /\ happened' \in {happened, [happened EXCEPT ![job[x].draft] = @ + 1]}
    <3>1. job[x].draft \in Drafts
      BY <2>2, CarriedText DEF Carries, At
    <3> QED BY <2>2, <3>1 DEF RowStep, SameRows
  <2>3. CASE /\ At(x, "send") /\ QueueOn /\ Queue!Request(job[x].draft)
             /\ origin' = [origin EXCEPT ![job[x].draft] = job[x].actor]
    <3>1. PICK d \in Drafts : d = job[x].draft
      BY <2>3, CarriedText DEF Carries, At
    <3>2. Queue!Request(d) /\ origin' = [origin EXCEPT ![d] = job[x].actor]
      BY <2>3, <3>1
    <3>3. phase[d] = "none"
      BY <3>2 DEF Queue!Request
    <3>4. /\ happened' = happened
          /\ \E p \in Queue!Phases \ {"none"} : /\ phase' = [phase EXCEPT ![d] = p]
                                                /\ p = "done" => happened[d] = 1
      BY <1>t, <3>2, RowMoves
    <3> QED BY <2>3, <3>1, <3>2, <3>3, <3>4 DEF RowStep
  <2>4. CASE /\ job[x].pc \in {"now", "answer"} /\ origin' = origin
             /\ \/ Queue!Attempt(job[x].draft) \/ Queue!ReportDone(job[x].draft)
                \/ Queue!Release(job[x].draft) \/ Queue!GiveUp(job[x].draft)
                \/ Queue!LoseTrack({job[x].draft})
    <3>1. PICK d \in Drafts : d = job[x].draft
      BY <2>4, CarriedText DEF Carries
    <3> QED BY <1>2, <2>4, <3>1
  <2>5. CASE origin' = origin /\ \E d \in Drafts : Queue!Attempt(d)
    BY <1>2, <2>5
  <2> QED BY <1>5, <2>1, <2>2, <2>3, <2>4, <2>5 DEF Carry, At
<1> QED BY <1>3, <1>4, <1>5 DEF DeliveryStep

LEMMA GrowsStep ==
  ASSUME DeliveryInv, DeliveryStep
  PROVE  Grows
<1>1. versions' = versions \/ \E w \in Version : versions' = Append(versions, w)
  BY DEF DeliveryStep, Beside, Writes, Begins, Carry
<1>2. vouched \subseteq vouched'
  BY DEF DeliveryStep, Beside, Writes, Begins, Carry, SameNotes
<1>3. ASSUME NEW d \in Drafts
      PROVE  /\ happened[d] <= happened'[d]
             /\ phase[d] # "none" => phase'[d] # "none" /\ origin'[d] = origin[d]
             /\ phase[d] = "judged_done" => phase'[d] = "judged_done"
  <2>1. /\ RowStep
        /\ phase \in [Drafts -> Queue!Phases] /\ happened \in [Drafts -> Nat]
        /\ origin \in [Drafts -> Senders \cup {"none"}]
    BY QueueRowStep DEF DeliveryInv, DeliveryTypeOK
  <2> QED BY <2>1 DEF RowStep, SameRows
<1> QED BY <1>1, <1>2, <1>3 DEF Grows

-----------------------------------------------------------------------------
(* The case and the sessions.                                              *)

LEMMA CourierEventsListed ==
  {"approval_granted", "approval_granted_autonomous", "external_message_sent",
   "external_message_sent_autonomous", "supplier_info_requested"} \subseteq Events
<1> DEFINE row(event, source, target, who) ==
             [event |-> event, src |-> source, dst |-> target, who |-> who]
<1>1. row("approval_granted", "AWAITING_APPROVAL", "APPROVED_TO_SEND", Human) \in EnquiryRows
  BY DEF EnquiryRows, Rows
<1>2. row("approval_granted_autonomous", "AWAITING_APPROVAL", "APPROVED_TO_SEND", Agent)
        \in EnquiryRows
  BY DEF EnquiryRows, Rows
<1>3. row("external_message_sent", "APPROVED_TO_SEND", "QUOTE_SENT", Human) \in EnquiryRows
  BY DEF EnquiryRows, Rows
<1>4. row("external_message_sent_autonomous", "APPROVED_TO_SEND", "QUOTE_SENT", Agent)
        \in EnquiryRows
  BY DEF EnquiryRows, Rows
<1>5. row("supplier_info_requested", "AWAITING_APPROVAL", "AWAITING_SUPPLIER_INFO", Human)
        \in EnquiryRows
  BY DEF EnquiryRows, Rows
<1>6. \A t \in EnquiryRows : t.event \in Events
  BY DEF Transitions, Events
<1>7. "approval_granted" \in Events
  BY <1>1, <1>6
<1>8. "approval_granted_autonomous" \in Events
  BY <1>2, <1>6
<1>9. "external_message_sent" \in Events
  BY <1>3, <1>6
<1>10. "external_message_sent_autonomous" \in Events
  BY <1>4, <1>6
<1>11. "supplier_info_requested" \in Events
  BY <1>5, <1>6
<1> QED BY <1>7, <1>8, <1>9, <1>10, <1>11

LEMMA CallsIssuable ==
  /\ \A a \in Senders : ApprovalOf(a) \in Issuable /\ SendOf(a) \in Issuable
  /\ Unkeyed("supplier_info_requested", "human_operator") \in Issuable
BY CourierEventsListed DEF Senders, ApprovalOf, SendOf, Unkeyed, Issuable, Command, Actors

LEMMA SenderIs ==
  ASSUME DeliveryInv, NEW x \in Couriers, At(x, "record")
  PROVE  /\ Sender(x) \in Senders
         /\ job[x].draft \in Drafts
         /\ Passed(job[x].draft, Sender(x))
         /\ Vouched(job[x].draft, Sender(x))
         /\ Known(job[x].draft)
<1> USE DEF DeliveryInv
<1>1. JobTrue(x) /\ Carries(x) /\ job[x].draft \in Drafts
  BY DEF JobsTrue, JobTrue, Carries, At
<1>2. CASE x \in Workers
  <2>1. phase[job[x].draft] # "none"
    BY <1>1, <1>2 DEF JobTrue
  <2>2. RowTrue(job[x].draft)
    BY <1>1 DEF RowsTrue
  <2> QED BY <1>1, <1>2, <2>1, <2>2 DEF RowTrue, Sender, JobTrue
<1>3. CASE x \notin Workers
  BY <1>1, <1>3, JobShape DEF JobTrue, Sender, DeliveryTypeOK
<1> QED BY <1>2, <1>3

LEMMA DeliveryIsCaseStep ==
  ASSUME CaseAssumption, CouriersAssumption, DeliveryInv, [DeliveryNext]_vars
  PROVE  CaseStep
<1> USE DEF DeliveryInv
<1>0. CASE UNCHANGED vars
  BY <1>0 DEF vars, casevars, CaseStep
<1>1. ASSUME NEW x \in Couriers, NEW cmd \in Issuable, NEW next, Fire(x, cmd, next)
      PROVE  CaseStep
  <2>1. x \in Sessions
    BY DEF CouriersAssumption
  <2> QED BY <1>1, <2>1 DEF Fire, CaseStep, casevars
<1>2. ASSUME NEW x \in Couriers, Approve(x)
      PROVE  CaseStep
  <2>1. job[x].actor \in Senders
    BY JobShape DEF DeliveryTypeOK
  <2> QED BY <1>1, <1>2, <2>1, CallsIssuable DEF Approve
<1>3. ASSUME NEW x \in Couriers, Record(x)
      PROVE  CaseStep
  <2>1. Sender(x) \in Senders
    BY <1>3, SenderIs DEF Record
  <2> QED BY <1>1, <1>3, <2>1, CallsIssuable DEF Record
<1>4. ASSUME NEW x \in Couriers, Tell(x)
      PROVE  CaseStep
  BY <1>1, <1>4, CallsIssuable DEF Tell
<1>5. ASSUME NEW s \in Sessions \ Couriers, Other(s)
      PROVE  CaseStep
  <2>1. Commands \subseteq Issuable
    BY DEF CaseAssumption, Issuable
  <2> QED BY <1>5, <2>1 DEF Other, Transit, CaseStep
<1>6. ASSUME NEW x \in Couriers,
             \/ ReadDraft(x) \/ SendDirect(x) \/ Enqueue(x) \/ SendNow(x) \/ Answer(x) \/ Die(x)
             \/ Ask(x) \/ Judge(x) \/ \E d \in Drafts : Dispatch(x, d) \/ Sweep(x, d)
      PROVE  UNCHANGED casevars
  BY <1>6 DEF ReadDraft, SendDirect, Enqueue, SendNow, Answer, Die, Ask, Judge, Dispatch, Sweep,
              casevars
<1>7. ASSUME NEW d \in Drafts, QueueMoves(d)
      PROVE  UNCHANGED casevars
  BY <1>7 DEF QueueMoves, casevars
<1>8. Desks \subseteq Couriers /\ Agents \subseteq Couriers /\ Workers \subseteq Couriers
  BY DEF Couriers
<1>9. CASE UNCHANGED casevars
  BY <1>9 DEF CaseStep
<1>10. ASSUME NEW x \in Couriers, CourierStep(x)
       PROVE  CaseStep
  BY <1>2, <1>3, <1>4, <1>6, <1>9, <1>10 DEF CourierStep
<1> QED BY <1>0, <1>5, <1>6, <1>7, <1>8, <1>9, <1>10 DEF DeliveryNext

LEMMA DeliveryTypes ==
  ASSUME CouriersAssumption, DeliveryInv, [DeliveryNext]_vars, DeliveryStep, TypeOK',
         Current.draft \in Drafts \cup {NoDraft}
  PROVE  DeliveryTypeOK'
<1> USE DEF DeliveryInv
<1>t. DeliveryTypeOK
  OBVIOUS
<1>1. job' \in [Couriers -> Job]
  <2>1. job \in [Couriers -> Job] /\ IdleJob \in Job
    BY <1>t DEF DeliveryTypeOK, Job, IdleJob, PC, Senders
  <2>2. ASSUME NEW x \in Couriers, NEW pc \in PC, NEW d \in Drafts \cup {NoDraft}, Moves(x, pc, d)
        PROVE  job' \in [Couriers -> Job]
    BY <2>1, <2>2 DEF Moves, Job
  <2>3. CASE Beside
    BY <2>1, <2>3 DEF Beside
  <2>4. ASSUME NEW x \in Couriers, Stops(x)
        PROVE  job' \in [Couriers -> Job]
    BY <2>1, <2>4 DEF Stops
  <2>5. ASSUME NEW x \in Couriers
        PROVE  job[x].draft \in Drafts \cup {NoDraft}
    BY <2>1 DEF Job
  <2>6. ASSUME NEW x \in Couriers, Writes(x)
        PROVE  job' \in [Couriers -> Job]
    BY <2>2, <2>4, <2>5, <2>6 DEF Writes, PC
  <2>7. ASSUME NEW x \in Couriers, Begins(x)
        PROVE  job' \in [Couriers -> Job]
    <3>1. ASSUME NEW d \in Drafts, NEW a \in Senders,
                 job' = [job EXCEPT ![x] = [pc |-> "approve", actor |-> a, hash |-> d, draft |-> NoDraft]]
          PROVE  job' \in [Couriers -> Job]
      BY <2>1, <3>1 DEF Job, PC
    <3> QED BY <2>2, <2>5, <2>7, <3>1 DEF Begins, PC
  <2>8. ASSUME NEW x \in Couriers, Carry(x)
        PROVE  job' \in [Couriers -> Job]
    <3>1. ASSUME NEW d \in Drafts,
                 job' = [job EXCEPT ![x] = [IdleJob EXCEPT !.pc = "answer", !.draft = d]]
          PROVE  job' \in [Couriers -> Job]
      <4>1. [IdleJob EXCEPT !.pc = "answer", !.draft = d] \in Job
        BY <2>1 DEF Job, PC
      <4> QED BY <2>1, <3>1, <4>1
    <3>2. \/ Stops(x)
          \/ Moves(x, "send", Current.draft)
          \/ \E pc \in {"record", "now", "answer"} : Moves(x, pc, job[x].draft)
          \/ \E d \in Drafts : job' = [job EXCEPT ![x] = [IdleJob EXCEPT !.pc = "answer", !.draft = d]]
      BY <2>8 DEF Carry
    <3> QED BY <2>2, <2>4, <2>5, <3>1, <3>2 DEF PC
  <2> QED BY <2>3, <2>6, <2>7, <2>8 DEF DeliveryStep
<1>2. /\ phase' \in [Drafts -> Queue!Phases] /\ happened' \in [Drafts -> Nat]
      /\ origin' \in [Drafts -> Senders \cup {"none"}]
  <2>1. RowStep
    BY QueueRowStep
  <2>2. /\ phase \in [Drafts -> Queue!Phases] /\ happened \in [Drafts -> Nat]
        /\ origin \in [Drafts -> Senders \cup {"none"}]
        /\ \A x \in Couriers : job[x].actor \in Senders
    BY <1>t, JobShape DEF DeliveryTypeOK
  <2> QED BY <2>1, <2>2 DEF RowStep, SameRows
<1>3. vouched' \subseteq Drafts /\ rfis' \in Nat
  <2>1. \/ SameNotes
        \/ vouched' = vouched /\ rfis' = rfis + 1
        \/ \E d \in Drafts : vouched' = vouched \cup {d} /\ rfis' = rfis
    BY DEF DeliveryStep, Beside, Writes, Begins, Carry
  <2>2. vouched \subseteq Drafts /\ rfis \in Nat
    BY <1>t DEF DeliveryTypeOK
  <2> QED BY <2>1, <2>2 DEF SameNotes
<1>4. mishaps' \in Nat
  <2>1. mishaps' = mishaps \/ mishaps' = mishaps + 1
    BY DEF DeliveryNext, vars, Ask, Dispatch, Judge, Sweep, CourierStep, Approve, ReadDraft,
           SendDirect, Enqueue, SendNow, Answer, Record, Tell, Die, QueueMoves, Other, Fire, Mishap
  <2> QED BY <1>t, <2>1 DEF DeliveryTypeOK
<1> QED BY <1>1, <1>2, <1>3, <1>4 DEF DeliveryTypeOK

(* A courier's call stays its call while others move.                       *)
LEMMA CallsStay ==
  ASSUME DeliveryInv, Grows, NEW y \in Couriers, job'[y] = job[y]
  PROVE  Calls(y)' = Calls(y)
<1>1. ASSUME At(y, "record")
      PROVE  Sender(y)' = Sender(y)
  <2>1. JobTrue(y) /\ Carries(y) /\ job[y].draft \in Drafts
    BY <1>1 DEF DeliveryInv, JobsTrue, JobTrue, Carries, At
  <2>2. y \in Workers => origin'[job[y].draft] = origin[job[y].draft]
    BY <2>1 DEF JobTrue, Grows
  <2> QED BY <2>2 DEF Sender
<1> QED BY <1>1 DEF Calls, At, SendOf, ApprovalOf, Unkeyed

LEMMA CallsTrueStep ==
  ASSUME CaseAssumption, CouriersAssumption, DeliveryInv, Grows, [DeliveryNext]_vars
  PROVE  CallsTrue'
<1> USE DEF DeliveryInv
<1>t. /\ session \in [Sessions -> [phase : {"idle", "looked", "ready"},
                                   cmd : Command \cup {NoCommand}, seen : Nat]]
      /\ job \in [Couriers -> Job]
  BY DEF CaseHistory, CaseInv, TypeOK, DeliveryTypeOK
<1>c. Couriers \subseteq Sessions
  BY DEF CouriersAssumption
(* Only x changes its place, and its session is free afterwards, or it      *)
(* stays where it is with the call of its step.                            *)
<1>1. ASSUME NEW x \in Sessions,
             \A y \in Couriers \ {x} : job'[y] = job[y],
             \A s \in Sessions \ {x} : session'[s] = session[s],
             \/ session'[x].phase = "idle"
             \/ x \in Couriers /\ session'[x].cmd \in Calls(x)'
             \/ x \notin Couriers /\ session'[x].cmd \in Commands
      PROVE  CallsTrue'
  <2>1. ASSUME NEW s \in Sessions \ Couriers, ~Free(s)'
        PROVE  session'[s].cmd \in Commands
    BY <1>1, <2>1 DEF CallsTrue, Free
  <2>2. ASSUME NEW y \in Couriers, ~Free(y)'
        PROVE  session'[y].cmd \in Calls(y)'
    <3>1. CASE y = x
      BY <1>1, <2>2, <3>1 DEF Free
    <3>2. CASE y # x
      <4>1. session'[y] = session[y] /\ job'[y] = job[y]
        BY <1>1, <1>c, <3>2
      <4>2. session[y].cmd \in Calls(y)
        BY <2>2, <4>1 DEF CallsTrue, Free
      <4> QED BY <4>1, <4>2, CallsStay
    <3> QED BY <3>1, <3>2
  <2> QED BY <2>1, <2>2 DEF CallsTrue
<1>2. ASSUME NEW x \in Couriers, NEW cmd, NEW next, Fire(x, cmd, next), Calls(x) = {cmd}
      PROVE  CallsTrue'
  <2>1. \A y \in Couriers \ {x} : job'[y] = job[y]
    BY <1>2, <1>t DEF Fire, Done, Goto, SetJob
  <2>2. x \in Sessions
    BY <1>c
  <2>3. \A s \in Sessions \ {x} : session'[s] = session[s]
    BY <1>2, <1>t DEF Fire, Read, Commit, Abandon, SetSession
  <2>4. CASE Read(x, cmd) /\ job' = job
    <3>1. session'[x].cmd = cmd
      BY <1>t, <2>2, <2>4 DEF Read, SetSession
    <3>2. Calls(x)' = {cmd}
      BY <1>2, <2>4, CallsStay
    <3> QED BY <1>1, <2>1, <2>2, <2>3, <3>1, <3>2
  <2>5. CASE session'[x].phase = "idle"
    BY <1>1, <2>1, <2>2, <2>3, <2>5
  <2>6. \/ Read(x, cmd) /\ job' = job
        \/ session'[x].phase = "idle"
    BY <1>2, <1>t, <2>2 DEF Fire, Commit, Abandon, SetSession, IdleSession, Free
  <2> QED BY <2>4, <2>5, <2>6
<1>3. ASSUME NEW x \in Couriers, Approve(x) \/ Record(x) \/ Tell(x)
      PROVE  CallsTrue'
  BY <1>2, <1>3 DEF Approve, Record, Tell, Calls, At
(* The other steps of a courier leave the sessions alone, and its own is     *)
(* free.                                                                   *)
<1>4. ASSUME NEW x \in Couriers, session' = session, Free(x),
             \A y \in Couriers \ {x} : job'[y] = job[y]
      PROVE  CallsTrue'
  <2>1. session'[x].phase = "idle"
    BY <1>4 DEF Free
  <2> QED BY <1>1, <1>4, <1>c, <2>1
<1>5. ASSUME NEW x \in Couriers,
             \/ ReadDraft(x) \/ SendDirect(x) \/ Enqueue(x) \/ SendNow(x) \/ Answer(x) \/ Die(x)
             \/ Ask(x) \/ Judge(x) \/ \E d \in Drafts : Dispatch(x, d) \/ Sweep(x, d)
      PROVE  CallsTrue'
  <2>1. session' = session
    BY <1>5 DEF ReadDraft, SendDirect, Enqueue, SendNow, Answer, Die, Ask, Judge, Dispatch, Sweep
  <2>2. Free(x)
    <3>1. CASE Die(x)
      BY <3>1 DEF Die
    <3>2. CASE ~Die(x)
      <4>1. job[x].pc \in {"read", "send", "now", "answer", "idle"}
        BY <1>5, <3>2 DEF ReadDraft, SendDirect, Enqueue, SendNow, Answer, Ask, Judge, Dispatch,
                          Sweep, At
      <4> QED BY <4>1 DEF CallsTrue, Calls, At
    <3> QED BY <3>1, <3>2
  <2>3. \A y \in Couriers \ {x} : job'[y] = job[y]
    <3>1. \E j : job' = [job EXCEPT ![x] = j]
      BY <1>5 DEF ReadDraft, SendDirect, Enqueue, SendNow, Answer, Die, Ask, Judge, Dispatch,
                  Sweep, Done, Goto, SetJob
    <3> QED BY <1>t, <3>1
  <2> QED BY <1>4, <2>1, <2>2, <2>3
<1>6. ASSUME NEW s \in Sessions \ Couriers, Other(s)
      PROVE  CallsTrue'
  <2>1. session'[s].phase = "idle" \/ session'[s].cmd \in Commands
    BY <1>6, <1>t DEF Other, Transit, Lookup, Read, Commit, Abandon, SetSession, IdleSession
  <2>2. \A r \in Sessions \ {s} : session'[r] = session[r]
    BY <1>6, <1>t DEF Other, Transit, Lookup, Read, Commit, Abandon, SetSession
  <2>3. job' = job
    BY <1>6 DEF Other
  <2> QED BY <1>1, <2>1, <2>2, <2>3
<1>7. ASSUME job' = job, session' = session
      PROVE  CallsTrue'
  <2>1. \A y \in Couriers : Calls(y)' = Calls(y)
    BY <1>7, CallsStay
  <2> QED BY <1>7, <2>1 DEF CallsTrue, Free
<1>8. CASE UNCHANGED vars
  BY <1>7, <1>8 DEF vars
<1>9. ASSUME NEW d \in Drafts, QueueMoves(d)
      PROVE  CallsTrue'
  BY <1>7, <1>9 DEF QueueMoves
<1>10. Desks \subseteq Couriers /\ Agents \subseteq Couriers /\ Workers \subseteq Couriers
  BY DEF Couriers
<1>11. ASSUME NEW x \in Couriers, CourierStep(x) \/ Die(x)
       PROVE  CallsTrue'
  BY <1>3, <1>5, <1>11 DEF CourierStep
<1> QED BY <1>5, <1>6, <1>8, <1>9, <1>10, <1>11 DEF DeliveryNext

-----------------------------------------------------------------------------
(* The history: one approval, one text.                                    *)
GrantRow(t) ==
  /\ t.event \in Approvals => t.src \in Before /\ t.dst \notin Before
  /\ t.event \in Approvals => t.src = "AWAITING_APPROVAL" /\ t.dst = "APPROVED_TO_SEND"
  /\ t.event = "approval_granted" => t.who = {"human_operator"}
  /\ t.src \notin Before => t.dst \notin Before /\ t.event # "external_message_drafted"
  /\ t.event = "external_message_drafted" => t.dst = "QUOTE_DRAFTED"
  /\ t.event = "case_superseded" =>
       t.dst = "SUPERSEDED" /\ (t.src \in Before \/ t.who = {"human_operator"})
  /\ t.src # "SUPERSEDED"

LEMMA GrantTable == \A t \in Transitions : GrantRow(t)
<1> USE DEF GrantRow, Before, Approvals, Rows, Loops, Human
<1>1. \A t \in CommitmentRows : GrantRow(t)
  BY DEF CommitmentRows
<1>2. \A t \in EnquiryRows : GrantRow(t)
  BY DEF EnquiryRows
<1>3. \A t \in SupersedeRows : GrantRow(t)
  BY DEF SupersedeRows
<1>4. \A t \in QuoteRows : GrantRow(t)
  BY DEF QuoteRows
<1>5. \A t \in OrderRows : GrantRow(t)
  BY DEF OrderRows
<1> QED BY <1>1, <1>2, <1>3, <1>4, <1>5 DEF Transitions

LEMMA GrantKeptStep ==
  ASSUME CaseAssumption, CaseInv, GrantKept, CaseStep
  PROVE  GrantKept'
<1>1. ASSUME NEW s \in Sessions, Commit(s)
      PROVE  GrantKept'
  <2>1. versions' = Append(versions, Written(s)) /\ Written(s) \in Version
        /\ versions \in Seq(Version) /\ versions # <<>>
    BY <1>1, CommitAppends DEF CaseInv, TypeOK
  <2>2. SUFFICES ASSUME NEW i \in 1..Len(versions'),
                        NEW j \in 1..i, versions'[j].event \in Approvals
                 PROVE  versions'[i].state \notin Before
    BY DEF GrantKept, GrantedBy, Granted
  <2>3. CASE i \in 1..Len(versions)
    <3>1. j \in 1..Len(versions) /\ versions'[i] = versions[i] /\ versions'[j] = versions[j]
      BY <2>1, <2>3
    <3>2. GrantedBy(i)
      BY <2>2, <3>1 DEF GrantedBy, Granted
    <3> QED BY <2>3, <3>1, <3>2 DEF GrantKept
  <2>4. CASE i \notin 1..Len(versions)
    <3>1. i = Len(versions) + 1 /\ versions'[i] = Written(s)
      BY <2>1, <2>4, StaysSaid
    <3>2. PICK t \in Transitions :
            Permitted(t, Current.state, Written(s)) /\ Written(s).state = t.dst
      BY <1>1, WrittenFollows
    <3>3. CASE j = i
      BY <2>2, <3>1, <3>2, <3>3, GrantTable DEF GrantRow, Permitted
    <3>4. CASE j # i
      <4>1. /\ j \in 1..Len(versions) /\ Len(versions) \in 1..Len(versions)
            /\ versions'[j] = versions[j]
        BY <2>1, <3>1, <3>4
      <4>2. GrantedBy(Len(versions))
        BY <2>2, <4>1 DEF GrantedBy, Granted
      <4>3. t.src \notin Before
        BY <3>2, <4>1, <4>2 DEF GrantKept, Permitted, Current
      <4> QED BY <3>1, <3>2, <4>3, GrantTable DEF GrantRow
    <3> QED BY <3>3, <3>4
  <2> QED BY <2>3, <2>4
<1>2. ASSUME UNCHANGED versions
      PROVE  GrantKept'
  BY <1>2 DEF GrantKept, GrantedBy, Granted
<1> QED BY <1>1, <1>2 DEF CaseStep, Lookup, Read, Abandon, casevars

LEMMA TextStandsStep ==
  ASSUME CaseAssumption, CaseInv, GrantKept, TextStands, CaseStep
  PROVE  TextStands'
<1>1. ASSUME NEW s \in Sessions, Commit(s)
      PROVE  TextStands'
  <2>1. /\ versions' = Append(versions, Written(s)) /\ Written(s) \in Version
        /\ versions \in Seq(Version) /\ versions # <<>>
        /\ session[s].cmd \in Issuable
    BY <1>1, CommitAppends DEF CaseInv, TypeOK
  <2>2. SUFFICES ASSUME NEW i \in 1..Len(versions'),
                        NEW j \in 1..i, versions'[j].event \in Approvals
                 PROVE  versions'[i].draft = versions'[j].draft
    BY DEF TextStands, Granted
  <2>3. CASE i \in 1..Len(versions)
    <3>1. j \in 1..Len(versions) /\ versions'[i] = versions[i] /\ versions'[j] = versions[j]
      BY <2>1, <2>3
    <3> QED BY <2>2, <2>3, <3>1 DEF TextStands, Granted
  <2>4. CASE i \notin 1..Len(versions) /\ j # i
    <3>1. i = Len(versions) + 1 /\ versions'[i] = Written(s)
      BY <2>1, <2>4, StaysSaid
    <3>2. /\ j \in 1..Len(versions) /\ Len(versions) \in 1..Len(versions)
          /\ versions'[j] = versions[j]
      BY <2>1, <2>4, <3>1
    <3>3. Current.state \notin Before
      BY <2>2, <3>2 DEF GrantKept, GrantedBy, Granted, Current
    <3>4. PICK t \in Transitions : Permitted(t, Current.state, Written(s))
      BY <1>1, WrittenFollows
    <3>5. Written(s).event # "external_message_drafted"
      BY <3>3, <3>4, GrantTable DEF GrantRow, Permitted
    <3>6. Written(s).draft = Current.draft
      BY <2>1, <3>5 DEF Written, Issuable
    <3>7. Current.draft = versions[j].draft
      BY <2>2, <3>2 DEF TextStands, Granted, Current
    <3> QED BY <3>1, <3>2, <3>6, <3>7
  <2> QED BY <2>3, <2>4
<1>2. ASSUME UNCHANGED versions
      PROVE  TextStands'
  BY <1>2 DEF TextStands, Granted
<1> QED BY <1>1, <1>2 DEF CaseStep, Lookup, Read, Abandon, casevars

LEMMA TextDraftedStep ==
  ASSUME CaseAssumption, CaseInv, TextDrafted, CaseStep
  PROVE  TextDrafted'
<1>1. ASSUME NEW s \in Sessions, Commit(s)
      PROVE  TextDrafted'
  <2>1. /\ versions' = Append(versions, Written(s)) /\ Written(s) \in Version
        /\ versions \in Seq(Version) /\ versions # <<>>
        /\ session[s].cmd \in Issuable
    BY <1>1, CommitAppends DEF CaseInv, TypeOK
  <2>2. SUFFICES ASSUME NEW i \in 1..Len(versions'), versions'[i].draft # NoDraft
                 PROVE  \E j \in 1..i : versions'[j].event = "external_message_drafted"
    BY DEF TextDrafted, Happened
  <2>3. ASSUME NEW k \in 1..Len(versions), versions[k].draft # NoDraft, k <= i
        PROVE  \E j \in 1..i : versions'[j].event = "external_message_drafted"
    <3>1. PICK j \in 1..k : versions[j].event = "external_message_drafted"
      BY <2>3 DEF TextDrafted, Happened
    <3>2. j \in 1..i /\ versions'[j] = versions[j]
      BY <2>1, <2>3
    <3> QED BY <3>1, <3>2
  <2>4. CASE i \in 1..Len(versions)
    <3>1. versions'[i] = versions[i]
      BY <2>1, <2>4
    <3> QED BY <2>2, <2>3, <2>4, <3>1
  <2>5. CASE i \notin 1..Len(versions)
    <3>1. i = Len(versions) + 1 /\ versions'[i] = Written(s)
      BY <2>1, <2>5, StaysSaid
    <3>2. CASE session[s].cmd.draft = NoDraft
      <4>1. /\ versions[Len(versions)].draft # NoDraft
            /\ Len(versions) \in 1..Len(versions) /\ Len(versions) <= i
        BY <2>1, <2>2, <3>1, <3>2 DEF Written, Current
      <4> QED BY <2>3, <4>1
    <3>3. CASE session[s].cmd.draft # NoDraft
      <4>1. versions'[i].event = "external_message_drafted"
        BY <2>1, <3>1, <3>3 DEF Issuable, Written
      <4> QED BY <4>1
    <3> QED BY <3>2, <3>3
  <2> QED BY <2>4, <2>5
<1>2. ASSUME UNCHANGED versions
      PROVE  TextDrafted'
  BY <1>2 DEF TextDrafted, Happened
<1> QED BY <1>1, <1>2 DEF CaseStep, Lookup, Read, Abandon, casevars

LEMMA OneGrant ==
  ASSUME CaseHistory, GrantKept,
         NEW i \in 1..Len(versions), NEW j \in 1..Len(versions), Granted(i), Granted(j)
  PROVE  i = j
<1>1. ASSUME NEW a \in 1..Len(versions), NEW b \in 1..Len(versions), a < b, Granted(a), Granted(b)
      PROVE  FALSE
  <2>1. /\ (b - 1) \in 1..Len(versions)
        /\ \E t \in Transitions : Permitted(t, versions[b - 1].state, versions[b])
    BY <1>1, RowOf DEF CaseHistory, CaseInv, TypeOK, Granted, Approvals
  <2>2. versions[b - 1].state \in Before
    BY <1>1, <2>1, GrantTable DEF GrantRow, Permitted, Granted
  <2>3. a \in 1..(b - 1)
    BY <1>1
  <2>4. GrantedBy(b - 1)
    BY <1>1, <2>3 DEF GrantedBy
  <2> QED BY <2>1, <2>2, <2>4 DEF GrantKept
<1> QED BY <1>1

LEMMA OnePassed ==
  ASSUME CaseHistory, GrantKept, NEW c, NEW d, NEW a, NEW b, Passed(c, a), Passed(d, b)
  PROVE  c = d /\ a = b
<1>1. PICK i \in 1..Len(versions) :
        Granted(i) /\ versions[i].draft = c /\ versions[i].actor = a
  BY DEF Passed
<1>2. PICK j \in 1..Len(versions) :
        Granted(j) /\ versions[j].draft = d /\ versions[j].actor = b
  BY DEF Passed
<1> QED BY <1>1, <1>2, OneGrant

LEMMA PassedStays ==
  ASSUME versions \in Seq(Version), Grows, NEW CONSTANT d, NEW CONSTANT a, Passed(d, a)
  PROVE  Passed(d, a)'
<1>1. PICK j \in 1..Len(versions) : /\ versions[j].event \in Approvals
                                    /\ versions[j].draft = d /\ versions[j].actor = a
  BY DEF Passed, Granted
<1>2. j \in 1..Len(versions') /\ versions'[j] = versions[j]
  BY StaysSaid DEF Grows
<1> QED BY <1>1, <1>2 DEF Passed, Granted

(* The text of a passed case is the one that stands.                       *)
LEMMA PassedText ==
  ASSUME CaseHistory, TextStands, NEW d, NEW a, Passed(d, a)
  PROVE  Current.draft = d
<1>1. PICK j \in 1..Len(versions) : Granted(j) /\ versions[j].draft = d
  BY DEF Passed
<1>2. Len(versions) \in 1..Len(versions) /\ j \in 1..Len(versions)
  BY DEF CaseHistory, CaseInv, TypeOK
<1> QED BY <1>1, <1>2 DEF TextStands, Current

-----------------------------------------------------------------------------
(* What the couriers have in their hands.                                  *)

LEMMA TextStays ==
  ASSUME versions \in Seq(Version), Grows,
         happened \in [Drafts -> Nat], happened' \in [Drafts -> Nat],
         NEW CONSTANT d, NEW CONSTANT a
  PROVE  /\ Passed(d, a) => Passed(d, a)'
         /\ Vouched(d, a) => Vouched(d, a)'
         /\ d \in Drafts /\ Known(d) => Known(d)'
         /\ d \in Drafts /\ Received(d) => Received(d)'
         /\ d \in Drafts /\ phase[d] # "none" => phase'[d] # "none"
<1>1. Passed(d, a) => Passed(d, a)'
  BY PassedStays
<1>2. Vouched(d, a) => Vouched(d, a)'
  BY DEF Vouched, Grows
<1>3. d \in Drafts /\ Received(d) => Received(d)'
  BY DEF Received, Grows
<1>4. d \in Drafts => (phase[d] # "none" => phase'[d] # "none")
                      /\ (phase[d] = "judged_done" => phase'[d] = "judged_done")
  BY DEF Grows
<1> QED BY <1>1, <1>2, <1>3, <1>4 DEF Known

(* JobTrue of the fields a courier has after a step.                       *)
LEMMA JobMade ==
  ASSUME NEW CONSTANT x, NEW CONSTANT pc, NEW CONSTANT a, NEW CONSTANT h, NEW CONSTANT d,
         job'[x] = [pc |-> pc, actor |-> a, hash |-> h, draft |-> d],
         x \in Workers => pc \in {"idle", "answer", "record"},
         pc \in {"approve", "read"} => Vouched(h, "human_operator")',
         pc = "read" => \E e \in Drafts \cup {NoDraft} : Passed(e, a)',
         pc \in {"send", "now", "answer", "record"} =>
           /\ d \in Drafts
           /\ x \notin Workers => Passed(d, a)' /\ Vouched(d, a)'
           /\ x \in Workers => phase'[d] # "none",
         pc = "record" => Known(d)'
  PROVE  JobTrue(x)'
<1>1. /\ job'[x].pc = pc /\ job'[x].actor = a /\ job'[x].hash = h /\ job'[x].draft = d
  OBVIOUS
<1> QED BY <1>1 DEF JobTrue, Carries, At, Vouched, Passed, Known, Received

LEMMA JobStays ==
  ASSUME versions \in Seq(Version), Grows, DeliveryTypeOK,
         happened' \in [Drafts -> Nat],
         NEW CONSTANT y \in Couriers, JobTrue(y), job'[y] = job[y]
  PROVE  JobTrue(y)'
<1>0. happened \in [Drafts -> Nat] /\ job \in [Couriers -> Job]
  BY DEF DeliveryTypeOK
<1>1. PICK pc \in PC, a \in Senders, h \in Drafts \cup {NoDraft}, d \in Drafts \cup {NoDraft} :
        job[y] = [pc |-> pc, actor |-> a, hash |-> h, draft |-> d]
  BY <1>0, JobShape
<1>2. /\ job[y].pc = pc /\ job[y].actor = a /\ job[y].hash = h /\ job[y].draft = d
      /\ job'[y].pc = pc /\ job'[y].actor = a /\ job'[y].hash = h /\ job'[y].draft = d
  BY <1>1
<1>3. pc \in {"approve", "read"} => Vouched(h, "human_operator")'
  <2>1. pc \in {"approve", "read"} => Vouched(h, "human_operator")
    BY <1>2 DEF JobTrue
  <2> QED BY <1>0, <2>1, TextStays
<1>4. pc = "read" => \E e \in Drafts \cup {NoDraft} : Passed(e, a)'
  <2>1. SUFFICES ASSUME pc = "read"
                 PROVE  \E e \in Drafts \cup {NoDraft} : Passed(e, a)'
    OBVIOUS
  <2>2. PICK e \in Drafts \cup {NoDraft} : Passed(e, a)
    BY <1>2, <2>1 DEF JobTrue
  <2> QED BY <1>0, <2>2, TextStays
<1>5. ASSUME pc \in {"send", "now", "answer", "record"}
      PROVE  /\ d \in Drafts
             /\ y \notin Workers => Passed(d, a)' /\ Vouched(d, a)'
             /\ y \in Workers => phase'[d] # "none"
             /\ pc = "record" => Known(d)'
  <2>1. /\ d \in Drafts
        /\ y \notin Workers => Passed(d, a) /\ Vouched(d, a)
        /\ y \in Workers => phase[d] # "none"
        /\ pc = "record" => Known(d)
    BY <1>2, <1>5 DEF JobTrue, Carries, At
  <2> QED BY <1>0, <2>1, TextStays
<1>6. y \in Workers => pc \in {"idle", "answer", "record"}
  BY <1>2 DEF JobTrue
<1>7. job'[y] = [pc |-> pc, actor |-> a, hash |-> h, draft |-> d]
  BY <1>1
<1> QED BY <1>3, <1>4, <1>5, <1>6, <1>7, JobMade

LEMMA JobAfter ==
  ASSUME DeliveryInv, Grows, DeliveryTypeOK',
         NEW CONSTANT x \in Couriers, Writes(x) \/ Begins(x) \/ Carry(x)
  PROVE  JobTrue(x)'
<1> USE DEF DeliveryInv
<1>0. /\ versions \in Seq(Version) /\ versions # <<>>
      /\ happened \in [Drafts -> Nat] /\ happened' \in [Drafts -> Nat]
      /\ job \in [Couriers -> Job] /\ phase \in [Drafts -> Queue!Phases]
  BY DEF DeliveryTypeOK, CaseHistory, CaseInv, TypeOK
<1>1. PICK pc \in PC, a \in Senders, h \in Drafts \cup {NoDraft}, d \in Drafts \cup {NoDraft} :
        job[x] = [pc |-> pc, actor |-> a, hash |-> h, draft |-> d]
  BY <1>0, JobShape
<1>2. job[x].pc = pc /\ job[x].actor = a /\ job[x].hash = h /\ job[x].draft = d
  BY <1>1
<1>3. JobTrue(x)
  BY DEF JobsTrue
<1>s. ASSUME Stops(x)
      PROVE  JobTrue(x)'
  <2>1. job'[x] = [pc |-> "idle", actor |-> "human_operator", hash |-> NoDraft, draft |-> NoDraft]
    BY <1>s, <1>0 DEF Stops, IdleJob
  <2> QED BY <2>1, JobMade
<1>m. ASSUME NEW CONSTANT q, NEW CONSTANT e, Moves(x, q, e)
      PROVE  job'[x] = [pc |-> q, actor |-> a, hash |-> h, draft |-> e]
  BY <1>0, <1>2, <1>m DEF Moves
(* A courier that has a text goes on with it.                              *)
<1>c. ASSUME pc \in {"send", "now", "answer"}, NEW CONSTANT q \in {"now", "answer", "record"},
             Moves(x, q, job[x].draft),
             x \in Workers => q = "record",
             q = "record" => Known(d)'
      PROVE  JobTrue(x)'
  <2>1. /\ d \in Drafts
        /\ x \notin Workers => Passed(d, a) /\ Vouched(d, a)
        /\ x \in Workers => phase[d] # "none"
    BY <1>2, <1>3, <1>c DEF JobTrue, Carries
  <2>2. /\ x \notin Workers => Passed(d, a)' /\ Vouched(d, a)'
        /\ x \in Workers => phase'[d] # "none"
    BY <1>0, <2>1, TextStays
  <2>3. job'[x] = [pc |-> q, actor |-> a, hash |-> h, draft |-> d]
    BY <1>2, <1>c, <1>m
  <2> QED BY <1>c, <2>1, <2>2, <2>3, JobMade
<1>4. CASE Writes(x)
  <2>1. CASE pc # "approve"
    BY <1>2, <1>s, <1>4, <2>1 DEF Writes, At
  <2>2. CASE pc = "approve"
    <3>1. PICK w \in Version : /\ versions' = Append(versions, w)
                               /\ w.event = ApprovalOf(a).event /\ w.actor = a
                               /\ Moves(x, "read", d)
      BY <1>2, <1>4, <2>2 DEF Writes, At
    <3>2. PICK e \in Drafts \cup {NoDraft} : e = w.draft
      BY DEF Version
    <3>3. w.event \in Approvals
      BY <3>1 DEF ApprovalOf, Unkeyed, Approvals
    <3>4. Passed(e, a)'
      BY <1>0, <3>1, <3>2, <3>3, StaysSaid DEF Passed, Granted
    <3>5. x \notin Workers /\ Vouched(h, "human_operator")
      BY <1>2, <1>3, <2>2 DEF JobTrue
    <3>6. Vouched(h, "human_operator")'
      BY <1>0, <3>5, TextStays
    <3>7. job'[x] = [pc |-> "read", actor |-> a, hash |-> h, draft |-> d]
      BY <1>m, <3>1
    <3> QED BY <3>4, <3>5, <3>6, <3>7, JobMade
  <2> QED BY <2>1, <2>2
<1>5. CASE Begins(x)
  <2>1. ASSUME NEW e \in Drafts, NEW b \in Senders,
               job' = [job EXCEPT ![x] = [pc |-> "approve", actor |-> b, hash |-> e, draft |-> NoDraft]],
               vouched' = vouched \cup {e}
        PROVE  JobTrue(x)'
    <3>1. Vouched(e, "human_operator")'
      BY <2>1 DEF Vouched
    <3>2. job'[x] = [pc |-> "approve", actor |-> b, hash |-> e, draft |-> NoDraft]
      BY <1>0, <2>1
    <3> QED BY <1>5, <3>1, <3>2, JobMade DEF Begins
  <2>2. CASE Moves(x, "tell", job[x].draft)
    <3>1. job'[x] = [pc |-> "tell", actor |-> a, hash |-> h, draft |-> d]
      BY <1>2, <1>m, <2>2
    <3> QED BY <1>5, <3>1, JobMade DEF Begins
  <2> QED BY <1>5, <2>1, <2>2 DEF Begins
<1>6. CASE Carry(x)
  <2>1. CASE At(x, "read") /\ Matches(x, Current.draft) /\ Moves(x, "send", Current.draft)
    <3>1. PICK e \in Drafts \cup {NoDraft} : Passed(e, a)
      BY <1>2, <1>3, <2>1 DEF JobTrue, At
    <3>2. Current.draft = e
      BY <3>1, PassedText
    <3>3. e \in Drafts /\ (a = "human_operator" => h = e)
      BY <1>2, <2>1, <3>2 DEF Matches
    <3>4. x \notin Workers /\ h \in vouched
      BY <1>2, <1>3, <2>1 DEF JobTrue, At, Vouched
    <3>5. Passed(e, a)' /\ Vouched(e, a)'
      BY <1>0, <3>1, <3>3, <3>4, TextStays DEF Vouched
    <3>6. job'[x] = [pc |-> "send", actor |-> a, hash |-> h, draft |-> e]
      BY <1>m, <2>1, <3>2
    <3> QED BY <3>3, <3>4, <3>5, <3>6, JobMade
  <2>2. CASE /\ At(x, "send") /\ Moves(x, "record", job[x].draft)
             /\ happened' = [happened EXCEPT ![job[x].draft] = @ + 1]
    <3>1. d \in Drafts
      BY <1>2, <1>3, <2>2 DEF JobTrue, Carries, At
    <3>2. Known(d)'
      BY <1>0, <1>2, <2>2, <3>1 DEF Known, Received
    <3>3. x \notin Workers /\ pc = "send"
      BY <1>2, <1>3, <2>2 DEF JobTrue, At
    <3> QED BY <1>c, <2>2, <3>2, <3>3
  <2>3. CASE At(x, "send") /\ Moves(x, "now", job[x].draft)
    <3>1. x \notin Workers /\ pc = "send"
      BY <1>2, <1>3, <2>3 DEF JobTrue, At
    <3> QED BY <1>c, <2>3, <3>1
  <2>4. CASE At(x, "now") /\ Delivered(job[x].draft) /\ Moves(x, "record", job[x].draft) /\ SameRows
    <3>1. d \in Drafts /\ pc = "now" /\ x \notin Workers
      BY <1>2, <1>3, <2>4 DEF JobTrue, Carries, At
    <3>2. RowTrue(d) /\ phase[d] \in {"done", "judged_done"}
      BY <1>2, <2>4, <3>1 DEF RowsTrue, Delivered
    <3>3. Known(d)
      BY <3>2 DEF RowTrue, Known
    <3>4. Known(d)'
      BY <1>0, <3>1, <3>3, TextStays
    <3> QED BY <1>c, <2>4, <3>1, <3>4
  <2>5. CASE At(x, "now") /\ Moves(x, "answer", job[x].draft)
    <3>1. x \notin Workers /\ pc = "now"
      BY <1>2, <1>3, <2>5 DEF JobTrue, At
    <3> QED BY <1>c, <2>5, <3>1
  <2>6. ASSUME x \in Workers, NEW e \in Drafts, Queue!Attempt(e),
               job' = [job EXCEPT ![x] = [IdleJob EXCEPT !.pc = "answer", !.draft = e]]
        PROVE  JobTrue(x)'
    <3>1. phase'[e] # "none"
      BY <1>0, <2>6 DEF Queue!Attempt, Queue!MoveTo
    <3>2. [IdleJob EXCEPT !.pc = "answer", !.draft = e]
            = [pc |-> "answer", actor |-> "human_operator", hash |-> NoDraft, draft |-> e]
      <4> DEFINE j == [IdleJob EXCEPT !.pc = "answer", !.draft = e]
                 k == [pc |-> "answer", actor |-> "human_operator", hash |-> NoDraft, draft |-> e]
      <4>1. j \in Job /\ k \in Job
        BY DEF Job, IdleJob, PC, Senders
      <4>2. j.pc = k.pc /\ j.actor = k.actor /\ j.hash = k.hash /\ j.draft = k.draft
        BY DEF IdleJob
      <4> QED BY <4>1, <4>2, SameJob
    <3>3. job'[x] = [pc |-> "answer", actor |-> "human_operator", hash |-> NoDraft, draft |-> e]
      BY <1>0, <2>6, <3>2
    <3> QED BY <2>6, <3>1, <3>3, JobMade
  <2>7. CASE At(x, "answer") /\ Queue!ReportDone(job[x].draft) /\ Moves(x, "record", job[x].draft)
    <3>1. d \in Drafts /\ pc = "answer"
      BY <1>2, <1>3, <2>7 DEF JobTrue, Carries, At
    <3>2. Known(d)
      BY <1>2, <2>7 DEF Queue!ReportDone, Known, Received
    <3>3. Known(d)'
      BY <1>0, <3>1, <3>2, TextStays
    <3> QED BY <1>c, <2>7, <3>1, <3>3
  <2> QED BY <1>6, <1>s, <2>1, <2>2, <2>3, <2>4, <2>5, <2>6, <2>7 DEF Carry
<1> QED BY <1>4, <1>5, <1>6

LEMMA OthersStay ==
  ASSUME job \in [Couriers -> Job], NEW x \in Couriers, Writes(x) \/ Begins(x) \/ Carry(x)
  PROVE  \A y \in Couriers \ {x} : job'[y] = job[y]
BY DEF Writes, Begins, Carry, Moves, Stops

LEMMA JobsTrueStep ==
  ASSUME DeliveryInv, Grows, DeliveryTypeOK', DeliveryStep
  PROVE  JobsTrue'
<1>0. /\ versions \in Seq(Version) /\ happened' \in [Drafts -> Nat]
      /\ DeliveryTypeOK /\ job \in [Couriers -> Job]
      /\ \A y \in Couriers : JobTrue(y)
  BY DEF DeliveryInv, DeliveryTypeOK, CaseHistory, CaseInv, TypeOK, JobsTrue
<1>1. SUFFICES ASSUME NEW CONSTANT y \in Couriers
               PROVE  JobTrue(y)'
  BY DEF JobsTrue
<1>2. CASE job'[y] = job[y]
  BY <1>0, <1>2, JobStays
<1>3. CASE Writes(y) \/ Begins(y) \/ Carry(y)
  BY <1>3, JobAfter
<1>4. job'[y] = job[y] \/ Writes(y) \/ Begins(y) \/ Carry(y)
  BY <1>0, OthersStay DEF DeliveryStep, Beside
<1> QED BY <1>2, <1>3, <1>4

-----------------------------------------------------------------------------
(* The rows of the queue and the letters.                                  *)

LEMMA SenderHolds ==
  ASSUME JobsTrue, NEW x \in Couriers, At(x, "send")
  PROVE  /\ x \notin Workers /\ job[x].draft \in Drafts
         /\ Passed(job[x].draft, job[x].actor) /\ Vouched(job[x].draft, job[x].actor)
BY DEF JobsTrue, JobTrue, Carries, At

LEMMA RowsTrueStep ==
  ASSUME DeliveryInv, Grows, DeliveryTypeOK', RowStep
  PROVE  RowsTrue'
<1> USE DEF DeliveryInv
<1>0. /\ versions \in Seq(Version)
      /\ happened \in [Drafts -> Nat] /\ happened' \in [Drafts -> Nat]
      /\ phase \in [Drafts -> Queue!Phases]
      /\ origin \in [Drafts -> Senders \cup {"none"}]
      /\ \A x \in Couriers : job[x].actor \in Senders
  BY JobShape DEF DeliveryTypeOK, CaseHistory, CaseInv, TypeOK
<1>1. SUFFICES ASSUME NEW CONSTANT d \in Drafts
               PROVE  RowTrue(d)'
  BY DEF RowsTrue
<1>2. RowTrue(d)
  BY DEF RowsTrue
<1>3. \A a \in Senders : (Passed(d, a) => Passed(d, a)') /\ (Vouched(d, a) => Vouched(d, a)')
  BY <1>0, TextStays
(* The row has the origin that the primed state says, the letter the one it *)
(* had or gets.                                                            *)
<1>4. ASSUME phase'[d] # "none" =>
               QueueOn /\ origin'[d] \in Senders /\ Passed(d, origin'[d]) /\ Vouched(d, origin'[d]),
             Received(d)' => \E a \in Senders : Passed(d, a) /\ Vouched(d, a),
             phase'[d] = "done" => happened'[d] > 0,
             happened'[d] <= 1
      PROVE  RowTrue(d)'
  <2>1. phase'[d] # "none" =>
          \E a \in Senders : a = origin'[d] /\ Passed(d, a)' /\ Vouched(d, a)'
    BY <1>3, <1>4
  <2>2. Received(d)' => \E a \in Senders : Passed(d, a)' /\ Vouched(d, a)'
    BY <1>3, <1>4
  <2> QED BY <1>4, <2>1, <2>2 DEF RowTrue, Received, Passed, Vouched
<1>5. CASE phase'[d] = phase[d] /\ origin'[d] = origin[d] /\ happened'[d] = happened[d]
  BY <1>2, <1>4, <1>5 DEF RowTrue, Received
<1>6. ASSUME NEW p \in Queue!Phases \ {"none"},
             phase' = [phase EXCEPT ![d] = p], happened' = happened,
             p = "done" => happened[d] = 1,
             \/ phase[d] # "none" /\ origin' = origin
             \/ /\ phase[d] = "none" /\ QueueOn
                /\ \E x \in Couriers : /\ At(x, "send") /\ job[x].draft = d
                                       /\ origin' = [origin EXCEPT ![d] = job[x].actor]
      PROVE  RowTrue(d)'
  <2>1. QueueOn /\ origin'[d] \in Senders /\ Passed(d, origin'[d]) /\ Vouched(d, origin'[d])
    <3>1. CASE phase[d] # "none" /\ origin' = origin
      BY <1>2, <3>1 DEF RowTrue
    <3>2. ASSUME QueueOn, NEW x \in Couriers, At(x, "send"), job[x].draft = d,
                 origin' = [origin EXCEPT ![d] = job[x].actor]
          PROVE  QueueOn /\ origin'[d] \in Senders /\ Passed(d, origin'[d]) /\ Vouched(d, origin'[d])
      BY <1>0, <3>2, SenderHolds
    <3> QED BY <1>6, <3>1, <3>2
  <2>2. phase'[d] = p /\ happened'[d] = happened[d]
    BY <1>0, <1>6
  <2> QED BY <1>2, <1>4, <1>6, <2>1, <2>2 DEF RowTrue, Received
<1>7. ASSUME happened' = [happened EXCEPT ![d] = @ + 1], phase' = phase, origin' = origin,
             \/ phase[d] # "none" /\ happened[d] = 0
             \/ /\ ~QueueOn
                /\ \E x \in Couriers : At(x, "send") /\ job[x].draft = d
      PROVE  RowTrue(d)'
  <2>1. happened[d] = 0 /\ \E a \in Senders : Passed(d, a) /\ Vouched(d, a)
    <3>1. CASE phase[d] # "none" /\ happened[d] = 0
      BY <1>2, <3>1 DEF RowTrue
    <3>2. ASSUME ~QueueOn, NEW x \in Couriers, At(x, "send"), job[x].draft = d
          PROVE  happened[d] = 0 /\ \E a \in Senders : Passed(d, a) /\ Vouched(d, a)
      BY <1>0, <3>2, SenderHolds DEF Unsend, At
    <3> QED BY <1>7, <3>1, <3>2
  <2>2. happened'[d] = 1
    BY <1>0, <1>7, <2>1
  <2> QED BY <1>2, <1>4, <1>7, <2>1, <2>2 DEF RowTrue
<1> QED BY <1>0, <1>5, <1>6, <1>7 DEF RowStep, SameRows

-----------------------------------------------------------------------------
(* One request gets the approval.                                          *)

LEMMA FreshGrant ==
  ASSUME CaseAssumption, DeliveryInv, CaseStep,
         NEW w \in Version, versions' = Append(versions, w), w.event \in Approvals
  PROVE  /\ \A j \in 1..Len(versions) : ~Granted(j)
         /\ \A d, a : ~Passed(d, a)
         /\ \A x \in Couriers : ~Holds(x)
         /\ \A d \in Drafts : ~Received(d)
<1> USE DEF DeliveryInv
<1>0. versions \in Seq(Version) /\ versions # <<>>
  BY DEF CaseHistory, CaseInv, TypeOK
<1>1. PICK s \in Sessions : Commit(s)
  <2>1. Len(versions') = Len(versions) + 1
    BY <1>0
  <2>2. versions' # versions
    BY <1>0, <2>1
  <2> QED BY <2>2 DEF CaseStep, Lookup, Read, Abandon, casevars
<1>2. w = Written(s)
  <2>1. versions' = Append(versions, Written(s)) /\ Written(s) \in Version
    BY <1>1, CommitAppends DEF CaseHistory
  <2> QED BY <1>0, <2>1, StaysSaid
<1>3. PICK t \in Transitions : Permitted(t, Current.state, w)
  BY <1>1, <1>2, WrittenFollows DEF CaseHistory
<1>4. Current.state \in Before
  BY <1>3, GrantTable DEF GrantRow, Permitted
<1>5. \A j \in 1..Len(versions) : ~Granted(j)
  BY <1>0, <1>4 DEF GrantKept, GrantedBy, Current
<1>6. \A d, a : ~Passed(d, a)
  BY <1>5 DEF Passed
<1>7. \A x \in Couriers : ~Holds(x)
  BY <1>6 DEF Holds, JobsTrue, JobTrue, Carries
<1>8. \A d \in Drafts : ~Received(d)
  BY <1>6 DEF RowsTrue, RowTrue
<1> QED BY <1>5, <1>6, <1>7, <1>8

(* How a courier's place changes.                                          *)
LEMMA PlaceAfter ==
  ASSUME job \in [Couriers -> Job], NEW y \in Couriers, DeliveryStep
  PROVE  \/ job'[y] = job[y]
         \/ job'[y].pc = "idle"
         \/ Writes(y) /\ job[y].pc = "approve" /\ job'[y].pc = "read"
         \/ job[y].pc = "idle" /\ job'[y].pc \in {"approve", "tell"}
         \/ job[y].pc = "read" /\ job'[y].pc = "send" /\ SameRows
         \/ job[y].pc = "send" /\ job'[y].pc \in {"now", "record"}
         \/ job[y].pc = "now" /\ job'[y].pc \in {"answer", "record"}
         \/ job[y].pc = "answer" /\ job'[y].pc = "record"
         \/ y \in Workers /\ job[y].pc = "idle" /\ job'[y].pc = "answer"
<1>1. ASSUME NEW pc, NEW d, Moves(y, pc, d)
      PROVE  job'[y].pc = pc
  BY <1>1 DEF Moves
<1>2. ASSUME Stops(y)
      PROVE  job'[y].pc = "idle"
  BY <1>2 DEF Stops, IdleJob
<1>3. CASE Writes(y)
  BY <1>1, <1>2, <1>3 DEF Writes, At
<1>4. CASE Begins(y)
  <2>1. ASSUME NEW a, NEW d,
               job' = [job EXCEPT ![y] = [pc |-> "approve", actor |-> a, hash |-> d, draft |-> NoDraft]]
        PROVE  job'[y].pc = "approve"
    BY <2>1
  <2> QED BY <1>1, <1>4, <2>1 DEF Begins, At
<1>5. CASE Carry(y)
  <2>1. ASSUME NEW d,
               job' = [job EXCEPT ![y] = [IdleJob EXCEPT !.pc = "answer", !.draft = d]]
        PROVE  job'[y].pc = "answer"
    BY <2>1 DEF IdleJob
  <2>2. \/ Stops(y)
        \/ job[y].pc = "read" /\ SameRows /\ Moves(y, "send", Current.draft)
        \/ job[y].pc = "send" /\ \E pc \in {"now", "record"} : Moves(y, pc, job[y].draft)
        \/ job[y].pc = "now" /\ \E pc \in {"answer", "record"} : Moves(y, pc, job[y].draft)
        \/ job[y].pc = "answer" /\ Moves(y, "record", job[y].draft)
        \/ /\ y \in Workers /\ job[y].pc = "idle"
           /\ \E d : job' = [job EXCEPT ![y] = [IdleJob EXCEPT !.pc = "answer", !.draft = d]]
    BY <1>5 DEF Carry, At
  <2> QED BY <1>1, <1>2, <2>1, <2>2
<1>6. Writes(y) \/ Begins(y) \/ Carry(y) \/ job'[y] = job[y]
  BY OthersStay DEF DeliveryStep, Beside
<1> QED BY <1>3, <1>4, <1>5, <1>6

(* Who holds the approval afterwards.                                      *)
LEMMA HoldsAfter ==
  ASSUME DeliveryInv, DeliveryStep, NEW y \in Couriers, Holds(y)', ~Holds(y)
  PROVE  \E w \in Version :
           versions' = Append(versions, w) /\ w.event \in Approvals /\ Writes(y)
<1> USE DEF DeliveryInv
<1>0. job \in [Couriers -> Job] /\ JobTrue(y) /\ y \notin Workers
  BY DEF DeliveryTypeOK, JobsTrue, Holds
<1>1. Writes(y) /\ At(y, "approve") /\ job'[y].pc = "read"
  <2>1. /\ job'[y].pc \in {"read", "send", "now", "answer", "record"}
        /\ job[y].pc \notin {"read", "send", "now", "answer", "record"}
    BY <1>0 DEF Holds
  <2> QED BY <1>0, <2>1, PlaceAfter DEF At
<1>2. ~Stops(y)
  BY <1>0, <1>1 DEF Stops, IdleJob
<1> QED BY <1>1, <1>2 DEF Writes, ApprovalOf, Unkeyed, Approvals, At

LEMMA OneHolderStep ==
  ASSUME CaseAssumption, DeliveryInv, CaseStep, DeliveryStep
  PROVE  OneHolder'
<1>0. job \in [Couriers -> Job]
  BY DEF DeliveryInv, DeliveryTypeOK
<1>1. SUFFICES ASSUME NEW x \in Couriers, NEW y \in Couriers, Holds(x)', Holds(y)'
               PROVE  x = y
  BY DEF OneHolder
<1>2. CASE Holds(x) /\ Holds(y)
  BY <1>2 DEF DeliveryInv, OneHolder
<1>3. ASSUME NEW u \in Couriers, NEW v \in Couriers, Holds(u)', Holds(v)', ~Holds(u)
      PROVE  u = v
  <2>1. Writes(u) /\ \A z \in Couriers : ~Holds(z)
    BY <1>3, HoldsAfter, FreshGrant
  <2>2. Writes(v)
    BY <1>3, <2>1, HoldsAfter
  <2>3. u # v => job'[v] = job[v]
    BY <1>0, <2>1, OthersStay
  <2> QED BY <1>3, <2>1, <2>3 DEF Holds
<1> QED BY <1>1, <1>2, <1>3

LEMMA UnsendStep ==
  ASSUME CaseAssumption, DeliveryInv, DeliveryTypeOK', CaseStep, DeliveryStep, RowStep
  PROVE  Unsend'
<1> USE DEF DeliveryInv
<1>0. /\ happened \in [Drafts -> Nat] /\ happened' \in [Drafts -> Nat]
      /\ job \in [Couriers -> Job]
  BY DEF DeliveryTypeOK
<1>1. SUFFICES ASSUME NEW y \in Couriers, job'[y].pc \in {"read", "send"}, ~QueueOn,
                      NEW d \in Drafts
               PROVE  happened'[d] = 0
  BY DEF Unsend
<1>2. CASE Holds(y)
  <2>1. job[y].pc \in {"read", "send"}
    BY <1>0, <1>1, <1>2, PlaceAfter DEF Holds
  <2>2. happened[d] = 0
    BY <1>1, <2>1 DEF Unsend
  <2>3. CASE happened' = happened
    BY <2>2, <2>3
  <2>4. CASE happened' # happened
    <3>1. \/ \E e \in Drafts : phase[e] # "none"
          \/ \E x \in Couriers, e \in Drafts :
               At(x, "send") /\ job[x].draft = e /\ happened' = [happened EXCEPT ![e] = @ + 1]
      BY <2>4 DEF RowStep, SameRows
    <3>2. \A e \in Drafts : phase[e] = "none"
      BY <1>1 DEF RowsTrue, RowTrue
    <3>3. PICK x \in Couriers : At(x, "send")
      BY <3>1, <3>2
    <3>4. x = y
      BY <1>2, <3>3, SenderHolds DEF OneHolder, Holds, At
    <3>5. job[y].pc = "send"
      BY <3>3, <3>4 DEF At
    <3>6. PICK z \in Couriers : Carry(z)
      <4>1. ~Beside
        BY <2>4, <3>2 DEF Beside, SameRows, Queue!Happen, Queue!LoseTrack, Queue!Judge, Queue!MoveTo
      <4> QED BY <2>4, <4>1 DEF DeliveryStep, Writes, Begins, SameRows
    <3>7. /\ At(z, "send")
          /\ Stops(z) \/ Moves(z, "record", job[z].draft)
      BY <1>1, <2>4, <3>2, <3>6 DEF Carry, SameRows, Queue!Attempt, Queue!ReportDone,
           Queue!Release, Queue!GiveUp, Queue!LoseTrack, Queue!MoveTo
    <3>8. z = y
      BY <1>2, <3>7, SenderHolds DEF OneHolder, Holds, At
    <3>9. job'[y].pc \in {"idle", "record"}
      BY <1>0, <3>7, <3>8 DEF Moves, Stops, IdleJob
    <3> QED BY <1>1, <3>9
  <2> QED BY <2>3, <2>4
<1>3. CASE ~Holds(y)
  <2>1. y \notin Workers
    <3>1. JobTrue(y)
      BY DEF JobsTrue
    <3>2. job[y].pc \in {"approve", "read", "send"}
      BY <1>0, <1>1, PlaceAfter
    <3> QED BY <3>1, <3>2 DEF JobTrue
  <2>2. Holds(y)'
    BY <1>1, <2>1 DEF Holds
  <2>3. PICK w \in Version : versions' = Append(versions, w) /\ w.event \in Approvals /\ Writes(y)
    BY <1>3, <2>2, HoldsAfter
  <2>4. ~Received(d) /\ happened' = happened
    BY <2>3, FreshGrant DEF Writes, SameRows
  <2> QED BY <1>0, <2>4 DEF Received
<1> QED BY <1>2, <1>3

-----------------------------------------------------------------------------
(* The sends and the clarifications.                                       *)

LEMMA SendsTrueStep ==
  ASSUME CaseAssumption, CouriersAssumption, DeliveryInv, DeliveryTypeOK', Grows, DeliveryStep
  PROVE  SendsTrue'
<1> USE DEF DeliveryInv
<1>0. /\ versions \in Seq(Version) /\ versions # <<>>
      /\ happened \in [Drafts -> Nat] /\ happened' \in [Drafts -> Nat]
  BY DEF DeliveryTypeOK, CaseHistory, CaseInv, TypeOK
<1>1. SUFFICES ASSUME NEW CONSTANT i, i \in 1..Len(versions'), versions'[i].event \in SendEvents
               PROVE  \E d \in Drafts : \E a :
                        versions'[i].draft = d /\ versions'[i].actor = a /\ Known(d)' /\ Passed(d, a)'
  <2>1. SUFFICES ASSUME NEW i \in 1..Len(versions'), versions'[i].event \in SendEvents
                 PROVE  /\ versions'[i].draft \in Drafts
                        /\ happened'[versions'[i].draft] > 0 \/ phase'[versions'[i].draft] = "judged_done"
                        /\ \E j \in 1..Len(versions') :
                             /\ versions'[j].event \in Approvals
                             /\ versions'[j].draft = versions'[i].draft
                             /\ versions'[j].actor = versions'[i].actor
    BY DEF SendsTrue, Known, Received, Passed, Granted
  <2>2. PICK d, a :
          d \in Drafts /\ versions'[i].draft = d /\ versions'[i].actor = a /\ Known(d)' /\ Passed(d, a)'
    BY <2>1
  <2> QED BY <2>2 DEF Known, Received, Passed, Granted
(* A text that is known and was passed still is.                           *)
<1>2. ASSUME NEW CONSTANT d \in Drafts, NEW CONSTANT a,
             versions'[i].draft = d, versions'[i].actor = a, Known(d), Passed(d, a)
      PROVE  \E c \in Drafts : \E b :
               versions'[i].draft = c /\ versions'[i].actor = b /\ Known(c)' /\ Passed(c, b)'
  <2>1. Known(d)' /\ Passed(d, a)'
    BY <1>0, <1>2, TextStays
  <2> QED BY <1>2, <2>1
<1>3. CASE i \in 1..Len(versions) /\ versions'[i] = versions[i]
  <2>1. PICK d, a : d = versions[i].draft /\ a = versions[i].actor
    OBVIOUS
  <2>2. d \in Drafts /\ Known(d) /\ Passed(d, a)
    BY <1>1, <1>3, <2>1 DEF SendsTrue
  <2> QED BY <1>2, <1>3, <2>1, <2>2
<1>4. ASSUME NEW w \in Version, versions' = Append(versions, w), versions'[i] # versions[i]
      PROVE  i = Len(versions) + 1 /\ versions'[i] = w
  BY <1>0, <1>1, <1>4, StaysSaid
<1>5. ASSUME NEW x \in Couriers, Writes(x), ~(i \in 1..Len(versions) /\ versions'[i] = versions[i])
      PROVE  \E c \in Drafts : \E b :
               versions'[i].draft = c /\ versions'[i].actor = b /\ Known(c)' /\ Passed(c, b)'
  <2>1. PICK w \in Version :
          /\ versions' = Append(versions, w)
          /\ w.draft = Current.draft
          /\ \/ w.event = ApprovalOf(job[x].actor).event
             \/ At(x, "record") /\ w.actor = Sender(x)
             \/ w.event = "supplier_info_requested"
    BY <1>5 DEF Writes
  <2>2. versions'[i] = w
    BY <1>0, <1>1, <1>5, <2>1, StaysSaid
  <2>3. At(x, "record") /\ w.actor = Sender(x)
    BY <1>1, <2>1, <2>2 DEF ApprovalOf, Unkeyed, SendEvents
  <2>4. PICK d, a : d = job[x].draft /\ a = Sender(x)
    OBVIOUS
  <2>5. d \in Drafts /\ Known(d) /\ Passed(d, a)
    BY <2>3, <2>4, SenderIs
  <2>6. Current.draft = d
    BY <2>5, PassedText
  <2> QED BY <1>2, <2>1, <2>2, <2>3, <2>4, <2>5, <2>6
<1>6. ASSUME NEW w \in Version, versions' = Append(versions, w), w.event \notin SendEvents
      PROVE  i \in 1..Len(versions) /\ versions'[i] = versions[i]
  BY <1>0, <1>1, <1>6, StaysSaid
<1>7. versions' = versions => i \in 1..Len(versions) /\ versions'[i] = versions[i]
  BY <1>1
<1> QED BY <1>3, <1>5, <1>6, <1>7 DEF DeliveryStep, Beside, Begins, Carry

(* A case with a text, and one whose sending was approved, has a buyer who  *)
(* committed.                                                              *)
LEMMA BehindCommitment ==
  ASSUME CaseHistory, NEW j \in 1..Len(versions), versions[j].state \in Committed
  PROVE  \E i \in 1..Len(versions) : By(i, "buyer_committed", "buyer")
<1>1. PICK i \in 1..j : By(i, "buyer_committed", "buyer")
  BY DEF CaseHistory, CommitmentKept, Behind
<1>2. i \in 1..Len(versions)
  BY DEF CaseHistory, CaseInv, TypeOK
<1> QED BY <1>1, <1>2

LEMMA RowAt ==
  ASSUME CaseHistory, NEW j \in 1..Len(versions), versions[j].event # "case_opened"
  PROVE  /\ j \in 2..Len(versions) /\ (j - 1) \in 1..Len(versions)
         /\ \E t \in Transitions :
              /\ Permitted(t, versions[j - 1].state, versions[j]) /\ versions[j].state = t.dst
              /\ GrantRow(t)
BY RowOf, GrantTable DEF CaseHistory, CaseInv, TypeOK

LEMMA DraftCommitted ==
  ASSUME CaseHistory, TextDrafted, Current.draft # NoDraft
  PROVE  \E i \in 1..Len(versions) : By(i, "buyer_committed", "buyer")
<1>1. Len(versions) \in 1..Len(versions)
  BY DEF CaseHistory, CaseInv, TypeOK
<1>2. PICK j \in 1..Len(versions) : versions[j].event = "external_message_drafted"
  BY <1>1 DEF TextDrafted, Current, Happened
<1>3. versions[j].state = "QUOTE_DRAFTED"
  BY <1>2, RowAt DEF GrantRow, Permitted
<1> QED BY <1>3, BehindCommitment DEF Committed

LEMMA PassedCommitted ==
  ASSUME CaseHistory, NEW d, NEW a, Passed(d, a)
  PROVE  \E i \in 1..Len(versions) : By(i, "buyer_committed", "buyer")
<1>1. PICK j \in 1..Len(versions) : versions[j].event \in Approvals
  BY DEF Passed, Granted
<1>2. versions[j].state = "APPROVED_TO_SEND"
  BY <1>1, RowAt DEF GrantRow, Permitted, Approvals
<1> QED BY <1>2, BehindCommitment DEF Committed

LEMMA AskedTrueStep ==
  ASSUME DeliveryInv, Grows, DeliveryStep
  PROVE  AskedTrue'
<1> USE DEF DeliveryInv
<1>0. versions \in Seq(Version) /\ rfis \in Nat
  BY DEF DeliveryTypeOK, CaseHistory, CaseInv, TypeOK
<1>1. ASSUME NEW i \in 1..Len(versions), By(i, "buyer_committed", "buyer")
      PROVE  AskedTrue'
  <2>1. i \in 1..Len(versions') /\ versions'[i] = versions[i]
    BY <1>0, StaysSaid DEF Grows
  <2> QED BY <1>1, <2>1 DEF AskedTrue, By, Happened
<1>2. CASE rfis' = rfis
  <2>1. CASE rfis > 0
    BY <1>1, <2>1 DEF AskedTrue
  <2>2. CASE ~(rfis > 0)
    BY <1>2, <2>2 DEF AskedTrue
  <2> QED BY <2>1, <2>2
<1>3. CASE Current.draft # NoDraft
  BY <1>1, <1>3, DraftCommitted
<1> QED BY <1>2, <1>3 DEF DeliveryStep, Beside, Writes, Begins, Carry, SameNotes

-----------------------------------------------------------------------------
(* All of it together.                                                     *)

LEMMA DeliveryInitially ==
  ASSUME CaseAssumption, CouriersAssumption, DeliveryInit
  PROVE  DeliveryInv
<1>1. CaseHistory
  BY CaseHistoryInitially DEF DeliveryInit
<1>2. versions = <<Opened>> /\ session = [s \in Sessions |-> IdleSession]
  BY DEF DeliveryInit, Init
<1>3. /\ Len(versions) = 1 /\ versions[1].event = "case_opened" /\ versions[1].draft = NoDraft
      /\ \A j \in 1..Len(versions) : j = 1
  BY <1>2 DEF Opened
<1>4. DeliveryTypeOK
  <2>1. phase \in [Drafts -> Queue!Phases] /\ happened \in [Drafts -> Nat]
    BY DEF DeliveryInit, Queue!EffectInit, Queue!Phases
  <2>2. job \in [Couriers -> Job]
    BY DEF DeliveryInit, Job, IdleJob, PC, Senders
  <2>3. TypeOK
    BY <1>1, CaseGates
  <2> QED BY <2>1, <2>2, <2>3 DEF DeliveryInit, DeliveryTypeOK
<1>5. CallsTrue
  BY <1>2 DEF CallsTrue, Free, IdleSession, CouriersAssumption
<1>6. \A j \in 1..Len(versions) : ~Granted(j) /\ versions[j].event \notin SendEvents
  BY <1>3 DEF Granted, Approvals, SendEvents
<1>7. GrantKept /\ TextStands /\ TextDrafted /\ SendsTrue
  <2>1. GrantKept /\ TextStands
    BY <1>3, <1>6 DEF GrantKept, GrantedBy, TextStands
  <2>2. TextDrafted
    BY <1>3 DEF TextDrafted
  <2>3. SendsTrue
    BY <1>6 DEF SendsTrue
  <2> QED BY <2>1, <2>2, <2>3
<1>8. \A x \in Couriers : job[x].pc = "idle"
  BY DEF DeliveryInit, IdleJob
<1>9. JobsTrue /\ OneHolder /\ Unsend
  BY <1>8 DEF JobsTrue, JobTrue, Carries, At, OneHolder, Holds, Unsend
<1>10. RowsTrue
  BY DEF DeliveryInit, Queue!EffectInit, RowsTrue, RowTrue, Received
<1>11. AskedTrue
  BY DEF DeliveryInit, AskedTrue
<1> QED BY <1>1, <1>4, <1>5, <1>7, <1>9, <1>10, <1>11 DEF DeliveryInv

LEMMA DeliveryInvStep ==
  ASSUME CaseAssumption, CouriersAssumption, DeliveryInv, [DeliveryNext]_vars
  PROVE  DeliveryInv' /\ DeliveryStep /\ Grows
<1>1. DeliveryStep /\ CaseStep /\ Grows /\ RowStep
  BY StepShape, DeliveryIsCaseStep, GrowsStep, QueueRowStep
<1>2. CaseHistory'
  BY <1>1, CaseHistoryStep DEF DeliveryInv
<1>3. Current.draft \in Drafts \cup {NoDraft}
  <2>1. Current \in Version
    BY DEF DeliveryInv, CaseHistory, CaseInv, TypeOK, Current
  <2> QED BY <2>1 DEF Version
<1>4. DeliveryTypeOK'
  BY <1>1, <1>2, <1>3, DeliveryTypes DEF CaseHistory, CaseInv
<1>5. CallsTrue'
  BY <1>1, CallsTrueStep
<1>6. GrantKept' /\ TextStands' /\ TextDrafted'
  BY <1>1, GrantKeptStep, TextStandsStep, TextDraftedStep DEF DeliveryInv, CaseHistory
<1>7. JobsTrue' /\ RowsTrue' /\ OneHolder' /\ Unsend'
  BY <1>1, <1>4, JobsTrueStep, RowsTrueStep, OneHolderStep, UnsendStep
<1>8. SendsTrue' /\ AskedTrue'
  BY <1>1, <1>4, SendsTrueStep, AskedTrueStep
<1> QED BY <1>1, <1>2, <1>4, <1>5, <1>6, <1>7, <1>8 DEF DeliveryInv

LEMMA DeliveryInvAlways == DeliverySpec => []DeliveryInv
<1>1. DeliveryInit => DeliveryInv
  BY CaseAssumption, CouriersAssumption, DeliveryInitially
<1>2. DeliveryInv /\ [DeliveryNext]_vars => DeliveryInv'
  BY CaseAssumption, CouriersAssumption, DeliveryInvStep
<1> QED BY <1>1, <1>2, PTL DEF DeliverySpec

(* GATE 1 at the mailbox: whatever reaches the supplier, an enquiry or a     *)
(* clarification, the buyer committed before it (send_approved,             *)
(* send_autonomous, request_supplier_info, for any sessions and mishaps).   *)
THEOREM ContactAfterCommitment == DeliverySpec => []NoContactBeforeCommitment
<1>1. DeliveryInv => NoContactBeforeCommitment
  <2>1. ASSUME DeliveryInv, NEW d \in Drafts, Received(d)
        PROVE  \E i \in 1..Len(versions) : By(i, "buyer_committed", "buyer")
    <3>1. \E a \in Senders : Passed(d, a)
      BY <2>1 DEF DeliveryInv, RowsTrue, RowTrue
    <3> QED BY <2>1, <3>1, PassedCommitted DEF DeliveryInv
  <2> QED BY <2>1 DEF NoContactBeforeCommitment, DeliveryInv, AskedTrue
<1> QED BY <1>1, DeliveryInvAlways, PTL

(* GATE 2 with the couriers: the text that the case calls sent is the one    *)
(* that stood when the sending was approved, whoever dispatches, retries or  *)
(* replays.                                                                *)
THEOREM SendGateOfDelivery == DeliverySpec => []SendGate
<1>1. DeliveryInv => SendGate
  BY CaseGates DEF DeliveryInv
<1> QED BY <1>1, DeliveryInvAlways, PTL

(* With the couriers too a case whose enquiry was sent is retired by a       *)
(* person only.                                                            *)
THEOREM SentRetiredInDelivery == DeliverySpec => []SentRetiredByHuman
<1>1. DeliveryInv => SentRetiredByHuman
  BY CaseGates DEF DeliveryInv
<1> QED BY <1>1, DeliveryInvAlways, PTL

(* A case sends one enquiry: one text, once, for any number of desks,        *)
(* agents and workers, through the queue or without it.                     *)
THEOREM OneEnquiryOnly == DeliverySpec => []OneEnquiry
<1>1. DeliveryInv => OneEnquiry
  <2>1. ASSUME DeliveryInv, NEW c \in Drafts, NEW d \in Drafts, Received(c), Received(d)
        PROVE  c = d
    <3>1. PICK a \in Senders : Passed(c, a)
      BY <2>1 DEF DeliveryInv, RowsTrue, RowTrue
    <3>2. PICK b \in Senders : Passed(d, b)
      BY <2>1 DEF DeliveryInv, RowsTrue, RowTrue
    <3> QED BY <2>1, <3>1, <3>2, OnePassed DEF DeliveryInv
  <2> QED BY <2>1 DEF OneEnquiry, DeliveryInv, RowsTrue, RowTrue
<1> QED BY <1>1, DeliveryInvAlways, PTL

(* The case says "sent" only of a text that the supplier has or that an      *)
(* operator judged delivered, though the worker replays the transition of    *)
(* what its queue delivered long after the request.                         *)
THEOREM SentAlwaysTrue == DeliverySpec => []SentIsTrue
<1>1. DeliveryInv => SentIsTrue
  BY DEF DeliveryInv, SendsTrue, SentIsTrue, Known
<1> QED BY <1>1, DeliveryInvAlways, PTL

(* A send is recorded as what was approved: the operator's transition after  *)
(* the operator's approval, the agent's after the agent's, also when a       *)
(* worker replays it from the row.                                          *)
THEOREM SendFollowsItsApproval == DeliverySpec => []SendMatchesApproval
<1>1. ASSUME DeliveryInv, NEW i \in 2..Len(versions), versions[i].event \in SendEvents
      PROVE  versions[i - 1].actor = versions[i].actor
  <2>1. /\ i \in 1..Len(versions) /\ (i - 1) \in 1..Len(versions)
        /\ CaseHistory /\ GrantKept /\ SendsTrue
    BY <1>1 DEF DeliveryInv, CaseHistory, CaseInv, TypeOK
  <2>2. versions[i - 1].state = "APPROVED_TO_SEND"
    <3>1. \E t \in Transitions : Permitted(t, versions[i - 1].state, versions[i])
      BY <2>1 DEF CaseHistory, HistoryLegal
    <3> QED BY <1>1, <3>1, ApprovalTable DEF ApprovalRow, Permitted
  <2>3. Granted(i - 1)
    <3>1. i - 1 # 1
      BY <2>1, <2>2 DEF CaseHistory, OpenedFirst, Opened
    <3>2. (i - 1) \in 2..Len(versions)
      BY <2>1, <3>1
    <3>3. \E t \in Transitions :
            Permitted(t, versions[i - 1 - 1].state, versions[i - 1]) /\ versions[i - 1].state = t.dst
      BY <2>1, <3>2 DEF CaseHistory, HistoryLegal
    <3> QED BY <2>2, <3>3, ApprovalTable DEF ApprovalRow, Permitted, Granted
  <2>4. Passed(versions[i - 1].draft, versions[i - 1].actor)
    BY <2>1, <2>3 DEF Passed
  <2>5. Passed(versions[i].draft, versions[i].actor)
    BY <1>1, <2>1 DEF SendsTrue
  <2> QED BY <2>1, <2>4, <2>5, OnePassed
<1>2. DeliveryInv => SendMatchesApproval
  BY <1>1 DEF SendMatchesApproval
<1> QED BY <1>2, DeliveryInvAlways, PTL

(* No enquiry ever reaches the supplier, before or after, of a case that the *)
(* buyer's amendment or the system retired.                                 *)
THEOREM RetiredNeverSent == DeliverySpec => []SupersededNeverSent
<1>1. ASSUME DeliveryInv,
             NEW i \in 1..Len(versions), Happened(i, "case_superseded"),
             versions[i].actor # "human_operator",
             NEW d \in Drafts, Received(d)
      PROVE  FALSE
  <2>0. CaseHistory /\ GrantKept /\ HistoryLegal /\ versions \in Seq(Version)
    BY <1>1 DEF DeliveryInv, CaseHistory, CaseInv, TypeOK
  <2>1. /\ (i - 1) \in 1..Len(versions)
        /\ versions[i].state = "SUPERSEDED" /\ versions[i - 1].state \in Before
    <3>1. /\ (i - 1) \in 1..Len(versions)
          /\ \E t \in Transitions :
               /\ Permitted(t, versions[i - 1].state, versions[i]) /\ versions[i].state = t.dst
               /\ GrantRow(t)
      BY <1>1, <2>0, RowAt DEF Happened
    <3> QED BY <1>1, <3>1 DEF GrantRow, Permitted, Happened
  <2>2. \E a \in Senders : Passed(d, a)
    BY <1>1 DEF DeliveryInv, RowsTrue, RowTrue
  <2>3. PICK j \in 1..Len(versions) : Granted(j)
    BY <2>2 DEF Passed
  <2>4. ~(j \in 1..(i - 1))
    BY <2>0, <2>1, <2>3 DEF GrantKept, GrantedBy
  <2>5. j # i
    BY <1>1, <2>3 DEF Granted, Approvals, Happened
  <2>6. (i + 1) \in 2..Len(versions) /\ (i + 1) - 1 = i
    BY <2>0, <2>4, <2>5
  <2>7. \E t \in Transitions : Permitted(t, versions[i].state, versions[i + 1])
    BY <2>0, <2>6 DEF HistoryLegal
  <2> QED BY <2>1, <2>7, GrantTable DEF GrantRow, Permitted
<1>2. DeliveryInv => SupersededNeverSent
  BY <1>1 DEF SupersededNeverSent
<1> QED BY <1>2, DeliveryInvAlways, PTL

-----------------------------------------------------------------------------
(* Whose text it is.                                                       *)

(* The agent approved the sending.                                         *)
Autonomous == \E i \in 1..Len(versions) : By(i, "approval_granted_autonomous", "agent")

(* What reaches the supplier was passed by an operator or by the agent's      *)
(* guards, except that the agent may have approved whatever text stood:      *)
(* send_autonomous compares no hash, and the run of the autonomous send      *)
(* shows the text it can be.                                                *)
THEOREM OnlyAgentsUnseen ==
  DeliverySpec => [](\A d \in Drafts : Received(d) => d \in vouched \/ Autonomous)
<1>1. ASSUME DeliveryInv, NEW d \in Drafts, Received(d), d \notin vouched
      PROVE  Autonomous
  <2>1. PICK a \in Senders : Passed(d, a) /\ Vouched(d, a)
    BY <1>1 DEF DeliveryInv, RowsTrue, RowTrue
  <2>2. a = "agent"
    BY <1>1, <2>1 DEF Vouched, Senders
  <2>3. PICK j \in 1..Len(versions) : versions[j].event \in Approvals /\ versions[j].actor = "agent"
    BY <2>1, <2>2 DEF Passed, Granted
  <2>4. versions[j].event # "approval_granted"
    <3>1. CaseHistory
      BY <1>1 DEF DeliveryInv
    <3> QED BY <2>3, <3>1, RowAt DEF GrantRow, Permitted, Approvals
  <2> QED BY <2>3, <2>4 DEF Autonomous, By, Happened, Approvals
<1>2. DeliveryInv => (\A d \in Drafts : Received(d) => d \in vouched \/ Autonomous)
  BY <1>1
<1> QED BY <1>2, DeliveryInvAlways, PTL

(* Where no agent runs, everything a courier does is an operator's.         *)
Manned == ~Autonomous /\ \A x \in Couriers : job[x].actor = "human_operator"

LEMMA MannedStep ==
  ASSUME CaseAssumption, CouriersAssumption, Agents = {}, DeliveryInv, Manned, [DeliveryNext]_vars
  PROVE  Manned'
<1> USE DEF DeliveryInv
<1>0. /\ versions \in Seq(Version) /\ job \in [Couriers -> Job]
      /\ DeliveryStep
  BY DeliveryInvStep DEF DeliveryTypeOK, CaseHistory, CaseInv, TypeOK
<1>1. ASSUME NEW x \in Couriers
      PROVE  job'[x].actor = "human_operator"
  <2>1. job[x].actor = "human_operator"
    BY DEF Manned
  <2>2. ASSUME NEW pc, NEW d, Moves(x, pc, d)
        PROVE  job'[x].actor = "human_operator"
    BY <1>0, <2>1, <2>2 DEF Moves
  <2>3. CASE Stops(x)
    BY <1>0, <2>3 DEF Stops, IdleJob
  <2>4. ASSUME NEW d, job' = [job EXCEPT ![x] = [IdleJob EXCEPT !.pc = "answer", !.draft = d]]
        PROVE  job'[x].actor = "human_operator"
    BY <1>0, <2>4 DEF IdleJob
  <2>5. ASSUME NEW d, NEW a \in Senders, a # "agent",
               job' = [job EXCEPT ![x] = [pc |-> "approve", actor |-> a, hash |-> d, draft |-> NoDraft]]
        PROVE  job'[x].actor = "human_operator"
    BY <1>0, <2>5 DEF Senders
  <2>6. CASE Writes(x)
    BY <2>2, <2>3, <2>6 DEF Writes
  <2>7. CASE Begins(x)
    BY <2>2, <2>5, <2>7 DEF Begins
  <2>8. CASE Carry(x)
    BY <2>2, <2>3, <2>4, <2>8 DEF Carry
  <2>9. Writes(x) \/ Begins(x) \/ Carry(x) \/ job'[x] = job[x]
    BY <1>0, OthersStay DEF DeliveryStep, Beside
  <2> QED BY <2>1, <2>6, <2>7, <2>8, <2>9
<1>2. ~Autonomous'
  <2>1. SUFFICES ASSUME NEW i \in 1..Len(versions'),
                        versions'[i].event = "approval_granted_autonomous",
                        versions'[i].actor = "agent"
                 PROVE  FALSE
    BY DEF Autonomous, By, Happened
  <2>2. ~(i \in 1..Len(versions) /\ versions'[i] = versions[i])
    BY <2>1 DEF Manned, Autonomous, By, Happened
  <2>3. PICK w \in Version : versions' = Append(versions, w) /\ versions'[i] = w
    BY <1>0, <2>2, StaysSaid DEF DeliveryStep, Beside, Writes, Begins, Carry
  <2>4. PICK x \in Couriers : Writes(x)
    <3>1. versions' # versions
      BY <2>2
    <3>2. \A v \in Version : versions' = Append(versions, v) => v = w
      BY <1>0, <2>3, StaysSaid
    <3> QED BY <1>0, <2>1, <2>3, <3>1, <3>2 DEF DeliveryStep, Beside, Begins, Carry, Approvals
  <2>5. PICK v \in Version :
          /\ versions' = Append(versions, v)
          /\ \/ v.actor = job[x].actor
             \/ v.event = SendOf(Sender(x)).event
             \/ v.event = "supplier_info_requested"
    BY <2>4 DEF Writes
  <2>6. v = w
    BY <1>0, <2>3, <2>5, StaysSaid
  <2>7. SendOf(Sender(x)).event # "approval_granted_autonomous"
    BY DEF SendOf, Unkeyed
  <2> QED BY <2>1, <2>3, <2>5, <2>6, <2>7 DEF Manned
<1> QED BY <1>1, <1>2 DEF Manned

(* Without the autonomous send, what reaches the supplier is a text that an   *)
(* operator dispatched by its hash, whatever edits come between the hash,     *)
(* the approval, the reading of the draft and the transmission.              *)
THEOREM OperatorsVouch ==
  ASSUME Agents = {}
  PROVE  DeliverySpec => []VouchedText
<1>1. DeliveryInit => DeliveryInv /\ Manned
  <2>1. DeliveryInit => Manned
    BY DEF DeliveryInit, Init, Manned, Autonomous, By, Happened, Opened, IdleJob
  <2> QED BY <2>1, CaseAssumption, CouriersAssumption, DeliveryInitially
<1>2. (DeliveryInv /\ Manned) /\ [DeliveryNext]_vars => (DeliveryInv /\ Manned)'
  BY CaseAssumption, CouriersAssumption, DeliveryInvStep, MannedStep
<1>3. DeliveryInv /\ Manned => VouchedText
  <2>1. ASSUME DeliveryInv, Manned, NEW d \in Drafts, Received(d)
        PROVE  d \in vouched
    <3>1. PICK a \in Senders : Passed(d, a) /\ Vouched(d, a)
      BY <2>1 DEF DeliveryInv, RowsTrue, RowTrue
    <3>2. PICK j \in 1..Len(versions) : versions[j].event \in Approvals /\ versions[j].actor = a
      BY <3>1 DEF Passed, Granted
    <3>3. a # "agent"
      <4>1. CaseHistory
        BY <2>1 DEF DeliveryInv
      <4>2. versions[j].event = "approval_granted" => versions[j].actor # "agent"
        BY <3>2, <4>1, RowAt DEF GrantRow, Permitted
      <4> QED BY <2>1, <3>2, <4>2 DEF Manned, Autonomous, By, Happened, Approvals
    <3> QED BY <3>1, <3>3 DEF Vouched, Senders
  <2> QED BY <2>1 DEF VouchedText
<1> QED BY <1>1, <1>2, <1>3, PTL DEF DeliverySpec

=============================================================================
