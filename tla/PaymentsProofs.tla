---------------------------- MODULE PaymentsProofs ----------------------------
(***************************************************************************)
(* What Payments promises for any number of checkouts and workers, however  *)
(* often they fail, die or stall.                                          *)
(***************************************************************************)
EXTENDS Payments, TLAPS

-----------------------------------------------------------------------------
(* What a worker carries between its steps, and that the order is locked by *)
(* whoever is writing a ledger entry.                                      *)
WritesLedger(w) == worker[w].pc = "write" /\ worker[w].job[2] = "ledger"

CarriesTrue ==
  \A w \in Workers :
    /\ worker[w].pc \in {"apply", "ack", "fail"} => worker[w].event \in Events
    /\ worker[w].pc \in {"write", "note", "done", "undone"} => worker[w].job \in Jobs

LockTrue == \A w \in Workers : WritesLedger(w) <=> lock = w

(* Whoever is about to append an entry still finds none.                   *)
FoundTrue ==
  \A w \in Workers :
    WritesLedger(w) /\ worker[w].found => entries[EventOf(worker[w].job)] = 0

PaymentsInv == TypeOK /\ CarriesTrue /\ LockTrue /\ FoundTrue /\ BookedOnce

LEMMA JobParts ==
  ASSUME NEW j \in Jobs
  PROVE  /\ EventOf(j) \in Events
         /\ j[2] \in {"ledger", "dispatch"}
         /\ j # <<>>
BY DEF Jobs, Events, Kinds, EventOf

LEMMA ToDoIsBoolean == ASSUME NEW j PROVE ToDo(j) \in BOOLEAN
BY DEF ToDo

LEMMA ClaimShapes ==
  ASSUME NEW w \in Workers
  PROVE  /\ Unclaimed("pending") \in Claim /\ Unclaimed("processed") \in Claim
         /\ Unclaimed("failed") \in Claim /\ Unclaimed("none") \in Claim
         /\ ClaimedBy(w) \in Claim
BY DEF Unclaimed, ClaimedBy, Claim

LEMMA PaymentsInvInitially == ASSUME PaymentsAssumption, Init PROVE PaymentsInv
<1>1. TypeOK
  <2>1. /\ order \in [status : Statuses, intent : Keys \cup {NoKey}, reserved : BOOLEAN]
        /\ worker \in [Workers -> [pc : WorkerPC, event : Events \cup {<<>>}, todo : SUBSET Jobs,
                                   job : Jobs \cup {<<>>}, found : BOOLEAN]]
        /\ mishaps \in 0..MaxMishaps
    BY DEF Init, PaymentsAssumption, IdleWorker, Statuses, WorkerPC
  <2>2. inbox \in [Events -> Claim] /\ jobs \in [Jobs -> Claim]
    BY DEF Init, Claim, Unclaimed
  <2> QED BY <2>1, <2>2 DEF Init, TypeOK, CheckoutPC, Dispatch
<1>2. CarriesTrue /\ LockTrue /\ FoundTrue /\ BookedOnce
  BY DEF Init, CarriesTrue, LockTrue, FoundTrue, BookedOnce, WritesLedger, IdleWorker,
         PaymentsAssumption
<1> QED BY <1>1, <1>2 DEF PaymentsInv

(* A step that leaves workers, lock and entries alone has only its types to *)
(* keep.                                                                   *)
LEMMA CarriedOver ==
  ASSUME PaymentsInv, TypeOK', UNCHANGED <<worker, lock, entries>>
  PROVE  PaymentsInv'
BY DEF PaymentsInv, CarriesTrue, LockTrue, FoundTrue, BookedOnce, WritesLedger

LEMMA MishapsStayBounded ==
  ASSUME PaymentsAssumption, TypeOK, Mishap \/ UNCHANGED mishaps
  PROVE  mishaps' \in 0..MaxMishaps
BY DEF PaymentsAssumption, TypeOK, Mishap

LEMMA CheckoutKeepsTypes ==
  ASSUME PaymentsAssumption, TypeOK, NEW k \in Keys,
         Initiate(k) \/ CheckoutStep(k) \/ Reconcile(k) \/ Capture(k) \/ Decline(k)
  PROVE  TypeOK' /\ UNCHANGED <<worker, lock, entries>>
<1> USE DEF storevars, deliveryvars, Checkout, Attempt, Mishap, CheckoutPC
<1>1. CASE Initiate(k)
  <2>1. /\ mishaps' \in 0..MaxMishaps
        /\ attempt' = [attempt EXCEPT ![k] = "reserved"] \/ attempt' = attempt
        /\ checkout' \in [Keys -> CheckoutPC]
    BY <1>1, MishapsStayBounded DEF Initiate, TypeOK
  <2> QED BY <1>1, <2>1 DEF Initiate, TypeOK
<1>2. CASE CreateIntent(k)
  <2>1. /\ mishaps' \in 0..MaxMishaps
        /\ attempt' = [attempt EXCEPT ![k] = "failed"] \/ attempt' = attempt
        /\ charge' = [charge EXCEPT ![k] = "open"] \/ charge' = charge
        /\ checkout' = [checkout EXCEPT ![k] = "mark"] \/ checkout' = [checkout EXCEPT ![k] = "ended"]
    BY <1>2, MishapsStayBounded DEF CreateIntent
  <2> QED BY <1>2, <2>1 DEF CreateIntent, TypeOK
<1>3. CASE MarkCreated(k)
  <2>1. /\ mishaps' \in 0..MaxMishaps
        /\ attempt' = [attempt EXCEPT ![k] = "provider_created"] \/ attempt' = attempt
        /\ checkout' = [checkout EXCEPT ![k] = "associate"]
    BY <1>3, MishapsStayBounded DEF MarkCreated, TypeOK
  <2> QED BY <1>3, <2>1 DEF MarkCreated, TypeOK
<1>4. CASE Associate(k)
  <2>1. /\ mishaps' \in 0..MaxMishaps
        /\ attempt' = [attempt EXCEPT ![k] = "associated"] \/ attempt' = attempt
        /\ order' = [order EXCEPT !.intent = k] \/ order' = order
    BY <1>4, MishapsStayBounded DEF Associate
  <2> QED BY <1>4, <2>1 DEF Associate, TypeOK
<1>5. CASE DieInCheckout(k)
  BY <1>5 DEF DieInCheckout, TypeOK
<1>6. CASE Reconcile(k)
  BY <1>6 DEF Reconcile, TypeOK
<1>7. CASE Capture(k)
  BY <1>7 DEF Capture, TypeOK, Events, Kinds
<1>8. CASE Decline(k)
  BY <1>8 DEF Decline, TypeOK, Events, Kinds
<1> QED BY <1>1, <1>2, <1>3, <1>4, <1>5, <1>6, <1>7, <1>8 DEF CheckoutStep

LEMMA OperatorKeepsTypes ==
  ASSUME PaymentsAssumption, TypeOK, ReadForCancel \/ Cancel \/ MarkPaid \/ ApproveDispatch
  PROVE  TypeOK' /\ UNCHANGED <<worker, lock, entries>>
<1> USE DEF checkoutvars, deliveryvars, Statuses
<1>1. CASE ReadForCancel
  BY <1>1 DEF ReadForCancel, TypeOK
<1>2. CASE Cancel
  BY <1>2 DEF Cancel, TypeOK
<1>3. CASE MarkPaid
  BY <1>3 DEF MarkPaid, TypeOK
<1>4. CASE ApproveDispatch
  <2>1. dispatch' \in Dispatch
    BY <1>4 DEF ApproveDispatch, TypeOK, Dispatch
  <2>2. mishaps' \in 0..MaxMishaps
    BY <1>4, MishapsStayBounded DEF ApproveDispatch
  <2> QED BY <1>4, <2>1, <2>2 DEF ApproveDispatch, TypeOK
<1> QED BY <1>1, <1>2, <1>3, <1>4

LEMMA ExpiredIsClaim ==
  ASSUME NEW row \in Claim
  PROVE  [row EXCEPT !.expired = TRUE] \in Claim
BY DEF Claim

LEMMA LeaseKeepsTypes ==
  ASSUME PaymentsAssumption, TypeOK, LeaseEnds
  PROVE  TypeOK' /\ UNCHANGED <<worker, lock, entries>>
<1> USE DEF storevars, checkoutvars
<1>1. ASSUME NEW e \in Events, EventLeaseEnds(e)
      PROVE  TypeOK' /\ UNCHANGED <<worker, lock, entries>>
  <2>1. mishaps' \in 0..MaxMishaps
    BY <1>1, MishapsStayBounded DEF EventLeaseEnds, Held
  <2>2. [inbox[e] EXCEPT !.expired = TRUE] \in Claim
    <3>1. inbox[e] \in Claim BY DEF TypeOK
    <3> QED BY <3>1, ExpiredIsClaim
  <2>3. inbox' = [inbox EXCEPT ![e] = [inbox[e] EXCEPT !.expired = TRUE]]
    BY <1>1 DEF EventLeaseEnds
  <2>4. inbox' \in [Events -> Claim]
    BY <2>2, <2>3 DEF TypeOK
  <2>5. UNCHANGED <<storevars, checkoutvars, jobs, worker, lock>>
    BY <1>1 DEF EventLeaseEnds
  <2> QED BY <2>1, <2>4, <2>5 DEF TypeOK
<1>2. ASSUME NEW j \in Jobs, JobLeaseEnds(j)
      PROVE  TypeOK' /\ UNCHANGED <<worker, lock, entries>>
  <2>1. mishaps' \in 0..MaxMishaps
    BY <1>2, MishapsStayBounded DEF JobLeaseEnds, Held
  <2>2. [jobs[j] EXCEPT !.expired = TRUE] \in Claim
    <3>1. jobs[j] \in Claim BY DEF TypeOK
    <3> QED BY <3>1, ExpiredIsClaim
  <2>3. jobs' = [jobs EXCEPT ![j] = [jobs[j] EXCEPT !.expired = TRUE]]
    BY <1>2 DEF JobLeaseEnds
  <2>4. jobs' \in [Jobs -> Claim]
    BY <2>2, <2>3 DEF TypeOK
  <2>5. UNCHANGED <<storevars, checkoutvars, inbox, worker, lock>>
    BY <1>2 DEF JobLeaseEnds
  <2> QED BY <2>1, <2>4, <2>5 DEF TypeOK
<1> QED BY <1>1, <1>2 DEF LeaseEnds

-----------------------------------------------------------------------------
(* The steps of a worker.                                                  *)
Doing == [pc : WorkerPC, event : Events \cup {<<>>}, todo : SUBSET Jobs,
          job : Jobs \cup {<<>>}, found : BOOLEAN]

LEMMA WorkerSet ==
  ASSUME TypeOK, NEW w \in Workers, NEW r \in Doing, SetWorker(w, r)
  PROVE  /\ worker' \in [Workers -> Doing]
         /\ worker'[w] = r
         /\ \A v \in Workers \ {w} : worker'[v] = worker[v]
BY DEF TypeOK, Doing, SetWorker

LEMMA IdleIsDoing == IdleWorker \in Doing
BY DEF IdleWorker, Doing, WorkerPC

LEMMA MovesOn ==
  ASSUME TypeOK, NEW w \in Workers, NEW pc \in WorkerPC, Goto(w, pc)
  PROVE  /\ worker' \in [Workers -> Doing]
         /\ worker'[w].pc = pc
         /\ pc # "idle" => worker'[w].event = worker[w].event /\ worker'[w].job = worker[w].job
         /\ \A v \in Workers \ {w} : worker'[v] = worker[v]
<1>1. CASE pc = "idle"
  <2>1. SetWorker(w, IdleWorker) BY <1>1 DEF Goto
  <2>2. worker'[w] = IdleWorker BY <2>1, WorkerSet, IdleIsDoing
  <2>3. worker'[w].pc = "idle" BY <2>2 DEF IdleWorker
  <2> QED BY <1>1, <2>1, <2>3, WorkerSet, IdleIsDoing
<1>2. CASE pc # "idle"
  <2> DEFINE r == [worker[w] EXCEPT !.pc = pc]
  <2>1. SetWorker(w, r) BY <1>2 DEF Goto
  <2>2. worker[w] \in Doing BY DEF TypeOK, Doing
  <2>3. /\ r \in Doing /\ r.pc = pc
        /\ r.event = worker[w].event /\ r.job = worker[w].job
    BY <2>2 DEF Doing
  <2> HIDE DEF r
  <2> QED BY <2>1, <2>3, WorkerSet
<1> QED BY <1>1, <1>2

(* Steps in which a worker is not writing before or after.                 *)
LEMMA AwayFromTheLedger ==
  ASSUME PaymentsInv, TypeOK', NEW w \in Workers,
         \A v \in Workers \ {w} : worker'[v] = worker[v],
         worker'[w].pc \in {"apply", "ack", "fail"} => worker'[w].event \in Events,
         worker'[w].pc \in {"note", "done", "undone"} => worker'[w].job \in Jobs,
         worker[w].pc # "write", worker'[w].pc # "write",
         UNCHANGED <<lock, entries>>
  PROVE  PaymentsInv'
<1>1. CarriesTrue'
  BY DEF PaymentsInv, CarriesTrue
<1>2. ~WritesLedger(w) /\ ~WritesLedger(w)'
  BY DEF WritesLedger
<1>3. \A v \in Workers : WritesLedger(v)' <=> WritesLedger(v)
  BY <1>2 DEF WritesLedger
<1>4. LockTrue'
  BY <1>3 DEF PaymentsInv, LockTrue
<1>5. FoundTrue' /\ BookedOnce'
  BY <1>2, <1>3 DEF PaymentsInv, FoundTrue, BookedOnce
<1> QED BY <1>1, <1>4, <1>5 DEF PaymentsInv

LEMMA ReceiveKeeps ==
  ASSUME PaymentsInv, NEW w \in Workers, NEW e \in Events, Receive(w, e)
  PROVE  PaymentsInv'
<1> DEFINE r == [IdleWorker EXCEPT !.pc = "apply", !.event = e]
<1>1. r \in Doing /\ r.pc = "apply" /\ r.event = e
  BY DEF IdleWorker, Doing, WorkerPC
<1>2. SetWorker(w, r) BY DEF Receive
<1> HIDE DEF r
<1>3. /\ worker' \in [Workers -> Doing] /\ worker'[w] = r
      /\ \A v \in Workers \ {w} : worker'[v] = worker[v]
  BY <1>1, <1>2, WorkerSet DEF PaymentsInv
<1>4. inbox' \in [Events -> Claim]
  BY ClaimShapes DEF Receive, PaymentsInv, TypeOK
<1>5. UNCHANGED <<storevars, checkoutvars, jobs, lock, mishaps>> /\ worker[w].pc = "idle"
  BY DEF Receive, At
<1>6. TypeOK'
  BY <1>3, <1>4, <1>5 DEF PaymentsInv, TypeOK, Doing, storevars, checkoutvars
<1> QED BY <1>1, <1>3, <1>5, <1>6, AwayFromTheLedger DEF storevars

LEMMA ApplyKeeps ==
  ASSUME PaymentsAssumption, PaymentsInv, NEW w \in Workers, Apply(w)
  PROVE  PaymentsInv'
<1>1. /\ worker[w].pc = "apply" /\ worker[w].event \in Events
      /\ UNCHANGED <<cancelling, entries, dispatch, checkoutvars, inbox, lock>>
  BY DEF Apply, At, PaymentsInv, CarriesTrue
<1>2. PICK pc \in {"ack", "fail"} : Goto(w, pc)
  BY DEF Apply
<1>3. /\ worker' \in [Workers -> Doing] /\ worker'[w].pc = pc
      /\ worker'[w].event = worker[w].event
      /\ \A v \in Workers \ {w} : worker'[v] = worker[v]
  BY <1>2, MovesOn DEF PaymentsInv, WorkerPC
<1>4. order' \in [status : Statuses, intent : Keys \cup {NoKey}, reserved : BOOLEAN]
  BY DEF Apply, PaymentsInv, TypeOK, Statuses
<1>5. jobs' \in [Jobs -> Claim]
  BY ClaimShapes DEF Apply, PaymentsInv, TypeOK, Enqueued
<1>6. mishaps' \in 0..MaxMishaps
  BY MishapsStayBounded DEF Apply, PaymentsInv
<1>7. TypeOK'
  BY <1>1, <1>3, <1>4, <1>5, <1>6 DEF PaymentsInv, TypeOK, Doing, checkoutvars
<1> QED BY <1>1, <1>2, <1>3, <1>7, AwayFromTheLedger

LEMMA AnswerKeeps ==
  ASSUME PaymentsInv, NEW w \in Workers, Ack(w) \/ Fail(w)
  PROVE  PaymentsInv'
<1>1. /\ worker[w].pc \in {"ack", "fail"} /\ worker[w].event \in Events
      /\ UNCHANGED <<storevars, checkoutvars, jobs, lock, mishaps>>
  BY DEF Ack, Fail, At, PaymentsInv, CarriesTrue
<1>2. PICK pc \in {"drain", "idle"} : Goto(w, pc)
  BY DEF Ack, Fail
<1>3. /\ worker' \in [Workers -> Doing] /\ worker'[w].pc = pc
      /\ \A v \in Workers \ {w} : worker'[v] = worker[v]
  BY <1>2, MovesOn DEF PaymentsInv, WorkerPC
<1>4. inbox' \in [Events -> Claim]
  BY <1>1, ClaimShapes DEF Ack, Fail, PaymentsInv, TypeOK
<1>5. TypeOK'
  BY <1>1, <1>3, <1>4 DEF PaymentsInv, TypeOK, Doing, checkoutvars, storevars
<1> QED BY <1>1, <1>2, <1>3, <1>5, AwayFromTheLedger DEF storevars

LEMMA DrainKeeps ==
  ASSUME PaymentsInv, NEW w \in Workers, Drain(w)
  PROVE  PaymentsInv'
<1> DEFINE r == IF Open = {} THEN IdleWorker
                ELSE [IdleWorker EXCEPT !.pc = "jobs", !.todo = Open]
<1>1. r \in Doing /\ r.pc \in {"idle", "jobs"}
  BY DEF IdleWorker, Doing, WorkerPC, Open
<1>2. SetWorker(w, r) /\ worker[w].pc \in {"drain", "idle"}
      /\ UNCHANGED <<storevars, checkoutvars, inbox, lock, mishaps>>
  BY DEF Drain, At
<1> HIDE DEF r
<1>3. /\ worker' \in [Workers -> Doing] /\ worker'[w] = r
      /\ \A v \in Workers \ {w} : worker'[v] = worker[v]
  BY <1>1, <1>2, WorkerSet DEF PaymentsInv
<1>4. jobs' \in [Jobs -> Claim]
  BY ClaimShapes DEF Drain, PaymentsInv, TypeOK
<1>5. TypeOK'
  BY <1>2, <1>3, <1>4 DEF PaymentsInv, TypeOK, Doing, checkoutvars, storevars
<1> QED BY <1>1, <1>2, <1>3, <1>5, AwayFromTheLedger DEF storevars

LEMMA MarkJobKeeps ==
  ASSUME PaymentsInv, NEW w \in Workers, MarkJob(w)
  PROVE  PaymentsInv'
<1> DEFINE rest == worker[w].todo \ {worker[w].job}
           r == IF rest = {} THEN IdleWorker
                ELSE [IdleWorker EXCEPT !.pc = "jobs", !.todo = rest]
<1>1. r \in Doing /\ r.pc \in {"idle", "jobs"}
  <2>1. rest \in SUBSET Jobs BY DEF PaymentsInv, TypeOK
  <2> HIDE DEF rest
  <2> QED BY <2>1 DEF IdleWorker, Doing, WorkerPC
<1>2. SetWorker(w, r) /\ worker[w].pc \in {"done", "undone"}
      /\ UNCHANGED <<storevars, checkoutvars, inbox, lock, mishaps>>
  BY DEF MarkJob, At
<1> HIDE DEF r
<1>3. /\ worker' \in [Workers -> Doing] /\ worker'[w] = r
      /\ \A v \in Workers \ {w} : worker'[v] = worker[v]
  BY <1>1, <1>2, WorkerSet DEF PaymentsInv
<1>4. jobs' \in [Jobs -> Claim]
  <2>1. worker[w].job \in Jobs BY <1>2 DEF PaymentsInv, CarriesTrue
  <2> QED BY <2>1, ClaimShapes DEF MarkJob, PaymentsInv, TypeOK
<1>5. TypeOK'
  BY <1>2, <1>3, <1>4 DEF PaymentsInv, TypeOK, Doing, checkoutvars, storevars
<1> QED BY <1>1, <1>2, <1>3, <1>5, AwayFromTheLedger DEF storevars

-----------------------------------------------------------------------------
(* The steps that take the lock and give it back.                          *)
LEMMA BeginJobKeeps ==
  ASSUME PaymentsAssumption, PaymentsInv, NEW w \in Workers, NEW j \in Jobs, BeginJob(w, j)
  PROVE  PaymentsInv'
<1> DEFINE r == [worker[w] EXCEPT !.pc = "write", !.job = j, !.found = ToDo(j)]
<1>1. r \in Doing /\ r.pc = "write" /\ r.job = j /\ r.found = ToDo(j)
  <2>1. worker[w] \in Doing BY DEF PaymentsInv, TypeOK, Doing
  <2>2. ToDo(j) \in BOOLEAN BY ToDoIsBoolean
  <2> QED BY <2>1, <2>2 DEF Doing, WorkerPC
<1>2. /\ SetWorker(w, r) /\ worker[w].pc = "jobs"
      /\ j[2] = "ledger" => lock = Nobody
      /\ lock' = IF j[2] = "ledger" THEN w ELSE lock
      /\ UNCHANGED <<storevars, checkoutvars, inbox, jobs, mishaps>>
  BY DEF BeginJob, At, LocksOrder, Unlocked
<1> HIDE DEF r
<1>3. /\ worker' \in [Workers -> Doing] /\ worker'[w] = r
      /\ \A v \in Workers \ {w} : worker'[v] = worker[v]
  BY <1>1, <1>2, WorkerSet DEF PaymentsInv
<1>4. TypeOK'
  BY <1>2, <1>3 DEF PaymentsInv, TypeOK, Doing, checkoutvars, storevars
<1>5. CarriesTrue'
  BY <1>1, <1>3 DEF PaymentsInv, CarriesTrue
<1>6. /\ \A v \in Workers \ {w} : WritesLedger(v)' <=> WritesLedger(v)
      /\ WritesLedger(w)' <=> j[2] = "ledger"
      /\ ~WritesLedger(w)
  BY <1>1, <1>2, <1>3 DEF WritesLedger
<1>7. LockTrue'
  BY <1>2, <1>6 DEF PaymentsInv, LockTrue, PaymentsAssumption
<1>8. FoundTrue'
  <2>1. ASSUME NEW v \in Workers, WritesLedger(v)', worker'[v].found
        PROVE  entries'[EventOf(worker'[v].job)] = 0
    <3>1. CASE v = w
      BY <1>1, <1>2, <1>3, <1>6, <2>1, <3>1 DEF ToDo, storevars
    <3>2. CASE v # w
      BY <1>2, <1>3, <1>6, <2>1, <3>2 DEF PaymentsInv, FoundTrue, storevars
    <3> QED BY <3>1, <3>2
  <2> QED BY <2>1 DEF FoundTrue
<1> QED BY <1>2, <1>4, <1>5, <1>7, <1>8 DEF PaymentsInv, BookedOnce, storevars

(* Whoever stops writing leaves the lock to nobody.                        *)
LEMMA LetsGo ==
  ASSUME PaymentsAssumption, PaymentsInv, NEW w \in Workers, Unlock(w),
         worker'[w].pc # "write", \A v \in Workers \ {w} : worker'[v] = worker[v]
  PROVE  /\ LockTrue' /\ ~WritesLedger(w)'
         /\ \A v \in Workers \ {w} : WritesLedger(v)' <=> WritesLedger(v)
<1>1. /\ ~WritesLedger(w)'
      /\ \A v \in Workers \ {w} : WritesLedger(v)' <=> WritesLedger(v)
  BY DEF WritesLedger
<1>2. LockTrue'
  BY <1>1 DEF PaymentsInv, LockTrue, Unlock, PaymentsAssumption
<1> QED BY <1>1, <1>2

LEMMA WriteLedgerKeeps ==
  ASSUME PaymentsAssumption, PaymentsInv, NEW w \in Workers, WriteLedger(w)
  PROVE  PaymentsInv'
<1> DEFINE j == worker[w].job
           e == EventOf(j)
           appends == worker[w].found /\ j[2] = "ledger"
<1>1. /\ worker[w].pc = "write" /\ j \in Jobs /\ e \in Events
  BY JobParts DEF WriteLedger, At, PaymentsInv, CarriesTrue
<1>2. PICK pc \in {"done", "undone"} : Goto(w, pc)
  BY DEF WriteLedger
<1>3. /\ worker' \in [Workers -> Doing] /\ worker'[w].pc = pc /\ worker'[w].job = j
      /\ \A v \in Workers \ {w} : worker'[v] = worker[v]
  BY <1>2, MovesOn DEF PaymentsInv, WorkerPC
<1>4. /\ \/ entries' = entries
         \/ appends /\ entries' = [entries EXCEPT ![e] = @ + 1]
      /\ Unlock(w)
      /\ UNCHANGED <<order, cancelling, dispatch, checkoutvars, inbox, jobs>>
  BY DEF WriteLedger
<1>5. appends => WritesLedger(w) /\ entries[e] = 0
  BY <1>1 DEF WritesLedger, PaymentsInv, FoundTrue
<1>6. /\ LockTrue' /\ ~WritesLedger(w)'
      /\ \A v \in Workers \ {w} : WritesLedger(v)' <=> WritesLedger(v)
  BY <1>2, <1>3, <1>4, LetsGo
<1>7. TypeOK'
  <2>1. entries' \in [Events -> Nat]
    BY <1>1, <1>4 DEF PaymentsInv, TypeOK
  <2>2. mishaps' \in 0..MaxMishaps
    BY MishapsStayBounded DEF WriteLedger, PaymentsInv
  <2>3. lock' \in Workers \cup {Nobody}
    BY <1>4 DEF Unlock, PaymentsInv, TypeOK
  <2> QED BY <1>3, <1>4, <2>1, <2>2, <2>3 DEF PaymentsInv, TypeOK, Doing, checkoutvars
<1>8. CarriesTrue'
  BY <1>1, <1>2, <1>3 DEF PaymentsInv, CarriesTrue
<1>9. BookedOnce'
  BY <1>1, <1>4, <1>5 DEF PaymentsInv, BookedOnce, TypeOK
<1>10. FoundTrue'
  <2>1. ASSUME NEW v \in Workers, WritesLedger(v)', worker'[v].found
        PROVE  entries'[EventOf(worker'[v].job)] = 0
    <3>1. v # w /\ WritesLedger(v) /\ worker'[v] = worker[v]
      BY <1>3, <1>6, <2>1
    <3>2. ~appends
      BY <1>5, <3>1 DEF PaymentsInv, LockTrue
    <3> QED BY <1>4, <2>1, <3>1, <3>2 DEF PaymentsInv, FoundTrue
  <2> QED BY <2>1 DEF FoundTrue
<1> QED BY <1>6, <1>7, <1>8, <1>9, <1>10 DEF PaymentsInv

(* The two steps of a dispatch hold no lock and write no entry.             *)
LEMMA DispatchKeeps ==
  ASSUME PaymentsAssumption, PaymentsInv, NEW w \in Workers,
         DispatchOrder(w) \/ NoteDispatch(w)
  PROVE  PaymentsInv'
<1> DEFINE j == worker[w].job
<1>1. /\ j \in Jobs /\ ~WritesLedger(w)
      /\ UNCHANGED <<order, cancelling, entries, checkoutvars, inbox, jobs, lock>>
  BY JobParts DEF DispatchOrder, NoteDispatch, At, PaymentsInv, CarriesTrue, WritesLedger
<1>2. PICK pc \in {"note", "done", "undone"} : Goto(w, pc)
  BY DEF DispatchOrder, NoteDispatch
<1>3. /\ worker' \in [Workers -> Doing] /\ worker'[w].pc = pc /\ worker'[w].job = j
      /\ \A v \in Workers \ {w} : worker'[v] = worker[v]
  BY <1>2, MovesOn DEF PaymentsInv, WorkerPC
<1>4. dispatch' \in Dispatch
  BY DEF DispatchOrder, NoteDispatch, Queues, Holds, Notes, PaymentsInv, TypeOK, Dispatch
<1>5. mishaps' \in 0..MaxMishaps
  BY MishapsStayBounded DEF DispatchOrder, NoteDispatch, Queues, Holds, Notes, PaymentsInv
<1>6. TypeOK'
  BY <1>1, <1>3, <1>4, <1>5 DEF PaymentsInv, TypeOK, Doing, checkoutvars
<1>7. CarriesTrue'
  BY <1>1, <1>2, <1>3 DEF PaymentsInv, CarriesTrue
<1>8. \A v \in Workers : WritesLedger(v)' <=> WritesLedger(v)
  BY <1>1, <1>2, <1>3 DEF WritesLedger
<1>9. LockTrue' /\ BookedOnce'
  BY <1>1, <1>8 DEF PaymentsInv, LockTrue, BookedOnce
<1>10. FoundTrue'
  BY <1>1, <1>3, <1>8 DEF PaymentsInv, FoundTrue
<1> QED BY <1>6, <1>7, <1>9, <1>10 DEF PaymentsInv

LEMMA DieKeeps ==
  ASSUME PaymentsAssumption, PaymentsInv, NEW w \in Workers, Die(w)
  PROVE  PaymentsInv'
<1>1. /\ Goto(w, "idle") /\ Unlock(w) /\ Mishap
      /\ UNCHANGED <<storevars, checkoutvars, inbox, jobs>>
  BY DEF Die
<1>2. /\ worker' \in [Workers -> Doing] /\ worker'[w].pc = "idle"
      /\ \A v \in Workers \ {w} : worker'[v] = worker[v]
  BY <1>1, MovesOn DEF PaymentsInv, WorkerPC
<1>3. /\ LockTrue' /\ ~WritesLedger(w)'
      /\ \A v \in Workers \ {w} : WritesLedger(v)' <=> WritesLedger(v)
  BY <1>1, <1>2, LetsGo
<1>4. TypeOK'
  <2>1. lock' \in Workers \cup {Nobody} /\ mishaps' \in 0..MaxMishaps
    BY <1>1, MishapsStayBounded DEF Unlock, PaymentsInv, TypeOK
  <2> QED BY <1>1, <1>2, <2>1 DEF PaymentsInv, TypeOK, Doing, checkoutvars, storevars
<1>5. CarriesTrue' /\ FoundTrue' /\ BookedOnce'
  BY <1>1, <1>2, <1>3 DEF PaymentsInv, CarriesTrue, FoundTrue, BookedOnce, storevars
<1> QED BY <1>3, <1>4, <1>5 DEF PaymentsInv

LEMMA PaymentsInvStep ==
  ASSUME PaymentsAssumption, PaymentsInv, [Next]_vars
  PROVE  PaymentsInv'
<1>1. CASE UNCHANGED vars
  BY <1>1 DEF vars, PaymentsInv, TypeOK, CarriesTrue, LockTrue, FoundTrue, BookedOnce,
              WritesLedger
<1>2. ASSUME NEW k \in Keys,
             Initiate(k) \/ CheckoutStep(k) \/ Reconcile(k) \/ Capture(k) \/ Decline(k)
      PROVE  PaymentsInv'
  BY <1>2, CheckoutKeepsTypes, CarriedOver DEF PaymentsInv
<1>3. CASE ReadForCancel \/ Cancel \/ MarkPaid \/ ApproveDispatch
  BY <1>3, OperatorKeepsTypes, CarriedOver DEF PaymentsInv
<1>4. ASSUME NEW w \in Workers, WorkerStep(w) PROVE PaymentsInv'
  BY <1>4, ReceiveKeeps, ApplyKeeps, AnswerKeeps, DrainKeeps, BeginJobKeeps, WriteLedgerKeeps,
     DispatchKeeps, MarkJobKeeps DEF WorkerStep
<1>5. ASSUME NEW w \in Workers, Die(w) PROVE PaymentsInv'
  BY <1>5, DieKeeps
<1>6. CASE LeaseEnds
  BY <1>6, LeaseKeepsTypes, CarriedOver DEF PaymentsInv
<1> QED BY <1>1, <1>2, <1>3, <1>4, <1>5, <1>6 DEF Next

LEMMA PaymentsInvariant == Spec => []PaymentsInv
<1>1. Init => PaymentsInv BY PaymentsInvInitially, PaymentsAssumption
<1>2. PaymentsInv /\ [Next]_vars => PaymentsInv' BY PaymentsInvStep, PaymentsAssumption
<1> QED BY <1>1, <1>2, PTL DEF Spec

-----------------------------------------------------------------------------
(* Every step leaves rows, claims and program counters of their types.      *)
THEOREM TypeCorrect == Spec => []TypeOK
<1>1. PaymentsInv => TypeOK BY DEF PaymentsInv
<1> QED BY <1>1, PaymentsInvariant, PTL

(* The ledger gets one entry of an event, however often it is delivered and *)
(* however many workers drive its job at a time: who appends holds the row  *)
(* of the order since it read the ledger.                                  *)
THEOREM BookedAtMostOnce == Spec => []BookedOnce
<1>1. PaymentsInv => BookedOnce BY DEF PaymentsInv
<1> QED BY <1>1, PaymentsInvariant, PTL

(* Only an order that is neither paid nor open to payment lacks its stock:  *)
(* cancellation and decline both require 'created' as they release it.      *)
StockKept == order.status \in {"created", "paid"} => order.reserved

LEMMA OrderChanges ==
  ASSUME TypeOK, [Next]_vars
  PROVE  \/ order'.status = order.status /\ order'.reserved = order.reserved
         \/ /\ order.status = "created"
            /\ \/ order'.status = "paid" /\ order'.reserved = order.reserved
               \/ order'.status \in {"payment_failed", "cancelled"}
<1> USE DEF storevars
<1>1. CASE UNCHANGED vars BY <1>1 DEF vars
<1>2. ASSUME NEW k \in Keys,
             Initiate(k) \/ CheckoutStep(k) \/ Reconcile(k) \/ Capture(k) \/ Decline(k)
      PROVE  order'.status = order.status /\ order'.reserved = order.reserved
  BY <1>2 DEF Initiate, CheckoutStep, CreateIntent, MarkCreated, Associate, DieInCheckout,
              Reconcile, Capture, Decline, TypeOK
<1>3. CASE ReadForCancel BY <1>3 DEF ReadForCancel
<1>4. CASE Cancel BY <1>4 DEF Cancel, CancelWins, TypeOK
<1>5. CASE MarkPaid BY <1>5 DEF MarkPaid, TypeOK
<1>6. CASE ApproveDispatch BY <1>6 DEF ApproveDispatch
<1>7. ASSUME NEW w \in Workers, Apply(w)
      PROVE  \/ order' = order
             \/ /\ order.status = "created"
                /\ \/ order'.status = "paid" /\ order'.reserved = order.reserved
                   \/ order'.status \in {"payment_failed", "cancelled"}
  BY <1>7 DEF Apply, Matches, TypeOK
<1>8. ASSUME NEW w \in Workers, WorkerStep(w) \/ Die(w), ~Apply(w)
      PROVE  order' = order
  BY <1>8 DEF WorkerStep, Receive, Ack, Fail, Drain, BeginJob, WriteLedger, DispatchOrder,
              NoteDispatch, MarkJob, Die
<1>9. CASE LeaseEnds
  BY <1>9 DEF LeaseEnds, EventLeaseEnds, JobLeaseEnds
<1> QED BY <1>1, <1>2, <1>3, <1>4, <1>5, <1>6, <1>7, <1>8, <1>9 DEF Next

(* A paid order has its stock, whatever cancelled or declined beside it.    *)
THEOREM PaidKeepsItsStock == Spec => []PaidKeepsStock
<1>1. Init => StockKept BY DEF Init, StockKept
<1>2. TypeOK /\ StockKept /\ [Next]_vars => StockKept'
  BY OrderChanges DEF StockKept
<1>3. StockKept => PaidKeepsStock BY DEF StockKept, PaidKeepsStock
<1> QED BY <1>1, <1>2, <1>3, TypeCorrect, PTL DEF Spec

(* Nothing that comes late takes a paid order back.                        *)
THEOREM PaidNeverUndone == Spec => PaidStays
<1>1. TypeOK /\ [Next]_vars => [order.status = "paid" => order'.status = "paid"]_order
  BY OrderChanges
<1> QED BY <1>1, TypeCorrect, PTL DEF Spec, PaidStays

=============================================================================
