---------------------------- MODULE RefundsProofs ----------------------------
(***************************************************************************)
(* What Refunds promises whatever is captured, and however many passes,     *)
(* drains, repeated reports and failures there are.                        *)
(***************************************************************************)
EXTENDS Refunds, FiniteSums, SequenceTheorems, TLAPS

-----------------------------------------------------------------------------
(* Requests and approvals take turns, and what is requested fits beside     *)
(* what is approved.                                                       *)
LedgerTrue ==
  /\ approvals <= Len(requested) /\ Len(requested) <= approvals + 1
  /\ approved <= Captured /\ refundable + approved <= Captured
  /\ Len(requested) = approvals + 1 => approved + requested[approvals + 1] <= Captured

(* Executions are of approvals; who works on one has claimed it.           *)
RowsTrue ==
  /\ \A i \in Index : exec[i].state # "none" => i <= approvals
  /\ \A i \in Index :
       exec[i].state \in {"provider_submitted", "settled"} => exec[i].ref = <<i, Nobody>>
  /\ \A x \in Executors :
       executor[x].pc # "idle" => exec[executor[x].row].state \notin {"none", "pending"}

(* What rows, executors and jobs say of refunds is so at the provider.      *)
PaidTrue ==
  /\ \A r \in Refs : refund[r].status # "none" => r[2] = Nobody
  /\ \A i \in Index :
       /\ exec[i].state \in {"none", "pending"} => refund[<<i, Nobody>>].status = "none"
       /\ exec[i].state = "settled" => refund[<<i, Nobody>>].status = "succeeded"
  /\ \A x \in Executors :
       executor[x].pc = "mark" /\ executor[x].answer = "succeeded" =>
         refund[<<executor[x].row, Nobody>>].status = "succeeded"
  /\ \A r \in Refs : due[r] > 0 => refund[r].status = "succeeded"
  /\ \A b \in Bookers :
       booker[b].pc = "book" => booker[b].ref \in Refs /\ refund[booker[b].ref].status = "succeeded"

RefundsInv == TypeOK /\ LedgerTrue /\ RowsTrue /\ PaidTrue

LEMMA IndexRefs ==
  ASSUME NEW i \in Index
  PROVE  /\ <<i, Nobody>> \in Refs /\ <<i, Nobody>> # Manual
         /\ \A j \in Index : <<i, Nobody>> = <<j, Nobody>> => i = j
         /\ i \in Nat /\ i > 0
BY DEF Index, Refs, Manual

LEMMA RefundsInvInitially == ASSUME RefundsAssumption, Init PROVE RefundsInv
<1>1. TypeOK
  <2>1. NoExecution \in Execution
    BY DEF NoExecution, Execution
  <2>2. /\ executor \in [Executors -> [pc : {"idle", "call", "mark"}, row : Index,
                                       answer : {"none", "pending", "succeeded", "failed"}]]
        /\ booker \in [Bookers -> [pc : {"idle", "book"}, ref : Refs \cup {NoRef}, seen : BOOLEAN]]
    BY DEF Init, IdleExecutor, IdleBooker, Index, RefundsAssumption
  <2>3. requested \in Seq(Amounts) BY DEF Init
  <2>4. refund \in [Refs -> [amount : 0..Captured,
                             status : {"none", "pending", "succeeded", "failed"}]]
    BY DEF Init, NoRefund, RefundsAssumption
  <2> QED BY <2>1, <2>2, <2>3, <2>4 DEF Init, TypeOK, RefundsAssumption
<1>2. LedgerTrue BY DEF Init, LedgerTrue, RefundsAssumption
<1>3. RowsTrue BY DEF Init, RowsTrue, NoExecution, IdleExecutor
<1>4. PaidTrue BY IndexRefs DEF Init, PaidTrue, NoExecution, NoRefund, IdleExecutor, IdleBooker
<1> QED BY <1>1, <1>2, <1>3, <1>4 DEF RefundsInv

LEMMA MishapsStayBounded ==
  ASSUME RefundsAssumption, TypeOK, Mishap \/ UNCHANGED mishaps
  PROVE  mishaps' \in 0..MaxMishaps
BY DEF RefundsAssumption, TypeOK, Mishap

-----------------------------------------------------------------------------
(* The ledger.                                                             *)
LEMMA RequestKeeps ==
  ASSUME RefundsAssumption, RefundsInv, NEW a \in Amounts, Request(a)
  PROVE  RefundsInv'
<1> USE DEF approvalvars, bookvars, providervars
<1>1. /\ requested' = Append(requested, a) /\ requested \in Seq(Amounts)
      /\ approvals = Len(requested) /\ a <= refundable
  BY DEF Request, SlotFree, RefundsInv, TypeOK
<1>2. /\ requested' \in Seq(Amounts) /\ Len(requested') = Len(requested) + 1
      /\ requested'[Len(requested) + 1] = a
  BY <1>1, AppendProperties
<1>3. TypeOK' BY <1>2 DEF Request, RefundsInv, TypeOK
<1>4. LedgerTrue'
  <2>1. a \in Int /\ approvals \in Nat /\ approved \in Nat /\ refundable \in Int
    BY DEF Amounts, RefundsInv, TypeOK
  <2> QED BY <1>1, <1>2, <2>1 DEF Request, RefundsInv, LedgerTrue, RefundsAssumption
<1>5. RowsTrue' /\ PaidTrue' BY DEF Request, RefundsInv, RowsTrue, PaidTrue
<1> QED BY <1>3, <1>4, <1>5 DEF RefundsInv

LEMMA LeftToRefund ==
  ASSUME NEW c \in Nat, NEW a \in Nat, NEW b \in Nat, a <= c
  PROVE  LET left == c - (IF a > b THEN a ELSE b) IN left \in Int /\ left + a <= c
<1>1. CASE a > b BY <1>1
<1>2. CASE ~(a > b) BY <1>2
<1> QED BY <1>1, <1>2

LEMMA ApproveKeeps ==
  ASSUME RefundsAssumption, RefundsInv, NEW n \in 0..approvals, Approve(n)
  PROVE  RefundsInv'
<1> USE DEF bookvars, providervars
<1>1. /\ n = approvals /\ n < Len(requested) /\ approvals' = approvals + 1
      /\ approved' = approved + requested[n + 1]
      /\ refundable' = Captured - (IF approved' > settled THEN approved' ELSE settled)
      /\ exec' = IF exec[n + 1].state = "none"
                 THEN [exec EXCEPT ![n + 1].state = "pending"] ELSE exec
      /\ UNCHANGED <<requested, bookvars, providervars, executor, mishaps>>
  BY DEF Approve, SlotFree
<1>2. /\ approvals \in Nat /\ approved \in Nat /\ settled \in Nat /\ Captured \in Nat
      /\ requested \in Seq(Amounts) /\ Len(requested) = approvals + 1
      /\ approved + requested[approvals + 1] <= Captured
  BY <1>1, LenProperties DEF RefundsInv, TypeOK, LedgerTrue, RefundsAssumption
<1>3. requested[approvals + 1] \in Amounts
  BY <1>2, ElementOfSeq
<1>4. approved' \in Nat /\ approved' <= Captured /\ refundable' \in Int
      /\ refundable' + approved' <= Captured
  <2>0. Captured \in Nat /\ settled \in Nat BY <1>2
  <2>1. requested[approvals + 1] \in Nat BY <1>2, <1>3 DEF Amounts
  <2>2. approved' = approved + requested[approvals + 1] BY <1>1
  <2>3. approved' \in Nat /\ approved' <= Captured BY <1>2, <2>1, <2>2
  <2>4. refundable' = Captured - (IF approved' > settled THEN approved' ELSE settled) BY <1>1
  <2> QED BY <2>0, <2>3, <2>4, LeftToRefund
<1>5. /\ exec' \in [Index -> Execution]
      /\ \A i \in Index : \/ exec'[i] = exec[i]
                          \/ /\ i = n + 1 /\ exec[i].state = "none"
                             /\ exec'[i] = [exec[i] EXCEPT !.state = "pending"]
      /\ \A i \in Index : exec'[i].state # exec[i].state =>
                            i = n + 1 /\ exec[i].state = "none" /\ exec'[i].state = "pending"
      /\ \A i \in Index : exec'[i].ref = exec[i].ref
  <2>1. exec \in [Index -> Execution] BY DEF RefundsInv, TypeOK
  <2>2. ASSUME NEW i \in Index
        PROVE  /\ [exec[i] EXCEPT !.state = "pending"] \in Execution
               /\ [exec[i] EXCEPT !.state = "pending"].state = "pending"
               /\ [exec[i] EXCEPT !.state = "pending"].ref = exec[i].ref
    <3>1. exec[i] \in Execution BY <2>1
    <3> QED BY <3>1 DEF Execution
  <2>3. CASE exec[n + 1].state = "none"
    <3>1. exec' = [exec EXCEPT ![n + 1] = [exec[n + 1] EXCEPT !.state = "pending"]]
      BY <1>1, <2>3
    <3> QED BY <2>1, <2>2, <2>3, <3>1
  <2>4. CASE exec[n + 1].state # "none"
    BY <1>1, <2>1, <2>4
  <2> QED BY <2>3, <2>4
<1>6. TypeOK'
  BY <1>1, <1>2, <1>4, <1>5 DEF RefundsInv, TypeOK
<1>7. LedgerTrue'
  BY <1>1, <1>2, <1>4 DEF LedgerTrue
<1>8. RowsTrue'
  <2>1. \A i \in Index : i \in Nat BY IndexRefs
  <2>2. \A i \in Index : exec'[i].state # "none" => i <= approvals'
    BY <1>1, <1>2, <1>5, <2>1 DEF RefundsInv, RowsTrue
  <2>3. \A x \in Executors : executor[x].row \in Index BY DEF RefundsInv, TypeOK
  <2> QED BY <1>1, <1>5, <2>2, <2>3 DEF RefundsInv, RowsTrue
<1>9. PaidTrue'
  BY <1>1, <1>5 DEF RefundsInv, PaidTrue
<1> QED BY <1>6, <1>7, <1>8, <1>9 DEF RefundsInv

-----------------------------------------------------------------------------
(* The executions.                                                         *)
Executing == [pc : {"idle", "call", "mark"}, row : Index,
              answer : {"none", "pending", "succeeded", "failed"}]

LEMMA ExecutorSet ==
  ASSUME TypeOK, NEW x \in Executors, NEW r \in Executing, SetExecutor(x, r)
  PROVE  /\ executor' \in [Executors -> Executing]
         /\ executor'[x] = r
         /\ \A y \in Executors \ {x} : executor'[y] = executor[y]
BY DEF TypeOK, Executing, SetExecutor

LEMMA IdleIsExecuting ==
  ASSUME RefundsAssumption
  PROVE  IdleExecutor \in Executing /\ IdleExecutor.pc = "idle"
BY DEF IdleExecutor, Executing, Index, RefundsAssumption

(* One row of the executions moves on; the ledger is left alone.            *)
RowSet(i, row) ==
  /\ exec' = [exec EXCEPT ![i] = row]
  /\ UNCHANGED <<requested, approvalvars, bookvars, providervars>>

LEMMA RowMoves ==
  ASSUME RefundsAssumption, RefundsInv, NEW i \in Index, NEW row \in Execution, RowSet(i, row),
         exec[i].state \notin {"none", "pending"} => row.state \notin {"none", "pending"},
         row.state # "none" => exec[i].state # "none",
         row.state \in {"provider_submitted", "settled"} => row.ref = <<i, Nobody>>,
         row.state = "settled" => refund[<<i, Nobody>>].status = "succeeded",
         executor' \in [Executors -> Executing],
         \A y \in Executors :
           \/ executor'[y].pc = "idle"
           \/ executor'[y] = executor[y]
           \/ executor'[y].pc = "call" /\ executor'[y].row = i /\ row.state = "processing",
         mishaps' \in 0..MaxMishaps
  PROVE  RefundsInv'
<1> USE DEF approvalvars, bookvars, providervars
<1>1. /\ exec \in [Index -> Execution] /\ exec' \in [Index -> Execution]
      /\ exec'[i] = row /\ \A j \in Index \ {i} : exec'[j] = exec[j]
      /\ UNCHANGED <<requested, approvalvars, bookvars, providervars>>
  BY DEF RowSet, RefundsInv, TypeOK
<1>2. \A x \in Executors : executor[x].row \in Index
  BY DEF RefundsInv, TypeOK
<1>3. TypeOK'
  BY <1>1 DEF RefundsInv, TypeOK, Executing
<1>4. LedgerTrue'
  BY <1>1 DEF RefundsInv, LedgerTrue
<1>5. RowsTrue'
  BY <1>1, <1>2 DEF RefundsInv, RowsTrue
<1>6. PaidTrue'
  <2>1. \A j \in Index :
          /\ exec'[j].state \in {"none", "pending"} => refund'[<<j, Nobody>>].status = "none"
          /\ exec'[j].state = "settled" => refund'[<<j, Nobody>>].status = "succeeded"
    BY <1>1 DEF RefundsInv, PaidTrue
  <2>2. \A x \in Executors :
          executor'[x].pc = "mark" /\ executor'[x].answer = "succeeded" =>
            refund'[<<executor'[x].row, Nobody>>].status = "succeeded"
    <3>1. ASSUME NEW x \in Executors, executor'[x].pc = "mark"
          PROVE  executor'[x] = executor[x]
      BY <3>1
    <3>2. refund' = refund BY <1>1
    <3>3. \A x \in Executors :
            executor[x].pc = "mark" /\ executor[x].answer = "succeeded" =>
              refund[<<executor[x].row, Nobody>>].status = "succeeded"
      BY DEF RefundsInv, PaidTrue
    <3> HIDE DEF providervars
    <3> QED BY <3>1, <3>2, <3>3
  <2> QED BY <1>1, <2>1, <2>2 DEF RefundsInv, PaidTrue
<1> QED BY <1>3, <1>4, <1>5, <1>6 DEF RefundsInv

LEMMA ClaimKeeps ==
  ASSUME RefundsAssumption, RefundsInv, NEW x \in Executors, NEW i \in Index, Claim(x, i)
  PROVE  RefundsInv'
<1> DEFINE row == [exec[i] EXCEPT !.state = "processing", !.by = x, !.expired = FALSE]
           r == [IdleExecutor EXCEPT !.pc = "call", !.row = i]
<1>1. exec[i] \in Execution /\ exec[i].state \in {"pending", "failed", "processing"}
  BY DEF RefundsInv, TypeOK, Claim, Selectable
<1>2. row \in Execution /\ row.state = "processing"
  BY <1>1 DEF Execution
<1>3. r \in Executing /\ r.pc = "call" /\ r.row = i
  BY DEF IdleExecutor, Executing
<1>4. RowSet(i, row) /\ SetExecutor(x, r) /\ UNCHANGED mishaps
  BY DEF Claim, RowSet
<1> HIDE DEF row, r
<1>5. /\ executor' \in [Executors -> Executing] /\ executor'[x] = r
      /\ \A y \in Executors \ {x} : executor'[y] = executor[y]
  BY <1>3, <1>4, ExecutorSet DEF RefundsInv
<1>6. mishaps' \in 0..MaxMishaps BY <1>4, MishapsStayBounded DEF RefundsInv
<1> QED BY <1>1, <1>2, <1>3, <1>4, <1>5, <1>6, RowMoves

LEMMA LeaseAndPermitKeep ==
  ASSUME RefundsAssumption, RefundsInv, NEW i \in Index, LeaseEnds(i) \/ PermitEnds(i)
  PROVE  RefundsInv'
<1>1. PICK row \in {[exec[i] EXCEPT !.expired = TRUE], [exec[i] EXCEPT !.permit = FALSE]} :
        RowSet(i, row) /\ UNCHANGED executor
  BY DEF LeaseEnds, PermitEnds, RowSet
<1>2. exec[i] \in Execution /\ executor \in [Executors -> Executing]
  BY DEF RefundsInv, TypeOK, Executing
<1>3. row \in Execution /\ row.state = exec[i].state /\ row.ref = exec[i].ref
  BY <1>2 DEF Execution
<1>4. mishaps' \in 0..MaxMishaps
  BY MishapsStayBounded DEF RefundsInv, LeaseEnds, PermitEnds
<1>5. /\ exec[i].state \in {"provider_submitted", "settled"} => exec[i].ref = <<i, Nobody>>
      /\ exec[i].state = "settled" => refund[<<i, Nobody>>].status = "succeeded"
  BY DEF RefundsInv, RowsTrue, PaidTrue
<1> QED BY <1>1, <1>2, <1>3, <1>4, <1>5, RowMoves

LEMMA DieExecutingKeeps ==
  ASSUME RefundsAssumption, RefundsInv, NEW x \in Executors, DieExecuting(x)
  PROVE  RefundsInv'
<1>1. /\ SetExecutor(x, IdleExecutor) /\ Mishap
      /\ UNCHANGED <<requested, approvalvars, bookvars, exec, providervars>>
  BY DEF DieExecuting
<1>2. /\ executor' \in [Executors -> Executing] /\ executor'[x].pc = "idle"
      /\ \A y \in Executors \ {x} : executor'[y] = executor[y]
  BY <1>1, ExecutorSet, IdleIsExecuting DEF RefundsInv
<1>3. mishaps' \in 0..MaxMishaps BY <1>1, MishapsStayBounded DEF RefundsInv
<1>4. TypeOK'
  BY <1>1, <1>2, <1>3 DEF RefundsInv, TypeOK, Executing, approvalvars, bookvars, providervars
<1>5. LedgerTrue' BY <1>1 DEF RefundsInv, LedgerTrue, approvalvars
<1>6. RowsTrue' BY <1>1, <1>2 DEF RefundsInv, RowsTrue, approvalvars
<1>7. PaidTrue' BY <1>1, <1>2 DEF RefundsInv, PaidTrue, bookvars, providervars
<1> QED BY <1>4, <1>5, <1>6, <1>7 DEF RefundsInv

LEMMA MarkKeeps ==
  ASSUME RefundsAssumption, RefundsInv, NEW x \in Executors, Mark(x)
  PROVE  RefundsInv'
<1> DEFINE i == executor[x].row
           Marked(state) == [exec[i] EXCEPT !.state = state, !.by = Nobody, !.expired = FALSE]
           Referred(state) == [Marked(state) EXCEPT !.ref = <<i, Nobody>>]
           answer == executor[x].answer
           row == IF ~Owns(x, i) THEN exec[i]
                  ELSE IF answer = "failed" THEN Marked("failed")
                  ELSE Referred(IF answer = "succeeded" THEN "settled" ELSE "provider_submitted")
<1>1. /\ i \in Index /\ exec \in [Index -> Execution] /\ exec[i] \in Execution
      /\ executor[x].pc = "mark" /\ <<i, Nobody>> \in Refs
  BY IndexRefs DEF RefundsInv, TypeOK, Mark, At
<1>2. RowSet(i, row) /\ SetExecutor(x, IdleExecutor) /\ UNCHANGED mishaps
  <2>1. exec = [exec EXCEPT ![i] = exec[i]] BY <1>1
  <2> QED BY <2>1 DEF Mark, RowSet, KeyOf
<1>3. /\ exec[i].state \notin {"none", "pending"}
      /\ exec[i].state \in {"provider_submitted", "settled"} => exec[i].ref = <<i, Nobody>>
      /\ exec[i].state = "settled" => refund[<<i, Nobody>>].status = "succeeded"
      /\ answer = "succeeded" => refund[<<i, Nobody>>].status = "succeeded"
  BY <1>1 DEF RefundsInv, RowsTrue, PaidTrue
<1>4. /\ Marked("failed") \in Execution /\ Marked("failed").state = "failed"
      /\ \A state \in {"settled", "provider_submitted"} :
           /\ Referred(state) \in Execution
           /\ Referred(state).state = state /\ Referred(state).ref = <<i, Nobody>>
  BY <1>1 DEF Execution
<1> HIDE DEF i, Marked, Referred, answer
<1>5. /\ row \in Execution /\ row.state \notin {"none", "pending"}
      /\ row.state \in {"provider_submitted", "settled"} => row.ref = <<i, Nobody>>
      /\ row.state = "settled" => refund[<<i, Nobody>>].status = "succeeded"
  BY <1>1, <1>3, <1>4
<1> HIDE DEF row
<1>6. /\ executor' \in [Executors -> Executing] /\ executor'[x].pc = "idle"
      /\ \A y \in Executors \ {x} : executor'[y] = executor[y]
  BY <1>2, ExecutorSet, IdleIsExecuting DEF RefundsInv
<1>7. mishaps' \in 0..MaxMishaps BY <1>2, MishapsStayBounded DEF RefundsInv
<1> QED BY <1>1, <1>2, <1>3, <1>5, <1>6, <1>7, RowMoves

-----------------------------------------------------------------------------
(* The provider.                                                           *)
Refunding == [amount : 0..Captured, status : {"none", "pending", "succeeded", "failed"}]

(* Refunds are made for rows that were claimed, and end once.               *)
LEMMA ProviderMoves ==
  ASSUME RefundsAssumption, RefundsInv,
         refund' \in [Refs -> Refunding],
         \A r \in Refs :
           \/ refund'[r] = refund[r]
           \/ /\ refund[r].status \in {"none", "pending"} /\ refund'[r].status # "none"
              /\ r[2] = Nobody
              /\ \A i \in Index : r = <<i, Nobody>> => exec[i].state \notin {"none", "pending"},
         due' \in [Refs -> Nat],
         \A r \in Refs : due'[r] > 0 => due[r] > 0 \/ refund'[r].status = "succeeded",
         UNCHANGED <<requested, approvalvars, bookvars, exec>>,
         executor' \in [Executors -> Executing],
         \A x \in Executors :
           \/ executor'[x] = executor[x]
           \/ /\ executor[x].pc = "call" /\ executor'[x].row = executor[x].row
              /\ executor'[x].answer = "succeeded" =>
                   refund'[<<executor[x].row, Nobody>>].status = "succeeded",
         mishaps' \in 0..MaxMishaps
  PROVE  RefundsInv'
<1> USE DEF approvalvars, bookvars
<1>1. TypeOK' BY DEF RefundsInv, TypeOK, Executing, Refunding
<1>2. LedgerTrue' BY DEF RefundsInv, LedgerTrue
<1>3. RowsTrue'
  <2>1. \A x \in Executors :
          executor'[x].pc # "idle" => exec[executor'[x].row].state \notin {"none", "pending"}
    BY DEF RefundsInv, RowsTrue
  <2> QED BY <2>1 DEF RefundsInv, RowsTrue
<1>4. \A r \in Refs : refund[r].status = "succeeded" => refund'[r].status = "succeeded"
  OBVIOUS
<1>5. \A i \in Index :
        /\ exec[i].state \in {"none", "pending"} => refund'[<<i, Nobody>>].status = "none"
        /\ exec[i].state = "settled" => refund'[<<i, Nobody>>].status = "succeeded"
  BY <1>4, IndexRefs DEF RefundsInv, PaidTrue
<1>6. \A x \in Executors :
        executor'[x].pc = "mark" /\ executor'[x].answer = "succeeded" =>
          refund'[<<executor'[x].row, Nobody>>].status = "succeeded"
  <2>1. \A x \in Executors :
          /\ <<executor[x].row, Nobody>> \in Refs
          /\ executor[x].pc = "mark" /\ executor[x].answer = "succeeded" =>
               refund[<<executor[x].row, Nobody>>].status = "succeeded"
    BY IndexRefs DEF RefundsInv, TypeOK, PaidTrue
  <2> SUFFICES ASSUME NEW x \in Executors, executor'[x].pc = "mark",
                      executor'[x].answer = "succeeded"
               PROVE  refund'[<<executor'[x].row, Nobody>>].status = "succeeded"
    OBVIOUS
  <2>2. CASE executor'[x] = executor[x]
    BY <1>4, <2>1, <2>2
  <2>3. CASE executor'[x] # executor[x]
    BY <2>3
  <2> QED BY <2>2, <2>3
<1>7. PaidTrue'
  BY <1>4, <1>5, <1>6 DEF RefundsInv, PaidTrue
<1> QED BY <1>1, <1>2, <1>3, <1>7 DEF RefundsInv

LEMMA MadeRefund ==
  ASSUME RefundsAssumption, RefundsInv, NEW r \in Refs, NEW a \in Amounts,
         NEW status \in {"pending", "succeeded"}, MakeRefund(r, a, status)
  PROVE  /\ refund' \in [Refs -> Refunding] /\ due' \in [Refs -> Nat]
         /\ refund[r].status = "none" /\ refund'[r].status = status
         /\ \A s \in Refs : s # r => refund'[s] = refund[s]
         /\ \A s \in Refs : due'[s] > 0 => due[s] > 0 \/ refund'[s].status = "succeeded"
<1> DEFINE made == [amount |-> a, status |-> status]
<1>1. made \in Refunding /\ made.status = status
  BY DEF Refunding, Amounts, RefundsAssumption
<1>2. /\ refund[r].status = "none" /\ refund' = [refund EXCEPT ![r] = made]
      /\ due' = IF status = "succeeded" THEN [due EXCEPT ![r] = Reports] ELSE due
  BY DEF MakeRefund
<1>3. refund \in [Refs -> Refunding] /\ due \in [Refs -> Nat] /\ Reports \in Nat
  BY DEF RefundsInv, TypeOK, Refunding, RefundsAssumption
<1> HIDE DEF made
<1>4. /\ refund' \in [Refs -> Refunding] /\ refund'[r] = made
      /\ \A s \in Refs : s # r => refund'[s] = refund[s]
  BY <1>1, <1>2, <1>3
<1>5. CASE status = "succeeded" BY <1>1, <1>2, <1>3, <1>4, <1>5
<1>6. CASE status # "succeeded" BY <1>1, <1>2, <1>3, <1>4, <1>6
<1> QED BY <1>5, <1>6

LEMMA CallKeeps ==
  ASSUME RefundsAssumption, RefundsInv, NEW x \in Executors, CallProvider(x)
  PROVE  RefundsInv'
<1> DEFINE i == executor[x].row
           r == <<i, Nobody>>
           Replied(status) == [executor[x] EXCEPT !.pc = "mark", !.answer = status]
<1>1. /\ executor[x].pc = "call" /\ i \in Index /\ r \in Refs /\ r[2] = Nobody
      /\ executor[x] \in Executing
      /\ exec[i].state \notin {"none", "pending"}
      /\ UNCHANGED <<requested, approvalvars, bookvars, exec>>
  BY IndexRefs DEF CallProvider, At, RefundsInv, TypeOK, Executing, RowsTrue
<1>2. requested[i] \in Amounts
  <2>1. /\ i <= approvals /\ i \in Nat /\ i > 0 /\ approvals \in Nat
        /\ approvals <= Len(requested)
        /\ requested \in Seq(Amounts) /\ Len(requested) \in Nat
    BY <1>1, IndexRefs, LenProperties DEF RefundsInv, RowsTrue, LedgerTrue, TypeOK
  <2>2. i \in 1..Len(requested) BY <2>1
  <2> HIDE DEF i
  <2> QED BY <2>1, <2>2, ElementOfSeq
<1>3. PICK status \in {"none", "pending", "succeeded", "failed"} :
        /\ SetExecutor(x, Replied(status))
        /\ \/ \E made \in {"pending", "succeeded"} :
               MakeRefund(r, requested[i], made) /\ status \in {made, "failed"}
           \/ UNCHANGED providervars /\ status \in {refund[r].status, "failed"}
  <2>1. refund[r].status \in {"none", "pending", "succeeded", "failed"}
    BY <1>1 DEF RefundsInv, TypeOK
  <2> QED BY <2>1 DEF CallProvider, KeyOf
<1>4. mishaps' \in 0..MaxMishaps
  BY MishapsStayBounded DEF RefundsInv, CallProvider
<1>5. /\ Replied(status) \in Executing /\ Replied(status).pc = "mark"
      /\ Replied(status).row = i /\ Replied(status).answer = status
  BY <1>1 DEF Executing
<1> HIDE DEF i, r, Replied
<1>6. /\ executor' \in [Executors -> Executing] /\ executor'[x] = Replied(status)
      /\ \A y \in Executors \ {x} : executor'[y] = executor[y]
  BY <1>3, <1>5, ExecutorSet DEF RefundsInv
<1>7. ASSUME /\ refund' \in [Refs -> Refunding] /\ due' \in [Refs -> Nat]
             /\ \A s \in Refs : \/ refund'[s] = refund[s]
                                \/ s = r /\ refund[s].status = "none" /\ refund'[s].status # "none"
             /\ \A s \in Refs : due'[s] > 0 => due[s] > 0 \/ refund'[s].status = "succeeded"
             /\ status = "succeeded" => refund'[r].status = "succeeded"
      PROVE  RefundsInv'
  <2>1. \A j \in Index : r = <<j, Nobody>> => j = i
    BY <1>1, IndexRefs DEF r
  <2>2. \A y \in Executors :
          \/ executor'[y] = executor[y]
          \/ /\ executor[y].pc = "call" /\ executor'[y].row = executor[y].row
             /\ executor'[y].answer = "succeeded" =>
                  refund'[<<executor[y].row, Nobody>>].status = "succeeded"
    BY <1>1, <1>5, <1>6, <1>7 DEF r, i
  <2> QED BY <1>1, <1>4, <1>6, <1>7, <2>1, <2>2, ProviderMoves
<1>8. CASE \E made \in {"pending", "succeeded"} :
             MakeRefund(r, requested[i], made) /\ status \in {made, "failed"}
  <2>1. PICK made \in {"pending", "succeeded"} :
          MakeRefund(r, requested[i], made) /\ status \in {made, "failed"}
    BY <1>8
  <2> QED BY <1>1, <1>2, <1>7, <2>1, MadeRefund
<1>9. CASE UNCHANGED providervars /\ status \in {refund[r].status, "failed"}
  BY <1>1, <1>7, <1>9 DEF providervars, RefundsInv, TypeOK, Refunding
<1> QED BY <1>3, <1>8, <1>9

LEMMA RefundByHandKeeps ==
  ASSUME RefundsAssumption, RefundsInv, NEW a \in Amounts, RefundByHand(a)
  PROVE  RefundsInv'
<1>1. /\ MakeRefund(Manual, a, "succeeded")
      /\ UNCHANGED <<requested, approvalvars, bookvars, exec, executor, mishaps>>
  BY DEF RefundByHand
<1>2. Manual \in Refs /\ Manual[2] = Nobody /\ \A i \in Index : Manual # <<i, Nobody>>
  BY IndexRefs DEF Manual, Refs, RefundsAssumption
<1>3. executor \in [Executors -> Executing] /\ mishaps \in 0..MaxMishaps
  BY DEF RefundsInv, TypeOK, Executing
<1> QED BY <1>1, <1>2, <1>3, MadeRefund, ProviderMoves

LEMMA CompleteKeeps ==
  ASSUME RefundsAssumption, RefundsInv, NEW r \in Refs, Complete(r)
  PROVE  RefundsInv'
<1>1. PICK status \in {"succeeded", "failed"} :
        /\ refund' = [refund EXCEPT ![r] = [refund[r] EXCEPT !.status = status]]
        /\ due' = IF status = "succeeded" THEN [due EXCEPT ![r] = Reports] ELSE due
  BY DEF Complete
<1>2. /\ refund[r].status = "pending"
      /\ UNCHANGED <<requested, approvalvars, bookvars, exec, executor, mishaps>>
  BY DEF Complete
<1>3. /\ executor \in [Executors -> Executing] /\ mishaps \in 0..MaxMishaps
      /\ refund \in [Refs -> Refunding] /\ due \in [Refs -> Nat] /\ Reports \in Nat
  BY DEF RefundsInv, TypeOK, Executing, Refunding, RefundsAssumption
<1>4. /\ [refund[r] EXCEPT !.status = status] \in Refunding
      /\ [refund[r] EXCEPT !.status = status].status = status
  BY <1>3 DEF Refunding
<1>5. /\ refund' \in [Refs -> Refunding] /\ refund'[r].status = status
      /\ \A s \in Refs : s # r => refund'[s] = refund[s]
  BY <1>1, <1>3, <1>4
<1>6. /\ due' \in [Refs -> Nat]
      /\ \A s \in Refs : due'[s] > 0 => due[s] > 0 \/ refund'[s].status = "succeeded"
  <2>1. CASE status = "succeeded" BY <1>1, <1>3, <1>5, <2>1
  <2>2. CASE status # "succeeded" BY <1>1, <1>3, <2>2
  <2> QED BY <2>1, <2>2
<1>7. r[2] = Nobody /\ \A i \in Index : r = <<i, Nobody>> => exec[i].state \notin {"none", "pending"}
  BY <1>2 DEF RefundsInv, PaidTrue
<1> QED BY <1>2, <1>3, <1>5, <1>6, <1>7, ProviderMoves

-----------------------------------------------------------------------------
(* The books.                                                              *)
Booking == [pc : {"idle", "book"}, ref : Refs \cup {NoRef}, seen : BOOLEAN]

LEMMA BookerSet ==
  ASSUME TypeOK, NEW b \in Bookers, NEW r \in Booking, SetBooker(b, r)
  PROVE  /\ booker' \in [Bookers -> Booking]
         /\ booker'[b] = r
         /\ \A c \in Bookers \ {b} : booker'[c] = booker[c]
BY DEF TypeOK, Booking, SetBooker

LEMMA BeginBookingKeeps ==
  ASSUME RefundsAssumption, RefundsInv, NEW b \in Bookers, NEW r \in Refs, BeginBooking(b, r)
  PROVE  RefundsInv'
<1> DEFINE new == [pc |-> "book", ref |-> r, seen |-> Booked(r)]
<1>1. /\ due[r] > 0 /\ due' = [due EXCEPT ![r] = @ - 1] /\ SetBooker(b, new) /\ lock' = b
      /\ linked' = linked
      /\ UNCHANGED <<requested, approvalvars, order, settled, booked, exec, refund, executor,
                     mishaps>>
  BY DEF BeginBooking
<1>2. new \in Booking /\ new.ref = r
  BY DEF Booking, Booked
<1> HIDE DEF new
<1>3. /\ booker' \in [Bookers -> Booking] /\ booker'[b].ref = r
      /\ \A c \in Bookers \ {b} : booker'[c] = booker[c]
  BY <1>1, <1>2, BookerSet DEF RefundsInv
<1>4. /\ due \in [Refs -> Nat] /\ due' \in [Refs -> Nat]
      /\ \A s \in Refs : due'[s] > 0 => due[s] > 0
  <2>1. due \in [Refs -> Nat] BY DEF RefundsInv, TypeOK
  <2> QED BY <1>1, <2>1
<1>5. TypeOK' BY <1>1, <1>3, <1>4 DEF RefundsInv, TypeOK, Booking, approvalvars
<1>6. LedgerTrue' BY <1>1 DEF RefundsInv, LedgerTrue, approvalvars
<1>7. RowsTrue' BY <1>1 DEF RefundsInv, RowsTrue, approvalvars
<1>8. PaidTrue' BY <1>1, <1>3, <1>4 DEF RefundsInv, PaidTrue
<1> QED BY <1>5, <1>6, <1>7, <1>8 DEF RefundsInv

LEMMA BookKeeps ==
  ASSUME RefundsAssumption, RefundsInv, NEW b \in Bookers, Book(b)
  PROVE  RefundsInv'
<1> DEFINE r == booker[b].ref
<1>1. /\ r \in Refs /\ refund[r].status = "succeeded"
      /\ refund \in [Refs -> Refunding] /\ due \in [Refs -> Nat]
      /\ exec \in [Index -> Execution] /\ booked \in [Refs -> Nat] /\ settled \in Nat
  BY DEF Book, RefundsInv, PaidTrue, TypeOK, Refunding
<1>2. /\ due' = due \/ due' = [due EXCEPT ![r] = @ + 1]
      /\ SetBooker(b, IdleBooker) /\ lock' \in {lock, Nobody}
      /\ UNCHANGED <<requested, approvalvars, linked, refund, executor>>
  BY DEF Book, JobDone, JobLeft
<1>3. \/ UNCHANGED <<order, settled, booked, exec>>
      \/ /\ booked' = [booked EXCEPT ![r] = @ + 1]
         /\ settled' = settled + refund[r].amount
         /\ exec' = [i \in Index |-> IF Settles(exec[i], r)
                                     THEN [exec[i] EXCEPT !.state = "settled", !.ref = r]
                                     ELSE exec[i]]
         /\ order' \in {"returned", order}
  BY DEF Book
<1>4. mishaps' \in 0..MaxMishaps
  BY MishapsStayBounded DEF RefundsInv, Book, JobDone, JobLeft
<1> HIDE DEF r
<1>5. /\ booked' \in [Refs -> Nat] /\ settled' \in Nat /\ order' \in {"paid", "returned"}
  <2>1. refund[r].amount \in Nat BY <1>1 DEF Refunding
  <2>2. order \in {"paid", "returned"} BY DEF RefundsInv, TypeOK
  <2>3. booked' = booked \/ booked' = [booked EXCEPT ![r] = @ + 1] BY <1>3
  <2>4. booked' \in [Refs -> Nat] BY <1>1, <2>3
  <2>5. settled' = settled \/ settled' = settled + refund[r].amount BY <1>3
  <2>6. settled' \in Nat BY <1>1, <2>1, <2>5
  <2>7. order' \in {"paid", "returned"} BY <1>3, <2>2
  <2> QED BY <2>4, <2>6, <2>7
<1>6. /\ due' \in [Refs -> Nat]
      /\ \A s \in Refs : due'[s] > 0 => due[s] > 0 \/ s = r
  BY <1>1, <1>2
<1>7. /\ exec' \in [Index -> Execution]
      /\ \A i \in Index : \/ exec'[i] = exec[i]
                          \/ /\ exec[i].state = "provider_submitted" /\ exec[i].ref = r
                             /\ exec'[i].state = "settled" /\ exec'[i].ref = r
  <2>1. ASSUME NEW i \in Index
        PROVE  /\ [exec[i] EXCEPT !.state = "settled", !.ref = r] \in Execution
               /\ [exec[i] EXCEPT !.state = "settled", !.ref = r].state = "settled"
               /\ [exec[i] EXCEPT !.state = "settled", !.ref = r].ref = r
    <3>1. exec[i] \in Execution BY <1>1
    <3> QED BY <1>1, <3>1 DEF Execution
  <2>2. CASE UNCHANGED exec BY <1>1, <2>2
  <2>3. CASE exec' = [i \in Index |-> IF Settles(exec[i], r)
                                     THEN [exec[i] EXCEPT !.state = "settled", !.ref = r]
                                     ELSE exec[i]]
    <3>1. ASSUME NEW i \in Index
          PROVE  /\ exec'[i] \in Execution
                 /\ \/ exec'[i] = exec[i]
                    \/ /\ exec[i].state = "provider_submitted" /\ exec[i].ref = r
                       /\ exec'[i].state = "settled" /\ exec'[i].ref = r
      <4>1. exec[i] \in Execution BY <1>1
      <4>2. CASE Settles(exec[i], r) BY <2>1, <2>3, <4>2 DEF Settles
      <4>3. CASE ~Settles(exec[i], r) BY <2>3, <4>1, <4>3
      <4> QED BY <4>2, <4>3
    <3> QED BY <2>3, <3>1
  <2>4. UNCHANGED exec \/ exec' = [i \in Index |-> IF Settles(exec[i], r)
                                     THEN [exec[i] EXCEPT !.state = "settled", !.ref = r]
                                     ELSE exec[i]]
    BY <1>3
  <2> QED BY <2>2, <2>3, <2>4
<1>8. IdleBooker \in Booking /\ IdleBooker.pc = "idle"
  BY DEF IdleBooker, Booking
<1>9. /\ booker' \in [Bookers -> Booking] /\ booker'[b].pc = "idle"
      /\ \A c \in Bookers \ {b} : booker'[c] = booker[c]
  BY <1>2, <1>8, BookerSet DEF RefundsInv
<1>10. TypeOK'
  BY <1>1, <1>2, <1>4, <1>5, <1>6, <1>7, <1>9
     DEF RefundsInv, TypeOK, Booking, Refunding, approvalvars
<1>11. LedgerTrue' BY <1>2 DEF RefundsInv, LedgerTrue, approvalvars
<1>12. RowsTrue'
  <2>1. \A x \in Executors : executor[x].row \in Index BY DEF RefundsInv, TypeOK
  <2> QED BY <1>2, <1>7, <2>1 DEF RefundsInv, RowsTrue, approvalvars
<1>13. PaidTrue'
  <2>1. \A i \in Index :
          /\ exec'[i].state \in {"none", "pending"} => refund[<<i, Nobody>>].status = "none"
          /\ exec'[i].state = "settled" => refund[<<i, Nobody>>].status = "succeeded"
    BY <1>1, <1>7 DEF RefundsInv, PaidTrue, RowsTrue
  <2>2. \A s \in Refs : due'[s] > 0 => refund[s].status = "succeeded"
    BY <1>1, <1>6 DEF RefundsInv, PaidTrue
  <2> QED BY <1>2, <1>9, <2>1, <2>2 DEF RefundsInv, PaidTrue
<1> QED BY <1>10, <1>11, <1>12, <1>13 DEF RefundsInv

LEMMA DropReceiptKeeps ==
  ASSUME RefundsAssumption, RefundsInv, NEW b \in Bookers, NEW r \in Refs, DropReceipt(b, r)
  PROVE  RefundsInv'
<1>1. /\ due[r] > 0 /\ due' = [due EXCEPT ![r] = @ - 1]
      /\ UNCHANGED <<requested, approvalvars, bookvars, exec, refund, executor, mishaps>>
  BY DEF DropReceipt
<1>2. /\ due' \in [Refs -> Nat]
      /\ \A s \in Refs : due'[s] > 0 => due[s] > 0
  <2>1. due \in [Refs -> Nat] BY DEF RefundsInv, TypeOK
  <2> QED BY <1>1, <2>1
<1>3. TypeOK' BY <1>1, <1>2 DEF RefundsInv, TypeOK, approvalvars, bookvars
<1>4. LedgerTrue' BY <1>1 DEF RefundsInv, LedgerTrue, approvalvars, bookvars
<1>5. RowsTrue' BY <1>1 DEF RefundsInv, RowsTrue, approvalvars
<1>6. PaidTrue' BY <1>1, <1>2 DEF RefundsInv, PaidTrue, bookvars
<1> QED BY <1>3, <1>4, <1>5, <1>6 DEF RefundsInv

LEMMA LaterCheckoutKeeps ==
  ASSUME RefundsAssumption, RefundsInv, LaterCheckout
  PROVE  RefundsInv'
<1>1. linked' \in BOOLEAN /\ mishaps' \in 0..MaxMishaps
  BY MishapsStayBounded DEF LaterCheckout, RefundsInv
<1>2. UNCHANGED <<requested, approvalvars, order, settled, booked, booker, lock, exec,
                  providervars, executor>>
  BY DEF LaterCheckout
<1> QED
  BY <1>1, <1>2 DEF RefundsInv, TypeOK, LedgerTrue, RowsTrue, PaidTrue, approvalvars, providervars

LEMMA RefundsInvStep ==
  ASSUME RefundsAssumption, RefundsInv, [Next]_vars
  PROVE  RefundsInv'
<1>1. CASE UNCHANGED vars
  BY <1>1 DEF vars, RefundsInv, TypeOK, LedgerTrue, RowsTrue, PaidTrue
<1>2. CASE Next
  BY <1>2, RequestKeeps, ApproveKeeps, ClaimKeeps, CallKeeps, MarkKeeps, DieExecutingKeeps,
     BeginBookingKeeps, DropReceiptKeeps, BookKeeps, LeaseAndPermitKeep, RefundByHandKeeps,
     CompleteKeeps, LaterCheckoutKeeps
     DEF Next, ExecutorStep, BookerStep
<1> QED BY <1>1, <1>2

LEMMA RefundsInvariant == Spec => []RefundsInv
<1>1. Init => RefundsInv BY RefundsInvInitially, RefundsAssumption
<1>2. RefundsInv /\ [Next]_vars => RefundsInv' BY RefundsInvStep, RefundsAssumption
<1> QED BY <1>1, <1>2, PTL DEF Spec

-----------------------------------------------------------------------------
(* Every step leaves the ledger, the rows and the processes of their types. *)
THEOREM TypeCorrect == Spec => []TypeOK
<1>1. RefundsInv => TypeOK BY DEF RefundsInv
<1> QED BY <1>1, RefundsInvariant, PTL

(* Requests, approvals and settlements made at once, each on what it read    *)
(* of the ledger before, do not authorize more than was charged.            *)
THEOREM ApprovalsAreCovered == Spec => []ApprovedWithinCapture
<1>1. RefundsInv => ApprovedWithinCapture
  BY DEF RefundsInv, LedgerTrue, ApprovedWithinCapture
<1> QED BY <1>1, RefundsInvariant, PTL

(* An approval pays out once, however often it is retried and taken over:   *)
(* every call for it has its key.                                          *)
THEOREM ApprovalsPayOnce == Spec => []OneRefundPerApproval
<1>1. RefundsInv => OneRefundPerApproval
  <2> SUFFICES ASSUME RefundsInv, NEW r \in Live, NEW s \in Live, r[1] = s[1] PROVE r = s
    BY DEF OneRefundPerApproval
  <2>1. r \in Refs /\ s \in Refs /\ r[2] = Nobody /\ s[2] = Nobody
    BY DEF RefundsInv, PaidTrue, Live
  <2> QED BY <2>1 DEF Refs
<1> QED BY <1>1, RefundsInvariant, PTL

(* What an execution records as settled, the provider has paid out for its   *)
(* own approval.                                                           *)
THEOREM SettlementsArePaid == Spec => []SettledIsPaidOut
<1>1. RefundsInv => SettledIsPaidOut
  <2> SUFFICES ASSUME RefundsInv, NEW i \in Index, exec[i].state = "settled"
               PROVE  /\ exec[i].ref \in Refs /\ exec[i].ref[1] = i
                      /\ refund[exec[i].ref].status = "succeeded"
    BY DEF SettledIsPaidOut
  <2>1. exec[i].ref = <<i, Nobody>> /\ refund[<<i, Nobody>>].status = "succeeded"
    BY DEF RefundsInv, RowsTrue, PaidTrue
  <2> QED BY <2>1, IndexRefs
<1> QED BY <1>1, RefundsInvariant, PTL

-----------------------------------------------------------------------------
(* The books.  The order row's lock covers the question whether a refund is  *)
(* booked and its booking, so the ledger's settlements sum up refunds of    *)
(* the provider, each once.                                                *)
BookedRefs == {r \in Refs : booked[r] > 0}
Succeeded == {r \in Refs : refund[r].status = "succeeded"}

BooksTrue ==
  /\ \A b \in Bookers :
       booker[b].pc = "book" => lock = b /\ (~booker[b].seen => booked[booker[b].ref] = 0)
  /\ BookedRefs \subseteq Succeeded
  /\ settled = AmountOf(BookedRefs)
  /\ order = "returned" => settled >= Captured

(* What succeeded came from an approval or from a hand: finitely many.       *)
LEMMA SucceededIsFinite ==
  ASSUME RefundsAssumption, RefundsInv
  PROVE  IsFiniteSet(Succeeded)
<1> DEFINE D == 0..Captured
           f == [i \in D |-> <<i, Nobody>>]
           T == {<<i, Nobody>> : i \in D}
<1>1. IsFiniteSet(D)
  BY FS_Interval DEF RefundsAssumption
<1>2. f \in Surjection(D, T)
  BY DEF Surjection
<1>3. IsFiniteSet(T)
  <2> HIDE DEF f, T, D
  <2> QED BY <1>1, <1>2, FS_Surjection
<1>4. Succeeded \subseteq T
  BY DEF RefundsInv, PaidTrue, Succeeded, Refs
<1> QED BY <1>3, <1>4, FS_Subset

LEMMA AmountsAreNat ==
  ASSUME RefundsInv, NEW S \in SUBSET Refs
  PROVE  LET f == [r \in Refs |-> refund[r].amount]
         IN  IntOn(f, S) /\ \A r \in S : f[r] = refund[r].amount /\ f[r] \in Nat
<1>1. refund \in [Refs -> Refunding]
  BY DEF RefundsInv, TypeOK, Refunding
<1>2. \A r \in Refs : refund[r].amount \in Nat
  BY <1>1 DEF Refunding
<1> QED BY <1>2 DEF IntOn

(* The books stay as they are as long as what succeeded does.               *)
LEMMA BooksStay ==
  ASSUME RefundsAssumption, RefundsInv, BooksTrue, UNCHANGED bookvars,
         \A r \in Succeeded : refund'[r] = refund[r]
  PROVE  BooksTrue'
<1>1. UNCHANGED <<order, linked, settled, booked, booker, lock>>
  BY DEF bookvars
<1>2. BookedRefs' = BookedRefs /\ BookedRefs \subseteq Succeeded /\ Succeeded \subseteq Refs
  BY <1>1 DEF BookedRefs, BooksTrue, Succeeded
<1>3. BookedRefs \subseteq Succeeded'
  BY <1>2 DEF Succeeded
<1>4. IsFiniteSet(BookedRefs)
  BY <1>2, SucceededIsFinite, FS_Subset
<1> DEFINE f == [r \in Refs |-> refund[r].amount]
           g == [r \in Refs |-> refund'[r].amount]
<1>5. \A r \in BookedRefs : f[r] = g[r]
  BY <1>2
<1>6. SumFunctionOnSet(f, BookedRefs) = SumFunctionOnSet(g, BookedRefs)
  <2> HIDE DEF f, g
  <2> QED BY <1>4, <1>5, SumSame
<1>7. settled = SumFunctionOnSet(f, BookedRefs)
  BY DEF BooksTrue, AmountOf
<1>8. (settled = AmountOf(BookedRefs))'
  BY <1>1, <1>2, <1>6, <1>7 DEF AmountOf
<1> QED BY <1>1, <1>2, <1>3, <1>8 DEF BooksTrue

LEMMA BeginBookingBooks ==
  ASSUME RefundsAssumption, RefundsInv, BooksTrue, NEW b \in Bookers, NEW r \in Refs,
         BeginBooking(b, r)
  PROVE  BooksTrue'
<1> DEFINE new == [pc |-> "book", ref |-> r, seen |-> Booked(r)]
<1>1. /\ SetBooker(b, new) /\ lock = Nobody /\ lock' = b
      /\ UNCHANGED <<order, settled, booked, refund>>
  BY DEF BeginBooking, OrderFree
<1>2. new \in Booking /\ new.ref = r /\ (~new.seen => booked[r] = 0)
  <2>1. booked[r] \in Nat
    BY DEF RefundsInv, TypeOK
  <2>2. ~Booked(r) => booked[r] = 0
    BY <2>1 DEF Booked
  <2>3. new.seen = Booked(r) /\ Booked(r) \in BOOLEAN
    BY DEF Booked
  <2> QED BY <2>2, <2>3 DEF Booking
<1> HIDE DEF new
<1>3. booker'[b] = new /\ \A c \in Bookers \ {b} : booker'[c] = booker[c]
  BY <1>1, <1>2, BookerSet DEF RefundsInv
<1>4. \A c \in Bookers \ {b} : booker'[c].pc # "book"
  BY <1>1, <1>3 DEF BooksTrue, RefundsAssumption
<1>5. BookedRefs' = BookedRefs /\ Succeeded' = Succeeded
  BY <1>1 DEF BookedRefs, Succeeded
<1>6. (settled = AmountOf(BookedRefs))'
  BY <1>1, <1>5 DEF BooksTrue, AmountOf
<1> QED BY <1>1, <1>2, <1>3, <1>4, <1>5, <1>6 DEF BooksTrue

LEMMA BookBooks ==
  ASSUME RefundsAssumption, RefundsInv, BooksTrue, NEW b \in Bookers, Book(b)
  PROVE  BooksTrue'
<1> DEFINE r == booker[b].ref
<1>1. /\ booker[b].pc = "book" /\ SetBooker(b, IdleBooker) /\ UNCHANGED refund
  BY DEF Book
<1>2. r \in Refs /\ r \in Succeeded /\ booked \in [Refs -> Nat]
  BY <1>1 DEF RefundsInv, PaidTrue, TypeOK, Succeeded
<1>3. IdleBooker \in Booking /\ IdleBooker.pc = "idle"
  BY DEF IdleBooker, Booking
<1>4. booker'[b].pc = "idle" /\ \A c \in Bookers \ {b} : booker'[c] = booker[c]
  BY <1>1, <1>3, BookerSet DEF RefundsInv
<1>5. \A c \in Bookers : booker'[c].pc # "book"
  BY <1>1, <1>4 DEF BooksTrue
<1>6. Succeeded' = Succeeded
  BY <1>1 DEF Succeeded
<1>7. CASE UNCHANGED <<order, settled, booked>>
  <2>1. BookedRefs' = BookedRefs
    BY <1>7 DEF BookedRefs
  <2>2. (settled = AmountOf(BookedRefs))'
    BY <1>1, <1>7, <2>1 DEF BooksTrue, AmountOf
  <2> QED BY <1>5, <1>6, <1>7, <2>1, <2>2 DEF BooksTrue
<1>8. CASE ~booker[b].seen /\ booked' = [booked EXCEPT ![r] = @ + 1]
           /\ settled' = settled + refund[r].amount
           /\ order' = IF settled' >= Captured THEN "returned" ELSE order
  <2> DEFINE f == [q \in Refs |-> refund[q].amount]
  <2>1. booked[r] = 0
    BY <1>1, <1>8 DEF BooksTrue
  <2>2. BookedRefs' = BookedRefs \cup {r} /\ r \notin BookedRefs
    BY <1>2, <1>8, <2>1 DEF BookedRefs
  <2>3. BookedRefs \in SUBSET Refs /\ IsFiniteSet(BookedRefs)
    BY SucceededIsFinite, FS_Subset DEF BooksTrue, BookedRefs
  <2>4. /\ IntOn(f, BookedRefs) /\ f[r] = refund[r].amount /\ f[r] \in Nat
    <3>1. {r} \in SUBSET Refs
      BY <1>2
    <3> QED BY <2>3, <3>1, AmountsAreNat
  <2>5. settled = SumFunctionOnSet(f, BookedRefs)
    BY DEF BooksTrue, AmountOf
  <2> HIDE DEF f, r
  <2>6. SumFunctionOnSet(f, BookedRefs \cup {r}) = SumFunctionOnSet(f, BookedRefs) + f[r]
    BY <2>2, <2>3, <2>4, SumAdd
  <2>7. settled' = SumFunctionOnSet(f, BookedRefs')
    BY <1>8, <2>2, <2>4, <2>5, <2>6
  <2>8. (settled = AmountOf(BookedRefs))'
    BY <1>1, <2>7 DEF AmountOf, f
  <2>9. order' = "returned" => settled' >= Captured
    <3>1. settled \in Nat /\ settled' = settled + f[r] /\ Captured \in Nat
      BY <1>8, <2>4 DEF RefundsInv, TypeOK, RefundsAssumption
    <3>2. order = "returned" => settled >= Captured
      BY DEF BooksTrue
    <3>3. f[r] \in Nat
      BY <2>4
    <3> HIDE DEF f
    <3>4. settled >= Captured => settled' >= Captured
      BY <3>1, <3>3
    <3> QED BY <1>8, <3>2, <3>4
  <2>10. BookedRefs' \subseteq Succeeded
    BY <1>2, <2>2 DEF BooksTrue
  <2> QED BY <1>5, <1>6, <2>8, <2>9, <2>10 DEF BooksTrue
<1> QED BY <1>7, <1>8 DEF Book

LEMMA BooksStep ==
  ASSUME RefundsAssumption, RefundsInv, BooksTrue, [Next]_vars
  PROVE  BooksTrue'
<1>1. ASSUME UNCHANGED bookvars, UNCHANGED refund PROVE BooksTrue'
  BY <1>1, BooksStay
<1>2. ASSUME NEW r \in Refs, NEW a \in Amounts, NEW status \in {"pending", "succeeded"},
             MakeRefund(r, a, status), UNCHANGED bookvars
      PROVE  BooksTrue'
  <2>1. \A q \in Succeeded : refund'[q] = refund[q]
    BY <1>2, MadeRefund DEF Succeeded
  <2> QED BY <1>2, <2>1, BooksStay
<1>3. ASSUME NEW r \in Refs, Complete(r) PROVE BooksTrue'
  <2>1. \A q \in Succeeded : refund'[q] = refund[q]
    BY <1>3 DEF Complete, Succeeded, RefundsInv, TypeOK
  <2> QED BY <1>3, <2>1, BooksStay DEF Complete
<1>4. ASSUME NEW x \in Executors, CallProvider(x) PROVE BooksTrue'
  <2> DEFINE i == executor[x].row
             r == <<i, Nobody>>
  <2>1. i \in Index /\ r \in Refs /\ i <= approvals /\ exec[i].state # "none"
    BY <1>4, IndexRefs DEF CallProvider, At, RefundsInv, TypeOK, RowsTrue
  <2>2. requested[i] \in Amounts
    BY <2>1, IndexRefs DEF RefundsInv, TypeOK, LedgerTrue
  <2>3. UNCHANGED bookvars
    BY <1>4 DEF CallProvider, bookvars
  <2>4. \/ UNCHANGED refund
        \/ \E status \in {"pending", "succeeded"} : MakeRefund(r, requested[i], status)
    BY <1>4 DEF CallProvider, providervars, KeyOf
  <2> QED BY <1>1, <1>2, <2>1, <2>2, <2>3, <2>4
<1>5. ASSUME NEW a \in Amounts, RefundByHand(a) PROVE BooksTrue'
  <2>1. Manual \in Refs
    BY DEF Manual, Refs, RefundsAssumption
  <2> QED BY <1>2, <1>5, <2>1 DEF RefundByHand
<1>6. CASE UNCHANGED vars
  BY <1>1, <1>6 DEF vars, bookvars
<1>7. ASSUME NEW a \in Amounts, Request(a) PROVE BooksTrue'
  BY <1>1, <1>7 DEF Request, providervars
<1>8. ASSUME NEW n \in 0..approvals, Approve(n) PROVE BooksTrue'
  BY <1>1, <1>8 DEF Approve, providervars
<1>9. ASSUME NEW x \in Executors, NEW i \in Index, Claim(x, i) PROVE BooksTrue'
  BY <1>1, <1>9 DEF Claim, providervars
<1>10. ASSUME NEW x \in Executors, Mark(x) \/ DieExecuting(x) PROVE BooksTrue'
  BY <1>1, <1>10 DEF Mark, DieExecuting, providervars
<1>11. ASSUME NEW i \in Index, LeaseEnds(i) \/ PermitEnds(i) PROVE BooksTrue'
  BY <1>1, <1>11 DEF LeaseEnds, PermitEnds, providervars
<1>12. ASSUME NEW b \in Bookers, NEW r \in Refs, DropReceipt(b, r) PROVE BooksTrue'
  BY <1>1, <1>12 DEF DropReceipt
<1>13. CASE LaterCheckout
  BY <1>13 DEF LaterCheckout, BooksTrue, BookedRefs, AmountOf, Succeeded, providervars
<1>14. CASE Next
  BY <1>3, <1>4, <1>5, <1>7, <1>8, <1>9, <1>10, <1>11, <1>12, <1>13, <1>14,
     BeginBookingBooks, BookBooks
     DEF Next, ExecutorStep, BookerStep
<1> QED BY <1>6, <1>14

LEMMA BooksInitially == ASSUME RefundsAssumption, Init PROVE BooksTrue
<1>1. BookedRefs = {}
  BY DEF Init, BookedRefs
<1> QED BY <1>1, SumEmpty DEF Init, BooksTrue, AmountOf, IdleBooker

(* An order that the bookings returned has been paid back in full: neither   *)
(* repeated reports of a refund nor jobs driven again count it twice.       *)
THEOREM ReturnsArePaid == Spec => []ReturnedIsRefunded
<1>1. Init => BooksTrue
  BY BooksInitially, RefundsAssumption
<1>2. RefundsInv /\ BooksTrue /\ [Next]_vars => BooksTrue'
  BY BooksStep, RefundsAssumption
<1>3. RefundsInv /\ BooksTrue => ReturnedIsRefunded
  <2> SUFFICES ASSUME RefundsInv, BooksTrue, order = "returned"
               PROVE  AmountOf(Succeeded) >= Captured
    BY DEF ReturnedIsRefunded, Succeeded
  <2> DEFINE f == [r \in Refs |-> refund[r].amount]
  <2>1. IsFiniteSet(Succeeded) /\ BookedRefs \subseteq Succeeded /\ Succeeded \in SUBSET Refs
    BY RefundsAssumption, SucceededIsFinite DEF BooksTrue, Succeeded
  <2>2. \A r \in Succeeded : f[r] \in Nat
    BY <2>1, AmountsAreNat
  <2>3. settled = SumFunctionOnSet(f, BookedRefs) /\ settled >= Captured
    BY DEF BooksTrue, AmountOf
  <2>4. settled \in Nat /\ Captured \in Nat
    BY RefundsAssumption DEF RefundsInv, TypeOK, RefundsAssumption
  <2>5. AmountOf(Succeeded) = SumFunctionOnSet(f, Succeeded)
    BY DEF AmountOf
  <2> HIDE DEF f
  <2>6. SumFunctionOnSet(f, BookedRefs) <= SumFunctionOnSet(f, Succeeded)
    BY <2>1, <2>2, SumGrows
  <2>7. SumFunctionOnSet(f, Succeeded) \in Nat
    BY <2>1, <2>2, SumNat
  <2> QED BY <2>3, <2>4, <2>5, <2>6, <2>7
<1> QED BY <1>1, <1>2, <1>3, RefundsInvariant, PTL DEF Spec

-----------------------------------------------------------------------------
(* What a step does to the rows of executions.                             *)
RowChanges(i) ==
  \/ exec'[i] = exec[i]
  \/ exec[i].state = "none"
  \/ exec[i].state \in {"processing", "failed"}
  \/ exec[i].state = "provider_submitted" /\ exec'[i].state = "settled"
  \/ exec[i].state = "pending" /\ exec[i].permit

LEMMA RowSteps ==
  ASSUME RefundsInv, NEW i \in Index, [Next]_vars
  PROVE  exec'[i].state = exec[i].state \/ RowChanges(i)
<1> USE DEF RowChanges
<1>1. exec \in [Index -> Execution] /\ exec[i] \in Execution
  BY DEF RefundsInv, TypeOK
<1>2. CASE UNCHANGED vars BY <1>2 DEF vars
<1>3. ASSUME NEW a \in Amounts, Request(a) \/ RefundByHand(a) PROVE RowChanges(i)
  BY <1>3 DEF Request, RefundByHand
<1>4. ASSUME NEW n \in 0..approvals, Approve(n) PROVE RowChanges(i)
  BY <1>1, <1>4 DEF Approve
<1>5. ASSUME NEW x \in Executors, NEW j \in Index, Claim(x, j) PROVE RowChanges(i)
  BY <1>1, <1>5 DEF Claim, Selectable, Permitted
<1>6. ASSUME NEW x \in Executors, CallProvider(x) \/ DieExecuting(x) PROVE RowChanges(i)
  BY <1>6 DEF CallProvider, DieExecuting
<1>7. ASSUME NEW x \in Executors, Mark(x) PROVE RowChanges(i)
  <2>1. CASE ~Owns(x, executor[x].row) BY <1>7, <2>1 DEF Mark
  <2>2. CASE Owns(x, executor[x].row)
    <3>1. CASE i = executor[x].row BY <2>2, <3>1 DEF Owns
    <3>2. CASE i # executor[x].row BY <1>1, <1>7, <3>2 DEF Mark
    <3> QED BY <3>1, <3>2
  <2> QED BY <2>1, <2>2
<1>8. ASSUME NEW b \in Bookers, BookerStep(b)
      PROVE  exec'[i] = exec[i] \/ (exec[i].state = "provider_submitted" /\ exec'[i].state = "settled")
  <2>1. CASE \E r \in Refs : BeginBooking(b, r) \/ DropReceipt(b, r)
    BY <2>1 DEF BeginBooking, DropReceipt
  <2>2. CASE Book(b)
    <3>1. \/ UNCHANGED exec
          \/ exec' = [j \in Index |-> IF Settles(exec[j], booker[b].ref)
                                     THEN [exec[j] EXCEPT !.state = "settled", !.ref = booker[b].ref]
                                     ELSE exec[j]]
      BY <2>2 DEF Book
    <3>2. CASE Settles(exec[i], booker[b].ref)
      <4>1. [exec[i] EXCEPT !.state = "settled", !.ref = booker[b].ref].state = "settled"
        BY <1>1 DEF Execution
      <4> QED BY <3>1, <3>2, <4>1 DEF Settles
    <3>3. CASE ~Settles(exec[i], booker[b].ref) BY <3>1, <3>3
    <3> QED BY <3>2, <3>3
  <2> QED BY <1>8, <2>1, <2>2 DEF BookerStep
<1>9. ASSUME NEW j \in Index, LeaseEnds(j) \/ PermitEnds(j)
      PROVE  exec'[i] = exec[i] \/ exec'[i].state = exec[i].state
  <2>1. [exec[i] EXCEPT !.expired = TRUE].state = exec[i].state
        /\ [exec[i] EXCEPT !.permit = FALSE].state = exec[i].state
    BY <1>1 DEF Execution
  <2>2. PICK row \in {[exec[j] EXCEPT !.expired = TRUE], [exec[j] EXCEPT !.permit = FALSE]} :
          exec' = [exec EXCEPT ![j] = row]
    BY <1>9 DEF LeaseEnds, PermitEnds
  <2> QED BY <1>1, <2>1, <2>2
<1>10. ASSUME NEW r \in Refs, Complete(r) PROVE RowChanges(i)
  BY <1>10 DEF Complete
<1>11. CASE LaterCheckout BY <1>11 DEF LaterCheckout
<1> QED BY <1>2, <1>3, <1>4, <1>5, <1>6, <1>7, <1>8, <1>9, <1>10, <1>11
        DEF Next, ExecutorStep

(* An approval that is still pending has no refund, and gets none.          *)
LEMMA PendingIsUnpaid ==
  ASSUME RefundsInv, NEW i \in Index, exec[i].state = "pending", [Next]_vars
  PROVE  refund'[<<i, Nobody>>] = refund[<<i, Nobody>>]
<1> DEFINE r == <<i, Nobody>>
<1>1. /\ r \in Refs /\ r # Manual /\ refund[r].status = "none"
      /\ \A j \in Index : <<j, Nobody>> = r => j = i
  BY IndexRefs DEF RefundsInv, PaidTrue
<1>2. refund \in [Refs -> Refunding]
  BY DEF RefundsInv, TypeOK, Refunding
<1>3. CASE UNCHANGED vars BY <1>3 DEF vars
<1>4. ASSUME NEW x \in Executors, CallProvider(x) PROVE refund'[r] = refund[r]
  <2>1. /\ executor[x].row \in Index /\ exec[executor[x].row].state # "pending"
    BY <1>4 DEF RefundsInv, TypeOK, RowsTrue, CallProvider, At
  <2>2. <<executor[x].row, Nobody>> # r BY <1>1, <2>1
  <2>3. UNCHANGED refund \/ \E amount, status :
                              refund' = [refund EXCEPT ![<<executor[x].row, Nobody>>] =
                                           [amount |-> amount, status |-> status]]
    BY <1>4 DEF CallProvider, MakeRefund, KeyOf, providervars
  <2> HIDE DEF r
  <2> QED BY <1>1, <1>2, <2>2, <2>3
<1>5. ASSUME NEW a \in Amounts, RefundByHand(a) PROVE refund'[r] = refund[r]
  <2>1. refund' = [refund EXCEPT ![Manual] = [amount |-> a, status |-> "succeeded"]]
    BY <1>5 DEF RefundByHand, MakeRefund
  <2> HIDE DEF r
  <2> QED BY <1>1, <1>2, <2>1
<1>6. ASSUME NEW s \in Refs, Complete(s) PROVE refund'[r] = refund[r]
  <2>1. s # r BY <1>1, <1>6 DEF Complete
  <2>2. \E row : refund' = [refund EXCEPT ![s] = row] BY <1>6 DEF Complete
  <2> HIDE DEF r
  <2> QED BY <1>1, <1>2, <2>1, <2>2
<1>7. ASSUME NEW x \in Executors, NEW j \in Index, Claim(x, j) PROVE refund'[r] = refund[r]
  BY <1>7 DEF Claim, providervars
<1>8. ASSUME NEW x \in Executors, Mark(x) \/ DieExecuting(x) PROVE refund'[r] = refund[r]
  BY <1>8 DEF Mark, DieExecuting, providervars
<1>9. ASSUME NEW b \in Bookers, BookerStep(b) PROVE refund'[r] = refund[r]
  BY <1>9 DEF BookerStep, BeginBooking, DropReceipt, Book
<1>10. ASSUME NEW j \in Index, LeaseEnds(j) \/ PermitEnds(j) PROVE refund'[r] = refund[r]
  BY <1>10 DEF LeaseEnds, PermitEnds, providervars
<1>11. ASSUME (\E a \in Amounts : Request(a)) \/ (\E n \in 0..approvals : Approve(n))
       PROVE  refund'[r] = refund[r]
  BY <1>11 DEF Request, Approve, providervars
<1>12. CASE LaterCheckout BY <1>12 DEF LaterCheckout, providervars
<1> QED BY <1>3, <1>4, <1>5, <1>6, <1>7, <1>8, <1>9, <1>10, <1>11, <1>12
        DEF Next, ExecutorStep

(* A settled execution stays settled: whoever still holds a lost claim finds *)
(* that the row is not its own any more.                                    *)
THEOREM SettledForGood == Spec => SettledStays
<1>1. RefundsInv /\ [Next]_vars =>
        [\A i \in Index : exec[i].state = "settled" => exec'[i].state = "settled"]_exec
  BY RowSteps DEF RowChanges
<1> QED BY <1>1, RefundsInvariant, PTL DEF Spec, SettledStays

(* A refund revoked while it is pending is neither claimed nor paid.        *)
THEOREM RevokedUnpaid == Spec => RevokedIsNeverPaid
<1>1. RefundsInv /\ [Next]_vars =>
        [\A i \in Index :
           exec[i].state = "pending" /\ ~exec[i].permit =>
             /\ exec'[i].state = "pending"
             /\ \A x \in Executors : refund'[KeyOf(x, i)] = refund[KeyOf(x, i)]]_<<exec, refund>>
  BY RowSteps, PendingIsUnpaid DEF RowChanges, KeyOf
<1> QED BY <1>1, RefundsInvariant, PTL DEF Spec, RevokedIsNeverPaid

-----------------------------------------------------------------------------
(* However many drains book a refund's reports at a time, the ledger gets   *)
(* one entry of it.                                                        *)
ReceiptsBookedOnce == \A r \in Refs : booked[r] <= 1

(* Whoever books holds the order, and still finds what it read.             *)
BookingTrue ==
  \A b \in Bookers :
    /\ booker[b].pc = "book" => lock = b
    /\ booker[b].pc = "book" /\ ~booker[b].seen => booked[booker[b].ref] = 0

LEMMA BookingSteps ==
  ASSUME RefundsAssumption, RefundsInv, BookingTrue, ReceiptsBookedOnce, [Next]_vars
  PROVE  BookingTrue' /\ ReceiptsBookedOnce'
<1>1. booked \in [Refs -> Nat] /\ booker \in [Bookers -> Booking]
  BY DEF RefundsInv, TypeOK, Booking
<1>2. CASE UNCHANGED <<booker, lock, booked>>
  BY <1>2 DEF BookingTrue, ReceiptsBookedOnce
<1>3. ASSUME NEW b \in Bookers, NEW r \in Refs, BeginBooking(b, r)
      PROVE  BookingTrue' /\ ReceiptsBookedOnce'
  <2>1. /\ lock = Nobody /\ lock' = b /\ UNCHANGED booked
        /\ booker' = [booker EXCEPT ![b] = [pc |-> "book", ref |-> r, seen |-> Booked(r)]]
    BY <1>3 DEF BeginBooking, OrderFree, SetBooker
  <2>2. \A c \in Bookers \ {b} : booker'[c] = booker[c] /\ booker[c].pc # "book"
    BY <1>1, <2>1 DEF BookingTrue, RefundsAssumption
  <2>3. /\ booker'[b].ref = r /\ booker'[b].seen = Booked(r)
        /\ ~Booked(r) => booked[r] = 0
    BY <1>1, <2>1 DEF Booked
  <2> QED BY <2>1, <2>2, <2>3 DEF BookingTrue, ReceiptsBookedOnce
<1>4. ASSUME NEW b \in Bookers, Book(b)
      PROVE  BookingTrue' /\ ReceiptsBookedOnce'
  <2>1. /\ booker[b].pc = "book" /\ booker' = [booker EXCEPT ![b] = IdleBooker]
        /\ \/ UNCHANGED booked
           \/ ~booker[b].seen /\ booked' = [booked EXCEPT ![booker[b].ref] = @ + 1]
    BY <1>4 DEF Book, SetBooker
  <2>2. booker'[b].pc # "book" BY <1>1, <2>1 DEF IdleBooker
  <2>3. \A c \in Bookers \ {b} : booker'[c] = booker[c] /\ booker[c].pc # "book"
    BY <1>1, <2>1 DEF BookingTrue
  <2>4. booker[b].ref \in Refs BY <2>1 DEF RefundsInv, PaidTrue
  <2>5. ReceiptsBookedOnce'
    BY <1>1, <2>1, <2>4 DEF BookingTrue, ReceiptsBookedOnce
  <2> QED BY <2>2, <2>3, <2>5 DEF BookingTrue
<1>5. [Next]_vars => \/ UNCHANGED <<booker, lock, booked>>
                     \/ \E b \in Bookers : Book(b) \/ \E r \in Refs : BeginBooking(b, r)
  BY DEF Next, vars, bookvars, Request, Approve, Claim, ExecutorStep, CallProvider, Mark,
         DieExecuting, BookerStep, DropReceipt, LeaseEnds, PermitEnds, RefundByHand, Complete,
         LaterCheckout
<1> QED BY <1>2, <1>3, <1>4, <1>5

(* Two jobs that bring the same receipt book it once, under the lock of the   *)
(* order, whichever of them comes first.                                   *)
THEOREM RefundsBookedOnce == Spec => []ReceiptsBookedOnce
<1>1. Init => BookingTrue /\ ReceiptsBookedOnce
  BY DEF Init, BookingTrue, ReceiptsBookedOnce, IdleBooker
<1>2. RefundsInv /\ BookingTrue /\ ReceiptsBookedOnce /\ [Next]_vars
        => BookingTrue' /\ ReceiptsBookedOnce'
  BY BookingSteps, RefundsAssumption
<1> QED BY <1>1, <1>2, RefundsInvariant, PTL DEF Spec

=============================================================================
