--------------------- MODULE InventoryTransactionsProofs ---------------------
(***************************************************************************)
(* Theorems about InventoryTransactions, for any number of sessions,        *)
(* reservations, locations and references and any quantities, with or       *)
(* without a catalog feed; the sums are about the rows no feed overwrites.  *)
(***************************************************************************)
EXTENDS InventoryTransactions, FiniteSums, TLAPS

-----------------------------------------------------------------------------
(* Types.  Each action that touches a transaction leaves one of its shape.  *)

LEMMA SetTxType ==
  ASSUME TypeOK, NEW s \in Sessions, NEW t \in Transaction, SetTx(s, t)
  PROVE  tx' \in [Sessions -> Transaction]
BY DEF TypeOK, SetTx

LEMMA NoTransactionType == NoTransaction \in Transaction
<1>1. AbsentHold \in HoldRow
  BY DEF AbsentHold, HoldRow, HoldStatus
<1>2. NoChange \in [Locations -> Change]
  BY DEF NoChange, Change
<1> QED BY <1>1, <1>2 DEF NoTransaction, Transaction

LEMMA TxFields ==
  ASSUME TypeOK, NEW s \in Sessions
  PROVE  /\ tx[s] \in Transaction
         /\ tx[s].holds \in [Holds -> HoldRow]
         /\ tx[s].events \subseteq Event
         /\ tx[s].moves \subseteq Movement
         /\ tx[s].legs \subseteq Leg
         /\ tx[s].delta \in [Locations -> Change]
         /\ tx[s].locked \subseteq Locations
BY DEF TypeOK, Transaction

LEMMA EventType ==
  ASSUME NEW e \in AllEventIds, NEW h \in Holds, NEW oh \in Int, NEW rv \in Int
  PROVE  EventOf(e, h, oh, rv) \in Event
BY DEF EventOf, Event

LEMMA LegType ==
  ASSUME NEW k \in Holds \cup References, NEW i \in Locations, NEW oh \in Int, NEW rv \in Int
  PROVE  LegOf(k, i, oh, rv) \in Leg
BY DEF LegOf, Leg

(* A reservation that exists names a location (part of the type invariant   *)
(* used below: an effect on it has a stock row to update).                 *)
Placed(r) == r.status # "absent" => r.at \in Locations

AllPlaced ==
  /\ \A h \in Holds : Placed(hold[h])
  /\ \A s \in Sessions, h \in Holds : Placed(tx[s].holds[h])

TypeInv == TypeOK /\ AllPlaced

LEMMA ReserveType ==
  ASSUME TypeInv, NEW s \in Sessions, NEW h \in Holds, NEW i \in Locations,
         NEW q \in Quantities, NEW timed \in BOOLEAN, Reserve(s, h, i, q, timed)
  PROVE  TypeInv'
<1> DEFINE r == [status |-> "reserved", at |-> i, quantity |-> q, returned |-> 0, timed |-> timed]
           t == [NoTransaction EXCEPT
                  !.phase = "stock", !.holds[h] = r,
                  !.events = {EventOf(ReserveEvent(h), h, 0, q)},
                  !.legs = {LegOf(h, i, 0, q)}]
<1>1. q \in Nat /\ q \in Int
  BY InventoryAssumption DEF Quantities
<1>2. r \in HoldRow /\ Placed(r)
  BY <1>1 DEF HoldRow, HoldStatus, Placed
<1>3. EventOf(ReserveEvent(h), h, 0, q) \in Event /\ LegOf(h, i, 0, q) \in Leg
  <2>1. ReserveEvent(h) \in AllEventIds
    BY DEF AllEventIds
  <2>2. h \in Holds \cup References /\ 0 \in Int
    OBVIOUS
  <2> QED BY <1>1, <2>1, <2>2, EventType, LegType
<1>4. t \in Transaction /\ \A g \in Holds : Placed(t.holds[g])
  BY <1>2, <1>3, NoTransactionType DEF Transaction, NoTransaction, Placed, AbsentHold
<1> HIDE DEF t
<1>5. SetTx(s, t)
  BY DEF Reserve, t
<1> QED BY <1>4, <1>5, SetTxType DEF Reserve, Stored, TypeInv, TypeOK, AllPlaced, SetTx

LEMMA LockRowType ==
  ASSUME TypeInv, NEW s \in Sessions, NEW h \in Holds, LockRow(s, h)
  PROVE  TypeInv'
<1> DEFINE t == [NoTransaction EXCEPT !.phase = "row", !.holds[h] = hold[h]]
<1>1. t \in Transaction /\ \A g \in Holds : Placed(t.holds[g])
  BY NoTransactionType DEF Transaction, NoTransaction, Placed, AbsentHold, TypeInv, TypeOK,
                           AllPlaced
<1> HIDE DEF t
<1>2. SetTx(s, t)
  BY DEF LockRow, t
<1> QED BY <1>1, <1>2, SetTxType DEF LockRow, Stored, TypeInv, TypeOK, AllPlaced, SetTx

LEMMA WriteRowType ==
  ASSUME TypeInv, NEW s \in Sessions, NEW h \in Holds, NEW r \in HoldRow, r.at \in Locations,
         NEW e \in AllEventIds, NEW oh \in Int, NEW rv \in Int,
         WriteRow(s, h, r, e, oh, rv), UNCHANGED Stored
  PROVE  TypeInv'
<1> DEFINE t == [tx[s] EXCEPT
                  !.phase = "stock", !.holds[h] = r,
                  !.events = {EventOf(e, h, oh, rv)},
                  !.legs = {LegOf(h, r.at, oh, rv)}]
<1>1. EventOf(e, h, oh, rv) \in Event /\ LegOf(h, r.at, oh, rv) \in Leg
  BY EventType, LegType
<1>2. tx[s] \in Transaction /\ \A g \in Holds : Placed(tx[s].holds[g])
  BY TxFields DEF TypeInv, AllPlaced
<1>3. t \in Transaction /\ \A g \in Holds : Placed(t.holds[g])
  BY <1>1, <1>2 DEF Transaction, Placed
<1> HIDE DEF t
<1>4. SetTx(s, t)
  BY DEF WriteRow, t
<1> QED BY <1>3, <1>4, SetTxType DEF Stored, TypeInv, TypeOK, AllPlaced, SetTx

LEMMA CloseType ==
  ASSUME TypeInv, NEW s \in Sessions, NEW kind \in {"ship", "cancel", "expire"},
         NEW e \in EventIds, Close(s, kind, e)
  PROVE  TypeInv'
<1>1. PICK h \in Touched(s) :
        /\ tx[s].holds[h].status = "reserved"
        /\ WriteRow(s, h, [tx[s].holds[h] EXCEPT !.status = ClosedStatus(kind), !.returned = 0],
                    e, IF kind = "ship" THEN -tx[s].holds[h].quantity ELSE 0,
                    -tx[s].holds[h].quantity)
  BY DEF Close
<1> DEFINE r == tx[s].holds[h]
           n == [r EXCEPT !.status = ClosedStatus(kind), !.returned = 0]
<1>2. h \in Holds /\ r \in HoldRow /\ r.at \in Locations /\ r.quantity \in Nat
  BY <1>1, TxFields DEF Touched, TypeInv, AllPlaced, Placed, HoldRow
<1>3. n \in HoldRow /\ n.at \in Locations
  BY <1>2 DEF HoldRow, HoldStatus, ClosedStatus
<1>4. e \in AllEventIds
  BY DEF AllEventIds
<1>5. -r.quantity \in Int /\ (IF kind = "ship" THEN -r.quantity ELSE 0) \in Int
  BY <1>2
<1> HIDE DEF n
<1>6. WriteRow(s, h, n, e, IF kind = "ship" THEN -r.quantity ELSE 0, -r.quantity)
  BY <1>1 DEF n
<1> QED BY <1>2, <1>3, <1>4, <1>5, <1>6, WriteRowType DEF Close

LEMMA ReturnType ==
  ASSUME TypeInv, NEW s \in Sessions, NEW u \in Quantities, NEW e \in EventIds, Return(s, u, e)
  PROVE  TypeInv'
<1>1. PICK h \in Touched(s) :
        /\ ReturnFits(tx[s].holds[h], u)
        /\ WriteRow(s, h, [tx[s].holds[h] EXCEPT
                             !.returned = tx[s].holds[h].returned + u,
                             !.status = IF tx[s].holds[h].returned + u = tx[s].holds[h].quantity
                                        THEN "returned" ELSE "shipped"], e, u, 0)
  BY DEF Return
<1> DEFINE r == tx[s].holds[h]
           n == [r EXCEPT !.returned = r.returned + u,
                          !.status = IF r.returned + u = r.quantity THEN "returned" ELSE "shipped"]
<1>2. h \in Holds /\ r \in HoldRow /\ r.at \in Locations /\ r.returned \in Nat
  BY <1>1, TxFields DEF Touched, TypeInv, AllPlaced, Placed, HoldRow
<1>3. u \in Nat
  BY InventoryAssumption DEF Quantities
<1>4. n \in HoldRow /\ n.at \in Locations
  <2> DEFINE b == r.returned + u
             c == IF b = r.quantity THEN "returned" ELSE "shipped"
  <2>1. b \in Nat /\ c \in HoldStatus
    BY <1>2, <1>3 DEF HoldStatus
  <2>2. n = [r EXCEPT !.returned = b, !.status = c]
    OBVIOUS
  <2> HIDE DEF b, c, n
  <2>3. n \in HoldRow /\ n.at = r.at
    BY <1>2, <2>1, <2>2 DEF HoldRow
  <2> QED BY <1>2, <2>3
<1>5. e \in AllEventIds
  BY DEF AllEventIds
<1> HIDE DEF n
<1>6. WriteRow(s, h, n, e, u, 0)
  BY <1>1 DEF n
<1> QED BY <1>2, <1>3, <1>4, <1>5, <1>6, WriteRowType DEF Return

LEMMA ExpireDueType ==
  ASSUME TypeInv, NEW s \in Sessions, ExpireDue(s)
  PROVE  TypeInv'
<1> DEFINE due == {h \in overdue : hold[h].status = "reserved" /\ RowFree(s, h)}
           rows == [h \in Holds |->
                      IF h \in due THEN [hold[h] EXCEPT !.status = "expired", !.returned = 0]
                      ELSE AbsentHold]
           evs == {EventOf(ExpireEvent(h), h, 0, -hold[h].quantity) : h \in due}
           lgs == {LegOf(h, hold[h].at, 0, -hold[h].quantity) : h \in due}
           t == [NoTransaction EXCEPT !.phase = "stock", !.holds = rows,
                                      !.events = evs, !.legs = lgs]
<1>1. \A h \in due : /\ h \in Holds /\ h \in Holds \cup References
                     /\ hold[h] \in HoldRow /\ hold[h].at \in Locations
                     /\ -hold[h].quantity \in Int /\ ExpireEvent(h) \in AllEventIds
  <2> SUFFICES ASSUME NEW h \in due
               PROVE  /\ h \in Holds /\ h \in Holds \cup References
                      /\ hold[h] \in HoldRow /\ hold[h].at \in Locations
                      /\ -hold[h].quantity \in Int /\ ExpireEvent(h) \in AllEventIds
    OBVIOUS
  <2>1. h \in Holds /\ hold[h] \in HoldRow /\ hold[h].at \in Locations
    BY DEF TypeInv, TypeOK, AllPlaced, Placed
  <2>2. -hold[h].quantity \in Int
    BY <2>1 DEF HoldRow
  <2>3. ExpireEvent(h) \in AllEventIds
    BY <2>1 DEF AllEventIds
  <2> QED BY <2>1, <2>2, <2>3
<1>2. rows \in [Holds -> HoldRow] /\ \A h \in Holds : Placed(rows[h])
  BY <1>1 DEF HoldRow, HoldStatus, AbsentHold, Placed
<1>3. evs \subseteq Event
  <2> HIDE DEF due
  <2> QED BY <1>1, EventType, 0 \in Int
<1>4. lgs \subseteq Leg
  <2> HIDE DEF due
  <2> QED BY <1>1, LegType, 0 \in Int
<1>5. SetTx(s, t)
  BY DEF ExpireDue
<1> HIDE DEF rows, evs, lgs
<1>6. t \in Transaction /\ t.holds = rows
  BY <1>2, <1>3, <1>4, NoTransactionType DEF Transaction
<1> HIDE DEF t
<1> QED BY <1>2, <1>5, <1>6, SetTxType DEF ExpireDue, Stored, TypeInv, TypeOK, AllPlaced, SetTx

LEMMA MoveType ==
  ASSUME TypeInv, NEW s \in Sessions, NEW t \in Transaction, t.holds = NoTransaction.holds,
         SetTx(s, t), UNCHANGED Stored
  PROVE  TypeInv'
<1>1. \A g \in Holds : Placed(t.holds[g])
  BY DEF NoTransaction, Placed, AbsentHold
<1> QED BY <1>1, SetTxType DEF Stored, TypeInv, TypeOK, AllPlaced, SetTx

LEMMA ReceiveType ==
  ASSUME TypeInv, NEW s \in Sessions, NEW r \in References, NEW i \in Locations,
         NEW q \in Quantities, Receive(s, r, i, q)
  PROVE  TypeInv'
<1> DEFINE M == {[ref |-> r, source |-> NoLocation, destination |-> i, quantity |-> q]}
           L == {LegOf(r, i, q, 0)}
           t == [NoTransaction EXCEPT !.phase = "stock", !.moves = M, !.legs = L]
<1>1. q \in Nat /\ q \in Int /\ 0 \in Int
  BY InventoryAssumption DEF Quantities
<1>2. M \in SUBSET Movement
  BY <1>1 DEF Movement
<1>3. L \in SUBSET Leg
  BY <1>1, LegType, r \in Holds \cup References
<1>4. SetTx(s, t)
  BY DEF Receive
<1> HIDE DEF M, L
<1>5. t \in Transaction /\ t.holds = NoTransaction.holds
  BY <1>2, <1>3, NoTransactionType DEF Transaction
<1> HIDE DEF t
<1> QED BY <1>4, <1>5, MoveType DEF Receive

LEMMA TransferType ==
  ASSUME TypeInv, NEW s \in Sessions, NEW r \in References, NEW i \in Locations,
         NEW j \in Locations, NEW q \in Quantities, Transfer(s, r, i, j, q)
  PROVE  TypeInv'
<1> DEFINE M == {[ref |-> r, source |-> i, destination |-> j, quantity |-> q]}
           L == {LegOf(r, i, -q, 0), LegOf(r, j, q, 0)}
           t == [NoTransaction EXCEPT !.phase = "stock", !.moves = M, !.legs = L, !.ordered = TRUE]
<1>1. q \in Nat /\ q \in Int /\ -q \in Int /\ 0 \in Int
  BY InventoryAssumption DEF Quantities
<1>2. M \in SUBSET Movement
  BY <1>1 DEF Movement
<1>3. L \in SUBSET Leg
  BY <1>1, LegType, r \in Holds \cup References
<1>4. SetTx(s, t)
  BY DEF Transfer
<1> HIDE DEF M, L
<1>5. t \in Transaction /\ t.holds = NoTransaction.holds
  BY <1>2, <1>3, NoTransactionType DEF Transaction
<1> HIDE DEF t
<1> QED BY <1>4, <1>5, MoveType DEF Transfer

LEMMA UpdateStockType ==
  ASSUME TypeInv, NEW s \in Sessions, NEW leg \in tx[s].legs, UpdateStock(s, leg)
  PROVE  TypeInv'
<1> DEFINE d == tx[s].delta[leg.at]
           c == [oh |-> d.oh + leg.oh, rv |-> d.rv + leg.rv]
           t == [tx[s] EXCEPT !.legs = tx[s].legs \ {leg},
                              !.locked = tx[s].locked \cup {leg.at},
                              !.delta = [tx[s].delta EXCEPT ![leg.at] = c]]
<1>1. leg \in Leg /\ leg.at \in Locations /\ leg.oh \in Int /\ leg.rv \in Int
  BY TxFields DEF TypeInv, Leg
<1>2. d \in Change
  BY <1>1, TxFields DEF TypeInv
<1>3. c \in Change
  BY <1>1, <1>2 DEF Change
<1>4. SetTx(s, t)
  <2>1. tx[s].delta \in [Locations -> Change]
    BY TxFields DEF TypeInv
  <2> QED BY <1>1, <2>1, TxFields DEF UpdateStock, SetTx, Transaction, TypeInv
<1> HIDE DEF c
<1>5. t \in Transaction /\ t.holds = tx[s].holds
  BY <1>1, <1>3, TxFields DEF Transaction, TypeInv
<1> HIDE DEF t
<1> QED BY <1>4, <1>5, SetTxType DEF UpdateStock, Stored, TypeInv, TypeOK, AllPlaced, SetTx

LEMMA SeenType ==
  ASSUME TypeOK, NEW s \in Sessions, NEW i \in Locations
  PROVE  Seen(s, i) \in StockRow
<1>1. stock[i] \in StockRow /\ tx[s].delta[i] \in Change
  BY TxFields DEF TypeOK
<1> QED BY <1>1 DEF Seen, Shift, StockRow, Change

LEMMA CommitType ==
  ASSUME TypeInv, NEW s \in Sessions, Commit(s)
  PROVE  TypeInv'
<1>1. stock' \in [Locations -> StockRow]
  BY SeenType DEF Commit, TypeInv
<1>2. hold' \in [Holds -> HoldRow] /\ \A h \in Holds : Placed(hold'[h])
  BY TxFields DEF Commit, TypeInv, TypeOK, AllPlaced
<1>3. events' \subseteq Event /\ moves' \subseteq Movement
  BY TxFields DEF Commit, TypeInv, TypeOK
<1>4. /\ tx' \in [Sessions -> Transaction]
      /\ \A p \in Sessions, h \in Holds : Placed(tx'[p].holds[h])
  <2>1. \A h \in Holds : Placed(NoTransaction.holds[h])
    BY DEF NoTransaction, AbsentHold, Placed
  <2> QED BY <2>1, NoTransactionType, SetTxType DEF Commit, SetTx, TypeInv, TypeOK, AllPlaced
<1> QED BY <1>1, <1>2, <1>3, <1>4 DEF Commit, TypeInv, TypeOK, AllPlaced, Placed

LEMMA RollbackType ==
  ASSUME TypeInv, NEW s \in Sessions, Rollback(s)
  PROVE  TypeInv'
<1>1. \A h \in Holds : Placed(NoTransaction.holds[h])
  BY DEF NoTransaction, AbsentHold, Placed
<1> QED BY <1>1, NoTransactionType, SetTxType
        DEF Rollback, Stored, SetTx, TypeInv, TypeOK, AllPlaced

(* Type correctness: what TypeOK says of every table and transaction.      *)
LEMMA TypeInit == Init => TypeInv
<1> SUFFICES ASSUME Init PROVE TypeInv
  OBVIOUS
<1>1. AbsentHold \in HoldRow /\ Placed(AbsentHold)
  BY DEF AbsentHold, HoldRow, HoldStatus, Placed
<1>2. \A i \in Locations : InitialStock[i] \in Int
  BY InventoryAssumption
<1>3. stock \in [Locations -> StockRow]
  BY <1>2 DEF Init, StockRow
<1> QED BY <1>1, <1>3, NoTransactionType
        DEF Init, TypeInv, TypeOK, AllPlaced, NoTransaction

LEMMA TypeNext ==
  ASSUME TypeInv, [Next]_vars
  PROVE  TypeInv'
<1>1. ASSUME NEW s \in Sessions, NEW h \in Holds, NEW i \in Locations, NEW q \in Quantities,
             NEW timed \in BOOLEAN, Reserve(s, h, i, q, timed)
      PROVE  TypeInv'
  BY <1>1, ReserveType
<1>2. ASSUME NEW s \in Sessions, NEW h \in Holds, LockRow(s, h)
      PROVE  TypeInv'
  BY <1>2, LockRowType
<1>3. ASSUME NEW s \in Sessions, NEW kind \in {"ship", "cancel", "expire"}, NEW e \in EventIds,
             Close(s, kind, e)
      PROVE  TypeInv'
  BY <1>3, CloseType
<1>4. ASSUME NEW s \in Sessions, NEW u \in Quantities, NEW e \in EventIds, Return(s, u, e)
      PROVE  TypeInv'
  BY <1>4, ReturnType
<1>5. ASSUME NEW s \in Sessions, ExpireDue(s)
      PROVE  TypeInv'
  BY <1>5, ExpireDueType
<1>6. ASSUME NEW s \in Sessions, NEW r \in References, NEW i \in Locations, NEW q \in Quantities,
             Receive(s, r, i, q)
      PROVE  TypeInv'
  BY <1>6, ReceiveType
<1>7. ASSUME NEW s \in Sessions, NEW r \in References, NEW i \in Locations, NEW j \in Locations,
             NEW q \in Quantities, Transfer(s, r, i, j, q)
      PROVE  TypeInv'
  BY <1>7, TransferType
<1>8. ASSUME NEW s \in Sessions, NEW leg \in tx[s].legs, UpdateStock(s, leg)
      PROVE  TypeInv'
  BY <1>8, UpdateStockType
<1>9. ASSUME NEW s \in Sessions, Commit(s) \/ Rollback(s)
      PROVE  TypeInv'
  BY <1>9, CommitType, RollbackType
<1>10. ASSUME NEW h \in Holds, DeadlinePasses(h)
       PROVE  TypeInv'
  BY <1>10 DEF DeadlinePasses, TypeInv, TypeOK, AllPlaced
<1>11. ASSUME NEW i \in FeedLocations, NEW q \in 0..MaxQuantity, Feed(i, q)
       PROVE  TypeInv'
  <2>1. q \in Int
    OBVIOUS
  <2>2. [on_hand |-> q, reserved |-> 0, available |-> q] \in StockRow
    BY <2>1 DEF StockRow
  <2> QED BY <1>11, <2>2 DEF Feed, TypeInv, TypeOK, AllPlaced
<1>12. ASSUME UNCHANGED vars
       PROVE  TypeInv'
  BY <1>12 DEF vars, TypeInv, TypeOK, AllPlaced
<1> QED BY <1>1, <1>2, <1>3, <1>4, <1>5, <1>6, <1>7, <1>8, <1>9, <1>10, <1>11, <1>12 DEF Next

LEMMA TypeInvariant == Spec => []TypeInv
BY TypeInit, TypeNext, PTL DEF Spec

(* The tables and the open transactions keep their shapes in every         *)
(* behaviour: inventory_level, inventory_reservation and the two ledgers.  *)
THEOREM TypeCorrect == Spec => []TypeOK
<1>1. TypeInv => TypeOK
  BY DEF TypeInv
<1> QED BY <1>1, TypeInvariant, PTL

-----------------------------------------------------------------------------
(* The stock row.  StockInv is inductive: a transaction's next UPDATE is    *)
(* guarded on the row as it sees it, and nobody else changes a row it has   *)
(* locked before it commits.                                               *)

(* Every step of a session leaves the other sessions' transactions alone.   *)
LEMMA SetTxOthers ==
  ASSUME TypeOK, NEW s \in Sessions, NEW t, SetTx(s, t)
  PROVE  tx'[s] = t /\ \A p \in Others(s) : p \in Sessions /\ tx'[p] = tx[p]
BY DEF TypeOK, SetTx, Others

(* What a session would commit depends on its own locks and sums only.      *)
LEMMA SeenUnchanged ==
  ASSUME stock' = stock, NEW p, tx'[p].locked = tx[p].locked, tx'[p].delta = tx[p].delta
  PROVE  SeenSound(p) => SeenSound(p)'
BY DEF SeenSound, Seen

(* A step that takes no stock row keeps StockInv.                          *)
LEMMA StockKept ==
  ASSUME TypeOK, StockInv, NEW s \in Sessions, NEW t, SetTx(s, t), stock' = stock,
         \/ t.locked = {} /\ t.delta = NoChange
         \/ t.locked = tx[s].locked /\ t.delta = tx[s].delta
  PROVE  StockInv'
<1>1. tx'[s] = t /\ \A p \in Others(s) : p \in Sessions /\ tx'[p] = tx[p]
  BY SetTxOthers
<1>2. StockSound'
  BY DEF StockInv, StockSound
<1>3. ASSUME NEW p \in Sessions PROVE SeenSound(p)'
  <2>1. CASE p # s
    BY <2>1, <1>1, SeenUnchanged DEF StockInv, Others
  <2>2. CASE p = s /\ t.locked = {} /\ t.delta = NoChange
    BY <2>2, <1>1 DEF SeenSound, NoChange
  <2>3. CASE p = s /\ t.locked = tx[s].locked /\ t.delta = tx[s].delta
    BY <2>3, <1>1, SeenUnchanged DEF StockInv
  <2> QED BY <2>1, <2>2, <2>3
<1>4. ASSUME NEW p \in Sessions, NEW o \in Others(p) PROVE StockExclusive(p, o)'
  BY <1>1 DEF StockInv, StockExclusive, Others
<1> QED BY <1>2, <1>3, <1>4 DEF StockInv, Others

LEMMA UpdateStockSound ==
  ASSUME TypeInv, StockInv, NEW s \in Sessions, NEW leg \in tx[s].legs, UpdateStock(s, leg)
  PROVE  StockInv'
<1> DEFINE i == leg.at
           d == tx[s].delta[i]
           c == [oh |-> d.oh + leg.oh, rv |-> d.rv + leg.rv]
           t == [tx[s] EXCEPT !.legs = tx[s].legs \ {leg},
                              !.locked = tx[s].locked \cup {i},
                              !.delta = [tx[s].delta EXCEPT ![i] = c]]
<1>1. leg \in Leg /\ i \in Locations /\ leg.oh \in Int /\ leg.rv \in Int
  BY TxFields DEF TypeInv, Leg
<1>2. /\ tx[s] \in Transaction /\ tx[s].delta \in [Locations -> Change]
      /\ tx[s].locked \subseteq Locations /\ d \in Change
  BY <1>1, TxFields DEF TypeInv
<1>3. SetTx(s, t)
  BY <1>1, <1>2 DEF UpdateStock, SetTx, Transaction
<1> HIDE DEF c
<1>4. /\ t.locked = tx[s].locked \cup {i}
      /\ t.delta = [tx[s].delta EXCEPT ![i] = c]
  BY <1>2 DEF Transaction
<1> HIDE DEF t
<1>5. tx'[s] = t /\ \A p \in Others(s) : p \in Sessions /\ tx'[p] = tx[p]
  BY <1>3, SetTxOthers DEF TypeInv
<1>6. stock' = stock
  BY DEF UpdateStock, Stored
<1>7. StockSound'
  BY <1>6 DEF StockInv, StockSound
<1>8. SeenSound(s)'
  <2>1. Seen(s, i) \in StockRow /\ stock[i] \in StockRow
    BY <1>1, SeenType DEF TypeInv, TypeOK
  <2>2. Seen(s, i) = Shift(stock[i], d)
    <3>1. CASE i \in tx[s].locked
      BY <3>1 DEF Seen
    <3>2. CASE i \notin tx[s].locked
      <4>1. d.oh = 0 /\ d.rv = 0
        BY <1>1, <3>2 DEF StockInv, SeenSound
      <4>2. stock[i].available = stock[i].on_hand - stock[i].reserved
        BY <1>1 DEF StockInv, StockSound
      <4> QED BY <2>1, <3>2, <4>1, <4>2 DEF Seen, Shift, StockRow
    <3> QED BY <3>1, <3>2
  <2>3. /\ Seen(s, i)'.reserved = Seen(s, i).reserved + leg.rv
        /\ Seen(s, i)'.on_hand = Seen(s, i).on_hand + leg.oh
    <3>1. Seen(s, i)' = Shift(stock[i], c)
      BY <1>1, <1>2, <1>4, <1>5, <1>6 DEF Seen
    <3> QED BY <1>1, <1>2, <2>1, <2>2, <3>1 DEF Shift, StockRow, Change, c
  <2>4. 0 <= Seen(s, i)'.reserved /\ Seen(s, i)'.reserved <= Seen(s, i)'.on_hand
    BY <1>1, <2>1, <2>3 DEF UpdateStock, StockAllows, StockRow
  <2>5. ASSUME NEW j \in tx'[s].locked
        PROVE  0 <= Seen(s, j)'.reserved /\ Seen(s, j)'.reserved <= Seen(s, j)'.on_hand
    <3>1. CASE j = i
      BY <2>4, <3>1
    <3>2. CASE j # i
      <4>1. j \in tx[s].locked /\ j \in Locations
        BY <1>2, <1>4, <1>5, <3>2
      <4>2. Seen(s, j)' = Seen(s, j)
        BY <1>2, <1>4, <1>5, <1>6, <3>2, <4>1 DEF Seen
      <4> QED BY <4>1, <4>2 DEF StockInv, SeenSound
    <3> QED BY <3>1, <3>2
  <2>6. ASSUME NEW j \in Locations \ tx'[s].locked
        PROVE  tx'[s].delta[j] = [oh |-> 0, rv |-> 0]
    BY <1>2, <1>4, <1>5 DEF StockInv, SeenSound
  <2> QED BY <2>5, <2>6 DEF SeenSound, Seen
<1>9. ASSUME NEW p \in Others(s) PROVE SeenSound(p)'
  BY <1>5, <1>6, SeenUnchanged DEF StockInv
<1>10. ASSUME NEW p \in Sessions, NEW o \in Others(p) PROVE StockExclusive(p, o)'
  BY <1>4, <1>5 DEF StockInv, StockExclusive, Others, UpdateStock, StockFree
<1> QED BY <1>7, <1>8, <1>9, <1>10 DEF StockInv, Others

LEMMA CommitSound ==
  ASSUME TypeInv, StockInv, NEW s \in Sessions, Commit(s)
  PROVE  StockInv'
<1>1. tx'[s] = NoTransaction /\ \A p \in Others(s) : p \in Sessions /\ tx'[p] = tx[p]
  BY SetTxOthers DEF Commit, TypeInv
<1>2. \A i \in Locations : stock'[i] = Seen(s, i)
  BY DEF Commit
<1>3. StockSound'
  <2> SUFFICES ASSUME NEW i \in Locations
               PROVE  /\ stock'[i].available = stock'[i].on_hand - stock'[i].reserved
                      /\ 0 <= stock'[i].reserved /\ stock'[i].reserved <= stock'[i].on_hand
    BY DEF StockSound
  <2>1. CASE i \in tx[s].locked
    <3>1. Seen(s, i).available = Seen(s, i).on_hand - Seen(s, i).reserved
      <4>1. stock[i] \in StockRow /\ tx[s].delta[i] \in Change
        BY TxFields DEF TypeInv, TypeOK
      <4> QED BY <2>1, <4>1 DEF Seen, Shift, StockRow, Change
    <3> QED BY <1>2, <2>1, <3>1 DEF StockInv, SeenSound
  <2>2. CASE i \notin tx[s].locked
    BY <1>2, <2>2 DEF Seen, StockInv, StockSound
  <2> QED BY <2>1, <2>2
<1>4. SeenSound(s)'
  BY <1>1 DEF SeenSound, NoTransaction, NoChange
<1>5. ASSUME NEW p \in Others(s) PROVE SeenSound(p)'
  <2>1. tx[p].locked \cap tx[s].locked = {} /\ SeenSound(p) /\ p \in Sessions
    BY <1>1 DEF StockInv, StockExclusive, Others
  <2>2. tx[p].locked \subseteq Locations
    BY <2>1, TxFields DEF TypeInv
  <2>3. \A i \in tx[p].locked : stock'[i] = stock[i]
    BY <1>2, <2>1, <2>2 DEF Seen
  <2>4. \A i \in tx[p].locked : Seen(p, i)' = Seen(p, i)
    BY <1>1, <2>3 DEF Seen
  <2> QED BY <1>1, <2>1, <2>4 DEF SeenSound
<1>6. ASSUME NEW p \in Sessions, NEW o \in Others(p) PROVE StockExclusive(p, o)'
  BY <1>1 DEF StockInv, StockExclusive, Others, NoTransaction
<1> QED BY <1>3, <1>4, <1>5, <1>6 DEF StockInv, Others

LEMMA FeedSound ==
  ASSUME TypeInv, StockInv, NEW i \in FeedLocations, NEW q \in 0..MaxQuantity, Feed(i, q)
  PROVE  StockInv'
<1>1. i \in Locations /\ q \in Int /\ 0 <= q
  BY InventoryAssumption
<1>2. /\ stock'[i] = [on_hand |-> q, reserved |-> 0, available |-> q]
      /\ \A j \in Locations \ {i} : stock'[j] = stock[j]
  BY <1>1 DEF Feed, TypeInv, TypeOK
<1>3. StockSound'
  BY <1>1, <1>2 DEF StockInv, StockSound
<1>4. ASSUME NEW p \in Sessions PROVE SeenSound(p)'
  <2>1. tx' = tx /\ i \notin tx[p].locked /\ tx[p].locked \subseteq Locations
    BY TxFields DEF Feed, TypeInv
  <2>2. \A j \in tx[p].locked : Seen(p, j)' = Seen(p, j)
    BY <1>2, <2>1 DEF Seen
  <2> QED BY <2>1, <2>2 DEF StockInv, SeenSound
<1> QED BY <1>3, <1>4 DEF StockInv, StockExclusive, Feed

LEMMA StockNext ==
  ASSUME TypeInv, StockInv, [Next]_vars
  PROVE  StockInv'
<1> USE DEF TypeInv
<1>1. ASSUME NEW s \in Sessions, NEW h \in Holds, NEW i \in Locations, NEW q \in Quantities,
             NEW timed \in BOOLEAN, Reserve(s, h, i, q, timed)
      PROVE  StockInv'
  BY <1>1, StockKept DEF Reserve, Stored, NoTransaction
<1>2. ASSUME NEW s \in Sessions, NEW h \in Holds, LockRow(s, h)
      PROVE  StockInv'
  BY <1>2, StockKept DEF LockRow, Stored, NoTransaction
<1>3. ASSUME NEW s \in Sessions, NEW h, NEW r, NEW e, NEW oh, NEW rv,
             WriteRow(s, h, r, e, oh, rv), UNCHANGED Stored
      PROVE  StockInv'
  <2>1. tx[s] \in Transaction
    BY TxFields
  <2> QED BY <1>3, <2>1, StockKept DEF WriteRow, Stored, Transaction
<1>4. ASSUME NEW s \in Sessions, NEW kind \in {"ship", "cancel", "expire"}, NEW e \in EventIds,
             Close(s, kind, e)
      PROVE  StockInv'
  BY <1>3, <1>4 DEF Close
<1>5. ASSUME NEW s \in Sessions, NEW u \in Quantities, NEW e \in EventIds, Return(s, u, e)
      PROVE  StockInv'
  BY <1>3, <1>5 DEF Return
<1>6. ASSUME NEW s \in Sessions, ExpireDue(s)
      PROVE  StockInv'
  BY <1>6, StockKept DEF ExpireDue, Stored, NoTransaction
<1>7. ASSUME NEW s \in Sessions, NEW r \in References, NEW i \in Locations, NEW q \in Quantities,
             Receive(s, r, i, q)
      PROVE  StockInv'
  BY <1>7, StockKept DEF Receive, Stored, NoTransaction
<1>8. ASSUME NEW s \in Sessions, NEW r \in References, NEW i \in Locations, NEW j \in Locations,
             NEW q \in Quantities, Transfer(s, r, i, j, q)
      PROVE  StockInv'
  BY <1>8, StockKept DEF Transfer, Stored, NoTransaction
<1>9. ASSUME NEW s \in Sessions, NEW leg \in tx[s].legs, UpdateStock(s, leg)
      PROVE  StockInv'
  BY <1>9, UpdateStockSound
<1>10. ASSUME NEW s \in Sessions, Commit(s)
       PROVE  StockInv'
  BY <1>10, CommitSound
<1>11. ASSUME NEW s \in Sessions, Rollback(s)
       PROVE  StockInv'
  BY <1>11, StockKept DEF Rollback, Stored, NoTransaction
<1>12. ASSUME NEW h \in Holds, DeadlinePasses(h)
       PROVE  StockInv'
  BY <1>12 DEF DeadlinePasses, StockInv, StockSound, SeenSound, Seen, StockExclusive
<1>13. ASSUME NEW i \in FeedLocations, NEW q \in 0..MaxQuantity, Feed(i, q)
       PROVE  StockInv'
  BY <1>13, FeedSound
<1>14. ASSUME UNCHANGED vars
       PROVE  StockInv'
  BY <1>14 DEF vars, StockInv, StockSound, SeenSound, Seen, StockExclusive
<1> QED BY <1>1, <1>2, <1>4, <1>5, <1>6, <1>7, <1>8, <1>9, <1>10, <1>11, <1>12, <1>13, <1>14
        DEF Next

LEMMA StockInit == Init => StockInv
<1> SUFFICES ASSUME Init PROVE StockInv
  OBVIOUS
<1>1. StockSound
  BY InventoryAssumption DEF Init, StockSound
<1> QED BY <1>1 DEF Init, StockInv, SeenSound, StockExclusive, Others, NoTransaction, NoChange

(* The stock row stays sound whatever reservations, shipments, transfers    *)
(* and feeds race for it: nothing is reserved that is not on hand, and      *)
(* `available` is never stale.                                             *)
THEOREM StockAlwaysSound == Spec => []StockSound
<1>1. StockInv => StockSound
  BY DEF StockInv
<1> QED BY <1>1, StockInit, TypeInvariant, StockNext, PTL DEF Spec

-----------------------------------------------------------------------------
(* The reservations.  HoldInv is inductive: a reservation row is written    *)
(* only by the transaction that locked it, and it is still what was read.   *)

(* A step that stores nothing, takes only free rows and plans changes that  *)
(* follow keeps HoldInv.                                                   *)
LEMMA HoldKept ==
  ASSUME TypeOK, HoldInv, NEW s \in Sessions, NEW t, SetTx(s, t), hold' = hold,
         \A h \in Touched(s)' : h \in Touched(s) \/ RowFree(s, h),
         WritesFollow(s)'
  PROVE  HoldInv'
<1>1. tx'[s] = t /\ \A p \in Others(s) : p \in Sessions /\ tx'[p] = tx[p]
  BY SetTxOthers
<1>2. ReturnsBounded'
  BY DEF HoldInv, ReturnsBounded
<1>3. \A p \in Others(s) : Touched(p)' = Touched(p)
  BY <1>1 DEF Touched
<1>4. ASSUME NEW p \in Others(s) PROVE WritesFollow(p)'
  BY <1>1, <1>3 DEF HoldInv, WritesFollow
<1>5. ASSUME NEW p \in Others(s) PROVE Touched(s)' \cap Touched(p)' = {}
  BY <1>1, <1>3 DEF HoldInv, RowsExclusive, RowFree, Others
<1>6. ASSUME NEW p \in Sessions, NEW o \in Others(p) PROVE RowsExclusive(p, o)'
  <2>1. CASE p = s
    BY <1>5, <2>1 DEF RowsExclusive
  <2>2. CASE o = s
    BY <1>5, <2>2 DEF RowsExclusive, Others
  <2>3. CASE p # s /\ o # s
    BY <1>3, <2>3 DEF HoldInv, RowsExclusive, Others
  <2> QED BY <2>1, <2>2, <2>3
<1> QED BY <1>2, <1>4, <1>6 DEF HoldInv, Others

(* A step that leaves the session no reservation row keeps HoldInv.         *)
LEMMA HoldDropped ==
  ASSUME TypeOK, HoldInv, NEW s \in Sessions, NEW t, SetTx(s, t), hold' = hold,
         t.holds = NoTransaction.holds
  PROVE  HoldInv'
<1>1. tx'[s] = t
  BY SetTxOthers
<1>2. Touched(s)' = {}
  BY <1>1 DEF Touched, NoTransaction, AbsentHold
<1> QED BY <1>2, HoldKept DEF WritesFollow

LEMMA ReserveFollows ==
  ASSUME TypeInv, HoldInv, NEW s \in Sessions, NEW h \in Holds, NEW i \in Locations,
         NEW q \in Quantities, NEW timed \in BOOLEAN, Reserve(s, h, i, q, timed)
  PROVE  HoldInv'
<1> DEFINE r == [status |-> "reserved", at |-> i, quantity |-> q, returned |-> 0, timed |-> timed]
           t == [NoTransaction EXCEPT
                  !.phase = "stock", !.holds[h] = r,
                  !.events = {EventOf(ReserveEvent(h), h, 0, q)},
                  !.legs = {LegOf(h, i, 0, q)}]
<1>1. RowSound(r)
  BY InventoryAssumption DEF RowSound, Quantities
<1>2. Follows(hold[h], r)
  BY DEF Follows, Reserve
<1>3. SetTx(s, t)
  BY DEF Reserve
<1>4. t.phase = "stock" /\ t.holds = [g \in Holds |-> IF g = h THEN r ELSE AbsentHold]
  BY DEF NoTransaction
<1> HIDE DEF t, r
<1>5. tx'[s] = t
  BY <1>3, SetTxOthers DEF TypeInv
<1>6. Touched(s)' \subseteq {h}
  BY <1>4, <1>5 DEF Touched, AbsentHold
<1>7. hold' = hold
  BY DEF Reserve, Stored
<1>8. WritesFollow(s)'
  BY <1>1, <1>2, <1>4, <1>5, <1>6, <1>7 DEF WritesFollow
<1>9. RowFree(s, h)
  BY DEF Reserve
<1> QED BY <1>3, <1>6, <1>7, <1>8, <1>9, HoldKept DEF TypeInv

LEMMA LockRowFollows ==
  ASSUME TypeInv, HoldInv, NEW s \in Sessions, NEW h \in Holds, LockRow(s, h)
  PROVE  HoldInv'
<1> DEFINE t == [NoTransaction EXCEPT !.phase = "row", !.holds[h] = hold[h]]
<1>1. SetTx(s, t)
  BY DEF LockRow
<1>2. t.phase = "row" /\ t.holds = [g \in Holds |-> IF g = h THEN hold[h] ELSE AbsentHold]
  BY DEF NoTransaction
<1> HIDE DEF t
<1>3. tx'[s] = t
  BY <1>1, SetTxOthers DEF TypeInv
<1>4. hold' = hold /\ hold[h].status # "absent"
  BY DEF LockRow, Stored
<1>5. Touched(s)' = {h}
  BY <1>2, <1>3, <1>4 DEF Touched, AbsentHold
<1>6. WritesFollow(s)'
  BY <1>2, <1>3, <1>4, <1>5 DEF WritesFollow, HoldInv, ReturnsBounded
<1>7. RowFree(s, h)
  BY DEF LockRow
<1> QED BY <1>1, <1>4, <1>5, <1>6, <1>7, HoldKept DEF TypeInv

LEMMA WriteRowFollows ==
  ASSUME TypeInv, HoldInv, NEW s \in Sessions, tx[s].phase = "row", NEW h \in Touched(s),
         NEW r, NEW e, NEW oh, NEW rv, WriteRow(s, h, r, e, oh, rv), UNCHANGED Stored,
         Follows(tx[s].holds[h], r), RowSound(r)
  PROVE  HoldInv'
<1> DEFINE t == [tx[s] EXCEPT
                  !.phase = "stock", !.holds[h] = r,
                  !.events = {EventOf(e, h, oh, rv)},
                  !.legs = {LegOf(h, r.at, oh, rv)}]
<1>1. tx[s] \in Transaction /\ tx[s].holds \in [Holds -> HoldRow]
  BY TxFields DEF TypeInv
<1>2. tx[s].holds[h] = hold[h] /\ Touched(s) = {h} /\ h \in Holds
  BY DEF HoldInv, WritesFollow, Touched
<1>3. SetTx(s, t)
  BY DEF WriteRow
<1>4. t.phase = "stock" /\ t.holds = [tx[s].holds EXCEPT ![h] = r]
  BY <1>1 DEF Transaction
<1> HIDE DEF t
<1>5. tx'[s] = t
  BY <1>3, SetTxOthers DEF TypeInv
<1>6. hold' = hold
  BY DEF Stored
<1>7. Touched(s)' \subseteq {h}
  BY <1>1, <1>2, <1>4, <1>5 DEF Touched
<1>8. tx'[s].phase = "stock" /\ tx'[s].holds[h] = r
  BY <1>1, <1>2, <1>4, <1>5
<1>9. WritesFollow(s)'
  BY <1>2, <1>6, <1>7, <1>8 DEF WritesFollow
<1> QED BY <1>2, <1>3, <1>6, <1>7, <1>9, HoldKept DEF TypeInv

(* A locked reservation has the type of one, and RowSound of what is stored. *)
LEMMA TouchedRow ==
  ASSUME TypeInv, HoldInv, NEW s \in Sessions, NEW h \in Touched(s)
  PROVE  /\ h \in Holds /\ tx[s].holds[h] \in HoldRow /\ RowSound(tx[s].holds[h])
         /\ tx[s].holds[h].status # "absent"
         /\ tx[s].holds[h].quantity \in Nat /\ tx[s].holds[h].returned \in Nat
<1>1. h \in Holds /\ tx[s].holds[h] \in HoldRow /\ tx[s].holds[h].status # "absent"
  BY TxFields DEF TypeInv, Touched
<1>2. tx[s].holds[h].quantity \in Nat /\ tx[s].holds[h].returned \in Nat
  BY <1>1 DEF HoldRow
<1>3. RowSound(tx[s].holds[h])
  BY DEF HoldInv, WritesFollow
<1> QED BY <1>1, <1>2, <1>3

LEMMA CloseFollows ==
  ASSUME TypeInv, HoldInv, NEW s \in Sessions, NEW kind \in {"ship", "cancel", "expire"},
         NEW e \in EventIds, Close(s, kind, e)
  PROVE  HoldInv'
<1>1. PICK h \in Touched(s) :
        /\ tx[s].holds[h].status = "reserved"
        /\ WriteRow(s, h, [tx[s].holds[h] EXCEPT !.status = ClosedStatus(kind), !.returned = 0],
                    e, IF kind = "ship" THEN -tx[s].holds[h].quantity ELSE 0,
                    -tx[s].holds[h].quantity)
  BY DEF Close
<1> DEFINE r == tx[s].holds[h]
           n == [r EXCEPT !.status = ClosedStatus(kind), !.returned = 0]
<1>2. r \in HoldRow /\ RowSound(r) /\ r.quantity \in Nat
  BY TouchedRow
<1>3. ClosedStatus(kind) \in {"shipped", "cancelled", "expired"}
  BY DEF ClosedStatus
<1>4. /\ n.status = ClosedStatus(kind) /\ n.returned = 0
      /\ n.at = r.at /\ n.quantity = r.quantity
  BY <1>2 DEF HoldRow
<1>5. WriteRow(s, h, n, e, IF kind = "ship" THEN -r.quantity ELSE 0, -r.quantity)
  BY <1>1
<1> HIDE DEF n
<1>6. Follows(r, n)
  BY <1>1, <1>3, <1>4 DEF Follows
<1>7. RowSound(n)
  BY <1>1, <1>2, <1>3, <1>4 DEF RowSound
<1> QED BY <1>5, <1>6, <1>7, WriteRowFollows DEF Close

LEMMA ReturnFollows ==
  ASSUME TypeInv, HoldInv, NEW s \in Sessions, NEW u \in Quantities, NEW e \in EventIds,
         Return(s, u, e)
  PROVE  HoldInv'
<1>1. PICK h \in Touched(s) :
        /\ ReturnFits(tx[s].holds[h], u)
        /\ WriteRow(s, h, [tx[s].holds[h] EXCEPT
                             !.returned = tx[s].holds[h].returned + u,
                             !.status = IF tx[s].holds[h].returned + u = tx[s].holds[h].quantity
                                        THEN "returned" ELSE "shipped"], e, u, 0)
  BY DEF Return
<1> DEFINE r == tx[s].holds[h]
           b == r.returned + u
           c == IF b = r.quantity THEN "returned" ELSE "shipped"
           n == [r EXCEPT !.returned = b, !.status = c]
<1>2. r \in HoldRow /\ RowSound(r) /\ r.quantity \in Nat /\ r.returned \in Nat
  BY TouchedRow
<1>3. u \in Nat /\ u > 0
  BY InventoryAssumption DEF Quantities
<1>4. r.status = "shipped" /\ b <= r.quantity
  BY <1>1, <1>2, <1>3 DEF ReturnFits, RowSound
<1>5. WriteRow(s, h, n, e, u, 0)
  BY <1>1
<1> HIDE DEF b, c
<1>6. n.status = c /\ n.returned = b /\ n.at = r.at /\ n.quantity = r.quantity
  BY <1>2 DEF HoldRow
<1> HIDE DEF n
<1>7. Follows(r, n)
  BY <1>2, <1>3, <1>4, <1>6 DEF Follows, b, c
<1>8. RowSound(n)
  BY <1>2, <1>3, <1>4, <1>6 DEF RowSound, b, c
<1> QED BY <1>5, <1>7, <1>8, WriteRowFollows DEF Return

LEMMA ExpireDueFollows ==
  ASSUME TypeInv, HoldInv, NEW s \in Sessions, ExpireDue(s)
  PROVE  HoldInv'
<1> DEFINE due == {h \in overdue : hold[h].status = "reserved" /\ RowFree(s, h)}
           rows == [h \in Holds |->
                      IF h \in due THEN [hold[h] EXCEPT !.status = "expired", !.returned = 0]
                      ELSE AbsentHold]
           t == [NoTransaction EXCEPT
                  !.phase = "stock", !.holds = rows,
                  !.events = {EventOf(ExpireEvent(h), h, 0, -hold[h].quantity) : h \in due},
                  !.legs = {LegOf(h, hold[h].at, 0, -hold[h].quantity) : h \in due}]
<1>1. SetTx(s, t)
  BY DEF ExpireDue
<1>2. t.phase = "stock" /\ t.holds = rows
  BY DEF NoTransaction
<1> HIDE DEF t
<1>3. tx'[s] = t
  BY <1>1, SetTxOthers DEF TypeInv
<1>4. hold' = hold
  BY DEF ExpireDue, Stored
<1>5. Touched(s)' \subseteq due
  <2>1. \A h \in Holds : h \notin due => rows[h].status = "absent"
    <3> HIDE DEF due
    <3> QED BY DEF AbsentHold
  <2> HIDE DEF due, rows
  <2> QED BY <1>2, <1>3, <2>1 DEF Touched
<1>6. ASSUME NEW h \in due
      PROVE  Follows(hold[h], rows[h]) /\ RowSound(rows[h])
  <2>1. h \in Holds /\ hold[h] \in HoldRow /\ RowSound(hold[h])
    BY DEF TypeInv, TypeOK, HoldInv, ReturnsBounded
  <2>2. /\ rows[h].status = "expired" /\ rows[h].returned = 0
        /\ rows[h].at = hold[h].at /\ rows[h].quantity = hold[h].quantity
    BY <2>1 DEF HoldRow
  <2>3. hold[h].quantity \in Nat
    BY <2>1 DEF HoldRow
  <2> HIDE DEF rows
  <2> QED BY <2>1, <2>2, <2>3 DEF Follows, RowSound
<1>7. WritesFollow(s)'
  <2> HIDE DEF due, rows
  <2> QED BY <1>2, <1>3, <1>4, <1>5, <1>6 DEF WritesFollow
<1>8. \A h \in due : RowFree(s, h)
  OBVIOUS
<1> HIDE DEF due, rows
<1> QED BY <1>1, <1>4, <1>5, <1>7, <1>8, HoldKept DEF TypeInv

(* What a commit makes of a reservation.                                   *)
LEMMA CommitFollows ==
  ASSUME TypeInv, HoldInv, NEW s \in Sessions, Commit(s), NEW h \in Holds
  PROVE  /\ h \in Touched(s) => hold'[h] = tx[s].holds[h] /\ Follows(hold[h], hold'[h])
         /\ h \notin Touched(s) => hold'[h] = hold[h]
<1>1. tx[s].phase = "stock"
  BY DEF Commit
<1> QED BY <1>1 DEF Commit, HoldInv, WritesFollow

LEMMA CommitKeeps ==
  ASSUME TypeInv, HoldInv, NEW s \in Sessions, Commit(s)
  PROVE  HoldInv'
<1>1. tx'[s] = NoTransaction /\ \A p \in Others(s) : p \in Sessions /\ tx'[p] = tx[p]
  BY SetTxOthers DEF Commit, TypeInv
<1>2. Touched(s)' = {}
  BY <1>1 DEF Touched, NoTransaction, AbsentHold
<1>3. \A p \in Others(s) : Touched(p)' = Touched(p)
  BY <1>1 DEF Touched
<1>4. ReturnsBounded'
  BY CommitFollows, TouchedRow DEF ReturnsBounded, HoldInv
<1>5. ASSUME NEW p \in Others(s) PROVE WritesFollow(p)'
  <2>1. Touched(p) \cap Touched(s) = {} /\ WritesFollow(p)
    BY <1>1 DEF HoldInv, RowsExclusive, Others
  <2>2. \A h \in Touched(p) : hold'[h] = hold[h]
    BY <2>1, CommitFollows DEF Touched
  <2> QED BY <1>1, <1>3, <2>1, <2>2 DEF WritesFollow
<1>6. WritesFollow(s)'
  BY <1>2 DEF WritesFollow
<1>7. ASSUME NEW p \in Sessions, NEW o \in Others(p) PROVE RowsExclusive(p, o)'
  BY <1>2, <1>3 DEF HoldInv, RowsExclusive, Others
<1> QED BY <1>4, <1>5, <1>6, <1>7 DEF HoldInv, Others

LEMMA HoldNext ==
  ASSUME TypeInv, HoldInv, [Next]_vars
  PROVE  /\ HoldInv'
         /\ \A h \in Holds : hold'[h] = hold[h] \/ Follows(hold[h], hold'[h])
<1> USE DEF TypeInv
<1>1. ASSUME NEW s \in Sessions, NEW h \in Holds, NEW i \in Locations, NEW q \in Quantities,
             NEW timed \in BOOLEAN, Reserve(s, h, i, q, timed)
      PROVE  HoldInv' /\ hold' = hold
  BY <1>1, ReserveFollows DEF Reserve, Stored
<1>2. ASSUME NEW s \in Sessions, NEW h \in Holds, LockRow(s, h)
      PROVE  HoldInv' /\ hold' = hold
  BY <1>2, LockRowFollows DEF LockRow, Stored
<1>3. ASSUME NEW s \in Sessions, NEW kind \in {"ship", "cancel", "expire"}, NEW e \in EventIds,
             Close(s, kind, e)
      PROVE  HoldInv' /\ hold' = hold
  BY <1>3, CloseFollows DEF Close, Stored
<1>4. ASSUME NEW s \in Sessions, NEW u \in Quantities, NEW e \in EventIds, Return(s, u, e)
      PROVE  HoldInv' /\ hold' = hold
  BY <1>4, ReturnFollows DEF Return, Stored
<1>5. ASSUME NEW s \in Sessions, ExpireDue(s)
      PROVE  HoldInv' /\ hold' = hold
  BY <1>5, ExpireDueFollows DEF ExpireDue, Stored
<1>6. ASSUME NEW s \in Sessions, NEW r \in References, NEW i \in Locations, NEW q \in Quantities,
             Receive(s, r, i, q)
      PROVE  HoldInv' /\ hold' = hold
  BY <1>6, HoldDropped DEF Receive, Stored, NoTransaction
<1>7. ASSUME NEW s \in Sessions, NEW r \in References, NEW i \in Locations, NEW j \in Locations,
             NEW q \in Quantities, Transfer(s, r, i, j, q)
      PROVE  HoldInv' /\ hold' = hold
  BY <1>7, HoldDropped DEF Transfer, Stored, NoTransaction
<1>8. ASSUME NEW s \in Sessions, NEW leg \in tx[s].legs, UpdateStock(s, leg)
      PROVE  HoldInv' /\ hold' = hold
  <2> DEFINE t == tx'[s]
  <2>1. hold' = hold
    BY <1>8 DEF UpdateStock, Stored
  <2>2. /\ tx' = [tx EXCEPT ![s] = t] /\ tx[s] \in Transaction
        /\ t.holds = tx[s].holds /\ t.phase = tx[s].phase
    BY <1>8, TxFields DEF UpdateStock, SetTx, TypeOK, Transaction
  <2>3. Touched(s)' = Touched(s)
    BY <2>2 DEF Touched
  <2>4. WritesFollow(s)'
    BY <2>1, <2>2, <2>3 DEF HoldInv, WritesFollow
  <2> QED BY <2>1, <2>2, <2>3, <2>4, HoldKept DEF SetTx
<1>9. ASSUME NEW s \in Sessions, Commit(s)
      PROVE  HoldInv' /\ \A h \in Holds : hold'[h] = hold[h] \/ Follows(hold[h], hold'[h])
  BY <1>9, CommitKeeps, CommitFollows
<1>10. ASSUME NEW s \in Sessions, Rollback(s)
       PROVE  HoldInv' /\ hold' = hold
  BY <1>10, HoldDropped DEF Rollback, Stored
<1>11. ASSUME hold' = hold, tx' = tx
       PROVE  HoldInv'
  BY <1>11 DEF HoldInv, ReturnsBounded, WritesFollow, RowsExclusive, Touched
<1>12. ASSUME NEW h \in Holds, DeadlinePasses(h)
       PROVE  HoldInv' /\ hold' = hold
  BY <1>11, <1>12 DEF DeadlinePasses
<1>13. ASSUME NEW i \in FeedLocations, NEW q \in 0..MaxQuantity, Feed(i, q)
       PROVE  HoldInv' /\ hold' = hold
  BY <1>11, <1>13 DEF Feed
<1>14. ASSUME UNCHANGED vars
       PROVE  HoldInv' /\ hold' = hold
  BY <1>11, <1>14 DEF vars
<1> QED BY <1>1, <1>2, <1>3, <1>4, <1>5, <1>6, <1>7, <1>8, <1>9, <1>10, <1>12, <1>13, <1>14
        DEF Next

LEMMA HoldInit == Init => HoldInv
BY DEF Init, HoldInv, ReturnsBounded, RowSound, AbsentHold, WritesFollow, RowsExclusive,
       Touched, Others, NoTransaction

(* Over any number of returns of a reservation, in any sessions, no more    *)
(* comes back than was shipped.                                            *)
THEOREM ReturnsNeverExceed == Spec => []ReturnsBounded
<1>1. HoldInv => ReturnsBounded
  BY DEF HoldInv
<1> QED BY <1>1, HoldInit, TypeInvariant, HoldNext, PTL DEF Spec

(* A reservation is shipped, cancelled or expired once, by whichever comes  *)
(* first, and keeps what it is for.                                        *)
THEOREM ReservationClosesOnce == Spec => HoldsCloseOnce
<1>1. ASSUME TypeInv, HoldInv, [Next]_vars
      PROVE  [\A h \in Holds : hold'[h] = hold[h] \/ Follows(hold[h], hold'[h])]_vars
  BY <1>1, HoldNext
<1> QED BY <1>1, HoldInit, TypeInvariant, HoldNext, PTL DEF Spec, HoldsCloseOnce


-----------------------------------------------------------------------------
(* Deadlocks.  A single effect takes its stock rows by location, so what it *)
(* has locked lies below what it still waits for.                          *)
LegsAscend(s) ==
  /\ \A l \in tx[s].legs, i \in tx[s].locked : i < l.at
  /\ \A l, m \in tx[s].legs : l.at = m.at => l = m
  /\ ~tx[s].ordered => \A l, m \in tx[s].legs : l = m

LockOrder ==
  \A s \in Sessions :
    /\ tx[s].phase # "stock" => tx[s].legs = {} /\ tx[s].locked = {}
    /\ Batch(s) \/ LegsAscend(s)

(* What a transaction's order depends on.                                  *)
LEMMA OrderSame ==
  ASSUME NEW p, tx'[p] = tx[p]
  PROVE  (Batch(p) \/ LegsAscend(p)) => (Batch(p) \/ LegsAscend(p))'
BY DEF Batch, LegsAscend

(* A step of one session, in terms of the transaction it leaves.            *)
LEMMA OrderKept ==
  ASSUME TypeOK, LockOrder, NEW s \in Sessions, NEW t, SetTx(s, t),
         t.phase # "stock" => t.legs = {} /\ t.locked = {},
         Batch(s)' \/ LegsAscend(s)'
  PROVE  LockOrder'
<1>1. tx'[s] = t /\ \A p \in Others(s) : p \in Sessions /\ tx'[p] = tx[p]
  BY SetTxOthers
<1>2. ASSUME NEW p \in Sessions, p # s
      PROVE  /\ tx'[p].phase # "stock" => tx'[p].legs = {} /\ tx'[p].locked = {}
             /\ (Batch(p) \/ LegsAscend(p))'
  <2>1. tx'[p] = tx[p]
    BY <1>1, <1>2 DEF Others
  <2> QED BY <2>1, OrderSame DEF LockOrder
<1> QED BY <1>1, <1>2 DEF LockOrder

(* A transaction with at most one update to do, and no lock.                *)
LEMMA OneLegAscends ==
  ASSUME TypeOK, NEW s \in Sessions, NEW t, SetTx(s, t), t.locked = {},
         \A l, m \in t.legs : l = m
  PROVE  LegsAscend(s)'
<1>1. tx'[s] = t
  BY SetTxOthers
<1> QED BY <1>1 DEF LegsAscend

LEMMA UpdateAscends ==
  ASSUME TypeInv, LockOrder, NEW s \in Sessions, NEW leg \in tx[s].legs, UpdateStock(s, leg)
  PROVE  LockOrder'
<1> DEFINE i == leg.at
           d == tx[s].delta[i]
           t == [tx[s] EXCEPT !.legs = tx[s].legs \ {leg},
                              !.locked = tx[s].locked \cup {i},
                              !.delta = [tx[s].delta EXCEPT ![i] =
                                           [oh |-> d.oh + leg.oh, rv |-> d.rv + leg.rv]]]
<1>1. tx[s] \in Transaction /\ tx[s].legs \subseteq Leg /\ tx[s].locked \subseteq Locations
  BY TxFields DEF TypeInv
<1>2. SetTx(s, t)
  BY <1>1 DEF UpdateStock, SetTx, Transaction
<1>3. /\ t.phase = tx[s].phase /\ t.legs = tx[s].legs \ {leg} /\ t.locked = tx[s].locked \cup {i}
      /\ t.events = tx[s].events /\ t.ordered = tx[s].ordered
  BY <1>1 DEF Transaction
<1> HIDE DEF t
<1>4. tx'[s] = t
  BY <1>2, SetTxOthers DEF TypeInv
<1>5. tx[s].phase = "stock"
  BY DEF LockOrder
<1>6. Batch(s)' = Batch(s)
  BY <1>3, <1>4 DEF Batch
<1>7. ASSUME LegsAscend(s) PROVE LegsAscend(s)'
  <2>1. NextLeg(s, leg)
    BY DEF UpdateStock
  <2>2. ASSUME NEW l \in t.legs, NEW k \in t.locked PROVE k < l.at
    <3>1. l \in tx[s].legs /\ l # leg
      BY <1>3
    <3>2. l.at \in Nat /\ i \in Nat
      BY <1>1, <3>1, InventoryAssumption DEF Leg
    <3>3. CASE k = i
      <4>1. tx[s].ordered
        BY <1>7, <3>1 DEF LegsAscend
      <4>2. i <= l.at /\ i # l.at
        BY <1>7, <2>1, <3>1, <4>1 DEF LegsAscend, NextLeg
      <4> QED BY <3>2, <3>3, <4>2
    <3>4. CASE k \in tx[s].locked
      BY <1>7, <3>1, <3>4 DEF LegsAscend
    <3> QED BY <1>3, <3>3, <3>4
  <2>3. /\ \A l, m \in t.legs : l.at = m.at => l = m
        /\ ~t.ordered => \A l, m \in t.legs : l = m
    BY <1>3, <1>7 DEF LegsAscend
  <2> QED BY <1>4, <2>2, <2>3 DEF LegsAscend
<1> QED BY <1>2, <1>3, <1>5, <1>6, <1>7, OrderKept DEF TypeInv, LockOrder

LEMMA TransferAscends ==
  ASSUME TypeInv, LockOrder, NEW s \in Sessions, NEW r \in References, NEW i \in Locations,
         NEW j \in Locations, NEW q \in Quantities, Transfer(s, r, i, j, q)
  PROVE  LockOrder'
<1> DEFINE M == {[ref |-> r, source |-> i, destination |-> j, quantity |-> q]}
           L == {LegOf(r, i, -q, 0), LegOf(r, j, q, 0)}
           t == [NoTransaction EXCEPT !.phase = "stock", !.moves = M, !.legs = L, !.ordered = TRUE]
<1>1. SetTx(s, t) /\ i # j
  BY DEF Transfer
<1>2. \A l, m \in L : l.at = m.at => l = m
  BY <1>1 DEF LegOf
<1> HIDE DEF M, L
<1>3. t.phase = "stock" /\ t.legs = L /\ t.locked = {} /\ t.ordered
  BY DEF NoTransaction
<1> HIDE DEF t
<1>4. LegsAscend(s)'
  <2>1. tx'[s] = t
    BY <1>1, SetTxOthers DEF TypeInv
  <2> QED BY <1>2, <1>3, <2>1 DEF LegsAscend
<1> QED BY <1>1, <1>3, <1>4, OrderKept DEF TypeInv

LEMMA ExpireIsBatch ==
  ASSUME TypeInv, LockOrder, NEW s \in Sessions, ExpireDue(s)
  PROVE  LockOrder'
<1> DEFINE due == {h \in overdue : hold[h].status = "reserved" /\ RowFree(s, h)}
           rows == [h \in Holds |->
                      IF h \in due THEN [hold[h] EXCEPT !.status = "expired", !.returned = 0]
                      ELSE AbsentHold]
           evs == {EventOf(ExpireEvent(h), h, 0, -hold[h].quantity) : h \in due}
           lgs == {LegOf(h, hold[h].at, 0, -hold[h].quantity) : h \in due}
           t == [NoTransaction EXCEPT !.phase = "stock", !.holds = rows,
                                      !.events = evs, !.legs = lgs]
<1>1. SetTx(s, t) /\ due # {}
  BY DEF ExpireDue
<1>2. \E h \in Holds : \E v \in evs : v.id = ExpireEvent(h)
  <2>1. PICK h \in due : TRUE
    BY <1>1
  <2>2. h \in Holds
    BY DEF TypeInv, TypeOK
  <2>3. EventOf(ExpireEvent(h), h, 0, -hold[h].quantity) \in evs
    OBVIOUS
  <2>4. EventOf(ExpireEvent(h), h, 0, -hold[h].quantity).id = ExpireEvent(h)
    BY DEF EventOf
  <2> QED BY <2>2, <2>3, <2>4
<1> HIDE DEF rows, evs, lgs
<1>3. t.phase = "stock" /\ t.events = evs
  BY DEF NoTransaction
<1> HIDE DEF t
<1>4. Batch(s)'
  <2>1. tx'[s] = t
    BY <1>1, SetTxOthers DEF TypeInv
  <2> QED BY <1>2, <1>3, <2>1 DEF Batch
<1> QED BY <1>1, <1>3, <1>4, OrderKept DEF TypeInv

LEMMA OrderNext ==
  ASSUME TypeInv, LockOrder, [Next]_vars
  PROVE  LockOrder'
<1> USE DEF TypeInv
<1>1. ASSUME NEW s \in Sessions, NEW t, SetTx(s, t), t.locked = {}, \A l, m \in t.legs : l = m,
             t.phase # "stock" => t.legs = {}
      PROVE  LockOrder'
  BY <1>1, OneLegAscends, OrderKept
<1>2. ASSUME NEW s \in Sessions, NEW h \in Holds, NEW i \in Locations, NEW q \in Quantities,
             NEW timed \in BOOLEAN, Reserve(s, h, i, q, timed)
      PROVE  LockOrder'
  BY <1>1, <1>2 DEF Reserve, NoTransaction
<1>3. ASSUME NEW s \in Sessions, NEW h \in Holds, LockRow(s, h)
      PROVE  LockOrder'
  BY <1>1, <1>3 DEF LockRow, NoTransaction
<1>4. ASSUME NEW s \in Sessions, tx[s].phase = "row", NEW h, NEW r, NEW e, NEW oh, NEW rv,
             WriteRow(s, h, r, e, oh, rv)
      PROVE  LockOrder'
  <2>1. tx[s] \in Transaction /\ tx[s].locked = {}
    BY <1>4, TxFields DEF LockOrder
  <2> DEFINE t == [tx[s] EXCEPT
                    !.phase = "stock", !.holds[h] = r,
                    !.events = {EventOf(e, h, oh, rv)},
                    !.legs = {LegOf(h, r.at, oh, rv)}]
  <2>2. SetTx(s, t)
    BY <1>4 DEF WriteRow
  <2>3. t.phase = "stock" /\ t.locked = {} /\ t.legs = {LegOf(h, r.at, oh, rv)}
    BY <2>1 DEF Transaction
  <2> HIDE DEF t
  <2> QED BY <1>1, <2>2, <2>3
<1>5. ASSUME NEW s \in Sessions, NEW kind \in {"ship", "cancel", "expire"}, NEW e \in EventIds,
             Close(s, kind, e)
      PROVE  LockOrder'
  BY <1>4, <1>5 DEF Close
<1>6. ASSUME NEW s \in Sessions, NEW u \in Quantities, NEW e \in EventIds, Return(s, u, e)
      PROVE  LockOrder'
  BY <1>4, <1>6 DEF Return
<1>7. ASSUME NEW s \in Sessions, NEW r \in References, NEW i \in Locations, NEW q \in Quantities,
             Receive(s, r, i, q)
      PROVE  LockOrder'
  BY <1>1, <1>7 DEF Receive, NoTransaction
<1>8. ASSUME NEW s \in Sessions, Commit(s) \/ Rollback(s)
      PROVE  LockOrder'
  BY <1>1, <1>8 DEF Commit, Rollback, NoTransaction
<1>9. ASSUME tx' = tx
      PROVE  LockOrder'
  BY <1>9, OrderSame DEF LockOrder
<1> QED BY <1>2, <1>3, <1>5, <1>6, <1>7, <1>8, <1>9, ExpireIsBatch, TransferAscends,
           UpdateAscends
        DEF Next, DeadlinePasses, Feed, vars

LEMMA OrderInit == Init => LockOrder
BY DEF Init, LockOrder, LegsAscend, NoTransaction

(* In a circle of waiting effects, the one with the highest locked location *)
(* would wait for one higher still.                                        *)
LEMMA NoCircle ==
  ASSUME TypeInv, LockOrder
  PROVE  NoDeadlock
<1> SUFFICES ASSUME NEW S \in SUBSET {s \in Sessions : ~Batch(s)}, S # {},
                    \A s \in S : \E t \in S \ {s} : WaitsFor(s, t)
             PROVE  FALSE
  BY DEF NoDeadlock
<1> DEFINE L == {i \in Locations : \E t \in S : i \in tx[t].locked}
<1>1. ASSUME NEW s \in S
      PROVE  \E leg \in tx[s].legs : leg.at \in L
  <2>1. PICK t \in S : WaitsFor(s, t)
    OBVIOUS
  <2>2. PICK leg \in tx[s].legs : leg.at \in tx[t].locked
    BY <2>1 DEF WaitsFor
  <2>3. tx[t].locked \subseteq Locations
    BY TxFields DEF TypeInv
  <2> QED BY <2>2, <2>3
<1>2. IsFiniteSet(L) /\ L # {} /\ \A x \in L : x \in Int
  <2>1. IsFiniteSet(L)
    BY InventoryAssumption, FS_Subset
  <2>2. L # {}
    <3>1. PICK s \in S : TRUE
      OBVIOUS
    <3> HIDE DEF L
    <3> QED BY <1>1, <3>1
  <2>3. \A x \in L : x \in Int
    BY InventoryAssumption
  <2> QED BY <2>1, <2>2, <2>3
<1>3. PICK x \in L : \A y \in L : y <= x
  <2> HIDE DEF L
  <2> QED BY <1>2, GreatestMember
<1>4. PICK t \in S : x \in tx[t].locked
  OBVIOUS
<1>5. PICK leg \in tx[t].legs : leg.at \in L
  BY <1>1
<1>6. x < leg.at
  BY <1>4 DEF LockOrder, LegsAscend
<1>7. leg.at <= x /\ leg.at \in Int /\ x \in Int
  BY <1>2, <1>3, <1>5
<1> QED BY <1>6, <1>7

(* Single effects never wait for each other in a circle, however many run   *)
(* and over however many locations: a transfer locks both of its rows in    *)
(* the order of their locations (move_stock).                              *)
THEOREM EffectsGetThrough == Spec => []NoDeadlock
<1>1. TypeInv /\ LockOrder => NoDeadlock
  BY NoCircle
<1> QED BY <1>1, OrderInit, TypeInvariant, OrderNext, PTL DEF Spec

-----------------------------------------------------------------------------
(* The sums.  Every stock update of a transaction belongs to one            *)
(* reservation and its event, or to one side of a stock movement.  What the *)
(* transaction has added to a row so far is what those whose update is done *)
(* account for; a commit finds them all done.                              *)
Units(r, i) == IF r.status = "reserved" /\ r.at = i THEN r.quantity ELSE 0
UnitsAt(H, i) == [h \in Holds |-> Units(H[h], i)]

OnHandOf == [v \in Event |-> v.oh]
ReservedOf == [v \in Event |-> v.rv]
QuantityOf == [m \in Movement |-> m.quantity]

InLeg(m) == LegOf(m.ref, m.destination, m.quantity, 0)
OutLeg(m) == LegOf(m.ref, m.source, -m.quantity, 0)

(* A transaction t, and what its updates have done.                        *)
TouchedBy(t) == {h \in Holds : t.holds[h].status # "absent"}
Waits(t, k) == \E l \in t.legs : l.for = k
DoneHolds(t) == {h \in TouchedBy(t) : ~Waits(t, h)}
DoneEvents(t, i) == {v \in t.events : t.holds[v.hold].at = i /\ ~Waits(t, v.hold)}
DoneIn(t, i) == {m \in t.moves : m.destination = i /\ InLeg(m) \notin t.legs}
DoneOut(t, i) == {m \in t.moves : m.source = i /\ OutLeg(m) \notin t.legs}

(* An effect on reservations, read from the table H: one event for each,    *)
(* and its stock update as long as that waits.                             *)
HoldEffect(t, H) ==
  /\ t.moves = {}
  /\ \A v \in t.events : v.hold \in TouchedBy(t)
  /\ \A v, w \in t.events : v.hold = w.hold => v = w
  /\ \A l, m \in t.legs : l.for = m.for => l = m
  /\ \A l \in t.legs :
       /\ l.for \in TouchedBy(t) /\ l.at = t.holds[l.for].at
       /\ H[l.for].status = "reserved" => H[l.for].at = l.at
       /\ l.rv = Units(t.holds[l.for], l.at) - Units(H[l.for], l.at)
       /\ \E v \in t.events : v.hold = l.for /\ v.oh = l.oh /\ v.rv = l.rv

(* A receipt or transfer: its movement and the updates of its two sides.    *)
MoveEffect(t) ==
  /\ TouchedBy(t) = {} /\ t.events = {}
  /\ \E m \in t.moves : /\ t.moves = {m} /\ m.source # m.destination
                        /\ t.legs \subseteq {InLeg(m), OutLeg(m)}

Planned(t, H) ==
  IF t.phase = "stock" THEN HoldEffect(t, H) \/ MoveEffect(t)
  ELSE t.legs = {} /\ t.events = {} /\ t.moves = {}

Countable(t) == IsFiniteSet(TouchedBy(t)) /\ IsFiniteSet(t.events) /\ IsFiniteSet(t.moves)

BalancedAt(t, H, i) ==
  /\ t.delta[i].rv = SumFunctionOnSet(UnitsAt(t.holds, i), DoneHolds(t))
                       - SumFunctionOnSet(UnitsAt(H, i), DoneHolds(t))
  /\ t.delta[i].rv = SumFunctionOnSet(ReservedOf, DoneEvents(t, i))
  /\ t.delta[i].oh = SumFunctionOnSet(OnHandOf, DoneEvents(t, i))
                       + SumFunctionOnSet(QuantityOf, DoneIn(t, i))
                       - SumFunctionOnSet(QuantityOf, DoneOut(t, i))

TxSound(t, H) == Planned(t, H) /\ Countable(t) /\ \A i \in Locations : BalancedAt(t, H, i)

(* Keys are inserted once: no open transaction inserts one that is stored,  *)
(* or that another inserts.                                                *)
KeysFresh(s) ==
  /\ \A v \in tx[s].events : EventFresh(s, v.id)
  /\ \A m \in tx[s].moves : ReferenceFresh(s, m.ref)

Known == {h \in Holds : hold[h].status # "absent"}

Finite == IsFiniteSet(Known) /\ IsFiniteSet(events) /\ IsFiniteSet(moves)

(* The rows that no catalog feed overwrites.                               *)
Unfed == Locations \ FeedLocations

SumInv ==
  /\ Finite
  /\ \A v \in events : v.hold \in Known
  /\ \A s \in Sessions : TxSound(tx[s], hold) /\ KeysFresh(s)
  /\ \A i \in Unfed :
       /\ stock[i].reserved = SumFunctionOnSet(UnitsAt(hold, i), Known)
       /\ Accounted(i)

-----------------------------------------------------------------------------
(* Facts about one transaction.                                            *)
LEMMA UnitsType ==
  ASSUME NEW r \in HoldRow, NEW i
  PROVE  Units(r, i) \in Nat
BY DEF Units, HoldRow

LEMMA UnitsInt ==
  ASSUME NEW H \in [Holds -> HoldRow], NEW S \in SUBSET Holds, NEW i
  PROVE  /\ IntOn(UnitsAt(H, i), S)
         /\ \A h \in S : UnitsAt(H, i)[h] = Units(H[h], i) /\ Units(H[h], i) \in Nat
BY UnitsType DEF UnitsAt, IntOn

LEMMA EventInt ==
  ASSUME NEW S \in SUBSET Event
  PROVE  /\ IntOn(OnHandOf, S) /\ IntOn(ReservedOf, S)
         /\ \A v \in S : OnHandOf[v] = v.oh /\ ReservedOf[v] = v.rv /\ v.oh \in Int /\ v.rv \in Int
BY DEF OnHandOf, ReservedOf, IntOn, Event

LEMMA MoveInt ==
  ASSUME NEW S \in SUBSET Movement
  PROVE  /\ IntOn(QuantityOf, S)
         /\ \A m \in S : QuantityOf[m] = m.quantity /\ m.quantity \in Nat
BY DEF QuantityOf, IntOn, Movement

LEMMA TxShape ==
  ASSUME NEW t \in Transaction
  PROVE  /\ t.holds \in [Holds -> HoldRow] /\ t.events \subseteq Event /\ t.moves \subseteq Movement
         /\ t.legs \subseteq Leg /\ t.delta \in [Locations -> Change]
         /\ \A i \in Locations : t.delta[i].oh \in Int /\ t.delta[i].rv \in Int
         /\ \A l \in t.legs : l.at \in Locations /\ l.oh \in Int /\ l.rv \in Int
         /\ TouchedBy(t) \subseteq Holds /\ DoneHolds(t) \subseteq Holds
BY DEF Transaction, Change, Leg, TouchedBy, DoneHolds

(* A transaction of which no update is done has added nothing.             *)
LEMMA NothingDone ==
  ASSUME NEW t, NEW H, NEW i \in Locations, t.delta = NoChange, DoneHolds(t) = {},
         DoneEvents(t, i) = {}, DoneIn(t, i) = {}, DoneOut(t, i) = {}
  PROVE  BalancedAt(t, H, i)
<1>1. t.delta[i].oh = 0 /\ t.delta[i].rv = 0
  BY DEF NoChange
<1> QED BY <1>1, SumEmpty DEF BalancedAt

LEMMA IdleSound ==
  ASSUME NEW H
  PROVE  TxSound(NoTransaction, H)
<1> DEFINE t == NoTransaction
<1>1. /\ t.legs = {} /\ t.events = {} /\ t.moves = {} /\ t.delta = NoChange /\ t.phase = "idle"
      /\ TouchedBy(t) = {}
  BY DEF NoTransaction, TouchedBy, AbsentHold
<1> HIDE DEF t
<1>2. ASSUME NEW i \in Locations PROVE BalancedAt(t, H, i)
  BY <1>1, NothingDone DEF DoneHolds, DoneEvents, DoneIn, DoneOut
<1>3. Planned(t, H) /\ Countable(t)
  BY <1>1, FS_EmptySet DEF Planned, Countable
<1> QED BY <1>2, <1>3 DEF TxSound, t

(* A transaction that has read a reservation and done nothing.              *)
LEMMA RowSoundTx ==
  ASSUME NEW t \in Transaction, NEW H \in [Holds -> HoldRow], t.phase = "row",
         t.legs = {}, t.events = {}, t.moves = {}, t.delta = NoChange,
         IsFiniteSet(TouchedBy(t)), \A h \in TouchedBy(t) : t.holds[h] = H[h]
  PROVE  TxSound(t, H)
<1>1. ASSUME NEW i \in Locations PROVE BalancedAt(t, H, i)
  <2>1. DoneEvents(t, i) = {} /\ DoneIn(t, i) = {} /\ DoneOut(t, i) = {}
    BY DEF DoneEvents, DoneIn, DoneOut
  <2>2. t.delta[i].oh = 0 /\ t.delta[i].rv = 0
    BY DEF NoChange
  <2>3. /\ DoneHolds(t) \in SUBSET Holds /\ IsFiniteSet(DoneHolds(t))
        /\ DoneHolds(t) \subseteq TouchedBy(t)
    BY TxShape, FS_Subset DEF DoneHolds
  <2>4. \A h \in DoneHolds(t) : UnitsAt(t.holds, i)[h] = UnitsAt(H, i)[h]
    BY <2>3 DEF UnitsAt
  <2>5. SumFunctionOnSet(UnitsAt(t.holds, i), DoneHolds(t))
          = SumFunctionOnSet(UnitsAt(H, i), DoneHolds(t))
    BY <2>3, <2>4, SumSame
  <2>6. SumFunctionOnSet(UnitsAt(H, i), DoneHolds(t)) \in Int
    BY <2>3, UnitsInt, SumType
  <2> QED BY <2>1, <2>2, <2>5, <2>6, SumEmpty DEF BalancedAt
<1>2. Planned(t, H) /\ Countable(t)
  BY FS_EmptySet DEF Planned, Countable
<1> QED BY <1>1, <1>2 DEF TxSound

(* An effect all of whose updates are still to do.                         *)
LEMMA StartSound ==
  ASSUME NEW t \in Transaction, NEW H, t.phase = "stock", t.delta = NoChange, HoldEffect(t, H),
         \A h \in TouchedBy(t) : Waits(t, h), Countable(t)
  PROVE  TxSound(t, H)
<1>1. ASSUME NEW i \in Locations PROVE BalancedAt(t, H, i)
  BY NothingDone DEF HoldEffect, DoneHolds, DoneEvents, DoneIn, DoneOut
<1> QED BY <1>1 DEF TxSound, Planned

LEMMA StartMoveSound ==
  ASSUME NEW t \in Transaction, NEW H, NEW m \in Movement, t.phase = "stock", t.delta = NoChange,
         TouchedBy(t) = {}, t.events = {}, t.moves = {m}, m.source # m.destination,
         InLeg(m) \in t.legs, m.source \in Locations => OutLeg(m) \in t.legs,
         t.legs \subseteq {InLeg(m), OutLeg(m)}
  PROVE  TxSound(t, H)
<1>1. ASSUME NEW i \in Locations PROVE BalancedAt(t, H, i)
  BY NothingDone DEF DoneHolds, DoneEvents, DoneIn, DoneOut
<1>2. Countable(t)
  <2>1. IsFiniteSet({m}) /\ IsFiniteSet({})
    BY FS_EmptySet, FS_Singleton
  <2> QED BY <2>1 DEF Countable
<1>3. MoveEffect(t)
  BY DEF MoveEffect
<1> QED BY <1>1, <1>2, <1>3 DEF TxSound, Planned

(* Only the reservations it touches matter.                                *)
LEMMA SoundSame ==
  ASSUME NEW t \in Transaction, NEW H, NEW K, TxSound(t, H),
         \A h \in TouchedBy(t) : H[h] = K[h]
  PROVE  TxSound(t, K)
<1>1. Planned(t, K)
  BY DEF TxSound, Planned, HoldEffect
<1>2. ASSUME NEW i \in Locations PROVE BalancedAt(t, K, i)
  <2>1. /\ DoneHolds(t) \subseteq TouchedBy(t) /\ IsFiniteSet(DoneHolds(t))
        /\ DoneHolds(t) \subseteq Holds
    BY FS_Subset, TxShape DEF TxSound, Countable, DoneHolds
  <2>2. \A h \in DoneHolds(t) : UnitsAt(H, i)[h] = UnitsAt(K, i)[h]
    BY <2>1 DEF UnitsAt
  <2>3. SumFunctionOnSet(UnitsAt(H, i), DoneHolds(t))
          = SumFunctionOnSet(UnitsAt(K, i), DoneHolds(t))
    BY <2>1, <2>2, SumSame
  <2> QED BY <2>3 DEF TxSound, BalancedAt
<1> QED BY <1>1, <1>2 DEF TxSound

(* An update of an effect on reservations: the units and the event it       *)
(* belongs to count from now on.                                           *)
LEMMA HoldLegDone ==
  ASSUME NEW t \in Transaction, NEW H \in [Holds -> HoldRow], TxSound(t, H), HoldEffect(t, H),
         NEW leg \in t.legs, NEW u \in Transaction, u.phase = t.phase, u.holds = t.holds,
         u.events = t.events, u.moves = t.moves, u.legs = t.legs \ {leg},
         u.delta = [t.delta EXCEPT ![leg.at] = [oh |-> t.delta[leg.at].oh + leg.oh,
                                                rv |-> t.delta[leg.at].rv + leg.rv]],
         t.phase = "stock"
  PROVE  TxSound(u, H)
<1> DEFINE h == leg.for
<1>1. PICK v \in t.events : v.hold = h /\ v.oh = leg.oh /\ v.rv = leg.rv
  BY DEF HoldEffect
<1>2. /\ h \in TouchedBy(t) /\ h \in Holds /\ leg.at = t.holds[h].at
      /\ leg.at \in Locations /\ leg.oh \in Int /\ leg.rv \in Int
      /\ H[h].status = "reserved" => H[h].at = leg.at
      /\ leg.rv = Units(t.holds[h], leg.at) - Units(H[h], leg.at)
  BY TxShape DEF HoldEffect, TouchedBy
<1>3. TouchedBy(u) = TouchedBy(t) /\ Countable(u)
  BY DEF TouchedBy, TxSound, Countable
<1>4. HoldEffect(u, H)
  BY <1>3 DEF HoldEffect
<1>5. /\ Waits(t, h) /\ ~Waits(u, h)
      /\ \A k : k # h => (Waits(u, k) <=> Waits(t, k))
  BY DEF Waits, HoldEffect
<1>6. DoneHolds(u) = DoneHolds(t) \cup {h} /\ h \notin DoneHolds(t)
  BY <1>2, <1>3, <1>5 DEF DoneHolds
<1>7. DoneHolds(t) \in SUBSET Holds /\ IsFiniteSet(DoneHolds(t))
  BY TxShape, FS_Subset DEF DoneHolds, TxSound, Countable
<1>8. ASSUME NEW i \in Locations PROVE BalancedAt(u, H, i)
  <2> DEFINE A == SumFunctionOnSet(UnitsAt(t.holds, i), DoneHolds(t))
             B == SumFunctionOnSet(UnitsAt(H, i), DoneHolds(t))
             C == SumFunctionOnSet(ReservedOf, DoneEvents(t, i))
             D == SumFunctionOnSet(OnHandOf, DoneEvents(t, i))
  <2>1. t.holds \in [Holds -> HoldRow]
    BY TxShape
  <2>2. A \in Int /\ B \in Int
    BY <1>7, <2>1, UnitsInt, SumType
  <2>3. /\ SumFunctionOnSet(UnitsAt(u.holds, i), DoneHolds(u)) = A + Units(t.holds[h], i)
        /\ SumFunctionOnSet(UnitsAt(H, i), DoneHolds(u)) = B + Units(H[h], i)
    <3>1. /\ IntOn(UnitsAt(t.holds, i), DoneHolds(t)) /\ IntOn(UnitsAt(H, i), DoneHolds(t))
          /\ UnitsAt(t.holds, i)[h] = Units(t.holds[h], i) /\ Units(t.holds[h], i) \in Int
          /\ UnitsAt(H, i)[h] = Units(H[h], i) /\ Units(H[h], i) \in Int
      <4>1. IntOn(UnitsAt(t.holds, i), DoneHolds(t)) /\ IntOn(UnitsAt(H, i), DoneHolds(t))
        BY <1>7, <2>1, UnitsInt
      <4>2. Units(t.holds[h], i) \in Nat /\ Units(H[h], i) \in Nat
        BY <1>2, <2>1, UnitsType
      <4>3. /\ UnitsAt(t.holds, i)[h] = Units(t.holds[h], i)
            /\ UnitsAt(H, i)[h] = Units(H[h], i)
        BY <1>2 DEF UnitsAt
      <4> QED BY <4>1, <4>2, <4>3
    <3>2. SumFunctionOnSet(UnitsAt(t.holds, i), DoneHolds(t) \cup {h}) = A + Units(t.holds[h], i)
      BY <1>6, <1>7, <3>1, SumAdd
    <3>3. SumFunctionOnSet(UnitsAt(H, i), DoneHolds(t) \cup {h}) = B + Units(H[h], i)
      BY <1>6, <1>7, <3>1, SumAdd
    <3> QED BY <1>6, <3>2, <3>3
  <2>4. /\ DoneEvents(t, i) \in SUBSET Event /\ IsFiniteSet(DoneEvents(t, i))
        /\ v \notin DoneEvents(t, i)
    <3>1. t.events \subseteq Event /\ IsFiniteSet(t.events)
      BY TxShape DEF TxSound, Countable
    <3> QED BY <1>1, <1>5, <3>1, FS_Subset DEF DoneEvents
  <2>5. C \in Int /\ D \in Int
    BY <2>4, EventInt, SumType
  <2>6. /\ DoneIn(u, i) = {} /\ DoneOut(u, i) = {} /\ DoneIn(t, i) = {} /\ DoneOut(t, i) = {}
        /\ SumFunctionOnSet(QuantityOf, {}) = 0
    BY SumEmpty DEF DoneIn, DoneOut, HoldEffect
  <2>7. t.delta[i].rv = A - B /\ t.delta[i].rv = C /\ t.delta[i].oh = D
    <3>1. BalancedAt(t, H, i)
      BY DEF TxSound
    <3>2. t.delta[i].rv = A - B /\ t.delta[i].rv = C /\ t.delta[i].oh = D + 0 - 0
      BY <2>6, <3>1 DEF BalancedAt
    <3> HIDE DEF A, B, C, D
    <3> QED BY <2>5, <3>2
  <2>8. CASE i = leg.at
    <3>1. DoneEvents(u, i) = DoneEvents(t, i) \cup {v}
      <4>1. \A w \in t.events : w.hold = h => w = v
        BY <1>1 DEF HoldEffect
      <4> QED BY <1>1, <1>2, <1>5, <2>8, <4>1 DEF DoneEvents
    <3>2. /\ SumFunctionOnSet(ReservedOf, DoneEvents(u, i)) = C + leg.rv
          /\ SumFunctionOnSet(OnHandOf, DoneEvents(u, i)) = D + leg.oh
      <4>1. /\ IntOn(ReservedOf, DoneEvents(t, i)) /\ IntOn(OnHandOf, DoneEvents(t, i))
            /\ ReservedOf[v] = leg.rv /\ OnHandOf[v] = leg.oh
        <5>1. {v} \in SUBSET Event
          BY TxShape
        <5> QED BY <1>1, <2>4, <5>1, EventInt
      <4>2. /\ SumFunctionOnSet(ReservedOf, DoneEvents(t, i) \cup {v}) = C + leg.rv
            /\ SumFunctionOnSet(OnHandOf, DoneEvents(t, i) \cup {v}) = D + leg.oh
        BY <1>2, <2>4, <4>1, SumAdd
      <4> QED BY <3>1, <4>2
    <3>3. u.delta[i].rv = t.delta[i].rv + leg.rv /\ u.delta[i].oh = t.delta[i].oh + leg.oh
      BY <2>8, TxShape
    <3>4. Units(t.holds[h], i) \in Int /\ Units(H[h], i) \in Int
          /\ leg.rv = Units(t.holds[h], i) - Units(H[h], i)
      <4>1. Units(t.holds[h], i) \in Nat /\ Units(H[h], i) \in Nat
        BY <1>2, <2>1, UnitsType
      <4> QED BY <1>2, <2>8, <4>1
    <3> HIDE DEF A, B, C, D
    <3>5. u.delta[i].rv = (A + Units(t.holds[h], i)) - (B + Units(H[h], i))
      BY <2>2, <2>7, <3>3, <3>4
    <3>6. u.delta[i].oh = (D + leg.oh) + 0 - 0
      BY <1>2, <2>5, <2>7, <3>3
    <3> QED BY <2>3, <2>6, <2>7, <3>2, <3>3, <3>5, <3>6 DEF BalancedAt
  <2>9. CASE i # leg.at
    <3>1. DoneEvents(u, i) = DoneEvents(t, i)
      BY <1>2, <1>5, <2>9 DEF DoneEvents
    <3>2. Units(t.holds[h], i) = 0 /\ Units(H[h], i) = 0
      BY <1>2, <2>9 DEF Units
    <3>3. u.delta[i] = t.delta[i]
      BY <2>9, TxShape
    <3> HIDE DEF A, B, C, D
    <3>4. /\ u.delta[i].rv = (A + Units(t.holds[h], i)) - (B + Units(H[h], i))
          /\ u.delta[i].oh = D + 0 - 0
      BY <2>2, <2>5, <2>7, <3>2, <3>3
    <3>5. u.delta[i].rv = C
      BY <2>7, <3>3
    <3> QED BY <2>3, <2>6, <3>1, <3>4, <3>5 DEF BalancedAt, C, D
  <2> QED BY <2>8, <2>9
<1> QED BY <1>3, <1>4, <1>8 DEF TxSound, Planned

(* An update of a receipt or transfer: one side of its movement counts.     *)
LEMMA MoveLegDone ==
  ASSUME NEW t \in Transaction, NEW H \in [Holds -> HoldRow], TxSound(t, H), MoveEffect(t),
         NEW leg \in t.legs, NEW u \in Transaction, u.phase = t.phase, u.holds = t.holds,
         u.events = t.events, u.moves = t.moves, u.legs = t.legs \ {leg},
         u.delta = [t.delta EXCEPT ![leg.at] = [oh |-> t.delta[leg.at].oh + leg.oh,
                                                rv |-> t.delta[leg.at].rv + leg.rv]],
         t.phase = "stock"
  PROVE  TxSound(u, H)
<1>1. PICK m \in t.moves : /\ t.moves = {m} /\ m.source # m.destination
                           /\ t.legs \subseteq {InLeg(m), OutLeg(m)}
  BY DEF MoveEffect
<1>2. /\ m \in Movement /\ m.quantity \in Nat
      /\ TouchedBy(t) = {} /\ t.events = {} /\ leg.at \in Locations
  BY TxShape DEF MoveEffect, Movement
<1>3. TouchedBy(u) = {} /\ Countable(u)
  BY <1>2 DEF TouchedBy, TxSound, Countable
<1>4. MoveEffect(u)
  BY <1>1, <1>2, <1>3 DEF MoveEffect
<1>5. /\ InLeg(m).at = m.destination /\ InLeg(m).oh = m.quantity /\ InLeg(m).rv = 0
      /\ OutLeg(m).at = m.source /\ OutLeg(m).oh = -m.quantity /\ OutLeg(m).rv = 0
      /\ InLeg(m) # OutLeg(m)
  BY <1>1 DEF InLeg, OutLeg, LegOf
<1>6. SumFunctionOnSet(QuantityOf, {m}) = m.quantity /\ SumFunctionOnSet(QuantityOf, {}) = 0
  <2>1. QuantityOf[m] = m.quantity /\ m.quantity \in Int
    BY <1>2 DEF QuantityOf
  <2> QED BY <2>1, SumSingleton, SumEmpty
<1>7. ASSUME NEW i \in Locations PROVE BalancedAt(u, H, i)
  <2> DEFINE A == SumFunctionOnSet(QuantityOf, DoneIn(t, i))
             B == SumFunctionOnSet(QuantityOf, DoneOut(t, i))
             C == SumFunctionOnSet(QuantityOf, DoneIn(u, i))
             D == SumFunctionOnSet(QuantityOf, DoneOut(u, i))
  <2>1. /\ DoneHolds(u) = {} /\ DoneEvents(u, i) = {}
        /\ DoneHolds(t) = {} /\ DoneEvents(t, i) = {}
    BY <1>2, <1>3 DEF DoneHolds, DoneEvents
  <2>2. /\ A = IF m.destination = i /\ InLeg(m) \notin t.legs THEN m.quantity ELSE 0
        /\ C = IF m.destination = i /\ InLeg(m) \notin u.legs THEN m.quantity ELSE 0
    <3>1. DoneIn(t, i) = IF m.destination = i /\ InLeg(m) \notin t.legs THEN {m} ELSE {}
      BY <1>1 DEF DoneIn
    <3>2. DoneIn(u, i) = IF m.destination = i /\ InLeg(m) \notin u.legs THEN {m} ELSE {}
      BY <1>1 DEF DoneIn
    <3> QED BY <1>6, <3>1, <3>2
  <2>3. /\ B = IF m.source = i /\ OutLeg(m) \notin t.legs THEN m.quantity ELSE 0
        /\ D = IF m.source = i /\ OutLeg(m) \notin u.legs THEN m.quantity ELSE 0
    <3>1. DoneOut(t, i) = IF m.source = i /\ OutLeg(m) \notin t.legs THEN {m} ELSE {}
      BY <1>1 DEF DoneOut
    <3>2. DoneOut(u, i) = IF m.source = i /\ OutLeg(m) \notin u.legs THEN {m} ELSE {}
      BY <1>1 DEF DoneOut
    <3> QED BY <1>6, <3>1, <3>2
  <2>4. t.delta[i].rv = 0 /\ t.delta[i].oh = 0 + A - B /\ t.delta[i].oh \in Int
    <3>1. BalancedAt(t, H, i) /\ t.delta[i].oh \in Int
      BY TxShape DEF TxSound
    <3>2. SumFunctionOnSet(ReservedOf, {}) = 0 /\ SumFunctionOnSet(OnHandOf, {}) = 0
      BY SumEmpty
    <3> QED BY <2>1, <3>1, <3>2 DEF BalancedAt
  <2>5. CASE i # leg.at
    <3>1. u.delta[i] = t.delta[i]
      BY <2>5, TxShape
    <3>2. A = C /\ B = D
      BY <1>1, <1>5, <2>2, <2>3, <2>5
    <3> HIDE DEF A, B, C, D
    <3>3. u.delta[i].rv = 0 /\ u.delta[i].oh = 0 + C - D
      BY <2>4, <3>1, <3>2
    <3> QED BY <2>1, <3>3, SumEmpty DEF BalancedAt, C, D
  <2>6. CASE i = leg.at
    <3>1. u.delta[i].rv = t.delta[i].rv + leg.rv /\ u.delta[i].oh = t.delta[i].oh + leg.oh
      BY <2>6, TxShape
    <3> HIDE DEF A, B, C, D
    <3>2. CASE leg = InLeg(m)
      <4>1. A = 0 /\ C = m.quantity /\ B = 0 /\ D = 0
        BY <1>1, <1>5, <2>2, <2>3, <2>6, <3>2
      <4>2. u.delta[i].rv = 0 /\ u.delta[i].oh = 0 + C - D
        BY <1>2, <1>5, <2>4, <3>1, <3>2, <4>1
      <4> QED BY <2>1, <4>2, SumEmpty DEF BalancedAt, C, D
    <3>3. CASE leg = OutLeg(m)
      <4>1. A = 0 /\ C = 0 /\ B = 0 /\ D = m.quantity
        BY <1>1, <1>5, <2>2, <2>3, <2>6, <3>3
      <4>2. u.delta[i].rv = 0 /\ u.delta[i].oh = 0 + C - D
        BY <1>2, <1>5, <2>4, <3>1, <3>3, <4>1
      <4> QED BY <2>1, <4>2, SumEmpty DEF BalancedAt, C, D
    <3> QED BY <1>1, <3>2, <3>3
  <2> QED BY <2>5, <2>6
<1> QED BY <1>3, <1>4, <1>7 DEF TxSound, Planned

-----------------------------------------------------------------------------
(* SumInv is kept by every step but a feed.                                *)
LEMMA TouchedIs ==
  ASSUME NEW s
  PROVE  Touched(s) = TouchedBy(tx[s])
BY DEF Touched, TouchedBy

(* A step of one session that stores nothing.                              *)
LEMMA SumKept ==
  ASSUME TypeOK, SumInv, NEW s \in Sessions, NEW t, SetTx(s, t), UNCHANGED Stored,
         TxSound(t, hold), \A v \in t.events : EventFresh(s, v.id),
         \A m \in t.moves : ReferenceFresh(s, m.ref)
  PROVE  SumInv'
<1>1. tx'[s] = t /\ \A p \in Others(s) : p \in Sessions /\ tx'[p] = tx[p]
  BY SetTxOthers
<1>2. stock' = stock /\ hold' = hold /\ events' = events /\ moves' = moves
  BY DEF Stored
<1>3. KeysFresh(s)'
  BY <1>1, <1>2 DEF KeysFresh, EventFresh, ReferenceFresh
<1>4. ASSUME NEW p \in Others(s) PROVE KeysFresh(p)'
  <2>1. KeysFresh(p) /\ p \in Sessions /\ p # s /\ tx'[p] = tx[p]
    BY <1>1 DEF SumInv, Others
  <2>2. ASSUME NEW v \in tx[p].events, NEW o \in Others(p), NEW w \in tx'[o].events
        PROVE  w.id # v.id
    <3>1. CASE o = s
      BY <1>1, <1>4, <2>1, <2>2, <3>1 DEF EventFresh
    <3>2. CASE o # s
      BY <1>1, <2>1, <2>2, <3>2 DEF KeysFresh, EventFresh, Others
    <3> QED BY <3>1, <3>2
  <2>3. ASSUME NEW m \in tx[p].moves, NEW o \in Others(p), NEW n \in tx'[o].moves
        PROVE  n.ref # m.ref
    <3>1. CASE o = s
      BY <1>1, <1>4, <2>1, <2>3, <3>1 DEF ReferenceFresh
    <3>2. CASE o # s
      BY <1>1, <2>1, <2>3, <3>2 DEF KeysFresh, ReferenceFresh, Others
    <3> QED BY <3>1, <3>2
  <2>4. /\ \A v \in tx[p].events : \A w \in events : w.id # v.id
        /\ \A m \in tx[p].moves : \A n \in moves : n.ref # m.ref
    BY <2>1 DEF KeysFresh, EventFresh, ReferenceFresh
  <2> QED BY <1>2, <2>1, <2>2, <2>3, <2>4 DEF KeysFresh, EventFresh, ReferenceFresh
<1>5. ASSUME NEW p \in Sessions PROVE TxSound(tx'[p], hold') /\ KeysFresh(p)'
  BY <1>1, <1>2, <1>3, <1>4 DEF SumInv, Others
<1>6. Known' = Known
  BY <1>2 DEF Known
<1>7. Finite' /\ \A v \in events' : v.hold \in Known'
  BY <1>2, <1>6 DEF SumInv, Finite
<1>8. ASSUME NEW i \in Unfed
      PROVE  /\ stock'[i].reserved = SumFunctionOnSet(UnitsAt(hold', i), Known')
             /\ Accounted(i)'
  BY <1>2, <1>6 DEF SumInv, Accounted
<1> QED BY <1>5, <1>7, <1>8 DEF SumInv

LEMMA ReserveSums ==
  ASSUME TypeInv, SumInv, NEW s \in Sessions, NEW h \in Holds, NEW i \in Locations,
         NEW q \in Quantities, NEW timed \in BOOLEAN, Reserve(s, h, i, q, timed)
  PROVE  SumInv'
<1> DEFINE r == [status |-> "reserved", at |-> i, quantity |-> q, returned |-> 0, timed |-> timed]
           v == EventOf(ReserveEvent(h), h, 0, q)
           leg == LegOf(h, i, 0, q)
           t == [NoTransaction EXCEPT
                  !.phase = "stock", !.holds[h] = r, !.events = {v}, !.legs = {leg}]
<1>1. q \in Nat /\ q \in Int
  BY InventoryAssumption DEF Quantities
<1>2. v.id = ReserveEvent(h) /\ v.hold = h /\ v.oh = 0 /\ v.rv = q
  BY DEF EventOf
<1>3. leg.for = h /\ leg.at = i /\ leg.oh = 0 /\ leg.rv = q
  BY DEF LegOf
<1>4. SetTx(s, t) /\ UNCHANGED Stored /\ EventFresh(s, ReserveEvent(h)) /\ hold[h].status = "absent"
  BY DEF Reserve
<1>5. t \in Transaction
  <2>1. r \in HoldRow
    BY <1>1 DEF HoldRow, HoldStatus
  <2>2. v \in Event /\ leg \in Leg
    <3>1. ReserveEvent(h) \in AllEventIds
      BY DEF AllEventIds
    <3>2. h \in Holds \cup References /\ 0 \in Int
      OBVIOUS
    <3> QED BY <1>1, <3>1, <3>2, EventType, LegType
  <2> QED BY <2>1, <2>2, NoTransactionType DEF Transaction, NoTransaction
<1>6. Units(r, i) = q
  BY DEF Units
<1>7. r.at = i /\ r.status # "absent"
  OBVIOUS
<1> HIDE DEF r, v, leg
<1>8. /\ t.phase = "stock" /\ t.delta = NoChange /\ t.moves = {} /\ t.events = {v}
      /\ t.legs = {leg} /\ t.holds = [g \in Holds |-> IF g = h THEN r ELSE AbsentHold]
  BY DEF NoTransaction
<1> HIDE DEF t
<1>9. TouchedBy(t) = {h} /\ t.holds[h] = r
  BY <1>7, <1>8 DEF TouchedBy, AbsentHold
<1>10. HoldEffect(t, hold)
  <2>1. Units(hold[h], i) = 0
    BY <1>4 DEF Units
  <2>2. leg.rv = Units(r, i) - Units(hold[h], i)
    BY <1>1, <1>3, <1>6, <2>1
  <2> QED BY <1>2, <1>3, <1>4, <1>7, <1>8, <1>9, <2>2 DEF HoldEffect
<1>11. Countable(t)
  <2>1. IsFiniteSet({h}) /\ IsFiniteSet({v}) /\ IsFiniteSet({})
    BY FS_Singleton, FS_EmptySet
  <2> QED BY <1>8, <1>9, <2>1 DEF Countable
<1>12. TxSound(t, hold)
  <2>1. \A g \in TouchedBy(t) : Waits(t, g)
    BY <1>3, <1>8, <1>9 DEF Waits
  <2> QED BY <1>5, <1>8, <1>10, <1>11, <2>1, StartSound
<1>13. /\ \A w \in t.events : EventFresh(s, w.id)
       /\ \A m \in t.moves : ReferenceFresh(s, m.ref)
  BY <1>2, <1>4, <1>8
<1> QED BY <1>4, <1>12, <1>13, SumKept DEF TypeInv

LEMMA LockRowSums ==
  ASSUME TypeInv, SumInv, NEW s \in Sessions, NEW h \in Holds, LockRow(s, h)
  PROVE  SumInv'
<1> DEFINE t == [NoTransaction EXCEPT !.phase = "row", !.holds[h] = hold[h]]
<1>1. t \in Transaction
  BY NoTransactionType DEF Transaction, NoTransaction, TypeInv, TypeOK
<1>2. SetTx(s, t) /\ UNCHANGED Stored /\ hold[h].status # "absent"
  BY DEF LockRow
<1>3. /\ t.phase = "row" /\ t.legs = {} /\ t.events = {} /\ t.moves = {} /\ t.delta = NoChange
      /\ t.holds = [g \in Holds |-> IF g = h THEN hold[h] ELSE AbsentHold]
  BY DEF NoTransaction
<1> HIDE DEF t
<1>4. TouchedBy(t) = {h} /\ t.holds[h] = hold[h]
  BY <1>2, <1>3 DEF TouchedBy, AbsentHold
<1>5. IsFiniteSet(TouchedBy(t)) /\ hold \in [Holds -> HoldRow]
  BY <1>4, FS_Singleton DEF TypeInv, TypeOK
<1>6. TxSound(t, hold)
  BY <1>1, <1>3, <1>4, <1>5, RowSoundTx
<1> QED BY <1>2, <1>3, <1>6, SumKept DEF TypeInv

LEMMA WriteRowSums ==
  ASSUME TypeInv, StockInv, HoldInv, LockOrder, SumInv, NEW s \in Sessions, tx[s].phase = "row",
         NEW h \in Touched(s), NEW r \in HoldRow, NEW e \in AllEventIds, NEW oh \in Int,
         NEW rv \in Int, WriteRow(s, h, r, e, oh, rv), UNCHANGED Stored, EventFresh(s, e),
         r.at = hold[h].at, r.at \in Locations, r.status # "absent",
         rv = Units(r, r.at) - Units(hold[h], r.at)
  PROVE  SumInv'
<1> DEFINE v == EventOf(e, h, oh, rv)
           leg == LegOf(h, r.at, oh, rv)
           t == [tx[s] EXCEPT
                  !.phase = "stock", !.holds[h] = r, !.events = {v}, !.legs = {leg}]
<1>1. v.id = e /\ v.hold = h /\ v.oh = oh /\ v.rv = rv
  BY DEF EventOf
<1>2. leg.for = h /\ leg.at = r.at /\ leg.oh = oh /\ leg.rv = rv
  BY DEF LegOf
<1>3. /\ tx[s] \in Transaction /\ tx[s].holds[h] = hold[h] /\ Touched(s) = {h} /\ h \in Holds
      /\ tx[s].moves = {} /\ tx[s].events = {}
  BY TxFields DEF TypeInv, HoldInv, WritesFollow, Touched, SumInv, TxSound, Planned
<1>4. v \in Event /\ leg \in Leg
  <2>1. h \in Holds \cup References
    BY <1>3
  <2> QED BY <1>3, <2>1, EventType, LegType
<1>5. SetTx(s, t)
  BY DEF WriteRow
<1> HIDE DEF v, leg
<1>6. t \in Transaction
  BY <1>3, <1>4 DEF Transaction
<1>7. /\ t.phase = "stock" /\ t.delta = tx[s].delta /\ t.moves = {} /\ t.events = {v}
      /\ t.legs = {leg} /\ t.holds = [tx[s].holds EXCEPT ![h] = r]
  BY <1>3 DEF Transaction
<1> HIDE DEF t
<1>8. TouchedBy(t) = {h} /\ t.holds[h] = r
  <2>1. tx[s].holds \in [Holds -> HoldRow]
    BY TxFields DEF TypeInv
  <2>2. t.holds[h] = r /\ \A g \in Holds \ {h} : t.holds[g] = tx[s].holds[g]
    BY <1>3, <1>7, <2>1
  <2> QED BY <1>3, <2>2 DEF TouchedBy, Touched
<1>9. HoldEffect(t, hold)
  BY <1>1, <1>2, <1>7, <1>8 DEF HoldEffect
<1>10. Countable(t)
  <2>1. IsFiniteSet({h}) /\ IsFiniteSet({v}) /\ IsFiniteSet({})
    BY FS_Singleton, FS_EmptySet
  <2> QED BY <1>7, <1>8, <2>1 DEF Countable
<1>11. t.delta = NoChange
  <2>1. tx[s].locked = {} /\ tx[s].delta \in [Locations -> Change]
    BY TxFields DEF LockOrder, TypeInv
  <2>2. \A i \in Locations : tx[s].delta[i] = [oh |-> 0, rv |-> 0]
    BY <2>1 DEF StockInv, SeenSound
  <2> QED BY <1>7, <2>1, <2>2 DEF NoChange
<1>12. TxSound(t, hold)
  <2>1. \A g \in TouchedBy(t) : Waits(t, g)
    BY <1>2, <1>7, <1>8 DEF Waits
  <2> QED BY <1>6, <1>7, <1>9, <1>10, <1>11, <2>1, StartSound
<1>13. /\ \A w \in t.events : EventFresh(s, w.id)
       /\ \A m \in t.moves : ReferenceFresh(s, m.ref)
  BY <1>1, <1>7
<1> QED BY <1>5, <1>12, <1>13, SumKept DEF TypeInv

LEMMA CloseSums ==
  ASSUME TypeInv, StockInv, HoldInv, LockOrder, SumInv, NEW s \in Sessions,
         NEW kind \in {"ship", "cancel", "expire"}, NEW e \in EventIds, Close(s, kind, e)
  PROVE  SumInv'
<1>1. PICK h \in Touched(s) :
        /\ EventFresh(s, e) /\ tx[s].holds[h].status = "reserved"
        /\ WriteRow(s, h, [tx[s].holds[h] EXCEPT !.status = ClosedStatus(kind), !.returned = 0],
                    e, IF kind = "ship" THEN -tx[s].holds[h].quantity ELSE 0,
                    -tx[s].holds[h].quantity)
  BY Zenon DEF Close
<1> DEFINE q == hold[h].quantity
           r == [hold[h] EXCEPT !.status = ClosedStatus(kind), !.returned = 0]
           oh == IF kind = "ship" THEN -q ELSE 0
<1>2. tx[s].phase = "row" /\ UNCHANGED Stored
  BY DEF Close
<1>3. /\ h \in Holds /\ tx[s].holds[h] = hold[h] /\ hold[h] \in HoldRow
      /\ hold[h].at \in Locations /\ q \in Nat
  BY <1>1, <1>2 DEF HoldInv, WritesFollow, Touched, TypeInv, TypeOK, AllPlaced, Placed, HoldRow
<1>4. hold[h].status = "reserved" /\ WriteRow(s, h, r, e, oh, -q)
  BY <1>1, <1>3
<1>5. r \in HoldRow /\ r.at = hold[h].at /\ r.status = ClosedStatus(kind)
  BY <1>3 DEF HoldRow, HoldStatus, ClosedStatus
<1>6. r.status \notin {"absent", "reserved"}
  BY <1>5 DEF ClosedStatus
<1>7. oh \in Int /\ -q \in Int /\ e \in AllEventIds
  BY <1>3 DEF AllEventIds
<1>8. -q = Units(r, r.at) - Units(hold[h], r.at)
  <2>1. Units(r, r.at) = 0 /\ Units(hold[h], r.at) = q
    BY <1>4, <1>5, <1>6 DEF Units
  <2> QED BY <1>3, <2>1
<1> HIDE DEF r, q, oh
<1>9. r.at \in Locations /\ EventFresh(s, e)
  BY <1>1, <1>3, <1>5
<1> QED BY <1>2, <1>4, <1>5, <1>6, <1>7, <1>8, <1>9, WriteRowSums

LEMMA ReturnSums ==
  ASSUME TypeInv, StockInv, HoldInv, LockOrder, SumInv, NEW s \in Sessions,
         NEW u \in Quantities, NEW e \in EventIds, Return(s, u, e)
  PROVE  SumInv'
<1>1. PICK h \in Touched(s) :
        /\ EventFresh(s, e) /\ ReturnFits(tx[s].holds[h], u)
        /\ WriteRow(s, h, [tx[s].holds[h] EXCEPT
                             !.returned = tx[s].holds[h].returned + u,
                             !.status = IF tx[s].holds[h].returned + u = tx[s].holds[h].quantity
                                        THEN "returned" ELSE "shipped"], e, u, 0)
  BY Zenon DEF Return
<1> DEFINE b == hold[h].returned + u
           r == [hold[h] EXCEPT !.returned = b,
                                !.status = IF b = hold[h].quantity THEN "returned" ELSE "shipped"]
<1>2. tx[s].phase = "row" /\ UNCHANGED Stored
  BY DEF Return
<1>3. /\ h \in Holds /\ tx[s].holds[h] = hold[h] /\ hold[h] \in HoldRow
      /\ hold[h].at \in Locations
  BY <1>1, <1>2 DEF HoldInv, WritesFollow, Touched, TypeInv, TypeOK, AllPlaced, Placed
<1>4. hold[h].status \in {"shipped", "returned"} /\ WriteRow(s, h, r, e, u, 0)
  BY <1>1, <1>3 DEF ReturnFits
<1>5. u \in Nat /\ b \in Nat
  BY <1>3, InventoryAssumption DEF HoldRow, Quantities
<1> HIDE DEF b
<1>6. r \in HoldRow /\ r.at = hold[h].at /\ r.status \in {"shipped", "returned"}
  BY <1>3, <1>5 DEF HoldRow, HoldStatus
<1>7. u \in Int /\ 0 \in Int /\ e \in AllEventIds
  BY <1>5 DEF AllEventIds
<1> HIDE DEF r
<1>8. 0 = Units(r, r.at) - Units(hold[h], r.at)
  <2>1. Units(r, r.at) = 0 /\ Units(hold[h], r.at) = 0
    BY <1>4, <1>6 DEF Units
  <2> QED BY <2>1
<1>9. r.at \in Locations /\ EventFresh(s, e) /\ r.status # "absent"
  BY <1>1, <1>3, <1>6
<1> QED BY <1>2, <1>4, <1>6, <1>7, <1>8, <1>9, WriteRowSums

LEMMA ReceiveSums ==
  ASSUME TypeInv, SumInv, NEW s \in Sessions, NEW r \in References, NEW i \in Locations,
         NEW q \in Quantities, Receive(s, r, i, q)
  PROVE  SumInv'
<1> DEFINE m == [ref |-> r, source |-> NoLocation, destination |-> i, quantity |-> q]
           L == {LegOf(r, i, q, 0)}
           t == [NoTransaction EXCEPT !.phase = "stock", !.moves = {m}, !.legs = L]
<1>1. SetTx(s, t) /\ UNCHANGED Stored /\ ReferenceFresh(s, r)
  BY DEF Receive
<1>2. q \in Nat /\ q \in Int /\ NoLocation \notin Locations
  BY InventoryAssumption DEF Quantities
<1>3. m \in Movement /\ m.ref = r /\ m.source = NoLocation /\ m.destination = i /\ m.quantity = q
  BY <1>2 DEF Movement
<1> HIDE DEF m
<1>4. L = {InLeg(m)} /\ L \subseteq Leg
  <2>1. LegOf(r, i, q, 0) \in Leg
    BY <1>2, LegType
  <2> QED BY <1>3, <2>1 DEF InLeg
<1> HIDE DEF L
<1>5. t \in Transaction
  BY <1>3, <1>4, NoTransactionType DEF Transaction, NoTransaction
<1>6. /\ t.phase = "stock" /\ t.delta = NoChange /\ t.events = {} /\ t.moves = {m} /\ t.legs = L
      /\ TouchedBy(t) = {}
  BY DEF NoTransaction, TouchedBy, AbsentHold
<1> HIDE DEF t
<1>7. TxSound(t, hold)
  BY <1>2, <1>3, <1>4, <1>5, <1>6, StartMoveSound
<1>8. /\ \A v \in t.events : EventFresh(s, v.id)
      /\ \A n \in t.moves : ReferenceFresh(s, n.ref)
  BY <1>1, <1>3, <1>6
<1> QED BY <1>1, <1>7, <1>8, SumKept DEF TypeInv

LEMMA TransferSums ==
  ASSUME TypeInv, SumInv, NEW s \in Sessions, NEW r \in References, NEW i \in Locations,
         NEW j \in Locations, NEW q \in Quantities, Transfer(s, r, i, j, q)
  PROVE  SumInv'
<1> DEFINE m == [ref |-> r, source |-> i, destination |-> j, quantity |-> q]
           L == {LegOf(r, i, -q, 0), LegOf(r, j, q, 0)}
           t == [NoTransaction EXCEPT !.phase = "stock", !.moves = {m}, !.legs = L,
                                      !.ordered = TRUE]
<1>1. SetTx(s, t) /\ UNCHANGED Stored /\ ReferenceFresh(s, r) /\ i # j
  BY DEF Transfer
<1>2. q \in Nat /\ q \in Int /\ -q \in Int
  BY InventoryAssumption DEF Quantities
<1>3. m \in Movement /\ m.ref = r /\ m.source = i /\ m.destination = j /\ m.quantity = q
  BY <1>2 DEF Movement
<1> HIDE DEF m
<1>4. L = {OutLeg(m), InLeg(m)} /\ L \subseteq Leg
  <2>1. LegOf(r, i, -q, 0) \in Leg /\ LegOf(r, j, q, 0) \in Leg
    BY <1>2, LegType
  <2> QED BY <1>3, <2>1 DEF InLeg, OutLeg
<1> HIDE DEF L
<1>5. t \in Transaction
  BY <1>3, <1>4, NoTransactionType DEF Transaction, NoTransaction
<1>6. /\ t.phase = "stock" /\ t.delta = NoChange /\ t.events = {} /\ t.moves = {m} /\ t.legs = L
      /\ TouchedBy(t) = {}
  BY DEF NoTransaction, TouchedBy, AbsentHold
<1> HIDE DEF t
<1>7. TxSound(t, hold)
  BY <1>1, <1>3, <1>4, <1>5, <1>6, StartMoveSound
<1>8. /\ \A v \in t.events : EventFresh(s, v.id)
      /\ \A n \in t.moves : ReferenceFresh(s, n.ref)
  BY <1>1, <1>3, <1>6
<1> QED BY <1>1, <1>7, <1>8, SumKept DEF TypeInv

LEMMA UpdateStockSums ==
  ASSUME TypeInv, SumInv, NEW s \in Sessions, NEW leg \in tx[s].legs, UpdateStock(s, leg)
  PROVE  SumInv'
<1> DEFINE d == tx[s].delta[leg.at]
           c == [oh |-> d.oh + leg.oh, rv |-> d.rv + leg.rv]
           t == [tx[s] EXCEPT !.legs = tx[s].legs \ {leg},
                              !.locked = tx[s].locked \cup {leg.at},
                              !.delta = [tx[s].delta EXCEPT ![leg.at] = c]]
<1>1. SetTx(s, t) /\ UNCHANGED Stored
  BY DEF UpdateStock
<1>2. tx[s] \in Transaction /\ hold \in [Holds -> HoldRow] /\ TxSound(tx[s], hold)
  BY DEF TypeInv, TypeOK, SumInv
<1>3. t \in Transaction
  <2>1. tx'[s] = t
    BY <1>1, SetTxOthers DEF TypeInv
  <2>2. TypeInv'
    BY UpdateStockType
  <2> QED BY <2>1, <2>2 DEF TypeInv, TypeOK
<1>4. /\ t.phase = tx[s].phase /\ t.holds = tx[s].holds /\ t.events = tx[s].events
      /\ t.moves = tx[s].moves /\ t.legs = tx[s].legs \ {leg}
      /\ t.delta = [tx[s].delta EXCEPT ![leg.at] = c]
  BY <1>2 DEF Transaction
<1> HIDE DEF t
<1>5. tx[s].phase = "stock" /\ (HoldEffect(tx[s], hold) \/ MoveEffect(tx[s]))
  BY <1>2 DEF TxSound, Planned
<1>6. TxSound(t, hold)
  BY <1>2, <1>3, <1>4, <1>5, HoldLegDone, MoveLegDone
<1>7. /\ \A v \in t.events : EventFresh(s, v.id)
      /\ \A n \in t.moves : ReferenceFresh(s, n.ref)
  BY <1>4 DEF SumInv, KeysFresh
<1> QED BY <1>1, <1>6, <1>7, SumKept DEF TypeInv

LEMMA RollbackSums ==
  ASSUME TypeInv, SumInv, NEW s \in Sessions, Rollback(s)
  PROVE  SumInv'
<1>1. SetTx(s, NoTransaction) /\ UNCHANGED Stored
  BY DEF Rollback
<1>2. NoTransaction.events = {} /\ NoTransaction.moves = {}
  BY DEF NoTransaction
<1> QED BY <1>1, <1>2, IdleSound, SumKept DEF TypeInv

LEMMA ExpireDueSums ==
  ASSUME TypeInv, SumInv, NEW s \in Sessions, ExpireDue(s)
  PROVE  SumInv'
<1> DEFINE due == {h \in overdue : hold[h].status = "reserved" /\ RowFree(s, h)}
           rows == [h \in Holds |->
                      IF h \in due THEN [hold[h] EXCEPT !.status = "expired", !.returned = 0]
                      ELSE AbsentHold]
           ev(h) == EventOf(ExpireEvent(h), h, 0, -hold[h].quantity)
           lg(h) == LegOf(h, hold[h].at, 0, -hold[h].quantity)
           evs == {EventOf(ExpireEvent(h), h, 0, -hold[h].quantity) : h \in due}
           lgs == {LegOf(h, hold[h].at, 0, -hold[h].quantity) : h \in due}
           t == [NoTransaction EXCEPT !.phase = "stock", !.holds = rows,
                                      !.events = evs, !.legs = lgs]
<1>1. /\ SetTx(s, t) /\ UNCHANGED Stored /\ \A h \in due : EventFresh(s, ExpireEvent(h))
  BY DEF ExpireDue
<1>2. t \in Transaction
  <2>1. tx'[s] = t
    BY <1>1, SetTxOthers DEF TypeInv
  <2>2. TypeInv'
    BY ExpireDueType
  <2> QED BY <2>1, <2>2 DEF TypeInv, TypeOK
<1>3. \A h \in due : /\ h \in Holds /\ hold[h] \in HoldRow /\ hold[h].at \in Locations
                     /\ hold[h].status = "reserved" /\ h \in Known
  BY DEF TypeInv, TypeOK, AllPlaced, Placed, Known
<1>4. IsFiniteSet(due)
  <2>1. due \subseteq Known
    BY <1>3
  <2> QED BY <2>1, FS_Subset DEF SumInv, Finite
<1> HIDE DEF due
<1>5. \A h \in due : /\ rows[h].status = "expired" /\ rows[h].at = hold[h].at
                     /\ ev(h).id = ExpireEvent(h) /\ ev(h).hold = h /\ ev(h).oh = 0
                     /\ ev(h).rv = -hold[h].quantity
                     /\ lg(h).for = h /\ lg(h).at = hold[h].at /\ lg(h).oh = 0
                     /\ lg(h).rv = -hold[h].quantity
  BY <1>3 DEF HoldRow, EventOf, LegOf
<1>6. \A h \in Holds \ due : rows[h].status = "absent"
  BY DEF AbsentHold
<1>7. (\A v \in evs : \E h \in due : v = ev(h)) /\ (\A h \in due : ev(h) \in evs)
      /\ (\A l \in lgs : \E h \in due : l = lg(h)) /\ (\A h \in due : lg(h) \in lgs)
  OBVIOUS
<1>8. IsFiniteSet(evs)
  <2> DEFINE f == [h \in due |-> ev(h)]
  <2>1. f \in Surjection(due, evs)
    BY DEF Surjection
  <2> QED BY <1>4, <2>1, FS_Surjection
<1> HIDE DEF rows, evs, lgs, ev, lg
<1>9. /\ t.phase = "stock" /\ t.delta = NoChange /\ t.moves = {} /\ t.events = evs /\ t.legs = lgs
      /\ t.holds = rows
  BY DEF NoTransaction
<1> HIDE DEF t
<1>10. TouchedBy(t) = due
  BY <1>3, <1>5, <1>6, <1>9 DEF TouchedBy
<1>11. HoldEffect(t, hold)
  <2>1. \A l \in lgs : /\ l.for \in due /\ l.at = rows[l.for].at /\ hold[l.for].at = l.at
                       /\ l.oh = 0 /\ l.rv = -hold[l.for].quantity
                       /\ ev(l.for) \in evs
    BY <1>5, <1>7
  <2>2. \A l \in lgs : l.rv = Units(rows[l.for], l.at) - Units(hold[l.for], l.at)
    <3> SUFFICES ASSUME NEW l \in lgs
                 PROVE  l.rv = Units(rows[l.for], l.at) - Units(hold[l.for], l.at)
      OBVIOUS
    <3>1. Units(rows[l.for], l.at) = 0 /\ Units(hold[l.for], l.at) = hold[l.for].quantity
      BY <1>3, <1>5, <2>1 DEF Units
    <3>2. hold[l.for].quantity \in Nat
      BY <1>3, <2>1 DEF HoldRow
    <3> QED BY <2>1, <3>1, <3>2
  <2>3. \A v \in evs : v.hold \in due
    BY <1>5, <1>7
  <2>4. \A v, w \in evs : v.hold = w.hold => v = w
    BY <1>5, <1>7
  <2>5. \A l, m \in lgs : l.for = m.for => l = m
    BY <1>5, <1>7
  <2>6. \A l \in lgs : \E v \in evs : v.hold = l.for /\ v.oh = l.oh /\ v.rv = l.rv
    BY <1>5, <2>1
  <2> QED BY <1>9, <1>10, <2>1, <2>2, <2>3, <2>4, <2>5, <2>6 DEF HoldEffect
<1>12. Countable(t)
  BY <1>4, <1>8, <1>9, <1>10, FS_EmptySet DEF Countable
<1>13. \A h \in TouchedBy(t) : Waits(t, h)
  BY <1>5, <1>7, <1>9, <1>10 DEF Waits
<1>14. TxSound(t, hold)
  BY <1>2, <1>9, <1>11, <1>12, <1>13, StartSound
<1>15. /\ \A v \in t.events : EventFresh(s, v.id)
       /\ \A n \in t.moves : ReferenceFresh(s, n.ref)
  BY <1>1, <1>5, <1>7, <1>9
<1> QED BY <1>1, <1>14, <1>15, SumKept DEF TypeInv

(* A commit adds to every stock row what the transaction's updates sum to.  *)
LEMMA CommitAdds ==
  ASSUME TypeInv, StockInv, NEW s \in Sessions, Commit(s), NEW i \in Locations
  PROVE  /\ stock'[i].reserved = stock[i].reserved + tx[s].delta[i].rv
         /\ stock'[i].on_hand = stock[i].on_hand + tx[s].delta[i].oh
<1>1. stock'[i] = Seen(s, i)
  BY DEF Commit
<1>2. stock[i] \in StockRow /\ tx[s].delta[i] \in Change
  BY TxFields DEF TypeInv, TypeOK
<1>3. CASE i \in tx[s].locked
  BY <1>1, <1>2, <1>3 DEF Seen, Shift
<1>4. CASE i \notin tx[s].locked
  <2>1. tx[s].delta[i] = [oh |-> 0, rv |-> 0] /\ stock'[i] = stock[i]
    BY <1>1, <1>4 DEF StockInv, SeenSound, Seen
  <2> QED BY <1>2, <2>1 DEF StockRow
<1> QED BY <1>3, <1>4

(* What the commit of a transaction makes of the reservations and keys.    *)
LEMMA CommitKnown ==
  ASSUME TypeInv, HoldInv, SumInv, NEW s \in Sessions, Commit(s)
  PROVE  /\ Known' = Known \cup TouchedBy(tx[s])
         /\ \A h \in TouchedBy(tx[s]) : hold'[h] = tx[s].holds[h]
         /\ \A h \in Holds \ TouchedBy(tx[s]) : hold'[h] = hold[h]
         /\ \A h \in Known : hold'[h].at = hold[h].at
         /\ \A v \in tx[s].events : v.hold \in TouchedBy(tx[s])
<1>1. \A h \in Holds : IF h \in TouchedBy(tx[s])
                       THEN hold'[h] = tx[s].holds[h] /\ Follows(hold[h], hold'[h])
                       ELSE hold'[h] = hold[h]
  BY CommitFollows, TouchedIs
<1>2. Known' = Known \cup TouchedBy(tx[s])
  BY <1>1 DEF Known, TouchedBy
<1>3. \A h \in Known : hold'[h].at = hold[h].at
  BY <1>1 DEF Known, Follows
<1>4. \A v \in tx[s].events : v.hold \in TouchedBy(tx[s])
  BY DEF SumInv, TxSound, Planned, HoldEffect, MoveEffect
<1> QED BY <1>1, <1>2, <1>3, <1>4 DEF TouchedBy

LEMMA CommitReserved ==
  ASSUME TypeInv, StockInv, HoldInv, SumInv, NEW s \in Sessions, Commit(s), NEW i \in Unfed
  PROVE  stock'[i].reserved = SumFunctionOnSet(UnitsAt(hold', i), Known')
<1> DEFINE T == TouchedBy(tx[s])
           S == Known \cup T
<1> i \in Locations
  BY DEF Unfed
<1>1. TypeInv'
  BY CommitType
<1>2. /\ hold \in [Holds -> HoldRow] /\ hold' \in [Holds -> HoldRow]
      /\ tx[s].holds \in [Holds -> HoldRow] /\ stock[i].reserved \in Int
  BY <1>1, TxFields DEF TypeInv, TypeOK, StockRow
<1>3. /\ T \in SUBSET Holds /\ S \in SUBSET Holds /\ IsFiniteSet(T) /\ IsFiniteSet(Known)
      /\ IsFiniteSet(S) /\ T \subseteq S /\ Known \subseteq S
  <2>1. IsFiniteSet(T) /\ IsFiniteSet(Known)
    BY DEF SumInv, Finite, TxSound, Countable
  <2> QED BY <2>1, FS_Union DEF TouchedBy, Known
<1>4. DoneHolds(tx[s]) = T
  BY DEF DoneHolds, Waits, Commit
<1> HIDE DEF T, S
<1> DEFINE A == SumFunctionOnSet(UnitsAt(hold, i), Known)
           B == SumFunctionOnSet(UnitsAt(hold, i), T)
           C == SumFunctionOnSet(UnitsAt(tx[s].holds, i), T)
           D == SumFunctionOnSet(UnitsAt(hold', i), S)
<1>5. /\ IntOn(UnitsAt(hold, i), S) /\ IntOn(UnitsAt(hold', i), S)
      /\ IntOn(UnitsAt(hold, i), T) /\ IntOn(UnitsAt(tx[s].holds, i), T)
  BY <1>2, <1>3, UnitsInt
<1>6. B \in Int /\ C \in Int /\ D \in Int
  BY <1>3, <1>5, SumType
<1>7. SumFunctionOnSet(UnitsAt(hold, i), S) = A
  <2>1. \A h \in S \ Known : UnitsAt(hold, i)[h] = 0
    BY <1>3 DEF UnitsAt, Units, Known
  <2> QED BY <1>3, <1>5, <2>1, SumSupport
<1>8. SumFunctionOnSet(UnitsAt(hold', i), T) = C
  <2>1. \A h \in T : UnitsAt(hold', i)[h] = UnitsAt(tx[s].holds, i)[h]
    BY <1>3, CommitKnown DEF UnitsAt, T
  <2> QED BY <1>3, <2>1, SumSame
<1>9. D - A = C - B
  <2>1. \A h \in S \ T : UnitsAt(hold, i)[h] = UnitsAt(hold', i)[h]
    BY <1>3, CommitKnown DEF UnitsAt, T
  <2>2. SumFunctionOnSet(UnitsAt(hold', i), S) - SumFunctionOnSet(UnitsAt(hold, i), S)
          = SumFunctionOnSet(UnitsAt(hold', i), T) - SumFunctionOnSet(UnitsAt(hold, i), T)
    BY <1>3, <1>5, <2>1, SumChange
  <2> QED BY <1>7, <1>8, <2>2
<1>10. stock[i].reserved = A /\ tx[s].delta[i].rv = C - B
  <2>1. BalancedAt(tx[s], hold, i)
    BY DEF SumInv, TxSound
  <2> QED BY <1>4, <2>1 DEF SumInv, BalancedAt
<1>11. stock'[i].reserved = stock[i].reserved + tx[s].delta[i].rv
  BY CommitAdds
<1>12. D = SumFunctionOnSet(UnitsAt(hold', i), Known')
  BY CommitKnown DEF S, T
<1> HIDE DEF A, B, C, D
<1>13. stock'[i].reserved = D
  BY <1>2, <1>6, <1>9, <1>10, <1>11
<1> QED BY <1>12, <1>13

LEMMA CommitAccounts ==
  ASSUME TypeInv, StockInv, HoldInv, SumInv, NEW s \in Sessions, Commit(s), NEW i \in Unfed
  PROVE  Accounted(i)'
<1> DEFINE t == tx[s]
           at == {v \in events : hold[v.hold].at = i}
           into == {m \in moves : m.destination = i}
           outof == {m \in moves : m.source = i}
           E == DoneEvents(t, i)
           I == DoneIn(t, i)
           O == DoneOut(t, i)
<1> i \in Locations
  BY DEF Unfed
<1>1. /\ t.legs = {} /\ events' = events \cup t.events /\ moves' = moves \cup t.moves
      /\ events \subseteq Event /\ moves \subseteq Movement
      /\ t.events \subseteq Event /\ t.moves \subseteq Movement
      /\ IsFiniteSet(events) /\ IsFiniteSet(moves) /\ IsFiniteSet(t.events) /\ IsFiniteSet(t.moves)
  BY TxFields DEF Commit, TypeInv, TypeOK, SumInv, Finite, TxSound, Countable
<1>2. /\ E = {v \in t.events : t.holds[v.hold].at = i}
      /\ I = {m \in t.moves : m.destination = i}
      /\ O = {m \in t.moves : m.source = i}
  BY <1>1 DEF DoneEvents, DoneIn, DoneOut, Waits
<1>3. {v \in events' : hold'[v.hold].at = i} = at \cup E
  <2>1. \A v \in events : hold'[v.hold].at = hold[v.hold].at
    BY CommitKnown DEF SumInv
  <2>2. \A v \in t.events : hold'[v.hold] = t.holds[v.hold]
    BY CommitKnown
  <2> QED BY <1>1, <1>2, <2>1, <2>2
<1>4. /\ {m \in moves' : m.destination = i} = into \cup I
      /\ {m \in moves' : m.source = i} = outof \cup O
  BY <1>1, <1>2
<1>5. /\ at \cap E = {} /\ into \cap I = {} /\ outof \cap O = {}
  <2>1. KeysFresh(s)
    BY DEF SumInv
  <2> QED BY <1>2, <2>1 DEF KeysFresh, EventFresh, ReferenceFresh
<1>6. /\ IsFiniteSet(at) /\ IsFiniteSet(E) /\ at \in SUBSET Event /\ E \in SUBSET Event
      /\ IsFiniteSet(into) /\ IsFiniteSet(I) /\ into \in SUBSET Movement /\ I \in SUBSET Movement
      /\ IsFiniteSet(outof) /\ IsFiniteSet(O) /\ outof \in SUBSET Movement /\ O \in SUBSET Movement
  <2>1. /\ at \subseteq events /\ E \subseteq t.events
        /\ into \subseteq moves /\ I \subseteq t.moves
        /\ outof \subseteq moves /\ O \subseteq t.moves
    BY <1>2
  <2> HIDE DEF t, at, into, outof, E, I, O
  <2> QED BY <1>1, <2>1, FS_Subset
<1>7. /\ IntOn(OnHandOf, at) /\ IntOn(OnHandOf, E) /\ IntOn(ReservedOf, at) /\ IntOn(ReservedOf, E)
      /\ IntOn(QuantityOf, into) /\ IntOn(QuantityOf, I)
      /\ IntOn(QuantityOf, outof) /\ IntOn(QuantityOf, O)
  <2> HIDE DEF t, at, into, outof, E, I, O
  <2> QED BY <1>6, EventInt, MoveInt
<1>8. Accounted(i) /\ BalancedAt(t, hold, i)
  BY DEF SumInv, TxSound
<1>9. /\ stock'[i].reserved = stock[i].reserved + t.delta[i].rv
      /\ stock'[i].on_hand = stock[i].on_hand + t.delta[i].oh
  BY CommitAdds
<1>10. stock[i].reserved = SumFunctionOnSet(ReservedOf, at)
       /\ stock[i].on_hand = InitialStock[i] + SumFunctionOnSet(OnHandOf, at)
            + SumFunctionOnSet(QuantityOf, into) - SumFunctionOnSet(QuantityOf, outof)
  BY <1>8 DEF Accounted, ReservedOf, OnHandOf, QuantityOf
<1>11. t.delta[i].rv = SumFunctionOnSet(ReservedOf, E)
       /\ t.delta[i].oh = SumFunctionOnSet(OnHandOf, E)
            + SumFunctionOnSet(QuantityOf, I) - SumFunctionOnSet(QuantityOf, O)
  BY <1>8 DEF BalancedAt
<1>12. /\ SumFunctionOnSet(ReservedOf, at \cup E)
            = SumFunctionOnSet(ReservedOf, at) + SumFunctionOnSet(ReservedOf, E)
       /\ SumFunctionOnSet(OnHandOf, at \cup E)
            = SumFunctionOnSet(OnHandOf, at) + SumFunctionOnSet(OnHandOf, E)
       /\ SumFunctionOnSet(QuantityOf, into \cup I)
            = SumFunctionOnSet(QuantityOf, into) + SumFunctionOnSet(QuantityOf, I)
       /\ SumFunctionOnSet(QuantityOf, outof \cup O)
            = SumFunctionOnSet(QuantityOf, outof) + SumFunctionOnSet(QuantityOf, O)
  <2> HIDE DEF t, at, into, outof, E, I, O
  <2> QED BY <1>5, <1>6, <1>7, SumUnion
<1>13. /\ SumFunctionOnSet(ReservedOf, at) \in Int /\ SumFunctionOnSet(ReservedOf, E) \in Int
       /\ SumFunctionOnSet(OnHandOf, at) \in Int /\ SumFunctionOnSet(OnHandOf, E) \in Int
       /\ SumFunctionOnSet(QuantityOf, into) \in Int /\ SumFunctionOnSet(QuantityOf, I) \in Int
       /\ SumFunctionOnSet(QuantityOf, outof) \in Int /\ SumFunctionOnSet(QuantityOf, O) \in Int
  <2> HIDE DEF t, at, into, outof, E, I, O
  <2> QED BY <1>6, <1>7, SumType
<1>14. InitialStock[i] \in Int
  BY InventoryAssumption
<1>15. stock'[i].reserved = SumFunctionOnSet(ReservedOf, at \cup E)
  <2> HIDE DEF t, at, E
  <2> QED BY <1>9, <1>10, <1>11, <1>12
<1>16. stock'[i].on_hand = InitialStock[i] + SumFunctionOnSet(OnHandOf, at \cup E)
            + SumFunctionOnSet(QuantityOf, into \cup I) - SumFunctionOnSet(QuantityOf, outof \cup O)
  <2> DEFINE a == SumFunctionOnSet(OnHandOf, at)
             b == SumFunctionOnSet(OnHandOf, E)
             c == SumFunctionOnSet(QuantityOf, into)
             d == SumFunctionOnSet(QuantityOf, I)
             e == SumFunctionOnSet(QuantityOf, outof)
             f == SumFunctionOnSet(QuantityOf, O)
             k == InitialStock[i]
  <2>1. stock'[i].on_hand = (k + a + c - e) + (b + d - f)
    BY <1>9, <1>10, <1>11
  <2>2. a \in Int /\ b \in Int /\ c \in Int /\ d \in Int /\ e \in Int /\ f \in Int /\ k \in Int
    BY <1>13, <1>14
  <2> HIDE DEF a, b, c, d, e, f, k
  <2>3. stock'[i].on_hand = k + (a + b) + (c + d) - (e + f)
    BY <2>1, <2>2
  <2> QED BY <1>12, <2>3 DEF a, b, c, d, e, f, k
<1> QED BY <1>3, <1>4, <1>15, <1>16 DEF Accounted, ReservedOf, OnHandOf, QuantityOf

LEMMA CommitSums ==
  ASSUME TypeInv, StockInv, HoldInv, SumInv, NEW s \in Sessions, Commit(s)
  PROVE  SumInv'
<1>1. tx'[s] = NoTransaction /\ \A p \in Others(s) : p \in Sessions /\ tx'[p] = tx[p]
  BY SetTxOthers DEF Commit, TypeInv
<1>2. events' = events \cup tx[s].events /\ moves' = moves \cup tx[s].moves
  BY DEF Commit
<1>3. Finite'
  <2>1. /\ Finite /\ IsFiniteSet(TouchedBy(tx[s])) /\ IsFiniteSet(tx[s].events)
        /\ IsFiniteSet(tx[s].moves)
    BY DEF SumInv, TxSound, Countable
  <2>2. Known' = Known \cup TouchedBy(tx[s])
    BY CommitKnown
  <2> QED BY <1>2, <2>1, <2>2, FS_Union DEF Finite
<1>4. \A v \in events' : v.hold \in Known'
  BY <1>2, CommitKnown DEF SumInv
<1>5. TxSound(tx'[s], hold') /\ KeysFresh(s)'
  <2>1. NoTransaction.events = {} /\ NoTransaction.moves = {}
    BY DEF NoTransaction
  <2> QED BY <1>1, <2>1, IdleSound DEF KeysFresh
<1>6. ASSUME NEW p \in Others(s) PROVE TxSound(tx'[p], hold') /\ KeysFresh(p)'
  <2>1. p \in Sessions /\ p # s /\ tx'[p] = tx[p] /\ tx[p] \in Transaction
    BY <1>1, TxFields DEF Others, TypeInv
  <2>2. \A h \in TouchedBy(tx[p]) : hold[h] = hold'[h]
    <3>1. Touched(p) \cap Touched(s) = {}
      BY <2>1 DEF HoldInv, RowsExclusive, Others
    <3> QED BY <3>1, TouchedIs, CommitKnown DEF TouchedBy
  <2>3. TxSound(tx[p], hold')
    BY <2>1, <2>2, SoundSame DEF SumInv
  <2>4. KeysFresh(p) /\ s \in Others(p)
    BY <2>1 DEF SumInv, Others
  <2>5. \A o \in Others(p) :
          tx'[o].events \subseteq tx[o].events /\ tx'[o].moves \subseteq tx[o].moves
    <3>1. NoTransaction.events = {} /\ NoTransaction.moves = {}
      BY DEF NoTransaction
    <3> QED BY <1>1, <3>1 DEF Others
  <2>6. KeysFresh(p)'
    BY <1>2, <2>1, <2>4, <2>5 DEF KeysFresh, EventFresh, ReferenceFresh
  <2> QED BY <2>1, <2>3, <2>6
<1>7. \A i \in Unfed : /\ stock'[i].reserved = SumFunctionOnSet(UnitsAt(hold', i), Known')
                       /\ Accounted(i)'
  BY CommitReserved, CommitAccounts
<1>8. \A p \in Sessions : TxSound(tx'[p], hold') /\ KeysFresh(p)'
  BY <1>5, <1>6 DEF Others
<1> QED BY <1>3, <1>4, <1>7, <1>8 DEF SumInv

(* A step that changes stock at most in rows that a feed overwrites.        *)
LEMMA SumsUntouched ==
  ASSUME SumInv, UNCHANGED <<hold, events, moves, tx>>,
         \A i \in Unfed : stock'[i] = stock[i]
  PROVE  SumInv'
<1>1. Known' = Known
  BY DEF Known
<1>2. \A s \in Sessions : KeysFresh(s)'
  BY DEF SumInv, KeysFresh, EventFresh, ReferenceFresh
<1>3. \A i \in Unfed : Accounted(i)'
  BY DEF SumInv, Accounted
<1> QED BY <1>1, <1>2, <1>3 DEF SumInv, Finite

LEMMA SumNext ==
  ASSUME TypeInv, StockInv, HoldInv, LockOrder, SumInv, [Next]_vars
  PROVE  SumInv'
<1>1. ASSUME NEW s \in Sessions, NEW h \in Holds, NEW i \in Locations, NEW q \in Quantities,
             NEW timed \in BOOLEAN, Reserve(s, h, i, q, timed)
      PROVE  SumInv'
  BY <1>1, ReserveSums
<1>2. ASSUME NEW s \in Sessions, NEW h \in Holds, LockRow(s, h)
      PROVE  SumInv'
  BY <1>2, LockRowSums
<1>3. ASSUME NEW s \in Sessions, NEW kind \in {"ship", "cancel", "expire"}, NEW e \in EventIds,
             Close(s, kind, e)
      PROVE  SumInv'
  BY <1>3, CloseSums
<1>4. ASSUME NEW s \in Sessions, NEW u \in Quantities, NEW e \in EventIds, Return(s, u, e)
      PROVE  SumInv'
  BY <1>4, ReturnSums
<1>5. ASSUME NEW s \in Sessions, ExpireDue(s)
      PROVE  SumInv'
  BY <1>5, ExpireDueSums
<1>6. ASSUME NEW s \in Sessions, NEW r \in References, NEW i \in Locations, NEW q \in Quantities,
             Receive(s, r, i, q)
      PROVE  SumInv'
  BY <1>6, ReceiveSums
<1>7. ASSUME NEW s \in Sessions, NEW r \in References, NEW i \in Locations, NEW j \in Locations,
             NEW q \in Quantities, Transfer(s, r, i, j, q)
      PROVE  SumInv'
  BY <1>7, TransferSums
<1>8. ASSUME NEW s \in Sessions, NEW leg \in tx[s].legs, UpdateStock(s, leg)
      PROVE  SumInv'
  BY <1>8, UpdateStockSums
<1>9. ASSUME NEW s \in Sessions, Commit(s)
      PROVE  SumInv'
  BY <1>9, CommitSums
<1>10. ASSUME NEW s \in Sessions, Rollback(s)
       PROVE  SumInv'
  BY <1>10, RollbackSums
<1>11. ASSUME NEW h \in Holds, DeadlinePasses(h)
       PROVE  SumInv'
  BY <1>11, SumsUntouched DEF DeadlinePasses
<1>12. ASSUME NEW i \in FeedLocations, NEW q \in 0..MaxQuantity, Feed(i, q)
       PROVE  SumInv'
  <2>1. \A j \in Unfed : stock'[j] = stock[j]
    BY <1>12 DEF Feed, TypeInv, TypeOK, Unfed
  <2> QED BY <1>12, <2>1, SumsUntouched DEF Feed
<1>13. CASE UNCHANGED vars
  BY <1>13, SumsUntouched DEF vars
<1> QED BY <1>1, <1>2, <1>3, <1>4, <1>5, <1>6, <1>7, <1>8, <1>9, <1>10, <1>11, <1>12, <1>13
        DEF Next

LEMMA SumInit == Init => SumInv
<1> SUFFICES ASSUME Init PROVE SumInv
  OBVIOUS
<1>1. Known = {} /\ events = {} /\ moves = {}
  BY DEF Init, Known, AbsentHold
<1>2. Finite
  BY <1>1, FS_EmptySet DEF Finite
<1>3. ASSUME NEW s \in Sessions PROVE TxSound(tx[s], hold) /\ KeysFresh(s)
  <2>1. tx[s] = NoTransaction /\ NoTransaction.events = {} /\ NoTransaction.moves = {}
    BY DEF Init, NoTransaction
  <2> QED BY <2>1, IdleSound DEF KeysFresh
<1>4. ASSUME NEW i \in Unfed
      PROVE  /\ stock[i].reserved = SumFunctionOnSet(UnitsAt(hold, i), Known)
             /\ Accounted(i)
  <2> i \in Locations
    BY DEF Unfed
  <2>1. stock[i].reserved = 0 /\ stock[i].on_hand = InitialStock[i] /\ InitialStock[i] \in Nat
    BY InventoryAssumption DEF Init
  <2>2. /\ {v \in events : hold[v.hold].at = i} = {} /\ {m \in moves : m.destination = i} = {}
        /\ {m \in moves : m.source = i} = {}
    BY <1>1
  <2>3. stock[i].on_hand = InitialStock[i] + 0 + 0 - 0
    BY <2>1
  <2> QED BY <1>1, <2>1, <2>2, <2>3, SumEmpty DEF Accounted
<1> QED BY <1>1, <1>2, <1>3, <1>4 DEF SumInv

LEMMA SumInvariant == Spec => [](SumInv /\ TypeInv /\ StockInv)
<1> DEFINE IInv == TypeInv /\ StockInv /\ HoldInv /\ LockOrder /\ SumInv
<1>1. Init => IInv
  BY TypeInit, StockInit, HoldInit, OrderInit, SumInit
<1>2. IInv /\ [Next]_vars => IInv'
  BY TypeNext, StockNext, HoldNext, OrderNext, SumNext
<1> QED BY <1>1, <1>2, PTL DEF Spec

(* What the counter of a row sums is what HeldAt sums.                     *)
LEMMA HeldIsReserved ==
  ASSUME TypeInv, SumInv, NEW i \in Unfed
  PROVE  stock[i].reserved = HeldAt(i)
<1> DEFINE f == UnitsAt(hold, i)
           g == [h \in Holds |-> hold[h].quantity]
           S == {h \in Holds : hold[h].status = "reserved" /\ hold[h].at = i}
<1>1. Known \in SUBSET Holds /\ IsFiniteSet(Known) /\ hold \in [Holds -> HoldRow]
  BY DEF Known, SumInv, Finite, TypeInv, TypeOK
<1>2. S \subseteq Known /\ \A h \in Known \ S : f[h] = 0
  BY DEF Known, UnitsAt, Units
<1>3. \A h \in S : f[h] = g[h]
  BY DEF UnitsAt, Units
<1>4. IntOn(f, Known)
  BY <1>1, UnitsInt
<1>5. IsFiniteSet(S)
  BY <1>1, <1>2, FS_Subset
<1>6. stock[i].reserved = SumFunctionOnSet(f, Known)
  BY DEF SumInv
<1> HIDE DEF f, g, S
<1>7. SumFunctionOnSet(f, Known) = SumFunctionOnSet(f, S)
  BY <1>1, <1>2, <1>4, SumSupport
<1>8. SumFunctionOnSet(f, S) = SumFunctionOnSet(g, S)
  BY <1>3, <1>5, SumSame
<1> QED BY <1>6, <1>7, <1>8 DEF HeldAt, g, S

(* In every row that no feed overwrites, whatever feeds do to the others,   *)
(* the reserved counter is the sum of the open reservations there, the      *)
(* events and movements account for the stock, and what buyers were         *)
(* promised is on hand: a feed can only break the rows it writes.           *)
UnfedRowsAddUp ==
  \A i \in Unfed :
    stock[i].reserved = HeldAt(i) /\ Accounted(i) /\ HeldAt(i) <= stock[i].on_hand

THEOREM UnfedRowsKept == Spec => []UnfedRowsAddUp
<1>1. SumInv /\ TypeInv /\ StockInv => UnfedRowsAddUp
  <2> SUFFICES ASSUME SumInv, TypeInv, StockInv, NEW i \in Unfed
               PROVE  stock[i].reserved = HeldAt(i) /\ Accounted(i)
                      /\ HeldAt(i) <= stock[i].on_hand
    BY DEF UnfedRowsAddUp
  <2>1. stock[i].reserved = HeldAt(i) /\ Accounted(i)
    BY HeldIsReserved DEF SumInv
  <2>2. stock[i].reserved <= stock[i].on_hand
    BY DEF StockInv, StockSound, Unfed
  <2> QED BY <2>1, <2>2
<1> QED BY <1>1, SumInvariant, PTL

(* Without a feed the reserved counter of every row is the sum of the open  *)
(* reservations there, whatever reserves, shipments, cancellations and      *)
(* expiries run together: no race counts one twice or forgets it.           *)
THEOREM ReservedAlwaysHeld ==
  ASSUME FeedLocations = {}
  PROVE  Spec => []ReservedIsHeld
<1>1. UnfedRowsAddUp => ReservedIsHeld
  BY DEF UnfedRowsAddUp, Unfed, ReservedIsHeld
<1> QED BY <1>1, UnfedRowsKept, PTL

(* Without a feed the effect events and the movements, each counted once,   *)
(* add up to the stock of every row: nothing moved stock unrecorded or      *)
(* twice.                                                                  *)
THEOREM LedgerAccounts ==
  ASSUME FeedLocations = {}
  PROVE  Spec => []EventsAccountForStock
<1>1. UnfedRowsAddUp => EventsAccountForStock
  BY DEF UnfedRowsAddUp, Unfed, EventsAccountForStock
<1> QED BY <1>1, UnfedRowsKept, PTL

(* Without a feed the units promised to buyers at a location are there: the *)
(* inventory effects alone never oversell.                                 *)
THEOREM OnlyFeedsOversell ==
  ASSUME FeedLocations = {}
  PROVE  Spec => []NeverOversold
<1>1. UnfedRowsAddUp => NeverOversold
  BY DEF UnfedRowsAddUp, Unfed, NeverOversold
<1> QED BY <1>1, UnfedRowsKept, PTL

-----------------------------------------------------------------------------
(* The promises.  What a transaction will commit is one effect: it turns one *)
(* reservation and moves what that accounts for, or lets several expire, or  *)
(* is a receipt or transfer.                                               *)
SoldOut(r) == IF r.status \in {"shipped", "returned"} THEN r.returned - r.quantity ELSE 0

(* Follows, with the quantities an effect can have.                        *)
Turns(old, new) ==
  \/ /\ old.status = "absent" /\ new.status = "reserved"
     /\ new.returned = 0 /\ new.quantity \in Quantities
  \/ /\ old.status = "reserved" /\ old.returned = 0
     /\ new.status \in {"shipped", "cancelled", "expired"}
     /\ new.at = old.at /\ new.quantity = old.quantity /\ new.returned = 0
  \/ /\ old.status = "shipped" /\ new.status \in {"shipped", "returned"}
     /\ new.at = old.at /\ new.quantity = old.quantity
     /\ new.returned - old.returned \in Quantities /\ new.returned <= new.quantity

TurnsOne(t, H) ==
  /\ t.moves = {}
  /\ \E h \in Holds, v \in Event :
       /\ TouchedBy(t) = {h} /\ t.events = {v} /\ v.hold = h
       /\ v.oh = SoldOut(t.holds[h]) - SoldOut(H[h])

LetsExpire(t) ==
  /\ t.moves = {}
  /\ \A h \in TouchedBy(t) : t.holds[h].status = "expired"
  /\ \A v \in t.events : v.oh = 0

MovesStock(t) ==
  /\ TouchedBy(t) = {} /\ t.events = {}
  /\ \E m \in Movement :
       t.moves = {m} /\ m.quantity \in Quantities /\ m.source # m.destination

OneEffect(t, H) ==
  /\ \A h \in TouchedBy(t) : Turns(H[h], t.holds[h])
  /\ TurnsOne(t, H) \/ LetsExpire(t) \/ MovesStock(t)

EffectInv ==
  /\ \A h \in Holds : hold[h].status \in {"absent", "reserved"} => hold[h].returned = 0
  /\ \A s \in Sessions : tx[s].phase = "stock" => OneEffect(tx[s], hold)

LEMMA EffectKept ==
  ASSUME TypeOK, EffectInv, NEW s \in Sessions, NEW t, SetTx(s, t), hold' = hold,
         t.phase = "stock" => OneEffect(t, hold)
  PROVE  EffectInv'
<1>1. tx'[s] = t /\ \A p \in Others(s) : p \in Sessions /\ tx'[p] = tx[p]
  BY SetTxOthers
<1>2. \A p \in Sessions : tx'[p].phase = "stock" => OneEffect(tx'[p], hold')
  BY <1>1 DEF EffectInv, Others
<1> QED BY <1>2 DEF EffectInv

(* Only the reservations it touches matter.                                *)
LEMMA EffectSame ==
  ASSUME NEW t, NEW H, NEW K, OneEffect(t, H), \A h \in TouchedBy(t) : H[h] = K[h]
  PROVE  OneEffect(t, K)
<1>1. TurnsOne(t, H) => TurnsOne(t, K)
  BY DEF TurnsOne
<1> QED BY <1>1 DEF OneEffect

LEMMA ReserveEffects ==
  ASSUME TypeInv, EffectInv, NEW s \in Sessions, NEW h \in Holds, NEW i \in Locations,
         NEW q \in Quantities, NEW timed \in BOOLEAN, Reserve(s, h, i, q, timed)
  PROVE  EffectInv'
<1> DEFINE r == [status |-> "reserved", at |-> i, quantity |-> q, returned |-> 0, timed |-> timed]
           v == EventOf(ReserveEvent(h), h, 0, q)
           leg == LegOf(h, i, 0, q)
           t == [NoTransaction EXCEPT
                  !.phase = "stock", !.holds[h] = r, !.events = {v}, !.legs = {leg}]
<1>1. v \in Event /\ v.hold = h /\ v.oh = 0
  <2>1. ReserveEvent(h) \in AllEventIds /\ 0 \in Int /\ q \in Int
    BY DEF AllEventIds, Quantities
  <2> QED BY <2>1, EventType DEF EventOf
<1>2. SetTx(s, t) /\ hold' = hold /\ hold[h].status = "absent"
  BY DEF Reserve, Stored
<1>3. /\ r.status = "reserved" /\ r.returned = 0 /\ r.quantity = q
  OBVIOUS
<1> HIDE DEF r, v, leg
<1>4. /\ t.moves = {} /\ t.events = {v}
      /\ t.holds = [g \in Holds |-> IF g = h THEN r ELSE AbsentHold]
  BY DEF NoTransaction
<1> HIDE DEF t
<1>5. TouchedBy(t) = {h} /\ t.holds[h] = r
  BY <1>3, <1>4 DEF TouchedBy, AbsentHold
<1>6. Turns(hold[h], r)
  BY <1>2, <1>3 DEF Turns
<1>7. SoldOut(r) = 0 /\ SoldOut(hold[h]) = 0
  BY <1>2, <1>3 DEF SoldOut
<1>8. TurnsOne(t, hold)
  BY <1>1, <1>4, <1>5, <1>7 DEF TurnsOne
<1>9. OneEffect(t, hold)
  BY <1>5, <1>6, <1>8 DEF OneEffect
<1> QED BY <1>2, <1>9, EffectKept DEF TypeInv

LEMMA LockRowEffects ==
  ASSUME TypeInv, EffectInv, NEW s \in Sessions, NEW h \in Holds, LockRow(s, h)
  PROVE  EffectInv'
<1> DEFINE t == [NoTransaction EXCEPT !.phase = "row", !.holds[h] = hold[h]]
<1>1. SetTx(s, t) /\ hold' = hold /\ t.phase = "row"
  BY DEF LockRow, Stored, NoTransaction
<1> HIDE DEF t
<1> QED BY <1>1, EffectKept DEF TypeInv

LEMMA WriteRowEffects ==
  ASSUME TypeInv, HoldInv, SumInv, EffectInv, NEW s \in Sessions, tx[s].phase = "row",
         NEW h \in Touched(s), NEW r, NEW e \in AllEventIds, NEW oh \in Int,
         NEW rv \in Int, WriteRow(s, h, r, e, oh, rv), hold' = hold,
         r.status # "absent", Turns(hold[h], r), oh = SoldOut(r) - SoldOut(hold[h])
  PROVE  EffectInv'
<1> DEFINE v == EventOf(e, h, oh, rv)
           leg == LegOf(h, r.at, oh, rv)
           t == [tx[s] EXCEPT
                  !.phase = "stock", !.holds[h] = r, !.events = {v}, !.legs = {leg}]
<1>1. /\ tx[s] \in Transaction /\ tx[s].holds \in [Holds -> HoldRow] /\ Touched(s) = {h}
      /\ h \in Holds /\ tx[s].moves = {}
  BY TxFields DEF TypeInv, HoldInv, WritesFollow, Touched, SumInv, TxSound, Planned
<1>2. v \in Event /\ v.hold = h /\ v.oh = oh
  BY <1>1, EventType DEF EventOf
<1>3. SetTx(s, t)
  BY DEF WriteRow
<1> HIDE DEF v, leg
<1>4. t.moves = {} /\ t.events = {v} /\ t.holds = [tx[s].holds EXCEPT ![h] = r]
  BY <1>1 DEF Transaction
<1> HIDE DEF t
<1>5. t.holds[h] = r /\ \A g \in Holds \ {h} : t.holds[g] = tx[s].holds[g]
  BY <1>1, <1>4
<1>6. TouchedBy(t) = {h}
  BY <1>1, <1>5 DEF TouchedBy, Touched
<1>7. TurnsOne(t, hold)
  BY <1>1, <1>2, <1>4, <1>5, <1>6 DEF TurnsOne
<1>8. OneEffect(t, hold)
  BY <1>5, <1>6, <1>7 DEF OneEffect
<1> QED BY <1>3, <1>8, EffectKept DEF TypeInv

LEMMA CloseEffects ==
  ASSUME TypeInv, HoldInv, SumInv, EffectInv, NEW s \in Sessions,
         NEW kind \in {"ship", "cancel", "expire"}, NEW e \in EventIds, Close(s, kind, e)
  PROVE  EffectInv'
<1>1. PICK h \in Touched(s) :
        /\ tx[s].holds[h].status = "reserved"
        /\ WriteRow(s, h, [tx[s].holds[h] EXCEPT !.status = ClosedStatus(kind), !.returned = 0],
                    e, IF kind = "ship" THEN -tx[s].holds[h].quantity ELSE 0,
                    -tx[s].holds[h].quantity)
  BY Zenon DEF Close
<1> DEFINE q == hold[h].quantity
           r == [hold[h] EXCEPT !.status = ClosedStatus(kind), !.returned = 0]
           oh == IF kind = "ship" THEN -q ELSE 0
<1>2. tx[s].phase = "row" /\ hold' = hold
  BY DEF Close, Stored
<1>3. h \in Holds /\ tx[s].holds[h] = hold[h] /\ hold[h] \in HoldRow /\ q \in Nat
  BY <1>1, <1>2 DEF HoldInv, WritesFollow, Touched, TypeInv, TypeOK, HoldRow
<1>4. hold[h].status = "reserved" /\ hold[h].returned = 0 /\ WriteRow(s, h, r, e, oh, -q)
  BY <1>1, <1>3 DEF EffectInv
<1>5. /\ r.at = hold[h].at /\ r.status = ClosedStatus(kind) /\ r.quantity = q /\ r.returned = 0
  BY <1>3 DEF HoldRow
<1>6. oh \in Int /\ -q \in Int /\ e \in AllEventIds
  BY <1>3 DEF AllEventIds
<1>7. oh = SoldOut(r) - SoldOut(hold[h])
  <2>1. SoldOut(hold[h]) = 0
    BY <1>4 DEF SoldOut
  <2>2. SoldOut(r) = oh
    BY <1>3, <1>5 DEF SoldOut, ClosedStatus
  <2> QED BY <1>6, <2>1, <2>2
<1>8. r.status \in {"shipped", "cancelled", "expired"}
  BY <1>5 DEF ClosedStatus
<1> HIDE DEF r, q, oh
<1>9. Turns(hold[h], r) /\ r.status # "absent"
  BY <1>4, <1>5, <1>8 DEF Turns, q
<1> QED BY <1>2, <1>4, <1>6, <1>7, <1>9, WriteRowEffects

LEMMA ReturnEffects ==
  ASSUME TypeInv, HoldInv, SumInv, EffectInv, NEW s \in Sessions,
         NEW u \in Quantities, NEW e \in EventIds, Return(s, u, e)
  PROVE  EffectInv'
<1>1. PICK h \in Touched(s) :
        /\ ReturnFits(tx[s].holds[h], u)
        /\ WriteRow(s, h, [tx[s].holds[h] EXCEPT
                             !.returned = tx[s].holds[h].returned + u,
                             !.status = IF tx[s].holds[h].returned + u = tx[s].holds[h].quantity
                                        THEN "returned" ELSE "shipped"], e, u, 0)
  BY Zenon DEF Return
<1> DEFINE b == hold[h].returned + u
           r == [hold[h] EXCEPT !.returned = b,
                                !.status = IF b = hold[h].quantity THEN "returned" ELSE "shipped"]
<1>2. tx[s].phase = "row" /\ hold' = hold
  BY DEF Return, Stored
<1>3. /\ h \in Holds /\ tx[s].holds[h] = hold[h] /\ hold[h] \in HoldRow
      /\ hold[h].quantity \in Nat /\ hold[h].returned \in Nat /\ RowSound(hold[h])
  BY <1>1, <1>2 DEF HoldInv, WritesFollow, Touched, TypeInv, TypeOK, HoldRow, ReturnsBounded
<1>4. /\ hold[h].status \in {"shipped", "returned"} /\ b <= hold[h].quantity
      /\ WriteRow(s, h, r, e, u, 0)
  BY <1>1, <1>3 DEF ReturnFits
<1>5. u \in Int /\ u > 0 /\ b \in Nat /\ b - hold[h].returned = u
  BY <1>3, InventoryAssumption DEF Quantities
<1>6. hold[h].status = "shipped"
  BY <1>3, <1>4, <1>5 DEF RowSound
<1> HIDE DEF b
<1>7. /\ r.at = hold[h].at /\ r.quantity = hold[h].quantity /\ r.returned = b
      /\ r.status \in {"shipped", "returned"}
  BY <1>3, <1>5 DEF HoldRow
<1> HIDE DEF r
<1>8. u = SoldOut(r) - SoldOut(hold[h])
  <2>1. /\ SoldOut(r) = b - hold[h].quantity
        /\ SoldOut(hold[h]) = hold[h].returned - hold[h].quantity
    BY <1>6, <1>7 DEF SoldOut
  <2> QED BY <1>3, <1>5, <2>1
<1>9. Turns(hold[h], r) /\ r.status # "absent"
  BY <1>4, <1>5, <1>6, <1>7 DEF Turns
<1>10. 0 \in Int /\ e \in AllEventIds
  BY DEF AllEventIds
<1> QED BY <1>2, <1>4, <1>5, <1>8, <1>9, <1>10, WriteRowEffects

LEMMA ExpireDueEffects ==
  ASSUME TypeInv, EffectInv, NEW s \in Sessions, ExpireDue(s)
  PROVE  EffectInv'
<1> DEFINE due == {h \in overdue : hold[h].status = "reserved" /\ RowFree(s, h)}
           rows == [h \in Holds |->
                      IF h \in due THEN [hold[h] EXCEPT !.status = "expired", !.returned = 0]
                      ELSE AbsentHold]
           evs == {EventOf(ExpireEvent(h), h, 0, -hold[h].quantity) : h \in due}
           lgs == {LegOf(h, hold[h].at, 0, -hold[h].quantity) : h \in due}
           t == [NoTransaction EXCEPT !.phase = "stock", !.holds = rows,
                                      !.events = evs, !.legs = lgs]
<1>1. SetTx(s, t) /\ hold' = hold
  BY DEF ExpireDue, Stored
<1>2. \A h \in due : /\ h \in Holds /\ hold[h] \in HoldRow /\ hold[h].status = "reserved"
                     /\ hold[h].returned = 0
  BY DEF TypeInv, TypeOK, EffectInv
<1> HIDE DEF due
<1>3. /\ \A h \in due : Turns(hold[h], rows[h]) /\ rows[h].status = "expired"
      /\ \A h \in Holds \ due : rows[h].status = "absent"
  <2>1. \A h \in due : /\ rows[h].status = "expired" /\ rows[h].at = hold[h].at
                       /\ rows[h].quantity = hold[h].quantity /\ rows[h].returned = 0
    BY <1>2 DEF HoldRow
  <2>2. \A h \in Holds \ due : rows[h].status = "absent"
    BY DEF AbsentHold
  <2> HIDE DEF rows
  <2> QED BY <1>2, <2>1, <2>2 DEF Turns
<1>4. \A v \in evs : v.oh = 0
  BY DEF EventOf
<1> HIDE DEF rows, evs, lgs
<1>5. t.moves = {} /\ t.events = evs /\ t.holds = rows
  BY DEF NoTransaction
<1> HIDE DEF t
<1>6. OneEffect(t, hold)
  <2>1. TouchedBy(t) \subseteq due
    BY <1>3, <1>5 DEF TouchedBy
  <2> QED BY <1>3, <1>4, <1>5, <2>1 DEF OneEffect, LetsExpire
<1> QED BY <1>1, <1>6, EffectKept DEF TypeInv

LEMMA MoveEffects ==
  ASSUME TypeInv, EffectInv, NEW s \in Sessions, NEW m \in Movement, m.quantity \in Quantities,
         m.source # m.destination, NEW t, SetTx(s, t), hold' = hold,
         t.moves = {m}, t.events = {}, t.holds = NoTransaction.holds
  PROVE  EffectInv'
<1>1. TouchedBy(t) = {}
  BY DEF TouchedBy, NoTransaction, AbsentHold
<1>2. OneEffect(t, hold)
  BY <1>1 DEF OneEffect, MovesStock
<1> QED BY <1>2, EffectKept DEF TypeInv

LEMMA ReceiveEffects ==
  ASSUME TypeInv, EffectInv, NEW s \in Sessions, NEW r \in References, NEW i \in Locations,
         NEW q \in Quantities, Receive(s, r, i, q)
  PROVE  EffectInv'
<1> DEFINE m == [ref |-> r, source |-> NoLocation, destination |-> i, quantity |-> q]
           L == {LegOf(r, i, q, 0)}
           t == [NoTransaction EXCEPT !.phase = "stock", !.moves = {m}, !.legs = L]
<1>1. SetTx(s, t) /\ hold' = hold
  BY DEF Receive, Stored
<1>2. m \in Movement /\ m.quantity \in Quantities /\ m.source # m.destination
  BY InventoryAssumption DEF Movement, Quantities
<1> HIDE DEF m, L
<1>3. t.moves = {m} /\ t.events = {} /\ t.holds = NoTransaction.holds
  BY DEF NoTransaction
<1> HIDE DEF t
<1> QED BY <1>1, <1>2, <1>3, MoveEffects

LEMMA TransferEffects ==
  ASSUME TypeInv, EffectInv, NEW s \in Sessions, NEW r \in References, NEW i \in Locations,
         NEW j \in Locations, NEW q \in Quantities, Transfer(s, r, i, j, q)
  PROVE  EffectInv'
<1> DEFINE m == [ref |-> r, source |-> i, destination |-> j, quantity |-> q]
           L == {LegOf(r, i, -q, 0), LegOf(r, j, q, 0)}
           t == [NoTransaction EXCEPT !.phase = "stock", !.moves = {m}, !.legs = L,
                                      !.ordered = TRUE]
<1>1. SetTx(s, t) /\ hold' = hold /\ i # j
  BY DEF Transfer, Stored
<1>2. m \in Movement /\ m.quantity \in Quantities /\ m.source # m.destination
  BY <1>1, InventoryAssumption DEF Movement, Quantities
<1> HIDE DEF m, L
<1>3. t.moves = {m} /\ t.events = {} /\ t.holds = NoTransaction.holds
  BY DEF NoTransaction
<1> HIDE DEF t
<1> QED BY <1>1, <1>2, <1>3, MoveEffects

LEMMA UpdateStockEffects ==
  ASSUME TypeInv, SumInv, EffectInv, NEW s \in Sessions, NEW leg \in tx[s].legs,
         UpdateStock(s, leg)
  PROVE  EffectInv'
<1> DEFINE d == tx[s].delta[leg.at]
           c == [oh |-> d.oh + leg.oh, rv |-> d.rv + leg.rv]
           t == [tx[s] EXCEPT !.legs = tx[s].legs \ {leg},
                              !.locked = tx[s].locked \cup {leg.at},
                              !.delta = [tx[s].delta EXCEPT ![leg.at] = c]]
<1>1. SetTx(s, t) /\ hold' = hold
  BY DEF UpdateStock, Stored
<1>2. tx[s] \in Transaction
  BY DEF TypeInv, TypeOK
<1>3. /\ t.phase = tx[s].phase /\ t.holds = tx[s].holds /\ t.events = tx[s].events
      /\ t.moves = tx[s].moves
  BY <1>2 DEF Transaction
<1> HIDE DEF t
<1>4. t.phase = "stock" => OneEffect(t, hold)
  <2>1. TouchedBy(t) = TouchedBy(tx[s])
    BY <1>3 DEF TouchedBy
  <2>2. /\ TurnsOne(tx[s], hold) => TurnsOne(t, hold)
        /\ LetsExpire(tx[s]) => LetsExpire(t)
        /\ MovesStock(tx[s]) => MovesStock(t)
    BY <1>3, <2>1 DEF TurnsOne, LetsExpire, MovesStock
  <2> QED BY <1>3, <2>1, <2>2 DEF EffectInv, OneEffect
<1> QED BY <1>1, <1>4, EffectKept DEF TypeInv

LEMMA CommitEffects ==
  ASSUME TypeInv, HoldInv, SumInv, EffectInv, NEW s \in Sessions, Commit(s)
  PROVE  EffectInv'
<1>1. tx'[s] = NoTransaction /\ \A p \in Others(s) : p \in Sessions /\ tx'[p] = tx[p]
  BY SetTxOthers DEF Commit, TypeInv
<1>2. \A h \in Holds : hold'[h].status \in {"absent", "reserved"} => hold'[h].returned = 0
  <2>1. \A h \in TouchedBy(tx[s]) : Turns(hold[h], hold'[h])
    BY CommitKnown DEF EffectInv, OneEffect, Commit
  <2> QED BY <2>1, CommitKnown DEF EffectInv, Turns
<1>3. ASSUME NEW p \in Others(s), tx'[p].phase = "stock" PROVE OneEffect(tx'[p], hold')
  <2>1. p \in Sessions /\ p # s /\ tx'[p] = tx[p]
    BY <1>1 DEF Others
  <2>2. \A h \in TouchedBy(tx[p]) : hold[h] = hold'[h]
    <3>1. Touched(p) \cap Touched(s) = {}
      BY <2>1 DEF HoldInv, RowsExclusive, Others
    <3> QED BY <3>1, TouchedIs, CommitKnown DEF TouchedBy
  <2> QED BY <1>3, <2>1, <2>2, EffectSame DEF EffectInv
<1>4. NoTransaction.phase # "stock"
  BY DEF NoTransaction
<1> QED BY <1>1, <1>2, <1>3, <1>4 DEF EffectInv, Others

LEMMA EffectNext ==
  ASSUME TypeInv, HoldInv, SumInv, EffectInv, [Next]_vars
  PROVE  EffectInv'
<1>1. ASSUME NEW s \in Sessions, NEW h \in Holds, NEW i \in Locations, NEW q \in Quantities,
             NEW timed \in BOOLEAN, Reserve(s, h, i, q, timed)
      PROVE  EffectInv'
  BY <1>1, ReserveEffects
<1>2. ASSUME NEW s \in Sessions, NEW h \in Holds, LockRow(s, h)
      PROVE  EffectInv'
  BY <1>2, LockRowEffects
<1>3. ASSUME NEW s \in Sessions, NEW kind \in {"ship", "cancel", "expire"}, NEW e \in EventIds,
             Close(s, kind, e)
      PROVE  EffectInv'
  BY <1>3, CloseEffects
<1>4. ASSUME NEW s \in Sessions, NEW u \in Quantities, NEW e \in EventIds, Return(s, u, e)
      PROVE  EffectInv'
  BY <1>4, ReturnEffects
<1>5. ASSUME NEW s \in Sessions, ExpireDue(s)
      PROVE  EffectInv'
  BY <1>5, ExpireDueEffects
<1>6. ASSUME NEW s \in Sessions, NEW r \in References, NEW i \in Locations, NEW q \in Quantities,
             Receive(s, r, i, q)
      PROVE  EffectInv'
  BY <1>6, ReceiveEffects
<1>7. ASSUME NEW s \in Sessions, NEW r \in References, NEW i \in Locations, NEW j \in Locations,
             NEW q \in Quantities, Transfer(s, r, i, j, q)
      PROVE  EffectInv'
  BY <1>7, TransferEffects
<1>8. ASSUME NEW s \in Sessions, NEW leg \in tx[s].legs, UpdateStock(s, leg)
      PROVE  EffectInv'
  BY <1>8, UpdateStockEffects
<1>9. ASSUME NEW s \in Sessions, Commit(s)
      PROVE  EffectInv'
  BY <1>9, CommitEffects
<1>10. ASSUME NEW s \in Sessions, Rollback(s)
       PROVE  EffectInv'
  <2>1. SetTx(s, NoTransaction) /\ hold' = hold /\ NoTransaction.phase # "stock"
    BY <1>10 DEF Rollback, Stored, NoTransaction
  <2> QED BY <2>1, EffectKept DEF TypeInv
<1>11. ASSUME UNCHANGED <<hold, tx>>
       PROVE  EffectInv'
  BY <1>11 DEF EffectInv
<1> QED BY <1>1, <1>2, <1>3, <1>4, <1>5, <1>6, <1>7, <1>8, <1>9, <1>10, <1>11
        DEF Next, DeadlinePasses, Feed, vars

(* What a commit makes of the stock on hand.                               *)
LEMMA CommitMoves ==
  ASSUME TypeInv, StockInv, SumInv, NEW s \in Sessions, Commit(s), NEW i \in Locations
  PROVE  stock'[i].on_hand = stock[i].on_hand
           + (SumFunctionOnSet(OnHandOf, {v \in tx[s].events : tx[s].holds[v.hold].at = i})
              + SumFunctionOnSet(QuantityOf, {m \in tx[s].moves : m.destination = i})
              - SumFunctionOnSet(QuantityOf, {m \in tx[s].moves : m.source = i}))
<1>1. tx[s].legs = {}
  BY DEF Commit
<1>2. /\ DoneEvents(tx[s], i) = {v \in tx[s].events : tx[s].holds[v.hold].at = i}
      /\ DoneIn(tx[s], i) = {m \in tx[s].moves : m.destination = i}
      /\ DoneOut(tx[s], i) = {m \in tx[s].moves : m.source = i}
  BY <1>1 DEF DoneEvents, DoneIn, DoneOut, Waits
<1>3. BalancedAt(tx[s], hold, i)
  BY DEF SumInv, TxSound
<1> QED BY <1>2, <1>3, CommitAdds DEF BalancedAt

(* What is free at a location is what is on hand there less the counter.    *)
LEMMA SameSum ==
  ASSUME NEW f, NEW S
  PROVE  Promises!SumFunctionOnSet(f, S) = SumFunctionOnSet(f, S)
BY Zenon DEF SumFunctionOnSet, FoldFunctionOnSet, MapThenFoldSet,
   Promises!SumFunctionOnSet, Promises!FoldFunctionOnSet, Promises!MapThenFoldSet

LEMMA UnpromisedIs ==
  ASSUME TypeInv, SumInv, FeedLocations = {}, NEW i \in Locations
  PROVE  Promises!Unpromised(i) = stock[i].on_hand - stock[i].reserved
<1> DEFINE P == [h \in Holds |-> [state |-> StateOf(h), at |-> hold[h].at,
                                  quantity |-> hold[h].quantity, back |-> hold[h].returned]]
<1>1. Promises!Promised(i) = Promises!SumFunctionOnSet([b \in Holds |-> P[b].quantity],
                               {b \in Holds : P[b].state = "promised" /\ P[b].at = i})
  BY Zenon DEF Promises!Promised
<1>2. [b \in Holds |-> P[b].quantity] = [b \in Holds |-> hold[b].quantity]
  OBVIOUS
<1>3. \A h \in Holds : StateOf(h) = "promised" <=> hold[h].status = "reserved"
  BY DEF StateOf, TypeInv, TypeOK, HoldRow, HoldStatus
<1>4. {b \in Holds : P[b].state = "promised" /\ P[b].at = i}
        = {h \in Holds : hold[h].status = "reserved" /\ hold[h].at = i}
  BY <1>3
<1>5. Promises!Promised(i) = HeldAt(i)
  BY <1>1, <1>2, <1>4, SameSum DEF HeldAt
<1>6. i \in Unfed
  BY DEF Unfed
<1>7. [j \in Locations |-> stock[j].on_hand][i] = stock[i].on_hand
  OBVIOUS
<1> QED BY <1>5, <1>6, <1>7, HeldIsReserved DEF Promises!Unpromised

(* The promise that a reservation is.                                      *)
PromiseOf(h) == [state |-> StateOf(h), at |-> hold[h].at,
                 quantity |-> hold[h].quantity, back |-> hold[h].returned]
Hand == [i \in Locations |-> stock[i].on_hand]
PromiseTable == [h \in Holds |-> PromiseOf(h)]

LEMMA SameState ==
  ASSUME NEW h, hold'[h] = hold[h]
  PROVE  PromiseOf(h)' = PromiseOf(h)
BY DEF PromiseOf, StateOf

(* A transaction that lets reservations expire.                            *)
LEMMA ExpiryReleases ==
  ASSUME TypeInv, TypeInv', StockInv, HoldInv, SumInv, EffectInv,
         NEW s \in Sessions, Commit(s), LetsExpire(tx[s])
  PROVE  Promises!PromisesNext
<1> PICK T \in SUBSET Holds : T = TouchedBy(tx[s])
  BY DEF TouchedBy
<1>1. \A h \in T : Turns(hold[h], hold'[h]) /\ hold'[h].status = "expired"
  BY CommitKnown DEF EffectInv, OneEffect, Commit, LetsExpire
<1>2. \A h \in Holds \ T : hold'[h] = hold[h]
  BY CommitKnown
<1>3. ASSUME NEW h \in T
      PROVE  /\ PromiseOf(h).state = "promised"
             /\ PromiseOf(h)' = [PromiseOf(h) EXCEPT !.state = "released"]
  <2>1. /\ hold[h].status = "reserved" /\ hold'[h].at = hold[h].at
        /\ hold'[h].quantity = hold[h].quantity /\ hold'[h].returned = hold[h].returned
    BY <1>1 DEF Turns
  <2>2. StateOf(h) = "promised" /\ StateOf(h)' = "released"
    BY <1>1, <2>1 DEF StateOf
  <2> QED BY <2>1, <2>2 DEF PromiseOf
<1>4. PromiseTable' = [h \in Holds |-> IF h \in T THEN [PromiseTable[h] EXCEPT !.state = "released"]
                                       ELSE PromiseTable[h]]
  <2>1. \A h \in Holds : PromiseOf(h)' = IF h \in T THEN [PromiseOf(h) EXCEPT !.state = "released"]
                                         ELSE PromiseOf(h)
    BY <1>2, <1>3, SameState
  <2> QED BY <2>1 DEF PromiseTable
<1>5. Hand' = Hand
  <2>1. ASSUME NEW i \in Locations PROVE stock'[i].on_hand = stock[i].on_hand
    <3> DEFINE V == {v \in tx[s].events : tx[s].holds[v.hold].at = i}
    <3>1. /\ {m \in tx[s].moves : m.destination = i} = {}
          /\ {m \in tx[s].moves : m.source = i} = {}
          /\ \A v \in V : v \in Event /\ v.oh = 0
      BY TxFields DEF LetsExpire, TypeInv
    <3>2. IsFiniteSet(V)
      BY FS_Subset DEF SumInv, TxSound, Countable
    <3> HIDE DEF V
    <3>3. \A v \in V : OnHandOf[v] = 0
      BY <3>1 DEF OnHandOf
    <3>4. SumFunctionOnSet(OnHandOf, V) = 0 /\ SumFunctionOnSet(QuantityOf, {}) = 0
      BY <3>2, <3>3, SumZero, SumEmpty
    <3>5. stock'[i].on_hand = stock[i].on_hand + (0 + 0 - 0)
      BY <3>1, <3>4, CommitMoves DEF V
    <3>6. stock[i].on_hand \in Int
      BY DEF TypeInv, TypeOK, StockRow
    <3> QED BY <3>5, <3>6
  <2> QED BY <2>1 DEF Hand
<1>6. Promises!Release(T)
  <2>1. \A h \in T : PromiseTable[h].state = "promised"
    BY <1>1, <1>3 DEF PromiseTable
  <2> QED BY <1>4, <1>5, <2>1 DEF Promises!Release, PromiseTable, PromiseOf, Hand
<1> QED BY <1>6, Zenon DEF Promises!PromisesNext

(* A receipt arrives; a transfer moves what is free at its source.          *)
LEMMA MovementMoves ==
  ASSUME TypeInv, TypeInv', StockInv, StockInv', HoldInv, SumInv, EffectInv,
         FeedLocations = {}, NEW s \in Sessions, Commit(s), MovesStock(tx[s])
  PROVE  Promises!PromisesNext
<1>1. PICK m \in Movement : /\ tx[s].moves = {m} /\ m.quantity \in Quantities
                            /\ m.source # m.destination
  BY DEF MovesStock
<1> DEFINE q == m.quantity
<1>2. /\ m.destination \in Locations /\ m.source \in Locations \cup {NoLocation}
      /\ q \in Quantities /\ q \in Int /\ NoLocation \notin Locations
  BY <1>1, InventoryAssumption DEF Movement, Quantities
<1>3. PromiseTable' = PromiseTable
  <2>1. TouchedBy(tx[s]) = {}
    BY DEF MovesStock
  <2>2. \A h \in Holds : PromiseOf(h)' = PromiseOf(h)
    BY <2>1, CommitKnown, SameState
  <2> QED BY <2>2 DEF PromiseTable
<1>4. ASSUME NEW i \in Locations
      PROVE  /\ stock'[i].reserved = stock[i].reserved
             /\ stock'[i].on_hand = stock[i].on_hand + (IF m.destination = i THEN q ELSE 0)
                                      - (IF m.source = i THEN q ELSE 0)
  <2>1. /\ {n \in tx[s].moves : n.destination = i} = IF m.destination = i THEN {m} ELSE {}
        /\ {n \in tx[s].moves : n.source = i} = IF m.source = i THEN {m} ELSE {}
        /\ {v \in tx[s].events : tx[s].holds[v.hold].at = i} = {}
    BY <1>1 DEF MovesStock
  <2>2. /\ SumFunctionOnSet(QuantityOf, {m}) = q /\ SumFunctionOnSet(QuantityOf, {}) = 0
        /\ SumFunctionOnSet(OnHandOf, {}) = 0 /\ SumFunctionOnSet(ReservedOf, {}) = 0
    <3>1. QuantityOf[m] = q
      BY DEF QuantityOf
    <3> QED BY <1>2, <3>1, SumSingleton, SumEmpty
  <2> DEFINE E == {v \in tx[s].events : tx[s].holds[v.hold].at = i}
             A == {n \in tx[s].moves : n.destination = i}
             B == {n \in tx[s].moves : n.source = i}
  <2>3. stock'[i].on_hand = stock[i].on_hand
          + (SumFunctionOnSet(OnHandOf, E) + SumFunctionOnSet(QuantityOf, A)
             - SumFunctionOnSet(QuantityOf, B))
    BY CommitMoves
  <2>4. stock[i].on_hand \in Int /\ stock[i].reserved \in Int
    BY DEF TypeInv, TypeOK, StockRow
  <2>5. tx[s].delta[i].rv = 0
    <3>1. BalancedAt(tx[s], hold, i) /\ DoneEvents(tx[s], i) = {}
      BY DEF SumInv, TxSound, DoneEvents, MovesStock
    <3> QED BY <2>2, <3>1 DEF BalancedAt
  <2>6. stock'[i].reserved = stock[i].reserved
    BY <2>4, <2>5, CommitAdds
  <2>7. /\ A = IF m.destination = i THEN {m} ELSE {}
        /\ B = IF m.source = i THEN {m} ELSE {}
        /\ E = {}
    BY <2>1
  <2> HIDE DEF q, E, A, B
  <2>8. /\ SumFunctionOnSet(QuantityOf, A) = IF m.destination = i THEN q ELSE 0
        /\ SumFunctionOnSet(QuantityOf, B) = IF m.source = i THEN q ELSE 0
        /\ SumFunctionOnSet(OnHandOf, E) = 0
    BY <2>2, <2>7
  <2>9. stock'[i].on_hand = stock[i].on_hand + (IF m.destination = i THEN q ELSE 0)
                              - (IF m.source = i THEN q ELSE 0)
    BY <1>2, <2>3, <2>4, <2>8
  <2> QED BY <2>6, <2>9
<1>5. \A i \in Locations : stock[i].on_hand \in Int /\ stock[i].reserved \in Int
  BY DEF TypeInv, TypeOK, StockRow
<1> HIDE DEF q
<1>6. CASE m.source = NoLocation
  <2>1. Hand' = [Hand EXCEPT ![m.destination] = @ + q]
    <3>1. \A i \in Locations : stock'[i].on_hand = IF i = m.destination THEN stock[i].on_hand + q
                                                   ELSE stock[i].on_hand
      BY <1>2, <1>4, <1>5, <1>6
    <3> QED BY <1>2, <3>1 DEF Hand
  <2>2. Promises!Arrive(m.destination, q)
    BY <1>3, <2>1 DEF Promises!Arrive, PromiseTable, PromiseOf, Hand
  <2> QED BY <1>2, <2>2, Zenon DEF Promises!PromisesNext
<1>7. CASE m.source \in Locations
  <2>1. Hand' = [Hand EXCEPT ![m.source] = @ - q, ![m.destination] = @ + q]
    <3>1. \A i \in Locations : stock'[i].on_hand = IF i = m.destination THEN stock[i].on_hand + q
                                                   ELSE IF i = m.source THEN stock[i].on_hand - q
                                                   ELSE stock[i].on_hand
      <4> SUFFICES ASSUME NEW i \in Locations
                   PROVE  stock'[i].on_hand = IF i = m.destination THEN stock[i].on_hand + q
                                              ELSE IF i = m.source THEN stock[i].on_hand - q
                                              ELSE stock[i].on_hand
        OBVIOUS
      <4>1. CASE i = m.destination
        BY <1>1, <1>2, <1>4, <1>5, <4>1
      <4>2. CASE i = m.source
        BY <1>1, <1>2, <1>4, <1>5, <4>2
      <4>3. CASE i # m.destination /\ i # m.source
        BY <1>2, <1>4, <1>5, <4>3
      <4> QED BY <1>1, <4>1, <4>2, <4>3
    <3> QED BY <1>1, <1>2, <1>7, <3>1 DEF Hand
  <2>2. q <= Promises!Unpromised(m.source)
    <3>1. stock'[m.source].reserved <= stock'[m.source].on_hand
      BY <1>7 DEF StockInv, StockSound
    <3>2. /\ stock'[m.source].reserved = stock[m.source].reserved
          /\ stock'[m.source].on_hand = stock[m.source].on_hand - q
      BY <1>1, <1>2, <1>4, <1>5, <1>7
    <3>3. q <= stock[m.source].on_hand - stock[m.source].reserved
      BY <1>2, <1>5, <1>7, <3>1, <3>2
    <3> QED BY <1>7, <3>3, UnpromisedIs
  <2>3. Promises!Move(m.source, m.destination, q)
    BY <1>1, <1>3, <2>1, <2>2 DEF Promises!Move, PromiseTable, PromiseOf, Hand
  <2> QED BY <1>2, <1>7, <2>3, Zenon DEF Promises!PromisesNext
<1> QED BY <1>2, <1>6, <1>7

(* A reservation is made, closed or partly returned.                       *)
LEMMA OneTurns ==
  ASSUME TypeInv, TypeInv', StockInv, StockInv', HoldInv, HoldInv', SumInv, EffectInv,
         FeedLocations = {}, NEW s \in Sessions, Commit(s), TurnsOne(tx[s], hold)
  PROVE  Promises!PromisesNext
<1>1. PICK h \in Holds, v \in Event :
        /\ TouchedBy(tx[s]) = {h} /\ tx[s].events = {v} /\ v.hold = h
        /\ v.oh = SoldOut(tx[s].holds[h]) - SoldOut(hold[h])
  BY DEF TurnsOne
<1> PICK old, new : old = hold[h] /\ new = hold'[h]
  OBVIOUS
<1> DEFINE i == new.at
           d == SoldOut(new) - SoldOut(old)
<1>2. /\ new = tx[s].holds[h] /\ Turns(old, new) /\ \A g \in Holds \ {h} : hold'[g] = hold[g]
  BY <1>1, CommitKnown DEF EffectInv, OneEffect, Commit
<1>3. /\ old \in HoldRow /\ new \in HoldRow /\ i \in Locations
      /\ old.quantity \in Nat /\ new.quantity \in Nat /\ old.returned \in Nat
      /\ new.returned \in Nat
  <2>1. old \in HoldRow /\ new \in HoldRow /\ (new.status # "absent" => i \in Locations)
    BY DEF TypeInv, TypeOK, AllPlaced, Placed
  <2>2. new.status # "absent"
    BY <1>2 DEF Turns
  <2> QED BY <2>1, <2>2 DEF HoldRow
<1>4. d \in Int /\ v.oh = d
  BY <1>1, <1>2, <1>3 DEF SoldOut
<1>5. \A j \in Locations : stock[j].on_hand \in Int /\ stock[j].reserved \in Int
  BY DEF TypeInv, TypeOK, StockRow
<1>6. ASSUME NEW j \in Locations
      PROVE  stock'[j].on_hand = IF j = i THEN stock[j].on_hand + d ELSE stock[j].on_hand
  <2>1. /\ {n \in tx[s].moves : n.destination = j} = {} /\ {n \in tx[s].moves : n.source = j} = {}
        /\ {w \in tx[s].events : tx[s].holds[w.hold].at = j} = IF j = i THEN {v} ELSE {}
    BY <1>1, <1>2 DEF TurnsOne
  <2>2. /\ SumFunctionOnSet(OnHandOf, {v}) = d /\ SumFunctionOnSet(OnHandOf, {}) = 0
        /\ SumFunctionOnSet(QuantityOf, {}) = 0
    <3>1. OnHandOf[v] = d
      BY <1>4 DEF OnHandOf
    <3> HIDE DEF d
    <3> QED BY <1>4, <3>1, SumSingleton, SumEmpty
  <2> DEFINE E == {w \in tx[s].events : tx[s].holds[w.hold].at = j}
             A == {n \in tx[s].moves : n.destination = j}
             B == {n \in tx[s].moves : n.source = j}
  <2>3. stock'[j].on_hand = stock[j].on_hand
          + (SumFunctionOnSet(OnHandOf, E) + SumFunctionOnSet(QuantityOf, A)
             - SumFunctionOnSet(QuantityOf, B))
    BY CommitMoves
  <2>4. /\ E = IF j = i THEN {v} ELSE {}
        /\ A = {} /\ B = {}
    BY <2>1
  <2> HIDE DEF d, E, A, B
  <2>5. /\ SumFunctionOnSet(OnHandOf, E) = IF j = i THEN d ELSE 0
        /\ SumFunctionOnSet(QuantityOf, A) = 0 /\ SumFunctionOnSet(QuantityOf, B) = 0
    BY <2>2, <2>4
  <2> QED BY <1>4, <1>5, <2>3, <2>5
<1>7. \A g \in Holds \ {h} : PromiseOf(g)' = PromiseOf(g)
  BY <1>2, SameState
<1>8. ASSUME NEW p, PromiseOf(h)' = p
      PROVE  PromiseTable' = [PromiseTable EXCEPT ![h] = p]
  BY <1>7, <1>8 DEF PromiseTable
<1>9. /\ Hand' = [Hand EXCEPT ![i] = @ + d]
      /\ d = 0 => Hand' = Hand
  <2> HIDE DEF d, i
  <2>1. Hand' = [j \in Locations |-> IF j = i THEN stock[j].on_hand + d ELSE stock[j].on_hand]
    BY <1>6 DEF Hand
  <2>2. d = 0 => \A j \in Locations : stock[j].on_hand + d = stock[j].on_hand
    BY <1>5
  <2> QED BY <1>3, <2>1, <2>2 DEF Hand
<1>10. PromiseTable[h] = PromiseOf(h) /\ DOMAIN PromiseTable = Holds
  BY DEF PromiseTable
<1>11. CASE old.status = "absent"
  <2>1. /\ new.status = "reserved" /\ new.returned = 0 /\ new.quantity \in Quantities
        /\ StateOf(h) = "none" /\ StateOf(h)' = "promised"
    BY <1>2, <1>11 DEF Turns, StateOf
  <2>2. d = 0
    BY <1>11, <2>1 DEF SoldOut
  <2>3. PromiseTable' = [PromiseTable EXCEPT ![h] =
          [state |-> "promised", at |-> i, quantity |-> new.quantity, back |-> 0]]
    BY <1>8, <2>1 DEF PromiseOf
  <2>4. new.quantity <= Promises!Unpromised(i)
    <3>1. stock'[i].reserved <= stock'[i].on_hand /\ stock'[i].on_hand = stock[i].on_hand
      BY <1>3, <1>5, <1>6, <2>2 DEF StockInv, StockSound
    <3>2. tx[s].delta[i].rv = new.quantity
      <4>1. BalancedAt(tx[s], hold, i) /\ DoneHolds(tx[s]) = {h}
        BY <1>1, <1>3 DEF SumInv, TxSound, DoneHolds, Waits, Commit
      <4>2. /\ UnitsAt(tx[s].holds, i)[h] = new.quantity /\ UnitsAt(hold, i)[h] = 0
        BY <1>2, <1>11, <2>1 DEF UnitsAt, Units
      <4> DEFINE f == UnitsAt(tx[s].holds, i)
                 g == UnitsAt(hold, i)
      <4> HIDE DEF f, g
      <4>3. f[h] \in Int /\ g[h] \in Int
        BY <1>3, <4>2 DEF f, g
      <4>4. SumFunctionOnSet(f, {h}) = f[h] /\ SumFunctionOnSet(g, {h}) = g[h]
        BY <4>3, SumSingleton
      <4>5. /\ SumFunctionOnSet(UnitsAt(tx[s].holds, i), {h}) = new.quantity
            /\ SumFunctionOnSet(UnitsAt(hold, i), {h}) = 0
        BY <4>2, <4>4 DEF f, g
      <4> QED BY <1>3, <4>1, <4>5 DEF BalancedAt
    <3>3. stock'[i].reserved = stock[i].reserved + new.quantity
      BY <1>3, <3>2, CommitAdds
    <3>4. new.quantity <= stock[i].on_hand - stock[i].reserved
      <4>1. stock[i].on_hand \in Int /\ stock[i].reserved \in Int /\ new.quantity \in Int
        BY <1>3, <1>5
      <4> QED BY <3>1, <3>3, <4>1
    <3> QED BY <1>3, <3>4, UnpromisedIs
  <2>5. Promises!Promise(h, i, new.quantity)
    BY <1>9, <1>10, <2>1, <2>2, <2>3, <2>4
       DEF Promises!Promise, PromiseTable, PromiseOf, Hand
  <2> QED BY <1>3, <2>1, <2>5, Zenon DEF Promises!PromisesNext
<1>12. CASE old.status = "reserved"
  <2>1. /\ new.status \in {"shipped", "cancelled", "expired"} /\ new.at = old.at
        /\ new.quantity = old.quantity /\ new.returned = 0 /\ old.returned = 0
        /\ StateOf(h) = "promised"
    BY <1>2, <1>12 DEF Turns, StateOf
  <2>2. CASE new.status = "shipped"
    <3>1. StateOf(h)' = "sold"
      BY <2>2 DEF StateOf
    <3>2. PromiseTable' = [PromiseTable EXCEPT ![h].state = "sold"]
      <4>1. PromiseOf(h)' = [PromiseOf(h) EXCEPT !.state = "sold"]
        BY <2>1, <3>1 DEF PromiseOf
      <4> QED BY <1>8, <1>10, <4>1
    <3>3. d = -old.quantity
      BY <1>3, <1>12, <2>1, <2>2 DEF SoldOut
    <3>4. Hand' = [Hand EXCEPT ![old.at] = @ - old.quantity]
      <4>1. \A j \in Locations : Hand[j] \in Int
        BY <1>5 DEF Hand
      <4>2. old.at \in Locations /\ Hand' = [Hand EXCEPT ![old.at] = @ + d]
        BY <1>3, <1>9, <2>1
      <4>3. Hand[old.at] + d = Hand[old.at] - old.quantity
        BY <1>3, <3>3, <4>1, <4>2
      <4> QED BY <4>2, <4>3
    <3>5. PromiseTable[h].at = old.at /\ PromiseTable[h].quantity = old.quantity
          /\ PromiseTable[h].state = "promised"
      BY <1>10, <2>1 DEF PromiseOf
    <3>6. Promises!Sell(h)
      BY <3>2, <3>4, <3>5 DEF Promises!Sell, PromiseTable, PromiseOf, Hand
    <3> QED BY <3>6, Zenon DEF Promises!PromisesNext
  <2>3. CASE new.status \in {"cancelled", "expired"}
    <3>1. StateOf(h)' = "released"
      BY <2>3 DEF StateOf
    <3>2. PromiseTable' = [g \in Holds |-> IF g \in {h}
                                           THEN [PromiseTable[g] EXCEPT !.state = "released"]
                                           ELSE PromiseTable[g]]
      <4>1. PromiseOf(h)' = [PromiseOf(h) EXCEPT !.state = "released"]
        BY <2>1, <3>1 DEF PromiseOf
      <4> QED BY <1>7, <4>1 DEF PromiseTable
    <3>3. d = 0
      BY <1>12, <2>3 DEF SoldOut
    <3>4. Promises!Release({h})
      BY <1>9, <1>10, <2>1, <3>2, <3>3 DEF Promises!Release, PromiseTable, PromiseOf, Hand
    <3>5. {h} \in SUBSET Holds
      OBVIOUS
    <3> QED BY <3>4, <3>5, Zenon DEF Promises!PromisesNext
  <2> QED BY <2>1, <2>2, <2>3
<1>13. CASE old.status = "shipped"
  <2> DEFINE u == new.returned - old.returned
  <2>1. /\ new.status \in {"shipped", "returned"} /\ new.at = old.at
        /\ new.quantity = old.quantity /\ u \in Quantities /\ new.returned <= old.quantity
        /\ StateOf(h) = "sold" /\ StateOf(h)' = "sold"
    BY <1>2, <1>13 DEF Turns, StateOf
  <2>2. d = u /\ old.returned + u = new.returned
    BY <1>3, <1>13, <2>1 DEF SoldOut
  <2> HIDE DEF u
  <2>3. PromiseTable' = [PromiseTable EXCEPT ![h].back = @ + u]
    <3>1. PromiseOf(h)' = [PromiseOf(h) EXCEPT !.back = PromiseOf(h).back + u]
      BY <2>1, <2>2 DEF PromiseOf
    <3> QED BY <1>8, <1>10, <3>1
  <2>4. Hand' = [Hand EXCEPT ![old.at] = @ + u]
    BY <1>9, <2>1, <2>2
  <2>5. /\ PromiseTable[h].at = old.at /\ PromiseTable[h].quantity = old.quantity
        /\ PromiseTable[h].state = "sold" /\ PromiseTable[h].back + u <= PromiseTable[h].quantity
    BY <1>10, <2>1, <2>2 DEF PromiseOf
  <2>6. Promises!TakeBack(h, u)
    BY <2>3, <2>4, <2>5 DEF Promises!TakeBack, PromiseTable, PromiseOf, Hand
  <2> QED BY <2>1, <2>6, Zenon DEF Promises!PromisesNext
<1> QED BY <1>2, <1>11, <1>12, <1>13 DEF Turns

LEMMA EffectInit == Init => EffectInv
BY DEF Init, EffectInv, NoTransaction, AbsentHold

(* Until it commits, a transaction has promised, sold and moved nothing.    *)
LEMMA OnlyCommitsMove ==
  ASSUME [Next]_vars, FeedLocations = {}
  PROVE  (\E s \in Sessions : Commit(s)) \/ UNCHANGED <<stock, hold>>
BY DEF Next, Reserve, LockRow, Close, Return, ExpireDue, Receive, Transfer, UpdateStock,
       Rollback, DeadlinePasses, Stored, vars

LEMMA CommitKeepsPromises ==
  ASSUME TypeInv, TypeInv', StockInv, StockInv', HoldInv, HoldInv', SumInv, EffectInv,
         FeedLocations = {}, NEW s \in Sessions, Commit(s)
  PROVE  Promises!PromisesNext
<1>1. TurnsOne(tx[s], hold) \/ LetsExpire(tx[s]) \/ MovesStock(tx[s])
  BY DEF EffectInv, OneEffect, Commit
<1>2. CASE TurnsOne(tx[s], hold)
  BY <1>2, OneTurns
<1>3. CASE LetsExpire(tx[s])
  BY <1>3, ExpiryReleases
<1>4. CASE MovesStock(tx[s])
  BY <1>4, MovementMoves
<1> QED BY <1>1, <1>2, <1>3, <1>4

LEMMA PromisesStart ==
  ASSUME Init
  PROVE  Promises!PromisesInit
<1>1. ASSUME NEW i \in Locations PROVE Hand[i] >= 0
  <2>1. Hand[i] = InitialStock[i] /\ InitialStock[i] \in Nat
    BY InventoryAssumption DEF Init, Hand
  <2> QED BY <2>1
<1>2. ASSUME NEW h \in Holds PROVE PromiseTable[h].state = "none"
  BY DEF Init, AbsentHold, PromiseTable, PromiseOf, StateOf
<1> QED BY <1>1, <1>2 DEF Promises!PromisesInit, Hand, PromiseTable, PromiseOf

LEMMA PromisesUnchanged ==
  ASSUME UNCHANGED <<stock, hold>>
  PROVE  UNCHANGED Promises!pvars
<1>1. Hand' = Hand
  BY DEF Hand
<1>2. PromiseTable' = PromiseTable
  BY DEF PromiseTable, PromiseOf, StateOf
<1> QED BY <1>1, <1>2 DEF Promises!pvars, Hand, PromiseTable, PromiseOf

(* Without a feed every commit keeps a promise of the abstract inventory,   *)
(* whatever runs beside it: stock promised to one buyer is not promised or  *)
(* sold to another, moved away or taken back twice.                        *)
THEOREM PromisesAreKept ==
  ASSUME FeedLocations = {}
  PROVE  Spec => KeepsPromises
<1> DEFINE IInv == TypeInv /\ StockInv /\ HoldInv /\ LockOrder /\ SumInv /\ EffectInv
<1>1. Init => IInv /\ Promises!PromisesInit
  BY TypeInit, StockInit, HoldInit, OrderInit, SumInit, EffectInit, PromisesStart
<1>2. IInv /\ [Next]_vars => IInv'
  BY TypeNext, StockNext, HoldNext, OrderNext, SumNext, EffectNext
<1>3. IInv /\ IInv' /\ [Next]_vars => [Promises!PromisesNext]_Promises!pvars
  <2> SUFFICES ASSUME IInv, IInv', [Next]_vars
               PROVE  Promises!PromisesNext \/ UNCHANGED Promises!pvars
    BY Zenon
  <2>1. ASSUME NEW s \in Sessions, Commit(s) PROVE Promises!PromisesNext
    BY <2>1, CommitKeepsPromises
  <2>2. ASSUME UNCHANGED <<stock, hold>> PROVE UNCHANGED Promises!pvars
    BY <2>2, PromisesUnchanged
  <2> QED BY <2>1, <2>2, OnlyCommitsMove
<1> QED BY <1>1, <1>2, <1>3, PTL DEF Spec, KeepsPromises, Promises!PromisesSpec

=============================================================================
