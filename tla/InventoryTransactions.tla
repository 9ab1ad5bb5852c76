------------------------ MODULE InventoryTransactions ------------------------
(***************************************************************************)
(* The inventory effects of one tenant on one SKU                           *)
(* (services/inventory_transactions.py) under concurrent PostgreSQL         *)
(* transactions at READ COMMITTED.                                          *)
(*                                                                         *)
(* A session runs one effect.  Its first statement takes the lock of its    *)
(* own key or row, the following ones those of an event key and of stock    *)
(* rows; what it writes is invisible until Commit applies it, and Rollback  *)
(* - an error, the caller's decision, a lost connection, the victim of a    *)
(* deadlock - forgets it.  A call that changes nothing (a replay, a         *)
(* conflict, a refused argument) is a session that takes its first lock and *)
(* rolls back, or no step at all.                                           *)
(*                                                                         *)
(* Deadlines need no clock: `overdue` holds the reservations whose          *)
(* expires_at has passed, and a timed reservation may join it at any time.  *)
(***************************************************************************)
EXTENDS Integers, FiniteSetsExt

CONSTANTS
  Sessions,        (* database sessions                                      *)
  Holds,           (* reservation ids                                        *)
  Locations,       (* the SKU's inventory_level rows, in location_id order   *)
  NoLocation,      (* a column that names no location                        *)
  EventIds,        (* event ids callers choose                               *)
  References,      (* source references of receipts and transfers            *)
  FeedLocations,   (* rows a catalog feed overwrites                         *)
  InitialStock,    (* on_hand of each location at first                      *)
  MaxQuantity      (* bound on the quantity of one effect and of a feed      *)

ASSUME InventoryAssumption ==
  /\ Locations \subseteq Nat /\ IsFiniteSet(Locations)
  /\ NoLocation \notin Locations
  /\ FeedLocations \subseteq Locations
  /\ InitialStock \in [Locations -> Nat]
  /\ MaxQuantity \in Nat \ {0}

VARIABLES
  stock,     (* inventory_level, by location                                 *)
  hold,      (* inventory_reservation, by reservation id                     *)
  overdue,   (* reservations whose expires_at has passed                     *)
  events,    (* inventory_effect_event                                       *)
  moves,     (* inventory_stock_movement                                     *)
  tx         (* the transaction each session has open                        *)

vars == <<stock, hold, overdue, events, moves, tx>>

-----------------------------------------------------------------------------
StockRow == [on_hand : Int, reserved : Int, available : Int]

HoldStatus == {"absent", "reserved", "shipped", "returned", "cancelled", "expired"}

HoldRow == [status : HoldStatus, at : Locations \cup {NoLocation}, quantity : Nat,
            returned : Nat, timed : BOOLEAN]

AbsentHold == [status |-> "absent", at |-> NoLocation, quantity |-> 0,
               returned |-> 0, timed |-> FALSE]

Quantities == 1..MaxQuantity

(* Event ids that the service itself derives from the reservation id.      *)
ReserveEvent(h) == <<"reserve", h>>
ExpireEvent(h) == <<"expire", h>>
AllEventIds == EventIds \cup {ReserveEvent(h) : h \in Holds} \cup {ExpireEvent(h) : h \in Holds}

Event == [id : AllEventIds, hold : Holds, oh : Int, rv : Int]
Movement == [ref : References, source : Locations \cup {NoLocation},
             destination : Locations, quantity : Nat]

(* One UPDATE of inventory_level, on behalf of a reservation or reference.  *)
Leg == [for : Holds \cup References, at : Locations, oh : Int, rv : Int]

Change == [oh : Int, rv : Int]
NoChange == [i \in Locations |-> [oh |-> 0, rv |-> 0]]

(* A transaction: the reservation rows it has locked, as it will leave them *)
(* (absent: not touched), the keys it inserted, the stock updates still to  *)
(* do, their sum so far and the stock rows locked; `ordered` takes them by  *)
(* location.                                                               *)
Transaction ==
  [phase : {"idle", "row", "stock"}, holds : [Holds -> HoldRow],
   events : SUBSET Event, moves : SUBSET Movement, legs : SUBSET Leg,
   delta : [Locations -> Change], locked : SUBSET Locations, ordered : BOOLEAN]

NoTransaction ==
  [phase |-> "idle", holds |-> [h \in Holds |-> AbsentHold], events |-> {}, moves |-> {},
   legs |-> {}, delta |-> NoChange, locked |-> {}, ordered |-> FALSE]

Idle(s) == tx[s].phase = "idle"
Touched(s) == {h \in Holds : tx[s].holds[h].status # "absent"}
Others(s) == Sessions \ {s}
SetTx(s, t) == tx' = [tx EXCEPT ![s] = t]

LegOf(k, i, oh, rv) == [for |-> k, at |-> i, oh |-> oh, rv |-> rv]

EventOf(e, h, oh, rv) == [id |-> e, hold |-> h, oh |-> oh, rv |-> rv]

(* Mutant of RowFree: reservations are read without FOR UPDATE.            *)
RowUnlocked(s, h) == h \in Holds

(* No other transaction holds the row, or the new key, of a reservation.    *)
RowFree(s, h) == \A t \in Others(s) : h \notin Touched(t)

(* Mutant of EventFresh: a recorded event is applied once more.            *)
EventAgain(s, e) == \A t \in Others(s) : \A v \in tx[t].events : v.id # e

(* _event inserts the id: not recorded, and no open transaction inserts it. *)
EventFresh(s, e) ==
  /\ \A v \in events : v.id # e
  /\ \A t \in Others(s) : \A v \in tx[t].events : v.id # e

ReferenceFresh(s, r) ==
  /\ \A m \in moves : m.ref # r
  /\ \A t \in Others(s) : \A m \in tx[t].moves : m.ref # r

-----------------------------------------------------------------------------
Init ==
  /\ stock = [i \in Locations |-> [on_hand |-> InitialStock[i], reserved |-> 0,
                                   available |-> InitialStock[i]]]
  /\ hold = [h \in Holds |-> AbsentHold]
  /\ overdue = {}
  /\ events = {}
  /\ moves = {}
  /\ tx = [s \in Sessions |-> NoTransaction]

Stored == <<stock, hold, overdue, events, moves>>

(* reserve, up to the stock update: the INSERT of a new reservation.        *)
Reserve(s, h, i, q, timed) ==
  /\ Idle(s)
  /\ hold[h].status = "absent"
  /\ RowFree(s, h)
  /\ EventFresh(s, ReserveEvent(h))
  /\ SetTx(s, [NoTransaction EXCEPT
       !.phase = "stock",
       !.holds[h] = [status |-> "reserved", at |-> i, quantity |-> q,
                     returned |-> 0, timed |-> timed],
       !.events = {EventOf(ReserveEvent(h), h, 0, q)},
       !.legs = {LegOf(h, i, 0, q)}])
  /\ UNCHANGED Stored

(* transition, up to its event: SELECT ... FOR UPDATE of the reservation.   *)
LockRow(s, h) ==
  /\ Idle(s)
  /\ hold[h].status # "absent"
  /\ RowFree(s, h)
  /\ SetTx(s, [NoTransaction EXCEPT !.phase = "row", !.holds[h] = hold[h]])
  /\ UNCHANGED Stored

(* The event is recorded, and the row will be left as r.                    *)
WriteRow(s, h, r, e, oh, rv) ==
  SetTx(s, [tx[s] EXCEPT
    !.phase = "stock",
    !.holds[h] = r,
    !.events = {EventOf(e, h, oh, rv)},
    !.legs = {LegOf(h, r.at, oh, rv)}])

(* A shipment must beat the deadline, an expiry must wait for it.           *)
Deadline(kind, h) ==
  /\ kind = "ship" => h \notin overdue
  /\ kind = "expire" => h \in overdue

ClosedStatus(kind) ==
  CASE kind = "ship" -> "shipped" [] kind = "cancel" -> "cancelled" [] kind = "expire" -> "expired"

(* transition with kind ship, cancel or expire: the whole reservation.      *)
Close(s, kind, e) ==
  /\ tx[s].phase = "row"
  /\ \E h \in Touched(s) :
       LET r == tx[s].holds[h]
       IN  /\ EventFresh(s, e)
           /\ Deadline(kind, h)
           /\ r.status = "reserved"
           /\ WriteRow(s, h, [r EXCEPT !.status = ClosedStatus(kind), !.returned = 0],
                       e, IF kind = "ship" THEN -r.quantity ELSE 0, -r.quantity)
  /\ UNCHANGED Stored

ReturnFits(r, u) == r.status \in {"shipped", "returned"} /\ r.returned + u <= r.quantity

(* transition with kind return: u units come back.                          *)
Return(s, u, e) ==
  /\ tx[s].phase = "row"
  /\ \E h \in Touched(s) :
       LET r == tx[s].holds[h]
           back == r.returned + u
       IN  /\ EventFresh(s, e)
           /\ ReturnFits(r, u)
           /\ WriteRow(s, h, [r EXCEPT !.returned = back,
                                !.status = IF back = r.quantity THEN "returned" ELSE "shipped"],
                       e, u, 0)
  /\ UNCHANGED Stored

(* expire_due: the due rows nobody else has locked (SKIP LOCKED), closed in *)
(* one transaction.                                                        *)
ExpireDue(s) ==
  /\ Idle(s)
  /\ LET due == {h \in overdue : hold[h].status = "reserved" /\ RowFree(s, h)}
     IN  /\ due # {}
         /\ \A h \in due : EventFresh(s, ExpireEvent(h))
         /\ SetTx(s, [NoTransaction EXCEPT
              !.phase = "stock",
              !.holds = [h \in Holds |->
                           IF h \in due THEN [hold[h] EXCEPT !.status = "expired", !.returned = 0]
                           ELSE AbsentHold],
              !.events = {EventOf(ExpireEvent(h), h, 0, -hold[h].quantity) : h \in due},
              !.legs = {LegOf(h, hold[h].at, 0, -hold[h].quantity) : h \in due}])
  /\ UNCHANGED Stored

(* move_stock of kind receive.                                             *)
Receive(s, r, i, q) ==
  /\ Idle(s)
  /\ ReferenceFresh(s, r)
  /\ SetTx(s, [NoTransaction EXCEPT
       !.phase = "stock",
       !.moves = {[ref |-> r, source |-> NoLocation, destination |-> i, quantity |-> q]},
       !.legs = {LegOf(r, i, q, 0)}])
  /\ UNCHANGED Stored

(* move_stock of kind transfer: both rows are locked by location_id before  *)
(* either is updated.                                                      *)
Transfer(s, r, i, j, q) ==
  /\ Idle(s)
  /\ i # j
  /\ ReferenceFresh(s, r)
  /\ SetTx(s, [NoTransaction EXCEPT
       !.phase = "stock",
       !.moves = {[ref |-> r, source |-> i, destination |-> j, quantity |-> q]},
       !.legs = {LegOf(r, i, -q, 0), LegOf(r, j, q, 0)},
       !.ordered = TRUE])
  /\ UNCHANGED Stored

(* Mutants of NextLeg and of StockAllows: a transfer locks its source row   *)
(* first; the UPDATE does not compare on_hand with what is reserved.       *)
SourceFirst(s, leg) ==
  leg \in tx[s].legs /\ (tx[s].ordered => \A l \in tx[s].legs : leg.oh <= l.oh)

NextLeg(s, leg) ==
  leg \in tx[s].legs /\ (tx[s].ordered => \A l \in tx[s].legs : leg.at <= l.at)

StockAllowsAny(row, oh, rv) ==
  row.available = row.on_hand - row.reserved /\ row.reserved + rv >= 0

StockAllows(row, oh, rv) ==
  /\ row.available = row.on_hand - row.reserved
  /\ row.reserved + rv >= 0
  /\ row.on_hand + oh >= row.reserved + rv

Shift(row, d) ==
  [on_hand |-> row.on_hand + d.oh, reserved |-> row.reserved + d.rv,
   available |-> row.on_hand + d.oh - (row.reserved + d.rv)]

(* A stock row as this transaction sees it once it has the lock.            *)
Seen(s, i) == IF i \in tx[s].locked THEN Shift(stock[i], tx[s].delta[i]) ELSE stock[i]

StockFree(s, i) == \A t \in Others(s) : i \notin tx[t].locked

(* _stock: the guarded UPDATE waits for the row, then compares the row as   *)
(* last committed together with this transaction's own earlier updates.     *)
UpdateStock(s, leg) ==
  /\ NextLeg(s, leg)
  /\ StockFree(s, leg.at)
  /\ StockAllows(Seen(s, leg.at), leg.oh, leg.rv)
  /\ SetTx(s, [tx[s] EXCEPT
       !.legs = @ \ {leg},
       !.locked = @ \cup {leg.at},
       !.delta[leg.at] = [oh |-> @.oh + leg.oh, rv |-> @.rv + leg.rv]])
  /\ UNCHANGED Stored

Commit(s) ==
  /\ tx[s].phase = "stock"
  /\ tx[s].legs = {}
  /\ stock' = [i \in Locations |-> Seen(s, i)]
  /\ hold' = [h \in Holds |->
       IF h \in Touched(s) THEN tx[s].holds[h] ELSE hold[h]]
  /\ events' = events \cup tx[s].events
  /\ moves' = moves \cup tx[s].moves
  /\ SetTx(s, NoTransaction)
  /\ UNCHANGED overdue

Rollback(s) ==
  /\ ~Idle(s)
  /\ SetTx(s, NoTransaction)
  /\ UNCHANGED Stored

(* expires_at of a reservation goes by.                                    *)
DeadlinePasses(h) ==
  /\ hold[h].timed
  /\ h \notin overdue
  /\ overdue' = overdue \cup {h}
  /\ UNCHANGED <<stock, hold, events, moves, tx>>

(* commerce_catalog.upsert_inventory by a platform adapter: the feed's      *)
(* figure replaces the row, and no reserved quantity is passed.             *)
Feed(i, q) ==
  /\ \A s \in Sessions : i \notin tx[s].locked
  /\ stock' = [stock EXCEPT ![i] = [on_hand |-> q, reserved |-> 0, available |-> q]]
  /\ UNCHANGED <<hold, overdue, events, moves, tx>>

-----------------------------------------------------------------------------
Next ==
  \/ \E s \in Sessions, h \in Holds, i \in Locations, q \in Quantities, timed \in BOOLEAN :
       Reserve(s, h, i, q, timed)
  \/ \E s \in Sessions, h \in Holds : LockRow(s, h)
  \/ \E s \in Sessions, kind \in {"ship", "cancel", "expire"}, e \in EventIds : Close(s, kind, e)
  \/ \E s \in Sessions, u \in Quantities, e \in EventIds : Return(s, u, e)
  \/ \E s \in Sessions : ExpireDue(s)
  \/ \E s \in Sessions, r \in References, i \in Locations, q \in Quantities : Receive(s, r, i, q)
  \/ \E s \in Sessions, r \in References, i, j \in Locations, q \in Quantities :
       Transfer(s, r, i, j, q)
  \/ \E s \in Sessions : \E leg \in tx[s].legs : UpdateStock(s, leg)
  \/ \E s \in Sessions : Commit(s) \/ Rollback(s)
  \/ \E h \in Holds : DeadlinePasses(h)
  \/ \E i \in FeedLocations, q \in 0..MaxQuantity : Feed(i, q)

Spec == Init /\ [][Next]_vars

-----------------------------------------------------------------------------
(* Every table and every open transaction has its shape.                   *)
TypeOK ==
  /\ stock \in [Locations -> StockRow]
  /\ hold \in [Holds -> HoldRow]
  /\ overdue \subseteq Holds
  /\ events \subseteq Event
  /\ moves \subseteq Movement
  /\ tx \in [Sessions -> Transaction]

(* available is on_hand less reserved, and no more is reserved than is on   *)
(* hand, whatever reservations, shipments, transfers and feeds do.         *)
StockSound ==
  \A i \in Locations :
    /\ stock[i].available = stock[i].on_hand - stock[i].reserved
    /\ 0 <= stock[i].reserved /\ stock[i].reserved <= stock[i].on_hand

HeldAt(i) ==
  SumFunctionOnSet([h \in Holds |-> hold[h].quantity],
                   {h \in Holds : hold[h].status = "reserved" /\ hold[h].at = i})

(* The counter of reserved units is the sum of the open reservations: no    *)
(* race of reserve, ship, cancel and expire counts one twice or forgets it. *)
ReservedIsHeld == \A i \in Locations : stock[i].reserved = HeldAt(i)

(* The effect events and stock movements account for the stock on hand and  *)
(* reserved: each was applied exactly once, replays included, and nothing   *)
(* moved stock without one.                                                *)
Accounted(i) ==
  LET at == {v \in events : hold[v.hold].at = i}
      into == {m \in moves : m.destination = i}
      outof == {m \in moves : m.source = i}
      moved == [m \in Movement |-> m.quantity]
  IN  /\ stock[i].reserved = SumFunctionOnSet([v \in Event |-> v.rv], at)
      /\ stock[i].on_hand = InitialStock[i] + SumFunctionOnSet([v \in Event |-> v.oh], at)
           + SumFunctionOnSet(moved, into) - SumFunctionOnSet(moved, outof)

EventsAccountForStock == \A i \in Locations : Accounted(i)

(* No more units come back than were shipped, over all the returns of a    *)
(* reservation, and `returned` says exactly that all of them did.          *)
RowSound(r) ==
  /\ r.returned <= r.quantity
  /\ r.status # "absent" => r.quantity > 0
  /\ r.status = "returned" <=> r.status # "absent" /\ r.returned = r.quantity

ReturnsBounded == \A h \in Holds : RowSound(hold[h])

RowsExclusive(s, t) == Touched(s) \cap Touched(t) = {}

StockExclusive(s, t) == tx[s].locked \cap tx[t].locked = {}

(* s cannot go on before t has ended.                                      *)
WaitsFor(s, t) == \E leg \in tx[s].legs : NextLeg(s, leg) /\ leg.at \in tx[t].locked

(* A batch of expire_due locks stock in the order of its reservations.      *)
Batch(s) == \E h \in Holds : \E v \in tx[s].events : v.id = ExpireEvent(h)

(* Single effects never wait in a circle: transfers in opposite directions, *)
(* and anything else that runs beside them, all get through.               *)
NoDeadlock ==
  ~ \E S \in SUBSET {s \in Sessions : ~Batch(s)} :
      S # {} /\ \A s \in S : \E t \in S \ {s} : WaitsFor(s, t)

(* What one effect may make of a reservation.                              *)
Follows(old, new) ==
  \/ old.status = "absent" /\ new.status = "reserved"
  \/ /\ old.status = "reserved"
     /\ new.status \in {"shipped", "cancelled", "expired"}
     /\ new.at = old.at /\ new.quantity = old.quantity
  \/ /\ old.status = "shipped"
     /\ new.status \in {"shipped", "returned"}
     /\ new.at = old.at /\ new.quantity = old.quantity /\ new.returned > old.returned

(* A reservation is closed once and for good, whichever of ship, cancel and *)
(* expire comes first, and only what was shipped comes back.               *)
HoldsCloseOnce == [][\A h \in Holds : hold'[h] = hold[h] \/ Follows(hold[h], hold'[h])]_vars

(* Strengthenings.  What a transaction is about to commit for a stock row   *)
(* it has locked is sound, and it has nothing to commit for the others.     *)
SeenSound(s) ==
  /\ \A i \in tx[s].locked :
       0 <= Seen(s, i).reserved /\ Seen(s, i).reserved <= Seen(s, i).on_hand
  /\ \A i \in Locations \ tx[s].locked : tx[s].delta[i] = [oh |-> 0, rv |-> 0]

(* A locked reservation is still what the transaction read, and what it     *)
(* will be made into follows from that; `transition` locks one only.        *)
WritesFollow(s) ==
  \A h \in Touched(s) :
    /\ tx[s].phase = "row" => tx[s].holds[h] = hold[h] /\ Touched(s) = {h}
    /\ tx[s].phase = "stock" => Follows(hold[h], tx[s].holds[h])
    /\ RowSound(tx[s].holds[h])

(* The inductive invariants behind the theorems: locks protect what was     *)
(* read, and so the stock rows and the reservations that commits leave.     *)
StockInv ==
  /\ StockSound
  /\ \A s \in Sessions : SeenSound(s) /\ \A t \in Others(s) : StockExclusive(s, t)

HoldInv ==
  /\ ReturnsBounded
  /\ \A s \in Sessions : WritesFollow(s) /\ \A t \in Others(s) : RowsExclusive(s, t)

LedgerInv == StockInv /\ HoldInv

(* The tables keep the promises of StockPromises: what a buyer was promised *)
(* is covered, told from the reservations themselves and not the counter.  *)
StateOf(h) ==
  CASE hold[h].status = "absent" -> "none"
    [] hold[h].status = "reserved" -> "promised"
    [] hold[h].status \in {"shipped", "returned"} -> "sold"
    [] OTHER -> "released"

Promises == INSTANCE StockPromises WITH
  Places <- Locations, Buyers <- Holds, Amounts <- Quantities,
  hand <- [i \in Locations |-> stock[i].on_hand],
  promise <- [h \in Holds |-> [state |-> StateOf(h), at |-> hold[h].at,
                               quantity |-> hold[h].quantity, back |-> hold[h].returned]]

KeepsPromises == Promises!PromisesSpec

(* on_hand / reserved / available is kept so as to avoid overselling: what  *)
(* buyers hold at a location is there.                                     *)
NeverOversold == \A i \in Locations : HeldAt(i) <= stock[i].on_hand

=============================================================================
