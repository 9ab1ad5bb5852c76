---------------------------- MODULE StockPromises ----------------------------
(***************************************************************************)
(* What an inventory owes its buyers, without counters, locks or events:    *)
(* stock promised to one buyer is not promised or sold to another, moved    *)
(* away or taken back twice.  What is free at a location is what is there   *)
(* less all that is promised there.                                        *)
(***************************************************************************)
EXTENDS Integers, FiniteSetsExt

CONSTANTS
  Places,    (* where stock lies                                             *)
  Buyers,    (* promises, by name                                            *)
  Amounts    (* quantities of one movement                                   *)

VARIABLES
  hand,      (* what lies at each place                                      *)
  promise    (* what each promise is for and what became of it               *)

pvars == <<hand, promise>>

Promised(i) ==
  SumFunctionOnSet([b \in Buyers |-> promise[b].quantity],
                   {b \in Buyers : promise[b].state = "promised" /\ promise[b].at = i})

Unpromised(i) == hand[i] - Promised(i)

PromisesInit ==
  /\ \A i \in Places : hand[i] >= 0
  /\ \A b \in Buyers : promise[b].state = "none"

Promise(b, i, q) ==
  /\ promise[b].state = "none"
  /\ q <= Unpromised(i)
  /\ promise' = [promise EXCEPT ![b] =
                   [state |-> "promised", at |-> i, quantity |-> q, back |-> 0]]
  /\ UNCHANGED hand

(* Cancelled or expired, several at once.                                  *)
Release(B) ==
  /\ \A b \in B : promise[b].state = "promised"
  /\ promise' = [b \in Buyers |->
                   IF b \in B THEN [promise[b] EXCEPT !.state = "released"] ELSE promise[b]]
  /\ UNCHANGED hand

Sell(b) ==
  /\ promise[b].state = "promised"
  /\ promise' = [promise EXCEPT ![b].state = "sold"]
  /\ hand' = [hand EXCEPT ![promise[b].at] = @ - promise[b].quantity]

TakeBack(b, q) ==
  /\ promise[b].state = "sold"
  /\ promise[b].back + q <= promise[b].quantity
  /\ promise' = [promise EXCEPT ![b].back = @ + q]
  /\ hand' = [hand EXCEPT ![promise[b].at] = @ + q]

Arrive(i, q) ==
  /\ hand' = [hand EXCEPT ![i] = @ + q]
  /\ UNCHANGED promise

Move(i, j, q) ==
  /\ i # j
  /\ q <= Unpromised(i)
  /\ hand' = [hand EXCEPT ![i] = @ - q, ![j] = @ + q]
  /\ UNCHANGED promise

PromisesNext ==
  \/ \E b \in Buyers :
       \/ \E i \in Places, q \in Amounts : Promise(b, i, q)
       \/ Sell(b)
       \/ \E q \in Amounts : TakeBack(b, q)
  \/ \E B \in SUBSET Buyers : Release(B)
  \/ \E i \in Places, q \in Amounts : Arrive(i, q) \/ \E j \in Places : Move(i, j, q)

PromisesSpec == PromisesInit /\ [][PromisesNext]_pvars

=============================================================================
