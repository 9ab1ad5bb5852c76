----------------------- MODULE MCInventoryTransactions -----------------------
(* Instances of InventoryTransactions for TLC.                             *)
EXTENDS InventoryTransactions, TLC

CONSTANT OnHand    (* on_hand of every location at first *)

MCInitialStock == [i \in Locations |-> OnHand]

Symmetry ==
  Permutations(Sessions) \cup Permutations(Holds)
    \cup Permutations(EventIds) \cup Permutations(References)

=============================================================================
