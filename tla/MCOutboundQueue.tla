--------------------------- MODULE MCOutboundQueue ---------------------------
(* Instances of OutboundQueue for TLC.                                     *)
EXTENDS OutboundQueue, TLC

CONSTANTS BackoffBase, BackoffCap

MCBackoff == [n \in 1..MaxAttempts |-> BackoffOf(BackoffBase, BackoffCap, n)]

Symmetry == Permutations(Keys) \cup Permutations(Workers)

=============================================================================
