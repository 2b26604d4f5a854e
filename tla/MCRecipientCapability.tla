----------------------- MODULE MCRecipientCapability -----------------------
(* Bounded instances of RecipientCapability for TLC. *)
EXTENDS RecipientCapability, TLC

CONSTANT MaxClock   \* bound on the clock

MCNext == CapNext /\ clock' <= MaxClock
MCSpec == CapInit /\ [][MCNext]_capVars

Symmetry == Permutations(Id) \cup Permutations(Cap) \cup Permutations(Proc)
=============================================================================
