-------------------------- MODULE MCNativeV2Session --------------------------
(* Bounded instances of the native manager over its session store, and of the *)
(* session store by itself, for TLC.                                         *)
EXTENDS NativeV2Session, TLC

CONSTANT MaxClock   \* bound on the clock

MCNext == NativeNext /\ clock' <= MaxClock
MCSpec == NativeInit /\ [][MCNext]_nativeVars

Symmetry == Permutations(Id) \cup Permutations(Proc) \cup Permutations(Issuance)
=============================================================================
