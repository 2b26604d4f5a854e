-------------------------- MODULE MCMobileSession --------------------------
(* Bounded instances of MobileSession for TLC. *)
EXTENDS MobileSession, TLC

CONSTANTS
    MaxClock,     \* bound on the clock
    MaxDesktop    \* bound on desktop sessions, leaving ids to draw for mobile ones

DesktopBound == Cardinality({id \in Id : record[id].kind = Desktop}) <= MaxDesktop

MCNext == MobileNext /\ clock' <= MaxClock /\ DesktopBound'
MCSpec == MobileInit /\ [][MCNext]_mobileVars

Symmetry == Permutations(Id) \cup Permutations(Proc)
=============================================================================
