---------------------------- MODULE MCMobileBff ----------------------------
(* Bounded instances of MobileBff for TLC. *)
EXTENDS MobileBff, TLC

CONSTANTS
    MaxClock,   \* bound on the clock
    First,      \* what the first request of this instance may be,
    Second,     \* what the second may be,
    Offered     \* and what the others may be

\* Each element of Proc (1..N) is one request of the whole behaviour, and they
\* begin in their order: requests differ in nothing else, so this loses nothing
\* that symmetry would not.
OneRequestEach ==
    \A p \in Proc :
        /\ req[p].op # "none" /\ req[p].at = "done" => req'[p] = req[p]
        /\ p > 1 /\ req'[p].op # "none" => req'[p - 1].op # "none"

MayBe(p) == CASE p = 1 -> First [] p = 2 -> Second [] OTHER -> Offered

MCNext ==
    /\ BffNext
    /\ clock' <= MaxClock
    /\ OneRequestEach
    /\ "callback" \in First \/ \A c \in Context : ~ctx'[c].started
    /\ \A p \in Proc : req'[p].op \in MayBe(p) \cup {"none"}
MCSpec == BffInit /\ [][MCNext]_bffVars
MCFairSpec == MCSpec /\ BffFairness

Symmetry == Permutations(Context)
=============================================================================
