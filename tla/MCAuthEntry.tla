----------------------------- MODULE MCAuthEntry -----------------------------
(* A small instance of AuthEntry: every mix of at most MaxClicks            *)
(* navigations, publications and sign-outs.                                 *)
EXTENDS AuthEntry

CONSTANT MaxClicks   \* bound: what the user does in one behaviour

Clicks == (MaxNavigations - route.left) + calls.submitted + entry.attempt

MCNext == Next /\ Clicks' <= MaxClicks
MCSpec == Init /\ [][MCNext]_vars /\ Fairness
=============================================================================
