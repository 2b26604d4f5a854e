----------------------------- MODULE MCDeviceKeys -----------------------------
(* Small instances of the provisional key, the key of an accepted device and *)
(* the pairing of a phone, side by side: a behaviour is about one of them.   *)
EXTENDS ProvisionalKey, AcceptedKey, PhonePairing, TLC

\* The pages are alike: two tabs, two users or two phones.
TwoPages == Permutations(Phones)

VARIABLE side   \* which of them this behaviour is about

MCInit == KeyInit /\ AcceptedInit /\ PairInit /\ side \in {"provisional", "accepted", "pairing"}

MCNext ==
  \/ side = "provisional" /\ KeyNext /\ UNCHANGED <<acceptedVars, pairVars, side>>
  \/ side = "accepted" /\ AcceptedNext /\ UNCHANGED <<keyVars, pairVars, side>>
  \/ side = "pairing" /\ PairNext /\ UNCHANGED <<keyVars, acceptedVars, side>>

MCSpec == MCInit /\ [][MCNext]_<<keyVars, acceptedVars, pairVars, side>>

\* The wallet signs once for a device and once for a pairing.
SignsOnceEach == WalletAskedOnce /\ SignedOnce

\* What a tab was told of either key stays true.
ToldIsTrue == ToldIsDurable /\ ToldIsStored
=============================================================================
