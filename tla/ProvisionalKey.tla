---------------------------- MODULE ProvisionalKey ----------------------------
(***************************************************************************)
(* The provisional authentication key of a phone that is not enrolled yet   *)
(* (messaging-device-ed25519-key-v2) and the approval that signs for it     *)
(* once (mobile-device-authorization-seams-v2), in several tabs of one      *)
(* browser that share one database.                                         *)
(*                                                                         *)
(* A record is made once per pending registration, claimed once for one     *)
(* authorization and given one signed attempt; nothing deletes it.  Between *)
(* two transactions every await ends with a check of the session and of the *)
(* pending registration: neither ever returns to an earlier value, so the   *)
(* checks between two transactions are one check, in the later step.        *)
(***************************************************************************)
EXTENDS Naturals, FiniteSets

CONSTANTS
  Tabs,
  Contents,        \* binding authorizations a caller may prepare with
  Pairings,        \* pairings an authorization may be made for
  MaxKeys,         \* bounds the keys that are generated
  MaxDevices       \* bounds the registrations that follow each other

Devices == 1..MaxDevices
Keys == 1..MaxKeys
None == [key |-> 0]
NoTab == "none"

ASSUME KeyBounds == MaxKeys \in Nat /\ MaxDevices \in Nat
ASSUME TabsAssumption == NoTab \notin Tabs   \* NoTab stands for no attempt

\* An authorization envelope, what the wallet is asked to sign: it names the
\* key, and with it the registration and content the key was made for.
Wires == [key : Keys, pairing : Pairings]
NoWire == [key |-> 0]

VARIABLES
  pending,    \* the device whose registration is pending in device/current
  stored,     \* provisional-authentication-key-v2: device -> record or None
  tab,        \* tab -> the operation it runs and what it last returned
  minted,     \* keys generated so far
  windowOpen, \* the authorization and the enrollment challenge are still valid
  wallet      \* [prompts, received, lost]: what was asked of the wallet, per device

keyVars == <<pending, stored, tab, minted, windowOpen, wallet>>

Nothing == [kind |-> "nothing"]
Idle == [step |-> "idle", same |-> TRUE, device |-> 0, content |-> "none", key |-> 0, wire |-> NoWire,
         outcome |-> "none", cancelled |-> FALSE, valid |-> TRUE]

Step(t, update) == tab' = [tab EXCEPT ![t].op = update]

\* unavailable, deny: the operation fails.
Fail(t) == Step(t, Idle)
Return(t, result) == tab' = [tab EXCEPT ![t] = [op |-> Idle, result |-> result]]

\* A tab runs one operation at a time, for the registration it finds pending.
Begin(t, step) ==
  tab' = [tab EXCEPT ![t] = [op |-> [step EXCEPT !.device = pending],
                             result |-> Nothing]]

Op(t) == tab[t].op
At(t, step) == Op(t).step = step
Record(t) == stored[Op(t).device]

\* check, assertPending: the session and the pending registration are those of
\* the beginning.
Current(t) == Op(t).same /\ pending = Op(t).device

\* recheck, timeAndSyncCheck of an approval.
Checked(t) == Current(t) /\ ~Op(t).cancelled /\ windowOpen

\* loadBound and claimWire: the record is that of the authorization.
BoundTo(record, wire) == record # None /\ record.key = wire.key

-----------------------------------------------------------------------------
(* prepare                                                                 *)

PrepareBegin(t, content) ==
  /\ At(t, "idle") /\ pending \in Devices
  /\ Begin(t, [Idle EXCEPT !.step = "prepare", !.content = content])
  /\ UNCHANGED <<pending, stored, minted, windowOpen, wallet>>

Public(device, key) == [kind |-> "public", device |-> device, key |-> key]

\* An existing record is used if it was made with the same content, else a key
\* pair is generated.
PrepareRead(t) ==
  /\ At(t, "prepare")
  /\ IF ~Current(t) \/ (Record(t) # None /\ Record(t).content # Op(t).content)
     THEN Fail(t) /\ UNCHANGED minted
     ELSE IF Record(t) # None
          THEN Return(t, Public(Op(t).device, Record(t).key)) /\ UNCHANGED minted
          ELSE /\ minted < MaxKeys
               /\ minted' = minted + 1
               /\ Step(t, [Op(t) EXCEPT !.step = "create", !.key = minted'])
  /\ UNCHANGED <<pending, stored, windowOpen, wallet>>

\* create: one transaction reads device/current, runs the guard and adds.  An
\* aborted transaction leaves the field to the winner, if there is one.
Create(t) ==
  /\ At(t, "create")
  /\ \/ /\ Current(t) /\ Record(t) = None
        /\ stored' = [stored EXCEPT ![Op(t).device] =
                        [key |-> Op(t).key, content |-> Op(t).content, claim |-> NoWire, attempt |-> NoTab]]
        /\ Step(t, [Op(t) EXCEPT !.step = "created"])
     \/ /\ Step(t, [Op(t) EXCEPT !.step = "winner"])
        /\ UNCHANGED stored
  /\ UNCHANGED <<pending, minted, windowOpen, wallet>>

\* Fault: the loser of a race answers with the key it has generated.
WinnerIgnored(t) ==
  /\ At(t, "winner")
  /\ IF Current(t) /\ Record(t) # None /\ Record(t).content = Op(t).content
     THEN Return(t, Public(Op(t).device, Op(t).key)) ELSE Fail(t)
  /\ UNCHANGED <<pending, stored, minted, windowOpen, wallet>>

\* The loser of a race answers with the winner's key.
Winner(t) ==
  /\ At(t, "winner")
  /\ IF Current(t) /\ Record(t) # None /\ Record(t).content = Op(t).content
     THEN Return(t, Public(Op(t).device, Record(t).key)) ELSE Fail(t)
  /\ UNCHANGED <<pending, stored, minted, windowOpen, wallet>>

\* The record is read back and must be the one that was added.
Created(t) ==
  /\ At(t, "created")
  /\ IF Current(t) /\ Record(t) # None /\ Record(t).key = Op(t).key
     THEN Return(t, Public(Op(t).device, Op(t).key)) ELSE Fail(t)
  /\ UNCHANGED <<pending, stored, minted, windowOpen, wallet>>

-----------------------------------------------------------------------------
(* createEnrollmentProofV2                                                 *)

ProofBegin(t, key) ==
  /\ At(t, "idle") /\ pending \in Devices /\ windowOpen /\ key <= minted
  /\ Begin(t, [Idle EXCEPT !.step = "proof", !.key = key])
  /\ UNCHANGED <<pending, stored, minted, windowOpen, wallet>>

\* The key of the enrollment must be the stored one; it signs, the record and
\* the window are looked at again.
Proof(t) ==
  /\ At(t, "proof")
  /\ IF Current(t) /\ windowOpen /\ Record(t) # None /\ Record(t).key = Op(t).key
     THEN Return(t, [kind |-> "proof", device |-> Op(t).device, key |-> Op(t).key]) ELSE Fail(t)
  /\ UNCHANGED <<pending, stored, minted, windowOpen, wallet>>

-----------------------------------------------------------------------------
(* createDesktopPreEnrollmentApprovalV2: approve                           *)

ApproveBegin(t, wire) ==
  /\ At(t, "idle") /\ pending \in Devices /\ windowOpen /\ wire.key <= minted
  /\ Begin(t, [Idle EXCEPT !.step = "read", !.wire = wire])
  /\ UNCHANGED <<pending, stored, minted, windowOpen, wallet>>

Attempt(device) == [kind |-> "attempt", device |-> device, wire |-> stored[device].claim,
                    attempt |-> stored[device].attempt]

\* readSignedAttempt: an attempt that is durable is returned again.
ReadAttempt(t) ==
  /\ At(t, "read")
  /\ CASE ~Checked(t) \/ ~BoundTo(Record(t), Op(t).wire) -> Fail(t)
       [] Checked(t) /\ BoundTo(Record(t), Op(t).wire) /\ Record(t).attempt = NoTab ->
            Step(t, [Op(t) EXCEPT !.step = "claim", !.key = Record(t).key])
       [] OTHER -> IF Record(t).claim = Op(t).wire THEN Return(t, Attempt(Op(t).device)) ELSE Fail(t)
  /\ UNCHANGED <<pending, stored, minted, windowOpen, wallet>>

Put(t) ==
  /\ stored' = [stored EXCEPT ![Op(t).device].claim = Op(t).wire]
  /\ Step(t, [Op(t) EXCEPT !.step = "claimed", !.outcome = "claimed"])

\* Fault: a claim that is there already is overwritten.
ClaimOverwritten(t) ==
  /\ At(t, "claim")
  /\ IF Current(t) /\ Record(t).key = Op(t).key
     THEN IF Record(t).attempt # NoTab
          THEN Step(t, [Op(t) EXCEPT !.step = "claimed", !.outcome = "signed"]) /\ UNCHANGED stored
          ELSE Put(t)
     ELSE Fail(t) /\ UNCHANGED stored
  /\ UNCHANGED <<pending, minted, windowOpen, wallet>>

\* claim: one transaction over both stores compares the pending registration
\* and the record, and puts the claim if there is neither claim nor attempt.
Claim(t) ==
  /\ At(t, "claim")
  /\ IF Current(t) /\ Record(t).key = Op(t).key
     THEN CASE Record(t).attempt # NoTab ->
                 Step(t, [Op(t) EXCEPT !.step = "claimed", !.outcome = "signed"]) /\ UNCHANGED stored
            [] Record(t).attempt = NoTab /\ Record(t).claim # NoWire ->
                 Step(t, [Op(t) EXCEPT !.step = "claimed", !.outcome = "existing-claim"]) /\ UNCHANGED stored
            [] OTHER -> Put(t)
     ELSE Fail(t) /\ UNCHANGED stored
  /\ UNCHANGED <<pending, minted, windowOpen, wallet>>

\* A claim of an earlier approval is ambiguous and never prompts again.
Claimed(t) ==
  /\ At(t, "claimed")
  /\ CASE Checked(t) /\ Op(t).outcome = "claimed" -> Step(t, [Op(t) EXCEPT !.step = "provider"])
       [] Checked(t) /\ Op(t).outcome = "signed" /\ Record(t).claim = Op(t).wire ->
            Return(t, Attempt(Op(t).device))
       [] OTHER -> Fail(t)
  /\ UNCHANGED <<pending, stored, minted, windowOpen, wallet>>

\* resolveProvider, getPublicKey, and after the last checks signEvent.
Prompt(t) ==
  /\ At(t, "provider")
  /\ IF Checked(t)
     THEN /\ Step(t, [Op(t) EXCEPT !.step = "signing"])
          /\ wallet' = [wallet EXCEPT !.prompts[Op(t).device] = @ + 1]
     ELSE Fail(t) /\ UNCHANGED wallet
  /\ UNCHANGED <<pending, stored, minted, windowOpen>>

\* The wallet signs: the window and the session are looked at, not cancel().
WalletSigns(t) ==
  /\ At(t, "signing")
  /\ Step(t, [Op(t) EXCEPT !.step = "persist", !.valid = windowOpen /\ Op(t).same])
  /\ wallet' = [wallet EXCEPT !.received = @ \cup {Op(t).device}]
  /\ UNCHANGED <<pending, stored, minted, windowOpen>>

\* No wallet, another key, a refusal or an event that does not verify.
WalletRefuses(t) ==
  /\ Op(t).step \in {"provider", "signing"}
  /\ Fail(t)
  /\ UNCHANGED <<pending, stored, minted, windowOpen, wallet>>

\* Fault: a signature that comes too late is thrown away.
PersistIfValid(t) ==
  /\ At(t, "persist")
  /\ IF Op(t).valid /\ ~Op(t).cancelled
     THEN /\ stored' = [stored EXCEPT ![Op(t).device].attempt = t]
          /\ Step(t, [Op(t) EXCEPT !.step = "persisted"])
     ELSE Fail(t) /\ UNCHANGED stored
  /\ UNCHANGED <<pending, minted, windowOpen, wallet>>

\* persistSignedAttempt: the signature is made durable whatever has become of
\* the session, compared with the claim; an attempt never replaces another.
Persist(t) ==
  /\ At(t, "persist")
  /\ IF Record(t).key = Op(t).key /\ Record(t).claim = Op(t).wire /\ Record(t).attempt \in {NoTab, t}
     THEN /\ stored' = [stored EXCEPT ![Op(t).device].attempt = t]
          /\ Step(t, [Op(t) EXCEPT !.step = "persisted"])
     ELSE Fail(t) /\ UNCHANGED stored
  /\ UNCHANGED <<pending, minted, windowOpen, wallet>>

\* Only now a late signature is refused.
Persisted(t) ==
  /\ At(t, "persisted")
  /\ IF Op(t).valid /\ Checked(t) THEN Return(t, Attempt(Op(t).device)) ELSE Fail(t)
  /\ UNCHANGED <<pending, stored, minted, windowOpen, wallet>>

Cancel(t) ==
  /\ Op(t).wire # NoWire /\ ~Op(t).cancelled
  /\ Step(t, [Op(t) EXCEPT !.cancelled = TRUE])
  /\ UNCHANGED <<pending, stored, minted, windowOpen, wallet>>

-----------------------------------------------------------------------------
(* What happens around the tabs.                                           *)

\* A transaction of an approval fails: quota, a blocked or closed database.
StorageFails(t) ==
  /\ Op(t).step \in {"claim", "persist"}
  /\ Fail(t)
  /\ wallet' = [wallet EXCEPT !.lost = IF At(t, "persist") THEN @ \cup {Op(t).device} ELSE @]
  /\ UNCHANGED <<pending, stored, minted, windowOpen>>

\* The tab is reloaded or closed: its operation, and a signature it waits for
\* or has not made durable, are gone.
Reload(t) ==
  /\ ~At(t, "idle")
  /\ tab' = [tab EXCEPT ![t] = [op |-> Idle, result |-> Nothing]]
  /\ wallet' = [wallet EXCEPT !.lost = IF At(t, "persist") THEN @ \cup {Op(t).device} ELSE @]
  /\ UNCHANGED <<pending, stored, minted, windowOpen>>

\* The session of a tab ends and another begins: the operation is not of it.
ContextChanges(t) ==
  /\ ~At(t, "idle") /\ Op(t).same
  /\ Step(t, [Op(t) EXCEPT !.same = FALSE])
  /\ UNCHANGED <<pending, stored, minted, windowOpen, wallet>>

\* The pending registration is accepted or discarded, perhaps to be followed
\* by that of a new device.
PendingChanges ==
  /\ pending \in Devices
  /\ pending' = pending + 1   \* MaxDevices + 1: none is pending any more
  /\ UNCHANGED <<stored, tab, minted, windowOpen, wallet>>

Expire ==
  /\ windowOpen
  /\ windowOpen' = FALSE
  /\ UNCHANGED <<pending, stored, tab, minted, wallet>>

-----------------------------------------------------------------------------
KeyInit ==
  /\ pending = 1
  /\ stored = [d \in Devices |-> None]
  /\ tab = [t \in Tabs |-> [op |-> Idle, result |-> Nothing]]
  /\ minted = 0
  /\ windowOpen = TRUE
  /\ wallet = [prompts |-> [d \in Devices |-> 0], received |-> {}, lost |-> {}]

TabStep(t) ==
  \/ \E content \in Contents : PrepareBegin(t, content)
  \/ PrepareRead(t) \/ Create(t) \/ Winner(t) \/ Created(t)
  \/ \E key \in Keys : ProofBegin(t, key)
  \/ Proof(t)
  \/ \E wire \in Wires : ApproveBegin(t, wire)
  \/ ReadAttempt(t) \/ Claim(t) \/ Claimed(t) \/ Prompt(t) \/ Persist(t) \/ Persisted(t)
  \/ Cancel(t)

Environment(t) ==
  \/ WalletSigns(t) \/ WalletRefuses(t) \/ StorageFails(t) \/ Reload(t) \/ ContextChanges(t)

KeyNext ==
  \/ \E t \in Tabs : TabStep(t) \/ Environment(t)
  \/ PendingChanges
  \/ Expire

KeySpec == KeyInit /\ [][KeyNext]_keyVars

-----------------------------------------------------------------------------
(* Properties.                                                             *)

\* The wallet is asked to sign for a device at most once, ever: not after a
\* reload, by a second tab, for a second pairing or after a refusal ("cannot
\* silently reacquire NIP-07").
WalletAskedOnce == \A d \in Devices : wallet.prompts[d] <= 1

\* A signature that reached the page is durable when the approval is over, even
\* if it came after cancel(), the end of the session or of the window; only a
\* failing database or a reload loses it.
EvidenceKept ==
  \A d \in wallet.received \ wallet.lost :
    \/ \E t \in Tabs : At(t, "persist") /\ Op(t).device = d
    \/ stored[d] # None /\ stored[d].attempt # NoTab

\* What any tab was told stays true of the database: the public key it may
\* enroll, the proof it may send, the attempt it may submit, which is the one
\* for the claimed authorization of that very key.
ToldIsDurable ==
  \A t \in Tabs :
    LET told == tab[t].result IN
      CASE told.kind = "nothing" -> TRUE
        [] told.kind = "attempt" ->
             /\ stored[told.device].claim = told.wire /\ stored[told.device].attempt = told.attempt
             /\ told.attempt # NoTab /\ told.wire.key = stored[told.device].key
        [] OTHER -> stored[told.device].key = told.key
=============================================================================
