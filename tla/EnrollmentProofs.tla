--------------------------- MODULE EnrollmentProofs ---------------------------
(***************************************************************************)
(* Proofs about the enrollment of a device: the keys of a browser, which    *)
(* are the provisional key, the key of an accepted device and the pairing   *)
(* of a phone, each with an inductive invariant of its own, put side by     *)
(* side; and the papers of an enrollment or a request, with the verifiers   *)
(* and producers that read them.                                            *)
(***************************************************************************)
EXTENDS MCDeviceKeys, VerificationStatement, FiniteSetTheorems, TLAPS


-----------------------------------------------------------------------------
(* The provisional key.                                                    *)

KeySteps == {"idle", "prepare", "create", "winner", "created", "proof", "read", "claim", "claimed",
             "provider", "signing", "persist", "persisted"}

KeyOps ==
  [step : KeySteps, same : BOOLEAN, device : Devices \cup {0}, content : Contents \cup {"none"},
   key : Keys \cup {0}, wire : Wires \cup {NoWire}, outcome : {"none", "claimed", "existing-claim", "signed"},
   cancelled : BOOLEAN, valid : BOOLEAN]

Results ==
  {Nothing} \cup [kind : {"public", "proof"}, device : Devices, key : Keys]
            \cup [kind : {"attempt"}, device : Devices, wire : Wires, attempt : Tabs]

KeyRecords ==
  [key : Keys, content : Contents, claim : Wires \cup {NoWire}, attempt : Tabs \cup {NoTab}]

Wallets == [prompts : [Devices -> Nat], received : SUBSET Devices, lost : SUBSET Devices]

KeyTypeOK ==
  /\ pending \in Devices \cup {MaxDevices + 1}
  /\ stored \in [Devices -> KeyRecords \cup {None}]
  /\ tab \in [Tabs -> [op : KeyOps, result : Results]]
  /\ minted \in Nat
  /\ windowOpen \in BOOLEAN
  /\ wallet \in Wallets

\* The operation has put the claim and its signature is not durable yet.
Owning(op) ==
  \/ op.step = "claimed" /\ op.outcome = "claimed"
  \/ op.step \in {"provider", "signing", "persist"}

\* What the operation of a tab relies on: the registration it is for, the claim
\* it holds, the prompt it may still spend and the attempt it has made durable.
Grounded(t, op) ==
  /\ op.step # "idle" => op.device \in Devices
  /\ op.step \in {"create", "created", "proof", "claim"} => op.key \in Keys
  /\ op.step = "claim" => op.wire \in Wires /\ op.key = op.wire.key
  /\ op.step = "claimed" /\ op.outcome = "signed" =>
       stored[op.device] # None /\ stored[op.device].attempt # NoTab
  /\ op.step \in {"prepare", "create"} => op.content \in Contents
  /\ Owning(op) =>
       /\ stored[op.device] # None /\ op.wire \in Wires
       /\ stored[op.device].key = op.key /\ stored[op.device].claim = op.wire
       /\ stored[op.device].attempt = NoTab
  /\ op.step \in {"claimed", "provider"} /\ Owning(op) => wallet.prompts[op.device] = 0
  /\ op.step = "read" => op.wire \in Wires
  /\ op.step = "persisted" =>
       stored[op.device] # None /\ stored[op.device].claim = op.wire /\ stored[op.device].attempt = t

OneOwner == \A t, u \in Tabs : Owning(Op(t)) /\ Owning(Op(u)) /\ Op(t).device = Op(u).device => t = u

\* A claim is for the key of its record, an attempt for a claim; the wallet has
\* not been asked before there was a claim.
RecordSound ==
  \A d \in Devices :
    /\ stored[d] # None =>
         /\ stored[d].claim # NoWire => stored[d].claim.key = stored[d].key
         /\ stored[d].attempt # NoTab => stored[d].claim # NoWire
         /\ stored[d].claim = NoWire => wallet.prompts[d] = 0
    /\ stored[d] = None => wallet.prompts[d] = 0
    /\ wallet.prompts[d] <= 1

Told(result) ==
  /\ result.kind # "nothing" => stored[result.device] # None
  /\ result.kind \in {"public", "proof"} => stored[result.device].key = result.key
  /\ result.kind = "attempt" =>
       /\ stored[result.device].claim = result.wire /\ stored[result.device].attempt = result.attempt
       /\ result.wire.key = stored[result.device].key

KeyInv ==
  /\ KeyTypeOK
  /\ \A t \in Tabs : Grounded(t, Op(t)) /\ Told(tab[t].result)
  /\ OneOwner /\ RecordSound /\ EvidenceKept

-----------------------------------------------------------------------------
(* The key of an accepted device.                                          *)

\* The steps of a proof after its record was read.
Matched == {"matched", "signed", "reread"}

\* What a tab was told is what the record holds.  A binding that was read is the
\* device's or an earlier one.  The key of the record signs, and the binding of that
\* instant lies between the record's and the one that is read after it.
UserInv(entry) ==
  /\ entry.told.kind \in {"nothing", "public", "proof"}
  /\ entry.told.kind # "nothing" => record # NoRecord /\ entry.told.key = record.key
  /\ entry.told.kind = "proof" => entry.told.at = record.binding
  /\ entry.op.step # "idle" =>
       entry.op.subject \in Subjects /\ entry.op.binding <= binding[entry.op.subject]
  /\ entry.op.step \in Matched =>
       record # NoRecord /\ record.key = entry.op.key /\ record.binding <= binding[entry.op.subject]
  /\ entry.op.step \in {"signed", "reread"} =>
       record.binding <= entry.op.at /\ entry.op.at <= binding[entry.op.subject]
  /\ entry.op.step = "reread" => entry.op.at <= entry.op.binding

UserOps == [step : {"idle", "prepare", "add", "added", "proof"} \cup Matched,
            subject : Subjects \cup {"none"}, binding : Nat, key : Nat, at : Nat]

AcceptedRecords == [subject : Subjects \cup {"none"}, binding : Nat, key : Nat]

UserTypes == [op : UserOps,
              told : {Silent} \cup [kind : {"public", "proof"}, key : Nat, at : Nat]]

AcceptedInv ==
  /\ user \in [Users -> UserTypes]
  /\ access \in [Users -> Subjects \cup {"none"}]
  /\ binding \in [Subjects -> Nat] /\ pairs \in Nat
  /\ record \in {NoRecord} \cup AcceptedRecords
  /\ \A u \in Users : UserInv(user[u])

-----------------------------------------------------------------------------
(* The pairing of a phone.                                                 *)

PhoneKeys == [phone : Phones, n : Nat \ {0}]
SomeKey == PhoneKeys \cup {NoKey}
Calls ==
  [kind : {"none", "qrCreate", "qrOffer", "qrSnapshot", "qrScan", "qrClaim", "qrAccept", "qrClose",
           "phoneRecover"},
   source : SomeKey,
   answer : {"none", "waiting", "refused", "ok", "created", "awaiting-approval",
             "approval-claimed", "accepted", "cancelled", "expired"}]
Statuses == {"none", "created", "awaiting-approval", "approval-claimed", "accepted", "cancelled", "expired"}
Pendings == [offer : BOOLEAN, keyIdentity : SomeKey, source : SomeKey, proofLoss : BOOLEAN]
PhoneOps == {"idle", "offer", "key", "create", "source", "scan", "cleanup"}
Pages == [op : PhoneOps, call : Calls, pending : Pendings, shown : SomeKey]
PhoneEntries == [page : Pages, disk : SomeKey, made : Nat]
Pairs == [status : Statuses, source : SomeKey]
Desktops ==
  [step : {"idle", "create", "inspect", "retry", "claim", "signing", "accept", "close"},
   created : BOOLEAN, parsed : SomeKey, approval : {"none", "running", "over"}, retry : SomeKey,
   call : Calls, cancelled : BOOLEAN]

PairTypeOK ==
  /\ phone \in [Phones -> PhoneEntries]
  /\ desktop \in Desktops
  /\ retries \in SomeKey
  /\ pairing \in Pairs
  /\ late \subseteq Calls
  /\ human \in [typed : SomeKey, prompts : Nat]

\* A key its phone still has.
Kept(key) == key \in PhoneKeys /\ phone[key.phone].disk = key

\* A page proposes only the key on its own disk; what it was told to delete is
\* that of a pairing that will never be accepted.
PageSound(p, entry) ==
  LET page == entry.page IN
    /\ entry.disk # NoKey => entry.disk.phone = p
    /\ page.op = "create" => entry.disk = NoKey
    /\ page.op = "source" => entry.disk # NoKey /\ page.pending.keyIdentity = entry.disk
    /\ page.pending.source # NoKey => entry.disk = page.pending.source
    /\ page.call.kind \in {"none", "qrOffer", "qrScan", "phoneRecover"}
    /\ page.call.kind = "none" => page.call.answer = "none"
    /\ page.call.kind = "qrScan" =>
         page.pending.source # NoKey /\ page.call.source = page.pending.source
    /\ page.op = "cleanup" => page.call.kind = "phoneRecover"
    /\ page.call.kind = "phoneRecover" /\ page.call.answer = "cancelled" =>
         pairing.status = "cancelled"

\* What waits to be carried out although nobody waits for it.
LateSound ==
  \A call \in late :
    /\ call.kind \in {"qrCreate", "qrScan", "qrClaim", "qrAccept", "qrClose"}
    /\ call.kind = "qrScan" => pairing.status = "cancelled" \/ Kept(call.source)

\* A source is taken once and kept by its phone unless the pairing was cancelled.
SourceSound ==
  /\ pairing.status \in {"none", "created"} => pairing.source = NoKey
  /\ pairing.status \in {"awaiting-approval", "approval-claimed", "accepted"} => pairing.source # NoKey
  /\ pairing.source # NoKey => pairing.status = "cancelled" \/ Kept(pairing.source)

\* This page was told that the pairing is its own.
Creator == desktop.created \/ (desktop.step = "create" /\ desktop.call.answer = "ok")

Asking(sort) == desktop.call.kind = sort \/ \E call \in late : call.kind = sort

\* Someone has approved: a claim or an acceptance is under way, was carried out
\* or is ready to be sent again.
Approved ==
  \/ pairing.status \in {"approval-claimed", "accepted"}
  \/ Asking("qrClaim") \/ Asking("qrAccept")
  \/ retries # NoKey \/ desktop.retry # NoKey
  \/ desktop.step = "signing" \/ desktop.approval = "running"

\* The page that may still approve is one under which nobody has approved.
ApprovalOnce ==
  /\ Approved =>
       /\ pairing.source # NoKey /\ human.typed = pairing.source
       /\ desktop.approval # "none" \/ ~Creator
  /\ Creator \/ desktop.approval # "none" => pairing.status # "none"

Past == {"approval-claimed", "accepted", "cancelled", "expired"}

\* The wallet is asked only for the one claim UBID has granted.
PromptOnce ==
  /\ human.prompts <= 1
  /\ human.prompts # 0 => pairing.status \in Past
  /\ desktop.step = "claim" /\ desktop.call.answer = "ok" =>
       human.prompts = 0 /\ pairing.status \in Past

DesktopSound ==
  /\ desktop.call.kind \in {"none", "qrCreate", "qrSnapshot", "qrClaim", "qrAccept", "qrClose"}
  /\ desktop.step = "create" => desktop.call.kind = "qrCreate" /\ desktop.parsed = NoKey
  /\ desktop.step \in {"inspect", "retry"} => desktop.call.kind = "qrSnapshot" /\ desktop.created
  /\ desktop.step = "claim" => desktop.call.kind = "qrClaim"
  /\ desktop.step = "accept" => desktop.call.kind = "qrAccept"
  /\ desktop.step \in {"idle", "signing"} => desktop.call = NoCall
  /\ desktop.call.answer \in {"none", "waiting", "refused", "ok"}
  /\ desktop.call.kind = "none" => desktop.call.answer = "none"
  /\ desktop.step \in {"claim", "signing"} => desktop.parsed # NoKey
  /\ desktop.call.kind = "qrSnapshot" /\ desktop.call.answer = "ok" =>
       desktop.call.source # NoKey /\ desktop.call.source = pairing.source
  /\ desktop.parsed # NoKey => desktop.created /\ desktop.parsed = pairing.source
  /\ desktop.retry # NoKey => desktop.retry = retries
  /\ retries # NoKey => retries = pairing.source
  /\ desktop.call.kind = "qrAccept" => retries # NoKey
  /\ \A call \in late : call.kind = "qrAccept" => retries # NoKey
  /\ pairing.status = "accepted" => retries # NoKey

PairInv ==
  /\ PairTypeOK
  /\ \A p \in Phones : PageSound(p, phone[p])
  /\ LateSound /\ SourceSound /\ ApprovalOnce /\ PromptOnce /\ DesktopSound

-----------------------------------------------------------------------------
(* Steps of the provisional key.                                           *)

\* A tab goes on with nothing of the database or the wallet changed.
LEMMA QuietStep ==
  ASSUME KeyInv, NEW t \in Tabs, NEW op \in KeyOps, NEW result \in Results,
         tab' = [tab EXCEPT ![t] = [op |-> op, result |-> result]],
         UNCHANGED <<stored, wallet>>,
         pending' \in Devices \cup {MaxDevices + 1}, minted' \in Nat, windowOpen' \in BOOLEAN,
         Grounded(t, op), Told(result),
         Owning(op) => Owning(Op(t)) /\ op.device = Op(t).device,
         At(t, "persist") => op.step = "persist" /\ op.device = Op(t).device
  PROVE  KeyInv'
  <1>1. /\ tab' \in [Tabs -> [op : KeyOps, result : Results]]
        /\ tab'[t].op = op /\ tab'[t].result = result
        /\ \A u \in Tabs : u # t => tab'[u] = tab[u]
    BY DEF KeyInv, KeyTypeOK
  <1>2. KeyTypeOK'
    BY <1>1 DEF KeyInv, KeyTypeOK
  <1>3. ASSUME NEW u \in Tabs
        PROVE  Grounded(u, Op(u))' /\ Told(tab[u].result)'
    <2>1. Grounded(u, tab'[u].op) /\ Told(tab'[u].result)
      BY <1>1 DEF KeyInv, Op
    <2>2. QED
      BY <2>1 DEF Grounded, Told, Op
  <1>4. OneOwner'
    BY <1>1 DEF KeyInv, OneOwner, Op
  <1>5. EvidenceKept'
    BY <1>1 DEF KeyInv, EvidenceKept, Op, At
  <1>6. RecordSound'
    BY DEF KeyInv, RecordSound
  <1>7. QED
    BY <1>2, <1>3, <1>4, <1>5, <1>6 DEF KeyInv

LEMMA OpTyped == ASSUME KeyInv, NEW t \in Tabs
  PROVE  Op(t) \in KeyOps /\ tab[t].result \in Results /\ tab[t] = [op |-> Op(t), result |-> tab[t].result]
  BY DEF KeyInv, KeyTypeOK, Op

LEMMA IdleFacts == Idle \in KeyOps /\ Nothing \in Results /\ ~Owning(Idle) /\ Nothing.kind = "nothing" /\
                   Idle.step = "idle"
  BY DEF Idle, KeyOps, KeySteps, Nothing, Results, Owning

\* A tab goes on with its operation.
LEMMA QuietOp ==
  ASSUME KeyInv, NEW t \in Tabs, NEW op \in KeyOps, Step(t, op),
         UNCHANGED <<pending, stored, windowOpen, wallet>>, minted' \in Nat,
         Grounded(t, op),
         Owning(op) => Owning(Op(t)) /\ op.device = Op(t).device,
         At(t, "persist") => op.step = "persist" /\ op.device = Op(t).device
  PROVE  KeyInv'
  <1>1. tab' = [tab EXCEPT ![t] = [op |-> op, result |-> tab[t].result]]
    <2>1. tab[t] \in [op : KeyOps, result : Results]
      BY DEF KeyInv, KeyTypeOK
    <2>2. [tab[t] EXCEPT !.op = op] = [op |-> op, result |-> tab[t].result]
      BY <2>1
    <2>3. tab' = [tab EXCEPT ![t] = [tab[t] EXCEPT !.op = op]]
      BY DEF Step
    <2>4. QED
      BY <2>2, <2>3
  <1>2. Told(tab[t].result) /\ tab[t].result \in Results
    BY OpTyped DEF KeyInv
  <1>3. QED
    BY <1>1, <1>2, QuietStep DEF KeyInv, KeyTypeOK

\* Its operation fails.
LEMMA QuietFail ==
  ASSUME KeyInv, NEW t \in Tabs, Fail(t), ~At(t, "persist"),
         UNCHANGED <<pending, stored, windowOpen, wallet, minted>>
  PROVE  KeyInv'
  <1>1. Grounded(t, Idle)
    BY IdleFacts DEF Grounded, Idle
  <1>2. Step(t, Idle) /\ minted \in Nat
    BY DEF Fail, KeyInv, KeyTypeOK
  <1>3. QED
    BY <1>1, <1>2, IdleFacts, QuietOp

\* Its operation returns.
LEMMA QuietReturn ==
  ASSUME KeyInv, NEW t \in Tabs, NEW result \in Results, Return(t, result), ~At(t, "persist"),
         UNCHANGED <<pending, stored, windowOpen, wallet, minted>>,
         Told(result)
  PROVE  KeyInv'
  <1>1. Grounded(t, Idle)
    BY IdleFacts DEF Grounded, Idle
  <1>2. tab' = [tab EXCEPT ![t] = [op |-> Idle, result |-> result]]
    BY DEF Return
  <1>3. QED
    BY <1>1, <1>2, IdleFacts, QuietStep DEF KeyInv, KeyTypeOK

\* An operation begins.
LEMMA QuietBegin ==
  ASSUME KeyInv, NEW t \in Tabs, NEW op \in KeyOps, Begin(t, op), At(t, "idle"), pending \in Devices,
         UNCHANGED <<pending, stored, windowOpen, wallet, minted>>,
         ~Owning(op), op.step \notin {"create", "created", "claim", "claimed", "persisted"},
         op.step = "proof" => op.key \in Keys,
         op.step = "prepare" => op.content \in Contents,
         op.step = "read" => op.wire \in Wires
  PROVE  KeyInv'
  <1> DEFINE started == [op EXCEPT !.device = pending]
  <1>1. started \in KeyOps /\ Grounded(t, started) /\ ~Owning(started)
    BY DEF KeyOps, Grounded, Owning
  <1>2. tab' = [tab EXCEPT ![t] = [op |-> started, result |-> Nothing]]
    BY DEF Begin
  <1>3. Told(Nothing)
    BY DEF Told, Nothing
  <1> HIDE DEF started
  <1>4. QED
    BY <1>1, <1>2, <1>3, IdleFacts, QuietStep DEF KeyInv, KeyTypeOK, At

\* An operation at its next step.
LEMMA Advanced ==
  ASSUME NEW op \in KeyOps, NEW step \in KeySteps, NEW next, next = [op EXCEPT !.step = step]
  PROVE  /\ next \in KeyOps /\ next.step = step /\ next.device = op.device /\ next.content = op.content
         /\ next.key = op.key /\ next.wire = op.wire /\ next.outcome = op.outcome
  BY DEF KeyOps

\* The record of a running operation.
LEMMA RecordTyped ==
  ASSUME KeyInv, NEW t \in Tabs, ~At(t, "idle")
  PROVE  /\ Op(t).device \in Devices /\ Record(t) = stored[Op(t).device]
         /\ Record(t) # None => Record(t) \in KeyRecords
         /\ Record(t) \in KeyRecords \cup {None}
  BY DEF KeyInv, KeyTypeOK, Grounded, At, Record

LEMMA KeyPrepare ==
  ASSUME KeyInv, NEW t \in Tabs,
         \/ \E content \in Contents : PrepareBegin(t, content)
         \/ PrepareRead(t) \/ Winner(t) \/ Created(t)
  PROVE  KeyInv'
  <1>1. ASSUME NEW content \in Contents, PrepareBegin(t, content)
        PROVE  KeyInv'
    <2> DEFINE op == [Idle EXCEPT !.step = "prepare", !.content = content]
    <2>1. op \in KeyOps /\ ~Owning(op) /\ op.step = "prepare" /\ op.content = content
      BY DEF Idle, KeyOps, KeySteps, Owning
    <2> HIDE DEF op
    <2>2. Begin(t, op) /\ At(t, "idle") /\ pending \in Devices
          /\ UNCHANGED <<pending, stored, windowOpen, wallet, minted>>
      BY <1>1 DEF PrepareBegin, op
    <2>3. QED
      BY <2>1, <2>2, QuietBegin
  <1>2. ASSUME NEW key \in Keys, ~At(t, "idle"), ~At(t, "persist"), Record(t) # None, Record(t).key = key,
               Return(t, Public(Op(t).device, key)),
               UNCHANGED <<pending, stored, windowOpen, wallet, minted>>
        PROVE  KeyInv'
    <2>1. PICK result : result = Public(Op(t).device, key)
      OBVIOUS
    <2>2. result \in Results /\ Told(result)
      BY <1>2, <2>1, RecordTyped DEF Public, Results, Told
    <2>3. QED
      BY <1>2, <2>1, <2>2, QuietReturn
  <1>3. CASE PrepareRead(t)
    <2>1. CASE ~Current(t) \/ (Record(t) # None /\ Record(t).content # Op(t).content)
      BY <1>3, <2>1, QuietFail DEF PrepareRead, At
    <2>2. CASE Current(t) /\ Record(t) # None /\ ~(Record(t).content # Op(t).content)
      <3>1. Record(t).key \in Keys
        BY <1>3, <2>2, RecordTyped DEF PrepareRead, At, KeyRecords
      <3>2. QED
        BY <1>2, <1>3, <2>2, <3>1 DEF PrepareRead, At
    <2>3. CASE Current(t) /\ Record(t) = None
      <3>1. PICK op : op = [Op(t) EXCEPT !.step = "create", !.key = minted']
        OBVIOUS
      <3>2. minted \in Nat /\ MaxKeys \in Nat /\ minted < MaxKeys /\ minted' = minted + 1
        BY <1>3, <2>3, KeyBounds DEF PrepareRead, KeyInv, KeyTypeOK
      <3>3. minted' \in Keys /\ minted' \in Nat
        BY <3>2 DEF Keys
      <3>4. /\ op \in KeyOps /\ op.step = "create" /\ op.key \in Keys
            /\ op.device = Op(t).device /\ op.content = Op(t).content
        BY <3>1, <3>3, OpTyped DEF KeyOps, KeySteps
      <3>5. Grounded(t, op) /\ ~Owning(op)
        BY <1>3, <3>4 DEF Grounded, Owning, KeyInv, PrepareRead, At
      <3>6. Step(t, op) /\ UNCHANGED <<pending, stored, windowOpen, wallet>> /\ ~At(t, "persist")
        BY <1>3, <2>3, <3>1 DEF PrepareRead, At
      <3>7. QED
        BY <3>3, <3>4, <3>5, <3>6, QuietOp
    <2>4. QED
      BY <2>1, <2>2, <2>3
  <1>4. CASE Winner(t)
    <2>1. CASE Current(t) /\ Record(t) # None /\ Record(t).content = Op(t).content
      <3>1. Record(t).key \in Keys
        BY <1>4, <2>1, RecordTyped DEF Winner, At, KeyRecords
      <3>2. QED
        BY <1>2, <1>4, <2>1, <3>1 DEF Winner, At
    <2>2. CASE ~(Current(t) /\ Record(t) # None /\ Record(t).content = Op(t).content)
      BY <1>4, <2>2, QuietFail DEF Winner, At
    <2>3. QED
      BY <2>1, <2>2
  <1>5. CASE Created(t)
    <2>1. CASE Current(t) /\ Record(t) # None /\ Record(t).key = Op(t).key
      <3>1. Op(t).key \in Keys
        BY <1>5 DEF Created, At, KeyInv, Grounded
      <3>2. QED
        BY <1>2, <1>5, <2>1, <3>1 DEF Created, At
    <2>2. CASE ~(Current(t) /\ Record(t) # None /\ Record(t).key = Op(t).key)
      BY <1>5, <2>2, QuietFail DEF Created, At
    <2>3. QED
      BY <2>1, <2>2
  <1>6. QED
    BY <1>1, <1>3, <1>4, <1>5

LEMMA KeyProof ==
  ASSUME KeyInv, NEW t \in Tabs, (\E key \in Keys : ProofBegin(t, key)) \/ Proof(t)
  PROVE  KeyInv'
  <1>1. ASSUME NEW key \in Keys, ProofBegin(t, key)
        PROVE  KeyInv'
    <2> DEFINE op == [Idle EXCEPT !.step = "proof", !.key = key]
    <2>1. op \in KeyOps /\ ~Owning(op) /\ op.step = "proof" /\ op.key = key
      BY DEF Idle, KeyOps, KeySteps, Owning
    <2> HIDE DEF op
    <2>2. Begin(t, op) /\ At(t, "idle") /\ pending \in Devices
          /\ UNCHANGED <<pending, stored, windowOpen, wallet, minted>>
      BY <1>1 DEF ProofBegin, op
    <2>3. QED
      BY <2>1, <2>2, QuietBegin
  <1>2. CASE Proof(t)
    <2>1. CASE Current(t) /\ windowOpen /\ Record(t) # None /\ Record(t).key = Op(t).key
      <3>1. PICK result : result = [kind |-> "proof", device |-> Op(t).device, key |-> Op(t).key]
        OBVIOUS
      <3>2. Op(t).key \in Keys
        BY <1>2 DEF Proof, At, KeyInv, Grounded
      <3>3. result \in Results /\ Told(result)
        BY <1>2, <2>1, <3>1, <3>2, RecordTyped DEF Proof, At, Results, Told
      <3>4. QED
        BY <1>2, <2>1, <3>1, <3>3, QuietReturn DEF Proof, At
    <2>2. CASE ~(Current(t) /\ windowOpen /\ Record(t) # None /\ Record(t).key = Op(t).key)
      BY <1>2, <2>2, QuietFail DEF Proof, At
    <2>3. QED
      BY <2>1, <2>2
  <1>3. QED
    BY <1>1, <1>2

\* A transaction writes the record of the registration a tab works for: nothing
\* that is written is ever replaced.
LEMMA RecordStep ==
  ASSUME KeyInv, NEW t \in Tabs, NEW op \in KeyOps, NEW d \in Devices, NEW rec \in KeyRecords,
         Step(t, op), Op(t).device = d, op.device = d,
         stored' = [stored EXCEPT ![d] = rec],
         UNCHANGED <<pending, minted, windowOpen, wallet>>,
         \/ stored[d] = None
         \/ /\ rec.key = stored[d].key
            /\ stored[d].claim # NoWire => rec.claim = stored[d].claim
            /\ stored[d].attempt # NoTab => rec.attempt = stored[d].attempt,
         \A u \in Tabs : u # t => ~(Owning(Op(u)) /\ Op(u).device = d),
         rec.claim # NoWire => rec.claim.key = rec.key,
         rec.attempt # NoTab => rec.claim # NoWire,
         rec.claim = NoWire => wallet.prompts[d] = 0,
         At(t, "persist") => rec.attempt # NoTab,
         At(t, "persist") \/ op.step # "persist",
         Grounded(t, op)'
  PROVE  KeyInv'
  <1>1. /\ tab' \in [Tabs -> [op : KeyOps, result : Results]]
        /\ tab'[t].op = op /\ tab'[t].result = tab[t].result
        /\ \A u \in Tabs : u # t => tab'[u] = tab[u]
    BY DEF KeyInv, KeyTypeOK, Step
  <1>2. stored' \in [Devices -> KeyRecords \cup {None}]
    BY DEF KeyInv, KeyTypeOK
  <1>3. /\ stored'[d] = rec /\ \A e \in Devices : e # d => stored'[e] = stored[e]
        /\ rec # None
    <2>1. rec.key # 0
      BY DEF KeyRecords, Keys
    <2>2. rec # None
      BY <2>1 DEF None
    <2>3. QED
      BY <2>2 DEF KeyInv, KeyTypeOK
  <1>4. KeyTypeOK'
    BY <1>1, <1>2 DEF KeyInv, KeyTypeOK
  <1>5. ASSUME NEW e \in Devices, stored[e] # None
        PROVE  /\ stored'[e] # None /\ stored'[e].key = stored[e].key
               /\ stored[e].claim # NoWire => stored'[e].claim = stored[e].claim
               /\ stored[e].attempt # NoTab => stored'[e].attempt = stored[e].attempt
    BY <1>3, <1>5
  <1>6. ASSUME NEW u \in Tabs
        PROVE  Grounded(u, Op(u))'
    <2>1. CASE u = t
      BY <1>1, <2>1 DEF Op, Grounded
    <2>2. CASE u # t
      <3>1. PICK o \in KeyOps : o = Op(u)
        BY OpTyped
      <3>2. Op(u)' = o /\ Grounded(u, o)
        BY <1>1, <2>2, <3>1 DEF Op, KeyInv
      <3>3. Owning(o) => o.device # d /\ o.device \in Devices
        BY <2>2, <3>1, <3>2 DEF Grounded, Owning
      <3>4. (o.step = "claimed" /\ o.outcome = "signed") \/ o.step = "persisted" => o.device \in Devices
        BY <3>2 DEF Grounded
      <3>5. o.step = "claimed" /\ o.outcome = "signed" =>
              stored'[o.device] # None /\ stored'[o.device].attempt # NoTab
        BY <1>5, <3>2, <3>4 DEF Grounded
      <3>6. o.step = "persisted" =>
              /\ stored'[o.device] # None /\ stored'[o.device].claim = o.wire
              /\ stored'[o.device].attempt = u
        <4> SUFFICES ASSUME o.step = "persisted"
                     PROVE  /\ stored'[o.device] # None /\ stored'[o.device].claim = o.wire
                            /\ stored'[o.device].attempt = u
          OBVIOUS
        <4>1. stored[o.device] # None /\ stored[o.device].claim = o.wire /\ stored[o.device].attempt = u
          BY <3>2 DEF Grounded
        <4>2. stored[o.device].attempt # NoTab
          BY <4>1, TabsAssumption
        <4>3. stored[o.device].claim # NoWire
          BY <3>4, <4>1, <4>2 DEF KeyInv, RecordSound
        <4>4. QED
          BY <1>5, <3>4, <4>1, <4>2, <4>3
      <3>7. Owning(o) => stored'[o.device] = stored[o.device] /\ UNCHANGED wallet
        BY <1>3, <3>3
      <3>8. Grounded(u, o)'
        BY <3>2, <3>5, <3>6, <3>7 DEF Grounded
      <3>9. QED
        BY <3>2, <3>8 DEF Grounded, Op
    <2>3. QED
      BY <2>1, <2>2
  <1>7. ASSUME NEW u \in Tabs
        PROVE  Told(tab[u].result)'
    <2>1. PICK r \in Results : r = tab[u].result
      BY OpTyped
    <2>2. tab'[u].result = r /\ Told(r)
      BY <1>1, <2>1 DEF KeyInv
    <2>3. CASE r.kind = "nothing"
      BY <2>2, <2>3 DEF Told
    <2>4. CASE r.kind # "nothing" /\ r.kind # "attempt"
      <3>1. r.device \in Devices
        BY <2>4 DEF Results, Nothing
      <3>2. QED
        BY <1>5, <2>2, <2>4, <3>1 DEF Told
    <2>5. CASE r.kind = "attempt"
      <3>1. r.device \in Devices /\ r.attempt \in Tabs
        BY <2>5 DEF Results, Nothing
      <3>2. stored[r.device] # None /\ stored[r.device].attempt # NoTab
        BY <2>2, <2>5, <3>1, TabsAssumption DEF Told
      <3>3. stored[r.device].claim # NoWire
        BY <3>1, <3>2 DEF KeyInv, RecordSound
      <3>4. QED
        BY <1>5, <2>2, <2>5, <3>1, <3>2, <3>3 DEF Told
    <2>6. QED
      BY <2>3, <2>4, <2>5
  <1>8. OneOwner'
    BY <1>1 DEF KeyInv, OneOwner, Op
  <1>9. RecordSound'
    <2> SUFFICES ASSUME NEW e \in Devices
                 PROVE  /\ stored'[e] # None =>
                             /\ stored'[e].claim # NoWire => stored'[e].claim.key = stored'[e].key
                             /\ stored'[e].attempt # NoTab => stored'[e].claim # NoWire
                             /\ stored'[e].claim = NoWire => wallet.prompts[e] = 0
                        /\ stored'[e] = None => wallet.prompts[e] = 0
                        /\ wallet.prompts[e] <= 1
      BY DEF RecordSound
    <2>1. QED
      BY <1>3 DEF KeyInv, RecordSound
  <1>10. EvidenceKept'
    <2> SUFFICES ASSUME NEW e \in wallet.received \ wallet.lost
                 PROVE  \/ \E u \in Tabs : tab'[u].op.step = "persist" /\ tab'[u].op.device = e
                        \/ stored'[e] # None /\ stored'[e].attempt # NoTab
      BY DEF EvidenceKept, At, Op
    <2>1. e \in Devices
      BY DEF KeyInv, KeyTypeOK, Wallets
    <2>2. CASE \E u \in Tabs : At(u, "persist") /\ Op(u).device = e
      <3>1. PICK u \in Tabs : At(u, "persist") /\ Op(u).device = e
        BY <2>2
      <3>2. CASE u = t
        BY <1>3, <3>1, <3>2
      <3>3. CASE u # t
        BY <1>1, <3>1, <3>3 DEF Op, At
      <3>4. QED
        BY <3>2, <3>3
    <2>3. CASE stored[e] # None /\ stored[e].attempt # NoTab
      BY <1>5, <2>1, <2>3
    <2>4. QED
      BY <2>2, <2>3 DEF KeyInv, EvidenceKept
  <1>11. QED
    BY <1>4, <1>6, <1>7, <1>8, <1>9, <1>10 DEF KeyInv

LEMMA KeyCreate == ASSUME KeyInv, NEW t \in Tabs, Create(t) PROVE KeyInv'
  <1>1. /\ At(t, "create") /\ Op(t).device \in Devices /\ Op(t).key \in Keys /\ Op(t).content \in Contents
        /\ ~At(t, "persist")
    BY DEF Create, KeyInv, Grounded, At
  <1>2. CASE /\ Current(t) /\ Record(t) = None
             /\ stored' = [stored EXCEPT ![Op(t).device] =
                  [key |-> Op(t).key, content |-> Op(t).content, claim |-> NoWire, attempt |-> NoTab]]
             /\ Step(t, [Op(t) EXCEPT !.step = "created"])
    <2>1. PICK op : op = [Op(t) EXCEPT !.step = "created"]
      OBVIOUS
    <2>2. op \in KeyOps /\ op.step = "created" /\ op.device = Op(t).device /\ op.key \in Keys
      <3>1. Op(t) \in KeyOps /\ "created" \in KeySteps
        BY OpTyped DEF KeySteps
      <3>2. QED
        BY <1>1, <2>1, <3>1, Advanced
    <2>3. PICK rec : rec = [key |-> Op(t).key, content |-> Op(t).content, claim |-> NoWire, attempt |-> NoTab]
      OBVIOUS
    <2>4. rec \in KeyRecords /\ rec.claim = NoWire /\ rec.attempt = NoTab
      BY <1>1, <2>3 DEF KeyRecords
    <2>5. PICK d \in Devices : d = Op(t).device
      BY <1>1
    <2>6. stored[d] = None /\ wallet.prompts[d] = 0
      BY <1>2, <2>5 DEF Record, KeyInv, RecordSound
    <2>7. \A u \in Tabs : u # t => ~(Owning(Op(u)) /\ Op(u).device = d)
      BY <2>6 DEF KeyInv, Grounded
    <2>8. Grounded(t, op)'
      BY <1>1, <2>2 DEF Grounded, Owning
    <2>9. /\ Step(t, op) /\ stored' = [stored EXCEPT ![d] = rec]
          /\ UNCHANGED <<pending, minted, windowOpen, wallet>>
      BY <1>2, <2>1, <2>3, <2>5 DEF Create
    <2>10. QED
      BY <1>1, <2>2, <2>4, <2>5, <2>6, <2>7, <2>8, <2>9, RecordStep
  <1>3. CASE Step(t, [Op(t) EXCEPT !.step = "winner"]) /\ UNCHANGED stored
    <2>1. PICK op : op = [Op(t) EXCEPT !.step = "winner"]
      OBVIOUS
    <2>2. op \in KeyOps /\ op.step = "winner" /\ op.device \in Devices
      <3>1. Op(t) \in KeyOps /\ "winner" \in KeySteps
        BY OpTyped DEF KeySteps
      <3>2. QED
        BY <1>1, <2>1, <3>1, Advanced
    <2>3. Grounded(t, op) /\ ~Owning(op)
      BY <2>2 DEF Grounded, Owning
    <2>4. Step(t, op) /\ UNCHANGED <<pending, stored, windowOpen, wallet>> /\ minted' \in Nat
      BY <1>3, <2>1 DEF Create, KeyInv, KeyTypeOK
    <2>5. QED
      BY <1>1, <2>2, <2>3, <2>4, QuietOp
  <1>4. QED
    BY <1>2, <1>3 DEF Create

LEMMA AttemptReturned ==
  ASSUME KeyInv, NEW t \in Tabs, ~At(t, "idle"), ~At(t, "persist"),
         Record(t) # None, Record(t).attempt # NoTab,
         Return(t, Attempt(Op(t).device)),
         UNCHANGED <<pending, stored, windowOpen, wallet, minted>>
  PROVE  KeyInv'
  <1>1. PICK d \in Devices : d = Op(t).device
    BY RecordTyped
  <1>2. stored[d] \in KeyRecords /\ stored[d] # None /\ stored[d].attempt # NoTab
    BY <1>1, RecordTyped
  <1>3. stored[d].claim \in Wires /\ stored[d].attempt \in Tabs /\ stored[d].claim.key = stored[d].key
    BY <1>2 DEF KeyRecords, KeyInv, RecordSound
  <1>4. PICK result : result = Attempt(d)
    OBVIOUS
  <1>5. result \in Results /\ Told(result)
    BY <1>2, <1>3, <1>4 DEF Attempt, Results, Told
  <1>6. QED
    BY <1>1, <1>4, <1>5, QuietReturn

LEMMA KeyApproveBegin == ASSUME KeyInv, NEW t \in Tabs, NEW wire \in Wires, ApproveBegin(t, wire) PROVE KeyInv'
  <1> DEFINE op == [Idle EXCEPT !.step = "read", !.wire = wire]
  <1>1. op \in KeyOps /\ ~Owning(op) /\ op.step = "read" /\ op.wire = wire
    BY DEF Idle, KeyOps, KeySteps, Owning
  <1> HIDE DEF op
  <1>2. Begin(t, op) /\ At(t, "idle") /\ pending \in Devices
        /\ UNCHANGED <<pending, stored, windowOpen, wallet, minted>>
    BY DEF ApproveBegin, op
  <1>3. QED
    BY <1>1, <1>2, QuietBegin

LEMMA KeyReadAttempt == ASSUME KeyInv, NEW t \in Tabs, ReadAttempt(t) PROVE KeyInv'
  <1>1. /\ At(t, "read") /\ ~At(t, "persist") /\ ~At(t, "idle")
        /\ UNCHANGED <<pending, stored, windowOpen, wallet, minted>>
    BY DEF ReadAttempt, At
  <1>2. CASE ~Checked(t) \/ ~BoundTo(Record(t), Op(t).wire)
    BY <1>1, <1>2, QuietFail DEF ReadAttempt
  <1>3. CASE Checked(t) /\ BoundTo(Record(t), Op(t).wire) /\ Record(t).attempt = NoTab
    <2>1. Step(t, [Op(t) EXCEPT !.step = "claim", !.key = Record(t).key])
      BY <1>3 DEF ReadAttempt
    <2>2. PICK old \in KeyOps : old = Op(t)
      BY OpTyped
    <2>3. PICK key : key = Record(t).key
      OBVIOUS
    <2>4. PICK op : op = [old EXCEPT !.step = "claim", !.key = key]
      OBVIOUS
    <2>5. key \in Keys /\ old.wire \in Wires /\ old.wire.key = key /\ old.device \in Devices
      <3>1. Record(t) \in KeyRecords
        BY <1>1, <1>3, RecordTyped DEF BoundTo
      <3>2. QED
        BY <1>1, <1>3, <2>2, <2>3, <3>1 DEF KeyRecords, BoundTo, KeyInv, Grounded, At
    <2>6. /\ op \in KeyOps /\ op.step = "claim" /\ op.key = key /\ op.wire = old.wire
          /\ op.device = old.device
      BY <2>4, <2>5 DEF KeyOps, KeySteps
    <2>7. Grounded(t, op) /\ ~Owning(op)
      BY <2>5, <2>6 DEF Grounded, Owning
    <2>8. Step(t, op) /\ minted' \in Nat
      BY <1>1, <2>1, <2>2, <2>3, <2>4 DEF KeyInv, KeyTypeOK
    <2>9. QED
      BY <1>1, <2>6, <2>7, <2>8, QuietOp
  <1>4. CASE Checked(t) /\ BoundTo(Record(t), Op(t).wire) /\ Record(t).attempt # NoTab
    <2>1. CASE Record(t).claim = Op(t).wire
      BY <1>1, <1>4, <2>1, AttemptReturned DEF ReadAttempt, BoundTo
    <2>2. CASE Record(t).claim # Op(t).wire
      BY <1>1, <1>4, <2>2, QuietFail DEF ReadAttempt
    <2>3. QED
      BY <2>1, <2>2
  <1>5. QED
    BY <1>2, <1>3, <1>4

LEMMA KeyClaim == ASSUME KeyInv, NEW t \in Tabs, Claim(t) PROVE KeyInv'
  <1>1. PICK old \in KeyOps : old = Op(t)
    BY OpTyped
  <1>2. /\ At(t, "claim") /\ ~At(t, "persist") /\ ~At(t, "idle")
        /\ UNCHANGED <<pending, windowOpen, wallet, minted>>
        /\ old.step = "claim" /\ old.key \in Keys /\ old.wire \in Wires /\ old.key = old.wire.key
        /\ old.device \in Devices
    BY <1>1 DEF Claim, At, KeyInv, Grounded
  <1>3. CASE ~(Current(t) /\ Record(t).key = Op(t).key)
    BY <1>2, <1>3, QuietFail DEF Claim
  <1>4. ASSUME Current(t), Record(t).key = Op(t).key
        PROVE  KeyInv'
    <2>1. PICK d \in Devices : d = old.device
      BY <1>2
    <2>2. PICK found : found = stored[d]
      OBVIOUS
    <2>3. found \in KeyRecords /\ found # None /\ found.key = old.key /\ Record(t) = found
      <3>1. Record(t) = found
        BY <1>1, <2>1, <2>2 DEF Record
      <3>2. None.key \notin Keys
        BY DEF None, Keys
      <3>3. QED
        BY <1>1, <1>2, <1>4, <3>1, <3>2, RecordTyped
    <2>4. ASSUME NEW outcome \in {"signed", "existing-claim"},
                 outcome = "signed" => found.attempt # NoTab,
                 Step(t, [Op(t) EXCEPT !.step = "claimed", !.outcome = outcome]), UNCHANGED stored
          PROVE  KeyInv'
      <3>1. PICK op : op = [old EXCEPT !.step = "claimed", !.outcome = outcome]
        OBVIOUS
      <3>2. op \in KeyOps /\ op.step = "claimed" /\ op.outcome = outcome /\ op.device = d
        BY <2>1, <3>1 DEF KeyOps, KeySteps
      <3>3. Grounded(t, op) /\ ~Owning(op)
        BY <2>2, <2>3, <2>4, <3>2 DEF Grounded, Owning
      <3>4. Step(t, op) /\ minted' \in Nat
        BY <1>1, <1>2, <2>4, <3>1 DEF KeyInv, KeyTypeOK
      <3>5. QED
        BY <1>2, <2>4, <3>2, <3>3, <3>4, QuietOp
    <2>5. CASE Record(t).attempt # NoTab
      <3>1. Step(t, [Op(t) EXCEPT !.step = "claimed", !.outcome = "signed"]) /\ UNCHANGED stored
        BY <1>4, <2>5 DEF Claim
      <3>2. QED
        BY <2>3, <2>4, <2>5, <3>1
    <2>6. CASE Record(t).attempt = NoTab /\ Record(t).claim # NoWire
      <3>1. Step(t, [Op(t) EXCEPT !.step = "claimed", !.outcome = "existing-claim"]) /\ UNCHANGED stored
        BY <1>4, <2>6 DEF Claim
      <3>2. QED
        BY <2>4, <3>1
    <2>7. CASE Record(t).attempt = NoTab /\ Record(t).claim = NoWire
      <3>1. Put(t)
        BY <1>4, <2>7 DEF Claim
      <3>2. PICK op : op = [old EXCEPT !.step = "claimed", !.outcome = "claimed"]
        OBVIOUS
      <3>3. /\ op \in KeyOps /\ op.step = "claimed" /\ op.outcome = "claimed" /\ op.device = d
            /\ op.key = old.key /\ op.wire = old.wire
        BY <2>1, <3>2 DEF KeyOps, KeySteps
      <3>4. PICK rec : rec = [found EXCEPT !.claim = old.wire]
        OBVIOUS
      <3>5. /\ rec \in KeyRecords /\ rec.claim = old.wire /\ rec.attempt = found.attempt /\ rec.key = found.key
        BY <1>2, <2>3, <3>4 DEF KeyRecords
      <3>6. stored' = [stored EXCEPT ![d] = rec] /\ Step(t, op)
        BY <1>1, <2>1, <2>2, <3>1, <3>2, <3>4 DEF Put, KeyInv, KeyTypeOK
      <3>7. rec # None /\ old.wire # NoWire
        BY <1>2, <3>5 DEF KeyRecords, None, NoWire, Wires, Keys
      <3>8. wallet.prompts[d] = 0 /\ found.attempt = NoTab /\ found.claim = NoWire
        BY <2>2, <2>3, <2>7 DEF KeyInv, RecordSound
      <3>9. \A u \in Tabs : u # t => ~(Owning(Op(u)) /\ Op(u).device = d)
        <4>1. ASSUME NEW wire \in Wires
              PROVE  wire # NoWire
          BY DEF NoWire, Wires, Keys
        <4>2. QED
          BY <2>2, <3>8, <4>1 DEF KeyInv, Grounded
      <3>10. stored'[d] = rec
        BY <3>6 DEF KeyInv, KeyTypeOK
      <3>11. Grounded(t, op)'
        BY <1>2, <2>3, <3>3, <3>5, <3>7, <3>8, <3>10 DEF Grounded, Owning
      <3>12. /\ rec.key = stored[d].key /\ (stored[d].claim # NoWire => rec.claim = stored[d].claim)
             /\ (stored[d].attempt # NoTab => rec.attempt = stored[d].attempt)
             /\ rec.claim.key = rec.key /\ rec.attempt = NoTab /\ rec.claim # NoWire
        BY <1>2, <2>2, <2>3, <3>5, <3>7, <3>8
      <3>13. Op(t).device = d /\ op.step # "persist" /\ ~At(t, "persist")
        BY <1>1, <1>2, <2>1, <3>3
      <3>14. UNCHANGED <<pending, minted, windowOpen, wallet>>
        BY <1>2
      <3>15. QED
        BY <3>3, <3>5, <3>6, <3>9, <3>11, <3>12, <3>13, <3>14, RecordStep
    <2>8. QED
      BY <2>5, <2>6, <2>7
  <1>5. QED
    BY <1>3, <1>4

LEMMA KeyClaimed == ASSUME KeyInv, NEW t \in Tabs, Claimed(t) PROVE KeyInv'
  <1>1. PICK old \in KeyOps : old = Op(t)
    BY OpTyped
  <1>2. /\ At(t, "claimed") /\ ~At(t, "persist") /\ ~At(t, "idle") /\ old.step = "claimed"
        /\ UNCHANGED <<pending, stored, windowOpen, wallet, minted>>
    BY <1>1 DEF Claimed, At
  <1>3. CASE Checked(t) /\ Op(t).outcome = "claimed"
    <2>1. PICK op : op = [old EXCEPT !.step = "provider"]
      OBVIOUS
    <2>2. "provider" \in KeySteps
      BY DEF KeySteps
    <2>3. /\ op \in KeyOps /\ op.step = "provider" /\ op.device = old.device /\ op.key = old.key
          /\ op.wire = old.wire
      BY <2>1, <2>2, Advanced
    <2>4. Owning(Op(t)) /\ Owning(old) /\ Grounded(t, old)
      BY <1>1, <1>2, <1>3 DEF Owning, KeyInv
    <2>5. Grounded(t, op)
      BY <1>2, <2>3, <2>4 DEF Grounded, Owning
    <2>6. Step(t, op) /\ minted' \in Nat
      BY <1>1, <1>2, <1>3, <2>1 DEF Claimed, KeyInv, KeyTypeOK
    <2>7. QED
      BY <1>1, <1>2, <2>3, <2>4, <2>5, <2>6, QuietOp
  <1>4. CASE Checked(t) /\ Op(t).outcome = "signed" /\ Record(t).claim = Op(t).wire
    <2>1. Return(t, Attempt(Op(t).device))
      BY <1>4 DEF Claimed
    <2>2. Record(t) # None /\ Record(t).attempt # NoTab
      BY <1>1, <1>2, <1>4 DEF KeyInv, Grounded, Record
    <2>3. QED
      BY <1>2, <2>1, <2>2, AttemptReturned
  <1>5. CASE ~(Checked(t) /\ Op(t).outcome = "claimed") /\
             ~(Checked(t) /\ Op(t).outcome = "signed" /\ Record(t).claim = Op(t).wire)
    BY <1>2, <1>5, QuietFail DEF Claimed
  <1>6. QED
    BY <1>3, <1>4, <1>5

LEMMA KeyPersisted == ASSUME KeyInv, NEW t \in Tabs, Persisted(t) PROVE KeyInv'
  <1>1. /\ At(t, "persisted") /\ ~At(t, "persist") /\ ~At(t, "idle")
        /\ UNCHANGED <<pending, stored, windowOpen, wallet, minted>>
    BY DEF Persisted, At
  <1>2. Record(t) # None /\ Record(t).attempt # NoTab
    BY <1>1, TabsAssumption DEF KeyInv, Grounded, At, Record
  <1>3. CASE Op(t).valid /\ Checked(t)
    BY <1>1, <1>2, <1>3, AttemptReturned DEF Persisted
  <1>4. CASE ~(Op(t).valid /\ Checked(t))
    BY <1>1, <1>4, QuietFail DEF Persisted
  <1>5. QED
    BY <1>3, <1>4

LEMMA KeyPersist == ASSUME KeyInv, NEW t \in Tabs, Persist(t) PROVE KeyInv'
  <1>1. PICK old \in KeyOps : old = Op(t)
    BY OpTyped
  <1>2. /\ At(t, "persist") /\ old.step = "persist" /\ Owning(old) /\ Grounded(t, old)
        /\ UNCHANGED <<pending, windowOpen, wallet, minted>>
    BY <1>1 DEF Persist, At, Owning, KeyInv
  <1>3. PICK d \in Devices : d = old.device
    BY <1>2 DEF Grounded
  <1>4. PICK found : found = stored[d]
    OBVIOUS
  <1>5. /\ found \in KeyRecords /\ found # None /\ found.key = old.key /\ found.claim = old.wire
        /\ old.wire \in Wires /\ found.attempt = NoTab
    BY <1>2, <1>3, <1>4 DEF Grounded, KeyInv, KeyTypeOK
  <1>6. PICK op : op = [old EXCEPT !.step = "persisted"]
    OBVIOUS
  <1>7. PICK rec : rec = [found EXCEPT !.attempt = t]
    OBVIOUS
  <1>8. Record(t) = found
    BY <1>1, <1>3, <1>4 DEF Record
  <1>9. stored' = [stored EXCEPT ![d] = rec] /\ Step(t, op)
    <2>1. stored' = [stored EXCEPT ![Op(t).device].attempt = t] /\ Step(t, [Op(t) EXCEPT !.step = "persisted"])
      BY <1>1, <1>5, <1>8 DEF Persist
    <2>2. QED
      BY <1>1, <1>3, <1>4, <1>6, <1>7, <2>1 DEF KeyInv, KeyTypeOK
  <1>10. op \in KeyOps /\ op.step = "persisted" /\ op.device = d /\ op.wire = old.wire
    <2>1. "persisted" \in KeySteps
      BY DEF KeySteps
    <2>2. QED
      BY <1>3, <1>6, <2>1, Advanced
  <1>11. rec \in KeyRecords /\ rec.key = found.key /\ rec.claim = found.claim /\ rec.attempt = t
    BY <1>5, <1>7 DEF KeyRecords
  <1>12. found.claim # NoWire /\ rec # None /\ found.claim.key = found.key
    <2>1. old.wire # NoWire /\ rec # None
      BY <1>5, <1>11 DEF KeyRecords, None, NoWire, Wires, Keys
    <2>2. QED
      BY <1>4, <1>5, <2>1 DEF KeyInv, RecordSound
  <1>13. \A u \in Tabs : u # t => ~(Owning(Op(u)) /\ Op(u).device = d)
    BY <1>1, <1>2, <1>3 DEF KeyInv, OneOwner
  <1>14. stored'[d] = rec
    BY <1>9 DEF KeyInv, KeyTypeOK
  <1>15. Grounded(t, op)'
    BY <1>5, <1>10, <1>11, <1>12, <1>14 DEF Grounded, Owning
  <1>16. /\ rec.key = stored[d].key /\ rec.claim = stored[d].claim /\ stored[d].attempt = NoTab
         /\ rec.claim # NoWire /\ rec.claim.key = rec.key /\ rec.attempt # NoTab
         /\ Op(t).device = d
    BY <1>1, <1>3, <1>4, <1>5, <1>11, <1>12, TabsAssumption
  <1>17. UNCHANGED <<pending, minted, windowOpen, wallet>>
    BY <1>2
  <1>18. QED
    BY <1>2, <1>9, <1>10, <1>11, <1>13, <1>15, <1>16, <1>17, RecordStep

LEMMA KeyCancel == ASSUME KeyInv, NEW t \in Tabs, Cancel(t) \/ ContextChanges(t) PROVE KeyInv'
  <1>1. PICK old \in KeyOps : old = Op(t)
    BY OpTyped
  <1>2. PICK op : op \in {[old EXCEPT !.cancelled = TRUE], [old EXCEPT !.same = FALSE]} /\ Step(t, op)
    BY <1>1 DEF Cancel, ContextChanges
  <1>3. /\ op \in KeyOps /\ op.step = old.step /\ op.device = old.device /\ op.content = old.content
        /\ op.key = old.key /\ op.wire = old.wire /\ op.outcome = old.outcome
    <2>1. CASE op = [old EXCEPT !.cancelled = TRUE]
      BY <2>1 DEF KeyOps
    <2>2. CASE op = [old EXCEPT !.same = FALSE]
      BY <2>2 DEF KeyOps
    <2>3. QED
      BY <1>2, <2>1, <2>2
  <1>4. Grounded(t, old)
    BY <1>1 DEF KeyInv
  <1>5. Grounded(t, op) /\ (Owning(op) => Owning(old))
    BY <1>3, <1>4 DEF Grounded, Owning
  <1>6. UNCHANGED <<pending, stored, windowOpen, wallet, minted>> /\ minted' \in Nat
    BY DEF Cancel, ContextChanges, KeyInv, KeyTypeOK
  <1>7. QED
    BY <1>1, <1>2, <1>3, <1>5, <1>6, QuietOp DEF At

\* A step at the wallet, or one that loses a signature: the record stays.
LEMMA WalletStep ==
  ASSUME KeyInv, NEW t \in Tabs, NEW op \in KeyOps, NEW result \in Results,
         tab' = [tab EXCEPT ![t] = [op |-> op, result |-> result]],
         UNCHANGED <<pending, stored, minted, windowOpen>>, wallet' \in Wallets,
         Told(result), Grounded(t, op)',
         Owning(op) => Owning(Op(t)) /\ op.device = Op(t).device,
         \A d \in Devices :
           \/ wallet'.prompts[d] = wallet.prompts[d]
           \/ Owning(Op(t)) /\ Op(t).device = d /\ wallet'.prompts[d] = 1,
         EvidenceKept'
  PROVE  KeyInv'
  <1>1. /\ tab' \in [Tabs -> [op : KeyOps, result : Results]]
        /\ tab'[t].op = op /\ tab'[t].result = result
        /\ \A u \in Tabs : u # t => tab'[u] = tab[u]
    BY DEF KeyInv, KeyTypeOK
  <1>2. KeyTypeOK'
    BY <1>1 DEF KeyInv, KeyTypeOK
  <1>3. ASSUME NEW u \in Tabs
        PROVE  Grounded(u, Op(u))' /\ Told(tab[u].result)'
    <2>1. Told(tab'[u].result)
      BY <1>1 DEF KeyInv
    <2>2. Told(tab[u].result)'
      BY <2>1 DEF Told
    <2>3. CASE u = t
      BY <1>1, <2>2, <2>3 DEF Op, Grounded
    <2>4. CASE u # t
      <3>1. PICK o \in KeyOps : o = Op(u)
        BY OpTyped
      <3>2. Op(u)' = o /\ Grounded(u, o)
        BY <1>1, <2>4, <3>1 DEF Op, KeyInv
      <3>3. Owning(o) => o.device \in Devices /\ wallet'.prompts[o.device] = wallet.prompts[o.device]
        <4> SUFFICES ASSUME Owning(o)
                     PROVE  o.device \in Devices /\ wallet'.prompts[o.device] = wallet.prompts[o.device]
          OBVIOUS
        <4>1. o.device \in Devices
          BY <3>2 DEF Grounded, Owning
        <4>2. ~(Owning(Op(t)) /\ Op(t).device = o.device)
          BY <2>4, <3>1 DEF KeyInv, OneOwner
        <4>3. QED
          BY <4>1, <4>2
      <3>4. Grounded(u, o)'
        BY <3>2, <3>3 DEF Grounded
      <3>5. QED
        BY <2>2, <3>2, <3>4 DEF Grounded, Op
    <2>5. QED
      BY <2>3, <2>4
  <1>4. OneOwner'
    BY <1>1 DEF KeyInv, OneOwner, Op
  <1>5. RecordSound'
    <2> SUFFICES ASSUME NEW d \in Devices
                 PROVE  /\ stored[d] # None =>
                             /\ stored[d].claim # NoWire => stored[d].claim.key = stored[d].key
                             /\ stored[d].attempt # NoTab => stored[d].claim # NoWire
                             /\ stored[d].claim = NoWire => wallet'.prompts[d] = 0
                        /\ stored[d] = None => wallet'.prompts[d] = 0
                        /\ wallet'.prompts[d] <= 1
      BY DEF RecordSound
    <2>1. CASE wallet'.prompts[d] = wallet.prompts[d]
      BY <2>1 DEF KeyInv, RecordSound
    <2>2. CASE Owning(Op(t)) /\ Op(t).device = d /\ wallet'.prompts[d] = 1
      <3>1. stored[d] # None /\ stored[d].claim \in Wires
        BY <2>2 DEF KeyInv, Grounded
      <3>2. stored[d].claim # NoWire
        BY <3>1 DEF Wires, NoWire, Keys
      <3>3. QED
        BY <2>2, <3>1, <3>2 DEF KeyInv, RecordSound
    <2>3. QED
      BY <2>1, <2>2
  <1>6. QED
    BY <1>2, <1>3, <1>4, <1>5 DEF KeyInv

LEMMA TabStepped ==
  ASSUME KeyInv, NEW t \in Tabs, NEW op, Step(t, op)
  PROVE  tab' = [tab EXCEPT ![t] = [op |-> op, result |-> tab[t].result]]
  <1>1. tab[t] \in [op : KeyOps, result : Results]
    BY DEF KeyInv, KeyTypeOK
  <1>2. [tab[t] EXCEPT !.op = op] = [op |-> op, result |-> tab[t].result]
    BY <1>1
  <1>3. tab' = [tab EXCEPT ![t] = [tab[t] EXCEPT !.op = op]]
    BY DEF Step
  <1>4. QED
    BY <1>2, <1>3

\* getPublicKey has answered: the wallet is asked, once for the claim.
LEMMA KeyPrompt == ASSUME KeyInv, NEW t \in Tabs, Prompt(t) PROVE KeyInv'
  <1>1. PICK old \in KeyOps : old = Op(t)
    BY OpTyped
  <1>2. /\ At(t, "provider") /\ ~At(t, "persist") /\ old.step = "provider" /\ Owning(old) /\ Grounded(t, old)
        /\ UNCHANGED <<pending, stored, windowOpen, minted>>
    BY <1>1 DEF Prompt, At, Owning, KeyInv
  <1>3. CASE ~Checked(t)
    BY <1>2, <1>3, QuietFail DEF Prompt
  <1>4. CASE Checked(t)
    <2>1. PICK op : op = [old EXCEPT !.step = "signing"]
      OBVIOUS
    <2>2. "signing" \in KeySteps
      BY DEF KeySteps
    <2>3. /\ op \in KeyOps /\ op.step = "signing" /\ op.device = old.device /\ op.key = old.key
          /\ op.wire = old.wire
      BY <2>1, <2>2, Advanced
    <2>4. PICK d \in Devices : d = old.device
      BY <1>2 DEF Grounded
    <2>5. Step(t, op) /\ wallet' = [wallet EXCEPT !.prompts[d] = @ + 1]
      BY <1>1, <1>4, <2>1, <2>4 DEF Prompt
    <2>6. wallet.prompts[d] = 0 /\ wallet.prompts \in [Devices -> Nat]
      BY <1>2, <2>4 DEF Grounded, KeyInv, KeyTypeOK, Wallets
    <2>7. /\ wallet' = [wallet EXCEPT !.prompts = [wallet.prompts EXCEPT ![d] = 1]]
      BY <2>5, <2>6 DEF KeyInv, KeyTypeOK, Wallets
    <2>8. /\ wallet' \in Wallets /\ wallet'.received = wallet.received /\ wallet'.lost = wallet.lost
          /\ wallet'.prompts = [wallet.prompts EXCEPT ![d] = 1]
      BY <2>6, <2>7 DEF KeyInv, KeyTypeOK, Wallets
    <2>9. \A e \in Devices : wallet'.prompts[e] = wallet.prompts[e] \/ (e = d /\ wallet'.prompts[e] = 1)
      BY <2>6, <2>8
    <2>10. Grounded(t, op)'
      BY <1>2, <2>3 DEF Grounded, Owning
    <2>11. tab' = [tab EXCEPT ![t] = [op |-> op, result |-> tab[t].result]]
      BY <2>5, TabStepped
    <2>12. EvidenceKept'
      <3>1. \A u \in Tabs : At(u, "persist") => At(u, "persist")' /\ Op(u)'.device = Op(u).device
        BY <1>2, <2>11 DEF At, Op, KeyInv, KeyTypeOK
      <3>2. QED
        BY <1>2, <2>8, <3>1 DEF EvidenceKept, KeyInv
    <2>13. Told(tab[t].result) /\ tab[t].result \in Results
      BY OpTyped DEF KeyInv
    <2>14. Owning(Op(t)) /\ op.device = Op(t).device /\ Op(t).device = d
      BY <1>1, <1>2, <2>3, <2>4
    <2>15. UNCHANGED <<pending, stored, minted, windowOpen>>
      BY <1>2
    <2>16. QED
      BY <2>3, <2>8, <2>9, <2>10, <2>11, <2>12, <2>13, <2>14, <2>15, WalletStep
  <1>5. QED
    BY <1>3, <1>4

\* The wallet signs: the page is about to make the signature durable.
LEMMA KeyWalletSigns == ASSUME KeyInv, NEW t \in Tabs, WalletSigns(t) PROVE KeyInv'
  <1>1. PICK old \in KeyOps : old = Op(t)
    BY OpTyped
  <1>2. /\ At(t, "signing") /\ ~At(t, "persist") /\ old.step = "signing" /\ Owning(old) /\ Grounded(t, old)
        /\ UNCHANGED <<pending, stored, windowOpen, minted>>
    BY <1>1 DEF WalletSigns, At, Owning, KeyInv
  <1>3. PICK op : op = [old EXCEPT !.step = "persist", !.valid = windowOpen /\ old.same]
    OBVIOUS
  <1>4. /\ op \in KeyOps /\ op.step = "persist" /\ op.device = old.device /\ op.key = old.key
        /\ op.wire = old.wire
    BY <1>3 DEF KeyOps, KeySteps, KeyInv, KeyTypeOK
  <1>5. PICK d \in Devices : d = old.device
    BY <1>2 DEF Grounded
  <1>6. Step(t, op) /\ wallet' = [wallet EXCEPT !.received = @ \cup {d}]
    BY <1>1, <1>3, <1>5 DEF WalletSigns
  <1>7. /\ wallet' \in Wallets /\ wallet'.prompts = wallet.prompts /\ wallet'.lost = wallet.lost
        /\ wallet'.received = wallet.received \cup {d}
    BY <1>6 DEF KeyInv, KeyTypeOK, Wallets
  <1>8. Grounded(t, op)'
    BY <1>2, <1>4 DEF Grounded, Owning
  <1>9. tab' = [tab EXCEPT ![t] = [op |-> op, result |-> tab[t].result]]
    BY <1>6, TabStepped
  <1>10. EvidenceKept'
    <2>1. /\ \A u \in Tabs : At(u, "persist") => At(u, "persist")' /\ Op(u)'.device = Op(u).device
          /\ At(t, "persist")' /\ Op(t)'.device = d
      BY <1>2, <1>4, <1>5, <1>9 DEF At, Op, KeyInv, KeyTypeOK
    <2>2. QED
      BY <1>2, <1>7, <2>1 DEF EvidenceKept, KeyInv
  <1>11. Told(tab[t].result) /\ tab[t].result \in Results
    BY OpTyped DEF KeyInv
  <1>12. Owning(Op(t)) /\ op.device = Op(t).device
    BY <1>1, <1>2, <1>4
  <1>13. UNCHANGED <<pending, stored, minted, windowOpen>>
    BY <1>2
  <1>14. QED
    BY <1>4, <1>7, <1>8, <1>9, <1>10, <1>11, <1>12, <1>13, WalletStep

\* A reload, or a database that fails: a signature that waited to be made
\* durable is lost, and counted as such.
LEMMA KeyLost == ASSUME KeyInv, NEW t \in Tabs, StorageFails(t) \/ Reload(t) PROVE KeyInv'
  <1>1. PICK result \in Results : /\ tab' = [tab EXCEPT ![t] = [op |-> Idle, result |-> result]]
                                  /\ Told(result)
    <2>1. CASE StorageFails(t)
      <3>1. tab' = [tab EXCEPT ![t] = [op |-> Idle, result |-> tab[t].result]]
        BY <2>1, TabStepped DEF StorageFails, Fail
      <3>2. tab[t].result \in Results /\ Told(tab[t].result)
        BY OpTyped DEF KeyInv
      <3>3. QED
        BY <3>1, <3>2
    <2>2. CASE Reload(t)
      <3>1. Told(Nothing) /\ Nothing \in Results
        BY IdleFacts DEF Told
      <3>2. QED
        BY <2>2, <3>1 DEF Reload
    <2>3. QED
      BY <2>1, <2>2
  <1>2. /\ wallet' = [wallet EXCEPT !.lost = IF At(t, "persist") THEN @ \cup {Op(t).device} ELSE @]
        /\ UNCHANGED <<pending, stored, minted, windowOpen>>
    BY DEF StorageFails, Reload
  <1>3. At(t, "persist") => Op(t).device \in Devices
    BY DEF At, KeyInv, Grounded
  <1>4. /\ wallet' \in Wallets /\ wallet'.prompts = wallet.prompts /\ wallet'.received = wallet.received
        /\ wallet.lost \subseteq wallet'.lost /\ (At(t, "persist") => Op(t).device \in wallet'.lost)
    BY <1>2, <1>3 DEF KeyInv, KeyTypeOK, Wallets
  <1>5. EvidenceKept'
    <2>1. \A u \in Tabs : u # t /\ At(u, "persist") => At(u, "persist")' /\ Op(u)'.device = Op(u).device
      BY <1>1 DEF At, Op
    <2>2. QED
      BY <1>2, <1>4, <2>1 DEF EvidenceKept, KeyInv
  <1>6. Grounded(t, Idle)' /\ ~Owning(Idle)
    BY IdleFacts DEF Grounded, Idle
  <1>7. QED
    BY <1>1, <1>2, <1>4, <1>5, <1>6, IdleFacts, WalletStep

LEMMA KeyStart == KeyInit => KeyInv
  <1> SUFFICES ASSUME KeyInit
               PROVE  KeyInv
    OBVIOUS
  <1>1. KeyTypeOK
    BY KeyBounds, IdleFacts DEF KeyInit, KeyTypeOK, Devices, Wallets
  <1>2. \A t \in Tabs : Op(t) = Idle /\ tab[t].result = Nothing
    BY DEF KeyInit, Op
  <1>3. \A t \in Tabs : Grounded(t, Op(t)) /\ Told(tab[t].result)
    BY <1>2, IdleFacts DEF Grounded, Told
  <1>4. OneOwner /\ RecordSound /\ EvidenceKept
    BY <1>2, IdleFacts DEF OneOwner, RecordSound, EvidenceKept, KeyInit
  <1>5. QED
    BY <1>1, <1>3, <1>4 DEF KeyInv

LEMMA KeyEnvironment == ASSUME KeyInv, PendingChanges \/ Expire \/ UNCHANGED keyVars PROVE KeyInv'
  <1>1. UNCHANGED <<stored, tab, minted, wallet>>
    BY DEF PendingChanges, Expire, keyVars
  <1>2. pending' \in Devices \cup {MaxDevices + 1} /\ windowOpen' \in BOOLEAN
    <2>1. ASSUME NEW n \in Devices
          PROVE  n + 1 \in Devices \cup {MaxDevices + 1}
      BY KeyBounds DEF Devices
    <2>2. pending' = pending \/ (pending \in Devices /\ pending' = pending + 1)
      BY DEF PendingChanges, Expire, keyVars
    <2>3. windowOpen' \in BOOLEAN
      BY DEF PendingChanges, Expire, keyVars, KeyInv, KeyTypeOK
    <2>4. pending \in Devices \cup {MaxDevices + 1}
      BY DEF KeyInv, KeyTypeOK
    <2>5. QED
      BY <2>1, <2>2, <2>3, <2>4
  <1>3. KeyTypeOK'
    BY <1>1, <1>2 DEF KeyInv, KeyTypeOK
  <1>4. \A t \in Tabs : Grounded(t, Op(t))' /\ Told(tab[t].result)'
    BY <1>1 DEF KeyInv, Grounded, Told, Op
  <1>5. OneOwner' /\ RecordSound' /\ EvidenceKept'
    BY <1>1 DEF KeyInv, OneOwner, RecordSound, EvidenceKept, Op, At
  <1>6. QED
    BY <1>3, <1>4, <1>5 DEF KeyInv

LEMMA KeyInvStep == ASSUME KeyInv, [KeyNext]_keyVars PROVE KeyInv'
  <1>1. ASSUME NEW t \in Tabs, TabStep(t)
        PROVE  KeyInv'
    BY <1>1, KeyPrepare, KeyCreate, KeyProof, KeyApproveBegin, KeyReadAttempt, KeyClaim, KeyClaimed,
       KeyPrompt, KeyPersist, KeyPersisted, KeyCancel DEF TabStep
  <1>2. ASSUME NEW t \in Tabs, WalletRefuses(t)
        PROVE  KeyInv'
    BY <1>2, QuietFail DEF WalletRefuses, At
  <1>3. ASSUME NEW t \in Tabs, Environment(t)
        PROVE  KeyInv'
    BY <1>2, <1>3, KeyWalletSigns, KeyLost, KeyCancel DEF Environment
  <1>4. QED
    BY <1>1, <1>3, KeyEnvironment DEF KeyNext

-----------------------------------------------------------------------------
(* Steps of the key of an accepted device.                                 *)

\* A tab goes on and the record stays.
LEMMA UserStep ==
  ASSUME AcceptedInv, NEW u \in Users, NEW entry \in UserTypes, user' = [user EXCEPT ![u] = entry],
         UserInv(entry), UNCHANGED <<record, binding, access>>, pairs' \in Nat
  PROVE  AcceptedInv'
  <1>1. user' \in [Users -> UserTypes] /\ \A v \in Users : user'[v] \in {user[v], entry}
    BY DEF AcceptedInv
  <1>2. \A v \in Users : UserInv(user'[v])
    BY <1>1 DEF AcceptedInv
  <1>3. \A v \in Users : UserInv(user[v])'
    BY <1>2 DEF UserInv
  <1>4. QED
    BY <1>1, <1>3 DEF AcceptedInv

LEMMA UserGoes ==
  ASSUME AcceptedInv, NEW u \in Users, NEW op \in {user[u].op, Quiet} \cup UserOps,
         Go(u, op), UNCHANGED <<record, binding, access>>, pairs' \in Nat,
         op = user[u].op \/ op = Quiet \/ UserInv([op |-> op, told |-> user[u].told])
  PROVE  AcceptedInv'
  <1>1. user[u] \in UserTypes /\ UserInv(user[u])
    BY DEF AcceptedInv
  <1>2. op \in UserOps
    BY <1>1 DEF UserTypes, Quiet, UserOps
  <1>3. PICK entry : entry = [user[u] EXCEPT !.op = op]
    OBVIOUS
  <1>4. entry \in UserTypes /\ entry.op = op /\ entry.told = user[u].told
    BY <1>1, <1>2, <1>3 DEF UserTypes
  <1>5. user' = [user EXCEPT ![u] = entry]
    BY <1>3 DEF Go, AcceptedInv
  <1>6. UserInv(entry)
    BY <1>1, <1>4 DEF UserInv, Quiet, Matched
  <1>7. QED
    BY <1>4, <1>5, <1>6, UserStep

LEMMA UserTold ==
  ASSUME AcceptedInv, NEW u \in Users, NEW form \in {"public", "proof"}, NEW key \in Nat, Give(u, form, key),
         UNCHANGED <<record, binding, access>>, pairs' \in Nat,
         record # NoRecord, key = record.key, form = "proof" => user[u].op.at = record.binding
  PROVE  AcceptedInv'
  <1>1. PICK entry : entry = [op |-> Quiet, told |-> [kind |-> form, key |-> key, at |-> user[u].op.at]]
    OBVIOUS
  <1>2. entry \in UserTypes /\ UserInv(entry)
    BY <1>1 DEF UserTypes, UserInv, Quiet, AcceptedInv, UserOps, Matched
  <1>3. QED
    BY <1>1, <1>2, UserStep DEF Give, Doing

LEMMA UserBegins ==
  ASSUME AcceptedInv, NEW u \in Users, NEW op \in [step : {"idle", "prepare", "proof"},
           subject : Subjects \cup {"none"}, binding : Nat, key : Nat, at : Nat],
         op.step # "idle" => op.subject \in Subjects /\ op.binding <= binding[op.subject],
         user' = [user EXCEPT ![u] = [op |-> op, told |-> Silent]],
         UNCHANGED <<record, binding, access, pairs>>
  PROVE  AcceptedInv'
  <1>1. PICK entry : entry = [op |-> op, told |-> Silent]
    OBVIOUS
  <1>2. entry \in UserTypes /\ UserInv(entry)
    BY <1>1 DEF UserTypes, UserInv, Silent, UserOps, Matched
  <1>3. QED
    BY <1>1, <1>2, UserStep DEF AcceptedInv

LEMMA AcceptedInvStep ==
  ASSUME AcceptedInv, [AcceptedNext]_acceptedVars
  PROVE  AcceptedInv'
  <1>1. ASSUME NEW u \in Users, NEW step \in {"prepare", "proof"}, NEW key \in Nat, Start(u, step, key)
        PROVE  AcceptedInv'
    <2>1. PICK op : op = [step |-> step, subject |-> access[u], binding |-> binding[access[u]],
                          key |-> key, at |-> 0]
      OBVIOUS
    <2>2. /\ op \in [step : {"idle", "prepare", "proof"},
                     subject : Subjects \cup {"none"}, binding : Nat, key : Nat, at : Nat]
          /\ op.subject \in Subjects /\ op.binding <= binding[op.subject]
      BY <1>1, <2>1 DEF AcceptedInv, Start
    <2>3. user' = [user EXCEPT ![u] = [op |-> op, told |-> Silent]] /\ UNCHANGED <<record, binding, access, pairs>>
      BY <1>1, <2>1 DEF Start
    <2>4. QED
      BY <2>2, <2>3, UserBegins
  <1>2. ASSUME NEW u \in Users, UserReloads(u)
        PROVE  AcceptedInv'
    <2>1. Quiet.step = "idle" /\
          Quiet \in [step : {"idle", "prepare", "proof"},
                     subject : Subjects \cup {"none"}, binding : Nat, key : Nat, at : Nat]
      BY DEF Quiet
    <2>2. QED
      BY <1>2, <2>1, UserBegins DEF UserReloads
  <1>3. ASSUME NEW u \in Users, GiveUp(u), UNCHANGED <<record, binding, access, pairs>>
        PROVE  AcceptedInv'
    BY <1>3, UserGoes DEF GiveUp, Quiet, AcceptedInv
  <1>4. ASSUME NEW u \in Users
        PROVE  /\ user[u].op \in UserOps /\ UserInv(user[u])
               /\ record # NoRecord => record \in AcceptedRecords
    BY DEF AcceptedInv, UserTypes
  <1>5. ASSUME NEW u \in Users, ReadRecord(u)
        PROVE  AcceptedInv'
    <2>1. CASE ~SameSubject(u) \/ (record # NoRecord /\ ~Matching(u))
      BY <1>3, <1>5, <2>1 DEF ReadRecord
    <2>2. CASE SameSubject(u) /\ record # NoRecord /\ Matching(u)
      <3>1. record.key \in Nat
        BY <1>4, <2>2 DEF AcceptedRecords
      <3>2. Give(u, "public", record.key) /\ UNCHANGED <<record, binding, access, pairs>>
        BY <1>5, <2>2 DEF ReadRecord
      <3>3. QED
        BY <2>2, <3>1, <3>2, UserTold DEF AcceptedInv
    <2>3. CASE SameSubject(u) /\ record = NoRecord
      <3>1. pairs' = pairs + 1 /\ UNCHANGED <<record, binding, access>>
            /\ Go(u, [Doing(u) EXCEPT !.step = "add", !.key = pairs'])
        BY <1>5, <2>3 DEF ReadRecord
      <3>2. PICK op : op = [user[u].op EXCEPT !.step = "add", !.key = pairs']
        OBVIOUS
      <3>3. pairs' \in Nat
        BY <3>1 DEF AcceptedInv
      <3>4. /\ op.step = "add" /\ op \in UserOps
            /\ op.subject = user[u].op.subject /\ op.binding = user[u].op.binding
        BY <1>4, <3>2, <3>3 DEF UserOps
      <3>5. UserInv([op |-> op, told |-> user[u].told])
        BY <1>4, <1>5, <3>4 DEF UserInv, Matched, ReadRecord, In, Doing
      <3>6. QED
        BY <3>1, <3>2, <3>3, <3>4, <3>5, UserGoes DEF Doing
    <2>4. QED
      BY <2>1, <2>2, <2>3
  <1>6. ASSUME NEW u \in Users, AddRecord(u)
        PROVE  AcceptedInv'
    <2>1. PICK op : op = [user[u].op EXCEPT !.step = "added"]
      OBVIOUS
    <2>2. /\ op.step = "added" /\ op \in UserOps /\ user[u].op.step = "add"
          /\ op.subject = user[u].op.subject /\ op.binding = user[u].op.binding
      BY <1>4, <1>6, <2>1 DEF UserOps, AddRecord, In, Doing
    <2>3. PICK entry : entry = [user[u] EXCEPT !.op = op]
      OBVIOUS
    <2>4. entry \in UserTypes /\ entry.op = op /\ entry.told = user[u].told /\ user[u] \in UserTypes
      BY <2>2, <2>3 DEF UserTypes, AcceptedInv
    <2>5. user' = [user EXCEPT ![u] = entry] /\ UNCHANGED <<binding, access, pairs>>
      BY <1>6, <2>1, <2>3 DEF AddRecord, Go, Doing, AcceptedInv
    <2>6. CASE UNCHANGED record
      <3>1. UserInv(entry)
        BY <1>4, <2>2, <2>4 DEF UserInv, Matched
      <3>2. QED
        BY <2>4, <2>5, <2>6, <3>1, UserStep DEF AcceptedInv
    <2>7. CASE /\ record = NoRecord
               /\ record' = [subject |-> Doing(u).subject, binding |-> Doing(u).binding, key |-> Doing(u).key]
      <3>1. \A v \in Users : user[v].told.kind = "nothing" /\ user[v].op.step \notin Matched
        BY <2>7 DEF AcceptedInv, UserInv
      <3>2. user' \in [Users -> UserTypes] /\ \A v \in Users : user'[v] \in {user[v], entry}
        BY <2>4, <2>5 DEF AcceptedInv
      <3>3. \A v \in Users : user'[v].told.kind = "nothing" /\ user'[v].op.step \notin Matched
        BY <2>2, <2>4, <3>1, <3>2 DEF Matched
      <3>4. record' \in {NoRecord} \cup AcceptedRecords
        BY <1>4, <2>7 DEF Doing, UserOps, AcceptedRecords
      <3>5. \A v \in Users : user'[v].op.step # "idle" =>
               user'[v].op.subject \in Subjects /\ user'[v].op.binding <= binding[user'[v].op.subject]
        BY <1>4, <2>2, <2>4, <3>2 DEF UserInv
      <3>6. \A v \in Users : UserInv(user[v])'
        BY <2>5, <3>3, <3>5 DEF UserInv, Matched
      <3>7. QED
        BY <2>5, <3>2, <3>4, <3>6 DEF AcceptedInv
    <2>8. QED
      BY <1>6, <2>6, <2>7 DEF AddRecord
  <1>7. ASSUME NEW u \in Users, ReadBack(u)
        PROVE  AcceptedInv'
    <2>1. CASE SameSubject(u) /\ Matching(u)
      <3>1. record # NoRecord /\ record.key \in Nat
        BY <1>4, <2>1 DEF Matching, AcceptedRecords
      <3>2. Give(u, "public", record.key) /\ UNCHANGED <<record, binding, access, pairs>>
        BY <1>7, <2>1 DEF ReadBack
      <3>3. QED
        BY <3>1, <3>2, UserTold DEF AcceptedInv
    <2>2. CASE ~(SameSubject(u) /\ Matching(u))
      BY <1>3, <1>7, <2>2 DEF ReadBack
    <2>3. QED
      BY <2>1, <2>2
  \* A step of a proof that goes on.
  <1>8. ASSUME NEW u \in Users, NEW op \in UserOps, Go(u, op),
               UNCHANGED <<record, binding, access, pairs>>,
               op.step \in Matched, op.key = record.key, record # NoRecord, op.subject \in Subjects,
               op.binding <= binding[op.subject], record.binding <= binding[op.subject],
               op.step # "matched" => record.binding <= op.at /\ op.at <= binding[op.subject],
               op.step = "reread" => op.at <= op.binding
        PROVE  AcceptedInv'
    <2>1. UserInv([op |-> op, told |-> user[u].told])
      BY <1>4, <1>8 DEF UserInv, Matched
    <2>2. QED
      BY <1>8, <2>1, UserGoes DEF AcceptedInv
  <1>9. ASSUME NEW u \in Users, MatchRecord(u)
        PROVE  AcceptedInv'
    <2>1. CASE SameSubject(u) /\ Matching(u) /\ record.key = Doing(u).key
      <3>1. PICK op : op = [user[u].op EXCEPT !.step = "matched"]
        OBVIOUS
      <3>2. /\ op.step = "matched" /\ op.key = user[u].op.key /\ op.subject = user[u].op.subject
            /\ op.binding = user[u].op.binding /\ op \in UserOps
        BY <1>4, <3>1 DEF UserOps, Matched
      <3>3. Go(u, op) /\ UNCHANGED <<record, binding, access, pairs>> /\ user[u].op.step = "proof"
        BY <1>9, <2>1, <3>1 DEF MatchRecord, Doing, In
      <3>4. record # NoRecord /\ record.key = op.key /\ record.binding = op.binding
        BY <2>1, <3>2 DEF Matching, Doing
      <3>5. op.subject \in Subjects /\ op.binding <= binding[op.subject]
        BY <1>4, <3>2, <3>3 DEF UserInv
      <3>6. QED
        BY <1>8, <3>2, <3>3, <3>4, <3>5 DEF Matched
    <2>2. CASE ~(SameSubject(u) /\ Matching(u) /\ record.key = Doing(u).key)
      BY <1>3, <1>9, <2>2 DEF MatchRecord
    <2>3. QED
      BY <2>1, <2>2
  <1>10. ASSUME NEW u \in Users, SignProof(u)
         PROVE  AcceptedInv'
    <2>1. CASE SameSubject(u)
      <3>1. PICK op : op = [user[u].op EXCEPT !.step = "signed", !.at = binding[user[u].op.subject]]
        OBVIOUS
      <3>2. Go(u, op) /\ UNCHANGED <<record, binding, access, pairs>> /\ user[u].op.step = "matched"
        BY <1>10, <2>1, <3>1 DEF SignProof, Doing, In
      <3>3. /\ user[u].op.subject \in Subjects /\ user[u].op.binding <= binding[user[u].op.subject]
            /\ record # NoRecord /\ record.key = user[u].op.key
            /\ record.binding <= binding[user[u].op.subject]
            /\ binding[user[u].op.subject] \in Nat
        BY <1>4, <3>2 DEF UserInv, Matched, AcceptedInv
      <3>4. /\ op.step = "signed" /\ op.key = user[u].op.key /\ op.subject = user[u].op.subject
            /\ op.binding = user[u].op.binding /\ op.at = binding[user[u].op.subject] /\ op \in UserOps
        BY <1>4, <3>1, <3>3 DEF UserOps, Matched
      <3>5. QED
        BY <1>8, <3>2, <3>3, <3>4 DEF Matched
    <2>2. CASE ~SameSubject(u)
      BY <1>3, <1>10, <2>2 DEF SignProof
    <2>3. QED
      BY <2>1, <2>2
  <1>11. ASSUME NEW u \in Users, RereadBinding(u)
         PROVE  AcceptedInv'
    <2>1. CASE Go(u, [Doing(u) EXCEPT !.step = "reread", !.binding = binding[Doing(u).subject]])
      <3>1. PICK op : op = [user[u].op EXCEPT !.step = "reread", !.binding = binding[user[u].op.subject]]
        OBVIOUS
      <3>2. Go(u, op) /\ UNCHANGED <<record, binding, access, pairs>> /\ user[u].op.step = "signed"
        BY <1>11, <2>1, <3>1 DEF RereadBinding, Doing, In
      <3>3. /\ user[u].op.subject \in Subjects /\ record # NoRecord /\ record.key = user[u].op.key
            /\ record.binding <= user[u].op.at /\ user[u].op.at <= binding[user[u].op.subject]
            /\ record.binding <= binding[user[u].op.subject]
            /\ binding[user[u].op.subject] \in Nat
        BY <1>4, <3>2 DEF UserInv, Matched, AcceptedInv
      <3>4. /\ op.step = "reread" /\ op.key = user[u].op.key /\ op.subject = user[u].op.subject
            /\ op.binding = binding[user[u].op.subject] /\ op.at = user[u].op.at /\ op \in UserOps
        BY <1>4, <3>1, <3>3 DEF UserOps, Matched
      <3>5. QED
        BY <1>8, <3>2, <3>3, <3>4 DEF Matched
    <2>2. CASE GiveUp(u)
      BY <1>3, <1>11, <2>2 DEF RereadBinding
    <2>3. QED
      BY <1>11, <2>1, <2>2 DEF RereadBinding
  <1>12. ASSUME NEW u \in Users, FinishProof(u)
         PROVE  AcceptedInv'
    <2>1. CASE /\ SameSubject(u) /\ Matching(u) /\ record.key = Doing(u).key
               /\ Give(u, "proof", Doing(u).key)
      <3>1. /\ record # NoRecord /\ record.key = user[u].op.key /\ record.binding = user[u].op.binding
            /\ user[u].op.step = "reread"
        BY <1>12, <2>1 DEF FinishProof, In, Matching, Doing
      <3>2. /\ record.binding <= user[u].op.at /\ user[u].op.at <= user[u].op.binding
            /\ record.key \in Nat /\ record.binding \in Nat /\ user[u].op.at \in Nat
        BY <1>4, <3>1 DEF UserInv, UserOps, AcceptedRecords
      <3>3. user[u].op.at = record.binding
        BY <3>1, <3>2
      <3>4. Give(u, "proof", record.key) /\ UNCHANGED <<record, binding, access, pairs>>
        BY <1>12, <2>1, <3>1 DEF FinishProof
      <3>5. QED
        BY <3>1, <3>2, <3>3, <3>4, UserTold DEF AcceptedInv
    <2>2. CASE GiveUp(u)
      BY <1>3, <1>12, <2>2 DEF FinishProof
    <2>3. QED
      BY <1>12, <2>1, <2>2 DEF FinishProof
  <1>13. CASE BindingChanges \/ (\E u \in Users : SubjectChanges(u)) \/ UNCHANGED acceptedVars
    <2>1. UNCHANGED <<record, user, pairs>>
      BY <1>13 DEF BindingChanges, SubjectChanges, acceptedVars
    <2>2. /\ binding' \in [Subjects -> Nat] /\ access' \in [Users -> Subjects \cup {"none"}]
          /\ \A s \in Subjects : binding[s] \in Nat /\ binding'[s] \in Nat /\ binding[s] <= binding'[s]
      BY <1>13 DEF BindingChanges, SubjectChanges, acceptedVars, AcceptedInv
    <2>3. ASSUME NEW u \in Users
          PROVE  UserInv(user[u])'
      <3>1. /\ user[u].op.binding \in Nat /\ user[u].op.at \in Nat
            /\ record # NoRecord => record.binding \in Nat
        BY <1>4 DEF UserOps, AcceptedRecords
      <3>2. user'[u] = user[u] /\ record' = record /\ UserInv(user[u])
        BY <1>4, <2>1
      <3>3. QED
        BY <2>2, <3>1, <3>2 DEF UserInv, Matched
    <2>4. QED
      BY <2>1, <2>2, <2>3 DEF AcceptedInv
  <1>14. ASSUME NEW u \in Users, StartPrepare(u) \/ StartProof(u)
         PROVE  AcceptedInv'
    BY <1>1, <1>14 DEF StartPrepare, StartProof, AcceptedInv
  <1>15. QED
    BY <1>2, <1>5, <1>6, <1>7, <1>9, <1>10, <1>11, <1>12, <1>13, <1>14 DEF AcceptedNext

LEMMA AcceptedStart == AcceptedInit => AcceptedInv
  BY DEF AcceptedInit, AcceptedInv, UserTypes, UserInv, Quiet, Silent, NoRecord, UserOps, Matched

-----------------------------------------------------------------------------
(* Steps of the pairing of a phone.                                        *)

LEMMA RealKeys == (\A key \in PhoneKeys : key # NoKey) /\ NoKey \in SomeKey
  BY DEF PhoneKeys, NoKey, SomeKey

LEMMA CallFacts == NoCall \in Calls /\ NoCall.kind = "none" /\ NoCall.answer = "none"
  BY DEF NoCall, Calls, SomeKey

LEMMA StartFacts ==
  /\ PhoneStart \in Pages /\ PhoneStart.op = "idle" /\ PhoneStart.call = NoCall
  /\ PhoneStart.pending.source = NoKey
  /\ DesktopStart \in Desktops /\ DesktopStart.step = "idle" /\ DesktopStart.call = NoCall
  /\ DesktopStart.created = FALSE /\ DesktopStart.approval = "none"
  /\ DesktopStart.parsed = NoKey /\ DesktopStart.retry = NoKey
  <1>1. NoPending \in Pendings /\ NoPending.source = NoKey
    BY RealKeys DEF NoPending, Pendings
  <1>2. PhoneStart \in Pages
    BY <1>1, RealKeys, CallFacts DEF PhoneStart, Pages, PhoneOps
  <1>3. DesktopStart \in Desktops
    BY RealKeys, CallFacts DEF DesktopStart, Desktops
  <1>4. QED
    BY <1>1, <1>2, <1>3 DEF PhoneStart, DesktopStart

\* What the disk of a phone holds is a key of that phone.
LEMMA DiskKept ==
  ASSUME PairInv, NEW p \in Phones, phone[p].disk # NoKey
  PROVE  Kept(phone[p].disk) /\ phone[p].disk.phone = p
  BY DEF PairInv, PairTypeOK, PhoneEntries, SomeKey, Kept, PageSound

\* A phone goes on; a request it no longer waits for may be carried out later.
LEMMA PhoneStep ==
  ASSUME PairInv, NEW p \in Phones, NEW entry \in PhoneEntries,
         phone' = [phone EXCEPT ![p] = entry], UNCHANGED <<desktop, retries, pairing, human>>,
         PageSound(p, entry),
         entry.disk = phone[p].disk \/ phone[p].disk = NoKey \/ pairing.status = "cancelled",
         late' \subseteq Calls,
         \A call \in late' : call \in late \/ (call.kind = "qrScan" /\ Kept(call.source))
  PROVE  PairInv'
  <1>1. phone' \in [Phones -> PhoneEntries] /\ phone'[p] = entry
        /\ \A q \in Phones : q # p => phone'[q] = phone[q]
    BY DEF PairInv, PairTypeOK
  <1>2. PairTypeOK'
    BY <1>1 DEF PairInv, PairTypeOK
  <1>3. \A q \in Phones : PageSound(q, phone[q])'
    <2>1. \A q \in Phones : PageSound(q, phone'[q])
      BY <1>1 DEF PairInv
    <2>2. QED
      BY <2>1 DEF PageSound
  <1>4. ASSUME NEW key, Kept(key), pairing.status # "cancelled"
        PROVE  Kept(key)'
    <2>1. key \in PhoneKeys /\ key.phone \in Phones /\ phone[key.phone].disk = key
      BY <1>4 DEF Kept, PhoneKeys
    <2>2. key # NoKey
      BY <2>1, RealKeys
    <2>3. phone'[key.phone].disk = key
      BY <1>1, <1>4, <2>1, <2>2
    <2>4. QED
      BY <2>1, <2>3 DEF Kept
  <1>5. LateSound'
    BY <1>4 DEF PairInv, LateSound
  <1>6. SourceSound'
    BY <1>4 DEF PairInv, SourceSound
  <1>7. ApprovalOnce'
    <2>1. Approved' => Approved
      BY DEF Approved, Asking
    <2>2. QED
      BY <2>1 DEF PairInv, ApprovalOnce, Creator
  <1>8. PromptOnce' /\ DesktopSound'
    BY DEF PairInv, PromptOnce, DesktopSound
  <1>9. QED
    BY <1>2, <1>3, <1>5, <1>6, <1>7, <1>8 DEF PairInv

\* The page alone goes on.
LEMMA PageStep ==
  ASSUME PairInv, NEW p \in Phones, NEW page \in Pages, Become(p, page),
         UNCHANGED <<desktop, retries, pairing, human>>,
         PageSound(p, [phone[p] EXCEPT !.page = page]),
         late' = late \/ Lost(Page(p).call)
  PROVE  PairInv'
  <1>1. PICK entry : entry = [phone[p] EXCEPT !.page = page]
    OBVIOUS
  <1>2. phone[p] \in PhoneEntries /\ PageSound(p, phone[p])
    BY DEF PairInv, PairTypeOK
  <1>3. entry \in PhoneEntries /\ entry.disk = phone[p].disk
    BY <1>1, <1>2 DEF PhoneEntries
  <1>4. phone' = [phone EXCEPT ![p] = entry]
    BY <1>1 DEF Become, PairInv, PairTypeOK
  <1>5. late' \subseteq Calls /\ \A call \in late' : call \in late \/ (call.kind = "qrScan" /\ Kept(call.source))
    <2>1. CASE late' = late
      BY <2>1 DEF PairInv, PairTypeOK
    <2>2. ASSUME late' # late, Lost(Page(p).call)
          PROVE  /\ late' \subseteq Calls
                 /\ \A call \in late' : call \in late \/ (call.kind = "qrScan" /\ Kept(call.source))
      <3>1. PICK lost \in Calls : lost = Page(p).call
        BY <1>2 DEF PhoneEntries, Pages, Page
      <3>2. /\ lost.answer = "waiting" /\ lost.kind \notin {"qrOffer", "qrSnapshot", "phoneRecover"}
            /\ late' = late \cup {lost}
        BY <2>2, <3>1 DEF Lost
      <3>3. lost.kind = "qrScan"
        BY <1>2, <3>1, <3>2 DEF PageSound, Page
      <3>4. lost.source = phone[p].disk /\ phone[p].disk # NoKey
        BY <1>2, <3>1, <3>3 DEF PageSound, Page
      <3>5. Kept(lost.source)
        BY <3>4, DiskKept
      <3>6. QED
        BY <3>2, <3>3, <3>5 DEF PairInv, PairTypeOK
    <2>3. QED
      BY <2>1, <2>2
  <1>6. PageSound(p, entry)
    BY <1>1
  <1>7. QED
    BY <1>3, <1>4, <1>5, <1>6, PhoneStep

\* The page, the disk and the proposal a phone starts from.
LEMMA PageTyped ==
  ASSUME PairInv, NEW p \in Phones
  PROVE  /\ phone[p] \in PhoneEntries /\ Page(p) \in Pages /\ Page(p).call \in Calls
         /\ Page(p).pending \in Pendings /\ Page(p).pending.source \in SomeKey
         /\ PageSound(p, phone[p]) /\ Page(p) = phone[p].page
  BY DEF PairInv, PairTypeOK, PhoneEntries, Pages, Pendings, Page

\* What a page may become: it keeps what it proposes, or drops it.
LEMMA PageGoesOn ==
  ASSUME PairInv, NEW p \in Phones, NEW page \in Pages, Become(p, page),
         UNCHANGED <<desktop, retries, pairing, human>>, late' = late \/ Lost(Page(p).call),
         page.pending.source \in {NoKey, phone[p].disk},
         page.op = "create" => phone[p].disk = NoKey,
         page.op = "source" => phone[p].disk # NoKey /\ page.pending.keyIdentity = phone[p].disk,
         \/ page.call = NoCall
         \/ page.call = Page(p).call /\ page.pending.source = Page(p).pending.source
         \/ /\ page.call.kind \in {"qrOffer", "qrScan", "phoneRecover"}
            /\ page.call.answer # "cancelled"
            /\ page.call.kind = "qrScan" =>
                 page.pending.source # NoKey /\ page.call.source = page.pending.source,
         page.op = "cleanup" => page.call.kind = "phoneRecover"
  PROVE  PairInv'
  <1>1. PICK entry : entry = [phone[p] EXCEPT !.page = page]
    OBVIOUS
  <1>2. phone[p] \in PhoneEntries /\ PageSound(p, phone[p]) /\ Page(p) = phone[p].page
    BY PageTyped
  <1>3. entry.page = page /\ entry.disk = phone[p].disk
    BY <1>1, <1>2 DEF PhoneEntries
  <1>4. /\ page.call.kind \in {"none", "qrOffer", "qrScan", "phoneRecover"}
        /\ page.call.kind = "none" => page.call.answer = "none"
        /\ page.call.kind = "qrScan" =>
             page.pending.source # NoKey /\ page.call.source = page.pending.source
        /\ page.call.kind = "phoneRecover" /\ page.call.answer = "cancelled" =>
             pairing.status = "cancelled"
    BY <1>2, CallFacts DEF PageSound
  <1>5. PageSound(p, entry)
    BY <1>2, <1>3, <1>4 DEF PageSound
  <1>6. QED
    BY <1>1, <1>5, PageStep

\* An operation is over, or another one begins with a request.
LEMMA PhoneTurns ==
  ASSUME PairInv, NEW p \in Phones, NEW op \in PhoneOps \ {"create", "source"}, NEW call \in Calls,
         Become(p, [Page(p) EXCEPT !.op = op, !.call = call]),
         UNCHANGED <<desktop, retries, pairing, human>>, late' = late \/ Lost(Page(p).call),
         op = "cleanup" => call.kind = "phoneRecover",
         \/ call = NoCall
         \/ /\ call.kind \in {"qrOffer", "qrScan", "phoneRecover"} /\ call.answer # "cancelled"
            /\ call.kind = "qrScan" =>
                 Page(p).pending.source # NoKey /\ call.source = Page(p).pending.source
  PROVE  PairInv'
  <1>1. PICK page : page = [Page(p) EXCEPT !.op = op, !.call = call]
    OBVIOUS
  <1>2. Page(p) \in Pages /\ PageSound(p, phone[p]) /\ Page(p) = phone[p].page
    BY PageTyped
  <1>3. page \in Pages /\ page.op = op /\ page.call = call /\ page.pending = Page(p).pending
    <2>1. PICK old \in Pages : old = Page(p)
      BY <1>2
    <2>2. page = [old EXCEPT !.op = op, !.call = call] /\ op \in PhoneOps
      BY <1>1, <2>1
    <2>3. QED
      BY <2>1, <2>2 DEF Pages
  <1>4. page.pending.source \in {NoKey, phone[p].disk}
    BY <1>2, <1>3 DEF PageSound
  <1>5. Become(p, page)
    BY <1>1
  <1>6. page.op # "create" /\ page.op # "source"
    BY <1>3
  <1>7. QED
    BY <1>3, <1>4, <1>5, <1>6, PageGoesOn

LEMMA PhoneOver ==
  ASSUME PairInv, NEW p \in Phones, Over(p), UNCHANGED <<desktop, retries, pairing, human>>,
         late' = late \/ Lost(Page(p).call)
  PROVE  PairInv'
  <1>1. "idle" \in PhoneOps \ {"create", "source"}
    BY DEF PhoneOps
  <1>2. Become(p, [Page(p) EXCEPT !.op = "idle", !.call = NoCall])
    BY DEF Over
  <1>3. QED
    BY <1>1, <1>2, CallFacts, PhoneTurns

LEMMA AskTyped ==
  ASSUME NEW sort \in {"qrCreate", "qrOffer", "qrSnapshot", "qrScan", "qrClaim", "qrAccept", "qrClose",
                       "phoneRecover"}, NEW source \in SomeKey
  PROVE  /\ Ask(sort, source) \in Calls /\ Ask(sort, source).kind = sort
         /\ Ask(sort, source).source = source /\ Ask(sort, source).answer = "waiting"
  BY DEF Ask, Calls

LEMMA PhoneScanBegin == ASSUME PairInv, NEW p \in Phones, ScanBegin(p) \/ CleanupBegin(p) PROVE PairInv'
  <1>1. ASSUME NEW op \in PhoneOps \ {"create", "source"}, NEW call \in Calls, Run(p, op, call),
               op = "cleanup" => call.kind = "phoneRecover",
               \/ call = NoCall
               \/ /\ call.kind \in {"qrOffer", "qrScan", "phoneRecover"} /\ call.answer # "cancelled"
                  /\ call.kind = "qrScan" =>
                       Page(p).pending.source # NoKey /\ call.source = Page(p).pending.source
        PROVE  PairInv'
    BY <1>1, PhoneTurns DEF Run, rest
  <1>2. Page(p).pending.source \in SomeKey
    BY PageTyped
  <1>3. CASE CleanupBegin(p)
    BY <1>1, <1>2, <1>3, AskTyped DEF CleanupBegin, PhoneOps
  <1>4. CASE ScanBegin(p)
    <2>1. CASE ~Page(p).pending.offer
      BY <1>1, <1>4, <2>1, AskTyped, RealKeys DEF ScanBegin, PhoneOps
    <2>2. CASE Page(p).pending.offer /\ Page(p).pending.source = NoKey
      BY <1>1, <1>4, <2>2, CallFacts DEF ScanBegin, PhoneOps
    <2>3. CASE Page(p).pending.offer /\ Page(p).pending.source # NoKey
      <3>1. Run(p, "scan", Ask("qrScan", Page(p).pending.source))
        BY <1>4, <2>3 DEF ScanBegin
      <3>2. QED
        BY <1>1, <1>2, <2>3, <3>1, AskTyped DEF PhoneOps
    <2>4. QED
      BY <2>1, <2>2, <2>3
  <1>5. QED
    BY <1>3, <1>4

LEMMA PhoneOffered == ASSUME PairInv, NEW p \in Phones, Offered(p) PROVE PairInv'
  <1>1. Answered(p, "offer") /\ UNCHANGED <<desktop, retries, pairing, human, late>>
    BY DEF Offered, rest
  <1>2. CASE ~Good(p)
    BY <1>1, <1>2, PhoneOver DEF Offered
  <1>3. CASE Good(p)
    <2>1. PICK page : page = [Page(p) EXCEPT !.op = "key", !.call = NoCall, !.pending.offer = TRUE]
      OBVIOUS
    <2>2. PICK old \in Pages : old = Page(p)
      BY PageTyped
    <2>3. PICK pend : pend = [old.pending EXCEPT !.offer = TRUE]
      OBVIOUS
    <2>4. pend \in Pendings /\ pend.source = old.pending.source
      BY <2>3 DEF Pages, Pendings
    <2>5. page = [old EXCEPT !.op = "key", !.call = NoCall, !.pending = pend]
      BY <2>1, <2>2, <2>3 DEF Pages
    <2>6. page \in Pages /\ page.op = "key" /\ page.call = NoCall /\ page.pending.source = old.pending.source
      BY <2>4, <2>5, CallFacts DEF Pages, PhoneOps
    <2>7. page.pending.source \in {NoKey, phone[p].disk}
      BY <2>2, <2>6, PageTyped DEF PageSound
    <2>8. Become(p, page)
      BY <1>3, <2>1 DEF Offered
    <2>9. QED
      BY <1>1, <2>6, <2>7, <2>8, PageGoesOn
  <1>4. QED
    BY <1>2, <1>3

LEMMA PhoneFindKey == ASSUME PairInv, NEW p \in Phones, FindKey(p) PROVE PairInv'
  <1>1. Page(p).op = "key" /\ UNCHANGED <<desktop, retries, pairing, human, late>>
    BY DEF FindKey, rest
  <1>2. PICK old \in Pages : old = Page(p)
    BY PageTyped
  <1>3. old.pending.source \in {NoKey, phone[p].disk}
    BY <1>2, PageTyped DEF PageSound
  <1>4. ASSUME NEW page \in Pages, Become(p, page), page.call = old.call,
               page.pending.source = old.pending.source,
               page.op \in {"idle", "create", "source"},
               page.op = "create" => phone[p].disk = NoKey,
               page.op = "source" => phone[p].disk # NoKey /\ page.pending.keyIdentity = phone[p].disk
        PROVE  PairInv'
    BY <1>1, <1>2, <1>3, <1>4, PageGoesOn
  <1>5. CASE Over(p)
    BY <1>1, <1>5, PhoneOver
  <1>6. CASE /\ phone[p].disk # NoKey /\ Page(p).pending.keyIdentity = NoKey
             /\ Become(p, [Page(p) EXCEPT !.op = "idle", !.pending.proofLoss = TRUE])
    <2>1. PICK page : page = [old EXCEPT !.op = "idle", !.pending.proofLoss = TRUE]
      OBVIOUS
    <2>2. PICK pend : pend = [old.pending EXCEPT !.proofLoss = TRUE]
      OBVIOUS
    <2>3. pend \in Pendings /\ pend.source = old.pending.source
      BY <2>2 DEF Pages, Pendings
    <2>4. page = [old EXCEPT !.op = "idle", !.pending = pend]
      BY <2>1, <2>2 DEF Pages
    <2>5. page \in Pages /\ page.op = "idle" /\ page.call = old.call /\ page.pending.source = old.pending.source
      BY <2>3, <2>4 DEF Pages, PhoneOps
    <2>6. QED
      BY <1>2, <1>4, <1>6, <2>1, <2>5
  <1>7. CASE phone[p].disk = NoKey /\ Become(p, [Page(p) EXCEPT !.op = "create"])
    <2>1. PICK page : page = [old EXCEPT !.op = "create"]
      OBVIOUS
    <2>2. page \in Pages /\ page.op = "create" /\ page.call = old.call /\ page.pending = old.pending
      BY <2>1 DEF Pages, PhoneOps
    <2>3. QED
      BY <1>2, <1>4, <1>7, <2>1, <2>2
  <1>8. CASE /\ phone[p].disk = Page(p).pending.keyIdentity /\ phone[p].disk # NoKey
             /\ Become(p, [Page(p) EXCEPT !.op = "source"])
    <2>1. PICK page : page = [old EXCEPT !.op = "source"]
      OBVIOUS
    <2>2. page \in Pages /\ page.op = "source" /\ page.call = old.call /\ page.pending = old.pending
      BY <2>1 DEF Pages, PhoneOps
    <2>3. QED
      BY <1>2, <1>4, <1>8, <2>1, <2>2
  <1>9. QED
    <2>1. CASE phone[p].disk # NoKey /\ Page(p).pending.keyIdentity = NoKey
      BY <1>6, <2>1 DEF FindKey
    <2>2. CASE phone[p].disk = NoKey /\ Page(p).pending.keyIdentity # NoKey
      BY <1>5, <2>2 DEF FindKey
    <2>3. CASE phone[p].disk = NoKey /\ Page(p).pending.keyIdentity = NoKey
      BY <1>7, <2>3 DEF FindKey
    <2>4. CASE phone[p].disk # NoKey /\ Page(p).pending.keyIdentity # NoKey
      BY <1>5, <1>8, <2>4 DEF FindKey
    <2>5. QED
      BY <2>1, <2>2, <2>3, <2>4

LEMMA PhoneCreateKey == ASSUME PairInv, NEW p \in Phones, CreateKey(p) PROVE PairInv'
  <1>1. /\ Page(p).op = "create" /\ phone[p] \in PhoneEntries /\ PageSound(p, phone[p])
        /\ Page(p) = phone[p].page /\ UNCHANGED <<desktop, retries, pairing, human, late>>
    BY PageTyped DEF CreateKey, rest
  <1>2. phone[p].disk = NoKey /\ phone[p].page.pending.source = NoKey
    BY <1>1 DEF PageSound
  <1>3. PICK key : key = [phone |-> p, n |-> phone[p].made + 1]
    OBVIOUS
  <1>4. key \in PhoneKeys /\ key \in SomeKey /\ key # NoKey /\ key.phone = p
    <2>1. phone[p].made + 1 \in Nat \ {0}
      BY <1>1 DEF PhoneEntries
    <2>2. key \in PhoneKeys /\ key.phone = p
      BY <1>3, <2>1 DEF PhoneKeys
    <2>3. QED
      BY <2>2, RealKeys DEF SomeKey
  <1>5. PICK saved \in BOOLEAN, heard \in BOOLEAN :
          phone' = [phone EXCEPT ![p].made = @ + 1,
                                 ![p].disk = IF saved THEN key ELSE @,
                                 ![p].page = [@ EXCEPT !.pending.keyIdentity = key,
                                                       !.op = IF saved /\ heard THEN "source" ELSE "idle"]]
    BY <1>3 DEF CreateKey
  <1>6. PICK page : page = [phone[p].page EXCEPT !.pending.keyIdentity = key,
                                                 !.op = IF saved /\ heard THEN "source" ELSE "idle"]
    OBVIOUS
  <1>7. PICK old \in Pages : old = phone[p].page
    BY <1>1 DEF PhoneEntries
  <1>8. PICK pend : pend = [old.pending EXCEPT !.keyIdentity = key]
    OBVIOUS
  <1>9. pend \in Pendings /\ pend.source = old.pending.source /\ pend.keyIdentity = key
    BY <1>4, <1>8 DEF Pages, Pendings
  <1>10. PICK op \in PhoneOps : op = IF saved /\ heard THEN "source" ELSE "idle"
    BY DEF PhoneOps
  <1>11. page = [old EXCEPT !.pending = pend, !.op = op]
    BY <1>6, <1>7, <1>8, <1>10 DEF Pages
  <1>12. page \in Pages /\ page.op = op /\ page.pending = pend /\ page.call = old.call
    BY <1>9, <1>11 DEF Pages
  <1>13. PICK disk \in SomeKey : disk = IF saved THEN key ELSE NoKey
    BY <1>4, RealKeys
  <1>14. PICK made \in Nat : made = phone[p].made + 1
    BY <1>1 DEF PhoneEntries
  <1>15. PICK entry : entry = [phone[p] EXCEPT !.made = made, !.disk = disk, !.page = page]
    OBVIOUS
  <1>16. entry \in PhoneEntries /\ entry.page = page /\ entry.disk = disk
    BY <1>1, <1>12, <1>15 DEF PhoneEntries
  <1>17. phone' = [phone EXCEPT ![p] = entry]
    <2>1. phone \in [Phones -> PhoneEntries]
      BY DEF PairInv, PairTypeOK
    <2>3. phone' = [phone EXCEPT ![p] = [phone[p] EXCEPT !.made = made, !.disk = disk, !.page = page]]
      BY <1>2, <1>5, <1>6, <1>13, <1>14, <2>1 DEF PhoneEntries
    <2>4. QED
      BY <1>15, <2>3
  <1>18. op = "source" => saved
    BY <1>10
  <1>19. PageSound(p, entry)
    <2>1. disk # NoKey => disk = key
      BY <1>13
    <2>2. op = "source" => disk = key
      BY <1>13, <1>18
    <2>3. op \in {"source", "idle"}
      BY <1>10
    <2>4. entry.page = page /\ entry.disk = disk
      BY <1>16
    <2>5. old.call.kind # "qrScan" /\ pend.source = NoKey
      BY <1>1, <1>2, <1>7, <1>9 DEF PageSound
    <2>6. /\ page.call.kind \in {"none", "qrOffer", "qrScan", "phoneRecover"}
          /\ page.call.kind = "none" => page.call.answer = "none"
          /\ page.call.kind = "phoneRecover" /\ page.call.answer = "cancelled" =>
               pairing.status = "cancelled"
      BY <1>1, <1>7, <1>12 DEF PageSound
    <2>7. QED
      BY <1>4, <1>9, <1>12, <2>1, <2>2, <2>3, <2>4, <2>5, <2>6 DEF PageSound
  <1>20. late' \subseteq Calls /\ late' = late
    BY <1>1 DEF PairInv, PairTypeOK
  <1>21. QED
    BY <1>1, <1>2, <1>16, <1>17, <1>19, <1>20, PhoneStep

LEMMA PhoneMakeSource == ASSUME PairInv, NEW p \in Phones, MakeSource(p) PROVE PairInv'
  <1>1. PICK key : key = Page(p).pending.keyIdentity
    OBVIOUS
  <1>2. /\ Page(p).op = "source" /\ UNCHANGED <<desktop, retries, pairing, human, late>>
        /\ Become(p, [Page(p) EXCEPT !.op = "scan", !.pending.source = key, !.call = Ask("qrScan", key)])
    BY <1>1 DEF MakeSource, rest
  <1>3. phone[p].disk # NoKey /\ key = phone[p].disk /\ key \in SomeKey
    BY <1>1, <1>2, PageTyped DEF PageSound, Pendings
  <1>4. PICK call \in Calls : /\ call = Ask("qrScan", key) /\ call.kind = "qrScan"
                              /\ call.source = key /\ call.answer = "waiting"
    BY <1>3, AskTyped
  <1>5. PICK old \in Pages : old = Page(p)
    BY PageTyped
  <1>6. PICK pend : pend = [old.pending EXCEPT !.source = key]
    OBVIOUS
  <1>7. pend \in Pendings /\ pend.source = key
    BY <1>3, <1>6 DEF Pages, Pendings
  <1>8. PICK page : page = [old EXCEPT !.op = "scan", !.pending.source = key, !.call = call]
    OBVIOUS
  <1>9. page = [old EXCEPT !.op = "scan", !.pending = pend, !.call = call]
    BY <1>6, <1>8 DEF Pages
  <1>10. page \in Pages /\ page.op = "scan" /\ page.pending = pend /\ page.call = call
    BY <1>7, <1>9 DEF Pages, PhoneOps
  <1>11. Become(p, page)
    BY <1>2, <1>4, <1>5, <1>8
  <1>12. QED
    BY <1>2, <1>3, <1>4, <1>7, <1>10, <1>11, PageGoesOn

LEMMA PhoneScanned == ASSUME PairInv, NEW p \in Phones, Scanned(p) PROVE PairInv'
  <1>1. Answered(p, "scan") /\ UNCHANGED <<desktop, retries, pairing, human, late>>
    BY DEF Scanned, rest
  <1>2. CASE ~Good(p)
    BY <1>1, <1>2, PhoneOver DEF Scanned
  <1>3. CASE Good(p)
    <2>1. PICK old \in Pages : old = Page(p)
      BY PageTyped
    <2>2. PICK page : page = [old EXCEPT !.op = "idle", !.call = NoCall, !.shown = old.pending.source]
      OBVIOUS
    <2>3. page \in Pages /\ page.op = "idle" /\ page.call = NoCall /\ page.pending = old.pending
      BY <2>2, CallFacts DEF Pages, PhoneOps, Pendings
    <2>4. page.pending.source \in {NoKey, phone[p].disk}
      BY <2>1, <2>3, PageTyped DEF PageSound
    <2>5. Become(p, page)
      BY <1>3, <2>1, <2>2 DEF Scanned
    <2>6. QED
      BY <1>1, <2>3, <2>4, <2>5, PageGoesOn
  <1>4. QED
    BY <1>2, <1>3

LEMMA PhoneRestarts == ASSUME PairInv, NEW p \in Phones, PhoneReload(p) PROVE PairInv'
  BY StartFacts, PageGoesOn DEF PhoneReload

LEMMA PhoneLoses == ASSUME PairInv, NEW p \in Phones, LosePhone(p) PROVE PairInv'
  BY PhoneOver DEF LosePhone

\* The key is deleted: UBID has said that its pairing is cancelled.
LEMMA PhoneCleanup == ASSUME PairInv, NEW p \in Phones, Cleanup(p) PROVE PairInv'
  <1>1. Answered(p, "cleanup") /\ UNCHANGED <<desktop, retries, pairing, human, late>>
    BY DEF Cleanup, rest
  <1>2. CASE ~(Good(p) /\ Page(p).call.answer = "cancelled" /\ phone[p].disk = Page(p).pending.source)
    BY <1>1, <1>2, PhoneOver DEF Cleanup
  <1>3. CASE Good(p) /\ Page(p).call.answer = "cancelled" /\ phone[p].disk = Page(p).pending.source
    <2>1. PICK page : page = [PhoneStart EXCEPT !.shown = Page(p).shown]
      OBVIOUS
    <2>2. page \in Pages /\ page.op = "idle" /\ page.call = NoCall /\ page.pending.source = NoKey
      BY <2>1, StartFacts, PageTyped DEF Pages
    <2>3. PICK entry : entry = [phone[p] EXCEPT !.disk = NoKey, !.page = page]
      OBVIOUS
    <2>4. entry \in PhoneEntries /\ entry.disk = NoKey /\ entry.page = page
      BY <2>2, <2>3, PageTyped, RealKeys DEF PhoneEntries
    <2>5. phone' = [phone EXCEPT ![p] = entry]
      <3>1. phone' = [phone EXCEPT ![p].disk = NoKey, ![p].page = page]
        BY <1>3, <2>1 DEF Cleanup
      <3>2. QED
        BY <2>3, <3>1 DEF PairInv, PairTypeOK
    <2>6. pairing.status = "cancelled"
      BY <1>1, <1>3, PageTyped DEF Answered, PageSound
    <2>7. PageSound(p, entry)
      BY <2>2, <2>4, CallFacts DEF PageSound
    <2>8. late' = late /\ late' \subseteq Calls
      BY <1>1 DEF PairInv, PairTypeOK
    <2>9. QED
      BY <1>1, <2>4, <2>5, <2>6, <2>7, <2>8, PhoneStep
  <1>4. QED
    BY <1>2, <1>3

-----------------------------------------------------------------------------
(* UBID.                                                                   *)

\* How the pairing moves, whoever asks: never backwards, its source taken once,
\* and no further than somebody's approval allows.
PairingMoved ==
  /\ pairing' \in Pairs
  /\ pairing.status = "cancelled" => pairing'.status = "cancelled"
  /\ pairing.status # "none" => pairing'.status # "none"
  /\ pairing.status \in Past => pairing'.status \in Past
  /\ pairing.source # NoKey => pairing'.source = pairing.source
  /\ pairing'.status \in {"none", "created"} => pairing'.source = NoKey
  /\ pairing'.status \in {"awaiting-approval", "approval-claimed", "accepted"} => pairing'.source # NoKey
  /\ pairing'.source # NoKey => pairing'.status = "cancelled" \/ Kept(pairing'.source)
  /\ pairing'.status \in {"approval-claimed", "accepted"} => Approved
  /\ pairing'.status = "accepted" => retries # NoKey

\* What a request may be for UBID to be allowed to carry it out.
Sendable(call) ==
  /\ call.kind = "qrScan" => pairing.status = "cancelled" \/ Kept(call.source)
  /\ call.kind \in {"qrClaim", "qrAccept"} => Approved
  /\ call.kind = "qrAccept" => retries # NoKey

\* The ways a request may move the pairing.
MovedBy(call, next) ==
  \/ next = pairing
  \/ /\ call.kind = "qrCreate" /\ pairing.status = "none"
     /\ next = [pairing EXCEPT !.status = "created"]
  \/ /\ call.kind = "qrScan" /\ pairing.status = "created"
     /\ next = [pairing EXCEPT !.status = "awaiting-approval", !.source = call.source]
  \/ /\ call.kind = "qrClaim" /\ pairing.status = "awaiting-approval"
     /\ next = [pairing EXCEPT !.status = "approval-claimed"]
  \/ /\ call.kind = "qrAccept" /\ pairing.status = "approval-claimed"
     /\ next = [pairing EXCEPT !.status = "accepted"]
  \/ /\ call.kind = "qrClose"
     /\ pairing.status \in {"created", "awaiting-approval", "approval-claimed"}
     /\ next = [pairing EXCEPT !.status = "cancelled"]

LEMMA EffectCases ==
  ASSUME NEW call, NEW next, next = Effect(call)
  PROVE  MovedBy(call, next)
  <1> USE DEF MovedBy
  <1>1. CASE call.kind = "qrCreate"
    BY <1>1 DEF Effect
  <1>2. CASE call.kind = "qrScan" /\ pairing.status = "created"
    BY <1>2 DEF Effect
  <1>3. CASE call.kind = "qrClaim" /\ pairing.status = "awaiting-approval" /\ Same(call)
    BY <1>3 DEF Effect
  <1>4. CASE call.kind = "qrAccept" /\ pairing.status = "approval-claimed" /\ Same(call)
    BY <1>4 DEF Effect
  <1>5. CASE call.kind = "qrClose" /\ pairing.status \in {"created", "awaiting-approval", "approval-claimed"}
    BY <1>5 DEF Effect
  <1>6. CASE /\ call.kind # "qrCreate"
             /\ ~(call.kind = "qrScan" /\ pairing.status = "created")
             /\ ~(call.kind = "qrClaim" /\ pairing.status = "awaiting-approval" /\ Same(call))
             /\ ~(call.kind = "qrAccept" /\ pairing.status = "approval-claimed" /\ Same(call))
             /\ ~(call.kind = "qrClose" /\
                    pairing.status \in {"created", "awaiting-approval", "approval-claimed"})
    BY <1>6 DEF Effect
  <1>7. QED
    BY <1>1, <1>2, <1>3, <1>4, <1>5, <1>6

LEMMA Moves ==
  ASSUME PairInv, NEW call \in Calls, pairing' = Effect(call), Sendable(call)
  PROVE  PairingMoved
  <1>1. PICK next : next = Effect(call)
    OBVIOUS
  <1>2. pairing \in Pairs /\ SourceSound /\ (pairing.status = "accepted" => retries # NoKey)
    BY DEF PairInv, PairTypeOK, DesktopSound
  <1>3. pairing.status \in {"approval-claimed", "accepted"} => Approved
    BY DEF Approved
  <1>4. CASE next = pairing
    BY <1>1, <1>2, <1>3, <1>4 DEF PairingMoved, SourceSound
  <1>5. ASSUME NEW status \in Statuses, next = [pairing EXCEPT !.status = status],
               pairing.status = "cancelled" => status = "cancelled",
               status # "none", pairing.status \in Past => status \in Past,
               status \in {"awaiting-approval", "approval-claimed", "accepted"} => pairing.source # NoKey,
               status = "created" => pairing.source = NoKey,
               pairing.status = "cancelled" => status = "cancelled",
               status \in {"approval-claimed", "accepted"} => Approved,
               status = "accepted" => retries # NoKey
        PROVE  PairingMoved
    <2>1. next \in Pairs /\ next.status = status /\ next.source = pairing.source
      BY <1>2, <1>5 DEF Pairs
    <2>2. pairing.source # NoKey => status = "cancelled" \/ Kept(pairing.source)
      BY <1>2, <1>5 DEF SourceSound
    <2>3. QED
      BY <1>1, <1>5, <2>1, <2>2 DEF PairingMoved
  <1>6. CASE /\ call.kind = "qrCreate" /\ pairing.status = "none"
             /\ next = [pairing EXCEPT !.status = "created"]
    BY <1>2, <1>5, <1>6 DEF Statuses, Past, SourceSound
  <1>7. CASE /\ call.kind = "qrScan" /\ pairing.status = "created"
             /\ next = [pairing EXCEPT !.status = "awaiting-approval", !.source = call.source]
    <2>1. Kept(call.source) /\ call.source \in SomeKey /\ call.source # NoKey
      BY <1>7, RealKeys DEF Sendable, Calls, Kept
    <2>2. next \in Pairs /\ next.status = "awaiting-approval" /\ next.source = call.source
      BY <1>2, <1>7, <2>1 DEF Pairs, Statuses
    <2>3. pairing.source = NoKey
      BY <1>2, <1>7 DEF SourceSound
    <2>4. QED
      BY <1>1, <1>7, <2>1, <2>2, <2>3 DEF PairingMoved, Past
  <1>8. CASE /\ call.kind = "qrClaim" /\ pairing.status = "awaiting-approval"
             /\ next = [pairing EXCEPT !.status = "approval-claimed"]
    BY <1>2, <1>5, <1>8 DEF Statuses, Past, SourceSound, Sendable
  <1>9. CASE /\ call.kind = "qrAccept" /\ pairing.status = "approval-claimed"
             /\ next = [pairing EXCEPT !.status = "accepted"]
    BY <1>2, <1>5, <1>9 DEF Statuses, Past, SourceSound, Sendable
  <1>10. CASE /\ call.kind = "qrClose"
              /\ pairing.status \in {"created", "awaiting-approval", "approval-claimed"}
              /\ next = [pairing EXCEPT !.status = "cancelled"]
    BY <1>2, <1>5, <1>10 DEF Statuses, Past, SourceSound
  <1>11. QED
    <2>1. MovedBy(call, next)
      BY <1>1, EffectCases
    <2>2. QED
      BY <2>1, <1>4, <1>6, <1>7, <1>8, <1>9, <1>10 DEF MovedBy

LEMMA Expires == ASSUME PairInv, ExpirePairing PROVE PairingMoved
  <1>1. /\ pairing \in Pairs /\ SourceSound
        /\ pairing.status \in {"created", "awaiting-approval", "approval-claimed"}
        /\ pairing' = [pairing EXCEPT !.status = "expired"]
    BY DEF PairInv, PairTypeOK, ExpirePairing
  <1>2. pairing' \in Pairs /\ pairing'.status = "expired" /\ pairing'.source = pairing.source
    BY <1>1 DEF Pairs, Statuses
  <1>3. pairing.source # NoKey => Kept(pairing.source)
    BY <1>1 DEF SourceSound
  <1>4. QED
    BY <1>1, <1>2, <1>3 DEF PairingMoved, Past

\* The pairing moves and the caller, if it still waits, has its answer.
LEMMA ServeStep ==
  ASSUME PairInv, PairingMoved, UNCHANGED <<retries, human>>, late' \subseteq late,
         phone' \in [Phones -> PhoneEntries],
         \A p \in Phones : phone'[p].disk = phone[p].disk,
         \A p \in Phones : PageSound(p, phone[p])',
         desktop' \in Desktops,
         \/ UNCHANGED desktop
         \/ /\ desktop' = [desktop EXCEPT !.call = desktop'.call]
            /\ desktop.call.answer = "waiting" /\ desktop'.call.kind = desktop.call.kind
            /\ desktop'.call.answer \in {"refused", "ok"}
            /\ desktop.call.kind = "qrSnapshot" /\ desktop'.call.answer = "ok" =>
                 desktop'.call.source # NoKey /\ desktop'.call.source = pairing'.source
            /\ desktop.call.kind = "qrCreate" /\ desktop'.call.answer = "ok" =>
                 pairing.status = "none" /\ pairing'.status # "none"
            /\ desktop.call.kind = "qrClaim" /\ desktop'.call.answer = "ok" =>
                 pairing.status \notin Past /\ pairing'.status \in Past
  PROVE  PairInv'
  <1>1. PairTypeOK'
    BY DEF PairInv, PairTypeOK, PairingMoved
  <1>2. ASSUME NEW key, Kept(key)
        PROVE  Kept(key)'
    BY <1>2 DEF Kept, PhoneKeys
  <1>3. LateSound'
    BY <1>2 DEF PairInv, LateSound, PairingMoved
  <1>4. SourceSound'
    BY <1>2 DEF PairInv, SourceSound, PairingMoved
  <1>5. /\ desktop'.step = desktop.step /\ desktop'.created = desktop.created
        /\ desktop'.approval = desktop.approval /\ desktop'.parsed = desktop.parsed
        /\ desktop'.retry = desktop.retry /\ desktop'.call.kind = desktop.call.kind
    BY DEF PairInv, PairTypeOK, Desktops
  <1>6. Approved' => Approved
    BY <1>5 DEF Approved, Asking, PairingMoved
  <1>7. Approved => pairing.source # NoKey /\ pairing'.source = pairing.source /\ pairing.status # "none"
    BY DEF PairInv, ApprovalOnce, PairingMoved, SourceSound
  <1>8. ApprovalOnce'
    <2>1. Creator' => Creator \/ (pairing.status = "none" /\ pairing'.status # "none")
      <3>1. CASE UNCHANGED desktop
        BY <3>1 DEF Creator
      <3>2. CASE ~UNCHANGED desktop
        BY <1>5, <3>2 DEF Creator, PairInv, DesktopSound
      <3>3. QED
        BY <3>1, <3>2
    <2>2. Creator' \/ desktop'.approval # "none" => pairing'.status # "none"
      BY <1>5, <2>1 DEF PairInv, ApprovalOnce, PairingMoved
    <2>3. Approved' => /\ pairing'.source # NoKey /\ human'.typed = pairing'.source
                       /\ desktop'.approval # "none" \/ ~Creator'
      BY <1>5, <1>6, <1>7, <2>1 DEF PairInv, ApprovalOnce
    <2>4. QED
      BY <2>2, <2>3 DEF ApprovalOnce
  <1>9. PromptOnce'
    <2>1. human.prompts \in Nat
      BY DEF PairInv, PairTypeOK
    <2>2. CASE UNCHANGED desktop
      BY <2>2 DEF PairInv, PromptOnce, PairingMoved
    <2>3. CASE ~UNCHANGED desktop
      BY <1>5, <2>1, <2>3 DEF PairInv, PromptOnce, PairingMoved, DesktopSound
    <2>4. QED
      BY <2>2, <2>3
  <1>10. DesktopSound'
    <2>1. desktop.parsed # NoKey => desktop'.created /\ desktop'.parsed = pairing'.source
      BY <1>5 DEF PairInv, DesktopSound, PairingMoved
    <2>2. retries' # NoKey => retries' = pairing'.source
      BY <1>7 DEF PairInv, DesktopSound, PairingMoved
    <2>3. CASE UNCHANGED desktop
      BY <2>1, <2>2, <2>3 DEF PairInv, DesktopSound, PairingMoved
    <2>4. CASE ~UNCHANGED desktop
      <3>1. desktop.step \notin {"idle", "signing"} /\ desktop.call.kind # "none"
        BY <2>4, CallFacts DEF PairInv, DesktopSound
      <3>2. QED
        BY <1>5, <2>1, <2>2, <2>4, <3>1 DEF PairInv, DesktopSound, PairingMoved
    <2>5. QED
      BY <2>3, <2>4
  <1>11. QED
    BY <1>1, <1>3, <1>4, <1>8, <1>9, <1>10 DEF PairInv

LEMMA Replies ==
  ASSUME PairInv, NEW call \in Calls, call.kind # "none", NEW answer, answer = Reply(call)
  PROVE  /\ call.kind # "phoneRecover" => answer \in {"ok", "refused"}
         /\ call.kind = "phoneRecover" => answer \in {"refused", pairing.status}
         /\ call.kind = "qrSnapshot" /\ answer = "ok" => pairing.source # NoKey
         /\ call.kind = "qrCreate" /\ answer = "ok" => pairing.status = "none"
         /\ call.kind = "qrClaim" /\ answer = "ok" => Effect(call) # pairing
  <1>1. CASE call.kind = "qrCreate"
    BY <1>1 DEF Reply
  <1>2. CASE call.kind = "qrOffer"
    BY <1>2 DEF Reply
  <1>3. CASE call.kind = "qrSnapshot"
    BY <1>3 DEF Reply
  <1>4. CASE call.kind = "qrScan"
    BY <1>4 DEF Reply
  <1>5. CASE call.kind = "qrClaim"
    BY <1>5 DEF Reply
  <1>6. CASE call.kind = "qrAccept"
    BY <1>6 DEF Reply
  <1>7. CASE call.kind = "phoneRecover"
    BY <1>7 DEF Reply
  <1>8. CASE call.kind = "qrClose"
    BY <1>8 DEF Reply
  <1>9. QED
    BY <1>1, <1>2, <1>3, <1>4, <1>5, <1>6, <1>7, <1>8 DEF Calls

\* The answer travels back, of a snapshot with the source.
LEMMA Answers ==
  ASSUME PairInv, NEW call \in Calls, call.kind # "none", NEW back, back = WithReply(call)
  PROVE  /\ back \in Calls /\ back.kind = call.kind /\ back.answer = Reply(call)
         /\ call.kind # "qrSnapshot" => back.source = call.source
         /\ call.kind = "qrSnapshot" => back.source = pairing.source
  <1>1. PICK answer : answer = Reply(call)
    OBVIOUS
  <1>2. pairing \in Pairs
    BY DEF PairInv, PairTypeOK
  <1>3. pairing.status \in Statuses /\ pairing.source \in SomeKey
    BY <1>2 DEF Pairs
  <1>4. answer \in {"ok", "refused"} \cup Statuses
    BY <1>1, <1>3, Replies
  <1>5. PICK source \in SomeKey : source = IF call.kind = "qrSnapshot" THEN pairing.source ELSE call.source
    BY <1>3 DEF Calls
  <1>6. back = [call EXCEPT !.answer = answer, !.source = source]
    BY <1>1, <1>5 DEF WithReply
  <1>7. answer \in {"none", "waiting", "refused", "ok", "created", "awaiting-approval",
                    "approval-claimed", "accepted", "cancelled", "expired"}
    BY <1>4 DEF Statuses
  <1>8. back \in Calls /\ back.kind = call.kind /\ back.answer = answer /\ back.source = source
    BY <1>6, <1>7 DEF Calls
  <1>9. QED
    BY <1>1, <1>5, <1>8

LEMMA PhoneServed == ASSUME PairInv, NEW p \in Phones, ServePhone(p) PROVE PairInv'
  <1>1. /\ Page(p).call.answer = "waiting" /\ pairing' = Effect(Page(p).call)
        /\ Become(p, [Page(p) EXCEPT !.call = WithReply(@)])
        /\ UNCHANGED <<desktop, retries, late, human>>
    BY DEF ServePhone
  <1>2. /\ phone[p] \in PhoneEntries /\ Page(p) = phone[p].page /\ Page(p) \in Pages
        /\ PageSound(p, phone[p])
    BY PageTyped
  <1>3. PICK call \in Calls : call = Page(p).call
    BY PageTyped
  <1>4. call.kind \in {"qrOffer", "qrScan", "phoneRecover"}
    BY <1>1, <1>2, <1>3 DEF PageSound
  <1>5. Sendable(call)
    <2>1. CASE call.kind = "qrScan"
      <3>1. call.source = phone[p].disk /\ phone[p].disk # NoKey
        BY <1>2, <1>3, <2>1 DEF PageSound
      <3>2. QED
        BY <2>1, <3>1, DiskKept DEF Sendable
    <2>2. CASE call.kind # "qrScan"
      BY <1>4, <2>2 DEF Sendable
    <2>3. QED
      BY <2>1, <2>2
  <1>6. PairingMoved
    BY <1>1, <1>3, <1>5, Moves
  <1>7. PICK back \in Calls : /\ back = WithReply(call) /\ back.kind = call.kind
                              /\ back.answer = Reply(call) /\ back.source = call.source
    BY <1>4, Answers
  <1>8. PICK page : page = [Page(p) EXCEPT !.call = back]
    OBVIOUS
  <1>9. page \in Pages /\ page.call = back /\ page.op = Page(p).op /\ page.pending = Page(p).pending
    BY <1>2, <1>8 DEF Pages
  <1>10. PICK entry : entry = [phone[p] EXCEPT !.page = page]
    OBVIOUS
  <1>11. entry \in PhoneEntries /\ entry.page = page /\ entry.disk = phone[p].disk
    BY <1>2, <1>9, <1>10 DEF PhoneEntries
  <1>12. Become(p, page)
    BY <1>1, <1>3, <1>7, <1>8
  <1>13. phone' = [phone EXCEPT ![p] = entry]
    BY <1>10, <1>12 DEF Become, PairInv, PairTypeOK
  <1>14. phone' \in [Phones -> PhoneEntries] /\ phone'[p] = entry
         /\ \A q \in Phones : q # p => phone'[q] = phone[q]
    BY <1>11, <1>13 DEF PairInv, PairTypeOK
  <1>15. ASSUME NEW q \in Phones
         PROVE  PageSound(q, phone[q])'
    <2>1. CASE q # p
      <3>1. PICK other : other = phone[q]
        OBVIOUS
      <3>2. PageSound(q, other) /\ phone'[q] = other
        BY <1>14, <2>1, <3>1 DEF PairInv
      <3>3. QED
        BY <1>6, <3>2 DEF PageSound, PairingMoved
    <2>2. CASE q = p
      <3>1. call.kind = "phoneRecover" /\ back.answer = "cancelled" => pairing'.status = "cancelled"
        <4> SUFFICES ASSUME call.kind = "phoneRecover", back.answer = "cancelled"
                     PROVE  pairing'.status = "cancelled"
          OBVIOUS
        <4>1. pairing.status = "cancelled"
          BY <1>7, Replies
        <4>2. QED
          BY <1>6, <4>1 DEF PairingMoved
      <3>2. PageSound(p, phone[p]) /\ phone'[p] = entry
        BY <1>2, <1>14
      <3>3. QED
        BY <1>2, <1>3, <1>4, <1>7, <1>9, <1>11, <2>2, <3>1, <3>2 DEF PageSound
    <2>3. QED
      BY <2>1, <2>2
  <1>16. \A q \in Phones : phone'[q].disk = phone[q].disk
    BY <1>11, <1>14
  <1>17. desktop' \in Desktops /\ UNCHANGED <<desktop, retries, human>> /\ late' \subseteq late
    BY <1>1 DEF PairInv, PairTypeOK
  <1>18. QED
    BY <1>6, <1>14, <1>15, <1>16, <1>17, ServeStep

\* Nobody hears of it: a request given up earlier, or the end of the five minutes.
LEMMA ServedUnheard ==
  ASSUME PairInv, (\E call \in late : ServeLate(call)) \/ ExpirePairing PROVE PairInv'
  <1>1. UNCHANGED <<phone, desktop, retries, human>> /\ late' \subseteq late
    BY DEF ServeLate, ExpirePairing
  <1>2. PairingMoved
    <2>1. ASSUME NEW call \in late, ServeLate(call)
          PROVE  PairingMoved
      <3>1. call \in Calls /\ pairing' = Effect(call)
        BY <2>1 DEF PairInv, PairTypeOK, ServeLate
      <3>2. Sendable(call)
        BY <2>1 DEF Sendable, PairInv, LateSound, DesktopSound, Approved, Asking
      <3>3. QED
        BY <3>1, <3>2, Moves
    <2>2. QED
      BY <2>1, Expires
  <1>3. ASSUME NEW q \in Phones
        PROVE  PageSound(q, phone[q])'
    BY <1>1, <1>2 DEF PairInv, PageSound, PairingMoved
  <1>4. phone' \in [Phones -> PhoneEntries] /\ desktop' \in Desktops
    BY <1>1 DEF PairInv, PairTypeOK
  <1>5. QED
    BY <1>1, <1>2, <1>3, <1>4, ServeStep

LEMMA DesktopServed == ASSUME PairInv, ServeDesktop PROVE PairInv'
  <1>1. /\ desktop.call.answer = "waiting" /\ pairing' = Effect(desktop.call)
        /\ UNCHANGED <<phone, retries, late, human>>
        /\ desktop' = [desktop EXCEPT !.call = WithReply(desktop.call)]
    BY DEF ServeDesktop, Desk
  <1>2. desktop \in Desktops /\ DesktopSound
    BY DEF PairInv, PairTypeOK
  <1>3. PICK call \in Calls : call = desktop.call
    BY <1>2 DEF Desktops
  <1>4. call.kind \in {"qrCreate", "qrSnapshot", "qrClaim", "qrAccept", "qrClose"}
    BY <1>1, <1>2, <1>3 DEF DesktopSound
  <1>5. Sendable(call)
    BY <1>2, <1>3, <1>4 DEF Sendable, DesktopSound, Approved, Asking
  <1>6. PairingMoved
    BY <1>1, <1>3, <1>5, Moves
  <1>7. PICK back \in Calls : /\ back = WithReply(call) /\ back.kind = call.kind
                              /\ back.answer = Reply(call)
                              /\ call.kind = "qrSnapshot" => back.source = pairing.source
    BY <1>4, Answers
  <1>8. back.answer \in {"refused", "ok"}
    BY <1>4, <1>7, Replies
  <1>9. desktop' \in Desktops /\ desktop'.call = back /\ desktop' = [desktop EXCEPT !.call = back]
    BY <1>1, <1>2, <1>3, <1>7 DEF Desktops
  <1>10. desktop.call.kind = "qrSnapshot" /\ back.answer = "ok" =>
           back.source # NoKey /\ back.source = pairing'.source
    <2> SUFFICES ASSUME call.kind = "qrSnapshot", back.answer = "ok"
                 PROVE  back.source # NoKey /\ back.source = pairing'.source
      BY <1>3
    <2>1. pairing.source # NoKey
      BY <1>7, Replies
    <2>2. QED
      BY <1>6, <1>7, <2>1 DEF PairingMoved
  <1>11. desktop.call.kind = "qrCreate" /\ back.answer = "ok" =>
           pairing.status = "none" /\ pairing'.status # "none"
    <2> SUFFICES ASSUME call.kind = "qrCreate", back.answer = "ok"
                 PROVE  pairing.status = "none" /\ pairing'.status # "none"
      BY <1>3
    <2>1. pairing.status = "none"
      BY <1>7, Replies
    <2>2. pairing' = [pairing EXCEPT !.status = "created"]
      BY <1>1, <1>3, <2>1 DEF Effect
    <2>3. pairing'.status = "created"
      BY <2>2 DEF PairInv, PairTypeOK, Pairs
    <2>4. QED
      BY <2>1, <2>3
  <1>12. desktop.call.kind = "qrClaim" /\ back.answer = "ok" =>
           pairing.status \notin Past /\ pairing'.status \in Past
    <2> SUFFICES ASSUME call.kind = "qrClaim", back.answer = "ok"
                 PROVE  pairing.status \notin Past /\ pairing'.status \in Past
      BY <1>3
    <2>1. Effect(call) # pairing /\ pairing' = Effect(call)
      BY <1>1, <1>3, <1>7, Replies
    <2>2. PICK next : next = Effect(call)
      OBVIOUS
    <2>3. MovedBy(call, next)
      BY <2>2, EffectCases
    <2>4. pairing.status = "awaiting-approval" /\ pairing' = [pairing EXCEPT !.status = "approval-claimed"]
      BY <2>1, <2>2, <2>3 DEF MovedBy
    <2>5. pairing'.status = "approval-claimed"
      BY <2>4 DEF PairInv, PairTypeOK, Pairs
    <2>6. QED
      BY <2>4, <2>5 DEF Past
  <1>13. ASSUME NEW q \in Phones
         PROVE  PageSound(q, phone[q])'
    BY <1>1, <1>6 DEF PairInv, PageSound, PairingMoved
  <1>14. phone' \in [Phones -> PhoneEntries] /\ late' \subseteq late /\ UNCHANGED <<phone, retries, human>>
    BY <1>1 DEF PairInv, PairTypeOK
  <1>15. /\ desktop' = [desktop EXCEPT !.call = desktop'.call]
         /\ desktop.call.answer = "waiting" /\ desktop'.call.kind = desktop.call.kind
         /\ desktop'.call.answer \in {"refused", "ok"}
         /\ desktop.call.kind = "qrSnapshot" /\ desktop'.call.answer = "ok" =>
              desktop'.call.source # NoKey /\ desktop'.call.source = pairing'.source
         /\ desktop.call.kind = "qrCreate" /\ desktop'.call.answer = "ok" =>
              pairing.status = "none" /\ pairing'.status # "none"
         /\ desktop.call.kind = "qrClaim" /\ desktop'.call.answer = "ok" =>
              pairing.status \notin Past /\ pairing'.status \in Past
    BY <1>1, <1>3, <1>7, <1>8, <1>9, <1>10, <1>11, <1>12
  <1>16. desktop' \in Desktops
    BY <1>9
  <1>17. QED
    BY <1>6, <1>13, <1>14, <1>15, <1>16, ServeStep

-----------------------------------------------------------------------------
(* The desktop.                                                            *)

LEMMA DeskStep ==
  ASSUME PairInv, UNCHANGED <<phone, pairing>>, desktop' \in Desktops, late' \subseteq Calls,
         retries' \in SomeKey, human' \in [typed : SomeKey, prompts : Nat],
         \A call \in late' : call \in late \/ call.kind \in {"qrCreate", "qrClaim", "qrAccept", "qrClose"},
         ApprovalOnce', PromptOnce', DesktopSound'
  PROVE  PairInv'
  <1>1. PairTypeOK'
    BY DEF PairInv, PairTypeOK
  <1>2. \A p \in Phones : PageSound(p, phone[p])'
    BY DEF PairInv, PageSound
  <1>3. LateSound'
    BY DEF PairInv, LateSound, Kept
  <1>4. SourceSound'
    BY DEF PairInv, SourceSound, Kept
  <1>5. QED
    BY <1>1, <1>2, <1>3, <1>4 DEF PairInv

LEMMA DeskTyped ==
  ASSUME PairInv
  PROVE  /\ desktop \in Desktops /\ DesktopSound /\ desktop.call \in Calls
         /\ desktop.parsed \in SomeKey /\ desktop.retry \in SomeKey /\ retries \in SomeKey
         /\ human \in [typed : SomeKey, prompts : Nat] /\ pairing.source \in SomeKey
  BY DEF PairInv, PairTypeOK, Desktops, Pairs

LEMMA DeskLost ==
  ASSUME PairInv, late' = late \/ Lost(desktop.call)
  PROVE  /\ late' \subseteq Calls /\ late' \subseteq late \cup {desktop.call}
         /\ \A call \in late' :
              call \in late \/ call.kind \in {"qrCreate", "qrClaim", "qrAccept", "qrClose"}
  <1>1. late \subseteq Calls
    BY DEF PairInv, PairTypeOK
  <1>2. CASE late' = late
    BY <1>1, <1>2
  <1>3. CASE late' # late
    <2>1. /\ desktop.call.answer = "waiting" /\ desktop.call.kind # "qrSnapshot"
          /\ late' = late \cup {desktop.call}
      BY <1>3 DEF Lost
    <2>2. desktop.call.kind \in {"qrCreate", "qrClaim", "qrAccept", "qrClose"}
      BY <2>1, DeskTyped DEF DesktopSound
    <2>3. QED
      BY <1>1, <2>1, <2>2, DeskTyped
  <1>4. QED
    BY <1>2, <1>3

\* The desktop goes on, and nothing is approved, signed or saved.
LEMMA DeskGoesOn ==
  ASSUME PairInv, NEW next \in Desktops, desktop' = next, UNCHANGED <<phone, retries, pairing, human>>,
         late' = late \/ Lost(desktop.call),
         \/ next.call = NoCall /\ next.step = "idle"
         \/ /\ next.call.answer = "waiting"
            /\ \/ next.step = "create" /\ next.call.kind = "qrCreate" /\ next.parsed = NoKey
               \/ next.step \in {"inspect", "retry"} /\ next.call.kind = "qrSnapshot" /\ next.created
               \/ next.step = "close" /\ next.call.kind = "qrClose"
               \/ next.step = "accept" /\ next.call.kind = "qrAccept" /\ retries # NoKey,
         next.created => Creator,
         next.approval # "none" => desktop.approval # "none",
         next.approval = "none" => desktop.approval = "none" \/ ~next.created,
         next.approval = "running" => desktop.approval = "running",
         next.parsed # NoKey => next.created /\ next.parsed = pairing.source,
         next.retry # NoKey => next.retry = retries
  PROVE  PairInv'
  <1>1. Creator' => Creator
    BY CallFacts DEF Creator
  <1>2. Approved' => Approved
    BY DeskLost, CallFacts DEF Approved, Asking
  <1>3. next.approval = "none" => desktop.approval = "none" \/ ~Creator'
    BY CallFacts DEF Creator
  <1>4. ApprovalOnce'
    BY <1>1, <1>2, <1>3 DEF PairInv, ApprovalOnce
  <1>5. PromptOnce'
    BY CallFacts DEF PairInv, PromptOnce
  <1>6. DesktopSound'
    <2>1. \A call \in late' : call.kind = "qrAccept" => retries # NoKey
      BY DeskLost DEF PairInv, DesktopSound
    <2>2. QED
      BY <2>1, CallFacts DEF PairInv, DesktopSound
  <1>7. QED
    BY <1>4, <1>5, <1>6, DeskLost, DeskTyped, DeskStep

\* An operation of the desktop is over.
LEMMA DeskEnds ==
  ASSUME PairInv, DeskOver, UNCHANGED <<phone, retries, pairing, human>>,
         late' = late \/ Lost(desktop.call)
  PROVE  PairInv'
  <1>1. PICK old \in Desktops : old = desktop
    BY DeskTyped
  <1>2. PICK approval \in {"none", "running", "over"} :
          approval = IF old.approval = "running" THEN "over" ELSE old.approval
    BY DEF Desktops
  <1>3. PICK next : next = [old EXCEPT !.step = "idle", !.call = NoCall, !.approval = approval]
    OBVIOUS
  <1>4. /\ next \in Desktops /\ next.step = "idle" /\ next.call = NoCall /\ next.approval = approval
        /\ next.created = old.created /\ next.parsed = old.parsed /\ next.retry = old.retry
    BY <1>3, CallFacts DEF Desktops
  <1>5. desktop' = next
    BY <1>1, <1>2, <1>3 DEF DeskOver, Desk
  <1>6. /\ next.created => Creator
        /\ next.parsed # NoKey => next.created /\ next.parsed = pairing.source
        /\ next.retry # NoKey => next.retry = retries
    BY <1>1, <1>4, DeskTyped DEF Creator, DesktopSound
  <1>7. /\ next.approval # "none" => desktop.approval # "none"
        /\ next.approval = "none" => desktop.approval = "none"
        /\ next.approval # "running"
    BY <1>1, <1>2, <1>4
  <1>8. QED
    BY <1>4, <1>5, <1>6, <1>7, DeskGoesOn

LEMMA DeskCreates == ASSUME PairInv, CreatePairing \/ PairingCreated PROVE PairInv'
  <1>1. PICK old \in Desktops : old = desktop
    BY DeskTyped
  <1>2. UNCHANGED <<phone, retries, pairing, late, human>>
    BY DEF CreatePairing, PairingCreated, others
  <1>3. CASE CreatePairing
    <2>1. PICK call \in Calls : /\ call = Ask("qrCreate", NoKey) /\ call.kind = "qrCreate"
                                /\ call.answer = "waiting"
      BY AskTyped, RealKeys
    <2>2. PICK next : next = [old EXCEPT !.step = "create", !.call = call]
      OBVIOUS
    <2>3. /\ next \in Desktops /\ next.step = "create" /\ next.call = call
          /\ next.created = old.created /\ next.parsed = old.parsed /\ next.retry = old.retry
          /\ next.approval = old.approval
      BY <2>2 DEF Desktops
    <2>4. desktop' = next /\ ~old.created
      BY <1>1, <1>3, <2>1, <2>2 DEF CreatePairing, Desk
    <2>5. next.parsed = NoKey /\ (next.retry # NoKey => next.retry = retries)
      BY <1>1, <2>3, <2>4, DeskTyped DEF DesktopSound
    <2>6. QED
      BY <1>1, <1>2, <2>1, <2>3, <2>4, <2>5, DeskGoesOn
  <1>4. CASE PairingCreated
    <2>1. PICK created \in BOOLEAN : created = (old.call.answer # "refused")
      OBVIOUS
    <2>2. PICK next : next = [old EXCEPT !.step = "idle", !.call = NoCall, !.created = created]
      OBVIOUS
    <2>3. /\ next \in Desktops /\ next.step = "idle" /\ next.call = NoCall
          /\ next.created = created /\ next.parsed = old.parsed /\ next.retry = old.retry
          /\ next.approval = old.approval
      BY <2>2, CallFacts DEF Desktops
    <2>4. desktop' = next /\ old.step = "create" /\ old.call.answer \notin {"none", "waiting"}
      BY <1>1, <1>4, <2>1, <2>2 DEF PairingCreated, Desk, DeskAnswered
    <2>5. /\ next.parsed = NoKey /\ (next.retry # NoKey => next.retry = retries)
          /\ created => Creator
      BY <1>1, <2>1, <2>3, <2>4, DeskTyped DEF DesktopSound, Creator
    <2>6. QED
      BY <1>1, <1>2, <2>3, <2>4, <2>5, DeskGoesOn
  <1>5. QED
    BY <1>3, <1>4

LEMMA DeskInspects == ASSUME PairInv, Inspect \/ Inspected PROVE PairInv'
  <1>1. PICK old \in Desktops : old = desktop
    BY DeskTyped
  <1>2. UNCHANGED <<phone, retries, pairing, late, human>>
    BY DEF Inspect, Inspected, others
  <1>3. CASE Inspect
    <2>1. PICK call \in Calls : /\ call = Ask("qrSnapshot", NoKey) /\ call.kind = "qrSnapshot"
                                /\ call.answer = "waiting"
      BY AskTyped, RealKeys
    <2>2. PICK then \in {"inspect", "retry"} :
            old.created /\ desktop' = [old EXCEPT !.step = then, !.call = call]
      BY <1>1, <1>3, <2>1 DEF Inspect, Desk
    <2>3. PICK next : next = [old EXCEPT !.step = then, !.call = call]
      OBVIOUS
    <2>4. /\ next \in Desktops /\ next.step = then /\ next.call = call
          /\ next.created = old.created /\ next.parsed = old.parsed /\ next.retry = old.retry
          /\ next.approval = old.approval
      BY <2>3 DEF Desktops
    <2>5. /\ next.parsed # NoKey => next.created /\ next.parsed = pairing.source
          /\ next.retry # NoKey => next.retry = retries
          /\ Creator
      BY <1>1, <2>2, <2>4, DeskTyped DEF DesktopSound, Creator
    <2>6. QED
      BY <1>1, <1>2, <2>1, <2>2, <2>3, <2>4, <2>5, DeskGoesOn
  <1>4. CASE Inspected
    <2>1. CASE desktop.call.answer = "refused"
      BY <1>2, <1>4, <2>1, DeskEnds DEF Inspected
    <2>2. CASE desktop.call.answer # "refused"
      <3>1. PICK next : next = [old EXCEPT !.step = "idle", !.parsed = old.call.source, !.call = NoCall]
        OBVIOUS
      <3>2. old.call.source \in SomeKey
        BY DEF Desktops, Calls
      <3>3. /\ next \in Desktops /\ next.step = "idle" /\ next.call = NoCall
            /\ next.created = old.created /\ next.parsed = old.call.source /\ next.retry = old.retry
            /\ next.approval = old.approval
        BY <3>1, <3>2, CallFacts DEF Desktops
      <3>4. desktop' = next /\ old.step = "inspect" /\ old.call.answer \notin {"none", "waiting"}
        BY <1>1, <1>4, <2>2, <3>1 DEF Inspected, Desk, DeskAnswered
      <3>5. /\ next.created /\ next.parsed = pairing.source /\ Creator
            /\ next.retry # NoKey => next.retry = retries
        BY <1>1, <2>2, <3>3, <3>4, DeskTyped DEF DesktopSound, Creator
      <3>6. QED
        BY <1>1, <1>2, <3>3, <3>4, <3>5, DeskGoesOn
    <2>3. QED
      BY <2>1, <2>2
  <1>5. QED
    BY <1>3, <1>4

LEMMA DeskRetries == ASSUME PairInv, RetryAccept PROVE PairInv'
  <1>1. PICK old \in Desktops : old = desktop
    BY DeskTyped
  <1>2. UNCHANGED <<phone, retries, pairing, late, human>>
    BY DEF RetryAccept, others
  <1>3. PICK saved : saved = IF old.retry # NoKey THEN old.retry ELSE retries
    OBVIOUS
  <1>4. PICK source : source = old.call.source
    OBVIOUS
  <1>5. CASE old.call.answer = "refused" \/ saved = NoKey \/ saved # source
    BY <1>1, <1>2, <1>3, <1>4, <1>5, DeskEnds DEF RetryAccept
  <1>6. CASE ~(old.call.answer = "refused" \/ saved = NoKey \/ saved # source)
    <2>1. /\ old.step = "retry" /\ old.call.answer \notin {"none", "waiting"}
          /\ desktop' = [old EXCEPT !.step = "accept", !.parsed = source, !.retry = saved,
                                    !.call = Ask("qrAccept", saved)]
      BY <1>1, <1>3, <1>4, <1>6 DEF RetryAccept, DeskAnswered, Desk
    <2>2. old.call.kind = "qrSnapshot" /\ old.created /\ old.call.answer = "ok"
      BY <1>1, <1>6, <2>1, DeskTyped DEF DesktopSound
    <2>3. source = pairing.source /\ saved = retries /\ retries # NoKey
      BY <1>1, <1>3, <1>4, <1>6, <2>2, DeskTyped DEF DesktopSound
    <2>4. saved \in SomeKey /\ source \in SomeKey
      BY <2>3, DeskTyped
    <2>5. PICK call \in Calls : /\ call = Ask("qrAccept", saved) /\ call.kind = "qrAccept"
                                /\ call.answer = "waiting"
      BY <2>4, AskTyped
    <2>6. PICK next : next = [old EXCEPT !.step = "accept", !.parsed = source, !.retry = saved, !.call = call]
      OBVIOUS
    <2>7. /\ next \in Desktops /\ next.step = "accept" /\ next.call = call
          /\ next.created = old.created /\ next.parsed = source /\ next.retry = saved
          /\ next.approval = old.approval
      BY <2>4, <2>6 DEF Desktops
    <2>8. desktop' = next /\ Creator
      BY <1>1, <2>1, <2>2, <2>5, <2>6 DEF Creator
    <2>9. QED
      BY <1>1, <1>2, <2>2, <2>3, <2>5, <2>7, <2>8, DeskGoesOn
  <1>7. QED
    BY <1>5, <1>6

LEMMA DeskCloses == ASSUME PairInv, Close \/ DesktopReload PROVE PairInv'
  <1>1. PICK old \in Desktops : old = desktop
    BY DeskTyped
  <1>2. UNCHANGED <<phone, retries, pairing, human>> /\ Lost(desktop.call)
    BY DEF Close, DesktopReload
  <1>3. CASE Close
    <2>1. PICK call \in Calls : /\ call = Ask("qrClose", NoKey) /\ call.kind = "qrClose"
                                /\ call.answer = "waiting"
      BY AskTyped, RealKeys
    <2>2. PICK approval \in {"none", "running", "over"} :
            approval = IF old.approval = "none" THEN old.approval ELSE "over"
      OBVIOUS
    <2>3. PICK next : next = [old EXCEPT !.step = "close", !.cancelled = TRUE, !.approval = approval,
                                         !.call = call]
      OBVIOUS
    <2>4. /\ next \in Desktops /\ next.step = "close" /\ next.call = call /\ next.approval = approval
          /\ next.created = old.created /\ next.parsed = old.parsed /\ next.retry = old.retry
      BY <2>3 DEF Desktops
    <2>5. desktop' = next
      BY <1>1, <1>3, <2>1, <2>2, <2>3 DEF Close, Desk
    <2>6. /\ next.created => Creator
          /\ next.parsed # NoKey => next.created /\ next.parsed = pairing.source
          /\ next.retry # NoKey => next.retry = retries
      BY <1>1, <2>4, DeskTyped DEF Creator, DesktopSound
    <2>7. /\ next.approval # "none" => desktop.approval # "none"
          /\ next.approval = "none" => desktop.approval = "none"
          /\ next.approval # "running"
      BY <1>1, <2>2, <2>4
    <2>8. QED
      BY <1>2, <2>1, <2>4, <2>5, <2>6, <2>7, DeskGoesOn
  <1>4. CASE DesktopReload
    <2>1. PICK next \in Desktops : next = DesktopStart
      BY StartFacts
    <2>2. desktop' = next
      BY <1>4, <2>1 DEF DesktopReload, Desk
    <2>3. QED
      BY <1>2, <2>1, <2>2, StartFacts, DeskGoesOn
  <1>5. QED
    BY <1>3, <1>4

\* The user has typed a code: only that of the source the desktop shows is an
\* approval, and nobody has approved before.
LEMMA DeskApproves == ASSUME PairInv, Approve PROVE PairInv'
  <1>1. PICK old \in Desktops : old = desktop
    BY DeskTyped
  <1>2. /\ old.step = "idle" /\ old.parsed # NoKey /\ old.approval = "none"
        /\ UNCHANGED <<phone, retries, pairing, late>>
    BY <1>1 DEF Approve
  <1>3. PICK code \in Codes :
          /\ human' = [human EXCEPT !.typed = code]
          /\ Desk(IF code = desktop.parsed
                  THEN [desktop EXCEPT !.step = "claim", !.approval = "running",
                                       !.call = Ask("qrClaim", desktop.parsed)]
                  ELSE [desktop EXCEPT !.approval = "over"])
    BY DEF Approve
  <1>4. code \in SomeKey
    <2>1. \A p \in Phones : Page(p).shown \in SomeKey
      BY PageTyped DEF Pages
    <2>2. QED
      BY <2>1, RealKeys DEF Codes
  <1>5. /\ human' \in [typed : SomeKey, prompts : Nat] /\ human'.typed = code
        /\ human'.prompts = human.prompts
    BY <1>3, <1>4, DeskTyped
  <1>6. old.created /\ old.parsed = pairing.source /\ old.call = NoCall /\ Creator
        /\ (old.retry # NoKey => old.retry = retries)
    BY <1>1, <1>2, DeskTyped DEF DesktopSound, Creator
  <1>7. ~Approved /\ pairing.status # "none"
    BY <1>1, <1>2, <1>6 DEF PairInv, ApprovalOnce
  <1>8. late' \subseteq Calls /\ retries' \in SomeKey /\ late' = late
    BY <1>2, DeskTyped DEF PairInv, PairTypeOK
  <1>9. CASE code = old.parsed
    <2>1. PICK call \in Calls : /\ call = Ask("qrClaim", old.parsed) /\ call.kind = "qrClaim"
                                /\ call.answer = "waiting"
      BY <1>1, AskTyped, DeskTyped
    <2>2. PICK next : next = [old EXCEPT !.step = "claim", !.approval = "running", !.call = call]
      OBVIOUS
    <2>3. /\ next \in Desktops /\ next.step = "claim" /\ next.call = call /\ next.approval = "running"
          /\ next.created = old.created /\ next.parsed = old.parsed /\ next.retry = old.retry
      BY <2>2 DEF Desktops
    <2>4. desktop' = next
      BY <1>1, <1>3, <1>9, <2>1, <2>2 DEF Desk
    <2>5. ApprovalOnce'
      BY <1>2, <1>5, <1>6, <1>7, <1>9, <2>3, <2>4 DEF ApprovalOnce
    <2>6. PromptOnce'
      BY <1>2, <1>5, <2>1, <2>3, <2>4 DEF PairInv, PromptOnce
    <2>7. DesktopSound'
      BY <1>1, <1>2, <1>6, <2>1, <2>3, <2>4 DEF PairInv, DesktopSound
    <2>8. QED
      BY <1>2, <1>5, <1>8, <2>3, <2>4, <2>5, <2>6, <2>7, DeskStep
  <1>10. CASE code # old.parsed
    <2>1. PICK next : next = [old EXCEPT !.approval = "over"]
      OBVIOUS
    <2>2. /\ next \in Desktops /\ next.step = "idle" /\ next.call = NoCall /\ next.approval = "over"
          /\ next.created = old.created /\ next.parsed = old.parsed /\ next.retry = old.retry
      BY <1>2, <1>6, <2>1 DEF Desktops
    <2>3. desktop' = next
      BY <1>1, <1>3, <1>10, <2>1 DEF Desk
    <2>4. ~Approved'
      BY <1>1, <1>2, <1>6, <1>7, <2>2, <2>3 DEF Approved, Asking
    <2>5. ApprovalOnce'
      BY <1>2, <1>7, <2>4 DEF ApprovalOnce
    <2>6. PromptOnce'
      BY <1>2, <1>5, <2>2, <2>3 DEF PairInv, PromptOnce
    <2>7. DesktopSound'
      BY <1>1, <1>2, <1>6, <2>2, <2>3, CallFacts DEF PairInv, DesktopSound
    <2>8. QED
      BY <1>2, <1>5, <1>8, <2>2, <2>3, <2>5, <2>6, <2>7, DeskStep
  <1>11. QED
    BY <1>9, <1>10

\* UBID has granted the one claim: the wallet is asked.
LEMMA DeskClaims == ASSUME PairInv, ApprovalClaimed PROVE PairInv'
  <1>1. PICK old \in Desktops : old = desktop
    BY DeskTyped
  <1>2. /\ old.step = "claim" /\ old.call.answer \notin {"none", "waiting"}
        /\ UNCHANGED <<phone, retries, pairing, late>>
    BY <1>1 DEF ApprovalClaimed, DeskAnswered
  <1>3. CASE desktop.call.answer = "refused" \/ desktop.cancelled
    BY <1>2, <1>3, DeskEnds DEF ApprovalClaimed
  <1>4. CASE ~(desktop.call.answer = "refused" \/ desktop.cancelled)
    <2>1. /\ desktop' = [old EXCEPT !.step = "signing", !.call = NoCall]
          /\ human' = [human EXCEPT !.prompts = @ + 1]
      BY <1>1, <1>4 DEF ApprovalClaimed, Desk
    <2>2. old.call.answer = "ok" /\ old.call.kind = "qrClaim"
      BY <1>1, <1>2, <1>4, DeskTyped DEF DesktopSound
    <2>3. human.prompts = 0 /\ pairing.status \in Past
      BY <1>1, <1>2, <2>2 DEF PairInv, PromptOnce
    <2>4. human' \in [typed : SomeKey, prompts : Nat] /\ human'.typed = human.typed /\ human'.prompts = 1
      BY <2>1, <2>3, DeskTyped
    <2>5. PICK next : next = [old EXCEPT !.step = "signing", !.call = NoCall]
      OBVIOUS
    <2>6. /\ next \in Desktops /\ next.step = "signing" /\ next.call = NoCall /\ next.approval = old.approval
          /\ next.created = old.created /\ next.parsed = old.parsed /\ next.retry = old.retry
      BY <2>5, CallFacts DEF Desktops
    <2>7. desktop' = next
      BY <2>1, <2>5
    <2>8. Approved
      BY <1>1, <2>2 DEF Approved, Asking
    <2>9. ApprovalOnce'
      BY <1>1, <1>2, <2>4, <2>6, <2>7, <2>8 DEF PairInv, ApprovalOnce, Creator
    <2>10. PromptOnce'
      BY <1>2, <2>3, <2>4, <2>6, <2>7 DEF PromptOnce
    <2>11. DesktopSound'
      BY <1>1, <1>2, <2>6, <2>7, CallFacts DEF PairInv, DesktopSound
    <2>12. late' \subseteq Calls /\ retries' \in SomeKey /\ late' = late
      BY <1>2, DeskTyped DEF PairInv, PairTypeOK
    <2>13. QED
      BY <1>2, <2>4, <2>6, <2>7, <2>9, <2>10, <2>11, <2>12, DeskStep
  <1>5. QED
    BY <1>3, <1>4

\* The signed event is saved, and only then sent.
LEMMA DeskSigns == ASSUME PairInv, Signed PROVE PairInv'
  <1>1. PICK old \in Desktops : old = desktop
    BY DeskTyped
  <1>2. old.step = "signing" /\ UNCHANGED <<phone, pairing, late, human>>
    BY <1>1 DEF Signed
  <1>3. CASE desktop.cancelled \/ retries \notin {NoKey, desktop.parsed}
    BY <1>2, <1>3, DeskEnds DEF Signed
  <1>4. CASE ~(desktop.cancelled \/ retries \notin {NoKey, desktop.parsed})
    <2>1. /\ retries' = old.parsed
          /\ desktop' = [old EXCEPT !.step = "accept", !.retry = old.parsed,
                                    !.call = Ask("qrAccept", old.parsed)]
      BY <1>1, <1>4 DEF Signed, Desk
    <2>2. old.parsed # NoKey /\ old.parsed = pairing.source /\ old.created /\ old.parsed \in SomeKey
      BY <1>1, <1>2, DeskTyped DEF DesktopSound
    <2>3. PICK call \in Calls : /\ call = Ask("qrAccept", old.parsed) /\ call.kind = "qrAccept"
                                /\ call.answer = "waiting"
      BY <2>2, AskTyped
    <2>4. PICK next : next = [old EXCEPT !.step = "accept", !.retry = old.parsed, !.call = call]
      OBVIOUS
    <2>5. /\ next \in Desktops /\ next.step = "accept" /\ next.call = call /\ next.approval = old.approval
          /\ next.created = old.created /\ next.parsed = old.parsed /\ next.retry = old.parsed
      BY <2>2, <2>4 DEF Desktops
    <2>6. desktop' = next
      BY <2>1, <2>3, <2>4
    <2>7. Approved
      BY <1>1, <1>2 DEF Approved
    <2>8. ApprovalOnce'
      BY <1>1, <1>2, <2>5, <2>6, <2>7 DEF PairInv, ApprovalOnce, Creator
    <2>9. PromptOnce'
      BY <1>2, <2>5, <2>6 DEF PairInv, PromptOnce
    <2>10. DesktopSound'
      BY <1>2, <2>1, <2>2, <2>3, <2>5, <2>6 DEF DesktopSound
    <2>11. late' \subseteq Calls /\ retries' \in SomeKey /\ late' = late
      BY <1>2, <2>1, <2>2 DEF PairInv, PairTypeOK
    <2>12. human' \in [typed : SomeKey, prompts : Nat]
      BY <1>2, DeskTyped
    <2>13. QED
      BY <1>2, <2>5, <2>6, <2>8, <2>9, <2>10, <2>11, <2>12, DeskStep
  <1>5. QED
    BY <1>3, <1>4

LEMMA DeskOthers ==
  ASSUME PairInv, SignatureRefused \/ AcceptAnswered \/ Closed \/ LoseDesktop PROVE PairInv'
  BY DeskEnds DEF SignatureRefused, AcceptAnswered, Closed, LoseDesktop, others

LEMMA PairInvStep == ASSUME PairInv, [PairNext]_pairVars PROVE PairInv'
  <1>1. ASSUME NEW p \in Phones, PhoneNext(p)
        PROVE  PairInv'
    BY <1>1, PhoneScanBegin, PhoneOffered, PhoneFindKey, PhoneCreateKey, PhoneMakeSource, PhoneScanned,
       PhoneCleanup, PhoneRestarts, PhoneServed, PhoneLoses DEF PhoneNext
  <1>2. CASE DesktopNext
    BY <1>2, DeskCreates, DeskInspects, DeskApproves, DeskClaims, DeskSigns, DeskRetries, DeskCloses,
       DeskOthers, DesktopServed DEF DesktopNext
  <1>3. CASE UNCHANGED pairVars
    <2>1. UNCHANGED <<phone, desktop, retries, pairing, late, human>>
      BY <1>3 DEF pairVars
    <2>2. ApprovalOnce' /\ PromptOnce' /\ DesktopSound'
      BY <2>1 DEF PairInv, ApprovalOnce, Approved, Asking, Creator, PromptOnce, DesktopSound
    <2>3. QED
      BY <2>1, <2>2, DeskStep DEF PairInv, PairTypeOK
  <1>4. QED
    BY <1>1, <1>2, <1>3, ServedUnheard DEF PairNext

LEMMA PairStart == PairInit => PairInv
  <1> SUFFICES ASSUME PairInit
               PROVE  PairInv
    OBVIOUS
  <1>1. \A p \in Phones : /\ phone[p].page = PhoneStart /\ phone[p].disk = NoKey
                          /\ phone[p] \in PhoneEntries
    BY StartFacts, RealKeys DEF PairInit, PhoneEntries
  <1>2. /\ pairing.status = "none" /\ pairing.source = NoKey /\ pairing \in Pairs
        /\ human.prompts = 0 /\ human \in [typed : SomeKey, prompts : Nat]
    BY RealKeys DEF PairInit, Pairs, Statuses
  <1>3. PairTypeOK
    BY <1>1, <1>2, StartFacts, RealKeys DEF PairInit, PairTypeOK
  <1>4. \A p \in Phones : PageSound(p, phone[p])
    BY <1>1, StartFacts, CallFacts DEF PageSound
  <1>5. LateSound /\ SourceSound /\ PromptOnce
    BY <1>2, StartFacts DEF PairInit, LateSound, SourceSound, PromptOnce
  <1>6. ApprovalOnce
    BY <1>2, StartFacts, CallFacts DEF PairInit, ApprovalOnce, Approved, Asking, Creator
  <1>7. DesktopSound
    BY <1>2, StartFacts, CallFacts DEF PairInit, DesktopSound
  <1>8. QED
    BY <1>3, <1>4, <1>5, <1>6, <1>7 DEF PairInv

-----------------------------------------------------------------------------
(* Side by side.                                                           *)

DeviceKeysInv == KeyInv /\ AcceptedInv /\ PairInv

LEMMA DeviceKeysInvariant == MCSpec => []DeviceKeysInv
  <1>1. MCInit => DeviceKeysInv
    BY KeyStart, AcceptedStart, PairStart DEF MCInit, DeviceKeysInv
  <1>2. DeviceKeysInv /\ [MCNext]_<<keyVars, acceptedVars, pairVars, side>> => DeviceKeysInv'
    <2> SUFFICES ASSUME DeviceKeysInv, [MCNext]_<<keyVars, acceptedVars, pairVars, side>>
                 PROVE  DeviceKeysInv'
      OBVIOUS
    <2>1. [KeyNext]_keyVars /\ [AcceptedNext]_acceptedVars /\ [PairNext]_pairVars
      BY DEF MCNext
    <2>2. QED
      BY <2>1, KeyInvStep, AcceptedInvStep, PairInvStep DEF DeviceKeysInv
  <1>3. QED
    BY <1>1, <1>2, PTL DEF MCSpec

\* The wallet is asked once for a device, whatever tabs, reloads and refusals there
\* are, and once for a pairing, whatever calls are lost.
THEOREM KeysSignOnce == MCSpec => []SignsOnceEach
  <1>1. DeviceKeysInv => SignsOnceEach
    BY DEF DeviceKeysInv, KeyInv, RecordSound, PairInv, PromptOnce, SignsOnceEach, WalletAskedOnce,
       SignedOnce
  <1>2. QED
    BY <1>1, DeviceKeysInvariant, PTL

\* A signature that reached the page is durable when the approval is over.
THEOREM KeysEvidenceKept == MCSpec => []EvidenceKept
  <1>1. DeviceKeysInv => EvidenceKept
    BY DEF DeviceKeysInv, KeyInv
  <1>2. QED
    BY <1>1, DeviceKeysInvariant, PTL

\* What a tab was told of either key stays true of the database, and an accepted key
\* has signed only while the binding it was made for was the device's.
THEOREM KeysToldIsTrue == MCSpec => []ToldIsTrue
  <1>1. DeviceKeysInv => ToldIsDurable
    <2> SUFFICES ASSUME KeyInv, NEW t \in Tabs
                 PROVE  LET told == tab[t].result IN
                          CASE told.kind = "nothing" -> TRUE
                            [] told.kind = "attempt" ->
                                 /\ stored[told.device].claim = told.wire
                                 /\ stored[told.device].attempt = told.attempt
                                 /\ told.attempt # NoTab /\ told.wire.key = stored[told.device].key
                            [] OTHER -> stored[told.device].key = told.key
      BY DEF ToldIsDurable, DeviceKeysInv
    <2>1. PICK told \in Results : told = tab[t].result
      BY OpTyped
    <2>2. Told(told)
      BY <2>1 DEF KeyInv
    <2>3. CASE told.kind = "nothing"
      BY <2>1, <2>3
    <2>4. CASE told.kind = "attempt"
      <3>1. told.attempt # NoTab
        BY <2>4, TabsAssumption DEF Results, Nothing
      <3>2. QED
        BY <2>1, <2>2, <2>4, <3>1 DEF Told
    <2>5. CASE told.kind # "nothing" /\ told.kind # "attempt"
      <3>1. told.kind \in {"public", "proof"}
        BY <2>5 DEF Results, Nothing
      <3>2. QED
        BY <2>1, <2>2, <2>5, <3>1 DEF Told
    <2>6. QED
      BY <2>3, <2>4, <2>5
  <1>2. DeviceKeysInv => ToldIsStored
    BY DEF DeviceKeysInv, AcceptedInv, UserInv, ToldIsStored
  <1>3. QED
    BY <1>1, <1>2, DeviceKeysInvariant, PTL DEF ToldIsTrue

\* UBID accepts only the source whose code the user has compared.
THEOREM PairingAcceptedIsCompared == MCSpec => []AcceptedIsCompared
  <1>1. DeviceKeysInv => AcceptedIsCompared
    BY DEF DeviceKeysInv, PairInv, ApprovalOnce, Approved, AcceptedIsCompared
  <1>2. QED
    BY <1>1, DeviceKeysInvariant, PTL

\* The signed event of an accepted pairing is in the retry store and its key on its
\* phone.
THEOREM PairingAcceptedIsKept == MCSpec => []AcceptedIsKept
  <1>1. DeviceKeysInv => AcceptedIsKept
    BY DEF DeviceKeysInv, PairInv, DesktopSound, SourceSound, Kept, AcceptedIsKept
  <1>2. QED
    BY <1>1, DeviceKeysInvariant, PTL

-----------------------------------------------------------------------------
(* The papers.  Whatever may be wrong in them, the values they say have the *)
(* right kinds; each verifier is then shown equivalent to the story told    *)
(* field by field.                                                          *)

\* An agreement is a set with one element.
LEMMA AgreeOn ==
  ASSUME NEW S, IsFiniteSet(S), NEW x \in S
  PROVE  Agree(S) <=> \A y \in S : y = x
  <1>1. ASSUME Agree(S) PROVE \A y \in S : y = x
    BY <1>1, FS_Singleton DEF Agree
  <1>2. ASSUME \A y \in S : y = x PROVE Agree(S)
    <2>1. S = {x}
      BY <1>2
    <2>2. QED
      BY <2>1, FS_Singleton DEF Agree
  <1>3. QED
    BY <1>1, <1>2

LEMMA Agree9 ==
  ASSUME NEW a, NEW b, NEW c, NEW d, NEW e, NEW f, NEW g, NEW h, NEW i
  PROVE  Agree({a, b, c, d, e, f, g, h, i}) <=>
            a = b /\ a = c /\ a = d /\ a = e /\ a = f /\ a = g /\ a = h /\ a = i
  <1>1. IsFiniteSet({a, b, c, d, e, f, g, h, i})
    <2>1. IsFiniteSet({a})
      BY FS_Singleton
    <2>2. IsFiniteSet({a, b, c})
      <3>1. IsFiniteSet(({a} \cup {b}) \cup {c})
        BY <2>1, FS_AddElement
      <3>2. QED
        BY <3>1, ({a} \cup {b}) \cup {c} = {a, b, c}
    <2>3. IsFiniteSet({a, b, c, d, e})
      <3>1. IsFiniteSet(({a, b, c} \cup {d}) \cup {e})
        BY <2>2, FS_AddElement
      <3>2. QED
        BY <3>1, ({a, b, c} \cup {d}) \cup {e} = {a, b, c, d, e}
    <2>4. IsFiniteSet({a, b, c, d, e, f, g})
      <3>1. IsFiniteSet(({a, b, c, d, e} \cup {f}) \cup {g})
        BY <2>3, FS_AddElement
      <3>2. QED
        BY <3>1, ({a, b, c, d, e} \cup {f}) \cup {g} = {a, b, c, d, e, f, g}
    <2>5. QED
      <3>1. IsFiniteSet(({a, b, c, d, e, f, g} \cup {h}) \cup {i})
        BY <2>4, FS_AddElement
      <3>2. QED
        BY <3>1, ({a, b, c, d, e, f, g} \cup {h}) \cup {i} = {a, b, c, d, e, f, g, h, i}
  <1>2. QED
    BY <1>1, AgreeOn

LEMMA Agree2 ==
  ASSUME NEW a, NEW b
  PROVE  Agree({a, b}) <=> a = b
  <1>1. {a, b} = {a, b, b, b, b, b, b, b, b}
    OBVIOUS
  <1>2. Agree({a, b, b, b, b, b, b, b, b}) <=> a = b /\ a = b /\ a = b /\ a = b /\ a = b /\ a = b /\ a = b /\ a = b
    BY Agree9, Zenon
  <1>3. QED
    BY <1>1, <1>2

LEMMA Agree3 ==
  ASSUME NEW a, NEW b, NEW c
  PROVE  Agree({a, b, c}) <=> a = b /\ a = c
  <1>1. {a, b, c} = {a, b, c, c, c, c, c, c, c}
    OBVIOUS
  <1>2. Agree({a, b, c, c, c, c, c, c, c}) <=> a = b /\ a = c /\ a = c /\ a = c /\ a = c /\ a = c /\ a = c /\ a = c
    BY Agree9, Zenon
  <1>3. QED
    BY <1>1, <1>2

LEMMA Agree4 ==
  ASSUME NEW a, NEW b, NEW c, NEW d
  PROVE  Agree({a, b, c, d}) <=> a = b /\ a = c /\ a = d
  <1>1. {a, b, c, d} = {a, b, c, d, d, d, d, d, d}
    OBVIOUS
  <1>2. Agree({a, b, c, d, d, d, d, d, d}) <=> a = b /\ a = c /\ a = d /\ a = d /\ a = d /\ a = d /\ a = d /\ a = d
    BY Agree9, Zenon
  <1>3. QED
    BY <1>1, <1>2

LEMMA Agree5 ==
  ASSUME NEW a, NEW b, NEW c, NEW d, NEW e
  PROVE  Agree({a, b, c, d, e}) <=> a = b /\ a = c /\ a = d /\ a = e
  <1>1. {a, b, c, d, e} = {a, b, c, d, e, e, e, e, e}
    OBVIOUS
  <1>2. Agree({a, b, c, d, e, e, e, e, e}) <=> a = b /\ a = c /\ a = d /\ a = e /\ a = e /\ a = e /\ a = e /\ a = e
    BY Agree9, Zenon
  <1>3. QED
    BY <1>1, <1>2

LEMMA Agree6 ==
  ASSUME NEW a, NEW b, NEW c, NEW d, NEW e, NEW f
  PROVE  Agree({a, b, c, d, e, f}) <=> a = b /\ a = c /\ a = d /\ a = e /\ a = f
  <1>1. {a, b, c, d, e, f} = {a, b, c, d, e, f, f, f, f}
    OBVIOUS
  <1>2. Agree({a, b, c, d, e, f, f, f, f}) <=> a = b /\ a = c /\ a = d /\ a = e /\ a = f /\ a = f /\ a = f /\ a = f
    BY Agree9, Zenon
  <1>3. QED
    BY <1>1, <1>2

LEMMA Agree7 ==
  ASSUME NEW a, NEW b, NEW c, NEW d, NEW e, NEW f, NEW g
  PROVE  Agree({a, b, c, d, e, f, g}) <=>
            a = b /\ a = c /\ a = d /\ a = e /\ a = f /\ a = g
  <1>1. {a, b, c, d, e, f, g} = {a, b, c, d, e, f, g, g, g}
    OBVIOUS
  <1>2. Agree({a, b, c, d, e, f, g, g, g}) <=> a = b /\ a = c /\ a = d /\ a = e /\ a = f /\ a = g /\ a = g /\ a = g
    BY Agree9, Zenon
  <1>3. QED
    BY <1>1, <1>2

\* Three values are different.
LEMMA Apart3 ==
  ASSUME NEW a, NEW b, NEW c
  PROVE  Cardinality({a, b, c}) = 3 <=> a # b /\ a # c /\ b # c
  <1>1. IsFiniteSet({a}) /\ Cardinality({a}) = 1
    BY FS_Singleton
  <1>2. /\ IsFiniteSet({a} \cup {b})
        /\ Cardinality({a} \cup {b}) = IF b \in {a} THEN 1 ELSE 2
    BY <1>1, FS_AddElement
  <1>3. Cardinality(({a} \cup {b}) \cup {c}) =
           IF c \in {a} \cup {b} THEN Cardinality({a} \cup {b})
           ELSE Cardinality({a} \cup {b}) + 1
    BY <1>2, FS_AddElement
  <1>4. {a, b, c} = ({a} \cup {b}) \cup {c}
    OBVIOUS
  <1>5. Cardinality({a, b, c}) = 3 <=> b \notin {a} /\ c \notin {a} \cup {b}
    BY <1>2, <1>3, <1>4
  <1>6. QED
    BY <1>5

-----------------------------------------------------------------------------
(* The papers of a device that is not bound yet.                           *)

\* The times of the papers are numbers, and the event has an event's fields.
PreacceptedPapersTyped(input) ==
    LET unsigned == input.event.unsigned
        claim == unsigned.content.content
        paired == unsigned.content.context
        pre == unsigned.content.preEnrollment
    IN  /\ \A time \in {claim.issuedAt, claim.expiresAt, claim.bindingValidFrom,
                        claim.bindingExpiresAt, paired.createdAt, paired.expiresAt,
                        pre.issuedAt, pre.expiresAt, input.enrollment.issuedAt,
                        input.enrollment.expiresAt} : time \in Nat
        /\ input.context.associationVersion \in Nat \ {0}
        /\ input.context.authorityEpoch \in Nat \ {0}
        /\ unsigned = [content |-> unsigned.content, createdAt |-> unsigned.createdAt,
                       pubkey |-> unsigned.pubkey,
                       authorizationDigest |-> unsigned.authorizationDigest,
                       preEnrollmentDigest |-> unsigned.preEnrollmentDigest,
                       requestId |-> unsigned.requestId, action |-> unsigned.action,
                       pairingId |-> unsigned.pairingId]

\* An event is the one its authorization calls for, field by field.
LEMMA ApprovalIs ==
  ASSUME NEW input, PreacceptedPapersTyped(input), NEW unsigned, unsigned = input.event.unsigned,
         NEW pre, pre = unsigned.content.preEnrollment
  PROVE  unsigned = ApprovalUnsignedEvent(unsigned.content) <=>
            /\ unsigned.createdAt = unsigned.content.content.issuedAt
            /\ unsigned.pubkey = pre.subject
            /\ unsigned.authorizationDigest = Digest("authorization", unsigned.content)
            /\ unsigned.preEnrollmentDigest = PreEnrollmentDigest(pre)
            /\ unsigned.requestId = pre.requestId /\ unsigned.action = "register"
            /\ unsigned.pairingId = pre.pairingId
  BY DEF PreacceptedPapersTyped, ApprovalUnsignedEvent

\* Both readings of an authorization find the same of it.
LEMMA EvidenceIs ==
  ASSUME NEW input, PreacceptedPapersTyped(input), Preflight(input),
         NEW event, event = input.event
  PROVE  LocalAuthorizationEvidence(event) <=>
            /\ ParseAuthorization(event.unsigned.content)
            /\ event.unsigned = ApprovalUnsignedEvent(event.unsigned.content)
  <1>1. PICK unsigned, claim, paired, pre :
           /\ unsigned = event.unsigned /\ claim = unsigned.content.content
           /\ paired = unsigned.content.context /\ pre = unsigned.content.preEnrollment
    OBVIOUS
  <1>2. /\ claim.issuedAt \in Nat /\ claim.expiresAt \in Nat /\ claim.bindingExpiresAt \in Nat
        /\ paired.createdAt \in Nat /\ paired.expiresAt \in Nat
        /\ pre.issuedAt \in Nat /\ pre.expiresAt \in Nat
    BY <1>1 DEF PreacceptedPapersTyped
  <1>3. /\ Canonical(unsigned.content) /\ Canonical(claim) /\ ParsePreEnrollment(pre)
    BY <1>1 DEF Preflight
  <1>4. LocalClaim(claim) /\ LocalPairing(paired, claim) /\ LocalPreEnrollment(pre, paired, claim)
        <=> ParseAuthorization(unsigned.content)
    <2>1. /\ ParseAuthorization(unsigned.content) <=>
               /\ PairingContext(paired) /\ InspectClaim(claim, pre.subject)
               /\ claim.operation = "register" /\ claim.requestId = pre.requestId
               /\ BindingId(claim) = pre.x25519BindingId /\ claim.deviceId = pre.deviceId
               /\ Digest("claim", claim) = pre.bindingAuthorizationDigest
               /\ Commitment(claim.publicKey) = pre.commitment
               /\ claim.publicKey # pre.ed25519PublicKey
               /\ paired.pairingId = pre.pairingId /\ pre.issuedAt = claim.issuedAt
               /\ paired.createdAt <= claim.issuedAt /\ claim.expiresAt <= paired.expiresAt
               /\ pre.expiresAt <= claim.bindingExpiresAt
          /\ LocalPreEnrollment(pre, paired, claim) <=>
               /\ pre.subject = claim.subject /\ claim.requestId = pre.requestId
               /\ BindingId(claim) = pre.x25519BindingId /\ claim.deviceId = pre.deviceId
               /\ Digest("claim", claim) = pre.bindingAuthorizationDigest
               /\ Commitment(claim.publicKey) = pre.commitment
               /\ claim.publicKey # pre.ed25519PublicKey
               /\ paired.pairingId = pre.pairingId /\ pre.issuedAt = claim.issuedAt
               /\ pre.expiresAt <= claim.bindingExpiresAt
      BY <1>1, <1>3 DEF ParseAuthorization, LocalPreEnrollment, ParsePreEnrollment
    <2>2. paired.createdAt <= claim.issuedAt /\ claim.expiresAt <= paired.expiresAt =>
             (LocalPairing(paired, claim) <=> PairingContext(paired))
      BY DEF LocalPairing, PairingContext
    <2>3. LocalPairing(paired, claim) /\ pre.subject = claim.subject
          /\ claim.operation = "register" =>
             (LocalClaim(claim) <=> InspectClaim(claim, pre.subject))
      <3>1. ASSUME LocalPairing(paired, claim)
            PROVE  claim.expiresAt - claim.issuedAt <= ClaimLife
        <4>1. PICK from, until, start, end \in Nat :
                 /\ from = paired.createdAt /\ until = paired.expiresAt
                 /\ start = claim.issuedAt /\ end = claim.expiresAt
          BY <1>2
        <4>2. until <= from + PairingLife /\ from <= start /\ end <= until
          BY <3>1, <4>1 DEF LocalPairing
        <4>3. end - start <= ClaimLife
          BY <4>2, LivesAssumption
        <4>4. QED
          BY <4>1, <4>3
      <3>2. QED
        BY <1>3, <3>1 DEF LocalClaim, InspectClaim
    <2>4. /\ LocalPairing(paired, claim) => /\ paired.createdAt <= claim.issuedAt
                                            /\ claim.expiresAt <= paired.expiresAt
          /\ LocalClaim(claim) => claim.operation = "register"
          /\ InspectClaim(claim, pre.subject) => pre.subject = claim.subject
      BY DEF LocalPairing, LocalClaim, InspectClaim
    <2>5. QED
      BY <2>1, <2>2, <2>3, <2>4
  <1>5. ParseAuthorization(unsigned.content) =>
           (LocalApproval(unsigned) <=> unsigned = ApprovalUnsignedEvent(unsigned.content))
    BY <1>1, ApprovalIs DEF LocalApproval, ParseAuthorization, InspectClaim
  <1>6. QED
    BY <1>1, <1>4, <1>5 DEF LocalAuthorizationEvidence

LEMMA ReadingsAgree ==
  ASSUME NEW input, PreacceptedPapersTyped(input), Preflight(input)
  PROVE  LocallyVerified(input) <=> ContractVerified(input)
  <1>1. PICK event, unsigned, authorization, pre, claim :
           /\ event = input.event /\ unsigned = event.unsigned
           /\ authorization = unsigned.content /\ pre = authorization.preEnrollment
           /\ claim = authorization.content
    OBVIOUS
  <1>2. LocalAuthorizationEvidence(event) <=>
            ParseAuthorization(authorization) /\ unsigned = ApprovalUnsignedEvent(authorization)
    BY <1>1, EvidenceIs
  <1>3. Canonical(event)
    BY <1>1 DEF Preflight
  <1>4. ParseAuthorization(authorization) =>
           ValidateAuthorizationTime(authorization, pre.issuedAt)
    <2>1. PICK paired : paired = authorization.context
      OBVIOUS
    <2>2. /\ claim.issuedAt \in Nat /\ claim.expiresAt \in Nat /\ claim.bindingExpiresAt \in Nat
          /\ paired.createdAt \in Nat /\ paired.expiresAt \in Nat
          /\ pre.issuedAt \in Nat /\ pre.expiresAt \in Nat /\ claim.bindingValidFrom \in Nat
      BY <1>1, <2>1 DEF PreacceptedPapersTyped
    <2>3. ParseAuthorization(authorization) =>
             /\ paired.createdAt <= pre.issuedAt /\ pre.issuedAt < paired.expiresAt
             /\ claim.issuedAt <= pre.issuedAt /\ pre.issuedAt < claim.expiresAt
             /\ pre.issuedAt <= pre.issuedAt /\ pre.issuedAt < pre.expiresAt
             /\ claim.bindingValidFrom <= pre.issuedAt /\ pre.issuedAt < claim.bindingExpiresAt
      BY <1>1, <2>1, <2>2 DEF ParseAuthorization, InspectClaim, PairingContext, ParsePreEnrollment
    <2>4. QED
      BY <1>1, <2>1, <2>3 DEF ValidateAuthorizationTime, AuthorizationWindows
  <1>5. ParseAuthorization(authorization) => BindingId(claim) = pre.x25519BindingId
    BY <1>1 DEF ParseAuthorization
  <1>6. ParseAuthorization(authorization) /\ event.id = EventId(unsigned) =>
           AcceptanceId(event) = LocalAcceptanceId(event)
    BY <1>1, <1>5 DEF AcceptanceId, LocalAcceptanceId
  <1>7. QED
    BY <1>1, <1>2, <1>3, <1>4, <1>6
       DEF LocallyVerified, ContractVerified, ParseApproval, VerifyNostrEvent, VerifyBip340

\* The papers tell one story exactly when they are verified.
LEMMA EnrollmentVerified ==
  ASSUME NEW input, PreacceptedPapersTyped(input)
  PROVE  VerifyPreacceptedEnrollment(input) <=> OneEnrollment(input)
  <1>1. PICK event, unsigned, authorization, claim, paired, pre, enrollment, proof, context :
           /\ event = input.event /\ unsigned = event.unsigned
           /\ authorization = unsigned.content /\ claim = authorization.content
           /\ paired = authorization.context /\ pre = authorization.preEnrollment
           /\ enrollment = input.enrollment /\ proof = input.proof /\ context = input.context
    OBVIOUS
  <1> DEFINE
    Forms == /\ input.form = "canonical" /\ event.form = "canonical"
             /\ authorization.form = "canonical" /\ claim.form = "canonical"
             /\ pre.form = "canonical" /\ enrollment.form = "canonical"
             /\ proof.form = "canonical" /\ context.form = "canonical"
    Persons == /\ pre.subject = claim.subject /\ unsigned.pubkey = claim.subject
               /\ event.signedBy = claim.subject /\ enrollment.subject = claim.subject
               /\ context.subject = claim.subject
    OneDevice == /\ pre.deviceId = claim.deviceId /\ enrollment.deviceId = claim.deviceId
               /\ context.deviceId = claim.deviceId
    Signers == /\ enrollment.ed25519PublicKey = pre.ed25519PublicKey
               /\ context.ed25519PublicKey = pre.ed25519PublicKey
               /\ proof.publicKey = pre.ed25519PublicKey
               /\ proof.signedBy = pre.ed25519PublicKey
    Apart == /\ claim.subject # claim.publicKey /\ claim.subject # pre.ed25519PublicKey
             /\ claim.publicKey # pre.ed25519PublicKey
    Requests == /\ pre.requestId = claim.requestId /\ unsigned.requestId = claim.requestId
                /\ pre.pairingId = paired.pairingId /\ unsigned.pairingId = paired.pairingId
    Challenges == /\ proof.enrollmentChallengeId = enrollment.enrollmentChallengeId
                  /\ context.challengeId = enrollment.enrollmentChallengeId
    Bindings == /\ pre.x25519BindingId = BindingId(claim)
                /\ enrollment.x25519BindingId = BindingId(claim)
                /\ context.bindingId = BindingId(claim)
                /\ pre.commitment = Commitment(claim.publicKey)
                /\ enrollment.commitment = Commitment(claim.publicKey)
                /\ context.commitment = Commitment(claim.publicKey)
                /\ pre.bindingAuthorizationDigest = Digest("claim", claim)
    Digests == /\ unsigned.authorizationDigest = Digest("authorization", authorization)
               /\ unsigned.preEnrollmentDigest = PreEnrollmentDigest(pre)
               /\ event.id = EventId(unsigned) /\ event.signed = EventId(unsigned)
               /\ proof.enrollmentDigest = EnrollmentDigest(enrollment)
               /\ proof.signed = EnrollmentProofPreimage(enrollment)
               /\ context.associationId = AssociationId(enrollment)
               /\ input.acceptanceId = AcceptanceId(event)
    Steps == /\ claim.operation = "register" /\ unsigned.action = "register"
             /\ pre.transition = "initial"
             /\ context.associationVersion = 1 /\ context.authorityEpoch = 1
             /\ context.predecessorAssociationId = Null /\ context.approver # Null
             /\ context.challengeKind = "enrollment-v2"
             /\ context.audience = enrollment.audience
    Order == /\ claim.bindingValidFrom = claim.issuedAt /\ pre.issuedAt = claim.issuedAt
             /\ unsigned.createdAt = claim.issuedAt
             /\ paired.createdAt <= claim.issuedAt /\ claim.issuedAt <= enrollment.issuedAt
             /\ claim.expiresAt <= paired.expiresAt
             /\ claim.expiresAt <= claim.bindingExpiresAt
             /\ enrollment.expiresAt <= pre.expiresAt
             /\ pre.expiresAt <= claim.bindingExpiresAt
    Lengths == /\ paired.createdAt < paired.expiresAt
               /\ paired.expiresAt <= paired.createdAt + PairingLife
               /\ claim.issuedAt < claim.expiresAt
               /\ claim.expiresAt - claim.issuedAt <= ClaimLife
               /\ pre.issuedAt < pre.expiresAt
               /\ pre.expiresAt - pre.issuedAt <= PreEnrollmentLife
               /\ enrollment.issuedAt < enrollment.expiresAt
               /\ enrollment.expiresAt - enrollment.issuedAt <= EnrollmentLife
    All == /\ Forms /\ Persons /\ OneDevice /\ Signers /\ Apart /\ Requests /\ Challenges
           /\ Bindings /\ Digests /\ Steps /\ Order /\ Lengths
  <1>2. /\ claim.issuedAt \in Nat /\ claim.expiresAt \in Nat /\ claim.bindingExpiresAt \in Nat
        /\ paired.createdAt \in Nat /\ paired.expiresAt \in Nat
        /\ pre.issuedAt \in Nat /\ pre.expiresAt \in Nat
        /\ enrollment.issuedAt \in Nat /\ enrollment.expiresAt \in Nat
        /\ context.associationVersion \in Nat \ {0} /\ context.authorityEpoch \in Nat \ {0}
    BY <1>1 DEF PreacceptedPapersTyped
  <1>3. /\ Lasts(paired.createdAt, paired.expiresAt, PairingLife) <=>
             /\ paired.createdAt < paired.expiresAt
             /\ paired.expiresAt <= paired.createdAt + PairingLife
        /\ Lasts(claim.issuedAt, claim.expiresAt, ClaimLife) <=>
             /\ claim.issuedAt < claim.expiresAt
             /\ claim.expiresAt - claim.issuedAt <= ClaimLife
        /\ Lasts(pre.issuedAt, pre.expiresAt, PreEnrollmentLife) <=>
             /\ pre.issuedAt < pre.expiresAt
             /\ pre.expiresAt - pre.issuedAt <= PreEnrollmentLife
        /\ Lasts(enrollment.issuedAt, enrollment.expiresAt, EnrollmentLife) <=>
             /\ enrollment.issuedAt < enrollment.expiresAt
             /\ enrollment.expiresAt - enrollment.issuedAt <= EnrollmentLife
    BY <1>2, LivesAssumption DEF Lasts
  <1>4. OneEnrollment(input) <=> All
    <2>1. Agree({"canonical", input.form, event.form, authorization.form, claim.form,
                 pre.form, enrollment.form, proof.form, context.form}) <=> Forms
      <3>1. PICK a, b, c, d, e, f, g, h, i :
               /\ a = "canonical"
               /\ b = input.form
               /\ c = event.form
               /\ d = authorization.form
               /\ e = claim.form
               /\ f = pre.form
               /\ g = enrollment.form
               /\ h = proof.form
               /\ i = context.form
        OBVIOUS
      <3>2. Agree({a, b, c, d, e, f, g, h, i}) <=>
               a = b /\ a = c /\ a = d /\ a = e /\ a = f /\ a = g /\ a = h /\ a = i
        BY Agree9, Zenon
      <3>3. QED
        BY <3>1, <3>2
    <2>2. Agree({claim.subject, pre.subject, unsigned.pubkey, event.signedBy,
                 enrollment.subject, context.subject}) <=> Persons
      <3>1. PICK a, b, c, d, e, f :
               /\ a = claim.subject
               /\ b = pre.subject
               /\ c = unsigned.pubkey
               /\ d = event.signedBy
               /\ e = enrollment.subject
               /\ f = context.subject
        OBVIOUS
      <3>2. Agree({a, b, c, d, e, f}) <=>
               a = b /\ a = c /\ a = d /\ a = e /\ a = f
        BY Agree6, Zenon
      <3>3. QED
        BY <3>1, <3>2
    <2>3. Agree({claim.deviceId, pre.deviceId, enrollment.deviceId, context.deviceId})
             <=> OneDevice
      BY Agree4, Zenon
    <2>4. Agree({pre.ed25519PublicKey, enrollment.ed25519PublicKey,
                 context.ed25519PublicKey, proof.publicKey, proof.signedBy}) <=> Signers
      <3>1. PICK a, b, c, d, e :
               /\ a = pre.ed25519PublicKey
               /\ b = enrollment.ed25519PublicKey
               /\ c = context.ed25519PublicKey
               /\ d = proof.publicKey
               /\ e = proof.signedBy
        OBVIOUS
      <3>2. Agree({a, b, c, d, e}) <=>
               a = b /\ a = c /\ a = d /\ a = e
        BY Agree5, Zenon
      <3>3. QED
        BY <3>1, <3>2
    <2>5. Cardinality({claim.subject, claim.publicKey, pre.ed25519PublicKey}) = 3 <=> Apart
      <3>1. PICK a, b, c :
               a = claim.subject /\ b = claim.publicKey /\ c = pre.ed25519PublicKey
        OBVIOUS
      <3>2. Cardinality({a, b, c}) = 3 <=> a # b /\ a # c /\ b # c
        BY Apart3
      <3>3. QED
        BY <3>1, <3>2
    <2>6. /\ Agree({claim.requestId, pre.requestId, unsigned.requestId})
          /\ Agree({paired.pairingId, pre.pairingId, unsigned.pairingId})
          <=> Requests
      BY Agree3, Zenon
    <2>7. Agree({enrollment.enrollmentChallengeId, proof.enrollmentChallengeId,
                 context.challengeId}) <=> Challenges
      BY Agree3, Zenon
    <2>8. /\ Agree({BindingId(claim), pre.x25519BindingId,
                    enrollment.x25519BindingId, context.bindingId})
          /\ Agree({Commitment(claim.publicKey), pre.commitment,
                    enrollment.commitment, context.commitment})
          /\ Agree({Digest("claim", claim), pre.bindingAuthorizationDigest})
          <=> Bindings
      BY Agree2, Agree4, Zenon
    <2>9. /\ Agree({Digest("authorization", authorization), unsigned.authorizationDigest})
          /\ Agree({PreEnrollmentDigest(pre), unsigned.preEnrollmentDigest})
          /\ Agree({EventId(unsigned), event.id, event.signed})
          /\ Agree({EnrollmentDigest(enrollment), proof.enrollmentDigest})
          /\ Agree({EnrollmentProofPreimage(enrollment), proof.signed})
          /\ Agree({AssociationId(enrollment), context.associationId})
          /\ Agree({AcceptanceId(event), input.acceptanceId})
          <=> Digests
      BY Agree2, Agree3, Zenon
    <2>10. /\ Agree({claim.operation, unsigned.action, "register"})
           /\ Agree({pre.transition, "initial"})
           /\ Agree({context.associationVersion, context.authorityEpoch, 1})
           /\ context.predecessorAssociationId = Null /\ context.approver # Null
           /\ context.challengeKind = "enrollment-v2"
           /\ context.audience = enrollment.audience
           <=> Steps
      BY Agree2, Agree3, Zenon
    <2>11. /\ Agree({claim.issuedAt, claim.bindingValidFrom, pre.issuedAt,
                     unsigned.createdAt})
           /\ paired.createdAt <= claim.issuedAt /\ claim.issuedAt <= enrollment.issuedAt
           /\ claim.expiresAt <= paired.expiresAt
           /\ claim.expiresAt <= claim.bindingExpiresAt
           /\ enrollment.expiresAt <= pre.expiresAt
           /\ pre.expiresAt <= claim.bindingExpiresAt
           <=> Order
      BY Agree4, Zenon
    <2> HIDE DEF Forms, Persons, OneDevice, Signers, Apart, Requests, Challenges, Bindings,
                Digests, Steps, Order
    <2>12. QED
      BY <1>1, <1>3, <2>1, <2>2, <2>3, <2>4, <2>5, <2>6, <2>7, <2>8, <2>9, <2>10, <2>11
         DEF OneEnrollment
  <1>5. VerifyPreacceptedEnrollment(input) <=>
            /\ Preflight(input) /\ CrossContract(input) /\ ContractVerified(input)
            /\ VerifyEd25519(EnrollmentProofPreimage(enrollment), proof.publicKey, proof)
    BY <1>1, ReadingsAgree DEF VerifyPreacceptedEnrollment
  \* What each part of the verifier says of the papers.
  <1>6. ParseApproval(event) <=>
            /\ event.form = "canonical" /\ ParseAuthorization(authorization)
            /\ unsigned = ApprovalUnsignedEvent(authorization)
            /\ event.id = EventId(unsigned) /\ event.signed = event.id
            /\ event.signedBy = unsigned.pubkey
    BY <1>1 DEF ParseApproval, VerifyNostrEvent, Canonical
  <1>7. unsigned = ApprovalUnsignedEvent(authorization) <=>
            /\ unsigned.createdAt = claim.issuedAt
            /\ unsigned.pubkey = pre.subject
            /\ unsigned.authorizationDigest = Digest("authorization", authorization)
            /\ unsigned.preEnrollmentDigest = PreEnrollmentDigest(pre)
            /\ unsigned.requestId = pre.requestId /\ unsigned.action = "register"
            /\ unsigned.pairingId = pre.pairingId
    BY <1>1, ApprovalIs
  <1>8. ParseAuthorization(authorization) <=>
            /\ authorization.form = "canonical"
            /\ pre.form = "canonical" /\ pre.transition = "initial"
            /\ pre.ed25519PublicKey # pre.subject
            /\ pre.issuedAt < pre.expiresAt
            /\ pre.expiresAt - pre.issuedAt <= PreEnrollmentLife
            /\ paired.createdAt < paired.expiresAt
            /\ paired.expiresAt <= paired.createdAt + PairingLife
            /\ claim.form = "canonical" /\ claim.subject = pre.subject
            /\ claim.publicKey # claim.subject
            /\ claim.bindingValidFrom = claim.issuedAt
            /\ claim.issuedAt < claim.expiresAt
            /\ claim.expiresAt <= claim.bindingExpiresAt
            /\ claim.expiresAt - claim.issuedAt <= ClaimLife
            /\ claim.operation = "register" /\ claim.requestId = pre.requestId
            /\ BindingId(claim) = pre.x25519BindingId /\ claim.deviceId = pre.deviceId
            /\ Digest("claim", claim) = pre.bindingAuthorizationDigest
            /\ Commitment(claim.publicKey) = pre.commitment
            /\ claim.publicKey # pre.ed25519PublicKey
            /\ paired.pairingId = pre.pairingId /\ pre.issuedAt = claim.issuedAt
            /\ paired.createdAt <= claim.issuedAt
            /\ claim.expiresAt <= paired.expiresAt
            /\ pre.expiresAt <= claim.bindingExpiresAt
    BY <1>1 DEF ParseAuthorization, ParsePreEnrollment, PairingContext, InspectClaim, Canonical
  <1>9. CrossContract(input) <=>
            /\ context.challengeKind = "enrollment-v2"
            /\ context.challengeId = enrollment.enrollmentChallengeId
            /\ context.audience = enrollment.audience
            /\ context.associationId = AssociationId(enrollment)
            /\ context.associationVersion = 1 /\ context.predecessorAssociationId = Null
            /\ context.authorityEpoch = 1
            /\ proof.enrollmentChallengeId = enrollment.enrollmentChallengeId
            /\ proof.enrollmentDigest = EnrollmentDigest(enrollment)
            /\ proof.publicKey = enrollment.ed25519PublicKey
            /\ context.subject = pre.subject /\ enrollment.subject = pre.subject
            /\ context.deviceId = pre.deviceId /\ enrollment.deviceId = pre.deviceId
            /\ context.commitment = pre.commitment /\ enrollment.commitment = pre.commitment
            /\ context.ed25519PublicKey = pre.ed25519PublicKey
            /\ enrollment.ed25519PublicKey = pre.ed25519PublicKey
            /\ context.bindingId = pre.x25519BindingId
            /\ enrollment.x25519BindingId = pre.x25519BindingId
            /\ pre.issuedAt <= enrollment.issuedAt /\ enrollment.expiresAt <= pre.expiresAt
    BY <1>1 DEF CrossContract, CrossContext
  <1>10. Preflight(input) <=>
            /\ input.form = "canonical" /\ event.form = "canonical"
            /\ authorization.form = "canonical" /\ proof.form = "canonical"
            /\ claim.form = "canonical" /\ ParsePreEnrollment(pre)
            /\ ParseContext(context)
            /\ enrollment.form = "canonical"
            /\ enrollment.issuedAt < enrollment.expiresAt
            /\ enrollment.expiresAt - enrollment.issuedAt <= EnrollmentLife
            /\ enrollment.ed25519PublicKey # enrollment.subject
    BY <1>1 DEF Preflight, ParseEnrollment, Canonical
  <1>11. VerifyEd25519(EnrollmentProofPreimage(enrollment), proof.publicKey, proof) <=>
            /\ proof.signedBy = proof.publicKey
            /\ proof.signed = EnrollmentProofPreimage(enrollment)
    BY DEF VerifyEd25519
  <1>12. ASSUME Steps, Signers, Persons, Apart
         PROVE  ParseContext(context) <=> context.form = "canonical"
    BY <1>12 DEF ParseContext, Canonical
  <1>13. ContractVerified(input) <=>
            /\ ParseApproval(event) /\ input.acceptanceId = AcceptanceId(event)
            /\ ValidateAuthorizationTime(authorization, pre.issuedAt)
    BY <1>1 DEF ContractVerified
  <1>14. ParseAuthorization(authorization) => ValidateAuthorizationTime(authorization, pre.issuedAt)
    <2>1. ParseAuthorization(authorization) =>
             /\ paired.createdAt <= pre.issuedAt /\ pre.issuedAt < paired.expiresAt
             /\ claim.issuedAt <= pre.issuedAt /\ pre.issuedAt < claim.expiresAt
             /\ pre.issuedAt <= pre.issuedAt /\ pre.issuedAt < pre.expiresAt
             /\ claim.bindingValidFrom <= pre.issuedAt /\ pre.issuedAt < claim.bindingExpiresAt
      BY <1>2, <1>8
    <2>2. QED
      BY <1>1, <2>1 DEF ValidateAuthorizationTime, AuthorizationWindows
  <1>15. VerifyPreacceptedEnrollment(input) => All
    <2>1. SUFFICES ASSUME VerifyPreacceptedEnrollment(input) PROVE All
      OBVIOUS
    <2>2. Steps
      BY <1>5, <1>6, <1>7, <1>8, <1>9, <1>10, <1>13, <2>1 DEF ParseContext
    <2>3. QED
      BY <1>5, <1>6, <1>7, <1>8, <1>9, <1>10, <1>11, <1>13, <2>1, <2>2
         DEF ParseContext, Canonical
  <1>16. All => VerifyPreacceptedEnrollment(input)
    <2>1. SUFFICES ASSUME All PROVE VerifyPreacceptedEnrollment(input)
      OBVIOUS
    <2>2. ParseAuthorization(authorization)
      BY <1>8, <2>1
    <2>3. unsigned = ApprovalUnsignedEvent(authorization)
      BY <1>7, <2>1
    <2>4. ParseApproval(event)
      BY <1>6, <2>1, <2>2, <2>3
    <2>5. ContractVerified(input)
      BY <1>13, <1>14, <2>1, <2>2, <2>4
    <2>6. Preflight(input)
      <3>1. ParseContext(context)
        BY <1>12, <2>1
      <3>2. ParsePreEnrollment(pre)
        BY <1>1, <2>2 DEF ParseAuthorization
      <3>3. QED
        BY <1>10, <2>1, <3>1, <3>2
    <2>7. CrossContract(input)
      BY <1>9, <2>1
    <2>8. VerifyEd25519(EnrollmentProofPreimage(enrollment), proof.publicKey, proof)
      BY <1>11, <2>1
    <2>9. QED
      BY <1>5, <2>5, <2>6, <2>7, <2>8
  <1>17. QED
    BY <1>4, <1>15, <1>16

-----------------------------------------------------------------------------
(* What the lies can reach.                                                *)

\* A paper says its own values, but for the lies.
LEMMA SaysIs ==
  ASSUME NEW name, NEW paper, NEW told, told = Says(name, paper)
  PROVE  /\ told = [f \in DOMAIN paper |-> told[f]]
         /\ \A f \in DOMAIN paper :
               told[f] = paper[f] \/
               \E lie \in lies : lie.paper = name /\ lie.field = f /\ told[f] = lie.value
  <1>1. told = [f \in DOMAIN paper |->
           LET here == {lie \in lies : lie.paper = name /\ lie.field = f}
           IN  IF here = {} THEN paper[f] ELSE (CHOOSE lie \in here : TRUE).value]
    BY DEF Says
  <1>2. told = [f \in DOMAIN paper |-> told[f]]
    BY <1>1
  <1>3. ASSUME NEW f \in DOMAIN paper
        PROVE  told[f] = paper[f] \/
               \E lie \in lies : lie.paper = name /\ lie.field = f /\ told[f] = lie.value
    <2>1. PICK here : here = {lie \in lies : lie.paper = name /\ lie.field = f}
      OBVIOUS
    <2>2. told[f] = IF here = {} THEN paper[f] ELSE (CHOOSE lie \in here : TRUE).value
      BY <1>1, <2>1
    <2>3. CASE here = {}
      BY <2>2, <2>3
    <2>4. CASE here # {}
      <3>1. PICK lie : lie = CHOOSE x \in here : TRUE
        OBVIOUS
      <3>2. lie \in here
        BY <2>4, <3>1, Zenon
      <3>3. QED
        BY <2>1, <2>2, <2>4, <3>1, <3>2
    <2>5. QED
      BY <2>3, <2>4
  <1>4. QED
    BY <1>2, <1>3

LEMMA LieIs ==
  ASSUME NEW p, NEW F, NEW V, NEW lie \in Lie(p, F, V)
  PROVE  lie.paper = p /\ lie.field \in F /\ lie.value \in V
  BY DEF Lie

\* The fields that hold an instant, the numbers that count from one, and the
\* fields whose value is a paper or a list of papers.
Times9 == {"issuedAt", "expiresAt", "bindingValidFrom", "bindingExpiresAt", "createdAt",
           "phone", "approver", "full", "binding"}
Counts == {"associationVersion", "authorityEpoch"}
Papers == {"content", "preEnrollment", "unsigned", "event", "enrollment", "proof",
           "challenge", "request"}
Handles == {<<>>, <<2>>, <<1, 1>>, <<1, 2>>, <<2, 1>>, <<1, 2, 3>>}

\* What a lie can say in its place.
FairLie(lie) ==
  /\ lie.field \in Times9 => lie.value \in Nat
  /\ lie.field \in Counts => lie.value = 2
  /\ lie.field \notin Papers
  /\ lie.field = "context" => lie.paper = "call"
  /\ lie.field = "operation" => lie.paper = "claim"
  /\ lie.field \in {"approvalEvent", "routingRequest", "actualRequest"} => lie.value = <<>>
  /\ lie.field = "recipientHandle" => lie.value \in {Null, 1}
  /\ lie.field \in {"recipientDeviceHandles", "keyWraps"} => lie.value \in Handles
  /\ lie.field # "deviceHandle"

LEMMA LiesAreFair ==
  ASSUME NEW k \in Kinds, NEW lie \in Lies[k]
  PROVE  FairLie(lie)
  <1> USE LieIs DEF FairLie, Times9, Counts, Papers, Handles
  <1>1. ASSUME NEW papers, lie \in Loose(papers)
        PROVE  FairLie(lie)
    <2>1. PICK p \in papers : lie \in Lie(p, {"form"}, {"loose"})
      BY <1>1 DEF Loose
    <2>2. lie.field = "form"
      BY <2>1
    <2>3. QED
      BY <2>2
  <1>2. ASSUME NEW paper, NEW fields, lie \in Times(paper, fields), fields \subseteq Times9
        PROVE  FairLie(lie)
    <2>1. lie.field \in fields /\ lie.value \in 0 .. Horizon
      BY <1>2 DEF Times
    <2>2. lie.field \in Times9
      BY <1>2, <2>1
    <2>3. Horizon \in Nat
      BY StatementAssumption
    <2>4. lie.value \in Nat
      BY <2>1, <2>3
    <2>5. QED
      BY <2>2, <2>4
  <1>3. ASSUME NEW paper, NEW field \in {"ed25519PublicKey", "publicKey"},
               lie \in KeyLies(paper, field)
        PROVE  FairLie(lie)
    <2>1. lie.field \in {field}
      BY <1>3 DEF KeyLies
    <2>2. QED
      BY <2>1
  <1>4. lie \in EventLies => FairLie(lie)
    BY <1>1 DEF EventLies, Another
  <1>5. lie \in ContextLies => FairLie(lie)
    BY <1>1 DEF ContextLies, Another, Null
  <1>6. lie \in EnrollmentLies => FairLie(lie)
    BY <1>1, <1>2, <1>3 DEF EnrollmentLies, Another
  <1>7. lie \in PreacceptedLies => FairLie(lie)
    BY <1>1, <1>2, <1>3 DEF PreacceptedLies, Another
  <1>8. lie \in BoundEnrollmentLies => FairLie(lie)
    BY <1>1, <1>2, <1>3 DEF BoundEnrollmentLies, Another
  <1>9. lie \in RequestLies => FairLie(lie)
    BY <1>1, <1>2, <1>3 DEF RequestLies, Another, Null
  <1>10. QED
    BY <1>4, <1>5, <1>6, <1>7, <1>8, <1>9 DEF Lies, Kinds


LEMMA FairSays ==
  ASSUME \A lie \in lies : FairLie(lie),
         NEW name, NEW paper, NEW told, told = Says(name, paper)
  PROVE  /\ told = [f \in DOMAIN paper |-> told[f]]
         /\ \A f \in DOMAIN paper \cap Times9 : paper[f] \in Nat => told[f] \in Nat
         /\ \A f \in DOMAIN paper \cap Counts : paper[f] = 1 => told[f] \in {1, 2}
         /\ \A f \in DOMAIN paper \cap Papers : told[f] = paper[f]
         /\ "context" \in DOMAIN paper /\ name # "call" => told.context = paper.context
         /\ "operation" \in DOMAIN paper /\ name # "claim" => told.operation = paper.operation
         /\ \A f \in DOMAIN paper \cap {"approvalEvent", "routingRequest", "actualRequest"} :
               told[f] \in {paper[f], <<>>}
         /\ "recipientHandle" \in DOMAIN paper /\ paper.recipientHandle \in {Null, 1} =>
               told.recipientHandle \in {Null, 1}
         /\ \A f \in DOMAIN paper \cap {"recipientDeviceHandles", "keyWraps"} :
               paper[f] \in Handles => told[f] \in Handles
         /\ "deviceHandle" \in DOMAIN paper => told.deviceHandle = paper.deviceHandle
  <1>1. told = [f \in DOMAIN paper |-> told[f]]
    BY SaysIs
  <1>2. \A f \in DOMAIN paper :
           told[f] = paper[f] \/
           \E lie \in lies : lie.paper = name /\ lie.field = f /\ told[f] = lie.value
    BY SaysIs
  <1>3. \A f \in DOMAIN paper :
           told[f] = paper[f] \/
           \E lie \in lies : /\ lie.paper = name /\ lie.field = f /\ told[f] = lie.value
                             /\ FairLie(lie)
    BY <1>2
  <1>4. \A f \in DOMAIN paper \cap Times9 : paper[f] \in Nat => told[f] \in Nat
    BY <1>3 DEF FairLie
  <1>5. \A f \in DOMAIN paper \cap Counts : paper[f] = 1 => told[f] \in {1, 2}
    BY <1>3 DEF FairLie
  <1>6. \A f \in DOMAIN paper \cap Papers : told[f] = paper[f]
    BY <1>3 DEF FairLie
  <1>7. /\ "context" \in DOMAIN paper /\ name # "call" => told.context = paper.context
        /\ "operation" \in DOMAIN paper /\ name # "claim" => told.operation = paper.operation
        /\ "deviceHandle" \in DOMAIN paper => told.deviceHandle = paper.deviceHandle
    BY <1>3 DEF FairLie
  <1>8. \A f \in DOMAIN paper \cap {"approvalEvent", "routingRequest", "actualRequest"} :
           told[f] \in {paper[f], <<>>}
    BY <1>3 DEF FairLie
  <1>9. "recipientHandle" \in DOMAIN paper /\ paper.recipientHandle \in {Null, 1} =>
           told.recipientHandle \in {Null, 1}
    BY <1>3 DEF FairLie
  <1>10. \A f \in DOMAIN paper \cap {"recipientDeviceHandles", "keyWraps"} :
            paper[f] \in Handles => told[f] \in Handles
    BY <1>3 DEF FairLie
  <1>11. QED
    BY <1>1, <1>4, <1>5, <1>6, <1>7, <1>8, <1>9, <1>10

LEMMA PreacceptedTyped ==
  ASSUME \A lie \in lies : FairLie(lie), NEW input, input = PreacceptedPapers
  PROVE  PreacceptedPapersTyped(input)
  <1>1. PICK claim, paired, pre, authorization, unsigned, event :
           /\ claim = Says("claim", IssuedClaim)
           /\ paired = Says("pairing", [pairingId |-> Pairing, createdAt |-> 1,
                                         expiresAt |-> 6])
           /\ pre = Says("pre", BoundPreEnrollment(claim, Ed25519, paired.pairingId, 7))
           /\ authorization = Says("authorization", AuthorizationEnvelope(claim, paired, pre))
           /\ unsigned = Says("unsigned", ApprovalUnsignedEvent(authorization))
           /\ event = Says("event", SignedEvent(unsigned, unsigned.pubkey))
    OBVIOUS
  <1>2. PICK enrollment, proof, context :
           /\ enrollment = Says("enrollment", Enrollment(pre, Audience, ChallengeId, 3, 5))
           /\ proof = Says("proof", EnrollmentProof(enrollment))
           /\ context = Says("context", Context(enrollment, enrollment.enrollmentChallengeId,
                                                AssociationId(enrollment), "enrollment-v2"))
    OBVIOUS
  <1>3. input = Says("input", [form |-> "canonical", acceptanceId |-> AcceptanceId(event),
                               event |-> event, context |-> context,
                               enrollment |-> enrollment, proof |-> proof])
    BY <1>1, <1>2 DEF PreacceptedPapers
  <1>4. /\ claim.issuedAt \in Nat /\ claim.expiresAt \in Nat
        /\ claim.bindingValidFrom \in Nat /\ claim.bindingExpiresAt \in Nat
    BY <1>1, FairSays DEF IssuedClaim, Times9
  <1>5. paired.createdAt \in Nat /\ paired.expiresAt \in Nat
    BY <1>1, FairSays DEF Times9
  <1>6. pre.issuedAt \in Nat /\ pre.expiresAt \in Nat
    BY <1>1, <1>4, FairSays DEF BoundPreEnrollment, Times9
  <1>7. authorization.content = claim /\ authorization.context = paired
        /\ authorization.preEnrollment = pre
    BY <1>1, FairSays DEF AuthorizationEnvelope, Papers
  <1>8. unsigned.content = authorization
    <2>1. PICK approval : approval = ApprovalUnsignedEvent(authorization)
      OBVIOUS
    <2>2. "content" \in DOMAIN approval /\ approval.content = authorization
      BY <2>1 DEF ApprovalUnsignedEvent
    <2>3. QED
      BY <1>1, <2>1, <2>2, FairSays DEF Papers
  <1>9. event.unsigned = unsigned
    BY <1>1, FairSays DEF SignedEvent, Papers
  <1>10. enrollment.issuedAt \in Nat /\ enrollment.expiresAt \in Nat
    BY <1>2, FairSays DEF Enrollment, Times9
  <1>11. context.associationVersion \in {1, 2} /\ context.authorityEpoch \in {1, 2}
    BY <1>2, FairSays DEF Context, Counts
  <1>12. input.event = event /\ input.enrollment = enrollment /\ input.context = context
    BY <1>3, FairSays DEF Papers
  <1>13. unsigned = [content |-> unsigned.content, createdAt |-> unsigned.createdAt,
                     pubkey |-> unsigned.pubkey,
                     authorizationDigest |-> unsigned.authorizationDigest,
                     preEnrollmentDigest |-> unsigned.preEnrollmentDigest,
                     requestId |-> unsigned.requestId, action |-> unsigned.action,
                     pairingId |-> unsigned.pairingId]
    <2>1. PICK approval : approval = ApprovalUnsignedEvent(authorization)
      OBVIOUS
    <2>2. DOMAIN approval = {"content", "createdAt", "pubkey", "authorizationDigest",
                             "preEnrollmentDigest", "requestId", "action", "pairingId"}
      BY <2>1 DEF ApprovalUnsignedEvent
    <2>3. unsigned = [f \in DOMAIN approval |-> unsigned[f]]
      BY <1>1, <2>1, FairSays
    <2>4. QED
      BY <2>2, <2>3
  <1>14. QED
    BY <1>4, <1>5, <1>6, <1>7, <1>8, <1>9, <1>10, <1>11, <1>12, <1>13
       DEF PreacceptedPapersTyped

\* The papers of a device that is bound already.
EnrollmentPapersTyped(input) ==
  /\ input.challenge.issuedAt \in Nat /\ input.challenge.expiresAt \in Nat
  /\ input.context.associationVersion \in {1, 2} /\ input.context.authorityEpoch \in {1, 2}
  /\ input.actualRequest = <<>> /\ input.routingRequest = <<>>
  /\ input.approvalEvent = <<>> \/
     \E event, unsigned :
        /\ input.approvalEvent = <<event>> /\ event.unsigned = unsigned
        /\ unsigned = [content |-> input.challenge, createdAt |-> unsigned.createdAt,
                       pubkey |-> unsigned.pubkey,
                       enrollmentDigest |-> unsigned.enrollmentDigest,
                       challengeId |-> unsigned.challengeId,
                       deviceId |-> unsigned.deviceId]

LEMMA EnrollmentTyped ==
  ASSUME \A lie \in lies : FairLie(lie), NEW input, input = EnrollmentPapers
  PROVE  EnrollmentPapersTyped(input)
  <1>1. PICK enrollment, approval, unsigned, event, proof, context :
           /\ enrollment = Says("enrollment",
                                Enrollment(BoundDevice, Audience, ChallengeId, 3, 5))
           /\ approval = EnrollmentApproval(enrollment)
           /\ unsigned = Says("unsigned", approval)
           /\ event = Says("event", SignedEvent(unsigned, unsigned.pubkey))
           /\ proof = Says("proof", EnrollmentProof(enrollment))
           /\ context = Says("context", Context(enrollment, enrollment.enrollmentChallengeId,
                                                AssociationId(enrollment), "enrollment-v2"))
    OBVIOUS
  <1>2. input = Says("input", [form |-> "canonical", context |-> context,
                               challenge |-> enrollment, proof |-> proof,
                               approvalEvent |-> <<event>>, actualRequest |-> <<>>,
                               routingRequest |-> <<>>])
    BY <1>1 DEF EnrollmentPapers
  <1>3. enrollment.issuedAt \in Nat /\ enrollment.expiresAt \in Nat
    BY <1>1, FairSays DEF Enrollment, Times9
  <1>4. context.associationVersion \in {1, 2} /\ context.authorityEpoch \in {1, 2}
    BY <1>1, FairSays DEF Context, Counts
  <1>5. event.unsigned = unsigned
    BY <1>1, FairSays DEF SignedEvent, Papers
  <1>6. /\ input.challenge = enrollment /\ input.context = context
        /\ input.approvalEvent \in {<<event>>, <<>>}
        /\ input.actualRequest = <<>> /\ input.routingRequest = <<>>
    BY <1>2, FairSays DEF Papers
  <1>7. unsigned = [content |-> enrollment, createdAt |-> unsigned.createdAt,
                    pubkey |-> unsigned.pubkey,
                    enrollmentDigest |-> unsigned.enrollmentDigest,
                    challengeId |-> unsigned.challengeId, deviceId |-> unsigned.deviceId]
    <2>1. DOMAIN approval = {"content", "createdAt", "pubkey", "enrollmentDigest",
                             "challengeId", "deviceId"}
          /\ approval.content = enrollment
      BY <1>1 DEF EnrollmentApproval
    <2>2. unsigned = [f \in DOMAIN approval |-> unsigned[f]]
      BY <1>1, FairSays
    <2>3. unsigned.content = enrollment
      BY <1>1, <2>1, FairSays DEF Papers
    <2>4. QED
      BY <2>1, <2>2, <2>3
  <1>8. QED
    BY <1>3, <1>4, <1>5, <1>6, <1>7 DEF EnrollmentPapersTyped

\* A request's papers, with its body.
RequestPapersTyped(input, body) ==
  /\ input.challenge.issuedAt \in Nat /\ input.challenge.expiresAt \in Nat
  /\ input.context.associationVersion \in {1, 2} /\ input.context.authorityEpoch \in {1, 2}
  /\ input.approvalEvent = <<>>
  /\ input.actualRequest = <<>> \/ \E actual : input.actualRequest = <<actual>>
  /\ input.challenge.request.recipientHandle \in {Null, 1}
  /\ kind = "submit" =>
        /\ input.challenge.request.operation = "ciphertext-submit"
        /\ body.recipientDeviceHandles \in Handles /\ body.keyWraps \in Handles
        /\ input.routingRequest = <<>> \/
           \E routing : input.routingRequest = <<routing>>
                        /\ routing.recipientDeviceHandles \in Handles
  /\ kind = "self-read" =>
        /\ input.challenge.request.operation = "recipient-self-read"
        /\ body.deviceHandle = 1 /\ input.routingRequest = <<>>

LEMMA RequestTyped ==
  ASSUME \A lie \in lies : FairLie(lie), kind \in {"submit", "self-read"},
         NEW input, input = RequestPapers.input, NEW body, body = RequestPapers.body
  PROVE  RequestPapersTyped(input, body)
  <1>1. PICK operation, envelope, plain :
           /\ operation = IF kind = "submit" THEN "ciphertext-submit" ELSE "recipient-self-read"
           /\ envelope = Says("envelope", [form |-> "canonical", messageId |-> 1,
                                           snapshotId |-> 1,
                                           recipientDeviceHandles |-> <<1, 2>>,
                                           keyWraps |-> <<1, 2>>])
           /\ plain = Says("body", [form |-> "canonical", deviceHandle |-> 1])
    OBVIOUS
  <1>2. body = IF kind = "submit" THEN envelope ELSE plain
    BY <1>1 DEF RequestPapers
  <1>3. PICK made, request, challenge, proof, context, actual, routing :
           /\ made = DeviceRequest([audience |-> Audience, subject |-> Subject,
                                    deviceId |-> Device, bindingId |-> BoundId,
                                    sessionBinding |-> Session], operation, body)
           /\ request = Says("request", made)
           /\ challenge = Says("challenge", DeviceChallenge(request, ChallengeId, 3, 5))
           /\ proof = Says("proof", DeviceProof(challenge, Ed25519))
           /\ context = Says("context",
                             Context(BoundDevice, challenge.challengeId,
                                     Digest("association", [deviceId |-> Device]),
                                     "device-request-v1"))
           /\ actual = Says("actual", request)
           /\ routing = Says("routing", RoutingRequest(body))
    OBVIOUS
  <1>4. input = Says("input",
                     [form |-> "canonical", context |-> context, challenge |-> challenge,
                      proof |-> proof, approvalEvent |-> <<>>, actualRequest |-> <<actual>>,
                      routingRequest |-> IF kind = "submit" THEN <<routing>> ELSE <<>>])
    BY <1>1, <1>2, <1>3 DEF RequestPapers
  <1>5. challenge.issuedAt \in Nat /\ challenge.expiresAt \in Nat
    BY <1>3, FairSays DEF DeviceChallenge, Times9
  <1>6. context.associationVersion \in {1, 2} /\ context.authorityEpoch \in {1, 2}
    BY <1>3, FairSays DEF Context, Counts
  <1>7. challenge.request = request
    BY <1>3, FairSays DEF DeviceChallenge, Papers
  <1>8. /\ input.challenge = challenge /\ input.context = context
        /\ input.actualRequest \in {<<actual>>, <<>>} /\ input.approvalEvent = <<>>
        /\ input.routingRequest \in {IF kind = "submit" THEN <<routing>> ELSE <<>>, <<>>}
    BY <1>4, FairSays DEF Papers
  <1>9. kind = "submit" => /\ body.recipientDeviceHandles \in Handles
                           /\ body.keyWraps \in Handles
    <2>1. <<1, 2>> \in Handles
      BY DEF Handles
    <2>2. envelope.recipientDeviceHandles \in Handles /\ envelope.keyWraps \in Handles
      BY <1>1, <2>1, FairSays
    <2>3. QED
      BY <1>2, <2>2
  <1>10. kind # "submit" => body.deviceHandle = 1
    BY <1>1, <1>2, FairSays
  <1>11. kind = "submit" => routing.recipientDeviceHandles \in Handles
    BY <1>3, <1>9, FairSays DEF RoutingRequest
  <1>12. request.operation = operation /\ request.recipientHandle \in {Null, 1}
    <2>1. /\ {"operation", "recipientHandle"} \subseteq DOMAIN made
          /\ made.operation = operation
          /\ made.recipientHandle = IF operation = "recipient-self-read" THEN body.deviceHandle
                                    ELSE Null
      BY <1>3 DEF DeviceRequest
    <2>2. made.recipientHandle \in {Null, 1}
      BY <1>1, <1>10, <2>1
    <2>3. QED
      BY <1>3, <2>1, <2>2, FairSays
  <1>13. QED
    BY <1>1, <1>5, <1>6, <1>7, <1>8, <1>9, <1>10, <1>11, <1>12 DEF RequestPapersTyped

-----------------------------------------------------------------------------
(* The papers of V1.                                                       *)

\* An increasing list is one whose neighbours increase.
LEMMA IncreasingIs ==
  ASSUME NEW handles \in Handles
  PROVE  /\ Increasing(handles) <=>
               \A i, j \in DOMAIN handles : i < j => handles[i] < handles[j]
         /\ Len(handles) \in Nat
  <1>1. CASE handles = <<>>
    BY <1>1 DEF Increasing
  <1>2. CASE handles = <<2>>
    BY <1>2 DEF Increasing
  <1>3. ASSUME NEW a \in Nat, NEW b \in Nat, handles = <<a, b>>
        PROVE  /\ Increasing(handles) <=>
                     \A i, j \in DOMAIN handles : i < j => handles[i] < handles[j]
               /\ Len(handles) \in Nat
    <2>1. Len(handles) = 2 /\ DOMAIN handles = 1 .. 2 /\ handles[1] = a /\ handles[2] = b
      BY <1>3
    <2>2. Increasing(handles) <=> a < b
      BY <2>1 DEF Increasing
    <2>3. (\A i, j \in DOMAIN handles : i < j => handles[i] < handles[j]) <=> a < b
      BY <2>1
    <2>4. QED
      BY <2>1, <2>2, <2>3
  <1>4. CASE handles = <<1, 2, 3>>
    <2>1. /\ Len(handles) = 3 /\ DOMAIN handles = 1 .. 3
          /\ handles[1] = 1 /\ handles[2] = 2 /\ handles[3] = 3
      BY <1>4
    <2>2. Increasing(handles)
      BY <2>1 DEF Increasing
    <2>3. \A i, j \in DOMAIN handles : i < j => handles[i] < handles[j]
      BY <2>1
    <2>4. QED
      BY <2>1, <2>2, <2>3
  <1>5. QED
    BY <1>1, <1>2, <1>3, <1>4 DEF Handles

LEMMA BoundApprovalIs ==
  ASSUME NEW enrollment, NEW unsigned,
         unsigned = [content |-> enrollment, createdAt |-> unsigned.createdAt,
                     pubkey |-> unsigned.pubkey,
                     enrollmentDigest |-> unsigned.enrollmentDigest,
                     challengeId |-> unsigned.challengeId, deviceId |-> unsigned.deviceId]
  PROVE  unsigned = EnrollmentApproval(enrollment) <=>
            /\ unsigned.createdAt = enrollment.issuedAt
            /\ unsigned.pubkey = enrollment.subject
            /\ unsigned.enrollmentDigest = EnrollmentDigest(enrollment)
            /\ unsigned.challengeId = enrollment.enrollmentChallengeId
            /\ unsigned.deviceId = enrollment.deviceId
  BY DEF EnrollmentApproval

\* The V1 producer verifies an enrollment exactly when its papers tell one story.
LEMMA BoundEnrollmentVerified ==
  ASSUME NEW input, EnrollmentPapersTyped(input), NEW now \in Nat
  PROVE  ParseInput(input) /\ VerifiedV1(input, now) <=>
            /\ OneBoundEnrollment(input)
            /\ input.challenge.issuedAt <= now /\ now < input.challenge.expiresAt
  <1>1. PICK enrollment, event, unsigned, proof, context :
           /\ enrollment = input.challenge /\ event = input.approvalEvent[1]
           /\ unsigned = event.unsigned /\ proof = input.proof /\ context = input.context
    OBVIOUS
  <1>2. input.approvalEvent = <<>> => Len(input.approvalEvent) = 0
    OBVIOUS
  <1>3. CASE Len(input.approvalEvent) # 1
    <2>1. ~OneBoundEnrollment(input)
      <3>1. PICK n : n = Len(input.approvalEvent)
        OBVIOUS
      <3>2. ~Agree({1, n})
        BY <1>3, <3>1, Agree2
      <3>3. QED
        BY <3>1, <3>2 DEF OneBoundEnrollment
    <2>2. ~ParseEnrollmentInput(input)
      BY <1>3 DEF ParseEnrollmentInput
    <2>3. ~ParseRequestInput(input)
      BY DEF ParseRequestInput, EnrollmentPapersTyped
    <2>4. QED
      BY <2>1, <2>2, <2>3 DEF ParseInput
  <1>4. CASE Len(input.approvalEvent) = 1
    <2> DEFINE
      Forms == /\ input.form = "canonical" /\ event.form = "canonical"
               /\ enrollment.form = "canonical" /\ proof.form = "canonical"
               /\ context.form = "canonical"
      Persons == /\ unsigned.pubkey = enrollment.subject
                 /\ event.signedBy = enrollment.subject /\ context.subject = enrollment.subject
      OneDevice == /\ unsigned.deviceId = enrollment.deviceId
                 /\ context.deviceId = enrollment.deviceId
      Signers == /\ context.ed25519PublicKey = enrollment.ed25519PublicKey
                 /\ proof.publicKey = enrollment.ed25519PublicKey
                 /\ proof.signedBy = enrollment.ed25519PublicKey
                 /\ enrollment.ed25519PublicKey # enrollment.subject
      Challenges == /\ unsigned.challengeId = enrollment.enrollmentChallengeId
                    /\ proof.enrollmentChallengeId = enrollment.enrollmentChallengeId
                    /\ context.challengeId = enrollment.enrollmentChallengeId
      Digests == /\ context.bindingId = enrollment.x25519BindingId
                 /\ context.commitment = enrollment.commitment
                 /\ unsigned.enrollmentDigest = EnrollmentDigest(enrollment)
                 /\ proof.enrollmentDigest = EnrollmentDigest(enrollment)
                 /\ event.id = EventId(unsigned) /\ event.signed = EventId(unsigned)
                 /\ proof.signed = EnrollmentProofPreimage(enrollment)
      Versions == /\ context.challengeKind = "enrollment-v2"
                  /\ context.approver # Null
                  /\ \/ /\ context.predecessorAssociationId = Null
                        /\ context.associationVersion = 1 /\ context.authorityEpoch = 1
                     \/ /\ context.predecessorAssociationId # Null
                        /\ context.associationVersion > 1
                  /\ context.audience = enrollment.audience
                  /\ unsigned.createdAt = enrollment.issuedAt
      Length == /\ enrollment.issuedAt < enrollment.expiresAt
                /\ enrollment.expiresAt - enrollment.issuedAt <= EnrollmentLife
      All == Forms /\ Persons /\ OneDevice /\ Signers /\ Challenges /\ Digests /\ Versions /\ Length
    <2>1. /\ unsigned = [content |-> enrollment, createdAt |-> unsigned.createdAt,
                         pubkey |-> unsigned.pubkey,
                         enrollmentDigest |-> unsigned.enrollmentDigest,
                         challengeId |-> unsigned.challengeId, deviceId |-> unsigned.deviceId]
          /\ input.approvalEvent # <<>>
          /\ input.actualRequest = <<>> /\ input.routingRequest = <<>>
          /\ context.associationVersion \in {1, 2} /\ context.authorityEpoch \in {1, 2}
          /\ enrollment.issuedAt \in Nat /\ enrollment.expiresAt \in Nat
      BY <1>1, <1>2, <1>4 DEF EnrollmentPapersTyped
    <2>2. OneBoundEnrollment(input) <=> All
      <3>1. Agree({"canonical", input.form, event.form, enrollment.form, proof.form,
                   context.form}) <=> Forms
        <4>1. PICK a, b, c, d, e, f :
                 /\ a = "canonical" /\ b = input.form /\ c = event.form
                 /\ d = enrollment.form /\ e = proof.form /\ f = context.form
          OBVIOUS
        <4>2. Agree({a, b, c, d, e, f}) <=> a = b /\ a = c /\ a = d /\ a = e /\ a = f
          BY Agree6, Zenon
        <4>3. QED
          BY <4>1, <4>2
      <3>2. Agree({enrollment.subject, unsigned.pubkey, event.signedBy, context.subject})
               <=> Persons
        BY Agree4, Zenon
      <3>3. Agree({enrollment.deviceId, unsigned.deviceId, context.deviceId}) <=> OneDevice
        BY Agree3, Zenon
      <3>4. /\ Agree({enrollment.ed25519PublicKey, context.ed25519PublicKey,
                      proof.publicKey, proof.signedBy})
            /\ enrollment.ed25519PublicKey # enrollment.subject
            <=> Signers
        BY Agree4, Zenon
      <3>5. Agree({enrollment.enrollmentChallengeId, unsigned.challengeId,
                   proof.enrollmentChallengeId, context.challengeId}) <=> Challenges
        BY Agree4, Zenon
      <3>6. /\ Agree({enrollment.x25519BindingId, context.bindingId})
            /\ Agree({enrollment.commitment, context.commitment})
            /\ Agree({EnrollmentDigest(enrollment), unsigned.enrollmentDigest,
                      proof.enrollmentDigest})
            /\ Agree({EventId(unsigned), event.id, event.signed})
            /\ Agree({EnrollmentProofPreimage(enrollment), proof.signed})
            <=> Digests
        BY Agree2, Agree3, Zenon
      <3>7. /\ context.challengeKind = "enrollment-v2"
            /\ context.approver # Null
            /\ \/ /\ context.predecessorAssociationId = Null
                  /\ Agree({1, context.associationVersion, context.authorityEpoch})
               \/ /\ context.predecessorAssociationId # Null
                  /\ context.associationVersion > 1
            /\ context.audience = enrollment.audience
            /\ unsigned.createdAt = enrollment.issuedAt
            <=> Versions
        <4>1. Agree({1, context.associationVersion, context.authorityEpoch}) <=>
                 context.associationVersion = 1 /\ context.authorityEpoch = 1
          BY Agree3, Zenon
        <4>2. QED
          BY <4>1
      <3>8. Lasts(enrollment.issuedAt, enrollment.expiresAt, EnrollmentLife) <=> Length
        BY <2>1, LivesAssumption DEF Lasts
      <3>9. Agree({1, Len(input.approvalEvent)})
        BY <1>4, Agree2, Zenon
      <3> HIDE DEF Forms, Persons, OneDevice, Signers, Challenges, Digests, Versions, Length
      <3>10. QED
        BY <1>1, <3>1, <3>2, <3>3, <3>4, <3>5, <3>6, <3>7, <3>8, <3>9 DEF OneBoundEnrollment
    <2>3. ParseInput(input) <=>
             /\ input.form = "canonical" /\ ParseContext(context)
             /\ context.challengeKind = "enrollment-v2" /\ ParseEnrollmentInput(input)
      <3>1. ~ParseRequestInput(input)
        BY <2>1 DEF ParseRequestInput
      <3>2. QED
        BY <1>1, <3>1 DEF ParseInput, Canonical
    <2>4. ParseEnrollmentInput(input) <=>
             /\ ParseEnrollment(enrollment) /\ proof.form = "canonical"
             /\ EnrollmentBindings(context, enrollment, proof)
             /\ ParseEnrollmentApproval(event, context, enrollment)
      BY <1>1, <1>4, <2>1 DEF ParseEnrollmentInput, Canonical
    <2>5. context.challengeKind = "enrollment-v2" =>
             (VerifiedV1(input, now) <=>
                 VerifyEnrollmentAuthorization(enrollment, event, proof, context.subject, now))
      BY <1>1 DEF VerifiedV1
    <2>6. unsigned = EnrollmentApproval(enrollment) <=>
             /\ unsigned.createdAt = enrollment.issuedAt
             /\ unsigned.pubkey = enrollment.subject
             /\ unsigned.enrollmentDigest = EnrollmentDigest(enrollment)
             /\ unsigned.challengeId = enrollment.enrollmentChallengeId
             /\ unsigned.deviceId = enrollment.deviceId
      BY <2>1, BoundApprovalIs
    <2>7. VerifyEnrollmentAuthorization(enrollment, event, proof, context.subject, now) <=>
             /\ ParseEnrollment(enrollment) /\ context.subject = enrollment.subject
             /\ enrollment.issuedAt <= now /\ now < enrollment.expiresAt
             /\ event.id = EventId(unsigned) /\ event.signedBy = unsigned.pubkey
             /\ event.signed = event.id /\ unsigned.pubkey = context.subject
             /\ unsigned = EnrollmentApproval(enrollment)
             /\ proof.form = "canonical"
             /\ proof.enrollmentChallengeId = enrollment.enrollmentChallengeId
             /\ proof.enrollmentDigest = EnrollmentDigest(enrollment)
             /\ proof.publicKey = enrollment.ed25519PublicKey
             /\ proof.signedBy = enrollment.ed25519PublicKey
             /\ proof.signed = EnrollmentProofPreimage(enrollment)
      BY <1>1 DEF VerifyEnrollmentAuthorization, VerifyNostrEvent, VerifyEd25519, Canonical
    <2>8. ASSUME context.subject = enrollment.subject, unsigned = EnrollmentApproval(enrollment)
          PROVE  ParseEnrollmentApproval(event, context, enrollment) <=> event.form = "canonical"
      <3>1. PICK approval : approval = EnrollmentApproval(enrollment)
        OBVIOUS
      <3>2. approval = [approval EXCEPT !.pubkey = context.subject]
        BY <2>8, <3>1 DEF EnrollmentApproval
      <3>3. unsigned.pubkey = context.subject
        BY <2>6, <2>8
      <3>4. QED
        BY <1>1, <2>8, <3>1, <3>2, <3>3 DEF ParseEnrollmentApproval, Canonical
    <2>9. ParseEnrollment(enrollment) <=>
             /\ enrollment.form = "canonical" /\ Length
             /\ enrollment.ed25519PublicKey # enrollment.subject
      BY DEF ParseEnrollment, Canonical
    <2>10. ASSUME ParseInput(input), VerifiedV1(input, now)
           PROVE  All /\ enrollment.issuedAt <= now /\ now < enrollment.expiresAt
      <3>1. /\ ParseContext(context) /\ context.challengeKind = "enrollment-v2"
            /\ input.form = "canonical"
            /\ ParseEnrollment(enrollment) /\ EnrollmentBindings(context, enrollment, proof)
            /\ ParseEnrollmentApproval(event, context, enrollment)
            /\ VerifyEnrollmentAuthorization(enrollment, event, proof, context.subject, now)
        BY <2>3, <2>4, <2>5, <2>10
      <3>2. event.form = "canonical"
        BY <3>1 DEF ParseEnrollmentApproval, Canonical
      <3>3. Versions
        BY <2>1, <2>6, <2>7, <3>1 DEF ParseContext, EnrollmentBindings
      <3>4. Forms /\ Persons /\ OneDevice /\ Signers /\ Challenges /\ Digests /\ Length
        BY <2>6, <2>7, <2>9, <3>1, <3>2 DEF ParseContext, EnrollmentBindings, Canonical
      <3>5. QED
        BY <2>7, <3>1, <3>3, <3>4
    <2>11. ASSUME All, enrollment.issuedAt <= now, now < enrollment.expiresAt
           PROVE  ParseInput(input) /\ VerifiedV1(input, now)
      <3>1. unsigned = EnrollmentApproval(enrollment)
        BY <2>6, <2>11
      <3>2. ParseEnrollment(enrollment)
        BY <2>9, <2>11
      <3>3. VerifyEnrollmentAuthorization(enrollment, event, proof, context.subject, now)
        BY <2>7, <2>11, <3>1, <3>2
      <3>4. ParseEnrollmentApproval(event, context, enrollment)
        BY <2>8, <2>11, <3>1
      <3>5. EnrollmentBindings(context, enrollment, proof)
        BY <2>11 DEF EnrollmentBindings
      <3>6. ParseContext(context)
        BY <2>1, <2>11 DEF ParseContext, Canonical
      <3>7. QED
        BY <2>3, <2>4, <2>5, <2>11, <3>2, <3>3, <3>4, <3>5, <3>6
    <2> HIDE DEF All
    <2>12. QED
      BY <1>1, <2>2, <2>10, <2>11
  <1>5. QED
    BY <1>3, <1>4

\* ... and a request exactly when its papers and its body tell one story.
LEMMA RequestVerified ==
  ASSUME kind \in {"submit", "self-read"}, NEW input, NEW body,
         RequestPapersTyped(input, body), NEW now \in Nat
  PROVE  (/\ kind = "submit" => RequestableBody("ciphertext-submit", body)
          /\ kind = "self-read" => RequestableBody("recipient-self-read", body)
          /\ ParseInput(input) /\ VerifiedV1(input, now))
         <=> (/\ OneRequest(input, body)
              /\ input.challenge.issuedAt <= now /\ now < input.challenge.expiresAt)
  <1>1. PICK challenge, request, proof, context :
           /\ challenge = input.challenge /\ request = challenge.request
           /\ proof = input.proof /\ context = input.context
    OBVIOUS
  <1> DEFINE
    Forms == /\ input.form = "canonical" /\ body.form = "canonical"
             /\ challenge.form = "canonical" /\ request.form = "canonical"
             /\ proof.form = "canonical" /\ context.form = "canonical"
    Parties == /\ request.path = request.operation
               /\ request.subject = context.subject /\ request.deviceId = context.deviceId
               /\ request.bindingId = context.bindingId
               /\ request.audience = context.audience
               /\ request.sessionBinding = context.sessionBinding
    Proofs == /\ proof.challengeId = challenge.challengeId
              /\ context.challengeId = challenge.challengeId
              /\ proof.publicKey = context.ed25519PublicKey
              /\ proof.signedBy = context.ed25519PublicKey
              /\ proof.signed = DeviceProofPreimage(challenge, proof.publicKey)
    Bound == /\ context.challengeKind = "device-request-v1"
             /\ context.subject # context.ed25519PublicKey
             /\ context.predecessorAssociationId = Null /\ context.approver = Null
    Length == /\ challenge.issuedAt < challenge.expiresAt
              /\ challenge.expiresAt - challenge.issuedAt <= ChallengeLife
    Sent == /\ Len(body.recipientDeviceHandles) \in 1 .. MaxRecipients
            /\ Increasing(body.recipientDeviceHandles)
            /\ body.keyWraps = body.recipientDeviceHandles
    Routed == /\ Len(input.routingRequest) = 1 /\ input.routingRequest[1].form = "canonical"
              /\ Len(input.routingRequest[1].recipientDeviceHandles) \in 1 .. MaxRecipients
              /\ Increasing(input.routingRequest[1].recipientDeviceHandles)
    Recipients == \/ kind = "self-read" /\ request.recipientHandle = 1
                  \/ kind = "submit" /\ request.recipientHandle = Null /\ Sent /\ Routed
    All == /\ Forms /\ input.actualRequest = <<request>> /\ Parties /\ Proofs /\ Bound
           /\ Length /\ Recipients
  <1>2. /\ challenge.issuedAt \in Nat /\ challenge.expiresAt \in Nat
        /\ context.associationVersion \in {1, 2} /\ context.authorityEpoch \in {1, 2}
        /\ input.approvalEvent = <<>>
        /\ input.actualRequest = <<>> \/ \E actual : input.actualRequest = <<actual>>
        /\ request.recipientHandle \in {Null, 1}
        /\ kind = "submit" => request.operation = "ciphertext-submit"
        /\ kind = "self-read" => request.operation = "recipient-self-read"
        /\ kind = "self-read" => body.deviceHandle = 1 /\ input.routingRequest = <<>>
    BY <1>1 DEF RequestPapersTyped
  <1>3. ASSUME kind = "submit", Len(input.routingRequest) = 1
        PROVE  input.routingRequest[1].recipientDeviceHandles \in Handles
    <2>1. input.routingRequest # <<>>
      BY <1>3
    <2>2. PICK routing : input.routingRequest = <<routing>>
                         /\ routing.recipientDeviceHandles \in Handles
      BY <1>3, <2>1 DEF RequestPapersTyped
    <2>3. QED
      BY <2>2
  <1>4. OneRequest(input, body) <=> All
    <2>1. Agree({"canonical", input.form, body.form, challenge.form, request.form,
                 proof.form, context.form}) <=> Forms
      <3>1. PICK a, b, c, d, e, f, g :
               /\ a = "canonical" /\ b = input.form /\ c = body.form /\ d = challenge.form
               /\ e = request.form /\ f = proof.form /\ g = context.form
        OBVIOUS
      <3>2. Agree({a, b, c, d, e, f, g}) <=>
               a = b /\ a = c /\ a = d /\ a = e /\ a = f /\ a = g
        BY Agree7, Zenon
      <3>3. QED
        BY <3>1, <3>2
    <2>2. /\ Agree({request.path, request.operation})
          /\ Agree({request.subject, context.subject})
          /\ Agree({request.deviceId, context.deviceId})
          /\ Agree({request.bindingId, context.bindingId})
          /\ Agree({request.audience, context.audience})
          /\ Agree({request.sessionBinding, context.sessionBinding})
          <=> Parties
      BY Agree2, Zenon
    <2>3. /\ Agree({challenge.challengeId, proof.challengeId, context.challengeId})
          /\ Agree({context.ed25519PublicKey, proof.publicKey, proof.signedBy})
          /\ Agree({DeviceProofPreimage(challenge, proof.publicKey), proof.signed})
          <=> Proofs
      BY Agree2, Agree3, Zenon
    <2>4. /\ context.challengeKind = "device-request-v1"
          /\ context.subject # context.ed25519PublicKey
          /\ Agree({Null, context.predecessorAssociationId, context.approver})
          <=> Bound
      BY Agree3, Zenon
    <2>5. Lasts(challenge.issuedAt, challenge.expiresAt, ChallengeLife) <=> Length
      BY <1>2, StatementAssumption DEF Lasts
    <2>6. (\/ /\ kind = "self-read"
              /\ request.recipientHandle = body.deviceHandle
           \/ /\ kind = "submit" /\ request.recipientHandle = Null
              /\ Len(input.routingRequest) = 1
              /\ input.routingRequest[1].form = "canonical"
              /\ \A handles \in {body.recipientDeviceHandles,
                                 input.routingRequest[1].recipientDeviceHandles} :
                    /\ Len(handles) \in 1 .. MaxRecipients
                    /\ \A i, j \in DOMAIN handles : i < j => handles[i] < handles[j]
              /\ body.keyWraps = body.recipientDeviceHandles)
          <=> Recipients
      <3>1. CASE kind = "self-read"
        BY <1>2, <3>1
      <3>2. CASE kind = "submit"
        <4>1. CASE Len(input.routingRequest) # 1
          BY <3>2, <4>1
        <4>2. CASE Len(input.routingRequest) = 1
          <5>1. PICK own, routed : /\ own = body.recipientDeviceHandles
                                   /\ routed = input.routingRequest[1].recipientDeviceHandles
            OBVIOUS
          <5>2. own \in Handles /\ routed \in Handles
            BY <1>3, <3>2, <4>2, <5>1 DEF RequestPapersTyped
          <5>3. /\ Increasing(own) <=> \A i, j \in DOMAIN own : i < j => own[i] < own[j]
                /\ Increasing(routed) <=>
                      \A i, j \in DOMAIN routed : i < j => routed[i] < routed[j]
            BY <5>2, IncreasingIs
          <5>4. (\A handles \in {own, routed} :
                    /\ Len(handles) \in 1 .. MaxRecipients
                    /\ \A i, j \in DOMAIN handles : i < j => handles[i] < handles[j])
                <=> (/\ Len(own) \in 1 .. MaxRecipients /\ Increasing(own)
                     /\ Len(routed) \in 1 .. MaxRecipients /\ Increasing(routed))
            BY <5>3, Zenon
          <5>5. QED
            BY <3>2, <4>2, <5>1, <5>4
        <4>3. QED
          BY <4>1, <4>2
      <3>3. QED
        BY <3>1, <3>2
    <2> HIDE DEF Forms, Parties, Proofs, Bound, Length, Recipients
    <2>7. QED
      BY <1>1, <2>1, <2>2, <2>3, <2>4, <2>5, <2>6 DEF OneRequest
  <1>5. ParseInput(input) <=>
           /\ input.form = "canonical" /\ ParseContext(context)
           /\ context.challengeKind # "enrollment-v2" /\ ParseRequestInput(input)
    <2>1. ~ParseEnrollmentInput(input)
      BY <1>2 DEF ParseEnrollmentInput
    <2>2. QED
      BY <1>1, <2>1 DEF ParseInput, Canonical
  <1>6. ParseContext(context) /\ context.challengeKind # "enrollment-v2" <=>
           context.form = "canonical" /\ Bound
    BY <1>2 DEF ParseContext, Canonical
  <1>7. ParseDeviceRequest(request) <=>
           /\ request.form = "canonical"
           /\ kind = "submit" => request.recipientHandle = Null
           /\ kind = "self-read" => request.recipientHandle = 1
    BY <1>2 DEF ParseDeviceRequest, Canonical, Null
  <1>8. ParseRequestInput(input) <=>
           /\ Len(input.actualRequest) = 1
           /\ ParseRequestChallenge(challenge)
           /\ ParseDeviceRequest(input.actualRequest[1]) /\ proof.form = "canonical"
           /\ request = input.actualRequest[1]
           /\ challenge.challengeId = context.challengeId
           /\ request.audience = context.audience /\ request.subject = context.subject
           /\ request.deviceId = context.deviceId /\ request.bindingId = context.bindingId
           /\ request.sessionBinding = context.sessionBinding
           /\ proof.challengeId = context.challengeId
           /\ proof.publicKey = context.ed25519PublicKey
           /\ kind = "submit" => Routed
    <2>1. /\ kind = "submit" => request.operation = "ciphertext-submit"
          /\ kind = "self-read" => request.operation # "ciphertext-submit"
                                   /\ input.routingRequest = <<>>
      BY <1>2
    <2>2. Routed <=> Len(input.routingRequest) = 1
                     /\ ParseRoutingRequest(input.routingRequest[1])
      BY DEF ParseRoutingRequest, Canonical
    <2>3. input.approvalEvent = <<>>
      BY <1>2
    <2> HIDE DEF Routed
    <2>4. QED
      BY <1>1, <2>1, <2>2, <2>3 DEF ParseRequestInput, Canonical
  <1>9. Len(input.actualRequest) = 1 /\ request = input.actualRequest[1] <=>
           input.actualRequest = <<request>>
    <2>1. CASE input.actualRequest = <<>>
      BY <2>1
    <2>2. CASE \E actual : input.actualRequest = <<actual>>
      BY <2>2
    <2>3. QED
      BY <1>2, <2>1, <2>2
  <1>10. ParseRequestChallenge(challenge) <=>
            /\ challenge.form = "canonical" /\ Length /\ ParseDeviceRequest(request)
            /\ request.path = request.operation
    BY <1>1 DEF ParseRequestChallenge, ParseDeviceChallenge, Canonical
  <1>11. context.challengeKind = "device-request-v1" =>
            (VerifiedV1(input, now) <=>
                VerifyDeviceProof(challenge, input.actualRequest[1], proof,
                                  context.ed25519PublicKey, now))
    BY <1>1 DEF VerifiedV1
  <1>12. VerifyDeviceProof(challenge, request, proof, context.ed25519PublicKey, now) <=>
            /\ challenge.form = "canonical" /\ Length /\ ParseDeviceRequest(request)
            /\ challenge.issuedAt <= now /\ now < challenge.expiresAt
            /\ proof.form = "canonical" /\ proof.challengeId = challenge.challengeId
            /\ proof.publicKey = context.ed25519PublicKey
            /\ proof.signedBy = context.ed25519PublicKey
            /\ proof.signed = DeviceProofPreimage(challenge, context.ed25519PublicKey)
    BY <1>1 DEF VerifyDeviceProof, InspectDeviceChallenge, ParseDeviceChallenge, VerifyEd25519,
                Canonical
  <1>13. /\ RequestableBody("ciphertext-submit", body) <=> body.form = "canonical" /\ Sent
         /\ RequestableBody("recipient-self-read", body) <=> body.form = "canonical"
    BY DEF RequestableBody, NormalEnvelope, Canonical
  <1>14. ASSUME kind = "submit" => RequestableBody("ciphertext-submit", body),
                kind = "self-read" => RequestableBody("recipient-self-read", body),
                ParseInput(input), VerifiedV1(input, now)
         PROVE  All /\ challenge.issuedAt <= now /\ now < challenge.expiresAt
    <2>1. /\ ParseContext(context) /\ context.challengeKind # "enrollment-v2"
          /\ input.form = "canonical" /\ ParseRequestInput(input)
      BY <1>5, <1>14
    <2>2. context.form = "canonical" /\ Bound
      BY <1>6, <2>1
    <2>3. input.actualRequest = <<request>> /\ request = input.actualRequest[1]
      BY <1>8, <1>9, <2>1
    <2>4. VerifyDeviceProof(challenge, request, proof, context.ed25519PublicKey, now)
      BY <1>11, <1>14, <2>2, <2>3
    <2>5. Recipients /\ body.form = "canonical" /\ request.form = "canonical"
      BY <1>7, <1>8, <1>10, <1>13, <1>14, <2>1
    <2> HIDE DEF Routed, Sent, Recipients
    <2>6. QED
      BY <1>8, <1>10, <1>12, <2>1, <2>2, <2>3, <2>4, <2>5
  <1>15. ASSUME All, challenge.issuedAt <= now, now < challenge.expiresAt
         PROVE  /\ kind = "submit" => RequestableBody("ciphertext-submit", body)
                /\ kind = "self-read" => RequestableBody("recipient-self-read", body)
                /\ ParseInput(input) /\ VerifiedV1(input, now)
    <2>1. input.actualRequest[1] = request /\ Len(input.actualRequest) = 1
      BY <1>15
    <2>2. ParseDeviceRequest(request)
      BY <1>7, <1>15
    <2>3. ParseRequestChallenge(challenge)
      BY <1>10, <1>15, <2>2
    <2>4. ParseRequestInput(input)
      BY <1>8, <1>15, <2>1, <2>2, <2>3
    <2>5. ParseInput(input)
      BY <1>5, <1>6, <1>15, <2>4
    <2>6. VerifyDeviceProof(challenge, request, proof, context.ed25519PublicKey, now)
      BY <1>12, <1>15, <2>2
    <2>7. VerifiedV1(input, now)
      BY <1>11, <1>15, <2>1, <2>6
    <2>8. /\ kind = "submit" => RequestableBody("ciphertext-submit", body)
          /\ kind = "self-read" => RequestableBody("recipient-self-read", body)
      BY <1>13, <1>15
    <2>9. QED
      BY <2>5, <2>7, <2>8
  <1> HIDE DEF All
  <1>16. QED
    BY <1>1, <1>4, <1>14, <1>15

-----------------------------------------------------------------------------
(* How long the papers are good.                                           *)

\* Open now and until the end of a life is open at every instant of it.
LEMMA OpenThrough ==
  ASSUME NEW S \in SUBSET Nat, NEW D \in SUBSET Nat, NEW now \in Nat, NEW life \in Nat \ {0}
  PROVE  (\A start \in S : start <= now) /\ (\A end \in D : now < end /\ now + life <= end)
         <=> \A t \in now .. now + life - 1 :
                (\A start \in S : start <= t) /\ (\A end \in D : t < end)
  <1>1. ASSUME \A start \in S : start <= now, \A end \in D : now < end /\ now + life <= end,
               NEW t \in now .. now + life - 1
        PROVE  (\A start \in S : start <= t) /\ (\A end \in D : t < end)
    <2>1. ASSUME NEW start \in S
          PROVE  start <= t
      BY <1>1, <2>1
    <2>2. ASSUME NEW end \in D
          PROVE  t < end
      BY <1>1, <2>2
    <2>3. QED
      BY <2>1, <2>2
  <1>2. ASSUME \A t \in now .. now + life - 1 :
                  (\A start \in S : start <= t) /\ (\A end \in D : t < end)
        PROVE  (\A start \in S : start <= now) /\ (\A end \in D : now < end /\ now + life <= end)
    <2>1. now \in now .. now + life - 1 /\ now + life - 1 \in now .. now + life - 1
      OBVIOUS
    <2>2. \A start \in S : start <= now
      BY <1>2, <2>1
    <2>3. ASSUME NEW end \in D
          PROVE  now < end /\ now + life <= end
      <3>1. now < end /\ now + life - 1 < end
        BY <1>2, <2>1
      <3>2. QED
        BY <3>1
    <2>4. QED
      BY <2>2, <2>3
  <1>3. QED
    BY <1>1, <1>2

LEMMA CallTyped ==
  ASSUME \A lie \in lies : FairLie(lie), NEW context, NEW call, call = Call(context)
  PROVE  call.phone \in Nat /\ call.approver \in Nat /\ call.full \in Nat /\ call.binding \in Nat
  BY FairSays DEF Call, Times9

\* The windows of a transcript, from their first instants to their last.
LEMMA OpenPreaccepted ==
  ASSUME kind = "preaccepted", NEW input, NEW t, NEW call, call = Call(input.context)
  PROVE  OpenAt(input, t) <=> /\ \A start \in TranscriptStarts(input) : start <= t
                              /\ \A end \in TranscriptDeadlines(input, call) : t < end
  <1>1. PICK authorization, claim, enrollment :
           /\ authorization = input.event.unsigned.content /\ claim = authorization.content
           /\ enrollment = input.enrollment
    OBVIOUS
  <1>2. (\A window \in AuthorizationWindows(authorization)
                       \cup {<<enrollment.issuedAt, enrollment.expiresAt>>} :
            window[1] <= t /\ t < window[2]) <=>
           /\ authorization.context.createdAt <= t /\ t < authorization.context.expiresAt
           /\ claim.issuedAt <= t /\ t < claim.expiresAt
           /\ authorization.preEnrollment.issuedAt <= t
           /\ t < authorization.preEnrollment.expiresAt
           /\ claim.bindingValidFrom <= t /\ t < claim.bindingExpiresAt
           /\ enrollment.issuedAt <= t /\ t < enrollment.expiresAt
    <2>1. PICK a, b, c, d, e :
             /\ a = <<authorization.context.createdAt, authorization.context.expiresAt>>
             /\ b = <<claim.issuedAt, claim.expiresAt>>
             /\ c = <<authorization.preEnrollment.issuedAt,
                      authorization.preEnrollment.expiresAt>>
             /\ d = <<claim.bindingValidFrom, claim.bindingExpiresAt>>
             /\ e = <<enrollment.issuedAt, enrollment.expiresAt>>
      OBVIOUS
    <2>2. AuthorizationWindows(authorization)
             \cup {<<enrollment.issuedAt, enrollment.expiresAt>>} = {a, b, c, d, e}
      BY <1>1, <2>1 DEF AuthorizationWindows
    <2>3. (\A window \in {a, b, c, d, e} : window[1] <= t /\ t < window[2]) <=>
             /\ a[1] <= t /\ t < a[2] /\ b[1] <= t /\ t < b[2] /\ c[1] <= t /\ t < c[2]
             /\ d[1] <= t /\ t < d[2] /\ e[1] <= t /\ t < e[2]
      BY Zenon
    <2>4. QED
      BY <2>1, <2>2, <2>3
  <1>3. (\A start \in TranscriptStarts(input) : start <= t) <=>
           /\ enrollment.issuedAt <= t /\ authorization.preEnrollment.issuedAt <= t
           /\ authorization.context.createdAt <= t /\ claim.issuedAt <= t
           /\ claim.bindingValidFrom <= t
    BY <1>1 DEF TranscriptStarts
  <1>4. (\A end \in TranscriptDeadlines(input, call) : t < end) <=>
           /\ t < enrollment.expiresAt /\ t < authorization.preEnrollment.expiresAt
           /\ t < authorization.context.expiresAt /\ t < claim.expiresAt
           /\ t < claim.bindingExpiresAt
           /\ t < call.phone /\ t < call.approver /\ t < call.full /\ t < call.binding
    BY <1>1 DEF TranscriptDeadlines
  <1>5. (\A end \in {call.phone, call.approver, call.full, call.binding} : t < end) <=>
           t < call.phone /\ t < call.approver /\ t < call.full /\ t < call.binding
    OBVIOUS
  <1>6. OpenAt(input, t) <=>
           /\ \A window \in AuthorizationWindows(authorization)
                            \cup {<<enrollment.issuedAt, enrollment.expiresAt>>} :
                 window[1] <= t /\ t < window[2]
           /\ \A end \in {call.phone, call.approver, call.full, call.binding} : t < end
    BY <1>1 DEF OpenAt
  <1>7. QED
    BY <1>2, <1>3, <1>4, <1>5, <1>6

LEMMA PreacceptedWindows ==
  ASSUME \A lie \in lies : FairLie(lie), kind = "preaccepted",
         NEW input, PreacceptedPapersTyped(input), NEW call, call = Call(input.context),
         NEW now \in Nat, NEW life \in Nat \ {0}
  PROVE  (/\ \A start \in TranscriptStarts(input) : start <= now
          /\ \A end \in TranscriptDeadlines(input, call) : now < end /\ now + life <= end)
         <=> \A t \in now .. now + life - 1 : OpenAt(input, t)
  <1>1. /\ TranscriptStarts(input) \in SUBSET Nat
        /\ TranscriptDeadlines(input, call) \in SUBSET Nat
    BY CallTyped DEF PreacceptedPapersTyped, TranscriptStarts, TranscriptDeadlines
  <1>2. PICK S \in SUBSET Nat, D \in SUBSET Nat :
           S = TranscriptStarts(input) /\ D = TranscriptDeadlines(input, call)
    BY <1>1
  <1>3. \A t : OpenAt(input, t) <=> (\A start \in S : start <= t) /\ (\A end \in D : t < end)
    BY <1>2, OpenPreaccepted
  <1>4. (\A start \in S : start <= now) /\ (\A end \in D : now < end /\ now + life <= end)
        <=> \A t \in now .. now + life - 1 :
               (\A start \in S : start <= t) /\ (\A end \in D : t < end)
    BY OpenThrough
  <1>5. QED
    BY <1>2, <1>3, <1>4

LEMMA ChallengeWindow ==
  ASSUME kind # "preaccepted", NEW input, input.challenge.issuedAt \in Nat,
         input.challenge.expiresAt \in Nat, NEW now \in Nat, NEW life \in Nat \ {0}
  PROVE  (/\ input.challenge.issuedAt <= now /\ now < input.challenge.expiresAt
          /\ now + life <= input.challenge.expiresAt)
         <=> \A t \in now .. now + life - 1 : OpenAt(input, t)
  <1>1. PICK S \in SUBSET Nat, D \in SUBSET Nat :
           S = {input.challenge.issuedAt} /\ D = {input.challenge.expiresAt}
    OBVIOUS
  <1>2. \A t : OpenAt(input, t) <=> (\A start \in S : start <= t) /\ (\A end \in D : t < end)
    BY <1>1 DEF OpenAt
  <1>3. (\A start \in S : start <= now) /\ (\A end \in D : now < end /\ now + life <= end)
        <=> \A t \in now .. now + life - 1 :
               (\A start \in S : start <= t) /\ (\A end \in D : t < end)
    BY OpenThrough
  <1>4. QED
    BY <1>1, <1>2, <1>3

-----------------------------------------------------------------------------
(* The producers.                                                          *)

\* What both statements demand of the call that asks for them.
LEMMA CallIs ==
  ASSUME NEW input, NEW call, call = Call(input.context)
  PROVE  CallAgrees(input) <=>
            /\ call.context = input.context /\ Configured(call, input.context)
            /\ kind = "preaccepted" =>
                  call.binding = input.event.unsigned.content.content.bindingExpiresAt
  <1>1. Agree({call.context, input.context}) <=> call.context = input.context
    BY Agree2, Zenon
  <1>2. Agree({call.issuer, call.signerIssuer, input.context.audience}) <=>
           call.issuer = call.signerIssuer /\ call.issuer = input.context.audience
    <2>1. PICK a, b, c : a = call.issuer /\ b = call.signerIssuer /\ c = input.context.audience
      OBVIOUS
    <2>2. Agree({a, b, c}) <=> a = b /\ a = c
      BY Agree3, Zenon
    <2>3. QED
      BY <2>1, <2>2
  <1>3. QED
    BY <1>1, <1>2 DEF CallAgrees, Configured

\* A statement is made exactly of papers that agree, while all of them are open.
LEMMA ProducesExactly ==
  ASSUME \A lie \in lies : FairLie(lie), kind \in Kinds, NEW input, input = Input,
         NEW now \in Nat, NEW life \in Lifes, NEW longest \in Longest
  PROVE  Produces(input, now, life, longest) <=>
            /\ Consistent(input) /\ CallAgrees(input)
            /\ kind # "preaccepted" => longest = LegacyLife
            /\ life <= longest
            /\ \A t \in now .. now + life - 1 : OpenAt(input, t)
  <1>1. PICK call : call = Call(input.context)
    OBVIOUS
  <1>2. life \in Nat \ {0}
    BY StatementAssumption DEF Lifes
  <1>3. CASE kind = "preaccepted"
    <2>1. input = PreacceptedPapers
      BY <1>3 DEF Input
    <2>2. PreacceptedPapersTyped(input)
      BY <2>1, PreacceptedTyped
    <2>3. VerifyPreacceptedEnrollment(input) <=> Consistent(input)
      BY <1>3, <2>2, EnrollmentVerified DEF Consistent
    <2>4. (/\ \A start \in TranscriptStarts(input) : start <= now
           /\ \A end \in TranscriptDeadlines(input, call) : now < end /\ now + life <= end)
          <=> \A t \in now .. now + life - 1 : OpenAt(input, t)
      BY <1>1, <1>2, <1>3, <2>2, PreacceptedWindows
    <2>5. CallAgrees(input) <=>
             /\ call.context = input.context /\ Configured(call, input.context)
             /\ call.binding = input.event.unsigned.content.content.bindingExpiresAt
      BY <1>1, <1>3, CallIs
    <2>6. Produces(input, now, life, longest) <=> ProducesV2(input, now, life, longest)
      BY <1>3 DEF Produces
    <2>7. ProducesV2(input, now, life, longest) <=>
             /\ VerifyPreacceptedEnrollment(input)
             /\ call.context = input.context /\ Configured(call, input.context)
             /\ life <= longest
             /\ call.binding = input.event.unsigned.content.content.bindingExpiresAt
             /\ \A start \in TranscriptStarts(input) : start <= now
             /\ \A end \in TranscriptDeadlines(input, call) : now < end /\ now + life <= end
      BY <1>1 DEF ProducesV2
    <2>8. QED
      BY <1>3, <2>3, <2>4, <2>5, <2>6, <2>7
  <1>4. CASE kind # "preaccepted"
    <2> DEFINE
      Submittable ==
        /\ kind = "submit" => RequestableBody("ciphertext-submit", RequestPapers.body)
        /\ kind = "self-read" => RequestableBody("recipient-self-read", RequestPapers.body)
      Within == input.challenge.issuedAt <= now /\ now < input.challenge.expiresAt
    <2>1. /\ input.challenge.issuedAt \in Nat /\ input.challenge.expiresAt \in Nat
          /\ Submittable /\ ParseInput(input) /\ VerifiedV1(input, now) <=>
                Consistent(input) /\ Within
      <3>1. CASE kind = "enrollment"
        <4>1. input = EnrollmentPapers
          BY <3>1 DEF Input
        <4>2. EnrollmentPapersTyped(input)
          BY <4>1, EnrollmentTyped
        <4>3. ParseInput(input) /\ VerifiedV1(input, now) <=> OneBoundEnrollment(input) /\ Within
          BY <4>2, BoundEnrollmentVerified
        <4>4. QED
          BY <3>1, <4>2, <4>3 DEF Consistent, EnrollmentPapersTyped
      <3>2. CASE kind \in {"submit", "self-read"}
        <4>1. PICK body : body = RequestPapers.body
          OBVIOUS
        <4>2. input = RequestPapers.input
          BY <3>2 DEF Input
        <4>3. RequestPapersTyped(input, body)
          BY <3>2, <4>1, <4>2, RequestTyped
        <4>4. (/\ kind = "submit" => RequestableBody("ciphertext-submit", body)
               /\ kind = "self-read" => RequestableBody("recipient-self-read", body)
               /\ ParseInput(input) /\ VerifiedV1(input, now))
              <=> OneRequest(input, body) /\ Within
          BY <3>2, <4>3, RequestVerified
        <4>5. Consistent(input) <=> OneRequest(input, body)
          BY <3>2, <4>1 DEF Consistent
        <4>6. QED
          BY <4>1, <4>3, <4>4, <4>5 DEF RequestPapersTyped
      <3>3. QED
        BY <1>4, <3>1, <3>2 DEF Kinds
    <2>2. Within /\ now + life <= input.challenge.expiresAt <=>
             \A t \in now .. now + life - 1 : OpenAt(input, t)
      BY <1>2, <1>4, <2>1, ChallengeWindow
    <2>3. CallAgrees(input) <=>
             call.context = input.context /\ Configured(call, input.context)
      BY <1>1, <1>4, CallIs
    <2>4. Produces(input, now, life, longest) <=>
             Submittable /\ longest = LegacyLife /\ ProducesV1(input, now, life)
      BY <1>4 DEF Produces
    <2>5. ProducesV1(input, now, life) <=>
             /\ ParseInput(input) /\ call.context = input.context
             /\ Configured(call, input.context) /\ life <= LegacyLife
             /\ now + life <= input.challenge.expiresAt /\ VerifiedV1(input, now)
      BY <1>1 DEF ProducesV1
    <2> HIDE DEF Submittable, Within
    <2>6. QED
      BY <1>4, <2>1, <2>2, <2>3, <2>4, <2>5
  <1>5. QED
    BY <1>3, <1>4

-----------------------------------------------------------------------------
(* Behaviours.                                                             *)

\* The lies are lies of the papers that are collected, a statement is dated,
\* and while it is good every window is open.
StatementInv ==
  /\ kind \in Kinds /\ lies \subseteq Lies[kind] /\ clock \in Nat
  /\ statement \in [issuedAt : Nat, expiresAt : Nat, signed : BOOLEAN]
  /\ statement # NoStatement =>
        /\ clock > 0 /\ statement.issuedAt <= clock
        /\ \A t \in statement.issuedAt .. statement.expiresAt - 1 : OpenAt(Input, t)

\* The papers of an enrollment, one by one.
ClaimPaper == Says("claim", IssuedClaim)
PairingPaper == Says("pairing", [pairingId |-> Pairing, createdAt |-> 1, expiresAt |-> 6])
PrePaper == Says("pre", BoundPreEnrollment(ClaimPaper, Ed25519, PairingPaper.pairingId, 7))
AuthorizationPaper ==
  Says("authorization", AuthorizationEnvelope(ClaimPaper, PairingPaper, PrePaper))
UnsignedPaper == Says("unsigned", ApprovalUnsignedEvent(AuthorizationPaper))
EventPaper == Says("event", SignedEvent(UnsignedPaper, UnsignedPaper.pubkey))
EnrollmentPaper == Says("enrollment", Enrollment(PrePaper, Audience, ChallengeId, 3, 5))
ProofPaper == Says("proof", EnrollmentProof(EnrollmentPaper))
ContextPaper ==
  Says("context", Context(EnrollmentPaper, EnrollmentPaper.enrollmentChallengeId,
                          AssociationId(EnrollmentPaper), "enrollment-v2"))
PreacceptedPaper ==
  Says("input", [form |-> "canonical", acceptanceId |-> AcceptanceId(EventPaper),
                 event |-> EventPaper, context |-> ContextPaper,
                 enrollment |-> EnrollmentPaper, proof |-> ProofPaper])

LEMMA PreacceptedPaperIs == PreacceptedPapers = PreacceptedPaper
  BY DEF PreacceptedPapers, PreacceptedPaper, ContextPaper, ProofPaper, EnrollmentPaper,
         EventPaper, UnsignedPaper, AuthorizationPaper, PrePaper, PairingPaper, ClaimPaper

\* ... and of a request.
OperationPaper == IF kind = "submit" THEN "ciphertext-submit" ELSE "recipient-self-read"
BodyPaper ==
  IF kind = "submit"
  THEN Says("envelope", [form |-> "canonical", messageId |-> 1, snapshotId |-> 1,
                         recipientDeviceHandles |-> <<1, 2>>, keyWraps |-> <<1, 2>>])
  ELSE Says("body", [form |-> "canonical", deviceHandle |-> 1])
MadePaper ==
  DeviceRequest([audience |-> Audience, subject |-> Subject, deviceId |-> Device,
                 bindingId |-> BoundId, sessionBinding |-> Session],
                OperationPaper, BodyPaper)
RequestPaper == Says("request", MadePaper)
ChallengePaper == Says("challenge", DeviceChallenge(RequestPaper, ChallengeId, 3, 5))
RequestProofPaper == Says("proof", DeviceProof(ChallengePaper, Ed25519))
RequestContextPaper ==
  Says("context", Context(BoundDevice, ChallengePaper.challengeId,
                          Digest("association", [deviceId |-> Device]), "device-request-v1"))
ActualPaper == Says("actual", RequestPaper)
RoutingPaper == IF kind = "submit" THEN <<Says("routing", RoutingRequest(BodyPaper))>> ELSE <<>>
RequestInputPaper ==
  Says("input", [form |-> "canonical", context |-> RequestContextPaper,
                 challenge |-> ChallengePaper, proof |-> RequestProofPaper,
                 approvalEvent |-> <<>>, actualRequest |-> <<ActualPaper>>,
                 routingRequest |-> RoutingPaper])

LEMMA RequestPaperIs == RequestPapers.input = RequestInputPaper
  BY DEF RequestPapers, RequestInputPaper, RoutingPaper, ActualPaper, RequestContextPaper,
         RequestProofPaper, ChallengePaper, RequestPaper, MadePaper, BodyPaper, OperationPaper

\* What is open does not change once the papers are collected.
LEMMA OpenStays ==
  ASSUME kind' = kind, lies' = lies
  PROVE  \A t : OpenAt(Input, t)' <=> OpenAt(Input, t)
  <1>1. PreacceptedPapers' = PreacceptedPapers
    <2>1. ClaimPaper' = ClaimPaper /\ PairingPaper' = PairingPaper
      BY DEF ClaimPaper, PairingPaper, Says
    <2>2. PrePaper' = PrePaper
      BY <2>1 DEF PrePaper, Says
    <2>3. AuthorizationPaper' = AuthorizationPaper
      BY <2>1, <2>2 DEF AuthorizationPaper, Says
    <2>4. UnsignedPaper' = UnsignedPaper
      BY <2>3 DEF UnsignedPaper, Says
    <2>5. EventPaper' = EventPaper
      BY <2>4 DEF EventPaper, Says
    <2>6. EnrollmentPaper' = EnrollmentPaper
      BY <2>2 DEF EnrollmentPaper, Says
    <2>7. ProofPaper' = ProofPaper /\ ContextPaper' = ContextPaper
      BY <2>6 DEF ProofPaper, ContextPaper, Says
    <2>8. PreacceptedPaper' = PreacceptedPaper
      BY <2>5, <2>6, <2>7 DEF PreacceptedPaper, Says
    <2>9. (PreacceptedPapers = PreacceptedPaper)'
      BY PreacceptedPaperIs, PTL
    <2>10. QED
      BY <2>8, <2>9, PreacceptedPaperIs
  <1>2. EnrollmentPapers' = EnrollmentPapers
    BY DEF EnrollmentPapers, Says
  <1>3. RequestPapers.input' = RequestPapers.input
    <2>1. OperationPaper' = OperationPaper /\ BodyPaper' = BodyPaper
      BY DEF OperationPaper, BodyPaper, Says
    <2>2. MadePaper' = MadePaper
      BY <2>1 DEF MadePaper
    <2>3. RequestPaper' = RequestPaper
      BY <2>2 DEF RequestPaper, Says
    <2>4. ChallengePaper' = ChallengePaper /\ ActualPaper' = ActualPaper
      BY <2>3 DEF ChallengePaper, ActualPaper, Says
    <2>5. RequestProofPaper' = RequestProofPaper /\ RequestContextPaper' = RequestContextPaper
      BY <2>4 DEF RequestProofPaper, RequestContextPaper, Says
    <2>6. RoutingPaper' = RoutingPaper
      BY <2>1 DEF RoutingPaper, Says
    <2>7. RequestInputPaper' = RequestInputPaper
      BY <2>4, <2>5, <2>6 DEF RequestInputPaper, Says
    <2>8. (RequestPapers.input = RequestInputPaper)'
      BY RequestPaperIs, PTL
    <2>9. QED
      BY <2>7, <2>8, RequestPaperIs
  <1>4. Input' = Input
    BY <1>1, <1>2, <1>3 DEF Input
  <1>5. \A context : Call(context)' = Call(context)
    BY DEF Call, Says
  <1>6. QED
    BY <1>4, <1>5 DEF OpenAt

LEMMA StatementStart == Init => StatementInv
  BY DEF Init, StatementInv, NoStatement

LEMMA LiesFair ==
  ASSUME StatementInv
  PROVE  \A lie \in lies : FairLie(lie)
  BY LiesAreFair DEF StatementInv

\* A statement is made while the papers are open, and they stay what they are.
LEMMA StatementStep == StatementInv /\ [Next]_vars => StatementInv'
  <1> SUFFICES ASSUME StatementInv, [Next]_vars
               PROVE  StatementInv'
    OBVIOUS
  <1>1. ASSUME NEW lie \in Lies[kind], Collect(lie)
        PROVE  StatementInv'
    <2>1. statement = NoStatement /\ clock = 0
      BY <1>1 DEF Collect, StatementInv
    <2>2. kind' = kind /\ clock' = clock /\ statement' = statement
          /\ lies' = lies \cup {lie}
      BY <1>1 DEF Collect
    <2>3. lies' \subseteq Lies[kind]'
      BY <1>1, <2>2 DEF StatementInv, Lies
    <2>4. QED
      BY <2>1, <2>2, <2>3 DEF StatementInv
  <1>2. ASSUME NEW now \in 1 .. Horizon, NEW life \in Lifes, NEW longest \in Longest,
               Produce(now, life, longest)
        PROVE  StatementInv'
    <2>1. now \in Nat /\ now > 0 /\ life \in Nat
      BY StatementAssumption DEF Lifes
    <2>2. Produces(Input, now, life, longest) /\ kind' = kind /\ lies' = lies /\ clock' = now
          /\ statement' = [issuedAt |-> now, expiresAt |-> now + life, signed |-> FALSE]
      BY <1>2 DEF Produce
    <2>3. \A t \in now .. now + life - 1 : OpenAt(Input, t)
      <3>1. PICK input : input = Input
        OBVIOUS
      <3>2. \A lie \in lies : FairLie(lie)
        BY LiesFair
      <3>3. \A t \in now .. now + life - 1 : OpenAt(input, t)
        BY <2>1, <2>2, <3>1, <3>2, ProducesExactly DEF StatementInv
      <3>4. QED
        BY <3>1, <3>3
    <2>4. \A t \in statement'.issuedAt .. statement'.expiresAt - 1 : OpenAt(Input, t)'
      <3>1. statement'.issuedAt = now /\ statement'.expiresAt = now + life
        BY <2>2
      <3>2. \A t : OpenAt(Input, t)' <=> OpenAt(Input, t)
        BY <2>2, OpenStays
      <3>3. \A t \in now .. now + life - 1 : OpenAt(Input, t)'
        BY <2>3, <3>2, Zenon
      <3>4. statement'.issuedAt .. statement'.expiresAt - 1 = now .. now + life - 1
        BY <2>1, <3>1
      <3>5. QED
        BY <3>3, <3>4, Zenon
    <2>5. statement' \in [issuedAt : Nat, expiresAt : Nat, signed : BOOLEAN]
      BY <2>1, <2>2
    <2>6. lies' \subseteq Lies'[kind']
      BY <2>2 DEF StatementInv, Lies
    <2>7. clock' > 0 /\ statement'.issuedAt <= clock' /\ clock' \in Nat
      BY <2>1, <2>2
    <2>8. QED
      BY <2>2, <2>4, <2>5, <2>6, <2>7 DEF StatementInv
  <1>3. ASSUME kind' = kind, lies' = lies, clock' \in Nat, clock' >= clock,
               statement' \in [issuedAt : Nat, expiresAt : Nat, signed : BOOLEAN],
               statement' # NoStatement =>
                  /\ statement # NoStatement
                  /\ statement'.issuedAt = statement.issuedAt
                  /\ statement'.expiresAt = statement.expiresAt
        PROVE  StatementInv'
    <2>1. \A t : OpenAt(Input, t)' <=> OpenAt(Input, t)
      BY <1>3, OpenStays
    <2>2. lies' \subseteq Lies'[kind']
      BY <1>3 DEF StatementInv, Lies
    <2>3. ASSUME statement' # NoStatement
          PROVE  /\ clock' > 0 /\ statement'.issuedAt <= clock'
                 /\ \A t \in statement'.issuedAt .. statement'.expiresAt - 1 : OpenAt(Input, t)'
      <3>1. PICK now, later \in Nat : now = clock /\ later = clock'
        BY <1>3 DEF StatementInv
      <3>2. PICK issued \in Nat : issued = statement.issuedAt
        BY DEF StatementInv
      <3>3. now > 0 /\ issued <= now /\ later >= now
        BY <1>3, <2>3, <3>1, <3>2 DEF StatementInv
      <3>4. later > 0 /\ issued <= later
        BY <3>3
      <3>5. QED
        BY <1>3, <2>1, <2>3, <3>1, <3>2, <3>4 DEF StatementInv
    <2>4. QED
      BY <1>3, <2>2, <2>3 DEF StatementInv
  <1>4. CASE SignerAnswers
    <2>1. /\ statement # NoStatement /\ statement' = [statement EXCEPT !.signed = TRUE]
          /\ kind' = kind /\ lies' = lies /\ clock' = clock
      BY <1>4 DEF SignerAnswers, Asked
    <2>2. /\ statement' \in [issuedAt : Nat, expiresAt : Nat, signed : BOOLEAN]
          /\ statement'.issuedAt = statement.issuedAt
          /\ statement'.expiresAt = statement.expiresAt
      BY <2>1 DEF StatementInv
    <2>3. clock' \in Nat /\ clock' >= clock
      BY <2>1 DEF StatementInv
    <2>4. QED
      BY <1>3, <2>1, <2>2, <2>3
  <1>5. CASE SignerFails
    <2>1. /\ statement' = NoStatement
          /\ kind' = kind /\ lies' = lies /\ clock' = clock
      BY <1>5 DEF SignerFails
    <2>2. NoStatement \in [issuedAt : Nat, expiresAt : Nat, signed : BOOLEAN]
      BY DEF NoStatement
    <2>3. QED
      BY <1>3, <2>1, <2>2 DEF StatementInv
  <1>6. CASE Tick
    BY <1>3, <1>6 DEF Tick, StatementInv
  <1>7. CASE UNCHANGED vars
    BY <1>3, <1>7 DEF vars, StatementInv
  <1>8. QED
    BY <1>1, <1>2, <1>4, <1>5, <1>6, <1>7 DEF Next

\* A statement is made exactly of papers that tell one story, while every window
\* is open: no place of the story that the producers of V1 and V2 leave unchecked,
\* and no papers that agree and are refused.
THEOREM StatementsExact == Spec => []StatementExact
  <1>1. StatementInv => StatementExact
    <2> SUFFICES ASSUME StatementInv
                 PROVE  StatementExact
      OBVIOUS
    <2>1. PICK input : input = Input
      OBVIOUS
    <2>2. \A lie \in lies : FairLie(lie)
      BY LiesFair
    <2>3. kind \in Kinds
      BY DEF StatementInv
    <2>4. ASSUME NEW now \in 1 .. Horizon, NEW life \in Lifes, NEW longest \in Longest
          PROVE  Produces(input, now, life, longest) <=>
                    /\ Consistent(input) /\ CallAgrees(input)
                    /\ kind # "preaccepted" => longest = LegacyLife
                    /\ life <= longest
                    /\ \A t \in now .. now + life - 1 : OpenAt(input, t)
      <3>1. now \in Nat
        BY StatementAssumption
      <3>2. QED
        BY <2>1, <2>2, <2>3, <3>1, ProducesExactly
    <2>5. QED
      BY <2>1, <2>4 DEF StatementExact
  <1>2. QED
    BY <1>1, StatementStart, StatementStep, PTL DEF Spec

\* However late the signer answers, what an unexpired statement says is still
\* good: neither the sessions nor the entitlement nor the binding it rests on
\* end before it does.
THEOREM StatementsOpen == Spec => []StatementOpen
  <1>1. StatementInv => StatementOpen
    <2> SUFFICES ASSUME StatementInv, statement.signed, clock < statement.expiresAt
                 PROVE  OpenAt(Input, clock)
      BY DEF StatementOpen
    <2>1. statement # NoStatement
      BY DEF NoStatement
    <2>2. PICK now, issued, expires \in Nat :
             now = clock /\ issued = statement.issuedAt /\ expires = statement.expiresAt
      BY DEF StatementInv
    <2>3. issued <= now /\ now < expires
      BY <2>1, <2>2 DEF StatementInv
    <2>4. now \in issued .. expires - 1
      BY <2>3
    <2>5. QED
      BY <2>1, <2>2, <2>4 DEF StatementInv
  <1>2. QED
    BY <1>1, StatementStart, StatementStep, PTL DEF Spec

\* The server's own reading of an approval and the contract that it shares with
\* the browsers conclude the same of whatever parses.
THEOREM TwoVerifiersAgree == Spec => []VerifiersAgree
  <1>1. StatementInv => VerifiersAgree
    <2> SUFFICES ASSUME StatementInv, kind = "preaccepted", NEW input, input = Input,
                        Preflight(input)
                 PROVE  LocallyVerified(input) <=> ContractVerified(input)
      BY DEF VerifiersAgree
    <2>1. \A lie \in lies : FairLie(lie)
      BY LiesFair
    <2>2. input = PreacceptedPapers
      BY DEF Input
    <2>3. PreacceptedPapersTyped(input)
      BY <2>1, <2>2, PreacceptedTyped
    <2>4. QED
      BY <2>3, ReadingsAgree
  <1>2. QED
    BY <1>1, StatementStart, StatementStep, PTL DEF Spec

=============================================================================
