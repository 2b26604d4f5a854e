------------------------ MODULE MessagingDeviceProofs ------------------------
(* Proofs about MessagingDevice: what holds of the record, the tabs and UBID *)
(* for any number of tabs and accounts and every bound; and what holds when  *)
(* one tab is open.                                                          *)
EXTENDS MessagingDevice, SequenceTheorems, TLAPS

-----------------------------------------------------------------------------
(* What is inductive for any number of tabs.                               *)

Binds(op) == op \in {"register", "rotate"}
Keyed(proposal) == Binds(proposal.op) => proposal.key # None

\* Authorization n was signed for the account and the proposal.
SignedFor(n, subject, proposal) ==
    n \in DOMAIN signed /\ signed[n].subject = subject /\ signed[n].proposal = proposal

\* What holds of the record, and of every copy a tab has read.
RecGood(rec) ==
    /\ WellFormed(rec)
    /\ rec.proposal = None => \A op \in Ops : rec.state # PendingState[op]
    /\ rec.proposal # None => Keyed(rec.proposal)
    /\ rec.accepted = None => rec.state = "pending-register"
    /\ rec.pending # None => SignedFor(rec.pending, rec.subject, rec.proposal)
    /\ rec.auth # None => /\ rec.auth \in DOMAIN signed
                          /\ rec.auth \in accepted \/ OpOf(rec.auth) = "revoke"

\* Some accepted authorization names the binding of the record.
Sponsored ==
    /\ current.accepted # None
    /\ \E n \in accepted : OpOf(n) # "revoke" /\ BindingOf(n) = current.accepted

\* A copy whose binding is not the record's is older than an authorization.
Follows(rec) == rec.accepted \in {None, current.accepted} \/ Sponsored

KnownBinding(binding) == binding.id = Legacy \/ binding.id \in accepted

LegacyPcs == {"idle", "load", "snapshot", "act", "read-created", "legacy-answer", "read-legacy",
              "legacy-confirm", "legacy-ready", "read-ready"}
Signing == {"sign", "persist", "read-begun", "read-renewed"}
Submitted == {"read-persisted", "post", "answer", "confirm", "finalize", "read-final",
              "renew-snapshot", "renew"}
Retaining == Submitted \ {"read-persisted", "read-final"}
Unsigned == {"idle", "load", "snapshot", "act", "sign", "read-created", "read-begun",
             "read-required", "adopt", "renew-snapshot", "renew", "read-renewed"}

RunGood(r) ==
    /\ r.pc # "idle" => r.subject # None
    /\ r.rec # None => /\ RecGood(r.rec) /\ r.rec.subject = r.subject
                       /\ current # None /\ Follows(r.rec)
    /\ r.rec = None => r.pc \in {"idle", "load", "snapshot", "act", "read-created"}
    /\ r.snap # None => KnownBinding(r.snap)
    /\ r.pc \in {"read-required", "adopt"} => r.snap # None
    /\ r.proposal # None => Keyed(r.proposal)
    /\ r.pc \in Signing \cup Submitted => r.proposal # None
    /\ r.pc \in Submitted => SignedFor(r.auth, r.subject, r.proposal)
    /\ r.pc \in Retaining => r.rec.pending = r.auth
    /\ r.pc = "confirm" => r.auth \in accepted
    /\ r.pc \in {"finalize", "read-final"} => r.auth \in accepted \/ r.proposal.op = "revoke"
    /\ r.pc \in {"renew-snapshot", "renew"} => r.auth \in expired \ accepted
    /\ r.pc \notin LegacyPcs => r.on
    /\ r.on => enabled

\* One signature in a run: after a renewal nothing is replayed.
RunSigns(r) ==
    /\ r.signatures <= 1
    /\ r.pc \in Unsigned => r.signatures = 0
    /\ r.pc \in {"post", "answer"} /\ r.replay => r.signatures = 0
    /\ r.replay => r.pc \in {"post", "answer", "confirm", "finalize", "read-final",
                             "renew-snapshot", "renew"}

SignedGood ==
    \A n \in DOMAIN signed : /\ current # None /\ signed[n].subject = current.subject
                             /\ Keyed(signed[n].proposal)

RecordGood == \A rec \in LocalRecord : rec = current => RecGood(rec)
RunsGood == \A t \in Tab, r \in Run : r = run[t] => RunGood(r) /\ RunSigns(r)
BoundGood == \A s \in Subject, b \in Binding : b = bound[s] => KnownBinding(b)

DeviceInv ==
    /\ DeviceTypeOK /\ RecordGood /\ RunsGood /\ SignedGood /\ BoundGood
    /\ Deployed => enabled

-----------------------------------------------------------------------------
(* The steps of a run, field by field.                                     *)

\* Run s is run r, gone to pc, with these values.
Edited(s, r, pc, rec, snap, proposal, auth, replay, signatures) ==
    /\ s \in Run /\ s.pc = pc /\ s.rec = rec /\ s.snap = snap /\ s.proposal = proposal
    /\ s.auth = auth /\ s.replay = replay /\ s.signatures = signatures
    /\ s.subject = r.subject /\ s.on = r.on /\ s.action = r.action

\* The other tabs do not move.
Alone(t) == run' \in [Tab -> Run] /\ \A u \in Tab \ {t} : run'[u] = run[u]

Moved(t, pc, rec, snap, proposal, auth, replay, signatures) ==
    Alone(t) /\ Edited(run'[t], run[t], pc, rec, snap, proposal, auth, replay, signatures)

\* The fields of a run have their types.
LEMMA RunFields ==
  ASSUME DeviceTypeOK, NEW t \in Tab
  PROVE  /\ run[t] \in Run /\ run[t].pc \in Pcs /\ run[t].subject \in Maybe(Subject)
         /\ run[t].action \in Actions /\ run[t].on \in BOOLEAN /\ run[t].rec \in Maybe(LocalRecord)
         /\ run[t].snap \in Maybe(Binding) /\ run[t].proposal \in Maybe(Proposal)
         /\ run[t].auth \in Maybe(Nat) /\ run[t].replay \in BOOLEAN /\ run[t].signatures \in Nat
         /\ current \in Maybe(LocalRecord) /\ None \in Maybe(Nat)
  BY DEF DeviceTypeOK, Run, Maybe

\* A step that replaces the run of tab t.
LEMMA MovedTo ==
  ASSUME DeviceTypeOK, NEW t \in Tab, NEW s \in Run, run' = [run EXCEPT ![t] = s]
  PROVE  Alone(t) /\ run'[t] = s
  BY DEF DeviceTypeOK, Alone

LEMMA GoesOn ==
  ASSUME DeviceTypeOK, NEW t \in Tab, NEW r, r = run[t], NEW pc \in Pcs,
         run' = [run EXCEPT ![t] = Goes(t, pc)]
  PROVE  Moved(t, pc, r.rec, r.snap, r.proposal, r.auth, r.replay, r.signatures)
  <1> DEFINE s == Goes(t, pc)
  <1>1. Edited(s, r, pc, r.rec, r.snap, r.proposal, r.auth, r.replay, r.signatures)
    BY RunFields DEF Goes, Run, Edited
  <1>2. run' = [run EXCEPT ![t] = s]
    OBVIOUS
  <1> HIDE DEF s
  <1>3. QED
    BY <1>1, <1>2, MovedTo DEF Moved, Edited

LEMMA GoesReading ==
  ASSUME DeviceTypeOK, NEW t \in Tab, NEW r, r = run[t], NEW pc \in Pcs, NEW rec \in Maybe(LocalRecord),
         run' = [run EXCEPT ![t] = [Goes(t, pc) EXCEPT !.rec = rec]]
  PROVE  Moved(t, pc, rec, r.snap, r.proposal, r.auth, r.replay, r.signatures)
  <1> DEFINE s == [Goes(t, pc) EXCEPT !.rec = rec]
  <1>1. Edited(s, r, pc, rec, r.snap, r.proposal, r.auth, r.replay, r.signatures)
    BY RunFields DEF Goes, Run, Edited
  <1>2. run' = [run EXCEPT ![t] = s]
    OBVIOUS
  <1> HIDE DEF s
  <1>3. QED
    BY <1>1, <1>2, MovedTo DEF Moved, Edited

LEMMA GoesSeeing ==
  ASSUME DeviceTypeOK, NEW t \in Tab, NEW r, r = run[t], NEW pc \in Pcs, NEW snap \in Maybe(Binding),
         run' = [run EXCEPT ![t] = [Goes(t, pc) EXCEPT !.snap = snap]]
  PROVE  Moved(t, pc, r.rec, snap, r.proposal, r.auth, r.replay, r.signatures)
  <1> DEFINE s == [Goes(t, pc) EXCEPT !.snap = snap]
  <1>1. Edited(s, r, pc, r.rec, snap, r.proposal, r.auth, r.replay, r.signatures)
    BY RunFields DEF Goes, Run, Edited
  <1>2. run' = [run EXCEPT ![t] = s]
    OBVIOUS
  <1> HIDE DEF s
  <1>3. QED
    BY <1>1, <1>2, MovedTo DEF Moved, Edited

LEMMA GoesReconciling ==
  ASSUME DeviceTypeOK, NEW t \in Tab, NEW r, r = run[t], NEW pc \in Pcs, NEW proposal \in Maybe(Proposal), NEW auth \in Maybe(Nat),
         run' = [run EXCEPT ![t] = [Goes(t, pc) EXCEPT !.proposal = proposal, !.auth = auth]]
  PROVE  Moved(t, pc, r.rec, r.snap, proposal, auth, r.replay, r.signatures)
  <1> DEFINE s == [Goes(t, pc) EXCEPT !.proposal = proposal, !.auth = auth]
  <1>1. Edited(s, r, pc, r.rec, r.snap, proposal, auth, r.replay, r.signatures)
    BY RunFields DEF Goes, Run, Edited
  <1>2. run' = [run EXCEPT ![t] = s]
    OBVIOUS
  <1> HIDE DEF s
  <1>3. QED
    BY <1>1, <1>2, MovedTo DEF Moved, Edited

LEMMA GoesResuming ==
  ASSUME DeviceTypeOK, NEW t \in Tab, NEW r, r = run[t], NEW pc \in Pcs, NEW proposal \in Maybe(Proposal), NEW auth \in Maybe(Nat), NEW replay \in BOOLEAN,
         run' = [run EXCEPT ![t] = [Goes(t, pc) EXCEPT !.proposal = proposal, !.auth = auth, !.replay = replay]]
  PROVE  Moved(t, pc, r.rec, r.snap, proposal, auth, replay, r.signatures)
  <1> DEFINE s == [Goes(t, pc) EXCEPT !.proposal = proposal, !.auth = auth, !.replay = replay]
  <1>1. Edited(s, r, pc, r.rec, r.snap, proposal, auth, replay, r.signatures)
    BY RunFields DEF Goes, Run, Edited
  <1>2. run' = [run EXCEPT ![t] = s]
    OBVIOUS
  <1> HIDE DEF s
  <1>3. QED
    BY <1>1, <1>2, MovedTo DEF Moved, Edited

LEMMA GoesProposing ==
  ASSUME DeviceTypeOK, NEW t \in Tab, NEW r, r = run[t], NEW pc \in Pcs, NEW proposal \in Maybe(Proposal),
         run' = [run EXCEPT ![t] = [Goes(t, pc) EXCEPT !.proposal = proposal]]
  PROVE  Moved(t, pc, r.rec, r.snap, proposal, r.auth, r.replay, r.signatures)
  <1> DEFINE s == [Goes(t, pc) EXCEPT !.proposal = proposal]
  <1>1. Edited(s, r, pc, r.rec, r.snap, proposal, r.auth, r.replay, r.signatures)
    BY RunFields DEF Goes, Run, Edited
  <1>2. run' = [run EXCEPT ![t] = s]
    OBVIOUS
  <1> HIDE DEF s
  <1>3. QED
    BY <1>1, <1>2, MovedTo DEF Moved, Edited

LEMMA GoesSigned ==
  ASSUME DeviceTypeOK, NEW t \in Tab, NEW r, r = run[t], NEW pc \in Pcs, NEW auth \in Maybe(Nat),
         run' = [run EXCEPT ![t] = [Goes(t, pc) EXCEPT !.auth = auth]]
  PROVE  Moved(t, pc, r.rec, r.snap, r.proposal, auth, r.replay, r.signatures)
  <1> DEFINE s == [Goes(t, pc) EXCEPT !.auth = auth]
  <1>1. Edited(s, r, pc, r.rec, r.snap, r.proposal, auth, r.replay, r.signatures)
    BY RunFields DEF Goes, Run, Edited
  <1>2. run' = [run EXCEPT ![t] = s]
    OBVIOUS
  <1> HIDE DEF s
  <1>3. QED
    BY <1>1, <1>2, MovedTo DEF Moved, Edited

LEMMA GoesSigning ==
  ASSUME DeviceTypeOK, NEW t \in Tab, NEW r, r = run[t], NEW pc \in Pcs, NEW signatures \in Nat,
         run' = [run EXCEPT ![t] = [Goes(t, pc) EXCEPT !.signatures = signatures]]
  PROVE  Moved(t, pc, r.rec, r.snap, r.proposal, r.auth, r.replay, signatures)
  <1> DEFINE s == [Goes(t, pc) EXCEPT !.signatures = signatures]
  <1>1. Edited(s, r, pc, r.rec, r.snap, r.proposal, r.auth, r.replay, signatures)
    BY RunFields DEF Goes, Run, Edited
  <1>2. run' = [run EXCEPT ![t] = s]
    OBVIOUS
  <1> HIDE DEF s
  <1>3. QED
    BY <1>1, <1>2, MovedTo DEF Moved, Edited

-----------------------------------------------------------------------------
(* The writes, field by field.                                             *)

RecIs(rec, subject, key, req, state, acc, auth, pending, proposal, rotation) ==
    /\ rec \in LocalRecord /\ rec.subject = subject /\ rec.key = key /\ rec.req = req
    /\ rec.state = state /\ rec.accepted = acc /\ rec.auth = auth /\ rec.pending = pending
    /\ rec.proposal = proposal /\ rec.rotation = rotation

\* The compare-and-swap that write() is.
Saved(t) ==
    /\ current # None /\ current = run[t].rec /\ current \in LocalRecord
    /\ current' # None /\ WellFormed(current') /\ UpdateAllowed(current, current')

LEMMA NoneIs ==
  /\ None \notin Nat /\ None \notin Subject /\ None \notin LocalRecord /\ None \notin Binding
  /\ None \notin Proposal /\ None \notin Rotation
  BY DeviceAssumption

LEMMA RecordFields ==
  ASSUME NEW rec \in LocalRecord
  PROVE  /\ rec # None /\ rec.subject \in Subject /\ rec.key \in Nat /\ rec.req \in Nat
         /\ rec.state \in States /\ rec.accepted \in Maybe(Nat) /\ rec.auth \in Maybe(Nat)
         /\ rec.pending \in Maybe(Nat) /\ rec.proposal \in Maybe(Proposal)
         /\ rec.rotation \in Maybe(Rotation)
  BY NoneIs DEF LocalRecord

\* A proposal's fields have their types.
LEMMA ProposalFields ==
  ASSUME NEW p \in Maybe(Proposal), p # None
  PROVE  /\ p \in Proposal /\ p.op \in Ops /\ p.key \in Maybe(Nat) /\ p.expected \in Maybe(Nat)
         /\ p.req \in Nat /\ PendingState[p.op] \in States
  BY DEF Maybe, Proposal, PendingState, States, Ops

\* A signed authorization, and its number.
LEMMA SignedIs ==
  ASSUME DeviceTypeOK, NEW n \in DOMAIN signed
  PROVE  /\ n \in Nat /\ n # 0 /\ n # None
         /\ signed[n].subject \in Subject /\ signed[n].proposal \in Proposal
  <1>1. signed \in Seq([subject : Subject, proposal : Proposal]) /\ n \in 1..Len(signed)
    BY DEF DeviceTypeOK
  <1>2. signed[n] \in [subject : Subject, proposal : Proposal]
    BY <1>1, ElementOfSeq
  <1>3. QED
    BY <1>1, <1>2, NoneIs

\* What a write puts in the record it has read.
LEMMA EditAccepted ==
  ASSUME NEW rec \in LocalRecord, NEW acc \in Maybe(Nat),
         NEW next, next = [rec EXCEPT !.accepted = acc]
  PROVE  RecIs(next,
               rec.subject, rec.key, rec.req, rec.state, acc, rec.auth, rec.pending, rec.proposal,
               rec.rotation)
  BY RecordFields DEF LocalRecord, RecIs

LEMMA EditRequired ==
  ASSUME NEW rec \in LocalRecord, NEW acc \in Maybe(Nat), NEW state \in States,
         NEW next, next = [rec EXCEPT !.accepted = acc, !.state = state]
  PROVE  RecIs(next,
               rec.subject, rec.key, rec.req, state, acc, rec.auth, rec.pending, rec.proposal,
               rec.rotation)
  BY RecordFields DEF LocalRecord, RecIs

LEMMA EditBegun ==
  ASSUME NEW rec \in LocalRecord, NEW state \in States, NEW proposal \in Maybe(Proposal),
         NEW rotation \in Maybe(Rotation),
         NEW next, next = [rec EXCEPT !.proposal = proposal, !.rotation = rotation, !.state = state]
  PROVE  RecIs(next,
               rec.subject, rec.key, rec.req, state, rec.accepted, rec.auth, rec.pending,
               proposal, rotation)
  BY RecordFields DEF LocalRecord, RecIs

LEMMA EditPending ==
  ASSUME NEW rec \in LocalRecord, NEW state \in States, NEW proposal \in Maybe(Proposal),
         NEW pending \in Maybe(Nat),
         NEW next, next = [rec EXCEPT !.pending = pending, !.proposal = proposal, !.state = state]
  PROVE  RecIs(next,
               rec.subject, rec.key, rec.req, state, rec.accepted, rec.auth, pending,
               proposal, rec.rotation)
  BY RecordFields DEF LocalRecord, RecIs

LEMMA EditBound ==
  ASSUME NEW rec \in LocalRecord, NEW state \in States, NEW proposal \in Maybe(Proposal),
         NEW pending \in Maybe(Nat), NEW acc \in Maybe(Nat),
         NEW next, next = [rec EXCEPT !.pending = pending, !.proposal = proposal, !.state = state,
                           !.accepted = acc]
  PROVE  RecIs(next,
               rec.subject, rec.key, rec.req, state, acc, rec.auth, pending, proposal,
               rec.rotation)
  BY RecordFields DEF LocalRecord, RecIs

\* The ends of an operation.
LEMMA DoneRecord ==
  ASSUME NEW rec \in LocalRecord, NEW n \in Nat, NEW done,
         done = [rec EXCEPT !.auth = n, !.pending = None, !.proposal = None, !.rotation = None]
  PROVE  RecIs(done, rec.subject, rec.key, rec.req, rec.state, rec.accepted, n, None, None, None)
  BY RecordFields DEF LocalRecord, RecIs, Maybe

LEMMA RevokedRecord ==
  ASSUME NEW done \in LocalRecord, NEW next, next = [done EXCEPT !.state = "revoked"]
  PROVE  RecIs(next, done.subject, done.key, done.req, "revoked", done.accepted, done.auth,
               done.pending, done.proposal, done.rotation)
  BY RecordFields DEF LocalRecord, RecIs, States

LEMMA ReadyRecord ==
  ASSUME NEW done \in LocalRecord, NEW acc \in Maybe(Nat),
         NEW next, next = [done EXCEPT !.state = "ready", !.accepted = acc]
  PROVE  RecIs(next, done.subject, done.key, done.req, "ready", acc, done.auth,
               done.pending, done.proposal, done.rotation)
  BY RecordFields DEF LocalRecord, RecIs, States

LEMMA PromotedRecord ==
  ASSUME NEW done \in LocalRecord, NEW key \in Nat, NEW req \in Nat,
         NEW next, next = [done EXCEPT !.key = key, !.req = req]
  PROVE  RecIs(next, done.subject, key, req, done.state, done.accepted, done.auth,
               done.pending, done.proposal, done.rotation)
  BY RecordFields DEF LocalRecord, RecIs

\* A renewal changes request ids.
LEMMA RenewedRecord ==
  ASSUME NEW rec \in LocalRecord, NEW req \in Nat, rec.proposal # None,
         rec.proposal.op = "rotate" => rec.rotation # None,
         NEW next, next = Renewal(rec, req)
  PROVE  /\ RecIs(next, rec.subject, rec.key,
                  IF rec.proposal.op = "register" THEN req ELSE rec.req, rec.state,
                  rec.accepted, rec.auth, None, next.proposal, next.rotation)
         /\ next.proposal \in Proposal /\ next.proposal.op = rec.proposal.op
         /\ next.proposal.key = rec.proposal.key /\ next.proposal.req = req
         /\ next.proposal.expected = rec.proposal.expected
         /\ rec.proposal.op # "rotate" => next.rotation = rec.rotation
         /\ rec.proposal.op = "rotate" =>
               next.rotation \in Rotation /\ next.rotation.key = rec.rotation.key
               /\ next.rotation.req = req
  <1> DEFINE p == [rec.proposal EXCEPT !.req = req]
             rotation == IF rec.proposal.op = "rotate" THEN [rec.rotation EXCEPT !.req = req]
                                                       ELSE rec.rotation
             r == IF rec.proposal.op = "register" THEN req ELSE rec.req
  <1>1. p \in Proposal /\ p.op = rec.proposal.op /\ p.key = rec.proposal.key
        /\ p.expected = rec.proposal.expected /\ p.req = req
    BY RecordFields, ProposalFields DEF Proposal
  <1>2. /\ rotation \in Maybe(Rotation) /\ r \in Nat
        /\ rec.proposal.op = "rotate" => rotation \in Rotation /\ rotation.key = rec.rotation.key
                                      /\ rotation.req = req
    BY RecordFields DEF Rotation, Maybe
  <1>3. Renewal(rec, req) = [rec EXCEPT !.pending = None, !.proposal = p, !.req = r, !.rotation = rotation]
    BY RecordFields DEF Renewal, LocalRecord
  <1> HIDE DEF p, rotation, r
  <1>4. RecIs(Renewal(rec, req), rec.subject, rec.key, r, rec.state, rec.accepted, rec.auth, None, p, rotation)
    <2>1. p \in Maybe(Proposal) /\ rotation \in Maybe(Rotation) /\ r \in Nat /\ None \in Maybe(Nat)
      BY <1>1, <1>2 DEF Maybe
    <2>2. RecIs([rec EXCEPT !.pending = None, !.proposal = p, !.req = r, !.rotation = rotation],
                rec.subject, rec.key, r, rec.state, rec.accepted, rec.auth, None, p, rotation)
      BY <2>1, RecordFields DEF LocalRecord, RecIs
    <2>3. QED
      BY <2>2, <1>3
  <1>5. QED
    BY <1>1, <1>2, <1>4 DEF RecIs, p, r, rotation

-----------------------------------------------------------------------------
(* What a step may do to what a run relies on.                             *)

Grows ==
    /\ \A n \in DOMAIN signed : n \in DOMAIN signed' /\ signed'[n] = signed[n]
    /\ accepted \subseteq accepted' /\ expired \subseteq expired'
    /\ expired \cap accepted' \subseteq accepted
    /\ enabled => enabled'
    /\ current # None => /\ current' # None
                         /\ \/ current'.accepted = current.accepted
                            \/ current.accepted = None \/ Sponsored'

LEMMA SponsoredKept ==
  ASSUME DeviceTypeOK, Grows, current # None, Sponsored
  PROVE  Sponsored'
  <1>1. CASE current'.accepted = current.accepted
    <2>1. PICK n \in accepted : OpOf(n) # "revoke" /\ BindingOf(n) = current.accepted
      BY DEF Sponsored
    <2>2. n \in DOMAIN signed /\ n \in accepted' /\ signed'[n] = signed[n]
      BY DEF DeviceTypeOK, Grows
    <2>3. QED
      BY <1>1, <2>1, <2>2 DEF Sponsored, OpOf, BindingOf
  <1>2. QED
    BY <1>1 DEF Grows, Sponsored

LEMMA FollowsKept ==
  ASSUME DeviceTypeOK, Grows, current # None, NEW rec, Follows(rec)
  PROVE  Follows(rec)'
  BY SponsoredKept DEF Grows, Follows

LEMMA SignedForKept ==
  ASSUME Grows, NEW n, NEW subject, NEW proposal, SignedFor(n, subject, proposal)
  PROVE  SignedFor(n, subject, proposal)'
  BY DEF Grows, SignedFor

LEMMA RecKept ==
  ASSUME DeviceTypeOK, Grows, NEW rec, RecGood(rec)
  PROVE  RecGood(rec)'
  <1>1. rec.pending # None => SignedFor(rec.pending, rec.subject, rec.proposal)'
    BY SignedForKept DEF RecGood
  <1>2. rec.auth # None => /\ rec.auth \in DOMAIN signed'
                           /\ rec.auth \in accepted' \/ OpOf(rec.auth)' = "revoke"
    BY DEF RecGood, Grows, OpOf
  <1>3. QED
    BY <1>1, <1>2 DEF RecGood

LEMMA RunKept ==
  ASSUME DeviceTypeOK, Grows, NEW r, RunGood(r)
  PROVE  RunGood(r)'
  <1>1. r.rec # None => RecGood(r.rec)' /\ current' # None /\ Follows(r.rec)'
    BY RecKept, FollowsKept DEF RunGood, Grows
  <1>2. r.pc \in Submitted => SignedFor(r.auth, r.subject, r.proposal)'
    BY SignedForKept DEF RunGood
  <1>3. r.snap # None => KnownBinding(r.snap)'
    BY DEF RunGood, KnownBinding, Grows
  <1>4. /\ r.auth \in accepted => r.auth \in accepted'
        /\ r.auth \in expired \ accepted => r.auth \in expired' \ accepted'
        /\ enabled => enabled'
    BY DEF Grows
  <1>5. QED
    BY <1>1, <1>2, <1>3, <1>4 DEF RunGood

\* A step of one tab, or of none, preserves the invariant if what it changes
\* is good and the rest grows.
LEMMA StepKeeps ==
  ASSUME DeviceInv, Grows, DeviceTypeOK', SignedGood', RecordGood', BoundGood',
         \A u \in Tab, r \in Run : r = run'[u] =>
            r = run[u] \/ (RunGood(r)' /\ RunSigns(r))
  PROVE  DeviceInv'
  <1>1. RunsGood'
    <2> SUFFICES ASSUME NEW u \in Tab, NEW r \in Run, r = run'[u]
                 PROVE  RunGood(r)' /\ RunSigns(r)'
      BY DEF RunsGood
    <2>1. CASE r = run[u]
      BY <2>1, RunKept DEF DeviceInv, RunsGood, RunSigns
    <2>2. QED
      BY <2>1 DEF RunSigns
  <1>2. QED
    BY <1>1 DEF DeviceInv, Grows

\* A step of tab t that leaves the record and UBID alone.
LEMMA RunStepKeeps ==
  ASSUME DeviceInv, NEW t \in Tab, Alone(t),
         UNCHANGED <<current, ids, ubidVars, signed, worldVars>>,
         posted \subseteq posted', posted' \subseteq DOMAIN signed, commands \subseteq commands',
         commands' \subseteq [subject : Subject, key : Nat, req : Nat],
         \A r \in Run : r = run'[t] => RunGood(r) /\ RunSigns(r)
  PROVE  DeviceInv'
  <1> USE DEF ubidVars, worldVars
  <1>1. Grows
    BY DEF Grows
  <1>2. DeviceTypeOK'
    BY DEF DeviceInv, DeviceTypeOK, Alone
  <1>3. SignedGood' /\ BoundGood'
    BY DEF DeviceInv, SignedGood, BoundGood, KnownBinding
  <1>4. RecordGood'
    <2> SUFFICES ASSUME NEW rec \in LocalRecord, rec = current PROVE RecGood(rec)'
      BY DEF RecordGood
    <2>1. QED
      BY <1>1, RecKept DEF DeviceInv, RecordGood
  <1>5. ASSUME NEW u \in Tab, NEW r \in Run, r = run'[u]
        PROVE  r = run[u] \/ (RunGood(r)' /\ RunSigns(r))
    <2>1. CASE u = t
      BY <1>1, <1>5, <2>1, RunKept DEF DeviceInv
    <2>2. QED
      BY <1>5, <2>1 DEF Alone
  <1>6. QED
    BY <1>1, <1>2, <1>3, <1>4, <1>5, StepKeeps, ZenonT(60)

\* A write of tab t: what the transaction lets through keeps the binding of
\* the record, or takes that of an accepted authorization.
LEMMA WriteKeeps ==
  ASSUME DeviceInv, NEW t \in Tab, Alone(t), NEW prev \in LocalRecord, NEW next \in LocalRecord,
         current = prev, current' = next,
         ids' \in 0..MaxId, UNCHANGED <<ubidVars, posted, commands, worldVars>>,
         signed' \in Seq([subject : Subject, proposal : Proposal]), Len(signed') <= MaxSigned,
         \A n \in DOMAIN signed : n \in DOMAIN signed' /\ signed'[n] = signed[n],
         \A n \in DOMAIN signed' \ DOMAIN signed :
            signed'[n].subject = next.subject /\ Keyed(signed'[n].proposal),
         next.subject = prev.subject,
         next.accepted = prev.accepted \/ prev.accepted = None \/ Sponsored',
         RecGood(next)',
         \A r \in Run : r = run'[t] => RunGood(r)' /\ RunSigns(r)
  PROVE  DeviceInv'
  <1> USE DEF ubidVars, worldVars
  <1>1. Grows
    BY RecordFields DEF Grows
  <1>2. DeviceTypeOK'
    <2>1. /\ expired' \subseteq DOMAIN signed' /\ posted' \subseteq DOMAIN signed'
      BY DEF DeviceInv, DeviceTypeOK
    <2>2. QED
      BY <2>1 DEF DeviceInv, DeviceTypeOK, Alone, Maybe
  <1>3. SignedGood'
    BY RecordFields DEF DeviceInv, SignedGood
  <1>4. BoundGood'
    BY DEF DeviceInv, BoundGood, KnownBinding
  <1>5. RecordGood'
    BY DEF RecordGood
  <1>6. ASSUME NEW u \in Tab, NEW r \in Run, r = run'[u]
        PROVE  r = run[u] \/ (RunGood(r)' /\ RunSigns(r))
    BY <1>6 DEF Alone
  <1>7. QED
    BY <1>1, <1>2, <1>3, <1>4, <1>5, <1>6, StepKeeps, ZenonT(60)

-----------------------------------------------------------------------------
(* The steps of a run that write nothing.                                  *)

LEMMA RunOf ==
  ASSUME DeviceInv, NEW t \in Tab, NEW r, r = run[t]
  PROVE  /\ DeviceTypeOK /\ r \in Run /\ RunGood(r) /\ RunSigns(r)
         /\ r.pc \in Pcs /\ r.subject \in Maybe(Subject)
         /\ r.action \in Actions /\ r.on \in BOOLEAN /\ r.rec \in Maybe(LocalRecord)
         /\ r.snap \in Maybe(Binding) /\ r.proposal \in Maybe(Proposal)
         /\ r.auth \in Maybe(Nat) /\ r.replay \in BOOLEAN /\ r.signatures \in Nat
         /\ current \in Maybe(LocalRecord)
  <1>1. DeviceTypeOK
    BY DEF DeviceInv
  <1>2. QED
    BY <1>1, RunFields DEF DeviceInv, RunsGood

\* What a copy the run has read says of the record.
LEMMA RecOf ==
  ASSUME DeviceInv, NEW t \in Tab, NEW rec, rec = run[t].rec, rec # None
  PROVE  /\ rec \in LocalRecord /\ RecGood(rec) /\ rec.subject = run[t].subject /\ Follows(rec)
         /\ current \in LocalRecord /\ current # None /\ RecGood(current)
  <1>1. PICK r : r = run[t]
    OBVIOUS
  <1>2. r \in Run /\ RunGood(r) /\ r.rec \in Maybe(LocalRecord) /\ current \in Maybe(LocalRecord)
    BY <1>1, RunOf
  <1>3. current \in LocalRecord
    BY <1>1, <1>2 DEF RunGood, Maybe
  <1>4. QED
    BY <1>1, <1>2, <1>3 DEF RunGood, Maybe, DeviceInv, RecordGood

LEMMA SilentStepKeeps ==
  ASSUME DeviceInv, NEW t \in Tab, Alone(t),
         UNCHANGED <<current, ids, ubidVars, sentVars, worldVars>>,
         \A s \in Run : s = run'[t] => RunGood(s) /\ RunSigns(s)
  PROVE  DeviceInv'
  <1>1. /\ UNCHANGED <<current, ids, ubidVars, signed, worldVars>>
        /\ posted \subseteq posted' /\ posted' \subseteq DOMAIN signed
        /\ commands \subseteq commands'
        /\ commands' \subseteq [subject : Subject, key : Nat, req : Nat]
    BY DEF sentVars, DeviceInv, DeviceTypeOK
  <1>2. QED
    BY <1>1, RunStepKeeps, ZenonT(60)

\* A run that ends, and one that starts.
LEMMA StartedGood ==
  ASSUME DeviceInv, NEW t \in Tab, NEW s \in Run, run' = [run EXCEPT ![t] = s],
         s.pc \in {"idle", "load"}, s.pc # "idle" => s.subject # None,
         s.rec = None, s.snap = None, s.proposal = None, s.replay = FALSE, s.signatures = 0,
         s.on => enabled,
         UNCHANGED <<current, ids, ubidVars, sentVars, worldVars>>
  PROVE  DeviceInv'
  <1>1. DeviceTypeOK
    BY DEF DeviceInv
  <1>2. Alone(t) /\ run'[t] = s
    BY <1>1, MovedTo
  <1>3. RunGood(s) /\ RunSigns(s)
    BY DEF RunGood, RunSigns, Signing, Submitted, Retaining, LegacyPcs
  <1>4. QED
    BY <1>1, <1>2, <1>3, RunStepKeeps DEF sentVars, DeviceTypeOK

LEMMA NoRunIs ==
  /\ NoRun \in Run /\ NoRun.pc = "idle" /\ NoRun.rec = None /\ NoRun.snap = None
  /\ NoRun.proposal = None /\ NoRun.replay = FALSE /\ NoRun.signatures = 0 /\ NoRun.on = Deployed
  BY DeviceAssumption DEF NoRun, Run, Pcs, Actions, Maybe

LEMMA EndKeeps ==
  ASSUME DeviceInv, NEW t \in Tab, run' = [run EXCEPT ![t] = NoRun],
         UNCHANGED <<current, ids, ubidVars, sentVars, worldVars>>
  PROVE  DeviceInv'
  <1>1. NoRun.on => enabled
    BY NoRunIs DEF DeviceInv
  <1>2. QED
    BY <1>1, NoRunIs, StartedGood

LEMMA StartKeeps ==
  ASSUME DeviceInv, NEW t \in Tab, NEW action \in Actions, NEW on \in BOOLEAN,
         Start(t, action, on)
  PROVE  DeviceInv'
  <1> DEFINE s == [NoRun EXCEPT !.pc = "load", !.subject = session, !.action = action, !.on = on]
  <1>1. /\ session # None /\ session \in Maybe(Subject)
        /\ run' = [run EXCEPT ![t] = s] /\ (on => enabled)
        /\ UNCHANGED <<current, ids, ubidVars, sentVars, worldVars>>
    BY DEF Start, DeviceInv, DeviceTypeOK
  <1>2. /\ s \in Run /\ s.pc = "load" /\ s.subject = session /\ s.rec = None /\ s.snap = None
        /\ s.proposal = None /\ s.replay = FALSE /\ s.signatures = 0 /\ s.on = on
    BY <1>1, NoRunIs DEF Run, Pcs
  <1> HIDE DEF s
  <1>3. QED
    BY <1>1, <1>2, StartedGood

LEMMA LoadMoves ==
  ASSUME DeviceInv, NEW t \in Tab, Load(t), NEW r, r = run[t]
  PROVE  /\ r.pc = "load" /\ r.subject # None /\ (current # None => current.subject = r.subject)
         /\ UNCHANGED <<current, ids, ubidVars, sentVars, worldVars>>
         /\ Moved(t, "snapshot", current, r.snap, r.proposal, r.auth, r.replay, r.signatures)
  <1>1. /\ r.pc = "load" /\ r.subject # None /\ (current # None => current.subject = r.subject)
        /\ UNCHANGED <<current, ids, ubidVars, sentVars, worldVars>>
    BY DEF Load, SessionOf
  <1>2. DeviceTypeOK /\ r \in Run /\ RunGood(r) /\ RunSigns(r)
    BY RunOf
  <1>3. Moved(t, "snapshot", current, r.snap, r.proposal, r.auth, r.replay, r.signatures)
    BY <1>1, <1>2, RunOf, GoesReading DEF Load, Pcs
  <1>4. QED
    BY <1>1, <1>3

LEMMA LoadKeeps ==
  ASSUME DeviceInv, NEW t \in Tab, Load(t)
  PROVE  DeviceInv'
  <1>1. PICK r : r = run[t]
    OBVIOUS
  <1>2. /\ r.pc = "load" /\ r.subject # None /\ (current # None => current.subject = r.subject)
        /\ UNCHANGED <<current, ids, ubidVars, sentVars, worldVars>>
        /\ Moved(t, "snapshot", current, r.snap, r.proposal, r.auth, r.replay, r.signatures)
    BY <1>1, LoadMoves
  <1>3. DeviceTypeOK /\ RunGood(r) /\ RunSigns(r)
    BY <1>1, RunOf
  <1>4. current # None => RecGood(current) /\ Follows(current)
    BY <1>1, RunOf DEF DeviceInv, RecordGood, Follows, Maybe
  <1>5. ASSUME NEW s \in Run, s = run'[t] PROVE RunGood(s) /\ RunSigns(s)
    <2>1. RunGood(s)
      BY <1>1, <1>2, <1>3, <1>4, <1>5
         DEF Moved, Edited, RunGood, LegacyPcs, Signing, Submitted, Retaining
    <2>2. RunSigns(s)
      BY <1>2, <1>3, <1>4, <1>5 DEF Moved, Edited, RunSigns, Unsigned
    <2>3. QED
      BY <2>1, <2>2
  <1>6. QED
    BY <1>2, <1>5, SilentStepKeeps DEF Moved

LEMMA SnapshotMoves ==
  ASSUME DeviceInv, NEW t \in Tab, Snapshot(t), NEW r, r = run[t]
  PROVE  /\ r.pc = "snapshot" /\ r.subject # None
         /\ UNCHANGED <<current, ids, ubidVars, sentVars, worldVars>>
         /\ Moved(t, "act", r.rec, bound[r.subject], r.proposal, r.auth, r.replay, r.signatures)
  <1>1. /\ r.pc = "snapshot" /\ r.subject # None
        /\ UNCHANGED <<current, ids, ubidVars, sentVars, worldVars>>
    BY DEF Snapshot, SessionOf
  <1>2. DeviceTypeOK /\ r \in Run /\ RunGood(r) /\ RunSigns(r)
    BY RunOf
  <1>3. bound[r.subject] \in Maybe(Binding)
    BY <1>1, RunOf DEF DeviceInv, DeviceTypeOK, Maybe
  <1>4. run' = [run EXCEPT ![t] = [Goes(t, "act") EXCEPT !.snap = bound[r.subject]]]
    BY DEF Snapshot
  <1>5. Moved(t, "act", r.rec, bound[r.subject], r.proposal, r.auth, r.replay, r.signatures)
    BY <1>1, <1>2, <1>3, <1>4, RunOf, GoesSeeing DEF Snapshot, Pcs
  <1>6. QED
    BY <1>1, <1>5

LEMMA SnapshotKeeps ==
  ASSUME DeviceInv, NEW t \in Tab, Snapshot(t)
  PROVE  DeviceInv'
  <1>1. PICK r : r = run[t]
    OBVIOUS
  <1>2. /\ r.pc = "snapshot" /\ r.subject # None
        /\ UNCHANGED <<current, ids, ubidVars, sentVars, worldVars>>
        /\ Moved(t, "act", r.rec, bound[r.subject], r.proposal, r.auth, r.replay, r.signatures)
    BY <1>1, SnapshotMoves
  <1>3. DeviceTypeOK /\ RunGood(r) /\ RunSigns(r)
    BY <1>1, RunOf
  <1>4. bound[r.subject] # None => KnownBinding(bound[r.subject])
    BY <1>1, <1>2, RunOf DEF DeviceInv, DeviceTypeOK, BoundGood, Maybe
  <1>5. ASSUME NEW s \in Run, s = run'[t] PROVE RunGood(s) /\ RunSigns(s)
    <2>1. RunGood(s)
      BY <1>1, <1>2, <1>3, <1>4, <1>5
         DEF Moved, Edited, RunGood, LegacyPcs, Signing, Submitted, Retaining
    <2>2. RunSigns(s)
      BY <1>2, <1>3, <1>4, <1>5 DEF Moved, Edited, RunSigns, Unsigned
    <2>3. QED
      BY <2>1, <2>2
  <1>6. QED
    BY <1>2, <1>5, SilentStepKeeps DEF Moved

\* Where a read-back leads.
LEMMA AfterIs ==
  ASSUME NEW pc \in DOMAIN After
  PROVE  \/ pc = "read-created" /\ After[pc] = "act"
         \/ pc = "read-begun" /\ After[pc] = "sign"
         \/ pc = "read-required" /\ After[pc] = "adopt"
         \/ pc = "read-persisted" /\ After[pc] = "post"
         \/ pc = "read-renewed" /\ After[pc] = "sign"
         \/ pc = "read-legacy" /\ After[pc] = "legacy-confirm"
  BY DEF After

LEMMA BindingIs ==
  ASSUME NEW key \in Nat, NEW id \in Nat, NEW binding, binding = [key |-> key, id |-> id]
  PROVE  binding \in Binding /\ binding # None /\ binding.key = key /\ binding.id = id
  BY NoneIs DEF Binding

LEMMA ReadBackMoves ==
  ASSUME DeviceInv, NEW t \in Tab, ReadBack(t), NEW r, r = run[t]
  PROVE  /\ r.pc \in DOMAIN After /\ current # None /\ current.subject = r.subject
         /\ r.pc = "read-persisted" => current.pending = r.auth
         /\ UNCHANGED <<current, ids, ubidVars, sentVars, worldVars>>
         /\ Moved(t, After[r.pc], current, r.snap, r.proposal, r.auth, r.replay, r.signatures)
  <1>1. /\ r.pc \in DOMAIN After /\ current # None /\ current.subject = r.subject
        /\ r.pc = "read-persisted" => current.pending = r.auth
        /\ UNCHANGED <<current, ids, ubidVars, sentVars, worldVars>>
    BY DEF ReadBack
  <1>2. DeviceTypeOK /\ r \in Run /\ RunGood(r) /\ RunSigns(r)
    BY RunOf
  <1>3. After[r.pc] \in Pcs
    BY <1>1, AfterIs DEF Pcs
  <1>4. run' = [run EXCEPT ![t] = [Goes(t, After[r.pc]) EXCEPT !.rec = current]]
    BY DEF ReadBack
  <1>5. Moved(t, After[r.pc], current, r.snap, r.proposal, r.auth, r.replay, r.signatures)
    BY <1>1, <1>2, <1>3, <1>4, RunOf, GoesReading DEF ReadBack, Pcs
  <1>6. QED
    BY <1>1, <1>5

LEMMA ReadBackKeeps ==
  ASSUME DeviceInv, NEW t \in Tab, ReadBack(t)
  PROVE  DeviceInv'
  <1>1. PICK r : r = run[t]
    OBVIOUS
  <1>2. /\ r.pc \in DOMAIN After /\ current # None /\ current.subject = r.subject
        /\ r.pc = "read-persisted" => current.pending = r.auth
        /\ UNCHANGED <<current, ids, ubidVars, sentVars, worldVars>>
        /\ Moved(t, After[r.pc], current, r.snap, r.proposal, r.auth, r.replay, r.signatures)
    BY <1>1, ReadBackMoves
  <1>3. DeviceTypeOK /\ RunGood(r) /\ RunSigns(r)
    BY <1>1, RunOf
  <1>4. RecGood(current) /\ Follows(current)
    BY <1>1, <1>2, RunOf DEF DeviceInv, RecordGood, Follows, Maybe
  <1>5. r.pc \in DOMAIN After
    BY <1>2
  <1>6. ASSUME NEW s \in Run, s = run'[t] PROVE RunGood(s) /\ RunSigns(s)
    <2>1. RunGood(s)
      BY <1>1, <1>2, <1>3, <1>4, <1>5, <1>6, AfterIs
         DEF Moved, Edited, RunGood, LegacyPcs, Signing, Submitted, Retaining
    <2>2. RunSigns(s)
      BY <1>2, <1>3, <1>4, <1>5, <1>6, AfterIs DEF Moved, Edited, RunSigns, Unsigned
    <2>3. QED
      BY <2>1, <2>2
  <1>7. QED
    BY <1>2, <1>6, SilentStepKeeps DEF Moved

LEMMA FailKeeps ==
  ASSUME DeviceInv, NEW t \in Tab, Fail(t)
  PROVE  DeviceInv'
  BY EndKeeps DEF Fail

LEMMA ShowReadyKeeps ==
  ASSUME DeviceInv, NEW t \in Tab, ShowReady(t)
  PROVE  DeviceInv'
  BY EndKeeps DEF ShowReady

LEMMA ShowFinalKeeps ==
  ASSUME DeviceInv, NEW t \in Tab, ShowFinal(t)
  PROVE  DeviceInv'
  BY EndKeeps DEF ShowFinal

LEMMA ReconcileMoves ==
  ASSUME DeviceInv, NEW t \in Tab, Reconcile(t), NEW r, r = run[t]
  PROVE  /\ r.pc = "act" /\ r.on /\ r.rec # None /\ r.rec.pending # None
         /\ Proved(r.rec, r.snap)
         /\ UNCHANGED <<current, ids, ubidVars, sentVars, worldVars>>
         /\ Moved(t, "finalize", r.rec, r.snap, r.rec.proposal, r.rec.pending, r.replay, r.signatures)
  <1>1. /\ r.pc = "act" /\ r.on /\ r.rec # None /\ r.rec.pending # None
        /\ Proved(r.rec, r.snap)
        /\ UNCHANGED <<current, ids, ubidVars, sentVars, worldVars>>
    BY DEF Reconcile, Acting
  <1>2. DeviceTypeOK /\ r \in Run /\ RunGood(r) /\ RunSigns(r)
    BY RunOf
  <1>3. /\ r.rec \in LocalRecord /\ RecGood(r.rec) /\ r.rec.subject = r.subject
        /\ r.rec.proposal \in Maybe(Proposal) /\ r.rec.pending \in Maybe(Nat)
    BY <1>1, RecOf, RecordFields
  <1>4. Moved(t, "finalize", r.rec, r.snap, r.rec.proposal, r.rec.pending, r.replay, r.signatures)
    BY <1>1, <1>2, <1>3, RunOf, GoesReconciling DEF Reconcile, Pcs
  <1>5. QED
    BY <1>1, <1>4

LEMMA ReconcileKeeps ==
  ASSUME DeviceInv, NEW t \in Tab, Reconcile(t)
  PROVE  DeviceInv'
  <1>1. PICK r : r = run[t]
    OBVIOUS
  <1>2. /\ r.pc = "act" /\ r.on /\ r.rec # None /\ r.rec.pending # None
        /\ Proved(r.rec, r.snap)
        /\ UNCHANGED <<current, ids, ubidVars, sentVars, worldVars>>
        /\ Moved(t, "finalize", r.rec, r.snap, r.rec.proposal, r.rec.pending, r.replay, r.signatures)
    BY <1>1, ReconcileMoves
  <1>3. DeviceTypeOK /\ RunGood(r) /\ RunSigns(r)
    BY <1>1, RunOf
  <1>4. /\ r.rec \in LocalRecord /\ RecGood(r.rec) /\ r.rec.subject = r.subject
        /\ r.rec.proposal \in Maybe(Proposal) /\ r.rec.pending \in Maybe(Nat)
    BY <1>1, <1>2, RecOf, RecordFields
  <1>5. /\ r.rec.proposal # None /\ Keyed(r.rec.proposal) /\ r.rec.pending \in DOMAIN signed
        /\ SignedFor(r.rec.pending, r.subject, r.rec.proposal)
    BY <1>2, <1>4 DEF RecGood, WellFormed, SignedFor
  <1>6. r.rec.pending \in accepted \/ r.rec.proposal.op = "revoke"
    <2>1. r.rec.pending \in Nat /\ r.rec.pending # Legacy
      BY <1>3, <1>5 DEF DeviceTypeOK, Legacy
    <2>2. CASE r.rec.proposal.op = "register"
      <3>1. r.snap = [key |-> r.rec.key, id |-> r.rec.pending]
        BY <1>2, <2>2 DEF Proved
      <3>2. r.snap # None /\ r.snap.id = r.rec.pending
        BY <2>1, <3>1, <1>4, RecordFields, BindingIs
      <3>3. QED
        BY <1>3, <2>1, <3>2 DEF RunGood, KnownBinding
    <2>3. CASE r.rec.proposal.op = "rotate"
      <3>1. r.snap = [key |-> r.rec.rotation.key, id |-> r.rec.pending]
        BY <1>2, <2>3 DEF Proved
      <3>2. r.rec.rotation.key \in Nat
        BY <1>4, <1>5, <2>3, RecordFields DEF RecGood, WellFormed, Stands, Maybe, Rotation
      <3>3. r.snap # None /\ r.snap.id = r.rec.pending
        BY <2>1, <3>1, <3>2, BindingIs
      <3>4. QED
        BY <1>3, <2>1, <3>3 DEF RunGood, KnownBinding
    <2>4. QED
      BY <1>2, <2>2, <2>3 DEF Proved
  <1>7. ASSUME NEW s \in Run, s = run'[t] PROVE RunGood(s) /\ RunSigns(s)
    <2>1. RunGood(s)
      BY <1>1, <1>2, <1>3, <1>4, <1>5, <1>6, <1>7
         DEF Moved, Edited, RunGood, LegacyPcs, Signing, Submitted, Retaining
    <2>2. RunSigns(s)
      BY <1>2, <1>3, <1>4, <1>5, <1>6, <1>7 DEF Moved, Edited, RunSigns, Unsigned
    <2>3. QED
      BY <2>1, <2>2
  <1>8. QED
    BY <1>2, <1>7, SilentStepKeeps DEF Moved

LEMMA ResumeMoves ==
  ASSUME DeviceInv, NEW t \in Tab, Resume(t), NEW r, r = run[t]
  PROVE  /\ r.pc = "act" /\ r.on /\ r.rec # None /\ r.rec.proposal # None
         /\ UNCHANGED <<current, ids, ubidVars, sentVars, worldVars>>
         /\ \E pc \in Pcs, replay \in BOOLEAN :
               /\ Moved(t, pc, r.rec, r.snap, r.rec.proposal, r.rec.pending, replay, r.signatures)
               /\ pc = IF r.rec.pending = None THEN "sign" ELSE "post"
               /\ r.rec.pending = None => ~replay
  <1>1. /\ r.pc = "act" /\ r.on /\ r.rec # None /\ r.rec.proposal # None
        /\ UNCHANGED <<current, ids, ubidVars, sentVars, worldVars>>
    BY DEF Resume, Acting
  <1>2. DeviceTypeOK /\ r \in Run /\ RunGood(r) /\ RunSigns(r)
    BY RunOf
  <1>3. PICK to \in Pcs : to = IF r.rec.pending = None THEN "sign" ELSE "post"
    BY DEF Pcs
  <1>4. PICK again : again = (r.rec.pending \in expired)
    OBVIOUS
  <1>5. again \in BOOLEAN /\ (r.rec.pending = None => ~again)
    <2>1. expired \subseteq Nat
      BY <1>2 DEF DeviceTypeOK
    <2>2. again \in BOOLEAN
      BY <1>4, SMT
    <2>3. QED
      BY <1>4, <2>1, <2>2, NoneIs
  <1>6. /\ r.rec \in LocalRecord /\ RecGood(r.rec) /\ r.rec.subject = r.subject
        /\ r.rec.proposal \in Maybe(Proposal) /\ r.rec.pending \in Maybe(Nat)
    BY <1>1, RecOf, RecordFields
  <1>7. run' = [run EXCEPT ![t] = [Goes(t, to) EXCEPT !.proposal = r.rec.proposal,
                                 !.auth = r.rec.pending, !.replay = again]]
    <2>1. run' = [run EXCEPT ![t] = [Goes(t, IF r.rec.pending = None THEN "sign" ELSE "post")
                     EXCEPT !.proposal = r.rec.proposal, !.auth = r.rec.pending,
                            !.replay = r.rec.pending \in expired]]
      BY DEF Resume
    <2>2. QED
      BY <1>3, <1>4, <2>1, Zenon
  <1>8. \E pc \in Pcs, replay \in BOOLEAN :
               /\ Moved(t, pc, r.rec, r.snap, r.rec.proposal, r.rec.pending, replay, r.signatures)
               /\ pc = IF r.rec.pending = None THEN "sign" ELSE "post"
               /\ r.rec.pending = None => ~replay
    <2>1. Moved(t, to, r.rec, r.snap, r.rec.proposal, r.rec.pending, again, r.signatures)
      BY <1>2, <1>5, <1>6, <1>7, GoesResuming
    <2>2. QED
      BY <1>3, <1>5, <2>1
  <1>9. QED
    BY <1>1, <1>8

LEMMA ResumeKeeps ==
  ASSUME DeviceInv, NEW t \in Tab, Resume(t)
  PROVE  DeviceInv'
  <1>1. PICK r : r = run[t]
    OBVIOUS
  <1>2. /\ r.pc = "act" /\ r.on /\ r.rec # None /\ r.rec.proposal # None
        /\ UNCHANGED <<current, ids, ubidVars, sentVars, worldVars>>
        /\ \E pc \in Pcs, replay \in BOOLEAN :
               /\ Moved(t, pc, r.rec, r.snap, r.rec.proposal, r.rec.pending, replay, r.signatures)
               /\ pc = IF r.rec.pending = None THEN "sign" ELSE "post"
               /\ r.rec.pending = None => ~replay
    BY <1>1, ResumeMoves
  <1>3. DeviceTypeOK /\ RunGood(r) /\ RunSigns(r)
    BY <1>1, RunOf
  <1>4. /\ r.rec \in LocalRecord /\ RecGood(r.rec) /\ r.rec.subject = r.subject
        /\ r.rec.proposal \in Maybe(Proposal) /\ r.rec.pending \in Maybe(Nat)
    BY <1>1, <1>2, RecOf, RecordFields
  <1>5. /\ Keyed(r.rec.proposal)
        /\ r.rec.pending # None => SignedFor(r.rec.pending, r.subject, r.rec.proposal)
    BY <1>2, <1>4 DEF RecGood
  <1>6. ASSUME NEW s \in Run, s = run'[t] PROVE RunGood(s) /\ RunSigns(s)
    <2>1. RunGood(s)
      BY <1>1, <1>2, <1>3, <1>4, <1>5, <1>6
         DEF Moved, Edited, RunGood, LegacyPcs, Signing, Submitted, Retaining
    <2>2. RunSigns(s)
      BY <1>2, <1>3, <1>4, <1>5, <1>6 DEF Moved, Edited, RunSigns, Unsigned
    <2>3. QED
      BY <2>1, <2>2
  <1>7. Alone(t)
    BY <1>2 DEF Moved
  <1>8. QED
    BY <1>2, <1>6, <1>7, SilentStepKeeps

LEMMA SignMoves ==
  ASSUME DeviceInv, NEW t \in Tab, Sign(t), NEW r, r = run[t]
  PROVE  /\ r.pc = "sign" /\ r.signatures + 1 \in Nat
         /\ UNCHANGED <<current, ids, ubidVars, sentVars, worldVars>>
         /\ Moved(t, "persist", r.rec, r.snap, r.proposal, r.auth, r.replay, r.signatures + 1)
  <1>1. /\ r.pc = "sign" /\ r.signatures + 1 \in Nat
        /\ UNCHANGED <<current, ids, ubidVars, sentVars, worldVars>>
    BY RunOf DEF Sign
  <1>2. DeviceTypeOK /\ r \in Run /\ RunGood(r) /\ RunSigns(r)
    BY RunOf
  <1>3. run' = [run EXCEPT ![t] = [Goes(t, "persist") EXCEPT !.signatures = r.signatures + 1]]
    BY DEF Sign, Goes
  <1>4. Moved(t, "persist", r.rec, r.snap, r.proposal, r.auth, r.replay, r.signatures + 1)
    BY <1>1, <1>2, <1>3, RunOf, GoesSigning DEF Sign, Pcs
  <1>5. QED
    BY <1>1, <1>4

LEMMA SignKeeps ==
  ASSUME DeviceInv, NEW t \in Tab, Sign(t)
  PROVE  DeviceInv'
  <1>1. PICK r : r = run[t]
    OBVIOUS
  <1>2. /\ r.pc = "sign" /\ r.signatures + 1 \in Nat
        /\ UNCHANGED <<current, ids, ubidVars, sentVars, worldVars>>
        /\ Moved(t, "persist", r.rec, r.snap, r.proposal, r.auth, r.replay, r.signatures + 1)
    BY <1>1, SignMoves
  <1>3. DeviceTypeOK /\ RunGood(r) /\ RunSigns(r)
    BY <1>1, RunOf
  <1>4. ASSUME NEW s \in Run, s = run'[t] PROVE RunGood(s) /\ RunSigns(s)
    <2>1. RunGood(s)
      BY <1>1, <1>2, <1>3, <1>4
         DEF Moved, Edited, RunGood, LegacyPcs, Signing, Submitted, Retaining
    <2>2. RunSigns(s)
      BY <1>2, <1>3, <1>4 DEF Moved, Edited, RunSigns, Unsigned
    <2>3. QED
      BY <2>1, <2>2
  <1>5. QED
    BY <1>2, <1>4, SilentStepKeeps DEF Moved

LEMMA AnswerAcceptedMoves ==
  ASSUME DeviceInv, NEW t \in Tab, AnswerAccepted(t), NEW r, r = run[t]
  PROVE  /\ r.pc = "answer" /\ r.auth \in accepted
         /\ UNCHANGED <<current, ids, ubidVars, sentVars, worldVars>>
         /\ Moved(t, "confirm", r.rec, r.snap, r.proposal, r.auth, r.replay, r.signatures)
  <1>1. /\ r.pc = "answer" /\ r.auth \in accepted
        /\ UNCHANGED <<current, ids, ubidVars, sentVars, worldVars>>
    BY DEF AnswerAccepted
  <1>2. DeviceTypeOK /\ r \in Run /\ RunGood(r) /\ RunSigns(r)
    BY RunOf
  <1>3. Moved(t, "confirm", r.rec, r.snap, r.proposal, r.auth, r.replay, r.signatures)
    BY <1>1, <1>2, RunOf, GoesOn DEF AnswerAccepted, Pcs
  <1>4. QED
    BY <1>1, <1>3

LEMMA AnswerAcceptedKeeps ==
  ASSUME DeviceInv, NEW t \in Tab, AnswerAccepted(t)
  PROVE  DeviceInv'
  <1>1. PICK r : r = run[t]
    OBVIOUS
  <1>2. /\ r.pc = "answer" /\ r.auth \in accepted
        /\ UNCHANGED <<current, ids, ubidVars, sentVars, worldVars>>
        /\ Moved(t, "confirm", r.rec, r.snap, r.proposal, r.auth, r.replay, r.signatures)
    BY <1>1, AnswerAcceptedMoves
  <1>3. DeviceTypeOK /\ RunGood(r) /\ RunSigns(r)
    BY <1>1, RunOf
  <1>4. ASSUME NEW s \in Run, s = run'[t] PROVE RunGood(s) /\ RunSigns(s)
    <2>1. RunGood(s)
      BY <1>1, <1>2, <1>3, <1>4
         DEF Moved, Edited, RunGood, LegacyPcs, Signing, Submitted, Retaining
    <2>2. RunSigns(s)
      BY <1>2, <1>3, <1>4 DEF Moved, Edited, RunSigns, Unsigned
    <2>3. QED
      BY <2>1, <2>2
  <1>5. QED
    BY <1>2, <1>4, SilentStepKeeps DEF Moved

LEMMA ConfirmMoves ==
  ASSUME DeviceInv, NEW t \in Tab, Confirm(t), NEW r, r = run[t]
  PROVE  /\ r.pc = "confirm" /\ (r.proposal.op = "revoke" => bound[r.subject] = None)
         /\ UNCHANGED <<current, ids, ubidVars, sentVars, worldVars>>
         /\ Moved(t, "finalize", r.rec, r.snap, r.proposal, r.auth, r.replay, r.signatures)
  <1>1. /\ r.pc = "confirm" /\ (r.proposal.op = "revoke" => bound[r.subject] = None)
        /\ UNCHANGED <<current, ids, ubidVars, sentVars, worldVars>>
    BY DEF Confirm
  <1>2. DeviceTypeOK /\ r \in Run /\ RunGood(r) /\ RunSigns(r)
    BY RunOf
  <1>3. Moved(t, "finalize", r.rec, r.snap, r.proposal, r.auth, r.replay, r.signatures)
    BY <1>1, <1>2, RunOf, GoesOn DEF Confirm, Pcs
  <1>4. QED
    BY <1>1, <1>3

LEMMA ConfirmKeeps ==
  ASSUME DeviceInv, NEW t \in Tab, Confirm(t)
  PROVE  DeviceInv'
  <1>1. PICK r : r = run[t]
    OBVIOUS
  <1>2. /\ r.pc = "confirm" /\ (r.proposal.op = "revoke" => bound[r.subject] = None)
        /\ UNCHANGED <<current, ids, ubidVars, sentVars, worldVars>>
        /\ Moved(t, "finalize", r.rec, r.snap, r.proposal, r.auth, r.replay, r.signatures)
    BY <1>1, ConfirmMoves
  <1>3. DeviceTypeOK /\ RunGood(r) /\ RunSigns(r)
    BY <1>1, RunOf
  <1>4. ASSUME NEW s \in Run, s = run'[t] PROVE RunGood(s) /\ RunSigns(s)
    <2>1. RunGood(s)
      BY <1>1, <1>2, <1>3, <1>4
         DEF Moved, Edited, RunGood, LegacyPcs, Signing, Submitted, Retaining
    <2>2. RunSigns(s)
      BY <1>2, <1>3, <1>4 DEF Moved, Edited, RunSigns, Unsigned
    <2>3. QED
      BY <2>1, <2>2
  <1>5. QED
    BY <1>2, <1>4, SilentStepKeeps DEF Moved

LEMMA AnswerExpiredMoves ==
  ASSUME DeviceInv, NEW t \in Tab, AnswerExpired(t), NEW r, r = run[t]
  PROVE  /\ r.pc = "answer" /\ r.auth \in expired \ accepted /\ r.replay
         /\ UNCHANGED <<current, ids, ubidVars, sentVars, worldVars>>
         /\ Moved(t, "renew-snapshot", r.rec, r.snap, r.proposal, r.auth, r.replay, r.signatures)
  <1>1. /\ r.pc = "answer" /\ r.auth \in expired \ accepted /\ r.replay
        /\ UNCHANGED <<current, ids, ubidVars, sentVars, worldVars>>
    BY DEF AnswerExpired
  <1>2. DeviceTypeOK /\ r \in Run /\ RunGood(r) /\ RunSigns(r)
    BY RunOf
  <1>3. Moved(t, "renew-snapshot", r.rec, r.snap, r.proposal, r.auth, r.replay, r.signatures)
    BY <1>1, <1>2, RunOf, GoesOn DEF AnswerExpired, Pcs
  <1>4. QED
    BY <1>1, <1>3

LEMMA AnswerExpiredKeeps ==
  ASSUME DeviceInv, NEW t \in Tab, AnswerExpired(t)
  PROVE  DeviceInv'
  <1>1. PICK r : r = run[t]
    OBVIOUS
  <1>2. /\ r.pc = "answer" /\ r.auth \in expired \ accepted /\ r.replay
        /\ UNCHANGED <<current, ids, ubidVars, sentVars, worldVars>>
        /\ Moved(t, "renew-snapshot", r.rec, r.snap, r.proposal, r.auth, r.replay, r.signatures)
    BY <1>1, AnswerExpiredMoves
  <1>3. DeviceTypeOK /\ RunGood(r) /\ RunSigns(r)
    BY <1>1, RunOf
  <1>4. ASSUME NEW s \in Run, s = run'[t] PROVE RunGood(s) /\ RunSigns(s)
    <2>1. RunGood(s)
      BY <1>1, <1>2, <1>3, <1>4
         DEF Moved, Edited, RunGood, LegacyPcs, Signing, Submitted, Retaining
    <2>2. RunSigns(s)
      BY <1>2, <1>3, <1>4 DEF Moved, Edited, RunSigns, Unsigned
    <2>3. QED
      BY <2>1, <2>2
  <1>5. QED
    BY <1>2, <1>4, SilentStepKeeps DEF Moved

LEMMA RenewSnapshotMoves ==
  ASSUME DeviceInv, NEW t \in Tab, RenewSnapshot(t), NEW r, r = run[t]
  PROVE  /\ r.pc = "renew-snapshot" /\ (r.proposal.op = "register" => bound[r.subject] = None)
         /\ UNCHANGED <<current, ids, ubidVars, sentVars, worldVars>>
         /\ Moved(t, "renew", r.rec, r.snap, r.proposal, r.auth, r.replay, r.signatures)
  <1>1. /\ r.pc = "renew-snapshot" /\ (r.proposal.op = "register" => bound[r.subject] = None)
        /\ UNCHANGED <<current, ids, ubidVars, sentVars, worldVars>>
    BY DEF RenewSnapshot
  <1>2. DeviceTypeOK /\ r \in Run /\ RunGood(r) /\ RunSigns(r)
    BY RunOf
  <1>3. Moved(t, "renew", r.rec, r.snap, r.proposal, r.auth, r.replay, r.signatures)
    BY <1>1, <1>2, RunOf, GoesOn DEF RenewSnapshot, Pcs
  <1>4. QED
    BY <1>1, <1>3

LEMMA RenewSnapshotKeeps ==
  ASSUME DeviceInv, NEW t \in Tab, RenewSnapshot(t)
  PROVE  DeviceInv'
  <1>1. PICK r : r = run[t]
    OBVIOUS
  <1>2. /\ r.pc = "renew-snapshot" /\ (r.proposal.op = "register" => bound[r.subject] = None)
        /\ UNCHANGED <<current, ids, ubidVars, sentVars, worldVars>>
        /\ Moved(t, "renew", r.rec, r.snap, r.proposal, r.auth, r.replay, r.signatures)
    BY <1>1, RenewSnapshotMoves
  <1>3. DeviceTypeOK /\ RunGood(r) /\ RunSigns(r)
    BY <1>1, RunOf
  <1>4. ASSUME NEW s \in Run, s = run'[t] PROVE RunGood(s) /\ RunSigns(s)
    <2>1. RunGood(s)
      BY <1>1, <1>2, <1>3, <1>4
         DEF Moved, Edited, RunGood, LegacyPcs, Signing, Submitted, Retaining
    <2>2. RunSigns(s)
      BY <1>2, <1>3, <1>4 DEF Moved, Edited, RunSigns, Unsigned
    <2>3. QED
      BY <2>1, <2>2
  <1>5. QED
    BY <1>2, <1>4, SilentStepKeeps DEF Moved

LEMMA LegacyConfirmMoves ==
  ASSUME DeviceInv, NEW t \in Tab, LegacyConfirm(t), NEW r, r = run[t]
  PROVE  /\ r.pc = "legacy-confirm"
         /\ UNCHANGED <<current, ids, ubidVars, sentVars, worldVars>>
         /\ Moved(t, "legacy-ready", r.rec, r.snap, r.proposal, r.auth, r.replay, r.signatures)
  <1>1. /\ r.pc = "legacy-confirm"
        /\ UNCHANGED <<current, ids, ubidVars, sentVars, worldVars>>
    BY DEF LegacyConfirm
  <1>2. DeviceTypeOK /\ r \in Run /\ RunGood(r) /\ RunSigns(r)
    BY RunOf
  <1>3. Moved(t, "legacy-ready", r.rec, r.snap, r.proposal, r.auth, r.replay, r.signatures)
    BY <1>1, <1>2, RunOf, GoesOn DEF LegacyConfirm, Pcs
  <1>4. QED
    BY <1>1, <1>3

LEMMA LegacyConfirmKeeps ==
  ASSUME DeviceInv, NEW t \in Tab, LegacyConfirm(t)
  PROVE  DeviceInv'
  <1>1. PICK r : r = run[t]
    OBVIOUS
  <1>2. /\ r.pc = "legacy-confirm"
        /\ UNCHANGED <<current, ids, ubidVars, sentVars, worldVars>>
        /\ Moved(t, "legacy-ready", r.rec, r.snap, r.proposal, r.auth, r.replay, r.signatures)
    BY <1>1, LegacyConfirmMoves
  <1>3. DeviceTypeOK /\ RunGood(r) /\ RunSigns(r)
    BY <1>1, RunOf
  <1>4. ASSUME NEW s \in Run, s = run'[t] PROVE RunGood(s) /\ RunSigns(s)
    <2>1. RunGood(s)
      BY <1>1, <1>2, <1>3, <1>4
         DEF Moved, Edited, RunGood, LegacyPcs, Signing, Submitted, Retaining
    <2>2. RunSigns(s)
      BY <1>2, <1>3, <1>4 DEF Moved, Edited, RunSigns, Unsigned
    <2>3. QED
      BY <2>1, <2>2
  <1>5. QED
    BY <1>2, <1>4, SilentStepKeeps DEF Moved

-----------------------------------------------------------------------------
(* The steps that submit.                                                  *)

LEMMA PostMoves ==
  ASSUME DeviceInv, NEW t \in Tab, Post(t), NEW r, r = run[t]
  PROVE  /\ r.pc = "post" /\ posted' = posted \cup {r.auth} /\ commands' = commands
         /\ UNCHANGED <<current, ids, ubidVars, signed, worldVars>>
         /\ Moved(t, "answer", r.rec, r.snap, r.proposal, r.auth, r.replay, r.signatures)
  <1>1. /\ r.pc = "post" /\ posted' = posted \cup {r.auth} /\ commands' = commands
        /\ UNCHANGED <<current, ids, ubidVars, signed, worldVars>>
    BY DEF Post
  <1>2. DeviceTypeOK /\ r \in Run
    BY RunOf
  <1>3. Moved(t, "answer", r.rec, r.snap, r.proposal, r.auth, r.replay, r.signatures)
    BY <1>2, GoesOn DEF Post, Pcs
  <1>4. QED
    BY <1>1, <1>3

LEMMA PostKeeps ==
  ASSUME DeviceInv, NEW t \in Tab, Post(t)
  PROVE  DeviceInv'
  <1>1. PICK r : r = run[t]
    OBVIOUS
  <1>2. /\ r.pc = "post" /\ posted' = posted \cup {r.auth} /\ commands' = commands
        /\ UNCHANGED <<current, ids, ubidVars, signed, worldVars>>
        /\ Moved(t, "answer", r.rec, r.snap, r.proposal, r.auth, r.replay, r.signatures)
    BY <1>1, PostMoves
  <1>3. DeviceTypeOK /\ RunGood(r) /\ RunSigns(r)
    BY <1>1, RunOf
  <1>4. /\ posted \subseteq posted' /\ posted' \subseteq DOMAIN signed
        /\ commands \subseteq commands'
        /\ commands' \subseteq [subject : Subject, key : Nat, req : Nat]
    BY <1>2, <1>3, NoneIs DEF DeviceTypeOK, RunGood, Submitted, SignedFor
  <1>5. ASSUME NEW s \in Run, s = run'[t] PROVE RunGood(s) /\ RunSigns(s)
    <2>1. RunGood(s)
      BY <1>1, <1>2, <1>3, <1>5
         DEF Moved, Edited, RunGood, LegacyPcs, Signing, Submitted, Retaining
    <2>2. RunSigns(s)
      BY <1>2, <1>3, <1>5 DEF Moved, Edited, RunSigns, Unsigned
    <2>3. QED
      BY <2>1, <2>2
  <1>6. QED
    BY <1>2, <1>4, <1>5, RunStepKeeps, ZenonT(60) DEF Moved

LEMMA LegacyPostMoves ==
  ASSUME DeviceInv, NEW t \in Tab, LegacyPost(t), NEW r, r = run[t]
  PROVE  /\ r.pc = "act" /\ r.rec # None /\ session # None /\ posted' = posted /\ ~enabled
         /\ r.rec.state # "ready" /\ r.rec.accepted = None
         /\ commands' = commands \cup {[subject |-> session, key |-> r.rec.key, req |-> r.rec.req]}
         /\ UNCHANGED <<current, ids, ubidVars, signed, worldVars>>
         /\ Moved(t, "legacy-answer", r.rec, r.snap, r.proposal, r.auth, r.replay, r.signatures)
  <1>1. /\ r.pc = "act" /\ r.rec # None /\ session # None /\ posted' = posted /\ ~enabled
        /\ r.rec.state # "ready" /\ r.rec.accepted = None
        /\ commands' = commands \cup {[subject |-> session, key |-> r.rec.key, req |-> r.rec.req]}
        /\ UNCHANGED <<current, ids, ubidVars, signed, worldVars>>
    BY DEF LegacyPost, LegacyActing
  <1>2. DeviceTypeOK /\ r \in Run
    BY RunOf
  <1>3. Moved(t, "legacy-answer", r.rec, r.snap, r.proposal, r.auth, r.replay, r.signatures)
    BY <1>2, GoesOn DEF LegacyPost, Pcs
  <1>4. QED
    BY <1>1, <1>3

LEMMA LegacyPostKeeps ==
  ASSUME DeviceInv, NEW t \in Tab, LegacyPost(t)
  PROVE  DeviceInv'
  <1>1. PICK r : r = run[t]
    OBVIOUS
  <1>2. /\ r.pc = "act" /\ r.rec # None /\ session # None /\ posted' = posted /\ ~enabled
        /\ r.rec.state # "ready" /\ r.rec.accepted = None
        /\ commands' = commands \cup {[subject |-> session, key |-> r.rec.key, req |-> r.rec.req]}
        /\ UNCHANGED <<current, ids, ubidVars, signed, worldVars>>
        /\ Moved(t, "legacy-answer", r.rec, r.snap, r.proposal, r.auth, r.replay, r.signatures)
    BY <1>1, LegacyPostMoves
  <1>3. DeviceTypeOK /\ RunGood(r) /\ RunSigns(r)
    BY <1>1, RunOf
  <1>4. [subject |-> session, key |-> r.rec.key, req |-> r.rec.req]
           \in [subject : Subject, key : Nat, req : Nat]
    <2>1. r.rec \in LocalRecord /\ session \in Subject
      BY <1>1, <1>2, <1>3, RecOf DEF DeviceTypeOK, Maybe
    <2>2. QED
      BY <2>1, RecordFields
  <1>5. /\ posted \subseteq posted' /\ posted' \subseteq DOMAIN signed
        /\ commands \subseteq commands'
        /\ commands' \subseteq [subject : Subject, key : Nat, req : Nat]
    BY <1>2, <1>3, <1>4, NoneIs DEF DeviceTypeOK, RunGood, Submitted, SignedFor
  <1>6. ASSUME NEW s \in Run, s = run'[t] PROVE RunGood(s) /\ RunSigns(s)
    <2>1. RunGood(s)
      BY <1>1, <1>2, <1>3, <1>6
         DEF Moved, Edited, RunGood, LegacyPcs, Signing, Submitted, Retaining
    <2>2. RunSigns(s)
      BY <1>2, <1>3, <1>6 DEF Moved, Edited, RunSigns, Unsigned
    <2>3. QED
      BY <2>1, <2>2
  <1>7. QED
    BY <1>2, <1>5, <1>6, RunStepKeeps, ZenonT(60) DEF Moved

-----------------------------------------------------------------------------
(* The steps that write the record.                                        *)

\* A write finds the record prev, as the run has read it, and leaves next.
Saves(prev, next) ==
    /\ prev \in LocalRecord /\ RecGood(prev) /\ current = prev
    /\ current' = next /\ WellFormed(next) /\ UpdateAllowed(prev, next)

\* What write() finds and leaves.
LEMMA WriteIs ==
  ASSUME DeviceInv, NEW t \in Tab, NEW next, NEW s, Write(t, next, s)
  PROVE  /\ run[t].rec # None /\ Saves(run[t].rec, next)
         /\ run[t].subject = run[t].rec.subject /\ run' = [run EXCEPT ![t] = s]
  <1>1. PICK prev : prev = current /\ prev = run[t].rec /\ prev # None
    BY DEF Write
  <1>2. prev \in LocalRecord /\ RecGood(prev) /\ prev.subject = run[t].subject
    BY <1>1, RecOf
  <1>3. QED
    BY <1>1, <1>2 DEF Write, Saves

LEMMA WriteGrows ==
  ASSUME DeviceInv, NEW r, RunGood(r), NEW prev \in LocalRecord, NEW next \in LocalRecord,
         RecGood(prev), current = prev, current' = next,
         \A n \in DOMAIN signed : n \in DOMAIN signed' /\ signed'[n] = signed[n],
         UNCHANGED <<ubidVars, worldVars>>,
         next.accepted = prev.accepted \/ prev.accepted = None \/ Sponsored'
  PROVE  RecGood(prev)' /\ RunGood(r)'
  <1>1. Grows
    BY RecordFields DEF Grows, ubidVars, worldVars
  <1>2. QED
    BY <1>1, RecKept, RunKept DEF DeviceInv

\* A write that comes with no signature.
LEMMA WriteStepKeeps ==
  ASSUME DeviceInv, NEW t \in Tab, Alone(t), NEW prev \in LocalRecord, NEW next \in LocalRecord,
         current = prev, current' = next,
         ids' \in 0..MaxId, UNCHANGED <<ubidVars, sentVars, worldVars>>,
         next.subject = prev.subject,
         next.accepted = prev.accepted \/ prev.accepted = None \/ Sponsored',
         RecGood(next)',
         \A s \in Run : s = run'[t] => RunGood(s)' /\ RunSigns(s)
  PROVE  DeviceInv'
  <1>1. /\ UNCHANGED <<ubidVars, posted, commands, worldVars>> /\ signed' = signed
        /\ signed' \in Seq([subject : Subject, proposal : Proposal]) /\ Len(signed') <= MaxSigned
        /\ \A n \in DOMAIN signed : n \in DOMAIN signed' /\ signed'[n] = signed[n]
        /\ \A n \in DOMAIN signed' \ DOMAIN signed :
              signed'[n].subject = next.subject /\ Keyed(signed'[n].proposal)
    BY DEF sentVars, DeviceInv, DeviceTypeOK
  <1>2. QED
    BY <1>1, WriteKeeps, ZenonT(60)

LEMMA SettledStates ==
  /\ "ready" \in States /\ "revoked" \in States /\ "authorization-required" \in States
  /\ None \in Maybe(Nat) /\ None \in Maybe(Proposal) /\ None \in Maybe(Rotation)
  BY DEF States, Maybe

LEMMA PendingStates ==
  ASSUME NEW op \in Ops
  PROVE  /\ PendingState[op] \in States \ {"ready", "revoked", "authorization-required"}
         /\ op \in {"register", "adopt", "rotate", "revoke"}
         /\ op = "register" => PendingState[op] = "pending-register"
         /\ op = "adopt" => PendingState[op] = "pending-adopt"
         /\ op = "rotate" => PendingState[op] = "pending-rotate"
         /\ op = "revoke" => PendingState[op] = "pending-revoke"
  BY DEF PendingState, States, Ops

LEMMA NewProposalIs ==
  ASSUME DeviceInv, NEW op \in Ops, NEW key \in Maybe(Nat), NEW id \in Nat, NEW p,
         p = NewProposal(op, key, id)
  PROVE  /\ p \in Proposal /\ p.op = op /\ p.key = key /\ p.expected = id /\ p.expected # None
         /\ ids + 1 \in Nat /\ None \in Maybe(Rotation)
         /\ [key |-> ids + 1, req |-> ids + 1] \in Maybe(Rotation)
  BY NoneIs, DeviceAssumption DEF NewProposal, Proposal, Maybe, DeviceInv, DeviceTypeOK, Rotation

\* A run that has submitted an authorization still holds the record that
\* retains it.
LEMMA RetainedIs ==
  ASSUME DeviceTypeOK, NEW r, RunGood(r), r.pc \in Retaining
  PROVE  /\ r.auth \in DOMAIN signed /\ r.auth \in Nat /\ r.auth # None
         /\ r.rec # None /\ r.proposal # None /\ r.rec.proposal = r.proposal
         /\ OpOf(r.auth) = r.proposal.op
         /\ r.proposal.op = "revoke" => r.rec.accepted # None
  <1>1. SignedFor(r.auth, r.subject, r.proposal) /\ r.rec # None /\ r.proposal # None
        /\ r.rec.pending = r.auth /\ RecGood(r.rec)
    BY DEF RunGood, Retaining, Submitted
  <1>2. r.auth \in DOMAIN signed /\ r.auth \in Nat /\ r.auth # None
    BY <1>1, NoneIs DEF SignedFor, DeviceTypeOK
  <1>3. r.rec.proposal = r.proposal
    BY <1>1, <1>2 DEF RecGood, SignedFor
  <1>4. r.proposal.op = "revoke" => r.rec.accepted # None
    BY <1>1, <1>3 DEF RecGood, WellFormed, Stands, PendingState
  <1>5. QED
    BY <1>1, <1>2, <1>3, <1>4 DEF SignedFor, OpOf

LEMMA RequireAuthorizationWrites ==
  ASSUME DeviceInv, NEW t \in Tab, RequireAuthorization(t), NEW r, r = run[t], NEW next, next = current'
  PROVE  /\ r.pc = "act" /\ r.on /\ r.rec # None /\ r.rec.proposal = None /\ r.snap # None
         /\ r.rec.state # "revoked" /\ r.snap.key = r.rec.key
         /\ r.rec.accepted \in {None, r.snap.id} /\ ids' = ids
         /\ UNCHANGED <<ubidVars, sentVars, worldVars>>
         /\ Saves(r.rec, next) /\ r.subject = r.rec.subject
         /\ RecIs(next, r.rec.subject, r.rec.key, r.rec.req, "authorization-required", r.snap.id,
                        r.rec.auth, r.rec.pending, r.rec.proposal, r.rec.rotation)
         /\ Moved(t, "read-required", r.rec, r.snap, r.proposal, r.auth, r.replay, r.signatures)
  <1>1. /\ r.pc = "act" /\ r.on /\ r.rec # None /\ r.rec.proposal = None /\ r.snap # None
        /\ r.rec.state # "revoked" /\ r.snap.key = r.rec.key
        /\ r.rec.accepted \in {None, r.snap.id} /\ ids' = ids
        /\ UNCHANGED <<ubidVars, sentVars, worldVars>>
    BY DEF RequireAuthorization, Settled, Acting
  <1>2. DeviceTypeOK /\ r \in Run /\ RunGood(r)
    BY RunOf
  <1>3. r.snap.id \in Nat /\ r.snap.id \in Maybe(Nat) /\ r.snap.id # None
    BY <1>1, RunOf, NoneIs DEF Maybe, Binding
  <1>4. next = [r.rec EXCEPT !.accepted = r.snap.id, !.state = "authorization-required"]
    BY DEF RequireAuthorization, Write, Settled, Acting
  <1>5. Write(t, next, Goes(t, "read-required"))
    BY <1>1, <1>4 DEF RequireAuthorization, Settled, Acting
  <1>6. /\ Saves(r.rec, next) /\ r.subject = r.rec.subject /\ r.rec \in LocalRecord
        /\ run' = [run EXCEPT ![t] = Goes(t, "read-required")]
    BY <1>5, WriteIs DEF Saves
  <1>7. RecIs(next, r.rec.subject, r.rec.key, r.rec.req, "authorization-required", r.snap.id,
                 r.rec.auth, r.rec.pending, r.rec.proposal, r.rec.rotation)
    BY <1>3, <1>4, <1>6, EditRequired, SettledStates
  <1>8. Moved(t, "read-required", r.rec, r.snap, r.proposal, r.auth, r.replay, r.signatures)
    BY <1>1, <1>2, <1>6, <1>3, RunOf, GoesOn DEF Pcs
  <1>9. QED
    BY <1>1, <1>3, <1>6, <1>7, <1>8

LEMMA RequireAuthorizationKeeps ==
  ASSUME DeviceInv, NEW t \in Tab, RequireAuthorization(t)
  PROVE  DeviceInv'
  <1>1. PICK r, next : r = run[t] /\ next = current'
    OBVIOUS
  <1>2. /\ r.pc = "act" /\ r.on /\ r.rec # None /\ r.rec.proposal = None /\ r.snap # None
        /\ r.rec.state # "revoked" /\ r.snap.key = r.rec.key
        /\ r.rec.accepted \in {None, r.snap.id} /\ ids' = ids
        /\ UNCHANGED <<ubidVars, sentVars, worldVars>>
        /\ Saves(r.rec, next) /\ r.subject = r.rec.subject
        /\ RecIs(next, r.rec.subject, r.rec.key, r.rec.req, "authorization-required", r.snap.id,
                       r.rec.auth, r.rec.pending, r.rec.proposal, r.rec.rotation)
        /\ Moved(t, "read-required", r.rec, r.snap, r.proposal, r.auth, r.replay, r.signatures)
    BY <1>1, RequireAuthorizationWrites
  <1>3. DeviceTypeOK /\ r \in Run /\ RunGood(r) /\ RunSigns(r)
    BY <1>1, RunOf
  <1>4. r.snap.id \in Nat /\ r.snap.id \in Maybe(Nat) /\ r.snap.id # None
    BY <1>1, <1>2, RunOf, NoneIs DEF Maybe, Binding
  <1>5. next.accepted = r.rec.accepted \/ r.rec.accepted = None
    BY <1>2 DEF RecIs
  <1>6. RecGood(r.rec)' /\ RunGood(r)'
    <2>1. \A n \in DOMAIN signed : n \in DOMAIN signed' /\ signed'[n] = signed[n]
      BY <1>2 DEF sentVars
    <2>2. next \in LocalRecord
      BY <1>2 DEF RecIs
    <2>3. QED
      BY <1>2, <1>3, <1>5, <2>1, <2>2, WriteGrows DEF Saves
  <1>7. RecGood(next)'
    BY <1>2, <1>4, <1>6, PendingStates, NoneIs DEF Saves, RecIs, RecGood
  <1>8. ASSUME NEW s \in Run, s = run'[t] PROVE RunGood(s)' /\ RunSigns(s)
    <2>1. Follows(r.rec)' /\ current' # None
      BY <1>2, <1>5, RecordFields DEF Saves, Follows, RecIs
    <2>2. RunGood(s)'
      BY <1>1, <1>2, <1>4, <1>6, <1>8, <2>1, NoneIs
         DEF Moved, Edited, RunGood, LegacyPcs, Signing, Submitted, Retaining
    <2>3. RunSigns(s)
      BY <1>2, <1>3, <1>8 DEF Moved, Edited, RunSigns, Unsigned
    <2>4. QED
      BY <2>2, <2>3
  <1>9. ids' \in 0..MaxId
    BY <1>2, <1>3 DEF DeviceTypeOK
  <1>10. QED
    <2>1. /\ Alone(t) /\ next \in LocalRecord /\ next.subject = r.rec.subject
          /\ r.rec \in LocalRecord /\ current = r.rec /\ current' = next
      BY <1>2 DEF Moved, RecIs, Saves
    <2>2. QED
      BY <1>2, <1>5, <1>7, <1>8, <1>9, <2>1, WriteStepKeeps

LEMMA LegacyBoundWrites ==
  ASSUME DeviceInv, NEW t \in Tab, LegacyBound(t), NEW r, r = run[t], NEW next, next = current'
  PROVE  /\ r.pc = "act" /\ r.rec # None /\ r.snap # None /\ r.snap.key = r.rec.key
         /\ r.rec.accepted \in {None, r.snap.id} /\ ids' = ids
         /\ UNCHANGED <<ubidVars, sentVars, worldVars>>
         /\ Saves(r.rec, next) /\ r.subject = r.rec.subject
         /\ RecIs(next, r.rec.subject, r.rec.key, r.rec.req, "ready", r.snap.id,
                        r.rec.auth, None, None, r.rec.rotation)
         /\ Moved(t, "read-ready", r.rec, r.snap, r.proposal, r.auth, r.replay, r.signatures)
  <1>1. /\ r.pc = "act" /\ r.rec # None /\ r.snap # None /\ r.snap.key = r.rec.key
        /\ r.rec.accepted \in {None, r.snap.id} /\ ids' = ids
        /\ UNCHANGED <<ubidVars, sentVars, worldVars>>
    BY DEF LegacyBound, LegacyActing
  <1>2. DeviceTypeOK /\ r \in Run /\ RunGood(r)
    BY RunOf
  <1>3. r.snap.id \in Nat /\ r.snap.id \in Maybe(Nat) /\ r.snap.id # None
    BY <1>1, RunOf, NoneIs DEF Maybe, Binding
  <1>4. next = [r.rec EXCEPT !.pending = None, !.proposal = None, !.state = "ready",
                            !.accepted = r.snap.id]
    BY DEF LegacyBound, Write, LegacyActing
  <1>5. Write(t, next, Goes(t, "read-ready"))
    BY <1>1, <1>4 DEF LegacyBound, LegacyActing
  <1>6. /\ Saves(r.rec, next) /\ r.subject = r.rec.subject /\ r.rec \in LocalRecord
        /\ run' = [run EXCEPT ![t] = Goes(t, "read-ready")]
    BY <1>5, WriteIs DEF Saves
  <1>7. RecIs(next, r.rec.subject, r.rec.key, r.rec.req, "ready", r.snap.id,
                 r.rec.auth, None, None, r.rec.rotation)
    BY <1>3, <1>4, <1>6, EditBound, SettledStates
  <1>8. Moved(t, "read-ready", r.rec, r.snap, r.proposal, r.auth, r.replay, r.signatures)
    BY <1>1, <1>2, <1>6, <1>3, RunOf, GoesOn DEF Pcs
  <1>9. QED
    BY <1>1, <1>3, <1>6, <1>7, <1>8

LEMMA LegacyBoundKeeps ==
  ASSUME DeviceInv, NEW t \in Tab, LegacyBound(t)
  PROVE  DeviceInv'
  <1>1. PICK r, next : r = run[t] /\ next = current'
    OBVIOUS
  <1>2. /\ r.pc = "act" /\ r.rec # None /\ r.snap # None /\ r.snap.key = r.rec.key
        /\ r.rec.accepted \in {None, r.snap.id} /\ ids' = ids
        /\ UNCHANGED <<ubidVars, sentVars, worldVars>>
        /\ Saves(r.rec, next) /\ r.subject = r.rec.subject
        /\ RecIs(next, r.rec.subject, r.rec.key, r.rec.req, "ready", r.snap.id,
                       r.rec.auth, None, None, r.rec.rotation)
        /\ Moved(t, "read-ready", r.rec, r.snap, r.proposal, r.auth, r.replay, r.signatures)
    BY <1>1, LegacyBoundWrites
  <1>3. DeviceTypeOK /\ r \in Run /\ RunGood(r) /\ RunSigns(r)
    BY <1>1, RunOf
  <1>4. r.snap.id \in Nat /\ r.snap.id \in Maybe(Nat) /\ r.snap.id # None
    BY <1>1, <1>2, RunOf, NoneIs DEF Maybe, Binding
  <1>5. next.accepted = r.rec.accepted \/ r.rec.accepted = None
    BY <1>2 DEF RecIs
  <1>6. RecGood(r.rec)' /\ RunGood(r)'
    <2>1. \A n \in DOMAIN signed : n \in DOMAIN signed' /\ signed'[n] = signed[n]
      BY <1>2 DEF sentVars
    <2>2. next \in LocalRecord
      BY <1>2 DEF RecIs
    <2>3. QED
      BY <1>2, <1>3, <1>5, <2>1, <2>2, WriteGrows DEF Saves
  <1>7. RecGood(next)'
    BY <1>2, <1>4, <1>6, PendingStates, NoneIs DEF Saves, RecIs, RecGood
  <1>8. ASSUME NEW s \in Run, s = run'[t] PROVE RunGood(s)' /\ RunSigns(s)
    <2>1. Follows(r.rec)' /\ current' # None
      BY <1>2, <1>5, RecordFields DEF Saves, Follows, RecIs
    <2>2. RunGood(s)'
      BY <1>1, <1>2, <1>4, <1>6, <1>8, <2>1, NoneIs
         DEF Moved, Edited, RunGood, LegacyPcs, Signing, Submitted, Retaining
    <2>3. RunSigns(s)
      BY <1>2, <1>3, <1>8 DEF Moved, Edited, RunSigns, Unsigned
    <2>4. QED
      BY <2>2, <2>3
  <1>9. ids' \in 0..MaxId
    BY <1>2, <1>3 DEF DeviceTypeOK
  <1>10. QED
    <2>1. /\ Alone(t) /\ next \in LocalRecord /\ next.subject = r.rec.subject
          /\ r.rec \in LocalRecord /\ current = r.rec /\ current' = next
      BY <1>2 DEF Moved, RecIs, Saves
    <2>2. QED
      BY <1>2, <1>5, <1>7, <1>8, <1>9, <2>1, WriteStepKeeps

LEMMA LegacyAnswerWrites ==
  ASSUME DeviceInv, NEW t \in Tab, LegacyAnswer(t), NEW r, r = run[t], NEW next, next = current'
  PROVE  /\ r.pc = "legacy-answer" /\ ids' = ids
         /\ \E c \in registered : c.key = r.rec.key /\ c.req = r.rec.req
         /\ UNCHANGED <<ubidVars, sentVars, worldVars>>
         /\ Saves(r.rec, next) /\ r.subject = r.rec.subject
         /\ RecIs(next, r.rec.subject, r.rec.key, r.rec.req, r.rec.state, Legacy,
                        r.rec.auth, r.rec.pending, r.rec.proposal, r.rec.rotation)
         /\ Moved(t, "read-legacy", r.rec, r.snap, r.proposal, r.auth, r.replay, r.signatures)
  <1>1. /\ r.pc = "legacy-answer" /\ ids' = ids
        /\ \E c \in registered : c.key = r.rec.key /\ c.req = r.rec.req
        /\ UNCHANGED <<ubidVars, sentVars, worldVars>>
    BY DEF LegacyAnswer
  <1>2. DeviceTypeOK /\ r \in Run /\ RunGood(r)
    BY RunOf
  <1>3. next = [r.rec EXCEPT !.accepted = Legacy]
    BY DEF LegacyAnswer, Write
  <1>4. Write(t, next, Goes(t, "read-legacy"))
    BY <1>1, <1>3 DEF LegacyAnswer
  <1>5. /\ Saves(r.rec, next) /\ r.subject = r.rec.subject /\ r.rec \in LocalRecord
        /\ run' = [run EXCEPT ![t] = Goes(t, "read-legacy")]
    BY <1>4, WriteIs DEF Saves
  <1>6. RecIs(next, r.rec.subject, r.rec.key, r.rec.req, r.rec.state, Legacy,
                 r.rec.auth, r.rec.pending, r.rec.proposal, r.rec.rotation)
    BY <1>3, <1>5, EditAccepted DEF Legacy, Maybe
  <1>7. Moved(t, "read-legacy", r.rec, r.snap, r.proposal, r.auth, r.replay, r.signatures)
    BY <1>1, <1>2, <1>5, RunOf, GoesOn DEF Pcs
  <1>8. QED
    BY <1>1, <1>5, <1>6, <1>7

LEMMA LegacyAnswerKeeps ==
  ASSUME DeviceInv, NEW t \in Tab, LegacyAnswer(t)
  PROVE  DeviceInv'
  <1>1. PICK r, next : r = run[t] /\ next = current'
    OBVIOUS
  <1>2. /\ r.pc = "legacy-answer" /\ ids' = ids
        /\ \E c \in registered : c.key = r.rec.key /\ c.req = r.rec.req
        /\ UNCHANGED <<ubidVars, sentVars, worldVars>>
        /\ Saves(r.rec, next) /\ r.subject = r.rec.subject
        /\ RecIs(next, r.rec.subject, r.rec.key, r.rec.req, r.rec.state, Legacy,
                       r.rec.auth, r.rec.pending, r.rec.proposal, r.rec.rotation)
        /\ Moved(t, "read-legacy", r.rec, r.snap, r.proposal, r.auth, r.replay, r.signatures)
    BY <1>1, LegacyAnswerWrites
  <1>3. DeviceTypeOK /\ r \in Run /\ RunGood(r) /\ RunSigns(r)
    BY <1>1, RunOf
  <1>4. next.accepted = r.rec.accepted \/ r.rec.accepted = None
    BY <1>2, NoneIs DEF Saves, UpdateAllowed, Promotes, RecIs, Legacy, Renews
  <1>5. RecGood(r.rec)' /\ RunGood(r)'
    <2>1. \A n \in DOMAIN signed : n \in DOMAIN signed' /\ signed'[n] = signed[n]
      BY <1>2 DEF sentVars
    <2>2. next \in LocalRecord
      BY <1>2 DEF RecIs
    <2>3. QED
      BY <1>2, <1>3, <1>4, <2>1, <2>2, WriteGrows DEF Saves
  <1>6. RecGood(next)'
    BY <1>2, <1>5, PendingStates, NoneIs DEF Saves, RecIs, RecGood, Legacy
  <1>7. ASSUME NEW s \in Run, s = run'[t] PROVE RunGood(s)' /\ RunSigns(s)
    <2>1. Follows(r.rec)' /\ current' # None
      BY <1>2, <1>4, RecordFields DEF Saves, Follows, RecIs
    <2>2. RunGood(s)'
      BY <1>1, <1>2, <1>5, <1>7, <2>1, NoneIs
         DEF Moved, Edited, RunGood, LegacyPcs, Signing, Submitted, Retaining
    <2>3. RunSigns(s)
      BY <1>2, <1>3, <1>7 DEF Moved, Edited, RunSigns, Unsigned
    <2>4. QED
      BY <2>2, <2>3
  <1>8. ids' \in 0..MaxId
    BY <1>2, <1>3 DEF DeviceTypeOK
  <1>9. QED
    <2>1. /\ Alone(t) /\ next \in LocalRecord /\ next.subject = r.rec.subject
          /\ r.rec \in LocalRecord /\ current = r.rec /\ current' = next
      BY <1>2 DEF Moved, RecIs, Saves
    <2>2. QED
      BY <1>2, <1>4, <1>6, <1>7, <1>8, <2>1, WriteStepKeeps

LEMMA LegacyReadyWrites ==
  ASSUME DeviceInv, NEW t \in Tab, LegacyReady(t), NEW r, r = run[t], NEW next, next = current'
  PROVE  /\ r.pc = "legacy-ready" /\ ids' = ids
         /\ UNCHANGED <<ubidVars, sentVars, worldVars>>
         /\ Saves(r.rec, next) /\ r.subject = r.rec.subject
         /\ RecIs(next, r.rec.subject, r.rec.key, r.rec.req, "ready", r.rec.accepted,
                        r.rec.auth, None, None, r.rec.rotation)
         /\ Moved(t, "read-ready", r.rec, r.snap, r.proposal, r.auth, r.replay, r.signatures)
  <1>1. /\ r.pc = "legacy-ready" /\ ids' = ids
        /\ UNCHANGED <<ubidVars, sentVars, worldVars>>
    BY DEF LegacyReady
  <1>2. DeviceTypeOK /\ r \in Run /\ RunGood(r)
    BY RunOf
  <1>3. next = [r.rec EXCEPT !.pending = None, !.proposal = None, !.state = "ready"]
    BY DEF LegacyReady, Write
  <1>4. Write(t, next, Goes(t, "read-ready"))
    BY <1>1, <1>3 DEF LegacyReady
  <1>5. /\ Saves(r.rec, next) /\ r.subject = r.rec.subject /\ r.rec \in LocalRecord
        /\ run' = [run EXCEPT ![t] = Goes(t, "read-ready")]
    BY <1>4, WriteIs DEF Saves
  <1>6. RecIs(next, r.rec.subject, r.rec.key, r.rec.req, "ready", r.rec.accepted,
                 r.rec.auth, None, None, r.rec.rotation)
    BY <1>3, <1>5, EditPending, SettledStates, RecordFields
  <1>7. Moved(t, "read-ready", r.rec, r.snap, r.proposal, r.auth, r.replay, r.signatures)
    BY <1>1, <1>2, <1>5, RunOf, GoesOn DEF Pcs
  <1>8. QED
    BY <1>1, <1>5, <1>6, <1>7

LEMMA LegacyReadyKeeps ==
  ASSUME DeviceInv, NEW t \in Tab, LegacyReady(t)
  PROVE  DeviceInv'
  <1>1. PICK r, next : r = run[t] /\ next = current'
    OBVIOUS
  <1>2. /\ r.pc = "legacy-ready" /\ ids' = ids
        /\ UNCHANGED <<ubidVars, sentVars, worldVars>>
        /\ Saves(r.rec, next) /\ r.subject = r.rec.subject
        /\ RecIs(next, r.rec.subject, r.rec.key, r.rec.req, "ready", r.rec.accepted,
                       r.rec.auth, None, None, r.rec.rotation)
        /\ Moved(t, "read-ready", r.rec, r.snap, r.proposal, r.auth, r.replay, r.signatures)
    BY <1>1, LegacyReadyWrites
  <1>3. DeviceTypeOK /\ r \in Run /\ RunGood(r) /\ RunSigns(r)
    BY <1>1, RunOf
  <1>4. next.accepted = r.rec.accepted \/ r.rec.accepted = None
    BY <1>2 DEF RecIs
  <1>5. RecGood(r.rec)' /\ RunGood(r)'
    <2>1. \A n \in DOMAIN signed : n \in DOMAIN signed' /\ signed'[n] = signed[n]
      BY <1>2 DEF sentVars
    <2>2. next \in LocalRecord
      BY <1>2 DEF RecIs
    <2>3. QED
      BY <1>2, <1>3, <1>4, <2>1, <2>2, WriteGrows DEF Saves
  <1>6. RecGood(next)'
    BY <1>2, <1>5, PendingStates, NoneIs DEF Saves, RecIs, RecGood, WellFormed
  <1>7. ASSUME NEW s \in Run, s = run'[t] PROVE RunGood(s)' /\ RunSigns(s)
    <2>1. Follows(r.rec)' /\ current' # None
      BY <1>2, <1>4, RecordFields DEF Saves, Follows, RecIs
    <2>2. RunGood(s)'
      BY <1>1, <1>2, <1>5, <1>7, <2>1, NoneIs
         DEF Moved, Edited, RunGood, LegacyPcs, Signing, Submitted, Retaining
    <2>3. RunSigns(s)
      BY <1>2, <1>3, <1>7 DEF Moved, Edited, RunSigns, Unsigned
    <2>4. QED
      BY <2>2, <2>3
  <1>8. ids' \in 0..MaxId
    BY <1>2, <1>3 DEF DeviceTypeOK
  <1>9. QED
    <2>1. /\ Alone(t) /\ next \in LocalRecord /\ next.subject = r.rec.subject
          /\ r.rec \in LocalRecord /\ current = r.rec /\ current' = next
      BY <1>2 DEF Moved, RecIs, Saves
    <2>2. QED
      BY <1>2, <1>4, <1>6, <1>7, <1>8, <2>1, WriteStepKeeps

LEMMA BeginWrites ==
  ASSUME DeviceInv, NEW t \in Tab, NEW proposal \in Proposal, NEW rotation \in Maybe(Rotation),
         Keyed(proposal), proposal.op # "register", proposal.expected # None,
         run[t].pc \in {"act", "adopt"}, run[t].on, run[t].rec # None,
         Begin(t, proposal, rotation), NEW r, r = run[t], NEW next, next = current'
  PROVE  /\ r.pc \in {"act", "adopt"} /\ r.on /\ r.rec # None /\ ids' = ids + 1 /\ ids < MaxBegun
         /\ UNCHANGED <<ubidVars, sentVars, worldVars>>
         /\ Saves(r.rec, next) /\ r.subject = r.rec.subject
         /\ RecIs(next, r.rec.subject, r.rec.key, r.rec.req, PendingState[proposal.op],
                        r.rec.accepted, r.rec.auth, r.rec.pending, proposal, rotation)
         /\ Moved(t, "read-begun", r.rec, r.snap, proposal, r.auth, r.replay, r.signatures)
  <1>1. /\ r.pc \in {"act", "adopt"} /\ r.on /\ r.rec # None /\ ids' = ids + 1 /\ ids < MaxBegun
        /\ UNCHANGED <<ubidVars, sentVars, worldVars>>
    BY DEF Begin
  <1>2. DeviceTypeOK /\ r \in Run /\ RunGood(r)
    BY RunOf
  <1>3. proposal \in Maybe(Proposal)
    BY DEF Maybe
  <1>4. next = [r.rec EXCEPT !.proposal = proposal, !.rotation = rotation,
                            !.state = PendingState[proposal.op]]
    BY DEF Begin, Write
  <1>5. Write(t, next, [Goes(t, "read-begun") EXCEPT !.proposal = proposal])
    BY <1>1, <1>4 DEF Begin
  <1>6. /\ Saves(r.rec, next) /\ r.subject = r.rec.subject /\ r.rec \in LocalRecord
        /\ run' = [run EXCEPT ![t] = [Goes(t, "read-begun") EXCEPT !.proposal = proposal]]
    BY <1>5, WriteIs DEF Saves
  <1>7. RecIs(next, r.rec.subject, r.rec.key, r.rec.req, PendingState[proposal.op],
                 r.rec.accepted, r.rec.auth, r.rec.pending, proposal, rotation)
    BY <1>3, <1>4, <1>6, EditBegun, PendingStates DEF Proposal
  <1>8. Moved(t, "read-begun", r.rec, r.snap, proposal, r.auth, r.replay, r.signatures)
    BY <1>1, <1>2, <1>6, <1>3, RunOf, GoesProposing DEF Pcs
  <1>9. QED
    BY <1>1, <1>3, <1>6, <1>7, <1>8

LEMMA BeginKeeps ==
  ASSUME DeviceInv, NEW t \in Tab, NEW proposal \in Proposal, NEW rotation \in Maybe(Rotation),
         Keyed(proposal), proposal.op # "register", proposal.expected # None,
         run[t].pc \in {"act", "adopt"}, run[t].on, run[t].rec # None,
         Begin(t, proposal, rotation)
  PROVE  DeviceInv'
  <1>1. PICK r, next : r = run[t] /\ next = current'
    OBVIOUS
  <1>2. /\ r.pc \in {"act", "adopt"} /\ r.on /\ r.rec # None /\ ids' = ids + 1 /\ ids < MaxBegun
        /\ UNCHANGED <<ubidVars, sentVars, worldVars>>
        /\ Saves(r.rec, next) /\ r.subject = r.rec.subject
        /\ RecIs(next, r.rec.subject, r.rec.key, r.rec.req, PendingState[proposal.op],
                       r.rec.accepted, r.rec.auth, r.rec.pending, proposal, rotation)
        /\ Moved(t, "read-begun", r.rec, r.snap, proposal, r.auth, r.replay, r.signatures)
    BY <1>1, BeginWrites
  <1>3. DeviceTypeOK /\ r \in Run /\ RunGood(r) /\ RunSigns(r)
    BY <1>1, RunOf
  <1>4. proposal # None
    BY NoneIs
  <1>5. r.rec.pending # None => proposal = r.rec.proposal
    <2> SUFFICES ASSUME r.rec.pending # None PROVE proposal = r.rec.proposal
      OBVIOUS
    <2>1. ~Renews(r.rec, next)
      BY <1>2 DEF Saves, Renews, Renewal, RecIs, LocalRecord
    <2>2. r.rec.proposal # None
      BY <1>2 DEF Saves, RecGood, WellFormed
    <2>3. QED
      BY <1>2, <1>4, <2>1, <2>2 DEF Saves, UpdateAllowed, RecIs
  <1>6. r.rec.accepted # None
    BY <1>2, <1>4 DEF Saves, WellFormed, Stands, RecIs
  <1>7. next.accepted = r.rec.accepted \/ r.rec.accepted = None
    BY <1>2 DEF RecIs
  <1>8. RecGood(r.rec)' /\ RunGood(r)'
    <2>1. \A n \in DOMAIN signed : n \in DOMAIN signed' /\ signed'[n] = signed[n]
      BY <1>2 DEF sentVars
    <2>2. next \in LocalRecord
      BY <1>2 DEF RecIs
    <2>3. QED
      BY <1>2, <1>3, <1>7, <2>1, <2>2, WriteGrows DEF Saves
  <1>9. RecGood(next)'
    BY <1>2, <1>4, <1>5, <1>6, <1>8, PendingStates, NoneIs DEF Saves, RecIs, RecGood
  <1>10. ASSUME NEW s \in Run, s = run'[t] PROVE RunGood(s)' /\ RunSigns(s)
    <2>1. Follows(r.rec)' /\ current' # None
      BY <1>2, <1>7, RecordFields DEF Saves, Follows, RecIs
    <2>2. RunGood(s)'
      BY <1>1, <1>2, <1>4, <1>5, <1>6, <1>8, <1>10, <2>1, NoneIs
         DEF Moved, Edited, RunGood, LegacyPcs, Signing, Submitted, Retaining
    <2>3. RunSigns(s)
      BY <1>2, <1>3, <1>10 DEF Moved, Edited, RunSigns, Unsigned
    <2>4. QED
      BY <2>2, <2>3
  <1>11. ids' \in 0..MaxId
    BY <1>2, <1>3, DeviceAssumption DEF DeviceTypeOK
  <1>12. QED
    <2>1. /\ Alone(t) /\ next \in LocalRecord /\ next.subject = r.rec.subject
          /\ r.rec \in LocalRecord /\ current = r.rec /\ current' = next
      BY <1>2 DEF Moved, RecIs, Saves
    <2>2. QED
      BY <1>2, <1>7, <1>9, <1>10, <1>11, <2>1, WriteStepKeeps

\* The operations that begin.
LEMMA BeginsAre ==
  ASSUME DeviceInv, NEW t \in Tab, BeginAdopt(t) \/ BeginRotate(t) \/ BeginRevoke(t),
         NEW r, r = run[t]
  PROVE  /\ r.pc \in {"act", "adopt"} /\ r.on /\ r.rec # None
         /\ r.pc = "act" => r.rec.proposal = None
         /\ \E proposal \in Proposal, rotation \in Maybe(Rotation) :
               /\ Keyed(proposal) /\ proposal.op # "register" /\ proposal.expected # None
               /\ Begin(t, proposal, rotation)
  <1>1. RunGood(r) /\ r.snap \in Maybe(Binding)
    BY RunOf
  <1>2. /\ r.pc \in {"act", "adopt"} /\ r.on /\ r.rec # None /\ r.snap # None
        /\ r.pc = "act" => r.rec.proposal = None
    BY <1>1 DEF BeginAdopt, BeginRotate, BeginRevoke, Settled, Acting, RunGood, LegacyPcs
  <1>3. PICK key, id : key = ids + 1 /\ id = r.snap.id
    OBVIOUS
  <1>4. /\ key \in Nat /\ key \in Maybe(Nat) /\ key # None /\ id \in Nat /\ None \in Maybe(Nat)
        /\ None \in Maybe(Rotation)
    BY <1>1, <1>2, <1>3, RunOf, NoneIs DEF DeviceTypeOK, Maybe, Binding
  <1>5. {"adopt", "rotate", "revoke"} \subseteq Ops
    BY DEF Ops
  <1>6. ASSUME BeginAdopt(t)
        PROVE  \E proposal \in Proposal, rotation \in Maybe(Rotation) :
                  /\ Keyed(proposal) /\ proposal.op # "register" /\ proposal.expected # None
                  /\ Begin(t, proposal, rotation)
    <2>1. PICK p : p = NewProposal("adopt", None, id)
      OBVIOUS
    <2>2. p \in Proposal /\ p.op = "adopt" /\ p.expected # None
      BY <1>4, <1>5, <2>1, NewProposalIs
    <2>3. Begin(t, p, None)
      BY <1>3, <1>6, <2>1 DEF BeginAdopt
    <2>4. QED
      BY <1>4, <2>2, <2>3 DEF Keyed, Binds
  <1>7. ASSUME BeginRotate(t)
        PROVE  \E proposal \in Proposal, rotation \in Maybe(Rotation) :
                  /\ Keyed(proposal) /\ proposal.op # "register" /\ proposal.expected # None
                  /\ Begin(t, proposal, rotation)
    <2>1. PICK p, rotation : p = NewProposal("rotate", key, id)
                             /\ rotation = [key |-> key, req |-> key]
      OBVIOUS
    <2>2. /\ p \in Proposal /\ p.op = "rotate" /\ p.expected # None /\ p.key = key
          /\ rotation \in Maybe(Rotation)
      BY <1>3, <1>4, <1>5, <2>1, NewProposalIs
    <2>3. Begin(t, p, rotation)
      BY <1>3, <1>7, <2>1 DEF BeginRotate
    <2>4. QED
      BY <1>4, <2>2, <2>3 DEF Keyed, Binds
  <1>8. ASSUME BeginRevoke(t)
        PROVE  \E proposal \in Proposal, rotation \in Maybe(Rotation) :
                  /\ Keyed(proposal) /\ proposal.op # "register" /\ proposal.expected # None
                  /\ Begin(t, proposal, rotation)
    <2>1. PICK p : p = NewProposal("revoke", None, id)
      OBVIOUS
    <2>2. p \in Proposal /\ p.op = "revoke" /\ p.expected # None
      BY <1>4, <1>5, <2>1, NewProposalIs
    <2>3. Begin(t, p, None)
      BY <1>3, <1>8, <2>1 DEF BeginRevoke
    <2>4. QED
      BY <1>4, <2>2, <2>3 DEF Keyed, Binds
  <1>9. QED
    BY <1>2, <1>6, <1>7, <1>8

LEMMA BeginsKeep ==
  ASSUME DeviceInv, NEW t \in Tab, BeginAdopt(t) \/ BeginRotate(t) \/ BeginRevoke(t)
  PROVE  DeviceInv'
  <1>1. PICK r : r = run[t]
    OBVIOUS
  <1>2. r.pc \in {"act", "adopt"} /\ r.on /\ r.rec # None
    BY <1>1, BeginsAre
  <1>3. PICK proposal \in Proposal, rotation \in Maybe(Rotation) :
               /\ Keyed(proposal) /\ proposal.op # "register" /\ proposal.expected # None
               /\ Begin(t, proposal, rotation)
    BY <1>1, BeginsAre
  <1>4. QED
    BY <1>1, <1>2, <1>3, BeginKeeps

LEMMA FinalizeWrites ==
  ASSUME DeviceInv, NEW t \in Tab, Finalize(t), NEW r, r = run[t], NEW next, next = current'
  PROVE  /\ r.pc = "finalize" /\ ids' = ids
         /\ UNCHANGED <<ubidVars, sentVars, worldVars>>
         /\ Saves(r.rec, next) /\ r.subject = r.rec.subject
         /\ RecIs(next, r.rec.subject, next.key, next.req, next.state, next.accepted,
                        r.auth, None, None, None)
         /\ Moved(t, "read-final", r.rec, r.snap, r.proposal, r.auth, r.replay, r.signatures)
         /\ \/ /\ r.proposal.op = "revoke" /\ next.state = "revoked"
               /\ next.key = r.rec.key /\ next.req = r.rec.req /\ next.accepted = r.rec.accepted
            \/ /\ r.proposal.op = "rotate" /\ r.rec.rotation # None /\ next.state = "ready"
               /\ next.key = r.rec.rotation.key /\ next.req = r.rec.rotation.req
               /\ next.accepted = BindingOf(r.auth)
            \/ /\ r.proposal.op \in {"register", "adopt"} /\ next.state = "ready"
               /\ next.key = r.rec.key /\ next.req = r.rec.req /\ next.accepted = BindingOf(r.auth)
  <1>1. /\ r.pc = "finalize" /\ ids' = ids
        /\ UNCHANGED <<ubidVars, sentVars, worldVars>>
    BY DEF Finalize
  <1>2. DeviceTypeOK /\ r \in Run /\ RunGood(r) /\ r.proposal \in Maybe(Proposal)
    BY RunOf
  <1>3. r.auth \in Nat /\ r.auth \in DOMAIN signed /\ r.rec # None /\ r.proposal # None
    BY <1>1, <1>2, RetainedIs DEF Retaining, Submitted
  <1>4. PICK acc, done : /\ acc = BindingOf(r.auth)
                         /\ done = [r.rec EXCEPT !.auth = r.auth, !.pending = None, !.proposal = None,
                                                 !.rotation = None]
    OBVIOUS
  <1>5. r.rec \in LocalRecord
    BY <1>3, RecOf
  <1>6. acc \in Maybe(Nat) /\ r.rec.key \in Nat /\ r.rec.req \in Nat
    <2>1. signed[r.auth].proposal.expected \in Maybe(Nat)
      BY <1>2, <1>3, SignedIs DEF Proposal
    <2>2. QED
      BY <1>3, <1>4, <1>5, <2>1, RecordFields DEF BindingOf, Maybe
  <1>7. RecIs(done, r.rec.subject, r.rec.key, r.rec.req, r.rec.state, r.rec.accepted, r.auth,
              None, None, None)
    <2>1. PICK rec : rec = r.rec
      OBVIOUS
    <2>2. RecIs(done, rec.subject, rec.key, rec.req, rec.state, rec.accepted, r.auth,
                None, None, None)
      BY <1>3, <1>4, <1>5, <2>1, DoneRecord
    <2>3. QED
      BY <2>1, <2>2
  <1>8. done \in LocalRecord
    BY <1>7 DEF RecIs
  <1> DEFINE Known == \/ /\ r.proposal.op = "revoke" /\ next.state = "revoked"
                         /\ next.key = r.rec.key /\ next.req = r.rec.req
                         /\ next.accepted = r.rec.accepted
                      \/ /\ r.proposal.op = "rotate" /\ r.rec.rotation # None /\ next.state = "ready"
                         /\ next.key = r.rec.rotation.key /\ next.req = r.rec.rotation.req
                         /\ next.accepted = acc
                      \/ /\ r.proposal.op \in {"register", "adopt"} /\ next.state = "ready"
                         /\ next.key = r.rec.key /\ next.req = r.rec.req /\ next.accepted = acc
             Fields == RecIs(next, r.rec.subject, next.key, next.req, next.state, next.accepted,
                             r.auth, None, None, None)
  <1>9. Write(t, next, Goes(t, "read-final")) /\ Known /\ Fields
    <2>1. CASE /\ r.proposal.op = "revoke"
               /\ Write(t, [done EXCEPT !.state = "revoked"], Goes(t, "read-final"))
      <3>1. next = [done EXCEPT !.state = "revoked"]
        BY <2>1 DEF Write
      <3>2. RecIs(next, r.rec.subject, r.rec.key, r.rec.req, "revoked", r.rec.accepted, r.auth,
                  None, None, None)
        <4>1. RecIs(next, done.subject, done.key, done.req, "revoked", done.accepted, done.auth,
                    done.pending, done.proposal, done.rotation)
          BY <1>8, <3>1, RevokedRecord
        <4>2. QED
          BY <1>7, <4>1 DEF RecIs
      <3>3. QED
        BY <2>1, <3>1, <3>2 DEF RecIs
    <2>2. CASE /\ r.proposal.op = "rotate" /\ r.rec.rotation # None
               /\ Write(t, [[done EXCEPT !.state = "ready", !.accepted = acc]
                               EXCEPT !.key = r.rec.rotation.key, !.req = r.rec.rotation.req],
                        Goes(t, "read-final"))
      <3>1. next = [[done EXCEPT !.state = "ready", !.accepted = acc]
                       EXCEPT !.key = r.rec.rotation.key, !.req = r.rec.rotation.req]
        BY <2>2 DEF Write
      <3>2. r.rec.rotation.key \in Nat /\ r.rec.rotation.req \in Nat
        BY <1>5, <2>2, RecordFields DEF Maybe, Rotation
      <3>3. RecIs(next, r.rec.subject, r.rec.rotation.key, r.rec.rotation.req, "ready", acc, r.auth,
                  None, None, None)
        <4>1. PICK ready : ready = [done EXCEPT !.state = "ready", !.accepted = acc]
          OBVIOUS
        <4>2. RecIs(ready, done.subject, done.key, done.req, "ready", acc, done.auth,
                    done.pending, done.proposal, done.rotation)
          BY <1>6, <1>8, <4>1, ReadyRecord
        <4>3. next = [ready EXCEPT !.key = r.rec.rotation.key, !.req = r.rec.rotation.req]
          BY <3>1, <4>1
        <4>4. RecIs(next, ready.subject, r.rec.rotation.key, r.rec.rotation.req, ready.state,
                    ready.accepted, ready.auth, ready.pending, ready.proposal, ready.rotation)
          <5>1. ready \in LocalRecord
            BY <4>2 DEF RecIs
          <5>2. QED
            BY <3>2, <4>3, <5>1, PromotedRecord
        <4>5. QED
          BY <1>7, <4>2, <4>4 DEF RecIs
      <3>4. QED
        BY <2>2, <3>1, <3>3 DEF RecIs
    <2>3. CASE /\ r.proposal.op \in {"register", "adopt"}
               /\ Write(t, [done EXCEPT !.state = "ready", !.accepted = acc],
                        Goes(t, "read-final"))
      <3>1. next = [done EXCEPT !.state = "ready", !.accepted = acc]
        BY <2>3 DEF Write
      <3>2. RecIs(next, r.rec.subject, r.rec.key, r.rec.req, "ready", acc, r.auth,
                  None, None, None)
        <4>1. RecIs(next, done.subject, done.key, done.req, "ready", acc, done.auth,
                    done.pending, done.proposal, done.rotation)
          BY <1>6, <1>8, <3>1, ReadyRecord
        <4>2. QED
          BY <1>7, <4>1 DEF RecIs
      <3>3. QED
        BY <2>3, <3>1, <3>2 DEF RecIs
    <2>4. QED
      BY <1>4, <2>1, <2>2, <2>3 DEF Finalize
  <1>10. /\ Saves(r.rec, next) /\ r.subject = r.rec.subject
        /\ run' = [run EXCEPT ![t] = Goes(t, "read-final")]
    BY <1>9, WriteIs
  <1>11. Moved(t, "read-final", r.rec, r.snap, r.proposal, r.auth, r.replay, r.signatures)
    BY <1>2, <1>10, GoesOn DEF Pcs
  <1>12. QED
    BY <1>1, <1>4, <1>9, <1>10, <1>11

LEMMA FinalizeKeeps ==
  ASSUME DeviceInv, NEW t \in Tab, Finalize(t)
  PROVE  DeviceInv'
  <1>1. PICK r, next : r = run[t] /\ next = current'
    OBVIOUS
  <1>2. /\ r.pc = "finalize" /\ ids' = ids
        /\ UNCHANGED <<ubidVars, sentVars, worldVars>>
        /\ Saves(r.rec, next) /\ r.subject = r.rec.subject
        /\ RecIs(next, r.rec.subject, next.key, next.req, next.state, next.accepted,
                       r.auth, None, None, None)
        /\ Moved(t, "read-final", r.rec, r.snap, r.proposal, r.auth, r.replay, r.signatures)
        /\ \/ /\ r.proposal.op = "revoke" /\ next.state = "revoked"
              /\ next.key = r.rec.key /\ next.req = r.rec.req /\ next.accepted = r.rec.accepted
           \/ /\ r.proposal.op = "rotate" /\ r.rec.rotation # None /\ next.state = "ready"
              /\ next.key = r.rec.rotation.key /\ next.req = r.rec.rotation.req
              /\ next.accepted = BindingOf(r.auth)
           \/ /\ r.proposal.op \in {"register", "adopt"} /\ next.state = "ready"
              /\ next.key = r.rec.key /\ next.req = r.rec.req /\ next.accepted = BindingOf(r.auth)
    BY <1>1, FinalizeWrites
  <1>3. DeviceTypeOK /\ r \in Run /\ RunGood(r) /\ RunSigns(r)
    BY <1>1, RunOf
  <1>4. /\ r.auth \in DOMAIN signed /\ OpOf(r.auth) = r.proposal.op
        /\ r.proposal.op = "revoke" => r.rec.accepted # None
        /\ r.auth \in accepted \/ OpOf(r.auth) = "revoke"
    BY <1>1, <1>2, <1>3, RetainedIs DEF Retaining, Submitted, RunGood
  <1>5. signed' = signed /\ accepted' = accepted
    BY <1>2 DEF ubidVars, sentVars
  <1>6. next.accepted # None /\ next.state \in {"ready", "revoked"}
    BY <1>2, <1>4 DEF Saves, WellFormed
  <1>7. next.accepted = r.rec.accepted \/ Sponsored'
    <2>1. CASE r.proposal.op = "revoke"
      BY <1>2, <2>1
    <2>2. CASE r.proposal.op # "revoke"
      <3>1. next.accepted = BindingOf(r.auth) /\ current' = next
        BY <1>2, <2>2 DEF Saves
      <3>2. QED
        BY <1>4, <1>5, <1>6, <2>2, <3>1 DEF Sponsored, OpOf, BindingOf
    <2>3. QED
      BY <2>1, <2>2
  <1>8. RecGood(r.rec)' /\ RunGood(r)'
    <2>1. \A n \in DOMAIN signed : n \in DOMAIN signed' /\ signed'[n] = signed[n]
      BY <1>2 DEF sentVars
    <2>2. next \in LocalRecord
      BY <1>2 DEF RecIs
    <2>3. QED
      BY <1>2, <1>3, <1>7, <2>1, <2>2, WriteGrows DEF Saves
  <1>9. RecGood(next)'
    BY <1>2, <1>4, <1>5, <1>6, <1>8, PendingStates, NoneIs DEF Saves, RecIs, RecGood, OpOf
  <1>10. ASSUME NEW s \in Run, s = run'[t] PROVE RunGood(s)' /\ RunSigns(s)
    <2>1. Follows(r.rec)' /\ current' # None
      BY <1>2, <1>7, RecordFields DEF Saves, Follows, RecIs
    <2>2. RunGood(s)'
      BY <1>1, <1>2, <1>4, <1>5, <1>6, <1>8, <1>10, <2>1, NoneIs
         DEF Moved, Edited, RunGood, LegacyPcs, Signing, Submitted, Retaining
    <2>3. RunSigns(s)
      BY <1>2, <1>3, <1>10 DEF Moved, Edited, RunSigns, Unsigned
    <2>4. QED
      BY <2>2, <2>3
  <1>11. ids' \in 0..MaxId
    BY <1>2, <1>3 DEF DeviceTypeOK
  <1>12. QED
    <2>1. /\ Alone(t) /\ next \in LocalRecord /\ next.subject = r.rec.subject
          /\ r.rec \in LocalRecord /\ current = r.rec /\ current' = next
      BY <1>2 DEF Moved, RecIs, Saves
    <2>2. QED
      BY <1>2, <1>7, <1>9, <1>10, <1>11, <2>1, WriteStepKeeps

\* What a renewal leaves and what it changes.
RenewedFrom(prev, next, req) ==
    /\ next.req = IF prev.proposal.op = "register" THEN req ELSE prev.req
    /\ next.proposal \in Proposal /\ next.proposal.req = req
    /\ next.proposal.op = prev.proposal.op /\ next.proposal.key = prev.proposal.key
    /\ next.proposal.expected = prev.proposal.expected
    /\ IF prev.proposal.op = "rotate"
       THEN /\ next.rotation \in Rotation /\ next.rotation.key = prev.rotation.key
            /\ next.rotation.req = req
       ELSE next.rotation = prev.rotation

LEMMA RenewWrites ==
  ASSUME DeviceInv, NEW t \in Tab, Renew(t), NEW r, r = run[t], NEW next, next = current'
  PROVE  /\ r.pc = "renew" /\ ids' = ids + 1 /\ ids < MaxId
         /\ UNCHANGED <<ubidVars, sentVars, worldVars>>
         /\ Saves(r.rec, next) /\ r.subject = r.rec.subject
         /\ RecIs(next, r.rec.subject, r.rec.key, next.req, r.rec.state,
                        r.rec.accepted, r.rec.auth, None, next.proposal, next.rotation)
         /\ Moved(t, "read-renewed", r.rec, r.snap, next.proposal, None, FALSE, r.signatures)
         /\ RenewedFrom(r.rec, next, ids')
  <1>1. /\ r.pc = "renew" /\ ids' = ids + 1 /\ ids < MaxId
        /\ UNCHANGED <<ubidVars, sentVars, worldVars>>
    BY DEF Renew
  <1>2. DeviceTypeOK /\ r \in Run /\ RunGood(r)
    BY RunOf
  <1>3. /\ ids + 1 \in Nat /\ r.rec # None /\ r.rec.proposal # None
        /\ FALSE \in BOOLEAN /\ None \in Maybe(Nat)
    BY <1>1, <1>2, RetainedIs DEF Retaining, Submitted, DeviceTypeOK, RunGood, Maybe
  <1>4. /\ r.rec \in LocalRecord /\ (r.rec.proposal.op = "rotate" => r.rec.rotation # None)
    <2>1. PICK rec : rec = r.rec
      OBVIOUS
    <2>2. rec \in LocalRecord /\ RecGood(rec) /\ rec.proposal # None
      BY <1>3, <2>1, RecOf
    <2>3. rec.proposal.op = "rotate" => rec.rotation # None
      BY <2>2 DEF RecGood, WellFormed, Stands
    <2>4. QED
      BY <2>1, <2>2, <2>3
  <1>5. /\ RenewedFrom(r.rec, next, ids') /\ next.proposal \in Maybe(Proposal)
        /\ RecIs(next, r.rec.subject, r.rec.key, next.req, r.rec.state, r.rec.accepted,
                 r.rec.auth, None, next.proposal, next.rotation)
    <2>1. next = Renewal(r.rec, ids + 1)
      BY DEF Renew, Write
    <2>2. PICK rec : rec = r.rec
      OBVIOUS
    <2>3. QED
      BY <1>1, <1>3, <1>4, <2>1, <2>2, RenewedRecord DEF Maybe, RecIs, RenewedFrom
  <1>6. next = Renewal(r.rec, ids + 1)
    BY DEF Renew, Write
  <1>7. Write(t, next, [Goes(t, "read-renewed") EXCEPT
                              !.proposal = next.proposal, !.auth = None, !.replay = FALSE])
    BY <1>1, <1>6 DEF Renew
  <1>8. /\ Saves(r.rec, next) /\ r.subject = r.rec.subject /\ r.rec \in LocalRecord
        /\ run' = [run EXCEPT ![t] = [Goes(t, "read-renewed") EXCEPT
                              !.proposal = next.proposal, !.auth = None, !.replay = FALSE]]
    BY <1>7, WriteIs DEF Saves
  <1>9. RecIs(next, r.rec.subject, r.rec.key, next.req, r.rec.state,
                 r.rec.accepted, r.rec.auth, None, next.proposal, next.rotation)
    BY <1>5
  <1>10. Moved(t, "read-renewed", r.rec, r.snap, next.proposal, None, FALSE, r.signatures)
    BY <1>1, <1>2, <1>8, <1>3, <1>4, <1>5, RunOf, GoesResuming DEF Pcs
  <1>11. QED
    BY <1>1, <1>3, <1>4, <1>5, <1>8, <1>9, <1>10

LEMMA RenewKeeps ==
  ASSUME DeviceInv, NEW t \in Tab, Renew(t)
  PROVE  DeviceInv'
  <1>1. PICK r, next : r = run[t] /\ next = current'
    OBVIOUS
  <1>2. /\ r.pc = "renew" /\ ids' = ids + 1 /\ ids < MaxId
        /\ UNCHANGED <<ubidVars, sentVars, worldVars>>
        /\ Saves(r.rec, next) /\ r.subject = r.rec.subject
        /\ RecIs(next, r.rec.subject, r.rec.key, next.req, r.rec.state,
                       r.rec.accepted, r.rec.auth, None, next.proposal, next.rotation)
        /\ Moved(t, "read-renewed", r.rec, r.snap, next.proposal, None, FALSE, r.signatures)
        /\ RenewedFrom(r.rec, next, ids')
    BY <1>1, RenewWrites
  <1>3. DeviceTypeOK /\ r \in Run /\ RunGood(r) /\ RunSigns(r)
    BY <1>1, RunOf
  <1>4. /\ r.rec.proposal # None /\ r.rec.pending # None /\ RenewedFrom(r.rec, next, ids')
        /\ Keyed(next.proposal) /\ next.proposal # None
    BY <1>2, <1>3, RetainedIs, NoneIs DEF Retaining, Submitted, RunGood, Keyed, RenewedFrom
  <1>5. next.accepted = r.rec.accepted \/ r.rec.accepted = None
    BY <1>2 DEF RecIs
  <1>6. RecGood(r.rec)' /\ RunGood(r)'
    <2>1. \A n \in DOMAIN signed : n \in DOMAIN signed' /\ signed'[n] = signed[n]
      BY <1>2 DEF sentVars
    <2>2. next \in LocalRecord
      BY <1>2 DEF RecIs
    <2>3. QED
      BY <1>2, <1>3, <1>5, <2>1, <2>2, WriteGrows DEF Saves
  <1>7. RecGood(next)'
    BY <1>2, <1>4, <1>6, PendingStates, NoneIs DEF Saves, RecIs, RecGood
  <1>8. ASSUME NEW s \in Run, s = run'[t] PROVE RunGood(s)' /\ RunSigns(s)
    <2>1. Follows(r.rec)' /\ current' # None
      BY <1>2, <1>5, RecordFields DEF Saves, Follows, RecIs
    <2>2. RunGood(s)'
      BY <1>1, <1>2, <1>4, <1>6, <1>8, <2>1, NoneIs
         DEF Moved, Edited, RunGood, LegacyPcs, Signing, Submitted, Retaining
    <2>3. RunSigns(s)
      BY <1>2, <1>3, <1>8 DEF Moved, Edited, RunSigns, Unsigned
    <2>4. QED
      BY <2>2, <2>3
  <1>9. ids' \in 0..MaxId
    BY <1>2, <1>3, DeviceAssumption DEF DeviceTypeOK
  <1>10. QED
    <2>1. /\ Alone(t) /\ next \in LocalRecord /\ next.subject = r.rec.subject
          /\ r.rec \in LocalRecord /\ current = r.rec /\ current' = next
      BY <1>2 DEF Moved, RecIs, Saves
    <2>2. QED
      BY <1>2, <1>5, <1>7, <1>8, <1>9, <2>1, WriteStepKeeps

\* The step signs authorization n.
Signs(n, subject, proposal) ==
    /\ signed' \in Seq([subject : Subject, proposal : Proposal]) /\ Len(signed') = n
    /\ \A m \in DOMAIN signed : m \in DOMAIN signed' /\ signed'[m] = signed[m]
    /\ DOMAIN signed' = DOMAIN signed \cup {n}
    /\ signed'[n] = [subject |-> subject, proposal |-> proposal]

\* The authorization that was signed and the record that keeps it.
LEMMA PersistWrites ==
  ASSUME DeviceInv, NEW t \in Tab, Persist(t), NEW r, r = run[t], NEW next, next = current',
         NEW n, n = Len(signed) + 1
  PROVE  /\ r.pc = "persist" /\ n <= MaxSigned /\ n \in Nat /\ n \notin DOMAIN signed
         /\ UNCHANGED <<ids, ubidVars, posted, commands, worldVars>>
         /\ r.proposal \in Proposal
         /\ Saves(r.rec, next) /\ r.subject = r.rec.subject
         /\ RecIs(next, r.rec.subject, r.rec.key, r.rec.req, PendingState[r.proposal.op],
                  r.rec.accepted, r.rec.auth, n, r.proposal, r.rec.rotation)
         /\ Moved(t, "read-persisted", r.rec, r.snap, r.proposal, n, r.replay, r.signatures)
         /\ Signs(n, r.subject, r.proposal)
  <1>1. /\ r.pc = "persist" /\ n <= MaxSigned
        /\ signed' = Append(signed, [subject |-> r.subject, proposal |-> r.proposal])
        /\ UNCHANGED <<ids, ubidVars, posted, commands, worldVars>>
    BY DEF Persist
  <1>2. DeviceTypeOK /\ r \in Run /\ RunGood(r)
    BY RunOf
  <1>3. /\ r.proposal \in Proposal /\ r.proposal \in Maybe(Proposal)
        /\ n \in Nat /\ n \in Maybe(Nat)
    BY <1>1, <1>2, RunOf DEF RunGood, Signing, Maybe, DeviceTypeOK
  <1>4. next = [r.rec EXCEPT !.pending = n, !.proposal = r.proposal,
                             !.state = PendingState[r.proposal.op]]
    BY DEF Persist, Write
  <1>5. Write(t, next, [Goes(t, "read-persisted") EXCEPT !.auth = n])
    BY <1>4 DEF Persist
  <1>6. /\ Saves(r.rec, next) /\ r.subject = r.rec.subject /\ r.rec \in LocalRecord
        /\ run' = [run EXCEPT ![t] = [Goes(t, "read-persisted") EXCEPT !.auth = n]]
    BY <1>5, WriteIs DEF Saves
  <1>7. RecIs(next, r.rec.subject, r.rec.key, r.rec.req, PendingState[r.proposal.op],
              r.rec.accepted, r.rec.auth, n, r.proposal, r.rec.rotation)
    <2>1. PendingState[r.proposal.op] \in States
      BY <1>3, PendingStates DEF Proposal
    <2>2. QED
      BY <1>3, <1>4, <1>6, <2>1, EditPending
  <1>8. Moved(t, "read-persisted", r.rec, r.snap, r.proposal, n, r.replay, r.signatures)
    BY <1>2, <1>3, <1>6, GoesSigned DEF Pcs
  <1>9. /\ signed' \in Seq([subject : Subject, proposal : Proposal]) /\ Len(signed') = n
        /\ \A m \in DOMAIN signed : m \in DOMAIN signed' /\ signed'[m] = signed[m]
        /\ DOMAIN signed' = DOMAIN signed \cup {n} /\ n \notin DOMAIN signed
        /\ signed'[n] = [subject |-> r.subject, proposal |-> r.proposal]
    <2>1. /\ signed \in Seq([subject : Subject, proposal : Proposal])
          /\ [subject |-> r.subject, proposal |-> r.proposal] \in [subject : Subject, proposal : Proposal]
      BY <1>2, <1>3, <1>6, RecordFields DEF DeviceTypeOK
    <2>2. QED
      BY <1>1, <2>1
  <1>10. QED
    BY <1>1, <1>3, <1>6, <1>7, <1>8, <1>9 DEF Signs

LEMMA PersistKeeps ==
  ASSUME DeviceInv, NEW t \in Tab, Persist(t)
  PROVE  DeviceInv'
  <1>1. PICK r, next, n : r = run[t] /\ next = current' /\ n = Len(signed) + 1
    OBVIOUS
  <1>2. /\ r.pc = "persist" /\ n <= MaxSigned /\ n \in Nat /\ n \notin DOMAIN signed
        /\ UNCHANGED <<ids, ubidVars, posted, commands, worldVars>>
        /\ r.proposal \in Proposal
        /\ Saves(r.rec, next) /\ r.subject = r.rec.subject
        /\ RecIs(next, r.rec.subject, r.rec.key, r.rec.req, PendingState[r.proposal.op],
                 r.rec.accepted, r.rec.auth, n, r.proposal, r.rec.rotation)
        /\ Moved(t, "read-persisted", r.rec, r.snap, r.proposal, n, r.replay, r.signatures)
        /\ Signs(n, r.subject, r.proposal)
    BY <1>1, PersistWrites
  <1>3. DeviceTypeOK /\ r \in Run /\ RunGood(r) /\ RunSigns(r)
    BY <1>1, RunOf
  <1>4. Keyed(r.proposal) /\ r.proposal # None /\ n # None
    BY <1>2, <1>3, NoneIs DEF RunGood
  <1>5. SignedFor(n, r.subject, r.proposal)'
    BY <1>2 DEF SignedFor, Signs
  <1>6. /\ next \in LocalRecord /\ next.subject = r.rec.subject /\ next.accepted = r.rec.accepted
        /\ r.rec \in LocalRecord /\ current = r.rec /\ current' = next
    BY <1>2 DEF RecIs, Saves
  <1>7. RecGood(r.rec)' /\ RunGood(r)'
    BY <1>2, <1>3, <1>6, WriteGrows DEF Saves, Signs
  <1>8. RecGood(next)'
    <2>1. next.accepted = None => next.state = "pending-register"
      <3> SUFFICES ASSUME r.rec.accepted = None PROVE r.proposal.op = "register"
        BY <1>2 DEF RecIs, PendingState, Ops
      <3>1. r.rec.state = "pending-register" /\ r.rec.rotation = None
        BY <1>2 DEF RecGood, WellFormed, Saves
      <3>2. next.state \notin {"pending-adopt", "pending-revoke", "pending-rotate"}
        BY <1>2, <3>1 DEF WellFormed, RecIs, Saves
      <3>3. r.proposal.op \in Ops /\ next.state = PendingState[r.proposal.op]
        BY <1>2 DEF RecIs, Proposal
      <3>4. QED
        BY <3>2, <3>3, PendingStates
    <2>2. QED
      BY <1>2, <1>4, <1>5, <1>7, <2>1, PendingStates DEF Saves, RecIs, RecGood, Proposal
  <1>9. ASSUME NEW s \in Run, s = run'[t] PROVE RunGood(s)' /\ RunSigns(s)
    <2>1. Follows(r.rec)' /\ current' # None
      BY <1>2, <1>6, RecordFields DEF Follows
    <2>2. RunGood(s)'
      BY <1>1, <1>2, <1>5, <1>7, <1>9, <2>1
         DEF Moved, Edited, RunGood, LegacyPcs, Signing, Submitted, Retaining
    <2>3. RunSigns(s)
      BY <1>2, <1>3, <1>9 DEF Moved, Edited, RunSigns, Unsigned
    <2>4. QED
      BY <2>2, <2>3
  <1>10. /\ Alone(t) /\ ids' \in 0..MaxId /\ Len(signed') <= MaxSigned
         /\ \A m \in DOMAIN signed' \ DOMAIN signed :
               signed'[m].subject = next.subject /\ Keyed(signed'[m].proposal)
    BY <1>2, <1>3, <1>4, <1>6 DEF Moved, DeviceTypeOK, Signs
  <1>11. QED
    BY <1>2, <1>6, <1>8, <1>9, <1>10, WriteKeeps DEF Signs

\* The record of a new device.
LEMMA CreateWrites ==
  ASSUME DeviceInv, NEW t \in Tab, Create(t), NEW r, r = run[t], NEW next, next = current',
         NEW proposal, proposal = RegisterProposal(ids', ids')
  PROVE  /\ r.pc = "act" /\ r.rec = None /\ r.subject \in Subject /\ ids' \in 0..MaxId
         /\ current = None /\ UNCHANGED <<ubidVars, sentVars, worldVars>>
         /\ proposal \in Proposal /\ proposal.op = "register" /\ proposal.key = ids'
         /\ proposal.req = ids'
         /\ RecIs(next, r.subject, ids', ids', "pending-register", None, None, None,
                  proposal, None)
         /\ Moved(t, "read-created", r.rec, r.snap, r.proposal, r.auth, r.replay, r.signatures)
  <1>1. PICK id : id = ids + 1
    OBVIOUS
  <1>2. /\ r.pc = "act" /\ r.rec = None /\ r.subject # None /\ ids < MaxBegun /\ ids' = id
        /\ current = None
        /\ next = [subject |-> r.subject, key |-> id, req |-> id,
                   state |-> "pending-register", accepted |-> None, auth |-> None,
                   pending |-> None, rotation |-> None, proposal |-> proposal]
        /\ run' = [run EXCEPT ![t] = Goes(t, "read-created")]
        /\ UNCHANGED <<ubidVars, sentVars, worldVars>>
    BY <1>1 DEF Create, Add, SessionOf
  <1>3. DeviceTypeOK /\ r \in Run /\ r.subject \in Subject /\ id \in Nat /\ id \in 0..MaxId
    <2>1. DeviceTypeOK /\ r \in Run /\ r.subject \in Maybe(Subject)
      BY RunOf
    <2>2. id \in Nat /\ id \in 0..MaxId
      BY <1>1, <1>2, <2>1, DeviceAssumption DEF DeviceTypeOK
    <2>3. QED
      BY <1>2, <2>1, <2>2 DEF Maybe
  <1>4. /\ proposal \in Proposal /\ proposal.op = "register" /\ proposal.key = id
        /\ proposal.req = id
    BY <1>2, <1>3 DEF RegisterProposal, Proposal, Ops, Maybe
  <1>5. RecIs(next, r.subject, id, id, "pending-register", None, None, None, proposal, None)
    BY <1>2, <1>3, <1>4 DEF RecIs, LocalRecord, States, PendingState, Ops, Maybe
  <1>6. Moved(t, "read-created", r.rec, r.snap, r.proposal, r.auth, r.replay, r.signatures)
    BY <1>2, <1>3, GoesOn DEF Pcs
  <1>7. QED
    BY <1>2, <1>3, <1>4, <1>5, <1>6

LEMMA CreateKeeps ==
  ASSUME DeviceInv, NEW t \in Tab, Create(t)
  PROVE  DeviceInv'
  <1>1. PICK r, next, id, proposal : /\ r = run[t] /\ next = current' /\ id = ids'
                                     /\ proposal = RegisterProposal(ids', ids')
    OBVIOUS
  <1>2. /\ r.pc = "act" /\ r.rec = None /\ r.subject \in Subject /\ ids' \in 0..MaxId
        /\ current = None /\ UNCHANGED <<ubidVars, sentVars, worldVars>>
        /\ proposal \in Proposal /\ proposal.op = "register" /\ proposal.key = ids'
        /\ proposal.req = ids'
        /\ RecIs(next, r.subject, ids', ids', "pending-register", None, None, None,
                 proposal, None)
        /\ Moved(t, "read-created", r.rec, r.snap, r.proposal, r.auth, r.replay, r.signatures)
    BY <1>1, CreateWrites
  <1>3. DeviceTypeOK /\ r \in Run /\ RunGood(r) /\ RunSigns(r)
    BY <1>1, RunOf
  <1>4. id \in Nat /\ id # None /\ proposal # None
    BY <1>1, <1>2, NoneIs, DeviceAssumption
  <1>5. RecGood(next)'
    BY <1>1, <1>2, <1>4, NoneIs
       DEF RecIs, RecGood, WellFormed, Stands, PendingState, Ops, Keyed, Binds
  <1>6. signed' = signed /\ DOMAIN signed = {} /\ DOMAIN signed' = {}
    BY <1>2 DEF DeviceInv, SignedGood, sentVars
  <1>7. Grows
    BY <1>2, <1>6 DEF Grows, ubidVars, worldVars
  <1>8. DeviceTypeOK'
    <2>1. current' \in Maybe(LocalRecord)
      BY <1>1, <1>2 DEF RecIs, Maybe
    <2>2. QED
      BY <1>2, <1>3, <1>6, <2>1 DEF DeviceTypeOK, Moved, Alone, ubidVars, sentVars, worldVars
  <1>9. SignedGood' /\ BoundGood'
    BY <1>2, <1>6 DEF SignedGood, BoundGood, KnownBinding, DeviceInv, ubidVars
  <1>10. RecordGood'
    BY <1>1, <1>5 DEF RecordGood
  <1>11. ASSUME NEW u \in Tab, NEW s \in Run, s = run'[u]
         PROVE  s = run[u] \/ (RunGood(s)' /\ RunSigns(s))
    <2>1. CASE u = t
      <3>1. RunGood(r)'
        BY <1>3, <1>7, RunKept
      <3>2. RunGood(s)'
        BY <1>1, <1>2, <1>11, <2>1, <3>1, NoneIs
           DEF Moved, Edited, RunGood, LegacyPcs, Signing, Submitted, Retaining
      <3>3. RunSigns(s)
        BY <1>2, <1>3, <1>11, <2>1 DEF Moved, Edited, RunSigns, Unsigned
      <3>4. QED
        BY <3>2, <3>3
    <2>2. QED
      BY <1>2, <1>11, <2>1 DEF Moved, Alone
  <1>12. QED
    BY <1>7, <1>8, <1>9, <1>10, <1>11, StepKeeps, ZenonT(60)

-----------------------------------------------------------------------------
(* UBID, and the world.                                                    *)

LEMMA WorldStepKeeps ==
  ASSUME DeviceInv, UNCHANGED <<current, run, signed>>,
         accepted \subseteq accepted', expired \subseteq expired',
         expired \cap accepted' \subseteq accepted, enabled => enabled',
         DeviceTypeOK', BoundGood'
  PROVE  DeviceInv'
  <1>1. Grows
    BY DEF Grows
  <1>2. SignedGood'
    BY DEF DeviceInv, SignedGood
  <1>3. RecordGood'
    <2> SUFFICES ASSUME NEW rec \in LocalRecord, rec = current' PROVE RecGood(rec)'
      BY DEF RecordGood
    <2>1. RecGood(rec)
      BY DEF DeviceInv, RecordGood
    <2>2. QED
      BY <1>1, <2>1, RecKept DEF DeviceInv
  <1>4. \A u \in Tab, r \in Run : r = run'[u] => r = run[u] \/ (RunGood(r)' /\ RunSigns(r))
    OBVIOUS
  <1>5. QED
    BY <1>1, <1>2, <1>3, <1>4, StepKeeps, ZenonT(60)

LEMMA UbidAuthorizeKeeps ==
  ASSUME DeviceInv, NEW n \in DOMAIN signed, UbidAuthorize(n)
  PROVE  DeviceInv'
  <1>1. PICK s, p, b : /\ s = signed[n].subject /\ p = signed[n].proposal
                       /\ b = IF p.op = "revoke" THEN None
                              ELSE IF p.op = "adopt" THEN bound[s] ELSE [key |-> p.key, id |-> n]
    OBVIOUS
  <1>2. /\ n \in posted \ (accepted \cup expired) /\ accepted' = accepted \cup {n}
        /\ bound' = [bound EXCEPT ![s] = b]
        /\ UNCHANGED <<current, run, ids, registered, sentVars, worldVars>>
    BY <1>1 DEF UbidAuthorize
  <1>3. /\ DeviceTypeOK /\ s \in Subject /\ p \in Proposal /\ Keyed(p) /\ n \in Nat
        /\ p.op \in Ops /\ p.key \in Maybe(Nat)
    BY <1>1, SignedIs DEF DeviceInv, SignedGood, Proposal
  <1>4. b \in Maybe(Binding)
    <2>1. p.op \notin {"revoke", "adopt"} => p.key \in Nat
      BY <1>3 DEF Keyed, Binds, Maybe, Ops
    <2>2. bound[s] \in Maybe(Binding)
      BY <1>3 DEF DeviceTypeOK
    <2>3. QED
      BY <1>1, <1>3, <2>1, <2>2, BindingIs DEF Maybe
  <1>5. DeviceTypeOK'
    BY <1>2, <1>3, <1>4 DEF DeviceTypeOK, sentVars, worldVars
  <1>6. BoundGood'
    <2> SUFFICES ASSUME NEW u \in Subject, NEW c \in Binding, c = bound'[u]
                 PROVE  c.id = Legacy \/ c.id \in accepted \cup {n}
      BY <1>2 DEF BoundGood, KnownBinding
    <2>1. CASE c = bound[u]
      BY <2>1 DEF DeviceInv, BoundGood, KnownBinding
    <2>2. CASE c # bound[u]
      <3>1. u = s /\ c = b
        BY <1>2, <1>3, <2>2 DEF DeviceTypeOK
      <3>2. b = [key |-> p.key, id |-> n]
        BY <1>1, <2>2, <3>1, NoneIs
      <3>3. QED
        BY <3>1, <3>2
    <2>3. QED
      BY <2>1, <2>2
  <1>7. /\ UNCHANGED <<current, run, signed>> /\ accepted \subseteq accepted'
        /\ expired \subseteq expired' /\ expired \cap accepted' \subseteq accepted
        /\ enabled => enabled'
    BY <1>2 DEF sentVars, worldVars
  <1>8. QED
    BY <1>5, <1>6, <1>7, WorldStepKeeps

LEMMA UbidRegisterKeeps ==
  ASSUME DeviceInv, NEW c \in commands, UbidRegister(c)
  PROVE  DeviceInv'
  <1>1. PICK s, b : s = c.subject /\ b = [key |-> c.key, id |-> Legacy]
    OBVIOUS
  <1>2. /\ registered' = registered \cup {c} /\ bound' = [bound EXCEPT ![s] = b]
        /\ UNCHANGED <<current, run, ids, accepted, sentVars, worldVars>>
    BY <1>1 DEF UbidRegister
  <1>3. DeviceTypeOK /\ s \in Subject /\ c.key \in Nat
    BY <1>1 DEF DeviceInv, DeviceTypeOK
  <1>4. b \in Binding /\ b.id = Legacy
    BY <1>1, <1>3, BindingIs DEF Legacy
  <1>5. DeviceTypeOK'
    BY <1>2, <1>3, <1>4 DEF DeviceTypeOK, sentVars, worldVars, Maybe
  <1>6. BoundGood'
    BY <1>2, <1>3, <1>4 DEF DeviceInv, BoundGood, KnownBinding, DeviceTypeOK
  <1>7. /\ UNCHANGED <<current, run, signed>> /\ accepted \subseteq accepted'
        /\ expired \subseteq expired' /\ expired \cap accepted' \subseteq accepted
        /\ enabled => enabled'
    BY <1>2 DEF sentVars, worldVars
  <1>8. QED
    BY <1>5, <1>6, <1>7, WorldStepKeeps

LEMMA WithdrawKeeps ==
  ASSUME DeviceInv, NEW s \in Subject, Withdraw(s)
  PROVE  DeviceInv'
  <1>1. /\ bound' = [bound EXCEPT ![s] = None]
        /\ UNCHANGED <<current, run, ids, accepted, registered, sentVars, worldVars>>
    BY DEF Withdraw
  <1>2. DeviceTypeOK'
    BY <1>1 DEF DeviceInv, DeviceTypeOK, sentVars, worldVars, Maybe
  <1>3. BoundGood'
    BY <1>1, NoneIs DEF DeviceInv, BoundGood, KnownBinding, DeviceTypeOK
  <1>4. /\ UNCHANGED <<current, run, signed>> /\ accepted \subseteq accepted'
        /\ expired \subseteq expired' /\ expired \cap accepted' \subseteq accepted
        /\ enabled => enabled'
    BY <1>1 DEF sentVars, worldVars
  <1>5. QED
    BY <1>2, <1>3, <1>4, WorldStepKeeps

LEMMA ExpireKeeps ==
  ASSUME DeviceInv, NEW n \in DOMAIN signed, Expire(n)
  PROVE  DeviceInv'
  <1>1. /\ expired' = expired \cup {n}
        /\ UNCHANGED <<current, run, ids, ubidVars, sentVars, session, enabled, switches>>
    BY DEF Expire
  <1>2. DeviceTypeOK' /\ BoundGood'
    BY <1>1 DEF DeviceInv, DeviceTypeOK, sentVars, ubidVars, BoundGood, KnownBinding
  <1>3. /\ UNCHANGED <<current, run, signed>> /\ accepted \subseteq accepted'
        /\ expired \subseteq expired' /\ expired \cap accepted' \subseteq accepted
        /\ enabled => enabled'
    BY <1>1 DEF sentVars, ubidVars
  <1>4. QED
    BY <1>2, <1>3, WorldStepKeeps

LEMMA SwitchAccountKeeps ==
  ASSUME DeviceInv, NEW s \in Maybe(Subject), SwitchAccount(s)
  PROVE  DeviceInv'
  <1>1. /\ session' = s /\ switches' = switches + 1 /\ switches < MaxSwitch
        /\ UNCHANGED <<current, run, ids, ubidVars, sentVars, enabled, expired>>
    BY DEF SwitchAccount
  <1>2. DeviceTypeOK' /\ BoundGood'
    BY <1>1, DeviceAssumption
       DEF DeviceInv, DeviceTypeOK, sentVars, ubidVars, BoundGood, KnownBinding
  <1>3. /\ UNCHANGED <<current, run, signed>> /\ accepted \subseteq accepted'
        /\ expired \subseteq expired' /\ expired \cap accepted' \subseteq accepted
        /\ enabled => enabled'
    BY <1>1 DEF sentVars, ubidVars
  <1>4. QED
    BY <1>2, <1>3, WorldStepKeeps

LEMMA DeployKeeps ==
  ASSUME DeviceInv, Deploy
  PROVE  DeviceInv'
  <1>1. /\ enabled' = TRUE /\ commands' = registered
        /\ UNCHANGED <<current, run, ids, ubidVars, signed, posted, session, expired, switches>>
    BY DEF Deploy
  <1>2. DeviceTypeOK' /\ BoundGood'
    BY <1>1 DEF DeviceInv, DeviceTypeOK, ubidVars, BoundGood, KnownBinding
  <1>3. /\ UNCHANGED <<current, run, signed>> /\ accepted \subseteq accepted'
        /\ expired \subseteq expired' /\ expired \cap accepted' \subseteq accepted
        /\ enabled => enabled'
    BY <1>1 DEF ubidVars
  <1>4. QED
    BY <1>2, <1>3, WorldStepKeeps

-----------------------------------------------------------------------------
(* The theorems for any number of tabs.                                    *)

LEMMA DeviceInitInv == DeviceInit => DeviceInv
  <1> SUFFICES ASSUME DeviceInit PROVE DeviceInv
    OBVIOUS
  <1>1. DeviceTypeOK
    BY DeviceAssumption, NoRunIs DEF DeviceInit, DeviceTypeOK, Maybe
  <1>2. RunsGood
    BY NoRunIs DEF DeviceInit, RunsGood, RunGood, RunSigns, LegacyPcs, Signing, Submitted,
                   Retaining, Unsigned
  <1>3. RecordGood /\ SignedGood /\ BoundGood /\ (Deployed => enabled)
    BY NoneIs DEF DeviceInit, RecordGood, SignedGood, BoundGood
  <1>4. QED
    BY <1>1, <1>2, <1>3 DEF DeviceInv

\* No step breaks the invariant, whichever tab takes it.
LEMMA DeviceNextInv == DeviceInv /\ [DeviceNext]_deviceVars => DeviceInv'
  <1> SUFFICES ASSUME DeviceInv, [DeviceNext]_deviceVars PROVE DeviceInv'
    OBVIOUS
  <1>1. ASSUME NEW t \in Tab, Proceed(t) \/ Fail(t) PROVE DeviceInv'
    <2>1. ASSUME Decide(t) PROVE DeviceInv'
      BY <2>1, CreateKeeps, ReconcileKeeps, ResumeKeeps, RequireAuthorizationKeeps,
         BeginsKeep, ShowReadyKeeps DEF Decide
    <2>2. ASSUME Submit(t) PROVE DeviceInv'
      BY <2>2, SignKeeps, PersistKeeps, PostKeeps, AnswerAcceptedKeeps, ConfirmKeeps,
         FinalizeKeeps, ShowFinalKeeps, AnswerExpiredKeeps, RenewSnapshotKeeps, RenewKeeps
         DEF Submit
    <2>3. ASSUME LegacyStep(t) PROVE DeviceInv'
      BY <2>3, LegacyBoundKeeps, LegacyPostKeeps, LegacyAnswerKeeps, LegacyConfirmKeeps,
         LegacyReadyKeeps DEF LegacyStep
    <2>4. QED
      BY <1>1, <2>1, <2>2, <2>3, LoadKeeps, SnapshotKeeps, ReadBackKeeps, FailKeeps DEF Proceed
  <1>2. CASE Ubid
    BY <1>2, UbidAuthorizeKeeps, UbidRegisterKeeps DEF Ubid
  <1>3. CASE World
    BY <1>3, ExpireKeeps, WithdrawKeeps, SwitchAccountKeeps, DeployKeeps DEF World
  <1>4. CASE UNCHANGED deviceVars
    <2>1. /\ UNCHANGED <<current, run, ids, signed, accepted, expired, enabled, bound>>
          /\ DeviceTypeOK' /\ BoundGood'
      BY <1>4 DEF deviceVars, ubidVars, sentVars, worldVars, DeviceInv, DeviceTypeOK, BoundGood,
                  KnownBinding
    <2>2. QED
      BY <2>1, WorldStepKeeps
  <1>5. QED
    BY <1>1, <1>2, <1>3, <1>4, StartKeeps DEF DeviceNext

\* What holds of the record, of every tab and of UBID in every state.
THEOREM DeviceInvariant == DeviceSpec => []DeviceInv
  BY DeviceInitInv, DeviceNextInv, PTL DEF DeviceSpec

\* The record, the runs and UBID's bindings have their types, and nothing is
\* accepted that was not submitted, or submitted that was not signed.
THEOREM DeviceTypeCorrect == DeviceSpec => []DeviceTypeOK
  <1>1. DeviceInv => DeviceTypeOK
    BY DEF DeviceInv
  <1>2. QED
    BY <1>1, DeviceInvariant, PTL

\* An explicit action signs at most once: what is sent again was signed
\* before, and after a renewal the run has not signed yet.
THEOREM SignsOnceHolds == DeviceSpec => []SignsOnce
  <1>1. DeviceInv => SignsOnce
    BY RunFields DEF DeviceInv, RunsGood, RunSigns, SignsOnce
  <1>2. QED
    BY <1>1, DeviceInvariant, PTL

\* A tab that shows "ready" shows the binding of an accepted authorization.
LEMMA ShowsAuthorized ==
  ASSUME DeviceInv, NEW t \in Tab, ShowsReady(t)
  PROVE  \E n \in accepted : OpOf(n) # "revoke" /\ BindingOf(n) = current.accepted
  <1>1. PICK r, rec : r = run[t] /\ rec = r.rec
    OBVIOUS
  <1>2. DeviceTypeOK /\ RunGood(r)
    BY <1>1, RunOf
  <1>3. CASE ShowReady(t)
    <2>1. /\ rec # None /\ rec.proposal = None /\ rec.accepted \in {None, r.snap.id}
          /\ rec.auth # None /\ BindingOf(rec.auth) = r.snap.id
          /\ OpOf(rec.auth) \in {"register", "adopt", "rotate"}
      BY <1>1, <1>3 DEF ShowReady, Settled, Acting, Authorized
    <2>2. RecGood(rec) /\ Follows(rec)
      BY <1>1, <2>1, RecOf
    <2>3. rec.auth \in accepted /\ rec.accepted # None
      BY <2>1, <2>2 DEF RecGood, PendingState, Ops
    <2>4. QED
      BY <2>1, <2>2, <2>3 DEF Follows, Sponsored
  <1>4. CASE ShowFinal(t) /\ r.proposal.op # "revoke"
    <2>1. /\ r.pc = "read-final" /\ current.accepted = BindingOf(r.auth)
      BY <1>1, <1>4 DEF ShowFinal
    <2>2. r.auth \in accepted /\ OpOf(r.auth) = r.proposal.op
      BY <1>2, <1>4, <2>1 DEF RunGood, Submitted, SignedFor, OpOf
    <2>3. QED
      BY <1>4, <2>1, <2>2
  <1>5. QED
    BY <1>1, <1>3, <1>4 DEF ShowsReady

\* ReadyIsAuthorized holds with any number of tabs: a legacy binding never
\* shows as ready in an authorized tab, whoever has written the record.
THEOREM ReadyIsAuthorizedHolds == DeviceSpec => ReadyIsAuthorized
  <1>1. DeviceInv /\ [DeviceNext]_deviceVars =>
          [\A t \in Tab : ShowsReady(t) =>
              \E n \in accepted : /\ OpOf(n) # "revoke"
                                  /\ BindingOf(n) = current.accepted]_deviceVars
    BY ShowsAuthorized
  <1>2. QED
    BY <1>1, DeviceInvariant, PTL DEF DeviceSpec, ReadyIsAuthorized

-----------------------------------------------------------------------------
(* What is inductive when one tab is open.                                 *)

OneTab == \A t, u \in Tab : t = u

\* UBID has taken the command or an authorization that carries the request id.
ByCommand(rec) == \E c \in registered : c.req = rec.req

\* UBID may still accept authorization n.
Live(n) == n \in DOMAIN signed \ (accepted \cup expired) /\ ~Used(ReqOf(n))

\* What a binding of the account can be, given the record.
BoundIs(rec, binding) ==
    \/ binding = None
    \/ /\ rec.state = "pending-register" /\ ByCommand(rec)
       /\ binding = [key |-> rec.key, id |-> Legacy]
    \/ /\ rec.state # "pending-register"
       /\ binding = [key |-> rec.key, id |-> rec.accepted]
    \/ /\ rec.pending \in accepted /\ Binds(rec.proposal.op)
       /\ binding = [key |-> rec.proposal.key, id |-> rec.pending]

\* What holds of the record and UBID.
RecordStands(rec) ==
    /\ rec.state # "pending-register" => Used(rec.req)
    /\ BoundIs(rec, bound[rec.subject])
    /\ rec.pending \in accepted /\ Binds(rec.proposal.op) =>
          bound[rec.subject] \in {None, [key |-> rec.proposal.key, id |-> rec.pending]}
    /\ \A n \in DOMAIN signed : Live(n) /\ Binds(OpOf(n)) => rec.pending = n
    /\ rec.state = "revoked" => bound[rec.subject] = None
    /\ \A s \in Subject \ {rec.subject} :
          bound[s] # None => bound[s].id = Legacy /\ registered # {}
    /\ ~enabled => \A c \in commands : c.key = rec.key /\ c.req = rec.req

\* Nothing is sent before there is a record.
Unrecorded == current = None => commands = {} /\ \A s \in Subject : bound[s] = None

CommandsGood ==
    /\ enabled => commands = registered
    /\ Deployed => commands = {}
    /\ \A n \in accepted, c \in registered : ReqOf(n) # c.req

Reading == {"read-created", "read-begun", "read-required", "read-persisted", "read-renewed",
            "read-final", "read-legacy", "read-ready"}

\* The run relies on the account having no binding.
SeesNone(r) ==
    \/ /\ r.pc \in {"act", "read-required", "adopt"} /\ r.snap = None
       /\ current.state # "pending-register"
    \/ r.pc = "finalize" /\ r.proposal.op = "revoke"
    \/ r.pc = "renew" /\ r.proposal.op = "register"

RunStands(r) ==
    /\ r.pc \notin {"idle", "load"} \cup Reading => r.rec = current
    /\ r.pc \in Reading => current # None
    /\ r.pc \notin {"idle", "load"} /\ current # None => current.subject = r.subject
    /\ r.pc = "act" /\ current = None => r.snap = None
    /\ r.pc = "read-created" => r.snap = None /\ current.state = "pending-register"
    /\ r.pc \in {"act", "read-required", "adopt"} /\ current # None => BoundIs(current, r.snap)
    /\ current # None /\ SeesNone(r) => bound[current.subject] = None
    /\ r.pc \in {"read-required", "adopt"} => current.state = "authorization-required"
    /\ r.pc \in Signing => r.proposal = current.proposal /\ current.pending = None
    /\ r.pc \in Retaining \cup {"read-persisted"} =>
          r.proposal = current.proposal /\ r.auth = current.pending
    /\ r.pc = "legacy-answer" => current.state = "pending-register" /\ current.accepted = None
    /\ r.pc \in {"read-legacy", "legacy-confirm", "legacy-ready"} =>
          current.state = "pending-register" /\ ByCommand(current) /\ current.accepted = Legacy

OneInv ==
    /\ \A rec \in LocalRecord : rec = current => RecordStands(rec)
    /\ \A t \in Tab, r \in Run : r = run[t] => RunStands(r)
    /\ Unrecorded /\ CommandsGood

-----------------------------------------------------------------------------
(* What the invariants say of the record and of a run.                     *)

LEMMA RunStandsNow ==
  ASSUME DeviceInv, OneInv, NEW t \in Tab, NEW r, r = run[t]
  PROVE  RunStands(r)
  BY RunOf DEF OneInv

LEMMA RecordNow ==
  ASSUME DeviceInv, OneInv, NEW rec, rec = current, rec # None
  PROVE  rec \in LocalRecord /\ RecGood(rec) /\ RecordStands(rec)
  <1>1. rec \in LocalRecord
    BY DEF DeviceInv, DeviceTypeOK, Maybe
  <1>2. QED
    BY <1>1 DEF DeviceInv, RecordGood, OneInv

\* What a record that has a proposal says of its state.
LEMMA ProposedIs ==
  ASSUME NEW rec \in LocalRecord, RecGood(rec), rec.proposal # None
  PROVE  /\ rec.proposal \in Proposal /\ rec.proposal.op \in Ops /\ Stands(rec.proposal, rec)
         /\ rec.state = PendingState[rec.proposal.op]
         /\ rec.state = "pending-register" <=> rec.proposal.op = "register"
         /\ rec.state = "pending-rotate" <=> rec.proposal.op = "rotate"
         /\ rec.state = "pending-adopt" <=> rec.proposal.op = "adopt"
         /\ rec.state = "pending-revoke" <=> rec.proposal.op = "revoke"
         /\ rec.state \notin {"ready", "revoked", "authorization-required"}
         /\ rec.proposal.op = "register" =>
               rec.proposal.key = rec.key /\ rec.proposal.req = rec.req
  <1>1. rec.proposal \in Proposal /\ rec.proposal.op \in Ops /\ Stands(rec.proposal, rec)
    BY RecordFields, ProposalFields DEF RecGood, WellFormed
  <1>2. QED
    BY <1>1 DEF Stands, Ops, PendingState

\* What an authorization the record retains was signed for.
LEMMA PendingIs ==
  ASSUME DeviceTypeOK, NEW rec \in LocalRecord, RecGood(rec), rec.pending # None
  PROVE  /\ rec.pending \in DOMAIN signed /\ rec.pending \in Nat /\ rec.proposal # None
         /\ signed[rec.pending].proposal = rec.proposal
         /\ OpOf(rec.pending) = rec.proposal.op /\ ReqOf(rec.pending) = rec.proposal.req
         /\ rec.pending \in accepted => Used(rec.proposal.req)
  <1>1. rec.pending \in DOMAIN signed /\ rec.proposal # None
        /\ signed[rec.pending].proposal = rec.proposal
    BY DEF RecGood, WellFormed, SignedFor
  <1>2. rec.pending \in Nat
    BY <1>1, SignedIs
  <1>3. QED
    BY <1>1, <1>2 DEF OpOf, ReqOf, Used

\* Nothing was accepted under another number than that of an authorization.
LEMMA AcceptedAre ==
  ASSUME DeviceTypeOK
  PROVE  None \notin accepted /\ accepted \subseteq DOMAIN signed
  <1>1. accepted \subseteq DOMAIN signed
    BY DEF DeviceTypeOK
  <1>2. QED
    BY <1>1, SignedIs

\* UBID has not both taken the registration's command and accepted the
\* authorization the record retains for it.
LEMMA TakenOnce ==
  ASSUME DeviceTypeOK, OneInv, NEW rec \in LocalRecord, RecGood(rec),
         rec.state = "pending-register", ByCommand(rec)
  PROVE  rec.pending \notin accepted
  <1> SUFFICES ASSUME rec.pending \in accepted PROVE FALSE
    OBVIOUS
  <1>1. rec.pending # None
    BY AcceptedAre
  <1>2. rec.proposal # None /\ ReqOf(rec.pending) = rec.proposal.req
    BY <1>1, PendingIs
  <1>3. ReqOf(rec.pending) = rec.req
    BY <1>2, ProposedIs
  <1>4. QED
    BY <1>3 DEF ByCommand, OneInv, CommandsGood

\* Once UBID has taken the registration, by command or authorization, no
\* authorization that binds is live.
LEMMA NoneLive ==
  ASSUME DeviceTypeOK, NEW rec \in LocalRecord, RecGood(rec), RecordStands(rec),
         \/ rec.pending = None \/ rec.pending \in accepted \cup expired
         \/ rec.state = "pending-register" /\ ByCommand(rec)
         \/ rec.proposal # None /\ ~Binds(rec.proposal.op),
         NEW n \in DOMAIN signed, Live(n)
  PROVE  ~Binds(OpOf(n))
  <1> SUFFICES ASSUME Binds(OpOf(n)) PROVE FALSE
    OBVIOUS
  <1>1. rec.pending = n /\ n # None /\ n \notin accepted \cup expired
    BY SignedIs DEF RecordStands, Live
  <1>2. rec.proposal # None /\ OpOf(n) = rec.proposal.op /\ ReqOf(n) = rec.proposal.req
    BY <1>1, PendingIs
  <1>3. rec.state = "pending-register" /\ ByCommand(rec)
    BY <1>1, <1>2
  <1>4. ReqOf(n) = rec.req
    BY <1>2, <1>3, ProposedIs
  <1>5. Used(ReqOf(n))
    BY <1>3, <1>4 DEF Used, ByCommand
  <1>6. QED
    BY <1>5 DEF Live

-----------------------------------------------------------------------------
(* The steps of the one tab that write nothing.                            *)

\* A step of the tab that leaves the record alone, and UBID.
LEMMA RunStepStands ==
  ASSUME OneTab, DeviceInv, OneInv, NEW t \in Tab, Alone(t),
         UNCHANGED <<current, ids, ubidVars, signed, worldVars>>,
         commands' = commands
         \/ /\ ~enabled /\ ~Deployed /\ current # None
            /\ \A c \in commands' \ commands : c.key = current.key /\ c.req = current.req,
         \A s \in Run : s = run'[t] => RunStands(s)
  PROVE  OneInv'
  <1> USE DEF ubidVars, worldVars
  <1>1. ASSUME NEW rec \in LocalRecord, rec = current' PROVE RecordStands(rec)'
    <2>1. RecordStands(rec)
      BY <1>1 DEF OneInv
    <2>2. QED
      BY <1>1, <2>1 DEF RecordStands, Used, ReqOf, OpOf, BoundIs, ByCommand, Live
  <1>2. ASSUME NEW u \in Tab, NEW s \in Run, s = run'[u] PROVE RunStands(s)'
    <2>1. RunStands(s)
      BY <1>2 DEF OneTab
    <2>2. QED
      BY <2>1 DEF RunStands, SeesNone, BoundIs, ByCommand
  <1>3. Unrecorded' /\ CommandsGood'
    BY DEF OneInv, Unrecorded, CommandsGood, ReqOf
  <1>4. QED
    BY <1>1, <1>2, <1>3 DEF OneInv

LEMMA SilentStands ==
  ASSUME OneTab, DeviceInv, OneInv, NEW t \in Tab, Alone(t),
         UNCHANGED <<current, ids, ubidVars, sentVars, worldVars>>,
         \A s \in Run : s = run'[t] => RunStands(s)
  PROVE  OneInv'
  <1>1. UNCHANGED <<current, ids, ubidVars, signed, worldVars>> /\ commands' = commands
    BY DEF sentVars
  <1>2. QED
    BY <1>1, RunStepStands, ZenonT(60)

LEMMA IdleStands ==
  ASSUME NEW s, s.pc \in {"idle", "load"}
  PROVE  RunStands(s)
  BY DEF RunStands, SeesNone, Reading, Signing, Submitted, Retaining

LEMMA EndStands ==
  ASSUME OneTab, DeviceInv, OneInv, NEW t \in Tab, run' = [run EXCEPT ![t] = NoRun],
         UNCHANGED <<current, ids, ubidVars, sentVars, worldVars>>
  PROVE  OneInv'
  <1>1. DeviceTypeOK
    BY DEF DeviceInv
  <1>2. Alone(t) /\ run'[t] = NoRun
    BY <1>1, NoRunIs, MovedTo
  <1>3. RunStands(NoRun)
    BY NoRunIs, IdleStands
  <1>4. QED
    BY <1>2, <1>3, SilentStands

LEMMA EndsStand ==
  ASSUME OneTab, DeviceInv, OneInv, NEW t \in Tab, Fail(t) \/ ShowReady(t) \/ ShowFinal(t)
  PROVE  OneInv'
  BY EndStands DEF Fail, ShowReady, ShowFinal

LEMMA StartStands ==
  ASSUME OneTab, DeviceInv, OneInv, NEW t \in Tab, NEW action \in Actions, NEW on \in BOOLEAN,
         Start(t, action, on)
  PROVE  OneInv'
  <1> DEFINE s == [NoRun EXCEPT !.pc = "load", !.subject = session, !.action = action, !.on = on]
  <1>1. /\ session \in Maybe(Subject) /\ run' = [run EXCEPT ![t] = s] /\ DeviceTypeOK
        /\ UNCHANGED <<current, ids, ubidVars, sentVars, worldVars>>
    BY DEF Start, DeviceInv, DeviceTypeOK
  <1>2. s \in Run /\ s.pc = "load"
    BY <1>1, NoRunIs DEF Run, Pcs
  <1> HIDE DEF s
  <1>3. Alone(t) /\ run'[t] = s
    BY <1>1, <1>2, MovedTo
  <1>4. RunStands(s)
    BY <1>2, IdleStands
  <1>5. QED
    BY <1>1, <1>3, <1>4, SilentStands

LEMMA LoadStands ==
  ASSUME OneTab, DeviceInv, OneInv, NEW t \in Tab, Load(t)
  PROVE  OneInv'
  <1>1. PICK r : r = run[t]
    OBVIOUS
  <1>2. /\ r.pc = "load" /\ r.subject # None /\ (current # None => current.subject = r.subject)
        /\ UNCHANGED <<current, ids, ubidVars, sentVars, worldVars>>
        /\ Moved(t, "snapshot", current, r.snap, r.proposal, r.auth, r.replay, r.signatures)
    BY <1>1, LoadMoves
  <1>3. DeviceTypeOK /\ RunGood(r) /\ RunStands(r)
    BY <1>1, RunOf, RunStandsNow
  <1>4. ASSUME NEW s \in Run, s = run'[t] PROVE RunStands(s)
    BY <1>1, <1>2, <1>3, <1>4
       DEF Moved, Edited, RunStands, SeesNone, Reading, Signing, Submitted, Retaining
  <1>5. QED
    BY <1>2, <1>4, SilentStands DEF Moved

LEMMA SnapshotStands ==
  ASSUME OneTab, DeviceInv, OneInv, NEW t \in Tab, Snapshot(t)
  PROVE  OneInv'
  <1>1. PICK r : r = run[t]
    OBVIOUS
  <1>2. /\ r.pc = "snapshot" /\ r.subject # None
        /\ UNCHANGED <<current, ids, ubidVars, sentVars, worldVars>>
        /\ Moved(t, "act", r.rec, bound[r.subject], r.proposal, r.auth, r.replay, r.signatures)
    BY <1>1, SnapshotMoves
  <1>3. DeviceTypeOK /\ RunGood(r) /\ RunStands(r)
    BY <1>1, RunOf, RunStandsNow
  <1>4. current = None => bound[r.subject] = None
    BY <1>1, <1>2, RunOf DEF OneInv, Unrecorded, Maybe
  <1>5. current # None => BoundIs(current, bound[r.subject]) /\ current.subject = r.subject
    BY <1>2, <1>3, RecordNow DEF RecordStands, RunStands, Reading
  <1>6. ASSUME NEW s \in Run, s = run'[t] PROVE RunStands(s)
    BY <1>1, <1>2, <1>3, <1>4, <1>5, <1>6
       DEF Moved, Edited, RunStands, SeesNone, Reading, Signing, Submitted, Retaining
  <1>7. QED
    BY <1>2, <1>6, SilentStands DEF Moved

LEMMA ReadBackStands ==
  ASSUME OneTab, DeviceInv, OneInv, NEW t \in Tab, ReadBack(t)
  PROVE  OneInv'
  <1>1. PICK r : r = run[t]
    OBVIOUS
  <1>2. /\ r.pc \in DOMAIN After /\ current # None /\ current.subject = r.subject
        /\ r.pc = "read-persisted" => current.pending = r.auth
        /\ UNCHANGED <<current, ids, ubidVars, sentVars, worldVars>>
        /\ Moved(t, After[r.pc], current, r.snap, r.proposal, r.auth, r.replay, r.signatures)
    BY <1>1, ReadBackMoves
  <1>3. DeviceTypeOK /\ RunGood(r) /\ RunStands(r)
    BY <1>1, RunOf, RunStandsNow
  <1>4. /\ r.pc \in Reading
        /\ \/ r.pc = "read-created" /\ After[r.pc] = "act"
           \/ r.pc = "read-begun" /\ After[r.pc] = "sign"
           \/ r.pc = "read-required" /\ After[r.pc] = "adopt"
           \/ r.pc = "read-persisted" /\ After[r.pc] = "post"
           \/ r.pc = "read-renewed" /\ After[r.pc] = "sign"
           \/ r.pc = "read-legacy" /\ After[r.pc] = "legacy-confirm"
    BY <1>2, AfterIs DEF Reading
  <1>5. ASSUME NEW s \in Run, s = run'[t] PROVE RunStands(s)
    BY <1>1, <1>2, <1>3, <1>4, <1>5
       DEF Moved, Edited, RunStands, SeesNone, Reading, Signing, Submitted, Retaining, BoundIs
  <1>6. QED
    BY <1>2, <1>5, SilentStands DEF Moved

LEMMA ReconcileStands ==
  ASSUME OneTab, DeviceInv, OneInv, NEW t \in Tab, Reconcile(t)
  PROVE  OneInv'
  <1>1. PICK r : r = run[t]
    OBVIOUS
  <1>2. /\ r.pc = "act" /\ r.on /\ r.rec # None /\ r.rec.pending # None
        /\ Proved(r.rec, r.snap)
        /\ UNCHANGED <<current, ids, ubidVars, sentVars, worldVars>>
        /\ Moved(t, "finalize", r.rec, r.snap, r.rec.proposal, r.rec.pending, r.replay, r.signatures)
    BY <1>1, ReconcileMoves
  <1>3. DeviceTypeOK /\ RunGood(r) /\ RunStands(r)
    BY <1>1, RunOf, RunStandsNow
  <1>4. r.rec = current /\ RecGood(r.rec) /\ r.rec \in LocalRecord
    BY <1>1, <1>2, <1>3, RecOf DEF RunStands, Reading
  <1>5. r.rec.proposal # None
    BY <1>2, <1>4 DEF RecGood, WellFormed
  <1>6. r.rec.proposal.op = "revoke" => bound[current.subject] = None
    <2>1. r.rec.proposal.op = "revoke" => current.state # "pending-register" /\ r.snap = None
      BY <1>2, <1>4, <1>5, ProposedIs DEF Proved
    <2>2. QED
      BY <1>2, <1>3, <1>4, <2>1, RecordFields DEF RunStands, SeesNone
  <1>7. ASSUME NEW s \in Run, s = run'[t] PROVE RunStands(s)
    BY <1>1, <1>2, <1>3, <1>4, <1>5, <1>6, <1>7
       DEF Moved, Edited, RunStands, SeesNone, Reading, Signing, Submitted, Retaining
  <1>8. QED
    BY <1>2, <1>7, SilentStands DEF Moved

LEMMA ResumeStands ==
  ASSUME OneTab, DeviceInv, OneInv, NEW t \in Tab, Resume(t)
  PROVE  OneInv'
  <1>1. PICK r : r = run[t]
    OBVIOUS
  <1>2. /\ r.pc = "act" /\ r.on /\ r.rec # None /\ r.rec.proposal # None
        /\ UNCHANGED <<current, ids, ubidVars, sentVars, worldVars>>
        /\ \E pc \in Pcs, replay \in BOOLEAN :
               /\ Moved(t, pc, r.rec, r.snap, r.rec.proposal, r.rec.pending, replay, r.signatures)
               /\ pc = IF r.rec.pending = None THEN "sign" ELSE "post"
               /\ r.rec.pending = None => ~replay
    BY <1>1, ResumeMoves
  <1>3. DeviceTypeOK /\ RunGood(r) /\ RunStands(r)
    BY <1>1, RunOf, RunStandsNow
  <1>4. ASSUME NEW s \in Run, s = run'[t] PROVE RunStands(s)
    BY <1>1, <1>2, <1>3, <1>4
       DEF Moved, Edited, RunStands, SeesNone, Reading, Signing, Submitted, Retaining
  <1>5. Alone(t)
    BY <1>2 DEF Moved
  <1>6. QED
    BY <1>2, <1>4, <1>5, SilentStands

LEMMA SignStands ==
  ASSUME OneTab, DeviceInv, OneInv, NEW t \in Tab, Sign(t)
  PROVE  OneInv'
  <1>1. PICK r : r = run[t]
    OBVIOUS
  <1>2. /\ r.pc = "sign" /\ r.signatures + 1 \in Nat
        /\ UNCHANGED <<current, ids, ubidVars, sentVars, worldVars>>
        /\ Moved(t, "persist", r.rec, r.snap, r.proposal, r.auth, r.replay, r.signatures + 1)
    BY <1>1, SignMoves
  <1>3. DeviceTypeOK /\ RunGood(r) /\ RunStands(r)
    BY <1>1, RunOf, RunStandsNow
  <1>4. ASSUME NEW s \in Run, s = run'[t] PROVE RunStands(s)
    BY <1>1, <1>2, <1>3, <1>4
       DEF Moved, Edited, RunStands, SeesNone, Reading, Signing, Submitted, Retaining
  <1>5. QED
    BY <1>2, <1>4, SilentStands DEF Moved

LEMMA AnswerAcceptedStands ==
  ASSUME OneTab, DeviceInv, OneInv, NEW t \in Tab, AnswerAccepted(t)
  PROVE  OneInv'
  <1>1. PICK r : r = run[t]
    OBVIOUS
  <1>2. /\ r.pc = "answer" /\ r.auth \in accepted
        /\ UNCHANGED <<current, ids, ubidVars, sentVars, worldVars>>
        /\ Moved(t, "confirm", r.rec, r.snap, r.proposal, r.auth, r.replay, r.signatures)
    BY <1>1, AnswerAcceptedMoves
  <1>3. DeviceTypeOK /\ RunGood(r) /\ RunStands(r)
    BY <1>1, RunOf, RunStandsNow
  <1>4. ASSUME NEW s \in Run, s = run'[t] PROVE RunStands(s)
    BY <1>1, <1>2, <1>3, <1>4
       DEF Moved, Edited, RunStands, SeesNone, Reading, Signing, Submitted, Retaining
  <1>5. QED
    BY <1>2, <1>4, SilentStands DEF Moved

LEMMA ConfirmStands ==
  ASSUME OneTab, DeviceInv, OneInv, NEW t \in Tab, Confirm(t)
  PROVE  OneInv'
  <1>1. PICK r : r = run[t]
    OBVIOUS
  <1>2. /\ r.pc = "confirm" /\ (r.proposal.op = "revoke" => bound[r.subject] = None)
        /\ UNCHANGED <<current, ids, ubidVars, sentVars, worldVars>>
        /\ Moved(t, "finalize", r.rec, r.snap, r.proposal, r.auth, r.replay, r.signatures)
    BY <1>1, ConfirmMoves
  <1>3. DeviceTypeOK /\ RunGood(r) /\ RunStands(r)
    BY <1>1, RunOf, RunStandsNow
  <1>4. ASSUME NEW s \in Run, s = run'[t] PROVE RunStands(s)
    BY <1>1, <1>2, <1>3, <1>4
       DEF Moved, Edited, RunStands, SeesNone, Reading, Signing, Submitted, Retaining
  <1>5. QED
    BY <1>2, <1>4, SilentStands DEF Moved

LEMMA AnswerExpiredStands ==
  ASSUME OneTab, DeviceInv, OneInv, NEW t \in Tab, AnswerExpired(t)
  PROVE  OneInv'
  <1>1. PICK r : r = run[t]
    OBVIOUS
  <1>2. /\ r.pc = "answer" /\ r.auth \in expired \ accepted /\ r.replay
        /\ UNCHANGED <<current, ids, ubidVars, sentVars, worldVars>>
        /\ Moved(t, "renew-snapshot", r.rec, r.snap, r.proposal, r.auth, r.replay, r.signatures)
    BY <1>1, AnswerExpiredMoves
  <1>3. DeviceTypeOK /\ RunGood(r) /\ RunStands(r)
    BY <1>1, RunOf, RunStandsNow
  <1>4. ASSUME NEW s \in Run, s = run'[t] PROVE RunStands(s)
    BY <1>1, <1>2, <1>3, <1>4
       DEF Moved, Edited, RunStands, SeesNone, Reading, Signing, Submitted, Retaining
  <1>5. QED
    BY <1>2, <1>4, SilentStands DEF Moved

LEMMA RenewSnapshotStands ==
  ASSUME OneTab, DeviceInv, OneInv, NEW t \in Tab, RenewSnapshot(t)
  PROVE  OneInv'
  <1>1. PICK r : r = run[t]
    OBVIOUS
  <1>2. /\ r.pc = "renew-snapshot" /\ (r.proposal.op = "register" => bound[r.subject] = None)
        /\ UNCHANGED <<current, ids, ubidVars, sentVars, worldVars>>
        /\ Moved(t, "renew", r.rec, r.snap, r.proposal, r.auth, r.replay, r.signatures)
    BY <1>1, RenewSnapshotMoves
  <1>3. DeviceTypeOK /\ RunGood(r) /\ RunStands(r)
    BY <1>1, RunOf, RunStandsNow
  <1>4. ASSUME NEW s \in Run, s = run'[t] PROVE RunStands(s)
    BY <1>1, <1>2, <1>3, <1>4
       DEF Moved, Edited, RunStands, SeesNone, Reading, Signing, Submitted, Retaining
  <1>5. QED
    BY <1>2, <1>4, SilentStands DEF Moved

LEMMA LegacyConfirmStands ==
  ASSUME OneTab, DeviceInv, OneInv, NEW t \in Tab, LegacyConfirm(t)
  PROVE  OneInv'
  <1>1. PICK r : r = run[t]
    OBVIOUS
  <1>2. /\ r.pc = "legacy-confirm"
        /\ UNCHANGED <<current, ids, ubidVars, sentVars, worldVars>>
        /\ Moved(t, "legacy-ready", r.rec, r.snap, r.proposal, r.auth, r.replay, r.signatures)
    BY <1>1, LegacyConfirmMoves
  <1>3. DeviceTypeOK /\ RunGood(r) /\ RunStands(r)
    BY <1>1, RunOf, RunStandsNow
  <1>4. ASSUME NEW s \in Run, s = run'[t] PROVE RunStands(s)
    BY <1>1, <1>2, <1>3, <1>4
       DEF Moved, Edited, RunStands, SeesNone, Reading, Signing, Submitted, Retaining
  <1>5. QED
    BY <1>2, <1>4, SilentStands DEF Moved

LEMMA PostStands ==
  ASSUME OneTab, DeviceInv, OneInv, NEW t \in Tab, Post(t)
  PROVE  OneInv'
  <1>1. PICK r : r = run[t]
    OBVIOUS
  <1>2. /\ r.pc = "post" /\ commands' = commands
        /\ UNCHANGED <<current, ids, ubidVars, signed, worldVars>>
        /\ Moved(t, "answer", r.rec, r.snap, r.proposal, r.auth, r.replay, r.signatures)
    BY <1>1, PostMoves
  <1>3. RunStands(r)
    BY <1>1, RunStandsNow
  <1>4. ASSUME NEW s \in Run, s = run'[t] PROVE RunStands(s)
    BY <1>1, <1>2, <1>3, <1>4
       DEF Moved, Edited, RunStands, SeesNone, Reading, Signing, Submitted, Retaining
  <1>5. QED
    BY <1>2, <1>4, RunStepStands DEF Moved

LEMMA LegacyPostStands ==
  ASSUME OneTab, DeviceInv, OneInv, NEW t \in Tab, LegacyPost(t)
  PROVE  OneInv'
  <1>1. PICK r : r = run[t]
    OBVIOUS
  <1>2. /\ r.pc = "act" /\ r.rec # None /\ ~enabled
        /\ r.rec.accepted = None
        /\ commands' = commands \cup {[subject |-> session, key |-> r.rec.key, req |-> r.rec.req]}
        /\ UNCHANGED <<current, ids, ubidVars, signed, worldVars>>
        /\ Moved(t, "legacy-answer", r.rec, r.snap, r.proposal, r.auth, r.replay, r.signatures)
    BY <1>1, LegacyPostMoves
  <1>3. RunStands(r)
    BY <1>1, RunStandsNow
  <1>4. r.rec = current /\ RecGood(r.rec) /\ r.rec.state = "pending-register"
    BY <1>1, <1>2, <1>3, RecOf DEF RunStands, Reading, RecGood
  <1>5. ASSUME NEW s \in Run, s = run'[t] PROVE RunStands(s)
    BY <1>1, <1>2, <1>3, <1>4, <1>5
       DEF Moved, Edited, RunStands, SeesNone, Reading, Signing, Submitted, Retaining
  <1>6. \A c \in commands' \ commands : c.key = current.key /\ c.req = current.req
    BY <1>2, <1>4
  <1>7. ~Deployed /\ current # None
    BY <1>2, <1>4 DEF DeviceInv
  <1>8. QED
    BY <1>2, <1>5, <1>6, <1>7, RunStepStands DEF Moved

-----------------------------------------------------------------------------
(* The writes of the one tab.                                              *)

LEMMA WriteStands ==
  ASSUME OneTab, DeviceInv, OneInv, NEW t \in Tab, Alone(t), NEW next \in LocalRecord,
         current' = next, UNCHANGED <<ubidVars, sentVars, worldVars>>, RecordStands(next),
         \A s \in Run : s = run'[t] => RunStands(s)'
  PROVE  OneInv'
  <1> USE DEF ubidVars, worldVars, sentVars
  <1>1. ASSUME NEW rec \in LocalRecord, rec = current' PROVE RecordStands(rec)'
    BY <1>1 DEF RecordStands, Used, ReqOf, OpOf, BoundIs, ByCommand, Live
  <1>2. ASSUME NEW u \in Tab, NEW s \in Run, s = run'[u] PROVE RunStands(s)'
    BY <1>2 DEF OneTab
  <1>3. Unrecorded' /\ CommandsGood'
    BY RecordFields DEF OneInv, Unrecorded, CommandsGood, ReqOf
  <1>4. QED
    BY <1>1, <1>2, <1>3 DEF OneInv

\* What a record that is rewritten without a change of its key, its request
\* id and its account takes over.
LEMMA RewrittenStands ==
  ASSUME DeviceTypeOK, NEW rec \in LocalRecord, NEW next \in LocalRecord,
         RecordStands(rec), next.subject = rec.subject, next.key = rec.key, next.req = rec.req,
         next.state # "pending-register" => Used(rec.req),
         BoundIs(next, bound[rec.subject]),
         next.pending = rec.pending \/ next.pending = None,
         next.pending = None \/ next.proposal = rec.proposal,
         next.pending = None => \A n \in DOMAIN signed : Live(n) => ~Binds(OpOf(n)),
         next.state = "revoked" => bound[rec.subject] = None
  PROVE  RecordStands(next)
  BY AcceptedAre DEF RecordStands

\* A run that is about to read back the record next, which it has written.
LEMMA ReadingStands ==
  ASSUME NEW s, NEW next, current' = next, next # None, next.subject = s.subject,
         s.pc \in Reading,
         s.pc = "read-created" => s.snap = None /\ next.state = "pending-register",
         s.pc = "read-required" => /\ s.snap # None /\ next.state = "authorization-required"
                                   /\ BoundIs(next, s.snap)',
         s.pc \in {"read-begun", "read-renewed"} => s.proposal = next.proposal /\ next.pending = None,
         s.pc = "read-persisted" => s.proposal = next.proposal /\ s.auth = next.pending,
         s.pc = "read-legacy" => /\ next.state = "pending-register" /\ ByCommand(next)'
                                 /\ next.accepted = Legacy
  PROVE  RunStands(s)'
  BY DEF RunStands, SeesNone, Reading, Signing, Submitted, Retaining

LEMMA RequireAuthorizationStands ==
  ASSUME OneTab, DeviceInv, OneInv, NEW t \in Tab, RequireAuthorization(t)
  PROVE  OneInv'
  <1>1. PICK r, next, rec : r = run[t] /\ next = current' /\ rec = r.rec
    OBVIOUS
  <1>2. /\ r.pc = "act" /\ r.on /\ rec # None /\ rec.proposal = None /\ r.snap # None
        /\ rec.state # "revoked" /\ r.snap.key = rec.key
        /\ rec.accepted \in {None, r.snap.id} /\ ids' = ids
        /\ UNCHANGED <<ubidVars, sentVars, worldVars>>
        /\ Saves(rec, next) /\ r.subject = rec.subject
        /\ RecIs(next, rec.subject, rec.key, rec.req, "authorization-required", r.snap.id,
                       rec.auth, rec.pending, rec.proposal, rec.rotation)
        /\ Moved(t, "read-required", rec, r.snap, r.proposal, r.auth, r.replay, r.signatures)
    BY <1>1, RequireAuthorizationWrites
  <1>3. DeviceTypeOK /\ RunGood(r) /\ RunStands(r)
    BY <1>1, RunOf, RunStandsNow
  <1>4. /\ rec \in LocalRecord /\ RecGood(rec) /\ RecordStands(rec) /\ current = rec
        /\ current' = next /\ next \in LocalRecord /\ WellFormed(next)
    BY <1>1, <1>2, RecordNow, RecordFields DEF Saves, RecIs
  <1>5. rec.state # "pending-register" /\ rec.pending = None
    BY <1>2, <1>4, PendingIs, <1>3 DEF RecGood, Ops, PendingState
  <1>6. rec.accepted # None /\ rec.accepted = r.snap.id
    BY <1>2, <1>4, <1>5 DEF RecGood
  <1>7. RecordStands(next)
    <2>1. /\ next.subject = rec.subject /\ next.key = rec.key /\ next.req = rec.req
          /\ next.pending = rec.pending \/ next.pending = None
          /\ next.pending = None \/ next.proposal = rec.proposal
          /\ next.state = "revoked" => bound[rec.subject] = None
      BY <1>2, <1>3, <1>4, <1>5, <1>6, RecordFields, NoneIs DEF RecIs, RecordStands
    <2>2. next.state # "pending-register" => Used(rec.req)
      BY <1>2, <1>3, <1>4, <1>5, <1>6, RecordFields DEF RecIs, RecordStands
    <2>3. BoundIs(next, bound[rec.subject])
      BY <1>2, <1>4, <1>5, <1>6, AcceptedAre, <1>3 DEF RecIs, RecordStands, BoundIs
    <2>4. next.pending = None => \A n \in DOMAIN signed : Live(n) => ~Binds(OpOf(n))
      BY <1>2, <1>3, <1>4, <1>5, <1>6, NoneLive DEF RecIs
    <2>5. QED
      BY <1>3, <1>4, <2>1, <2>2, <2>3, <2>4, RewrittenStands
  <1>8. ASSUME NEW s \in Run, s = run'[t] PROVE RunStands(s)'
    <2>1. s.pc = "read-required" /\ next.subject = s.subject /\ next # None /\ s.snap = r.snap
      BY <1>1, <1>2, <1>4, <1>8, RecordFields DEF Moved, Edited, RecIs
    <2>2. BoundIs(rec, s.snap)
      BY <1>2, <1>3, <1>4, <2>1, RecordFields DEF RunStands
    <2>3. s.snap = [key |-> rec.key, id |-> rec.accepted]
      BY <1>2, <1>3, <1>5, <2>1, <2>2, AcceptedAre DEF BoundIs
    <2>4. next.key = rec.key /\ next.accepted = rec.accepted /\ next.state = "authorization-required"
      BY <1>2, <1>6 DEF RecIs
    <2>5. BoundIs(next, s.snap)'
      BY <2>3, <2>4 DEF BoundIs
    <2>6. QED
      BY <1>2, <1>4, <2>1, <2>4, <2>5, ReadingStands DEF Reading
  <1>9. Alone(t)
    BY <1>2 DEF Moved
  <1>10. QED
    BY <1>2, <1>4, <1>7, <1>8, <1>9, WriteStands

LEMMA LegacyBoundStands ==
  ASSUME OneTab, DeviceInv, OneInv, NEW t \in Tab, LegacyBound(t)
  PROVE  OneInv'
  <1>1. PICK r, next, rec : r = run[t] /\ next = current' /\ rec = r.rec
    OBVIOUS
  <1>2. /\ r.pc = "act" /\ rec # None /\ r.snap # None /\ r.snap.key = rec.key
        /\ rec.accepted \in {None, r.snap.id} /\ ids' = ids
        /\ UNCHANGED <<ubidVars, sentVars, worldVars>>
        /\ Saves(rec, next) /\ r.subject = rec.subject
        /\ RecIs(next, rec.subject, rec.key, rec.req, "ready", r.snap.id,
                       rec.auth, None, None, rec.rotation)
        /\ Moved(t, "read-ready", rec, r.snap, r.proposal, r.auth, r.replay, r.signatures)
    BY <1>1, LegacyBoundWrites
  <1>3. DeviceTypeOK /\ RunGood(r) /\ RunStands(r)
    BY <1>1, RunOf, RunStandsNow
  <1>4. /\ rec \in LocalRecord /\ RecGood(rec) /\ RecordStands(rec) /\ current = rec
        /\ current' = next /\ next \in LocalRecord /\ WellFormed(next)
    BY <1>1, <1>2, RecordNow, RecordFields DEF Saves, RecIs
  <1>5. rec.rotation = None
    BY <1>2, <1>4 DEF RecIs, WellFormed
  <1>6. BoundIs(rec, r.snap) /\ r.snap # None
    BY <1>1, <1>2, <1>3, <1>4, RecordFields DEF RunStands
  <1>7. rec.pending \in accepted => /\ rec.proposal # None /\ Used(rec.proposal.req)
                                  /\ (Binds(rec.proposal.op) => rec.state = "pending-register")
    BY <1>3, <1>4, <1>5, AcceptedAre, PendingIs, ProposedIs DEF RecGood, WellFormed, Binds
  <1>8. rec.state = "pending-register" =>
           \/ ByCommand(rec) /\ r.snap = [key |-> rec.key, id |-> Legacy]
           \/ /\ rec.pending \in accepted /\ Used(rec.req) /\ rec.proposal.key = rec.key
              /\ Binds(rec.proposal.op) /\ r.snap = [key |-> rec.key, id |-> rec.pending]
    <2> SUFFICES ASSUME rec.state = "pending-register", ~ByCommand(rec)
                 PROVE  /\ rec.pending \in accepted /\ Used(rec.req) /\ rec.proposal.key = rec.key
                        /\ Binds(rec.proposal.op) /\ r.snap = [key |-> rec.key, id |-> rec.pending]
      BY <1>6, <1>3, <1>4, <1>7, TakenOnce DEF BoundIs
    <2>1. /\ rec.pending \in accepted /\ Binds(rec.proposal.op)
          /\ r.snap = [key |-> rec.proposal.key, id |-> rec.pending]
      BY <1>6 DEF BoundIs
    <2>2. QED
      BY <1>4, <1>7, <2>1, ProposedIs
  <1>9. rec.state = "pending-register" => Used(rec.req)
    BY <1>8 DEF Used, ByCommand
  <1>10. \/ rec.pending = None \/ rec.pending \in accepted \cup expired
        \/ (rec.state = "pending-register" /\ ByCommand(rec))
        \/ (rec.proposal # None /\ ~Binds(rec.proposal.op))
    <2>1. CASE rec.state = "pending-register"
      BY <1>8, <2>1
    <2>2. CASE rec.state # "pending-register" /\ rec.pending # None
      <3>1. rec.proposal # None
        BY <1>3, <1>4, <2>2, PendingIs
      <3>2. QED
        BY <1>4, <1>5, <2>2, <3>1, ProposedIs DEF RecGood, WellFormed, Binds
    <2>3. QED
      BY <2>1, <2>2
  <1>11. RecordStands(next)
    <2>1. /\ next.subject = rec.subject /\ next.key = rec.key /\ next.req = rec.req
          /\ next.pending = rec.pending \/ next.pending = None
          /\ next.pending = None \/ next.proposal = rec.proposal
          /\ next.state = "revoked" => bound[rec.subject] = None
      BY <1>2, <1>3, <1>4, <1>5, <1>6, <1>7, <1>8, <1>9, <1>10, RecordFields, NoneIs DEF RecIs, RecordStands
    <2>2. next.state # "pending-register" => Used(rec.req)
      BY <1>2, <1>3, <1>4, <1>5, <1>6, <1>7, <1>8, <1>9, <1>10, RecordFields DEF RecIs, RecordStands
    <2>3. BoundIs(next, bound[rec.subject])
      <3>1. CASE rec.state = "pending-register"
        <4>1. CASE ByCommand(rec) /\ r.snap = [key |-> rec.key, id |-> Legacy]
          <5>1. rec.pending \notin accepted
            BY <1>3, <1>4, <3>1, <4>1, TakenOnce
          <5>2. bound[rec.subject] \in {None, [key |-> rec.key, id |-> Legacy]}
            BY <1>4, <3>1, <5>1 DEF RecordStands, BoundIs
          <5>3. next.key = rec.key /\ next.accepted = Legacy /\ next.state = "ready"
            BY <1>2, <1>4, <4>1, BindingIs, RecordFields DEF RecIs, Legacy
          <5>4. QED
            BY <5>2, <5>3 DEF BoundIs
        <4>2. CASE /\ rec.pending \in accepted /\ rec.proposal.key = rec.key
                   /\ Binds(rec.proposal.op) /\ r.snap = [key |-> rec.key, id |-> rec.pending]
          <5>1. bound[rec.subject] \in {None, [key |-> rec.key, id |-> rec.pending]}
            BY <1>4, <4>2 DEF RecordStands
          <5>2. r.snap.id = rec.pending
            BY <4>2
          <5>3. next.key = rec.key /\ next.accepted = rec.pending /\ next.state = "ready"
            BY <1>2, <5>2 DEF RecIs
          <5>4. QED
            BY <5>1, <5>3 DEF BoundIs
        <4>3. QED
          BY <1>8, <3>1, <4>1, <4>2
      <3>2. CASE rec.state # "pending-register"
        <4>1. rec.accepted # None /\ rec.accepted = r.snap.id
          BY <1>2, <1>4, <3>2 DEF RecGood
        <4>2. bound[rec.subject] \in {None, [key |-> rec.key, id |-> rec.accepted]}
          BY <1>4, <1>7, <3>2 DEF RecordStands, BoundIs
        <4>3. QED
          BY <1>2, <4>1, <4>2 DEF RecIs, BoundIs
      <3>3. QED
        BY <3>1, <3>2
    <2>4. next.pending = None => \A n \in DOMAIN signed : Live(n) => ~Binds(OpOf(n))
      BY <1>2, <1>3, <1>4, <1>5, <1>6, <1>7, <1>8, <1>9, <1>10, NoneLive DEF RecIs
    <2>5. QED
      BY <1>3, <1>4, <2>1, <2>2, <2>3, <2>4, RewrittenStands
  <1>12. ASSUME NEW s \in Run, s = run'[t] PROVE RunStands(s)'
    <2>1. s.pc \in Reading /\ next.subject = s.subject /\ next # None
      BY <1>1, <1>2, <1>4, <1>12, RecordFields DEF Moved, Edited, Reading, RecIs
    <2>2. QED
      BY <1>1, <1>2, <1>4, <1>5, <1>6, <1>7, <1>8, <1>9, <1>10, <1>12, <2>1, ReadingStands DEF Moved, Edited, RecIs
  <1>13. Alone(t)
    BY <1>2 DEF Moved
  <1>14. QED
    BY <1>2, <1>4, <1>11, <1>12, <1>13, WriteStands

LEMMA LegacyAnswerStands ==
  ASSUME OneTab, DeviceInv, OneInv, NEW t \in Tab, LegacyAnswer(t)
  PROVE  OneInv'
  <1>1. PICK r, next, rec : r = run[t] /\ next = current' /\ rec = r.rec
    OBVIOUS
  <1>2. /\ r.pc = "legacy-answer" /\ ids' = ids
        /\ \E c \in registered : c.key = rec.key /\ c.req = rec.req
        /\ UNCHANGED <<ubidVars, sentVars, worldVars>>
        /\ Saves(rec, next) /\ r.subject = rec.subject
        /\ RecIs(next, rec.subject, rec.key, rec.req, rec.state, Legacy,
                       rec.auth, rec.pending, rec.proposal, rec.rotation)
        /\ Moved(t, "read-legacy", rec, r.snap, r.proposal, r.auth, r.replay, r.signatures)
    BY <1>1, LegacyAnswerWrites
  <1>3. DeviceTypeOK /\ RunGood(r) /\ RunStands(r)
    BY <1>1, RunOf, RunStandsNow
  <1>4. /\ rec \in LocalRecord /\ RecGood(rec) /\ RecordStands(rec) /\ current = rec
        /\ current' = next /\ next \in LocalRecord /\ WellFormed(next)
    BY <1>1, <1>2, RecordNow, RecordFields DEF Saves, RecIs
  <1>5. rec.state = "pending-register" /\ rec.accepted = None /\ ByCommand(rec)
    BY <1>2, <1>3, <1>4, RecordFields DEF RunStands, Reading, ByCommand
  <1>6. RecordStands(next)
    <2>1. /\ next.state = rec.state /\ next.key = rec.key /\ next.req = rec.req
          /\ next.pending = rec.pending /\ next.proposal = rec.proposal
          /\ next.subject = rec.subject
      BY <1>2 DEF RecIs
    <2>2. QED
      BY <1>4, <1>5, <2>1 DEF RecordStands, BoundIs, ByCommand
  <1>7. ASSUME NEW s \in Run, s = run'[t] PROVE RunStands(s)'
    <2>1. s.pc \in Reading /\ next.subject = s.subject /\ next # None
      BY <1>1, <1>2, <1>4, <1>7, RecordFields DEF Moved, Edited, Reading, RecIs
    <2>2. QED
      BY <1>1, <1>2, <1>4, <1>5, <1>7, <2>1, ReadingStands DEF Moved, Edited, RecIs, ByCommand, ubidVars
  <1>8. Alone(t)
    BY <1>2 DEF Moved
  <1>9. QED
    BY <1>2, <1>4, <1>6, <1>7, <1>8, WriteStands

LEMMA LegacyReadyStands ==
  ASSUME OneTab, DeviceInv, OneInv, NEW t \in Tab, LegacyReady(t)
  PROVE  OneInv'
  <1>1. PICK r, next, rec : r = run[t] /\ next = current' /\ rec = r.rec
    OBVIOUS
  <1>2. /\ r.pc = "legacy-ready" /\ ids' = ids
        /\ UNCHANGED <<ubidVars, sentVars, worldVars>>
        /\ Saves(rec, next) /\ r.subject = rec.subject
        /\ RecIs(next, rec.subject, rec.key, rec.req, "ready", rec.accepted,
                       rec.auth, None, None, rec.rotation)
        /\ Moved(t, "read-ready", rec, r.snap, r.proposal, r.auth, r.replay, r.signatures)
    BY <1>1, LegacyReadyWrites
  <1>3. DeviceTypeOK /\ RunGood(r) /\ RunStands(r)
    BY <1>1, RunOf, RunStandsNow
  <1>4. /\ rec \in LocalRecord /\ RecGood(rec) /\ RecordStands(rec) /\ current = rec
        /\ current' = next /\ next \in LocalRecord /\ WellFormed(next)
    BY <1>1, <1>2, RecordNow, RecordFields DEF Saves, RecIs
  <1>5. rec.state = "pending-register" /\ rec.accepted = Legacy /\ ByCommand(rec)
    BY <1>2, <1>3, <1>4, RecordFields DEF RunStands, Reading
  <1>6. rec.pending \notin accepted /\ Used(rec.req)
    BY <1>3, <1>4, <1>5, TakenOnce DEF Used, ByCommand
  <1>7. RecordStands(next)
    <2>1. /\ next.subject = rec.subject /\ next.key = rec.key /\ next.req = rec.req
          /\ next.pending = rec.pending \/ next.pending = None
          /\ next.pending = None \/ next.proposal = rec.proposal
          /\ next.state = "revoked" => bound[rec.subject] = None
      BY <1>2, <1>3, <1>4, <1>5, <1>6, RecordFields, NoneIs DEF RecIs, RecordStands
    <2>2. next.state # "pending-register" => Used(rec.req)
      BY <1>2, <1>3, <1>4, <1>5, <1>6, RecordFields DEF RecIs, RecordStands
    <2>3. BoundIs(next, bound[rec.subject])
      BY <1>2, <1>4, <1>5, <1>6, <1>3 DEF RecIs, RecordStands, BoundIs
    <2>4. next.pending = None => \A n \in DOMAIN signed : Live(n) => ~Binds(OpOf(n))
      BY <1>2, <1>3, <1>4, <1>5, <1>6, NoneLive DEF RecIs
    <2>5. QED
      BY <1>3, <1>4, <2>1, <2>2, <2>3, <2>4, RewrittenStands
  <1>8. ASSUME NEW s \in Run, s = run'[t] PROVE RunStands(s)'
    <2>1. s.pc \in Reading /\ next.subject = s.subject /\ next # None
      BY <1>1, <1>2, <1>4, <1>8, RecordFields DEF Moved, Edited, Reading, RecIs
    <2>2. QED
      BY <1>1, <1>2, <1>4, <1>5, <1>6, <1>8, <2>1, ReadingStands DEF Moved, Edited, RecIs
  <1>9. Alone(t)
    BY <1>2 DEF Moved
  <1>10. QED
    BY <1>2, <1>4, <1>7, <1>8, <1>9, WriteStands

LEMMA BeginStands ==
  ASSUME OneTab, DeviceInv, OneInv, NEW t \in Tab, NEW proposal \in Proposal, NEW rotation \in Maybe(Rotation),
         Keyed(proposal), proposal.op # "register", proposal.expected # None,
         run[t].pc \in {"act", "adopt"}, run[t].on, run[t].rec # None,
         run[t].rec.proposal = None,
         Begin(t, proposal, rotation)
  PROVE  OneInv'
  <1>1. PICK r, next, rec : r = run[t] /\ next = current' /\ rec = r.rec
    OBVIOUS
  <1>2. /\ r.pc \in {"act", "adopt"} /\ r.on /\ rec # None /\ ids' = ids + 1 /\ ids < MaxBegun
        /\ UNCHANGED <<ubidVars, sentVars, worldVars>>
        /\ Saves(rec, next) /\ r.subject = rec.subject
        /\ RecIs(next, rec.subject, rec.key, rec.req, PendingState[proposal.op],
                       rec.accepted, rec.auth, rec.pending, proposal, rotation)
        /\ Moved(t, "read-begun", rec, r.snap, proposal, r.auth, r.replay, r.signatures)
    BY <1>1, BeginWrites
  <1>3. DeviceTypeOK /\ RunGood(r) /\ RunStands(r)
    BY <1>1, RunOf, RunStandsNow
  <1>4. /\ rec \in LocalRecord /\ RecGood(rec) /\ RecordStands(rec) /\ current = rec
        /\ current' = next /\ next \in LocalRecord /\ WellFormed(next)
    BY <1>1, <1>2, RecordNow, RecordFields DEF Saves, RecIs
  <1>5. rec.proposal = None
    BY <1>1
  <1>6. rec.state # "pending-register" /\ rec.pending = None
    BY <1>4, <1>5, PendingIs, <1>3 DEF RecGood, Ops, PendingState
  <1>7. /\ PendingState[proposal.op] \notin {"pending-register", "revoked"} /\ rec.accepted # None
    BY <1>4, <1>6, PendingStates DEF RecGood, Proposal, Ops, PendingState
  <1>8. RecordStands(next)
    <2>1. /\ next.subject = rec.subject /\ next.key = rec.key /\ next.req = rec.req
          /\ next.pending = rec.pending \/ next.pending = None
          /\ next.pending = None \/ next.proposal = rec.proposal
          /\ next.state = "revoked" => bound[rec.subject] = None
      BY <1>2, <1>3, <1>4, <1>5, <1>6, <1>7, RecordFields, NoneIs DEF RecIs, RecordStands
    <2>2. next.state # "pending-register" => Used(rec.req)
      BY <1>2, <1>3, <1>4, <1>5, <1>6, <1>7, RecordFields DEF RecIs, RecordStands
    <2>3. BoundIs(next, bound[rec.subject])
      BY <1>2, <1>4, <1>5, <1>6, <1>7, AcceptedAre, <1>3 DEF RecIs, RecordStands, BoundIs
    <2>4. next.pending = None => \A n \in DOMAIN signed : Live(n) => ~Binds(OpOf(n))
      BY <1>2, <1>3, <1>4, <1>5, <1>6, <1>7, NoneLive DEF RecIs
    <2>5. QED
      BY <1>3, <1>4, <2>1, <2>2, <2>3, <2>4, RewrittenStands
  <1>9. ASSUME NEW s \in Run, s = run'[t] PROVE RunStands(s)'
    <2>1. s.pc \in Reading /\ next.subject = s.subject /\ next # None
      BY <1>1, <1>2, <1>4, <1>9, RecordFields DEF Moved, Edited, Reading, RecIs
    <2>2. QED
      BY <1>1, <1>2, <1>4, <1>5, <1>6, <1>7, <1>9, <2>1, ReadingStands DEF Moved, Edited, RecIs
  <1>10. Alone(t)
    BY <1>2 DEF Moved
  <1>11. QED
    BY <1>2, <1>4, <1>8, <1>9, <1>10, WriteStands

LEMMA FinalizeStands ==
  ASSUME OneTab, DeviceInv, OneInv, NEW t \in Tab, Finalize(t)
  PROVE  OneInv'
  <1>1. PICK r, next, rec : r = run[t] /\ next = current' /\ rec = r.rec
    OBVIOUS
  <1>2. /\ r.pc = "finalize" /\ ids' = ids
        /\ UNCHANGED <<ubidVars, sentVars, worldVars>>
        /\ Saves(rec, next) /\ r.subject = rec.subject
        /\ RecIs(next, rec.subject, next.key, next.req, next.state, next.accepted,
                       r.auth, None, None, None)
        /\ Moved(t, "read-final", rec, r.snap, r.proposal, r.auth, r.replay, r.signatures)
        /\ \/ /\ r.proposal.op = "revoke" /\ next.state = "revoked"
              /\ next.key = rec.key /\ next.req = rec.req /\ next.accepted = rec.accepted
           \/ /\ r.proposal.op = "rotate" /\ rec.rotation # None /\ next.state = "ready"
              /\ next.key = rec.rotation.key /\ next.req = rec.rotation.req
              /\ next.accepted = BindingOf(r.auth)
           \/ /\ r.proposal.op \in {"register", "adopt"} /\ next.state = "ready"
              /\ next.key = rec.key /\ next.req = rec.req /\ next.accepted = BindingOf(r.auth)
    BY <1>1, FinalizeWrites
  <1>3. DeviceTypeOK /\ RunGood(r) /\ RunStands(r)
    BY <1>1, RunOf, RunStandsNow
  <1>4. /\ rec \in LocalRecord /\ RecGood(rec) /\ RecordStands(rec) /\ current = rec
        /\ current' = next /\ next \in LocalRecord /\ WellFormed(next)
    BY <1>1, <1>2, RecordNow, RecordFields DEF Saves, RecIs
  <1>5. /\ r.proposal = rec.proposal /\ r.auth = rec.pending /\ r.on /\ enabled /\ r.auth \in DOMAIN signed
        /\ rec.pending # None /\ rec.proposal # None
    <2>1. r.auth \in DOMAIN signed /\ r.auth # None /\ r.proposal # None /\ r.on /\ enabled
      BY <1>2, <1>3, SignedIs DEF RunGood, Submitted, SignedFor, LegacyPcs
    <2>2. QED
      BY <1>2, <1>3, <1>4, <2>1 DEF RunStands, Retaining, Submitted
  <1>6. /\ OpOf(rec.pending) = rec.proposal.op /\ ReqOf(rec.pending) = rec.proposal.req
        /\ rec.pending \in accepted => Used(rec.proposal.req)
        /\ rec.pending \in accepted \/ rec.proposal.op = "revoke"
        /\ signed[rec.pending].proposal = rec.proposal
    BY <1>2, <1>3, <1>4, <1>5, PendingIs DEF RunGood
  <1>7. \A n \in DOMAIN signed : Live(n) => ~Binds(OpOf(n))
    BY <1>3, <1>4, <1>5, <1>6, NoneLive DEF Binds
  <1>8. /\ Used(next.req) /\ next.state \in {"ready", "revoked"}
        /\ bound[rec.subject] \in {None, [key |-> next.key, id |-> next.accepted]}
        /\ next.state = "revoked" => bound[rec.subject] = None
    <2>1. CASE rec.proposal.op = "revoke"
      <3>1. next.state = "revoked" /\ next.req = rec.req
        BY <1>2, <1>5, <2>1
      <3>2. bound[rec.subject] = None
        BY <1>2, <1>3, <1>4, <1>5, <2>1, RecordFields DEF RunStands, SeesNone
      <3>3. Used(rec.req)
        BY <1>4, <1>5, <2>1, ProposedIs DEF RecordStands
      <3>4. QED
        BY <3>1, <3>2, <3>3
    <2>2. CASE rec.proposal.op = "rotate"
      <3>1. /\ next.state = "ready" /\ rec.rotation # None /\ next.key = rec.rotation.key
            /\ next.req = rec.rotation.req /\ next.accepted = rec.pending
        BY <1>2, <1>5, <1>6, <2>2 DEF BindingOf
      <3>2. [key |-> rec.proposal.key, req |-> rec.proposal.req] = rec.rotation
        BY <1>4, <1>5, <2>2, ProposedIs DEF Stands
      <3>3. rec.rotation.key = rec.proposal.key /\ rec.rotation.req = rec.proposal.req
        BY <3>2
      <3>4. bound[rec.subject] \in {None, [key |-> rec.proposal.key, id |-> rec.pending]}
        BY <1>4, <1>6, <2>2 DEF RecordStands, Binds
      <3>5. QED
        BY <1>6, <2>2, <3>1, <3>3, <3>4
    <2>3. CASE rec.proposal.op = "register"
      <3>1. /\ next.state = "ready" /\ next.key = rec.key /\ next.req = rec.req
            /\ next.accepted = rec.pending
        BY <1>2, <1>5, <1>6, <2>3 DEF BindingOf
      <3>2. rec.key = rec.proposal.key /\ rec.req = rec.proposal.req
        BY <1>4, <1>5, <2>3, ProposedIs
      <3>3. bound[rec.subject] \in {None, [key |-> rec.proposal.key, id |-> rec.pending]}
        BY <1>4, <1>6, <2>3 DEF RecordStands, Binds
      <3>4. QED
        BY <1>6, <2>3, <3>1, <3>2, <3>3
    <2>4. CASE rec.proposal.op = "adopt"
      <3>1. /\ next.state = "ready" /\ next.key = rec.key /\ next.req = rec.req
            /\ next.accepted = rec.proposal.expected
        BY <1>2, <1>5, <1>6, <2>4 DEF BindingOf
      <3>2. rec.proposal.expected = rec.accepted /\ rec.state # "pending-register"
        BY <1>4, <1>5, <2>4, ProposedIs DEF Stands
      <3>3. bound[rec.subject] \in {None, [key |-> rec.key, id |-> rec.accepted]}
        BY <1>4, <2>4, <3>2 DEF RecordStands, BoundIs, Binds
      <3>4. Used(rec.req)
        BY <1>4, <3>2 DEF RecordStands
      <3>5. QED
        BY <3>1, <3>2, <3>3, <3>4
    <2>5. QED
      BY <1>4, <1>5, <2>1, <2>2, <2>3, <2>4, ProposedIs DEF Ops
  <1>9. RecordStands(next)
    <2>1. /\ next.subject = rec.subject /\ next.pending = None
      BY <1>2 DEF RecIs
    <2>2. BoundIs(next, bound[rec.subject])
      BY <1>8 DEF BoundIs
    <2>3. next.pending \notin accepted
      BY <1>3, <2>1, AcceptedAre
    <2>4. QED
      BY <1>4, <1>5, <1>7, <1>8, <2>1, <2>2, <2>3 DEF RecordStands
  <1>10. ASSUME NEW s \in Run, s = run'[t] PROVE RunStands(s)'
    <2>1. s.pc \in Reading /\ next.subject = s.subject /\ next # None
      BY <1>1, <1>2, <1>4, <1>10, RecordFields DEF Moved, Edited, Reading, RecIs
    <2>2. QED
      BY <1>1, <1>2, <1>4, <1>5, <1>6, <1>7, <1>8, <1>10, <2>1, ReadingStands DEF Moved, Edited, RecIs
  <1>11. Alone(t)
    BY <1>2 DEF Moved
  <1>12. QED
    BY <1>2, <1>4, <1>9, <1>10, <1>11, WriteStands

LEMMA RenewStands ==
  ASSUME OneTab, DeviceInv, OneInv, NEW t \in Tab, Renew(t)
  PROVE  OneInv'
  <1>1. PICK r, next, rec : r = run[t] /\ next = current' /\ rec = r.rec
    OBVIOUS
  <1>2. /\ r.pc = "renew" /\ ids' = ids + 1 /\ ids < MaxId
        /\ UNCHANGED <<ubidVars, sentVars, worldVars>>
        /\ Saves(rec, next) /\ r.subject = rec.subject
        /\ RecIs(next, rec.subject, rec.key, next.req, rec.state,
                       rec.accepted, rec.auth, None, next.proposal, next.rotation)
        /\ Moved(t, "read-renewed", rec, r.snap, next.proposal, None, FALSE, r.signatures)
        /\ RenewedFrom(rec, next, ids')
    BY <1>1, RenewWrites
  <1>3. DeviceTypeOK /\ RunGood(r) /\ RunStands(r)
    BY <1>1, RunOf, RunStandsNow
  <1>4. /\ rec \in LocalRecord /\ RecGood(rec) /\ RecordStands(rec) /\ current = rec
        /\ current' = next /\ next \in LocalRecord /\ WellFormed(next)
    BY <1>1, <1>2, RecordNow, RecordFields DEF Saves, RecIs
  <1>5. /\ r.auth = rec.pending /\ r.on /\ enabled /\ rec.pending \in expired \ accepted
        /\ rec.pending # None /\ rec.proposal # None /\ r.proposal = rec.proposal
    <2>1. /\ r.auth \in DOMAIN signed /\ r.auth # None /\ r.proposal # None /\ r.on /\ enabled
          /\ r.auth \in expired \ accepted
      BY <1>2, <1>3, SignedIs DEF RunGood, Submitted, SignedFor, LegacyPcs
    <2>2. QED
      BY <1>2, <1>3, <1>4, <2>1 DEF RunStands, Retaining, Submitted
  <1>6. \A n \in DOMAIN signed : Live(n) => ~Binds(OpOf(n))
    BY <1>3, <1>4, <1>5, NoneLive
  <1>7. /\ next.subject = rec.subject /\ next.key = rec.key /\ next.state = rec.state
        /\ next.accepted = rec.accepted /\ next.pending = None
        /\ rec.proposal.op # "register" => next.req = rec.req
    BY <1>2 DEF RecIs, RenewedFrom
  <1>8. rec.proposal.op = "register" => bound[rec.subject] = None
    BY <1>2, <1>3, <1>4, <1>5, RecordFields DEF RunStands, SeesNone
  <1>9. RecordStands(next)
    <2>1. rec.state = "pending-register" => rec.proposal.op = "register"
      BY <1>4, <1>5, ProposedIs
    <2>2. rec.state # "pending-register" => rec.proposal.op # "register"
      BY <1>4, <1>5, ProposedIs
    <2>3. next.pending \notin accepted /\ rec.state # "revoked"
      BY <1>3, <1>4, <1>5, <1>7, AcceptedAre, ProposedIs
    <2>4. BoundIs(next, bound[rec.subject])
      BY <1>4, <1>5, <1>7, <1>8, <2>1 DEF RecordStands, BoundIs
    <2>5. next.state # "pending-register" => Used(next.req)
      BY <1>4, <1>7, <2>2 DEF RecordStands
    <2>6. QED
      BY <1>4, <1>5, <1>6, <1>7, <2>3, <2>4, <2>5 DEF RecordStands
  <1>10. ASSUME NEW s \in Run, s = run'[t] PROVE RunStands(s)'
    <2>1. s.pc \in Reading /\ next.subject = s.subject /\ next # None
      BY <1>1, <1>2, <1>4, <1>10, RecordFields DEF Moved, Edited, Reading, RecIs
    <2>2. QED
      BY <1>1, <1>2, <1>4, <1>5, <1>6, <1>7, <1>8, <1>10, <2>1, ReadingStands DEF Moved, Edited, RecIs
  <1>11. Alone(t)
    BY <1>2 DEF Moved
  <1>12. QED
    BY <1>2, <1>4, <1>9, <1>10, <1>11, WriteStands

\* The authorization the record retains once it is signed is live, and no
\* other that binds.
LEMMA PersistStands ==
  ASSUME OneTab, DeviceInv, DeviceInv', OneInv, NEW t \in Tab, Persist(t)
  PROVE  OneInv'
  <1>1. PICK r, next, n, rec : /\ r = run[t] /\ next = current' /\ n = Len(signed) + 1
                               /\ rec = r.rec
    OBVIOUS
  <1>2. /\ r.pc = "persist" /\ n \notin DOMAIN signed
        /\ UNCHANGED <<ids, ubidVars, posted, commands, worldVars>>
        /\ r.proposal \in Proposal
        /\ Saves(rec, next) /\ r.subject = rec.subject
        /\ RecIs(next, rec.subject, rec.key, rec.req, PendingState[r.proposal.op],
                 rec.accepted, rec.auth, n, r.proposal, rec.rotation)
        /\ Moved(t, "read-persisted", rec, r.snap, r.proposal, n, r.replay, r.signatures)
        /\ Signs(n, r.subject, r.proposal)
    BY <1>1, PersistWrites
  <1>3. DeviceTypeOK /\ RunGood(r) /\ RunStands(r)
    BY <1>1, RunOf, RunStandsNow
  <1>4. /\ rec \in LocalRecord /\ RecGood(rec) /\ RecordStands(rec) /\ current = rec
        /\ current' = next /\ next \in LocalRecord
    BY <1>1, <1>2, RecordNow, RecordFields DEF Saves, RecIs
  <1>5. r.proposal = rec.proposal /\ rec.pending = None /\ r.proposal # None
    BY <1>2, <1>3, <1>4 DEF RunStands, RunGood, Signing
  <1>6. /\ next.subject = rec.subject /\ next.key = rec.key /\ next.req = rec.req
        /\ next.state = rec.state /\ next.accepted = rec.accepted /\ next.pending = n
        /\ next.proposal = rec.proposal
    BY <1>2, <1>4, <1>5, ProposedIs DEF RecIs
  <1>7. /\ n \notin accepted /\ rec.pending \notin accepted
        /\ \A m \in accepted : OpOf(m)' = OpOf(m) /\ ReqOf(m)' = ReqOf(m)
        /\ \A m \in DOMAIN signed : OpOf(m)' = OpOf(m) /\ ReqOf(m)' = ReqOf(m)
        /\ DOMAIN signed' = DOMAIN signed \cup {n}
    BY <1>2, <1>3, <1>5, AcceptedAre DEF Signs, OpOf, ReqOf
  <1>8. UNCHANGED <<bound, accepted, registered, commands, enabled, expired>>
    BY <1>2 DEF ubidVars, worldVars
  <1>9. \A req : Used(req)' <=> Used(req)
    BY <1>7, <1>8 DEF Used
  <1>10. ASSUME NEW m \in DOMAIN signed', Live(m)', Binds(OpOf(m))' PROVE m = n
    <2> SUFFICES ASSUME m \in DOMAIN signed PROVE FALSE
      BY <1>7
    <2>1. Live(m) /\ Binds(OpOf(m))
      BY <1>7, <1>8, <1>9, <1>10 DEF Live, Binds
    <2>2. QED
      BY <1>3, <1>4, <1>5, <2>1, NoneLive
  <1>11. RecordStands(next)'
    <2>1. BoundIs(next, bound[next.subject])'
      BY <1>4, <1>6, <1>7, <1>8 DEF RecordStands, BoundIs, ByCommand
    <2>2. next.state # "pending-register" => Used(next.req)'
      BY <1>4, <1>6, <1>9 DEF RecordStands
    <2>3. \A m \in DOMAIN signed' : Live(m)' /\ Binds(OpOf(m))' => next.pending = m
      BY <1>6, <1>10
    <2>4. QED
      BY <1>4, <1>6, <1>7, <1>8, <2>1, <2>2, <2>3 DEF RecordStands
  <1>12. ASSUME NEW s \in Run, s = run'[t] PROVE RunStands(s)'
    <2>1. s.pc \in Reading /\ next.subject = s.subject /\ next # None
      BY <1>1, <1>2, <1>4, <1>12, RecordFields DEF Moved, Edited, Reading, RecIs
    <2>2. QED
      BY <1>1, <1>2, <1>4, <1>5, <1>6, <1>12, <2>1, ReadingStands DEF Moved, Edited
  <1>13. Unrecorded' /\ CommandsGood'
    BY <1>4, <1>7, <1>8, RecordFields DEF OneInv, Unrecorded, CommandsGood
  <1>14. QED
    <2>1. ASSUME NEW u \in Tab, NEW s \in Run, s = run'[u] PROVE RunStands(s)'
      BY <1>12, <2>1 DEF OneTab
    <2>2. QED
      BY <1>4, <1>11, <1>13, <2>1 DEF OneInv

\* UBID knows nothing of a device that has no record yet.
LEMMA CreateStands ==
  ASSUME OneTab, DeviceInv, OneInv, NEW t \in Tab, Create(t)
  PROVE  OneInv'
  <1>1. PICK r, next, proposal : /\ r = run[t] /\ next = current'
                                 /\ proposal = RegisterProposal(ids', ids')
    OBVIOUS
  <1>2. /\ r.pc = "act" /\ r.rec = None /\ r.subject \in Subject
        /\ current = None /\ UNCHANGED <<ubidVars, sentVars, worldVars>>
        /\ RecIs(next, r.subject, ids', ids', "pending-register", None, None, None,
                 proposal, None)
        /\ Moved(t, "read-created", r.rec, r.snap, r.proposal, r.auth, r.replay, r.signatures)
    BY <1>1, CreateWrites
  <1>3. RunStands(r) /\ DeviceTypeOK
    BY <1>1, RunOf, RunStandsNow
  <1>4. /\ next \in LocalRecord /\ next # None /\ next.subject = r.subject /\ next.pending = None
        /\ next.state = "pending-register" /\ current' = next
    BY <1>1, <1>2, RecordFields DEF RecIs
  <1>5. /\ commands = {} /\ (\A s \in Subject : bound[s] = None) /\ DOMAIN signed = {}
    BY <1>2 DEF OneInv, Unrecorded, DeviceInv, SignedGood
  <1>6. RecordStands(next)
    BY <1>2, <1>3, <1>4, <1>5, AcceptedAre DEF RecordStands, BoundIs
  <1>7. ASSUME NEW s \in Run, s = run'[t] PROVE RunStands(s)'
    <2>1. s.pc = "read-created" /\ next.subject = s.subject /\ s.snap = None
      BY <1>1, <1>2, <1>3, <1>4, <1>7 DEF Moved, Edited, RunStands
    <2>2. QED
      BY <1>4, <2>1, ReadingStands DEF Reading
  <1>8. Alone(t)
    BY <1>2 DEF Moved
  <1>9. QED
    BY <1>2, <1>4, <1>6, <1>7, <1>8, WriteStands

LEMMA BeginsStand ==
  ASSUME OneTab, DeviceInv, OneInv, NEW t \in Tab,
         BeginAdopt(t) \/ BeginRotate(t) \/ BeginRevoke(t)
  PROVE  OneInv'
  <1>1. PICK r : r = run[t]
    OBVIOUS
  <1>2. r.pc \in {"act", "adopt"} /\ r.on /\ r.rec # None /\ (r.pc = "act" => r.rec.proposal = None)
    BY <1>1, BeginsAre
  <1>3. r.rec.proposal = None
    <2>1. r.pc = "adopt" => r.rec.state = "authorization-required"
      BY <1>1, <1>2, RunStandsNow DEF RunStands, Reading
    <2>2. PICK rec : rec = r.rec
      OBVIOUS
    <2>3. WellFormed(rec)
      BY <1>1, <1>2, <2>2, RecOf DEF RecGood
    <2>4. QED
      BY <1>2, <2>1, <2>2, <2>3 DEF WellFormed
  <1>4. PICK proposal \in Proposal, rotation \in Maybe(Rotation) :
               /\ Keyed(proposal) /\ proposal.op # "register" /\ proposal.expected # None
               /\ Begin(t, proposal, rotation)
    BY <1>1, BeginsAre
  <1>5. QED
    BY <1>1, <1>2, <1>3, <1>4, BeginStands


-----------------------------------------------------------------------------
(* UBID and the world, while one tab is open.                              *)

\* What a copy of the record and a snapshot were, UBID's next step leaves.
LEMMA WorldStepStands ==
  ASSUME DeviceInv, OneInv, UNCHANGED <<current, run, signed>>,
         accepted \subseteq accepted', registered \subseteq registered',
         \A rec \in LocalRecord : rec = current => RecordStands(rec)',
         \A t \in Tab, r \in Run : r = run[t] /\ current # None /\ SeesNone(r) =>
            bound'[current.subject] = None,
         Unrecorded', CommandsGood'
  PROVE  OneInv'
  <1>1. ASSUME NEW t \in Tab, NEW r \in Run, r = run'[t] PROVE RunStands(r)'
    <2>1. RunStands(r) /\ (current # None /\ SeesNone(r) => bound'[current.subject] = None)
      BY <1>1 DEF OneInv
    <2>2. SeesNone(r)' <=> SeesNone(r)
      BY DEF SeesNone
    <2>3. \A binding : BoundIs(current, binding) => BoundIs(current, binding)'
      BY DEF BoundIs, ByCommand
    <2>4. ByCommand(current) => ByCommand(current)'
      BY DEF ByCommand
    <2>5. QED
      BY <2>1, <2>2, <2>3, <2>4 DEF RunStands
  <1>2. QED
    BY <1>1 DEF OneInv

\* A step that only ends bindings and the ways to make them.
LEMMA QuietStands ==
  ASSUME DeviceInv, OneInv, UNCHANGED <<current, run, signed, accepted, registered>>,
         \A s \in Subject : bound'[s] \in {bound[s], None},
         expired \subseteq expired', commands' \subseteq commands, enabled => enabled',
         enabled' => commands' = registered
  PROVE  OneInv'
  <1>1. ASSUME NEW rec \in LocalRecord, rec = current PROVE RecordStands(rec)'
    <2>1. RecordStands(rec) /\ rec.subject \in Subject
      BY <1>1, RecordFields DEF OneInv
    <2>2. \A req : Used(req)' <=> Used(req)
      BY DEF Used, ReqOf
    <2>3. \A n \in DOMAIN signed : Live(n)' => Live(n)
      BY <2>2 DEF Live, ReqOf
    <2>4. BoundIs(rec, bound[rec.subject])'
      BY <2>1 DEF RecordStands, BoundIs, ByCommand
    <2>5. \A n \in DOMAIN signed : Live(n)' /\ Binds(OpOf(n))' => rec.pending = n
      BY <2>1, <2>3 DEF RecordStands, Binds, OpOf
    <2>6. QED
      BY <2>1, <2>2, <2>4, <2>5 DEF RecordStands
  <1>2. ASSUME NEW t \in Tab, NEW r \in Run, r = run[t] /\ current # None /\ SeesNone(r)
        PROVE  bound'[current.subject] = None
    <2>1. RunStands(r) /\ current.subject \in Subject
      BY <1>2, RecordNow, RecordFields DEF OneInv
    <2>2. QED
      BY <1>2, <2>1 DEF RunStands
  <1>3. Unrecorded' /\ CommandsGood'
    BY DEF OneInv, Unrecorded, CommandsGood, ReqOf, DeviceInv
  <1>4. QED
    BY <1>1, <1>2, <1>3, WorldStepStands

LEMMA WorldStands ==
  ASSUME DeviceInv, OneInv, World \/ UNCHANGED deviceVars
  PROVE  OneInv'
  <1> USE DEF deviceVars, sentVars, ubidVars, worldVars
  <1>0. DeviceTypeOK /\ (enabled => commands = registered)
    BY DEF DeviceInv, OneInv, CommandsGood
  <1>1. ASSUME NEW n \in DOMAIN signed, Expire(n) PROVE OneInv'
    BY <1>0, <1>1, QuietStands DEF Expire
  <1>2. ASSUME NEW s \in Subject, Withdraw(s) PROVE OneInv'
    BY <1>0, <1>2, QuietStands DEF Withdraw, DeviceTypeOK
  <1>3. ASSUME NEW s \in Maybe(Subject), SwitchAccount(s) PROVE OneInv'
    BY <1>0, <1>3, QuietStands DEF SwitchAccount
  <1>4. ASSUME Deploy PROVE OneInv'
    BY <1>0, <1>4, QuietStands DEF Deploy, DeviceTypeOK
  <1>5. ASSUME UNCHANGED deviceVars PROVE OneInv'
    BY <1>0, <1>5, QuietStands
  <1>6. QED
    BY <1>1, <1>2, <1>3, <1>4, <1>5 DEF World

\* An authorization that binds is the one the record retains; what it binds is
\* the key of the record's operation.
LEMMA UbidAuthorizeStands ==
  ASSUME DeviceInv, OneInv, NEW n \in DOMAIN signed, UbidAuthorize(n)
  PROVE  OneInv'
  <1>1. PICK s, p, rec : s = signed[n].subject /\ p = signed[n].proposal /\ rec = current
    OBVIOUS
  <1>2. /\ n \in posted \ (accepted \cup expired) /\ accepted' = accepted \cup {n} /\ ~Used(p.req)
        /\ p.op # "register" => bound[s] # None
        /\ p.op = "revoke" => bound' = [bound EXCEPT ![s] = None]
        /\ p.op = "adopt" => bound' = [bound EXCEPT ![s] = bound[s]]
        /\ Binds(p.op) => bound' = [bound EXCEPT ![s] = [key |-> p.key, id |-> n]]
        /\ UNCHANGED <<current, run, registered, signed, commands, expired, enabled>>
    BY <1>1 DEF UbidAuthorize, Binds, sentVars, worldVars
  <1>3. /\ DeviceTypeOK /\ rec # None /\ s = rec.subject /\ n # None
        /\ p \in Proposal /\ p.op \in Ops /\ p = signed[n].proposal
    BY <1>1, SignedIs DEF DeviceInv, SignedGood, Proposal
  <1>4. rec \in LocalRecord /\ RecGood(rec) /\ RecordStands(rec) /\ s \in Subject
    BY <1>1, <1>3, RecordNow, RecordFields
  <1>5. Live(n) /\ OpOf(n) = p.op /\ ReqOf(n) = p.req
    BY <1>1, <1>2 DEF Live, OpOf, ReqOf
  <1>6. Binds(p.op) => rec.pending = n /\ rec.proposal = p /\ rec.state = PendingState[p.op]
    BY <1>3, <1>4, <1>5, PendingIs, ProposedIs DEF RecordStands
  <1>7. /\ bound'[s] = IF p.op = "revoke" THEN None
                       ELSE IF p.op = "adopt" THEN bound[s] ELSE [key |-> p.key, id |-> n]
        /\ \A u \in Subject \ {s} : bound'[u] = bound[u]
    BY <1>2, <1>3, <1>4 DEF DeviceTypeOK, Binds, Ops
  <1>8. \A req : Used(req) => Used(req)'
    BY <1>2 DEF Used, ReqOf
  <1>9. \A m \in DOMAIN signed : Live(m)' => Live(m)
    BY <1>2, <1>8 DEF Live, ReqOf
  <1>10. RecordStands(rec)'
    <2>1. BoundIs(rec, bound[rec.subject])'
      BY <1>2, <1>3, <1>4, <1>6, <1>7 DEF RecordStands, BoundIs, ByCommand, Binds, Ops
    <2>2. rec.pending \in accepted' /\ Binds(rec.proposal.op) =>
             bound'[rec.subject] \in {None, [key |-> rec.proposal.key, id |-> rec.pending]}
      <3>1. CASE rec.pending = n
        <4>1. rec.proposal = p
          BY <1>1, <1>3, <1>4, <3>1, PendingIs
        <4>2. QED
          BY <1>3, <1>7, <3>1, <4>1 DEF Binds
      <3>2. CASE rec.pending # n
        BY <1>2, <1>3, <1>4, <1>6, <1>7, <3>2 DEF RecordStands, Binds, Ops
      <3>3. QED
        BY <3>1, <3>2
    <2>3. rec.state = "revoked" => bound'[rec.subject] = None
      BY <1>2, <1>3, <1>4, <1>6, <1>7 DEF RecordStands, Binds, Ops, PendingState
    <2>4. \A m \in DOMAIN signed : Live(m)' /\ Binds(OpOf(m))' => rec.pending = m
      BY <1>2, <1>4, <1>9 DEF RecordStands, OpOf, Binds
    <2>5. QED
      BY <1>2, <1>3, <1>4, <1>7, <1>8, <2>1, <2>2, <2>3, <2>4 DEF RecordStands
  <1>11. ASSUME NEW t \in Tab, NEW r \in Run, r = run[t] /\ current # None /\ SeesNone(r)
         PROVE  bound'[current.subject] = None
    <2>1. RunStands(r) /\ RunGood(r) /\ bound[s] = None
      BY <1>1, <1>3, <1>11, RunOf, RunStandsNow DEF RunStands
    <2> SUFFICES ASSUME Binds(p.op) PROVE FALSE
      BY <1>1, <1>2, <1>3, <1>7, <2>1 DEF Binds, Ops
    <2>2. p.op = "register" /\ rec.state = "pending-register"
      BY <1>2, <1>6, <2>1 DEF Binds, PendingState, Ops
    <2>3. r.pc = "finalize" => r.proposal = rec.proposal
      BY <1>1, <2>1 DEF RunStands, Retaining, Submitted
    <2>4. r.pc = "renew" => n \in expired
      BY <1>1, <1>6, <2>1 DEF RunStands, RunGood, Retaining, Submitted
    <2>5. QED
      BY <1>1, <1>2, <1>6, <1>11, <2>2, <2>3, <2>4 DEF SeesNone
  <1>12. Unrecorded' /\ CommandsGood'
    BY <1>1, <1>2, <1>3, <1>5 DEF OneInv, Unrecorded, CommandsGood, ReqOf, Used
  <1>13. QED
    BY <1>1, <1>2, <1>10, <1>11, <1>12, WorldStepStands

\* The command that UBID takes carries the registration of the record.
LEMMA UbidRegisterStands ==
  ASSUME DeviceInv, OneInv, NEW c \in commands, UbidRegister(c)
  PROVE  OneInv'
  <1>1. PICK rec : rec = current
    OBVIOUS
  <1>2. /\ ~Used(c.req) /\ registered' = registered \cup {c}
        /\ bound' = [bound EXCEPT ![c.subject] = [key |-> c.key, id |-> Legacy]]
        /\ UNCHANGED <<current, run, accepted, signed, commands, expired, enabled>>
    BY DEF UbidRegister, sentVars, worldVars
  <1>3. DeviceTypeOK /\ c.subject \in Subject /\ c \notin registered /\ ~enabled /\ rec # None
    BY <1>1, <1>2 DEF DeviceInv, DeviceTypeOK, OneInv, CommandsGood, Unrecorded, Used
  <1>4. rec \in LocalRecord /\ RecGood(rec) /\ RecordStands(rec) /\ rec.subject \in Subject
    BY <1>1, <1>3, RecordNow, RecordFields
  <1>5. c.key = rec.key /\ c.req = rec.req /\ rec.state = "pending-register"
    BY <1>2, <1>3, <1>4 DEF RecordStands
  <1>6. rec.pending \notin accepted
    <2> SUFFICES ASSUME rec.pending \in accepted PROVE FALSE
      OBVIOUS
    <2>1. rec.pending # None
      BY <1>3, AcceptedAre
    <2>2. rec.proposal # None /\ Used(rec.proposal.req)
      BY <1>3, <1>4, <2>1, PendingIs
    <2>3. rec.proposal.req = rec.req
      BY <1>4, <1>5, <2>2, ProposedIs
    <2>4. QED
      BY <1>2, <1>5, <2>2, <2>3
  <1>7. /\ bound'[c.subject] = [key |-> c.key, id |-> Legacy]
        /\ \A u \in Subject \ {c.subject} : bound'[u] = bound[u]
    BY <1>2, <1>3 DEF DeviceTypeOK
  <1>8. \A req : Used(req) => Used(req)'
    BY <1>2 DEF Used, ReqOf
  <1>9. \A m \in DOMAIN signed : Live(m)' => Live(m)
    BY <1>2, <1>8 DEF Live, ReqOf
  <1>10. RecordStands(rec)'
    <2>1. BoundIs(rec, bound[rec.subject])'
      BY <1>2, <1>4, <1>5, <1>7 DEF RecordStands, BoundIs, ByCommand
    <2>2. \A m \in DOMAIN signed : Live(m)' /\ Binds(OpOf(m))' => rec.pending = m
      BY <1>2, <1>4, <1>9 DEF RecordStands, OpOf, Binds
    <2>3. \A u \in Subject \ {rec.subject} :
             bound'[u] # None => bound'[u].id = Legacy /\ registered' # {}
      BY <1>2, <1>4, <1>7 DEF RecordStands
    <2>4. QED
      BY <1>2, <1>4, <1>5, <1>6, <2>1, <2>2, <2>3 DEF RecordStands
  <1>11. ASSUME NEW t \in Tab, NEW r \in Run, r = run[t] /\ current # None /\ SeesNone(r)
         PROVE  bound'[current.subject] = None
    <2>1. RunGood(r)
      BY <1>11, RunOf
    <2>2. QED
      BY <1>1, <1>3, <1>5, <1>11, <2>1 DEF SeesNone, RunGood, LegacyPcs
  <1>12. Unrecorded' /\ CommandsGood'
    BY <1>1, <1>2, <1>3 DEF OneInv, Unrecorded, CommandsGood, ReqOf, Used
  <1>13. QED
    BY <1>1, <1>2, <1>10, <1>11, <1>12, WorldStepStands

-----------------------------------------------------------------------------
(* The theorems for one tab.                                               *)

LEMMA OneInitInv == DeviceInit => OneInv
  <1> SUFFICES ASSUME DeviceInit PROVE OneInv
    OBVIOUS
  <1>1. \A t \in Tab, r \in Run : r = run[t] => RunStands(r)
    BY NoRunIs, IdleStands DEF DeviceInit
  <1>2. Unrecorded /\ CommandsGood
    BY DEF DeviceInit, Unrecorded, CommandsGood
  <1>3. QED
    BY <1>1, <1>2, RecordFields DEF DeviceInit, OneInv

\* No step breaks what holds while one tab is open.
LEMMA OneNextInv ==
  ASSUME OneTab, DeviceInv, DeviceInv', OneInv, [DeviceNext]_deviceVars
  PROVE  OneInv'
  <1>1. ASSUME NEW t \in Tab, Proceed(t) \/ Fail(t) PROVE OneInv'
    <2>1. ASSUME Decide(t) PROVE OneInv'
      BY <2>1, CreateStands, ReconcileStands, ResumeStands, RequireAuthorizationStands,
         BeginsStand, EndsStand DEF Decide
    <2>2. ASSUME Submit(t) PROVE OneInv'
      BY <2>2, SignStands, PersistStands, PostStands, AnswerAcceptedStands, ConfirmStands,
         FinalizeStands, EndsStand, AnswerExpiredStands, RenewSnapshotStands, RenewStands
         DEF Submit
    <2>3. ASSUME LegacyStep(t) PROVE OneInv'
      BY <2>3, LegacyBoundStands, LegacyPostStands, LegacyAnswerStands, LegacyConfirmStands,
         LegacyReadyStands DEF LegacyStep
    <2>4. QED
      BY <1>1, <2>1, <2>2, <2>3, LoadStands, SnapshotStands, ReadBackStands, EndsStand
         DEF Proceed
  <1>2. CASE Ubid
    BY <1>2, UbidAuthorizeStands, UbidRegisterStands DEF Ubid
  <1>3. CASE World \/ UNCHANGED deviceVars
    BY <1>3, WorldStands
  <1>4. QED
    BY <1>1, <1>2, <1>3, StartStands DEF DeviceNext

\* What holds of the record and UBID in every state while one tab is open.
THEOREM OneTabInvariant == OneTab => (DeviceSpec => []OneInv)
  <1> SUFFICES ASSUME OneTab PROVE DeviceSpec => []OneInv
    OBVIOUS
  <1>1. DeviceInv /\ DeviceInv' /\ OneInv /\ [DeviceNext]_deviceVars => OneInv'
    BY OneNextInv
  <1>2. QED
    BY <1>1, OneInitInv, DeviceInvariant, PTL DEF DeviceSpec

\* While one tab is open, nothing still on its way binds a revoked device.
THEOREM RevokedIsGoneHolds == OneTab => (DeviceSpec => []RevokedIsGone)
  <1> SUFFICES ASSUME OneTab PROVE DeviceSpec => []RevokedIsGone
    OBVIOUS
  <1>1. DeviceInv /\ OneInv => RevokedIsGone
    BY RecordNow DEF RevokedIsGone, RecordStands
  <1>2. QED
    BY <1>1, OneTabInvariant, DeviceInvariant, PTL

\* While one tab is open, a ready record names the binding UBID has.
THEOREM ReadyIsCurrentHolds == OneTab => (DeviceSpec => []ReadyIsCurrent)
  <1> SUFFICES ASSUME OneTab PROVE DeviceSpec => []ReadyIsCurrent
    OBVIOUS
  <1>1. ASSUME DeviceInv, OneInv PROVE ReadyIsCurrent
    <2>1. PICK rec : rec = current
      OBVIOUS
    <2> SUFFICES ASSUME rec # None, rec.state = "ready", bound[rec.subject] # None
                 PROVE  bound[rec.subject] = [key |-> rec.key, id |-> rec.accepted]
      BY <2>1 DEF ReadyIsCurrent
    <2>2. RecGood(rec) /\ RecordStands(rec)
      BY <1>1, <2>1, RecordNow
    <2>3. rec.pending \notin accepted
      BY <1>1, <2>2, AcceptedAre DEF RecGood, WellFormed, DeviceInv
    <2>4. QED
      BY <2>2, <2>3 DEF RecordStands, BoundIs
  <1>2. QED
    BY <1>1, OneTabInvariant, DeviceInvariant, PTL

\* While one tab is open, no reload, lost answer or renewal leaves UBID with a
\* binding whose private key is gone, where device authorization is deployed
\* from the start; and, with the legacy command before it, if one account uses
\* the browser.
THEOREM KeyKeptHolds ==
  OneTab /\ (Deployed \/ \A s, u \in Subject : s = u) => (DeviceSpec => []KeyKept)
  <1> SUFFICES ASSUME OneTab, Deployed \/ \A s, u \in Subject : s = u
               PROVE  DeviceSpec => []KeyKept
    OBVIOUS
  <1>1. ASSUME DeviceInv, OneInv PROVE KeyKept
    <2>1. PICK rec : rec = current
      OBVIOUS
    <2> SUFFICES ASSUME NEW s \in Subject, bound[s] # None
                 PROVE  /\ rec # None
                        /\ \/ bound[s].key = rec.key
                           \/ rec.rotation # None /\ bound[s].key = rec.rotation.key
                        /\ bound[s].id # Legacy => rec.subject = s
      BY <2>1 DEF KeyKept
    <2>2. rec # None
      BY <1>1, <2>1 DEF OneInv, Unrecorded
    <2>3. rec \in LocalRecord /\ RecGood(rec) /\ RecordStands(rec) /\ rec.subject \in Subject
      BY <1>1, <2>1, <2>2, RecordNow, RecordFields
    <2>4. rec.subject = s
      <3>1. Deployed => registered = {}
        BY <1>1 DEF OneInv, CommandsGood, DeviceInv, DeviceTypeOK
      <3>2. QED
        BY <2>3, <3>1 DEF RecordStands
    <2>5. BoundIs(rec, bound[s])
      BY <2>3, <2>4 DEF RecordStands
    <2>6. ASSUME rec.pending \in accepted, Binds(rec.proposal.op)
          PROVE  \/ rec.proposal.key = rec.key
                 \/ rec.rotation # None /\ rec.proposal.key = rec.rotation.key
      <3>1. rec.proposal # None
        BY <1>1, <2>3, <2>6, AcceptedAre DEF RecGood, WellFormed, DeviceInv
      <3>2. Stands(rec.proposal, rec)
        BY <2>3, <3>1, ProposedIs
      <3>3. QED
        BY <2>6, <3>2 DEF Stands, Binds
    <2>7. QED
      BY <2>2, <2>4, <2>5, <2>6 DEF BoundIs
  <1>2. QED
    BY <1>1, OneTabInvariant, DeviceInvariant, PTL

\* The authorization the record retains is given up by a renewal once it has
\* expired, or by the end of the operation.
LEMMA RetryStep ==
  ASSUME OneTab, DeviceInv, OneInv, DeviceNext, current # None, current.pending # None,
         current'.pending # current.pending
  PROVE  current.pending \in expired \/ current'.state \in {"ready", "revoked"}
  <1>1. PICK next : next = current'
    OBVIOUS
  <1>2. next # current
    BY <1>1
  <1>3. PICK t \in Tab : \/ RequireAuthorization(t) \/ LegacyBound(t) \/ LegacyAnswer(t)
                         \/ LegacyReady(t) \/ Finalize(t) \/ Renew(t) \/ Persist(t)
                         \/ BeginAdopt(t) \/ BeginRotate(t) \/ BeginRevoke(t)
    BY <1>1, <1>2
       DEF DeviceNext, Proceed, Decide, Submit, LegacyStep, Ubid, World, Start, Load, Snapshot,
           ReadBack, Create, Add, Reconcile, Resume, ShowReady, Sign, Post, AnswerAccepted,
           Confirm, ShowFinal, AnswerExpired, RenewSnapshot, LegacyPost, LegacyConfirm, Fail,
           UbidAuthorize, UbidRegister, Expire, Withdraw, SwitchAccount, Deploy
  <1>4. PICK r, rec : r = run[t] /\ rec = r.rec
    OBVIOUS
  <1>5. RunGood(r) /\ RunStands(r)
    BY <1>4, RunOf, RunStandsNow
  <1>6. CASE RequireAuthorization(t) \/ LegacyAnswer(t)
    <2>1. Saves(rec, next) /\ next.pending = rec.pending
      BY <1>1, <1>4, <1>6, RequireAuthorizationWrites, LegacyAnswerWrites DEF RecIs
    <2>2. QED
      BY <1>1, <2>1 DEF Saves
  <1>7. CASE LegacyBound(t) \/ LegacyReady(t)
    BY <1>1, <1>4, <1>7, LegacyBoundWrites, LegacyReadyWrites DEF RecIs
  <1>8. CASE Finalize(t)
    BY <1>1, <1>4, <1>8, FinalizeWrites
  <1>9. CASE Renew(t)
    <2>1. r.pc = "renew" /\ Saves(rec, next)
      BY <1>1, <1>4, <1>9, RenewWrites
    <2>2. current = rec /\ rec.pending = r.auth /\ r.auth \in expired
      BY <1>4, <1>5, <2>1 DEF Saves, RunGood, Retaining, Submitted
    <2>3. QED
      BY <2>2
  <1>10. CASE Persist(t)
    <2>1. r.pc = "persist"
      BY <1>4, <1>10 DEF Persist
    <2>2. QED
      BY <1>5, <2>1 DEF RunStands, Signing
  <1>11. CASE BeginAdopt(t) \/ BeginRotate(t) \/ BeginRevoke(t)
    <2>1. r.pc \in {"act", "adopt"} /\ r.on /\ rec # None
      BY <1>4, <1>11, BeginsAre
    <2>2. PICK proposal \in Proposal, rotation \in Maybe(Rotation) :
             /\ Keyed(proposal) /\ proposal.op # "register" /\ proposal.expected # None
             /\ Begin(t, proposal, rotation)
      BY <1>4, <1>11, BeginsAre
    <2>3. Saves(rec, next) /\ next.pending = rec.pending
      BY <1>1, <1>4, <2>1, <2>2, BeginWrites DEF RecIs
    <2>4. QED
      BY <1>1, <2>3 DEF Saves
  <1>12. QED
    BY <1>3, <1>6, <1>7, <1>8, <1>9, <1>10, <1>11

\* While one tab is open, the record keeps an authorization that UBID may
\* still accept, over reloads, lost answers and changes of the account.
THEOREM RetryKeptHolds == OneTab => (DeviceSpec => RetryKept)
  <1> SUFFICES ASSUME OneTab PROVE DeviceSpec => RetryKept
    OBVIOUS
  <1>1. DeviceInv /\ OneInv /\ [DeviceNext]_deviceVars =>
          [current # None /\ current.pending # None /\ current'.pending # current.pending =>
             \/ current.pending \in expired
             \/ current'.state \in {"ready", "revoked"}]_deviceVars
    BY RetryStep
  <1>2. QED
    BY <1>1, OneTabInvariant, DeviceInvariant, PTL DEF DeviceSpec, RetryKept
=============================================================================
