--------------------------- MODULE MessagingDevice ---------------------------
(***************************************************************************)
(* createMessagingDeviceStore and createMessagingDevice of                 *)
(* src/web/messaging-device-v128c1.mjs, with authorizeMessagingDevice-     *)
(* Binding of src/web/messaging-device-authorization-v1.mjs: the messaging *)
(* key of this browser, its one IndexedDB record, the tabs that change it, *)
(* the wallet that signs and UBID, which binds the key to the account.     *)
(*                                                                         *)
(* Every await of run() is a step: a transaction on the record, a request, *)
(* a prompt of the wallet.  Between the update of the record and the read- *)
(* back that follows it another tab may have changed the record again.     *)
(* The local computation that follows an await is one step with it.        *)
(*                                                                         *)
(* A request, a prompt or a transaction can fail, a tab can be reloaded or *)
(* cancelled at every await: the run ends (Fail) and what it wrote or sent *)
(* stays.  A cancelled run changes nothing more, because write() and       *)
(* persistPending check the generation and the signal is aborted, so       *)
(* cancelling is Fail too.                                                 *)
(*                                                                         *)
(* Request ids and keys are random: `ids' numbers them, at the write that  *)
(* makes them durable.  A signed authorization is its position in `signed' *)
(* and names the binding UBID will make of it.  The store holds one device *)
(* and never replaces it, so device ids are left out, and so are binding   *)
(* versions and validity, which follow from the binding id.                *)
(***************************************************************************)
EXTENDS Naturals, Sequences, FiniteSets

CONSTANTS
    Tab,         \* pages of this browser
    Subject,     \* accounts that may sign in
    None,        \* null, undefined
    Deployed,    \* `authorizationEnabled' when the first page was loaded
    MaxId,       \* bound of request ids and keys
    MaxBegun,    \* bound of those a new operation may take
    MaxSigned,   \* bound of signed authorizations
    MaxSwitch,   \* bound of changes of the account that is signed in
    MaxExpired,  \* bound of authorizations that expire
    Withdraws    \* UBID may end a binding: it expires, or another device revokes it

Ops == {"register", "adopt", "rotate", "revoke"}
Actions == Ops \cup {"retry", "reconcile"}
PendingState == [register |-> "pending-register", adopt |-> "pending-adopt",
                 rotate |-> "pending-rotate", revoke |-> "pending-revoke"]
States == {PendingState[op] : op \in Ops} \cup {"authorization-required", "ready", "revoked"}

\* A binding UBID makes of the legacy command has id 0.
Legacy == 0
Maybe(S) == S \cup {None}
Binding == [key : Nat, id : Nat]
Proposal == [op : Ops, key : Maybe(Nat), expected : Maybe(Nat), req : Nat]
Rotation == [key : Nat, req : Nat]
LocalRecord == [subject : Subject, key : Nat, req : Nat, state : States,
                accepted : Maybe(Nat), auth : Maybe(Nat), pending : Maybe(Nat),
                proposal : Maybe(Proposal), rotation : Maybe(Rotation)]

ASSUME DeviceAssumption ==
    /\ IsFiniteSet(Tab) /\ IsFiniteSet(Subject)
    /\ None \notin Subject \cup Nat \cup LocalRecord \cup Binding \cup Proposal \cup Rotation
    /\ MaxId \in Nat \ {0} /\ MaxBegun \in 1..MaxId
    /\ MaxSigned \in Nat /\ MaxSwitch \in Nat /\ MaxExpired \in Nat
    /\ Deployed \in BOOLEAN /\ Withdraws \in BOOLEAN

\* The awaits a run can stand at; "read-..." are the read-backs that follow an
\* update.
Pcs == {"idle", "load", "snapshot", "act", "sign", "persist", "post", "answer", "confirm",
        "finalize", "renew-snapshot", "renew", "adopt", "read-created", "read-begun",
        "read-required", "read-persisted", "read-renewed", "read-final", "legacy-answer",
        "read-legacy", "legacy-confirm", "legacy-ready", "read-ready"}
Run == [pc : Pcs,
        subject : Maybe(Subject), action : Actions, on : BOOLEAN,
        rec : Maybe(LocalRecord), snap : Maybe(Binding), proposal : Maybe(Proposal),
        auth : Maybe(Nat), replay : BOOLEAN, signatures : Nat]
NoRun == [pc |-> "idle", subject |-> None, action |-> "reconcile", on |-> Deployed,
          rec |-> None, snap |-> None, proposal |-> None, auth |-> None,
          replay |-> FALSE, signatures |-> 0]

VARIABLES
    current,   \* the record of the store
    run,       \* tab |-> where its run stands
    session,   \* the account of the session cookie
    enabled,   \* the BFF runs with device authorization
    ids,       \* request ids and keys made durable so far
    signed,    \* authorizations the wallet has signed
    expired,   \* those whose intent token has expired
    posted,    \* those a tab has submitted
    bound,     \* UBID: account |-> its active binding of this device
    accepted,  \* UBID: authorizations it has accepted
    commands,  \* legacy commands a tab has submitted
    registered,\* UBID: legacy commands it has accepted
    switches   \* changes of the account so far

ubidVars == <<bound, accepted, registered>>
sentVars == <<signed, posted, commands>>
worldVars == <<session, enabled, expired, switches>>
deviceVars == <<current, run, ids, ubidVars, sentVars, worldVars>>

DeviceTypeOK ==
    /\ current \in Maybe(LocalRecord)
    /\ run \in [Tab -> Run]
    /\ session \in Maybe(Subject) /\ enabled \in BOOLEAN
    /\ ids \in 0..MaxId /\ switches \in 0..MaxSwitch
    /\ signed \in Seq([subject : Subject, proposal : Proposal])
    /\ Len(signed) <= MaxSigned
    /\ expired \subseteq DOMAIN signed /\ posted \subseteq DOMAIN signed
    /\ accepted \subseteq posted
    /\ bound \in [Subject -> Maybe(Binding)]
    /\ registered \subseteq commands
    /\ commands \subseteq [subject : Subject, key : Nat, req : Nat]

OpOf(n) == signed[n].proposal.op
ReqOf(n) == signed[n].proposal.req
BindingOf(n) == IF OpOf(n) = "adopt" THEN signed[n].proposal.expected ELSE n

-----------------------------------------------------------------------------
\* The record.

RegisterProposal(key, req) ==
    [op |-> "register", key |-> key, expected |-> None, req |-> req]

\* A proposal is the one its record stands for.
Stands(proposal, rec) ==
    /\ rec.state = PendingState[proposal.op]
    /\ proposal.op = "register" => proposal.key = rec.key /\ proposal.req = rec.req
    /\ proposal.op = "rotate" => /\ rec.rotation # None
                                 /\ [key |-> proposal.key, req |-> proposal.req] = rec.rotation
    /\ proposal.op \in {"adopt", "revoke"} => proposal.req # rec.req
    /\ proposal.op # "register" => proposal.expected = rec.accepted

\* localRecord does not refuse the record.
WellFormed(rec) ==
    /\ rec.state \in {"ready", "pending-adopt", "pending-revoke"} => rec.accepted # None
    /\ (rec.rotation # None) = (rec.state = "pending-rotate")
    /\ rec.rotation # None => rec.rotation.key # rec.key
    /\ rec.proposal # None => Stands(rec.proposal, rec)
    /\ rec.pending # None => rec.proposal # None
    /\ rec.state \in {"ready", "revoked", "authorization-required"} => rec.proposal = None

\* The record with its proposal renewed under request id `req'.
Renewal(rec, req) ==
    [rec EXCEPT !.pending = None, !.proposal.req = req,
                !.req = IF rec.proposal.op = "register" THEN req ELSE @,
                !.rotation = IF rec.proposal.op = "rotate" THEN [@ EXCEPT !.req = req] ELSE @]

\* isExactPendingRenewal
Renews(previous, next) ==
    /\ previous.pending # None /\ next.proposal # None
    /\ next = Renewal(previous, next.proposal.req)
    /\ next.proposal.req \notin {previous.req, previous.proposal.req}
    /\ previous.auth # None => next.proposal.req # ReqOf(previous.auth)

Promotes(previous, next) ==
    /\ previous.rotation # None /\ next.rotation = None
    /\ [key |-> next.key, req |-> next.req] = previous.rotation
    /\ next.state = "ready" /\ next.auth # None
    /\ OpOf(next.auth) = "rotate" /\ ReqOf(next.auth) = previous.rotation.req

\* What the transaction of update() lets through once the record is the
\* revision the caller expects.
UpdateAllowed(previous, next) ==
    LET promotes == Promotes(previous, next)
        renews == Renews(previous, next)
        kept(old, new) == old # None /\ new # None => old = new
        settled == next.state \in {"ready", "revoked"}
    IN  /\ promotes \/ renews \/ (previous.key = next.key /\ previous.req = next.req)
        /\ previous.accepted # None => next.accepted # None
        /\ promotes \/ kept(previous.accepted, next.accepted)
        /\ previous.auth # None => next.auth # None
        /\ previous.rotation # None /\ next.rotation = None => promotes
        /\ renews \/ kept(previous.rotation, next.rotation)
        /\ renews \/ kept(previous.proposal, next.proposal)
        /\ previous.proposal = next.proposal \/ kept(previous.pending, next.pending)
        /\ previous.pending # None /\ next.pending = None => settled \/ renews
        /\ previous.proposal # None /\ next.proposal = None => settled

\* write(next): a compare-and-swap of the record the run has read; `r' is
\* what becomes of the run.
Write(t, next, r) ==
    /\ current # None /\ current = run[t].rec
    /\ WellFormed(next) /\ UpdateAllowed(current, next)
    /\ current' = next
    /\ run' = [run EXCEPT ![t] = r]

Goes(t, pc) == [run[t] EXCEPT !.pc = pc]

\* session(): the session cookie is still that of the run's account.
SessionOf(t) == session # None /\ session = run[t].subject

-----------------------------------------------------------------------------
\* run(explicitAction), from its start to the decision.

\* A page loaded before the deployment still runs the legacy code.
Start(t, action, on) ==
    /\ run[t].pc = "idle" /\ session # None
    /\ on => enabled
    /\ ~on => ~Deployed
    /\ run' = [run EXCEPT ![t] = [NoRun EXCEPT !.pc = "load", !.subject = session,
                                               !.action = action, !.on = on]]
    /\ UNCHANGED <<current, ids, ubidVars, sentVars, worldVars>>

\* Fault: the account of the record is not looked at.
LoadAny(t) ==
    /\ run[t].pc = "load" /\ SessionOf(t)
    /\ run' = [run EXCEPT ![t] = [Goes(t, "snapshot") EXCEPT !.rec = current]]
    /\ UNCHANGED <<current, ids, ubidVars, sentVars, worldVars>>

Load(t) ==
    /\ run[t].pc = "load" /\ SessionOf(t)
    /\ current # None => current.subject = run[t].subject
    /\ run' = [run EXCEPT ![t] = [Goes(t, "snapshot") EXCEPT !.rec = current]]
    /\ UNCHANGED <<current, ids, ubidVars, sentVars, worldVars>>

Snapshot(t) ==
    /\ run[t].pc = "snapshot" /\ SessionOf(t)
    /\ run' = [run EXCEPT ![t] = [Goes(t, "act") EXCEPT !.snap = bound[run[t].subject]]]
    /\ UNCHANGED <<current, ids, ubidVars, sentVars, worldVars>>

\* The read-backs: where the run goes when it has read the record again.
After == [x \in {"read-created", "read-begun", "read-required", "read-persisted",
                 "read-renewed", "read-legacy"} |->
             CASE x = "read-created" -> "act"
               [] x = "read-begun" -> "sign"
               [] x = "read-required" -> "adopt"
               [] x = "read-persisted" -> "post"
               [] x = "read-renewed" -> "sign"
               [] x = "read-legacy" -> "legacy-confirm"]

ReadBack(t) ==
    /\ run[t].pc \in DOMAIN After
    /\ current # None /\ current.subject = run[t].subject
    /\ run[t].pc = "read-persisted" => current.pending = run[t].auth
    /\ run[t].pc \in {"read-created", "read-renewed"} => SessionOf(t)
    /\ run' = [run EXCEPT ![t] = [Goes(t, After[run[t].pc]) EXCEPT !.rec = current]]
    /\ UNCHANGED <<current, ids, ubidVars, sentVars, worldVars>>

\* The run is over: it has published its state, thrown, or its page is gone.
Fail(t) ==
    /\ run[t].pc # "idle"
    /\ run' = [run EXCEPT ![t] = NoRun]
    /\ UNCHANGED <<current, ids, ubidVars, sentVars, worldVars>>

\* store.create: add() refuses a record that is there.
Add(record) == current = None /\ current' = record

Create(t) ==
    LET id == ids + 1 IN
    /\ run[t].pc = "act" /\ run[t].rec = None /\ run[t].action = "register"
    /\ SessionOf(t) /\ ids < MaxBegun
    /\ ids' = id
    /\ Add([subject |-> run[t].subject, key |-> id, req |-> id,
            state |-> "pending-register", accepted |-> None, auth |-> None,
            pending |-> None, rotation |-> None, proposal |-> RegisterProposal(id, id)])
    /\ run' = [run EXCEPT ![t] = Goes(t, "read-created")]
    /\ UNCHANGED <<ubidVars, sentVars, worldVars>>

-----------------------------------------------------------------------------
\* run(), with authorizationEnabled: what the record and the snapshot call for.

Acting(t) == run[t].pc = "act" /\ run[t].on /\ run[t].rec # None

\* exactPredecessor: the binding the record knows is the active one.
Predecessor(rec, snap) == snap = [key |-> rec.key, id |-> rec.accepted]

\* Fault: the binding of a registration is compared by its key only.
ProvedByKey(rec, snap) ==
    rec.proposal.op = "register" /\ snap # None /\ snap.key = rec.key

\* Fault: a revocation is taken as accepted.
ProvedUnseen(rec, snap) == rec.proposal.op = "revoke"

\* Fault: an accepted rotation is looked for under the old key.
ProvedByOld(rec, snap) == snap = [key |-> rec.key, id |-> rec.pending]

\* reconcileRetainedAuthorization: the snapshot proves that UBID has accepted
\* the authorization the record retains.
Proved(rec, snap) ==
    \/ rec.proposal.op = "register" /\ snap = [key |-> rec.key, id |-> rec.pending]
    \/ rec.proposal.op = "rotate" /\ snap = [key |-> rec.rotation.key, id |-> rec.pending]
    \/ rec.proposal.op = "revoke" /\ snap = None

Reconcile(t) ==
    LET rec == run[t].rec IN
    /\ Acting(t) /\ rec.pending # None /\ Proved(rec, run[t].snap)
    /\ run' = [run EXCEPT ![t] = [Goes(t, "finalize") EXCEPT
                                     !.proposal = rec.proposal, !.auth = rec.pending]]
    /\ UNCHANGED <<current, ids, ubidVars, sentVars, worldVars>>

\* A proposal whose authorization is retained is submitted again, on request;
\* one that is not signed yet goes to the wallet.
Resume(t) ==
    LET rec == run[t].rec IN
    /\ Acting(t) /\ rec.proposal # None
    /\ rec.pending # None => ~Proved(rec, run[t].snap)
    /\ \/ run[t].action = "retry"
       \/ rec.pending = None /\ run[t].action = rec.proposal.op
    /\ IF rec.proposal.op = "register" THEN rec.pending # None => run[t].snap = None
                                       ELSE Predecessor(rec, run[t].snap)
    /\ run' = [run EXCEPT ![t] =
                  [Goes(t, IF rec.pending = None THEN "sign" ELSE "post") EXCEPT
                      !.proposal = rec.proposal, !.auth = rec.pending,
                      !.replay = rec.pending \in expired]]
    /\ UNCHANGED <<current, ids, ubidVars, sentVars, worldVars>>

\* exactBinding finds the active binding of a record with no operation pending.
Settled(t) ==
    LET rec == run[t].rec IN
    /\ Acting(t) /\ rec.proposal = None /\ rec.state # "revoked"
    /\ run[t].snap # None /\ run[t].snap.key = rec.key
    /\ rec.accepted \in {None, run[t].snap.id}

\* Fault: the state of the record stands for its authorization.
AuthorizedByState(rec, snap) == rec.state = "ready"

Authorized(rec, snap) ==
    /\ rec.auth # None /\ BindingOf(rec.auth) = snap.id
    /\ OpOf(rec.auth) \in {"register", "adopt", "rotate"}

\* A binding of the legacy command is not ready until it is adopted.
RequireAuthorization(t) ==
    LET rec == run[t].rec IN
    /\ Settled(t) /\ ~Authorized(rec, run[t].snap)
    /\ rec.state # "authorization-required"
    /\ Write(t, [rec EXCEPT !.accepted = run[t].snap.id, !.state = "authorization-required"],
             Goes(t, "read-required"))
    /\ UNCHANGED <<ids, ubidVars, sentVars, worldVars>>

\* The first write of an operation: its proposal, with a new request id.
Begin(t, proposal, rotation) ==
    /\ ids < MaxBegun /\ ids' = ids + 1
    /\ Write(t, [run[t].rec EXCEPT !.proposal = proposal, !.rotation = rotation,
                                   !.state = PendingState[proposal.op]],
             [Goes(t, "read-begun") EXCEPT !.proposal = proposal])
    /\ UNCHANGED <<ubidVars, sentVars, worldVars>>

NewProposal(op, key, id) == [op |-> op, key |-> key, expected |-> id, req |-> ids + 1]

BeginAdopt(t) ==
    /\ \/ run[t].pc = "adopt"
       \/ /\ Settled(t) /\ ~Authorized(run[t].rec, run[t].snap)
          /\ run[t].rec.state = "authorization-required"
    /\ run[t].action = "adopt"
    /\ Begin(t, NewProposal("adopt", None, run[t].snap.id), None)

BeginRotate(t) ==
    /\ Settled(t) /\ Authorized(run[t].rec, run[t].snap) /\ run[t].action = "rotate"
    /\ Begin(t, NewProposal("rotate", ids + 1, run[t].snap.id),
             [key |-> ids + 1, req |-> ids + 1])

BeginRevoke(t) ==
    /\ Settled(t) /\ Authorized(run[t].rec, run[t].snap) /\ run[t].action = "revoke"
    /\ Begin(t, NewProposal("revoke", None, run[t].snap.id), None)

\* publish("ready") for a record that is settled and authorized.
ShowReady(t) ==
    /\ Settled(t) /\ Authorized(run[t].rec, run[t].snap)
    /\ run[t].action \notin {"rotate", "revoke"}
    /\ run' = [run EXCEPT ![t] = NoRun]
    /\ UNCHANGED <<current, ids, ubidVars, sentVars, worldVars>>

-----------------------------------------------------------------------------
\* submitAuthorization.

\* The intent of the BFF, and the wallet's signature on it.
Sign(t) ==
    /\ run[t].pc = "sign" /\ SessionOf(t) /\ enabled
    /\ run' = [run EXCEPT ![t] = [Goes(t, "persist") EXCEPT !.signatures = @ + 1]]
    /\ UNCHANGED <<current, ids, ubidVars, sentVars, worldVars>>

\* persistPending: the signed authorization is durable before it is sent.
Persist(t) ==
    LET r == run[t]
        n == Len(signed) + 1
    IN  /\ r.pc = "persist" /\ n <= MaxSigned
        /\ signed' = Append(signed, [subject |-> r.subject, proposal |-> r.proposal])
        /\ Write(t, [r.rec EXCEPT !.pending = n, !.proposal = r.proposal,
                                  !.state = PendingState[r.proposal.op]],
                 [Goes(t, "read-persisted") EXCEPT !.auth = n])
        /\ UNCHANGED <<ids, ubidVars, posted, commands, worldVars>>

\* The request may still be on its way when the run has given up.
Post(t) ==
    /\ run[t].pc = "post" /\ SessionOf(t) /\ enabled
    /\ run[t].auth \in expired => run[t].replay
    /\ posted' = posted \cup {run[t].auth}
    /\ run' = [run EXCEPT ![t] = Goes(t, "answer")]
    /\ UNCHANGED <<current, ids, ubidVars, signed, commands, worldVars>>

\* authorizedResult: the canonical result of an accepted authorization; one
\* that has expired since is read by a replay only.
AnswerAccepted(t) ==
    /\ run[t].pc = "answer" /\ run[t].auth \in accepted
    /\ run[t].auth \in expired => run[t].replay
    /\ run' = [run EXCEPT ![t] = Goes(t, "confirm")]
    /\ UNCHANGED <<current, ids, ubidVars, sentVars, worldVars>>

\* The snapshot that follows shows what the result said.
Confirm(t) ==
    LET r == run[t]
        fresh == bound[r.subject]
    IN  /\ r.pc = "confirm" /\ SessionOf(t)
        /\ \/ r.proposal.op = "revoke" /\ fresh = None
           \/ /\ r.proposal.op = "rotate" /\ r.rec.rotation # None
              /\ fresh = [key |-> r.rec.rotation.key, id |-> BindingOf(r.auth)]
           \/ /\ r.proposal.op \in {"register", "adopt"}
              /\ fresh = [key |-> r.rec.key, id |-> BindingOf(r.auth)]
        /\ run' = [run EXCEPT ![t] = Goes(t, "finalize")]
        /\ UNCHANGED <<current, ids, ubidVars, sentVars, worldVars>>

\* finalizeReady, finalizeRevoked: the operation is over, a rotation promotes
\* its key.
Finalize(t) ==
    LET r == run[t]
        done == [r.rec EXCEPT !.auth = r.auth, !.pending = None, !.proposal = None,
                              !.rotation = None]
        ready == [done EXCEPT !.state = "ready", !.accepted = BindingOf(r.auth)]
    IN  /\ r.pc = "finalize" /\ SessionOf(t)
        /\ \/ /\ r.proposal.op = "revoke"
              /\ Write(t, [done EXCEPT !.state = "revoked"], Goes(t, "read-final"))
           \/ /\ r.proposal.op = "rotate" /\ r.rec.rotation # None
              /\ Write(t, [ready EXCEPT !.key = r.rec.rotation.key,
                                        !.req = r.rec.rotation.req], Goes(t, "read-final"))
           \/ r.proposal.op \in {"register", "adopt"} /\ Write(t, ready, Goes(t, "read-final"))
        /\ UNCHANGED <<ids, ubidVars, sentVars, worldVars>>

\* The record read back is ready for the binding: publish("ready").
ShowFinal(t) ==
    LET r == run[t] IN
    /\ r.pc = "read-final" /\ SessionOf(t)
    /\ current # None /\ current.subject = r.subject
    /\ r.proposal.op # "revoke" =>
          /\ current.state = "ready" /\ current.accepted = BindingOf(r.auth)
          /\ current.auth # None /\ BindingOf(current.auth) = current.accepted
    /\ run' = [run EXCEPT ![t] = NoRun]
    /\ UNCHANGED <<current, ids, ubidVars, sentVars, worldVars>>

\* Fault: every refusal counts as expired and unaccepted.
AnswerRefused(t) ==
    /\ run[t].pc = "answer" /\ run[t].auth \notin accepted
    /\ run' = [run EXCEPT ![t] = Goes(t, "renew-snapshot")]
    /\ UNCHANGED <<current, ids, ubidVars, sentVars, worldVars>>

\* 409, expired-unaccepted: only the answer to an expired exact replay leads
\* to a new proposal.
AnswerExpired(t) ==
    /\ run[t].pc = "answer" /\ run[t].auth \in expired \ accepted /\ run[t].replay
    /\ run' = [run EXCEPT ![t] = Goes(t, "renew-snapshot")]
    /\ UNCHANGED <<current, ids, ubidVars, sentVars, worldVars>>

RenewSnapshot(t) ==
    LET r == run[t]
        fresh == bound[r.subject]
    IN  /\ r.pc = "renew-snapshot" /\ SessionOf(t)
        /\ IF r.proposal.op = "register" THEN fresh = None ELSE Predecessor(r.rec, fresh)
        /\ run' = [run EXCEPT ![t] = Goes(t, "renew")]
        /\ UNCHANGED <<current, ids, ubidVars, sentVars, worldVars>>

\* Fault: what was signed for the new proposal may be renewed again.
RenewAgain(t) ==
    LET r == run[t]
        next == Renewal(r.rec, ids + 1)
    IN  /\ r.pc = "renew" /\ ids < MaxId
        /\ ids' = ids + 1
        /\ Write(t, next, [Goes(t, "read-renewed") EXCEPT !.proposal = next.proposal])
        /\ UNCHANGED <<ubidVars, sentVars, worldVars>>

Renew(t) ==
    LET r == run[t]
        next == Renewal(r.rec, ids + 1)
    IN  /\ r.pc = "renew" /\ ids < MaxId
        /\ ids' = ids + 1
        /\ Write(t, next, [Goes(t, "read-renewed") EXCEPT
                              !.proposal = next.proposal, !.auth = None, !.replay = FALSE])
        /\ UNCHANGED <<ubidVars, sentVars, worldVars>>

-----------------------------------------------------------------------------
\* run(), without authorizationEnabled: registration by a plain command.

LegacyActing(t) == run[t].pc = "act" /\ ~run[t].on /\ run[t].rec # None

LegacyBound(t) ==
    LET r == run[t] IN
    /\ LegacyActing(t) /\ r.snap # None /\ r.snap.key = r.rec.key
    /\ r.rec.accepted \in {None, r.snap.id}
    /\ Write(t, [r.rec EXCEPT !.pending = None, !.proposal = None, !.state = "ready",
                              !.accepted = r.snap.id], Goes(t, "read-ready"))
    /\ UNCHANGED <<ids, ubidVars, sentVars, worldVars>>

\* The BFF takes the command for the account of the cookie, and refuses it
\* once device authorization is deployed.
LegacyPost(t) ==
    LET rec == run[t].rec IN
    /\ LegacyActing(t) /\ run[t].snap = None
    /\ rec.state # "ready" /\ rec.accepted = None
    /\ session # None /\ ~enabled
    /\ commands' = commands \cup {[subject |-> session, key |-> rec.key, req |-> rec.req]}
    /\ run' = [run EXCEPT ![t] = Goes(t, "legacy-answer")]
    /\ UNCHANGED <<current, ids, ubidVars, signed, posted, worldVars>>

LegacyAnswer(t) ==
    LET rec == run[t].rec IN
    /\ run[t].pc = "legacy-answer"
    /\ \E c \in registered : c.key = rec.key /\ c.req = rec.req
    /\ Write(t, [rec EXCEPT !.accepted = Legacy], Goes(t, "read-legacy"))
    /\ UNCHANGED <<ids, ubidVars, sentVars, worldVars>>

LegacyConfirm(t) ==
    LET r == run[t] IN
    /\ r.pc = "legacy-confirm" /\ SessionOf(t)
    /\ bound[r.subject] = [key |-> r.rec.key, id |-> Legacy]
    /\ run' = [run EXCEPT ![t] = Goes(t, "legacy-ready")]
    /\ UNCHANGED <<current, ids, ubidVars, sentVars, worldVars>>

LegacyReady(t) ==
    LET r == run[t] IN
    /\ r.pc = "legacy-ready"
    /\ Write(t, [r.rec EXCEPT !.pending = None, !.proposal = None, !.state = "ready"],
             Goes(t, "read-ready"))
    /\ UNCHANGED <<ids, ubidVars, sentVars, worldVars>>

-----------------------------------------------------------------------------
\* UBID, and the world.

Used(req) == (\E n \in accepted : ReqOf(n) = req) \/ (\E c \in registered : c.req = req)

\* UBID accepts an authorization once, before it expires, while the binding it
\* names as its predecessor is the active one.
UbidAuthorize(n) ==
    LET s == signed[n].subject
        p == signed[n].proposal
    IN  /\ n \in posted \ (accepted \cup expired) /\ ~Used(p.req)
        /\ IF p.op = "register" THEN bound[s] = None
                                ELSE bound[s] # None /\ bound[s].id = p.expected
        /\ accepted' = accepted \cup {n}
        /\ bound' = [bound EXCEPT ![s] = IF p.op = "revoke" THEN None
                                         ELSE IF p.op = "adopt" THEN @
                                         ELSE [key |-> p.key, id |-> n]]
        /\ UNCHANGED <<current, run, ids, registered, sentVars, worldVars>>

UbidRegister(c) ==
    /\ c \in commands /\ ~Used(c.req) /\ bound[c.subject] = None
    /\ registered' = registered \cup {c}
    /\ bound' = [bound EXCEPT ![c.subject] = [key |-> c.key, id |-> Legacy]]
    /\ UNCHANGED <<current, run, ids, accepted, sentVars, worldVars>>

Withdraw(s) ==
    /\ Withdraws /\ bound[s] # None
    /\ bound' = [bound EXCEPT ![s] = None]
    /\ UNCHANGED <<current, run, ids, accepted, registered, sentVars, worldVars>>

Expire(n) ==
    /\ n \in DOMAIN signed \ expired /\ Cardinality(expired) < MaxExpired
    /\ expired' = expired \cup {n}
    /\ UNCHANGED <<current, run, ids, ubidVars, sentVars, session, enabled, switches>>

\* Another tab logs out, or in; the last change counted signs in.
SwitchAccount(s) ==
    /\ s # session /\ switches < MaxSwitch
    /\ switches + 1 = MaxSwitch => s # None
    /\ session' = s /\ switches' = switches + 1
    /\ UNCHANGED <<current, run, ids, ubidVars, sentVars, enabled, expired>>

\* Device authorization is deployed by restarting the BFF: UBID has taken the
\* commands it forwarded, or never will.  The restart ends the session too: a
\* run fails on it (Fail), unless the owner has signed in again.
Deploy ==
    /\ ~enabled /\ enabled' = TRUE
    /\ commands' = registered
    /\ UNCHANGED <<current, run, ids, ubidVars, signed, posted, session, expired, switches>>

-----------------------------------------------------------------------------
DeviceInit ==
    /\ current = None /\ run = [t \in Tab |-> NoRun]
    /\ session \in Subject /\ enabled = Deployed /\ switches = 0
    /\ ids = 0 /\ signed = <<>> /\ expired = {} /\ posted = {}
    /\ bound = [s \in Subject |-> None] /\ accepted = {}
    /\ commands = {} /\ registered = {}

Submit(t) ==
    \/ Sign(t) \/ Persist(t) \/ Post(t) \/ AnswerAccepted(t) \/ Confirm(t)
    \/ Finalize(t) \/ ShowFinal(t) \/ AnswerExpired(t) \/ RenewSnapshot(t) \/ Renew(t)

Decide(t) ==
    \/ Create(t) \/ Reconcile(t) \/ Resume(t) \/ RequireAuthorization(t)
    \/ BeginAdopt(t) \/ BeginRotate(t) \/ BeginRevoke(t) \/ ShowReady(t)

LegacyStep(t) ==
    LegacyBound(t) \/ LegacyPost(t) \/ LegacyAnswer(t) \/ LegacyConfirm(t) \/ LegacyReady(t)

Proceed(t) == Load(t) \/ Snapshot(t) \/ ReadBack(t) \/ Decide(t) \/ Submit(t) \/ LegacyStep(t)

Ubid ==
    \/ \E n \in DOMAIN signed : UbidAuthorize(n)
    \/ \E c \in commands : UbidRegister(c)

World ==
    \/ \E n \in DOMAIN signed : Expire(n)
    \/ \E s \in Subject : Withdraw(s)
    \/ \E s \in Maybe(Subject) : SwitchAccount(s)
    \/ Deploy

DeviceNext ==
    \/ \E t \in Tab, action \in Actions, on \in BOOLEAN : Start(t, action, on)
    \/ \E t \in Tab : Proceed(t) \/ Fail(t)
    \/ Ubid \/ World

DeviceSpec == DeviceInit /\ [][DeviceNext]_deviceVars

-----------------------------------------------------------------------------
\* The private key of every binding UBID has for this device is in the record:
\* no reload, lost answer or other tab makes UBID route to a key that is gone.
\* A binding that was signed for belongs to the account of the record.
KeyKept ==
    \A s \in Subject : bound[s] # None =>
       /\ current # None
       /\ \/ bound[s].key = current.key
          \/ current.rotation # None /\ bound[s].key = current.rotation.key
       /\ bound[s].id # Legacy => current.subject = s

\* A record that is ready names the active binding and holds its key, unless
\* UBID has ended it: nothing submitted earlier changes the binding behind the
\* record's back.
ReadyIsCurrent ==
    current # None /\ current.state = "ready" /\ bound[current.subject] # None =>
       bound[current.subject] = [key |-> current.key, id |-> current.accepted]

\* A revoked device stays revoked: no authorization or command still on its
\* way binds it again.
RevokedIsGone ==
    current # None /\ current.state = "revoked" => bound[current.subject] = None

\* An explicit action signs at most once, whatever UBID answers.
SignsOnce == \A t \in Tab : run[t].signatures <= 1

\* publish("ready") in an authorized tab.
ShowsReady(t) == ShowReady(t) \/ (ShowFinal(t) /\ run[t].proposal.op # "revoke")

\* An authorized tab shows "ready" only for a binding that an accepted
\* authorization names, also when a legacy tab has written the record.
ReadyIsAuthorized ==
    [][\A t \in Tab : ShowsReady(t) =>
          \E n \in accepted : /\ OpOf(n) # "revoke"
                              /\ BindingOf(n) = current.accepted]_deviceVars

\* The record keeps an authorization that UBID may still accept until UBID's
\* answer or a snapshot has settled the operation.
RetryKept ==
    [][current # None /\ current.pending # None /\ current'.pending # current.pending =>
          \/ current.pending \in expired
          \/ current'.state \in {"ready", "revoked"}]_deviceVars

\* The fairness under which an operation settles: every run goes on or ends,
\* because its requests and the prompt of the wallet have timeouts; the owner
\* asks for a retry again and again; UBID decides what it has received; and a
\* time comes when no page is closed, no answer is lost and no prompt refused
\* in a run that could go on.
DeviceFairness ==
    /\ \A t \in Tab : /\ WF_deviceVars(Proceed(t) \/ Fail(t))
                      /\ SF_deviceVars(Start(t, "retry", TRUE))
                      /\ <>[][Fail(t) => ~ENABLED Proceed(t)]_deviceVars
    /\ WF_deviceVars(Ubid)

LiveDeviceSpec == DeviceSpec /\ DeviceFairness

\* What keeps an operation pending for good: another account is signed in, or
\* UBID has ended the binding the operation is about.
OwnerIsAway == session # current.subject
BindingIsGone ==
    /\ bound[current.subject] = None
    /\ current.proposal.op # "register" \/ current.pending \in accepted

\* An operation that is pending settles, whatever answers, prompts and pages
\* are lost on the way: the record never waits for an answer UBID will not
\* give again, and an expired authorization is replaced.
Settles ==
    (current # None /\ current.proposal # None) ~>
       (current # None /\ (current.proposal = None \/ OwnerIsAway \/ BindingIsGone))

=============================================================================
