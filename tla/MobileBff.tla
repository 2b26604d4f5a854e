----------------------------- MODULE MobileBff -----------------------------
(***************************************************************************)
(* createMobileBffRoutes of src/src/server/social-mobile-bff-v1.mjs, with  *)
(* the login, callback and logout of the OAuth BFF that its oauthGuard     *)
(* fences, over the mobile session manager: browser contexts, the commands *)
(* serialised on a context, issuance and its orphan credential, logout.    *)
(*                                                                         *)
(* A request p (of Proc) makes the manager call job[p]; req[p] is where    *)
(* its handler stands.  A continuation that runs in the microtasks after   *)
(* a manager call is one step with the end of that call, except after      *)
(* read(), whose result nothing can change.  A context id is 32 random     *)
(* bytes: never drawn twice, so ctx[c] is also what the closure of a       *)
(* request still sees when c has been swept or replaced.                   *)
(*                                                                         *)
(* A phone authorization (`c.phone') obtains one UBID issuance, however    *)
(* often issue and recover are called, so it is named by that issuance.    *)
(***************************************************************************)
EXTENDS MobileSession

CONSTANTS
    Context,         \* context ids that can be drawn
    NoContext,       \* no context cookie
    ContextCapacity, \* `capacity' of the contexts
    ContextLife,     \* life of a context: 600 s
    TxCapacity,      \* capacity of the pending OAuth transactions
    TxLife           \* their life

ASSUME BffAssumption ==
    /\ IsFiniteSet(Context) /\ NoContext \notin Context
    /\ Context \subseteq LockKey /\ Context \cap (Issuance \cup Id) = {}
    /\ ContextCapacity \in Nat \ {0} /\ ContextLife \in Nat \ {0}
    /\ TxCapacity \in Nat \ {0} /\ TxLife \in Nat \ {0}

\* A context: the value in the Map, and `tx', the deadline of the pending
\* OAuth transaction whose fence it is (0: none, or consumed).  `known': the
\* revision of the phone authorization; `live': the orphan is an active
\* credential and not the record of a revoked or expired one.
ContextRecord ==
    [session : Id \cup {NoId}, alias : Id \cup {NoId}, logoutId : Id \cup {NoId},
     until : Nat, denied : BOOLEAN, complete : BOOLEAN, offer : BOOLEAN,
     issuing : BOOLEAN, started : BOOLEAN, phone : Issuance \cup {NoIssuance},
     known : BOOLEAN, orphan : Issuance \cup {NoIssuance}, live : BOOLEAN,
     cancelled : BOOLEAN, tx : Nat]

NewContextRecord(session, until) ==
    [session |-> session, alias |-> NoId, logoutId |-> NoId, until |-> until,
     denied |-> FALSE, complete |-> FALSE, offer |-> FALSE, issuing |-> FALSE,
     started |-> FALSE, phone |-> NoIssuance, known |-> FALSE,
     orphan |-> NoIssuance, live |-> FALSE, cancelled |-> FALSE, tx |-> 0]

Undrawn == NewContextRecord(NoId, 0)

\* Commands serialised on the context.  "desktop" stands for the legacy and
\* QR commands of an approving desktop, "status" for phone/status and
\* phone/exchange, "bind" for qr/scan and phone/recover, "issue" for
\* session/issue and session/recover.
Commands == {"desktop", "offer", "bind", "status", "issue"}

\* `sent' is the session cookie of the request; `iss' the credential of a
\* cancelUninstalled; `ok' and `active' the answer to an upstream call.
Request ==
    [op : Commands \cup {"none", "logout", "callback"}, ctx : Context \cup {NoContext},
     sent : Id \cup {NoId}, iss : Issuance \cup {NoIssuance},
     at : {"queued", "reading", "checking", "upstream", "issuing", "issued",
           "installing", "cancelling", "cancelled", "revoking", "done"},
     ok : BOOLEAN, active : BOOLEAN,
     reply : {"none", "ok", "authenticated", "session", "pending", "confirmed",
              "local-only", "unavailable"}]
NoRequest == [op |-> "none", ctx |-> NoContext, sent |-> NoId, iss |-> NoIssuance,
              at |-> "done", ok |-> FALSE, active |-> FALSE, reply |-> "none"]

VARIABLES
    contexts,  \* keys of `contexts'
    ctx,       \* context id |-> its value
    req        \* request |-> where its handler stands

contextVars == <<contexts, ctx>>
bffVars == <<mobileVars, contexts, ctx, req>>

BffTypeOK ==
    /\ MobileTypeOK
    /\ contexts \subseteq Context
    /\ ctx \in [Context -> ContextRecord]
    /\ req \in [Proc -> Request]

BffInit ==
    /\ MobileInit
    /\ contexts = {}
    /\ ctx = [c \in Context |-> Undrawn]
    /\ req = [p \in Proc |-> NoRequest]

-----------------------------------------------------------------------------
\* The contexts left by sweep(), with which every request begins.
Live == {c \in contexts : ctx[c].until > clock}

\* context(): the session cookie is that of the context, or its alias.
Fits(c, s) == c \in Live /\ s \in {ctx[c].session, ctx[c].alias}

StillCurrent(c) == c \in Live /\ ~ctx[c].denied

Amend(c, r)  == ctx' = [ctx EXCEPT ![c] = r]
Free(p)      == req[p].at = "done"
Begin(p, op, c, s, at) ==
    req' = [req EXCEPT ![p] = [NoRequest EXCEPT !.op = op, !.ctx = c, !.sent = s, !.at = at]]
Go(p, at)    == req' = [req EXCEPT ![p] = [@ EXCEPT !.at = at]]
\* The request is answered; of it only what the answer was to is remembered.
Reply(p, r)  == req' = [req EXCEPT ![p] =
                          [NoRequest EXCEPT !.op = req[p].op, !.ctx = req[p].ctx, !.reply = r]]
At(p, op, at) == req[p].op = op /\ req[p].at = at

\* The end of fn in serial(`context:${id}`, fn), with no manager call ending.
Leave(p) ==
    /\ Release(req[p].ctx)
    /\ UNCHANGED <<storeVars, cancellations, aliases, job, ubidVars>>
Fail(p) == Reply(p, "unavailable") /\ Leave(p)

-----------------------------------------------------------------------------
(* POST /context                                                           *)

\* Fault: only a retained session keeps a context from being replaced.
OwnedBySession(c) ==
    \E id \in {ctx[c].session, ctx[c].alias, ctx[c].logoutId} \ {NoId} : Retained(id)

\* What a login action may not replace.
Owned(c) ==
    /\ ~ctx[c].complete
    /\ \/ ctx[c].denied \/ ctx[c].phone # NoIssuance \/ ctx[c].offer
       \/ ctx[c].issuing \/ ctx[c].orphan # NoIssuance
       \/ \E id \in {ctx[c].session, ctx[c].alias, ctx[c].logoutId} \ {NoId} : Retained(id)

\* A request with context cookie `prior' and session cookie s draws context c,
\* unless an existing context answers for it.  A login replaces `prior'.
NewContext(c, purpose, prior, s) ==
    LET session  == IF s # NoId /\ Retained(s) THEN s ELSE NoId
        replaced == IF purpose = "login" THEN Live \cap {prior} ELSE {}
    IN
    /\ ctx[c] = Undrawn
    /\ s # NoId => Used(s)
    /\ purpose # "login" => ~(Fits(prior, s) /\ (purpose = "logout" \/ ~ctx[prior].denied))
    /\ purpose = "login" => session = NoId /\ \A d \in replaced : ~Owned(d)
    /\ Cardinality(Live \ replaced) < ContextCapacity
    /\ contexts' = (Live \ replaced) \cup {c}
    /\ Amend(c, NewContextRecord(session, clock + ContextLife))
    /\ slots' \in {slots, Swept}
    /\ UNCHANGED <<clock, record, logout, managerVars, ubidVars, req>>

\* A request that finds its context, or is refused, only sweeps.
SweepContexts ==
    /\ contexts' = Live
    /\ UNCHANGED <<mobileVars, ctx, req>>

-----------------------------------------------------------------------------
(* OAuth login and callback, behind oauthGuard.                            *)

PendingTx == {c \in Context : ctx[c].tx > clock}

\* GET /auth/login: begin() marks the context before the pending transaction
\* is created, and a full store leaves the mark.
Login(c) ==
    /\ Fits(c, NoId) /\ ~ctx[c].denied
    /\ ctx[c].phone = NoIssuance /\ ~ctx[c].started
    /\ contexts' = Live
    /\ Amend(c, [ctx[c] EXCEPT !.started = TRUE,
                               !.tx = IF Cardinality(PendingTx) < TxCapacity
                                      THEN clock + TxLife ELSE 0])
    /\ UNCHANGED <<mobileVars, req>>

\* Fault: the callback reads the transaction without consuming it.
StartCallbackReplayable(p, c) ==
    /\ Free(p) /\ c \in PendingTx
    /\ Begin(p, "callback", c, NoId, "upstream")
    /\ UNCHANGED <<mobileVars, contextVars>>

\* The callback consumes the transaction once, then awaits authenticate().
StartCallback(p, c) ==
    /\ Free(p) /\ c \in PendingTx
    /\ Amend(c, [ctx[c] EXCEPT !.tx = 0])
    /\ Begin(p, "callback", c, NoId, "upstream")
    /\ UNCHANGED <<mobileVars, contexts>>

\* valid(): the fenced context is the request's own, still carries no session
\* and has not been denied, replaced, expired or taken by a phone.
FenceValid(c) == Fits(c, NoId) /\ ~ctx[c].denied /\ ctx[c].phone = NoIssuance

EndCallback(p) ==
    /\ At(p, "callback", "upstream")
    /\ \/ /\ FenceValid(req[p].ctx)
          /\ \E id \in Id : OAuthCreate(id)
          /\ Reply(p, "session")
          /\ contexts' = Live
       \/ /\ Reply(p, "unavailable")
          /\ contexts' \in {contexts, Live}
          /\ UNCHANGED mobileVars
    /\ UNCHANGED ctx

-----------------------------------------------------------------------------
(* The commands, one at a time on a context.                               *)

StartCommand(p, op, c, s) ==
    /\ Free(p) /\ Fits(c, s) /\ ~ctx[c].denied /\ ~LockFull(c)
    /\ contexts' = Live
    /\ Acquire(p, c)
    /\ Begin(p, op, c, s, "queued")
    /\ UNCHANGED <<storeVars, cancellations, aliases, job, ubidVars, ctx>>

Entered(p) == req[p].at = "queued" /\ Holds(p, req[p].ctx)

\* A phone command needs a context that belongs to no OAuth session.
ForPhone(p) == ctx[req[p].ctx].session = NoId

\* fn begins: the context may have been logged out or replaced in the queue.
EnterRefused(p) ==
    /\ Entered(p)
    /\ \/ ~StillCurrent(req[p].ctx)
       \/ req[p].op = "desktop" /\ req[p].sent = NoId
       \/ req[p].op # "desktop" /\ ~ForPhone(p)
    /\ Fail(p)
    /\ UNCHANGED contextVars

EnterDesktop(p) ==
    /\ Entered(p) /\ req[p].op = "desktop" /\ StillCurrent(req[p].ctx)
    /\ req[p].sent # NoId
    /\ StartRead(p, req[p].sent)
    /\ Go(p, "reading")
    /\ UNCHANGED contextVars

EnterPhone(p) ==
    /\ Entered(p) /\ req[p].op # "desktop" /\ StillCurrent(req[p].ctx) /\ ForPhone(p)
    /\ Go(p, IF req[p].op = "offer" THEN "upstream" ELSE "checking")
    /\ UNCHANGED <<mobileVars, contextVars>>

\* read() has answered: only a desktop session approves.
DesktopRead(p) ==
    /\ At(p, "desktop", "reading") /\ Idle(p)
    /\ \/ /\ job[p].reply = "authenticated" /\ ~Mobile(req[p].sent)
          /\ Go(p, "upstream")
          /\ UNCHANGED mobileVars
       \/ /\ job[p].reply # "authenticated" \/ Mobile(req[p].sent)
          /\ Fail(p)
    /\ UNCHANGED contextVars

\* Only the first phone authorization is bound; the same one may be repeated.
Bindable(c, i) == ctx[c].phone \in {NoIssuance, i}

\* bindPhone(): the source, the QR and the possession proof have been
\* verified.  The context ends when the pairing window (plus its retention)
\* does.
BindPhone(p, i) ==
    LET c == req[p].ctx IN
    /\ At(p, "bind", "checking") /\ Bindable(c, i)
    /\ \E end \in 0 .. ctx[c].until :
          Amend(c, [ctx[c] EXCEPT !.phone = i, !.until = end])
    /\ Go(p, "upstream")
    /\ UNCHANGED <<mobileVars, contexts>>

\* The digests or proofs of a phone command do not verify.
CheckFailed(p) ==
    /\ req[p].at = "checking"
    /\ Fail(p)
    /\ UNCHANGED contextVars

\* proofs() verified; issue also exchanges at UBID here, recover does not.
\* What is awaited changes nothing, so only its end is a step.
Proven(p) == ctx[req[p].ctx].phone # NoIssuance /\ ctx[req[p].ctx].known

ProveStatus(p) ==
    /\ At(p, "status", "checking") /\ Proven(p)
    /\ Go(p, "upstream")
    /\ UNCHANGED <<mobileVars, contextVars>>

\* The answer to a command other than issue: its record is kept even when the
\* context is no longer current and the request is refused.
EndCommand(p) ==
    LET c == req[p].ctx IN
    /\ req[p].op \in Commands /\ req[p].at = "upstream"
    /\ \/ /\ req[p].op = "offer" /\ ctx[c].phone = NoIssuance
          /\ Amend(c, [ctx[c] EXCEPT !.offer = TRUE])
       \/ /\ req[p].op = "bind"
          /\ Amend(c, [ctx[c] EXCEPT !.known = TRUE])
       \/ req[p].op \in {"desktop", "status"} /\ UNCHANGED ctx
    /\ Reply(p, IF StillCurrent(c) THEN "ok" ELSE "unavailable")
    /\ Leave(p)
    /\ UNCHANGED contexts

\* The call fails, or its answer contradicts the offer or the phone.
CommandFailed(p) ==
    /\ req[p].op \in Commands /\ req[p].at = "upstream"
    /\ Fail(p)
    /\ UNCHANGED contextVars

-----------------------------------------------------------------------------
(* session/issue and session/recover.                                      *)

\* `issuing' is raised when the proofs have verified, without another look at
\* the context.
StartIssuing(p) ==
    LET c == req[p].ctx IN
    /\ At(p, "issue", "checking") /\ Proven(p)
    /\ Amend(c, [ctx[c] EXCEPT !.issuing = TRUE])
    /\ Go(p, "issuing")
    /\ UNCHANGED <<mobileVars, contexts>>

\* UBID commits the issuance, or answers with the one it has committed.
ServeIssue(p) ==
    LET i == ctx[req[p].ctx].phone IN
    /\ At(p, "issue", "issuing")
    /\ \/ UbidIssue(i)
       \/ receipt[i] # NoReceipt /\ UNCHANGED mobileVars
    /\ req' = [req EXCEPT ![p] = [@ EXCEPT !.at = "issued", !.ok = TRUE,
                                           !.active = receipt[i] = NoReceipt \/ Active(i)]]
    /\ UNCHANGED contextVars

\* The answer is lost, before or after UBID committed.
DropIssue(p) ==
    /\ At(p, "issue", "issuing") \/ At(p, "issue", "issued")
    /\ req' = [req EXCEPT ![p] = [@ EXCEPT !.at = "issued", !.ok = FALSE]]
    /\ UNCHANGED <<mobileVars, contextVars>>

\* Fault: a failed issuance leaves its queue.
IssueLostKeepingLock(p) ==
    LET c == req[p].ctx IN
    /\ At(p, "issue", "issued") /\ ~req[p].ok
    /\ Amend(c, [ctx[c] EXCEPT !.issuing = FALSE])
    /\ Reply(p, "unavailable")
    /\ UNCHANGED <<mobileVars, contexts>>

IssueLost(p) ==
    LET c == req[p].ctx IN
    /\ At(p, "issue", "issued") /\ ~req[p].ok
    /\ Amend(c, [ctx[c] EXCEPT !.issuing = FALSE])
    /\ Fail(p)
    /\ UNCHANGED contexts

\* The context takes the credential of the answer before anything can fail.
WithOrphan(c, p) ==
    [ctx[c] EXCEPT !.orphan = ctx[c].phone, !.live = req[p].active]

\* install() is entered: the context is still current and the locks have room.
IssueInstall(p) ==
    LET c == req[p].ctx IN
    /\ At(p, "issue", "issued") /\ req[p].ok /\ req[p].active
    /\ StillCurrent(c) /\ ~LockFull(ctx[c].phone)
    /\ Amend(c, WithOrphan(c, p))
    /\ StartInstall(p, ctx[c].phone)
    /\ Go(p, "installing")
    /\ UNCHANGED contexts

\* install() throws at once: an inactive credential, one that outlives the
\* phone authorization, or no room among the locks; or the context is no
\* longer current and cancelUninstalled() throws for an inactive credential.
IssueRefused(p) ==
    LET c == req[p].ctx IN
    /\ At(p, "issue", "issued") /\ req[p].ok
    /\ StillCurrent(c) \/ ~req[p].active
    /\ Amend(c, [WithOrphan(c, p) EXCEPT !.issuing = FALSE])
    /\ Fail(p)
    /\ UNCHANGED contexts

\* The logout overtook the answer: the late credential is cancelled.
IssueLate(p) ==
    LET c == req[p].ctx IN
    /\ At(p, "issue", "issued") /\ req[p].ok /\ req[p].active
    /\ ~StillCurrent(c)
    /\ Amend(c, WithOrphan(c, p))
    /\ req' = [req EXCEPT ![p] = [@ EXCEPT !.at = "cancelling", !.iss = ctx[c].phone]]
    /\ UNCHANGED <<mobileVars, contexts>>

EndLateCancel(p) ==
    LET c == req[p].ctx IN
    /\ At(p, "issue", "cancelled")
    /\ Amend(c, IF req[p].ok
                THEN [ctx[c] EXCEPT !.orphan = NoIssuance, !.cancelled = TRUE, !.issuing = FALSE]
                ELSE [ctx[c] EXCEPT !.issuing = FALSE])
    /\ Fail(p)
    /\ UNCHANGED contexts

\* Fault: the manager is told that the context is still current.
InstallDoneUnfenced(p) ==
    LET c == req[p].ctx IN
    /\ At(p, "issue", "installing")
    /\ InstallEnded(p, TRUE)
    /\ locks' = [locks EXCEPT ![c] = Tail(@), ![job[p].iss] = Tail(@)]
    /\ \/ /\ job'[p].reply = "installed"
          /\ Amend(c, [ctx[c] EXCEPT !.orphan = NoIssuance, !.issuing = FALSE,
                                     !.alias = job'[p].id])
          /\ Reply(p, "authenticated")
       \/ /\ job'[p].reply # "installed"
          /\ Amend(c, [ctx[c] EXCEPT !.issuing = FALSE])
          /\ Reply(p, "unavailable")
    /\ UNCHANGED contexts

\* install() ends, having asked the context again after its own await; a
\* refused credential stays the orphan of the context.
InstallDone(p) ==
    LET c == req[p].ctx IN
    /\ At(p, "issue", "installing")
    /\ InstallEnded(p, StillCurrent(c))
    /\ locks' = [locks EXCEPT ![c] = Tail(@), ![job[p].iss] = Tail(@)]
    /\ \/ /\ job'[p].reply = "installed"
          /\ Amend(c, [ctx[c] EXCEPT !.orphan = NoIssuance, !.issuing = FALSE,
                                     !.alias = job'[p].id])
          /\ Reply(p, "authenticated")
       \/ /\ job'[p].reply # "installed"
          /\ Amend(c, [ctx[c] EXCEPT !.issuing = FALSE])
          /\ Reply(p, "unavailable")
    /\ UNCHANGED contexts

-----------------------------------------------------------------------------
(* POST /auth/logout, which does not wait for the context's queue.         *)

LogoutRequest(c, i, at, reply) ==
    [NoRequest EXCEPT !.op = "logout", !.ctx = c, !.iss = i, !.at = at, !.reply = reply]
PutLogout(p, c, i, at, reply) == req' = [req EXCEPT ![p] = LogoutRequest(c, i, at, reply)]

\* What is left when context c, now r, holds no orphan: nothing, or the session.
LogoutSession(p, c, r) ==
    \/ /\ r.logoutId = NoId
       /\ Amend(c, [r EXCEPT !.complete = TRUE])
       /\ PutLogout(p, c, NoIssuance, "done", IF r.cancelled THEN "confirmed" ELSE "local-only")
       /\ UNCHANGED mobileVars
    \/ /\ r.logoutId # NoId
       /\ StartLogout(p, r.logoutId)
       /\ Amend(c, r)
       /\ IF job'[p].at = "done"
          THEN PutLogout(p, c, NoIssuance, "done", "pending")
          ELSE PutLogout(p, c, NoIssuance, "revoking", "none")

\* The context is denied first.  An issuance in flight, or an orphan that
\* cannot be cancelled, leaves the logout pending.
StartContextLogout(p, c, s) ==
    LET r == [ctx[c] EXCEPT !.denied = TRUE,
                            !.logoutId = IF @ # NoId THEN @
                                         ELSE IF s # NoId THEN s ELSE ctx[c].alias]
    IN
    /\ Free(p) /\ Idle(p) /\ Fits(c, s)
    /\ contexts' = Live
    /\ \/ /\ r.issuing \/ (r.orphan # NoIssuance /\ ~r.live)
          /\ Amend(c, r)
          /\ PutLogout(p, c, NoIssuance, "done", "pending")
          /\ UNCHANGED mobileVars
       \/ /\ ~r.issuing /\ r.orphan # NoIssuance /\ r.live
          /\ Amend(c, r)
          /\ PutLogout(p, c, r.orphan, "cancelling", "none")
          /\ UNCHANGED mobileVars
       \/ /\ ~r.issuing /\ r.orphan = NoIssuance
          /\ LogoutSession(p, c, r)

\* cancelUninstalled(): UBID revokes the exact credential, or does not answer.
ServeCancel(p) ==
    /\ req[p].at = "cancelling"
    /\ revoked' = revoked \cup {req[p].iss}
    /\ req' = [req EXCEPT ![p] = [@ EXCEPT !.at = "cancelled", !.ok = TRUE]]
    /\ UNCHANGED <<storeVars, managerVars, receipt, contextVars>>

DropCancel(p) ==
    /\ req[p].at \in {"cancelling", "cancelled"}
    /\ req' = [req EXCEPT ![p] = [@ EXCEPT !.at = "cancelled", !.ok = FALSE]]
    /\ UNCHANGED <<mobileVars, contextVars>>

\* Fault: the acknowledgement of the orphan's cancellation is not looked at.
EndLogoutCancelUnchecked(p) ==
    LET c == req[p].ctx IN
    /\ At(p, "logout", "cancelled")
    /\ LogoutSession(p, c, [ctx[c] EXCEPT !.orphan = NoIssuance, !.cancelled = TRUE])
    /\ UNCHANGED contexts

EndLogoutCancel(p) ==
    LET c == req[p].ctx IN
    /\ At(p, "logout", "cancelled")
    /\ \/ /\ req[p].ok
          /\ LogoutSession(p, c, [ctx[c] EXCEPT !.orphan = NoIssuance, !.cancelled = TRUE])
       \/ /\ ~req[p].ok
          /\ PutLogout(p, c, NoIssuance, "done", "pending")
          /\ UNCHANGED <<mobileVars, ctx>>
    /\ UNCHANGED contexts

\* The manager's logout goes on: its answer is the answer of the request.
LogoutStep(p) ==
    LET c == req[p].ctx IN
    /\ At(p, "logout", "revoking")
    /\ BeginLogoutCall(p) \/ EndLogout(p)
    /\ \/ /\ job'[p].at # "done"
          /\ UNCHANGED <<req, ctx>>
       \/ /\ job'[p].at = "done" /\ job'[p].reply = "confirmed"
          /\ Amend(c, [ctx[c] EXCEPT !.complete = TRUE])
          /\ Reply(p, "confirmed")
       \/ /\ job'[p].at = "done" /\ job'[p].reply # "confirmed"
          /\ Reply(p, "pending")
          /\ UNCHANGED ctx
    /\ UNCHANGED contexts

-----------------------------------------------------------------------------
\* A step of the manager that ends no handler.
ManagerStep(p) ==
    /\ EndRead(p) \/ BeginInstall(p)
    /\ UNCHANGED <<contextVars, req>>

\* UBID or the network moves for the manager.
UpstreamStep(p) ==
    /\ Serve(p) \/ Drop(p)
    /\ UNCHANGED <<contextVars, req>>

BffTick == MobileTick /\ UNCHANGED <<contextVars, req>>
BffRevoke(i) == UbidRevoke(i) /\ UNCHANGED <<contextVars, req>>

\* The steps of the handler of p once its request is accepted.
BffStep(p) ==
    \/ EnterRefused(p) \/ EnterDesktop(p) \/ EnterPhone(p) \/ DesktopRead(p)
    \/ \E i \in Issuance : BindPhone(p, i)
    \/ CheckFailed(p) \/ ProveStatus(p) \/ EndCommand(p) \/ CommandFailed(p)
    \/ EndCallback(p)
    \/ StartIssuing(p) \/ IssueLost(p) \/ IssueInstall(p) \/ IssueRefused(p)
    \/ IssueLate(p) \/ EndLateCancel(p) \/ InstallDone(p)
    \/ EndLogoutCancel(p) \/ LogoutStep(p) \/ ManagerStep(p)

BffUpstream(p) ==
    \/ ServeIssue(p) \/ DropIssue(p) \/ ServeCancel(p) \/ DropCancel(p)
    \/ UpstreamStep(p)

BffNext ==
    \/ \E c \in Context, purpose \in {"none", "login", "logout"},
          prior \in Context \cup {NoContext}, s \in Id \cup {NoId} :
          NewContext(c, purpose, prior, s)
    \/ SweepContexts
    \/ \E c \in Context : Login(c)
    \/ \E p \in Proc, c \in Context : StartCallback(p, c)
    \/ \E p \in Proc, c \in Context, s \in Id \cup {NoId} :
          \/ StartContextLogout(p, c, s)
          \/ \E op \in Commands : StartCommand(p, op, c, s)
    \/ \E p \in Proc : BffStep(p) \/ BffUpstream(p)
    \/ \E i \in Issuance : BffRevoke(i)
    \/ BffTick

BffSpec == BffInit /\ [][BffNext]_bffVars

\* Node runs every ready continuation, and every upstream call settles at its
\* deadline, answered or not.
BffFairness == \A p \in Proc : WF_bffVars(BffStep(p)) /\ WF_bffVars(BffUpstream(p))

-----------------------------------------------------------------------------
(* Properties.                                                             *)

\* "The callback fence denies installation after context cancellation", and
\* the same for issuance: once a context has been denied by a logout, replaced
\* by a login or has expired, nothing that was in flight - an OAuth callback,
\* an issue waiting for UBID, an install waiting for its resolve - gives it a
\* session.
LogoutFences ==
    [][\A p \in Proc :
          /\ req[p].at # "done" /\ req'[p].reply \in {"authenticated", "session"}
          /\ req[p].op \in {"issue", "callback"}
          => StillCurrent(req[p].ctx)]_bffVars

\* A login gives at most one session, however often its callback is called.
OneSessionPerLogin ==
    \A p, q \in Proc :
        /\ req[p].op = "callback" /\ req[p].reply = "session"
        /\ req[q].op = "callback" /\ req[q].reply = "session"
        => p = q \/ req[p].ctx # req[q].ctx

\* "confirmed" is said of a logout only if everything the phone authorization
\* of the context has obtained, installed, orphaned or never delivered, is
\* revoked at UBID.
ConfirmedMeansRevoked ==
    \A p \in Proc :
        LET i == ctx[req[p].ctx].phone IN
        /\ req[p].op = "logout" /\ req[p].reply = "confirmed"
        /\ i # NoIssuance /\ receipt[i] # NoReceipt
        => i \in revoked

\* A credential that UBID issued and that is neither installed nor cancelled
\* stays in the memory of its context until the deadline of the context, unless
\* the logout of the context has been reported complete: a login in the same
\* browser cannot take the place of the context.
OrphanOwned ==
    \A c \in Context :
        ctx[c].orphan # NoIssuance /\ ctx[c].until > clock /\ ~ctx[c].complete
        => c \in contexts

\* Every accepted request is answered, whatever is queued before it on its
\* context, its issuance and its session.
RequestAnswered == \A p \in Proc : (req[p].at # "done") ~> (req[p].at = "done")

\* The comment above the replacement test: "Pairing, active sessions and
\* pending logout keep their original ownership and cannot be reset by this
\* action"; and docs/SOCIAL_MOBILE_CONSUMER_PHASE2B.md: "the original returned
\* credential remains in bounded transaction memory for
\* reconciliation/cancellation".  A credential that is active at UBID, and
\* that no request is installing or cancelling any more, is not forgotten
\* before the deadline of its context.
OrphanKept ==
    \A c \in Context :
        /\ ctx[c].orphan # NoIssuance /\ Active(ctx[c].orphan)
        /\ ctx[c].until > clock /\ ~ctx[c].issuing
        => c \in contexts

=============================================================================
