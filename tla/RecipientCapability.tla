------------------------ MODULE RecipientCapability ------------------------
(***************************************************************************)
(* The opaque recipient capabilities of src/src/server:                    *)
(* createOpaqueRecipientCapabilityStore, and the trusted issuer and        *)
(* resolver of opaque-recipient-capability-issuer.mjs and -resolver.mjs    *)
(* over the session store, the authority reader and the Full Directory;    *)
(* and the routes of social-oauth-bff.mjs that use them, or that ask UBID  *)
(* after the same checks: the authority, the directory, the package of a   *)
(* recipient and the devices of the viewer.                                *)
(*                                                                         *)
(* issue() and resolve() read the clock once, when they are called, then   *)
(* await the session, the authority and the directory in this order; the   *)
(* capability store is called in the continuation of the last of them,     *)
(* with that first reading of the clock.  A capability is 32 random bytes  *)
(* and is never drawn twice.  Time is counted in whole seconds.            *)
(***************************************************************************)
EXTENDS SessionStore

CONSTANTS
    Proc,        \* concurrent requests
    Subject,     \* canonical viewers
    NoSubject,
    Alias,       \* viewer-private aliases
    NoAlias,
    Cap,         \* capabilities that can be drawn
    NoCap,
    NoId,        \* the session of a request not yet made
    CapTtl,      \* `ttlMs', 60 s by default
    CapCapacity, PerSession, PerSubject \* the three nested capacities

ASSUME CapabilityAssumption ==
    /\ Desktop \in Kinds
    /\ IsFiniteSet(Cap) /\ NoCap \notin Cap
    /\ NoSubject \notin Subject /\ NoAlias \notin Alias /\ NoId \notin Id
    /\ CapTtl \in Nat \ {0}
    /\ CapCapacity \in Nat \ {0}
    /\ PerSession \in 1 .. PerSubject /\ PerSubject \in 1 .. CapCapacity

NoCapability == [session |-> NoId, alias |-> NoAlias, expiresAt |-> 0]
Capability == [session : Id, alias : Alias, expiresAt : Nat]

\* A request: what it was called with, the clock it read, the directory that
\* was answered.  `seen' is history: which of a live session, Full authority
\* and a listed alias existed at some moment since the call.
Facts == {"session", "full", "listed"}
CapRequest ==
    [op : {"none", "issue", "resolve", "authority", "directory", "device"}, session : Id \cup {NoId},
     alias : Alias \cup {NoAlias}, cap : Cap \cup {NoCap}, now : Nat,
     at : {"session", "authority", "directory", "answered", "upstream", "done"},
     listed : SUBSET Alias, seen : SUBSET Facts,
     reply : {"none", "issued", "packaged", "full", "listed", "served", "unavailable"}]
NoCapRequest ==
    [op |-> "none", session |-> NoId, alias |-> NoAlias, cap |-> NoCap, now |-> 0,
     at |-> "done", listed |-> {}, seen |-> {}, reply |-> "none"]

VARIABLES
    subject,   \* session id |-> the subject of its record
    held,      \* keys of `records'
    issued,    \* capability |-> the record it was issued with
    full,      \* UBID: subjects with current Full authority
    directory, \* UBID: aliases of the accepted directory
    req        \* request |-> where it stands

ubidVars == <<full, directory>>
capVars  == <<clock, record, slots, logout, subject, held, issued, full, directory, req>>

CapTypeOK ==
    /\ StoreTypeOK
    /\ subject \in [Id -> Subject \cup {NoSubject}]
    /\ held \subseteq Cap
    /\ issued \in [Cap -> Capability \cup {NoCapability}]
    /\ full \subseteq Subject
    /\ directory \subseteq Alias
    /\ req \in [Proc -> CapRequest]

CapInit ==
    /\ StoreInit
    /\ subject = [id \in Id |-> NoSubject]
    /\ held = {}
    /\ issued = [k \in Cap |-> NoCapability]
    /\ full \in SUBSET Subject
    /\ directory \in SUBSET Alias
    /\ req = [p \in Proc |-> NoCapRequest]

-----------------------------------------------------------------------------
(* Sessions and UBID.                                                      *)

\* The facts of request r while `granted' have Full and `members' are listed.
FactsOf(r, granted, members) ==
    {f \in Facts :
        \/ f = "session" /\ Authentic(r.session)
        \/ f = "full" /\ subject[r.session] \in granted
        \/ f = "listed" /\ r.alias \in members}

\* The history of every running request when UBID moves.
Witness(granted, members) ==
    req' = [p \in Proc |->
              IF req[p].at = "done" THEN req[p]
              ELSE [req[p] EXCEPT !.seen = @ \cup FactsOf(req[p], granted, members)]]

\* The OAuth callback creates the session of a subject.
SignIn(id, u) ==
    /\ Create(id, [kind |-> Desktop, issuance |-> NoIssuance,
                   issuedAt |-> clock, expiresAt |-> clock + SessionTtl])
    /\ subject' = [subject EXCEPT ![id] = u]
    /\ UNCHANGED <<held, issued, ubidVars, req>>

\* POST /auth/logout deletes the session.
SignOut(id) == Delete(id) /\ UNCHANGED <<subject, held, issued, ubidVars, req>>

\* UBID grants or withdraws Full; a participant joins or leaves.
AuthorityChanges(u) ==
    LET granted == IF u \in full THEN full \ {u} ELSE full \cup {u} IN
    /\ full' = granted
    /\ Witness(granted, directory)
    /\ UNCHANGED <<storeVars, subject, held, issued, directory>>

DirectoryChanges(a) ==
    LET members == IF a \in directory THEN directory \ {a} ELSE directory \cup {a} IN
    /\ directory' = members
    /\ Witness(full, members)
    /\ UNCHANGED <<storeVars, subject, held, issued, full>>

-----------------------------------------------------------------------------
(* The capability store.                                                   *)

\* sweep(now)
Held(now) == {k \in held : issued[k].expiresAt > now}

OfSession(set, id) == {k \in set : issued[k].session = id}
OfSubject(set, u)  == {k \in set : subject[issued[k].session] = u}

\* Fault: the quota of a subject is not looked at.
WithinGlobalQuota(id, now) ==
    /\ Cardinality(Held(now)) < CapCapacity
    /\ Cardinality(OfSession(Held(now), id)) < PerSession

WithinQuotas(id, now) ==
    /\ Cardinality(Held(now)) < CapCapacity
    /\ Cardinality(OfSession(Held(now), id)) < PerSession
    /\ Cardinality(OfSubject(Held(now), subject[id])) < PerSubject

Put(p, r) == req' = [req EXCEPT ![p] = r]
Go(p, at) == Put(p, [req[p] EXCEPT !.at = at])

\* An answered request: a refusal says nothing of its cause.
Refuse(p) == Put(p, [NoCapRequest EXCEPT !.reply = "unavailable"])
Accept(p, reply, k) ==
    Put(p, [NoCapRequest EXCEPT !.reply = reply, !.cap = k,
                                !.session = req[p].session, !.seen = req[p].seen])

\* records.issue(): an alias of the accepted directory, within the quotas.
StoreIssue(p, k) ==
    LET r == req[p] IN
    /\ r.alias \in r.listed
    /\ WithinQuotas(r.session, r.now)
    /\ issued[k] = NoCapability
    /\ held' = Held(r.now) \cup {k}
    /\ issued' = [issued EXCEPT ![k] =
          [session |-> r.session, alias |-> r.alias, expiresAt |-> r.now + CapTtl]]
    /\ Accept(p, "issued", k)

StoreIssueRefused(p) ==
    LET r == req[p] IN
    /\ \/ r.alias \notin r.listed /\ UNCHANGED held
       \/ r.alias \in r.listed /\ ~WithinQuotas(r.session, r.now) /\ held' = Held(r.now)
    /\ Refuse(p)
    /\ UNCHANGED issued

\* Fault: the record is bound to the subject and not to its session.
ResolvableBySubject(r) ==
    /\ r.cap \in Held(r.now)
    /\ subject[issued[r.cap].session] = subject[r.session]
    /\ issued[r.cap].alias \in r.listed

\* records.resolve(): the exact session, an unexpired record and an alias that
\* is still in the accepted directory.  The subject is that of the session.
Resolvable(r) ==
    /\ r.cap \in Held(r.now)
    /\ issued[r.cap].session = r.session
    /\ issued[r.cap].alias \in r.listed

\* Fault: an expired record is compared but not dropped.
StoreResolveLazily(p) ==
    /\ \/ Resolvable(req[p]) /\ Go(p, "upstream")
       \/ ~Resolvable(req[p]) /\ Refuse(p)
    /\ UNCHANGED <<held, issued>>

StoreResolve(p) ==
    /\ held' = Held(req[p].now)
    /\ \/ Resolvable(req[p]) /\ Go(p, "upstream")
       \/ ~Resolvable(req[p]) /\ Refuse(p)
    /\ UNCHANGED issued

-----------------------------------------------------------------------------
(* The routes, and issue() and resolve().                                  *)

\* authenticatedSessionContext(): the session the cookie names, or a refusal.
Call(p, r) ==
    /\ req[p].at = "done" /\ r.session \in Id /\ Used(r.session)
    /\ slots' = Swept
    /\ IF Authentic(r.session) THEN Put(p, [r EXCEPT !.seen = FactsOf(r, full, directory)])
       ELSE Refuse(p)
    /\ UNCHANGED <<clock, record, logout, subject, held, issued, ubidVars>>

\* issue() and resolve() read the clock, then the session again.  A resolve
\* names a capability ever issued, whose alias is followed here as history only.
CallIssue(p, id, a) ==
    Call(p, [NoCapRequest EXCEPT !.op = "issue", !.session = id, !.alias = a,
                                 !.now = clock, !.at = "session"])
CallResolve(p, id, k) ==
    /\ issued[k] # NoCapability
    /\ Call(p, [NoCapRequest EXCEPT !.op = "resolve", !.session = id, !.cap = k,
                                    !.alias = issued[k].alias,
                                    !.now = clock, !.at = "session"])

CallUbid(p, op, id) ==
    Call(p, [NoCapRequest EXCEPT !.op = op, !.session = id, !.at = "authority"])

CallAuthority(p, id) == CallUbid(p, "authority", id)
CallDirectory(p, id) == CallUbid(p, "directory", id)
CallDevice(p, id)    == CallUbid(p, "device", id)

\* normalizeSession(): a live record, judged by the clock of the call.
SessionAccepted(r) ==
    /\ Authentic(r.session)
    /\ record[r.session].issuedAt <= r.now /\ record[r.session].expiresAt > r.now

ReadSession(p) ==
    /\ req[p].at = "session"
    /\ \/ SessionAccepted(req[p]) /\ Go(p, "authority")
       \/ ~SessionAccepted(req[p]) /\ Refuse(p)
    /\ slots' = Swept
    /\ UNCHANGED <<clock, record, logout, subject, held, issued, ubidVars>>

\* Where a request goes when its subject has Full authority.
Granted(p) ==
    CASE req[p].op = "authority" -> Accept(p, "full", NoCap)
      [] req[p].op = "device"    -> Go(p, "upstream")
      [] OTHER                   -> Go(p, "directory")

\* Fault: the authority is not awaited.
ReadAuthorityUnasked(p) ==
    /\ req[p].at = "authority"
    /\ Granted(p)
    /\ UNCHANGED <<storeVars, subject, held, issued, ubidVars>>

\* The authority reader answers for the subject, or fails: whatever is not a
\* valid Full projection is a refusal (failClosedAuthority).
ReadAuthority(p) ==
    /\ req[p].at = "authority"
    /\ \/ subject[req[p].session] \in full /\ Granted(p)
       \/ Refuse(p)
    /\ UNCHANGED <<storeVars, subject, held, issued, ubidVars>>

\* UBID answers with the directory of the viewer; the answer travels.
ReadDirectory(p) ==
    /\ req[p].at = "directory"
    /\ Put(p, [req[p] EXCEPT !.at = "answered", !.listed = directory])
    /\ UNCHANGED <<storeVars, subject, held, issued, ubidVars>>

\* UBID answers with the package of the resolved alias.
PackageAnswers(p) ==
    /\ req[p].at = "upstream" /\ req[p].op = "resolve"
    /\ Accept(p, "packaged", req[p].cap)
    /\ UNCHANGED <<storeVars, subject, held, issued, ubidVars>>

\* UBID answers an intent, an authorization, a snapshot or a command.
DeviceAnswers(p) ==
    /\ req[p].at = "upstream" /\ req[p].op = "device"
    /\ Accept(p, "served", NoCap)
    /\ UNCHANGED <<storeVars, subject, held, issued, ubidVars>>

\* The answer is lost, refused or not acceptable.
UbidFails(p) ==
    /\ req[p].at \in {"directory", "answered", "upstream"}
    /\ Refuse(p)
    /\ UNCHANGED <<storeVars, subject, held, issued, ubidVars>>

End(p) ==
    /\ req[p].at = "answered"
    /\ \/ req[p].op = "issue" /\ (StoreIssueRefused(p) \/ \E k \in Cap : StoreIssue(p, k))
       \/ req[p].op = "resolve" /\ StoreResolve(p)
       \/ req[p].op = "directory" /\ Accept(p, "listed", NoCap) /\ UNCHANGED <<held, issued>>
    /\ UNCHANGED <<storeVars, subject, ubidVars>>

CapTick == Tick /\ UNCHANGED <<subject, held, issued, ubidVars, req>>

CapStep(p) ==
    \/ ReadSession(p) \/ ReadAuthority(p) \/ ReadDirectory(p)
    \/ PackageAnswers(p) \/ DeviceAnswers(p) \/ UbidFails(p) \/ End(p)

CapNext ==
    \/ \E id \in Id : SignOut(id) \/ \E u \in Subject : SignIn(id, u)
    \/ \E u \in Subject : AuthorityChanges(u)
    \/ \E a \in Alias : DirectoryChanges(a)
    \/ \E p \in Proc :
          \/ \E id \in Id, a \in Alias : CallIssue(p, id, a)
          \/ \E id \in Id, k \in Cap : CallResolve(p, id, k)
          \/ \E id \in Id : CallAuthority(p, id) \/ CallDirectory(p, id) \/ CallDevice(p, id)
          \/ CapStep(p)
    \/ CapTick

CapSpec == CapInit /\ [][CapNext]_capVars

-----------------------------------------------------------------------------
(* Properties.                                                             *)

\* The nested capacities hold although every request looks at the store after
\* its awaits and with an old clock.
QuotasRespected ==
    /\ Cardinality(held) <= CapCapacity
    /\ \A id \in Id : Cardinality(OfSession(held, id)) <= PerSession
    /\ \A u \in Subject : Cardinality(OfSubject(held, u)) <= PerSubject

\* "A capability issued in one login session must not become usable from a
\* later login session for the same subject": UBID is asked for a package, and
\* its package handed out, only for the session the capability was issued in.
BoundToSession ==
    \A p \in Proc :
        \/ req[p].op = "resolve" /\ req[p].at = "upstream"
        \/ req[p].reply = "packaged"
        => issued[req[p].cap].session = req[p].session

\* A positive answer rests on a session, Full authority and a listing that
\* existed at some moment of the request itself: "Issuance accepts a selected
\* alias only when that exact alias occurs in the current accepted directory",
\* "the existing capability becomes unavailable" when the target has left.  The
\* directory and the devices are not asked for, and Full is not reported, on
\* an authority of an earlier request.
FreshEvidence ==
    \A p \in Proc :
        /\ req[p].reply \in {"issued", "packaged"} => req[p].seen = Facts
        /\ \/ req[p].reply \in {"full", "listed", "served"}
           \/ req[p].at = "upstream"
           => {"session", "full"} \subseteq req[p].seen

\* Requests reach the store out of the order of their clocks.  What one of them
\* found expired is dropped there and then and never returns, so that a later
\* request with an older clock cannot resolve it again.
NeverBack ==
    [][\A k \in Cap :
          /\ issued[k] # NoCapability
          /\ \/ k \notin held
             \/ \E p \in Proc : /\ req[p].op = "resolve" /\ End(p)
                                /\ issued[k].expiresAt <= req[p].now
          => k \notin held']_capVars
=============================================================================
