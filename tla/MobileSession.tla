--------------------------- MODULE MobileSession ---------------------------
(***************************************************************************)
(* createMobileSessionManager of                                           *)
(* src/src/server/social-mobile-session-v1.mjs over the session store: the *)
(* only code that authenticates, installs and logs out a Social session    *)
(* when the mobile composition is enabled.                                 *)
(*                                                                         *)
(* Node runs one callback at a time, so a handler is atomic between two    *)
(* awaits of I/O; every await is a point where other requests, the clock   *)
(* and UBID move.  Proc is a set of concurrent requests; job[p] is the     *)
(* manager call p is in.  UBID (`issuanceClient', `mobileClient') is       *)
(* external: it serves a call once, may answer late, and its answer may be *)
(* lost after it took effect.                                              *)
(***************************************************************************)
EXTENDS SessionStore, Sequences

CONSTANTS
    Proc,             \* concurrent requests
    NoId,             \* the absent session id
    ManagerCapacity,  \* `capacity', shared by cancellations and locks
    LockKey           \* keys of `locks': issuance ids and `logout:' ids

ASSUME ManagerAssumption ==
    /\ {Desktop, MobileV1} \subseteq Kinds
    /\ NoId \notin Id
    /\ ManagerCapacity \in Nat \ {0}
    /\ Issuance \cup Id \subseteq LockKey
    /\ Issuance \cap Id = {}
    /\ IsFiniteSet(LockKey)

NoReceipt == [from |-> -1, to |-> -1]
Receipt   == [from : Nat, to : Nat]

Ops     == {"none", "read", "install", "logout", "cancel"}
Replies == {"none", "authenticated", "anonymous", "installed", "confirmed",
            "cancelled", "unavailable"}

\* `at' is where the call stands: waiting for its lock, waiting for UBID,
\* answered (ok: a valid positive answer; ~ok: refusal, timeout, lost or
\* malformed answer), or done with a reply.  `late' is a history bit of
\* read: the credential was already revoked at UBID when the call began.
Job == [op : Ops, id : Id \cup {NoId}, iss : Issuance \cup {NoIssuance},
        at : {"queued", "calling", "answered", "done"},
        ok : BOOLEAN, late : BOOLEAN, reply : Replies]
NoJob == [op |-> "none", id |-> NoId, iss |-> NoIssuance, at |-> "done",
          ok |-> FALSE, late |-> FALSE, reply |-> "none"]

VARIABLES
    cancellations,  \* keys of `cancellations'; the value is logout[id]
    aliases,        \* issuance |-> session id presenting it
    locks,          \* key |-> queue of requests; its head runs
    job,            \* request |-> manager call
    receipt,        \* UBID: issuance |-> receipt
    revoked         \* UBID: revoked issuances, invalidated OAuth sessions

managerVars == <<cancellations, aliases, locks, job>>
ubidVars    == <<receipt, revoked>>
mobileVars  == <<clock, record, slots, logout, cancellations, aliases, locks,
                 job, receipt, revoked>>

MobileTypeOK ==
    /\ StoreTypeOK
    /\ cancellations \subseteq Id
    /\ aliases \in [Issuance -> Id \cup {NoId}]
    /\ locks \in [LockKey -> Seq(Proc)]
    /\ job \in [Proc -> Job]
    /\ receipt \in [Issuance -> Receipt \cup {NoReceipt}]
    /\ revoked \subseteq Issuance \cup Id

MobileInit ==
    /\ StoreInit
    /\ cancellations = {}
    /\ aliases = [i \in Issuance |-> NoId]
    /\ locks = [k \in LockKey |-> <<>>]
    /\ job = [p \in Proc |-> NoJob]
    /\ receipt = [i \in Issuance |-> NoReceipt]
    /\ revoked = {}

-----------------------------------------------------------------------------
(* UBID, external.                                                         *)

\* What revocation of the session's credential names at UBID.
Credential(id) == IF Mobile(id) THEN record[id].issuance ELSE id

Active(i) == receipt[i] # NoReceipt /\ i \notin revoked /\ receipt[i].to > clock

\* UBID issues a credential, with the dates the receipt carries.
UbidIssue(i) ==
    /\ receipt[i] = NoReceipt
    /\ \E to \in clock + 1 .. clock + MobileLife :
          receipt' = [receipt EXCEPT ![i] = [from |-> clock, to |-> to]]
    /\ UNCHANGED <<revoked, storeVars, managerVars>>

\* UBID revokes on its own, or executes a revocation whose caller gave up.
UbidRevoke(c) ==
    /\ c \in {i \in Issuance : receipt[i] # NoReceipt} \cup {id \in Id : record[id].kind = Desktop}
    /\ revoked' = revoked \cup {c}
    /\ UNCHANGED <<receipt, storeVars, managerVars>>

-----------------------------------------------------------------------------
(* sweep() and serial().                                                   *)

LiveCancellations == {id \in cancellations : logout[id].until > clock}

\* Dropping a cancellation also drops the slot of the same record.
SweptSlots == Swept \ (cancellations \ LiveCancellations)

\* Fault: the alias of a session logged out but not yet revoked is forgotten.
SweptAliasesOfLive ==
    [i \in Issuance |-> IF aliases[i] \in {id \in SweptSlots : Authentic(id)}
                        THEN aliases[i] ELSE NoId]

SweptAliases ==
    [i \in Issuance |-> IF aliases[i] \in SweptSlots THEN aliases[i] ELSE NoId]

Sweep ==
    /\ slots' = SweptSlots
    /\ cancellations' = LiveCancellations
    /\ aliases' = SweptAliases

Idle(p) == job[p].at = "done"

\* serial(key, fn) throws when the map of locks is full and has no such key.
LockFull(k) ==
    /\ locks[k] = <<>>
    /\ Cardinality({j \in LockKey : locks[j] # <<>>}) >= ManagerCapacity

Acquire(p, k) == locks' = [locks EXCEPT ![k] = Append(@, p)]
Holds(p, k)   == locks[k] # <<>> /\ Head(locks[k]) = p
Release(k)    == locks' = [locks EXCEPT ![k] = Tail(@)]

Start(p, op, id, i, at, reply) ==
    job' = [job EXCEPT ![p] =
              [op |-> op, id |-> id, iss |-> i, at |-> at, ok |-> FALSE,
               late |-> op = "read" /\ Credential(id) \in revoked,
               reply |-> reply]]
Call(p)          == job' = [job EXCEPT ![p] = [@ EXCEPT !.at = "calling"]]
Answer(p, ok)    == job' = [job EXCEPT ![p] = [@ EXCEPT !.at = "answered", !.ok = ok]]
Finish(p, reply) == job' = [job EXCEPT ![p] = [@ EXCEPT !.at = "done", !.reply = reply]]
Installed(p, id) == job' = [job EXCEPT ![p] =
                              [@ EXCEPT !.at = "done", !.reply = "installed", !.id = id]]

-----------------------------------------------------------------------------
(* The upstream call of a job.                                             *)

\* UBID executes the call of p: resolve for read and install, revoke (or
\* oauthInvalidate) for logout and cancelUninstalled.
Serve(p) ==
    /\ job[p].at = "calling"
    /\ \/ /\ job[p].op \in {"read", "install"}
          /\ Answer(p, Active(job[p].iss))
          /\ UNCHANGED revoked
       \/ /\ job[p].op \in {"logout", "cancel"}
          /\ Answer(p, TRUE)
          /\ revoked' = revoked \cup {IF job[p].op = "logout" THEN Credential(job[p].id)
                                      ELSE job[p].iss}
    /\ UNCHANGED <<storeVars, cancellations, aliases, locks, receipt>>

\* The call fails at the caller, before or after UBID executed it: refusal,
\* timeout, broken connection, malformed answer.
Drop(p) ==
    /\ job[p].at \in {"calling", "answered"}
    /\ Answer(p, FALSE)
    /\ UNCHANGED <<storeVars, cancellations, aliases, locks, ubidVars>>

-----------------------------------------------------------------------------
(* read(id)                                                                *)

\* Presented: what read(id) tests before, and again after, the resolve.
Presented(id) == Authentic(id) /\ id \notin cancellations

StartRead(p, id) ==
    /\ Idle(p) /\ Used(id)
    /\ Sweep
    /\ \/ /\ Presented(id) /\ Mobile(id)
          /\ Start(p, "read", id, record[id].issuance, "calling", "none")
       \/ /\ Presented(id) /\ ~Mobile(id)
          /\ Start(p, "read", id, NoIssuance, "done", "authenticated")
       \/ /\ ~Presented(id)
          /\ Start(p, "read", id, NoIssuance, "done", "anonymous")
    /\ UNCHANGED <<clock, record, logout, locks, ubidVars>>

\* Fault: what was tested before the await is not tested again.
EndReadUnchecked(p) ==
    /\ job[p].op = "read" /\ job[p].at = "answered"
    /\ slots' = IF job[p].ok THEN Swept ELSE slots
    /\ Finish(p, IF job[p].ok THEN "authenticated" ELSE "anonymous")
    /\ UNCHANGED <<clock, record, logout, cancellations, aliases, locks, ubidVars>>

\* The resolve answered: recheck the slot, the cancellation and the deadline,
\* all of which may have changed during the await.
EndRead(p) ==
    /\ job[p].op = "read" /\ job[p].at = "answered"
    /\ slots' = IF job[p].ok THEN Swept ELSE slots
    /\ Finish(p, IF job[p].ok /\ Presented(job[p].id) THEN "authenticated" ELSE "anonymous")
    /\ UNCHANGED <<clock, record, logout, cancellations, aliases, locks, ubidVars>>

-----------------------------------------------------------------------------
(* install(response, { subject, expiresAt, stillCurrent })                 *)

StartInstall(p, i) ==
    /\ Idle(p) /\ receipt[i] # NoReceipt
    /\ \/ /\ ~LockFull(i)
          /\ Acquire(p, i)
          /\ Start(p, "install", NoId, i, "queued", "none")
       \/ /\ LockFull(i)
          /\ Start(p, "install", NoId, i, "done", "unavailable")
          /\ UNCHANGED locks
    /\ UNCHANGED <<storeVars, cancellations, aliases, ubidVars>>

BeginInstall(p) ==
    /\ job[p].op = "install" /\ job[p].at = "queued" /\ Holds(p, job[p].iss)
    /\ Sweep
    /\ Call(p)
    /\ UNCHANGED <<clock, record, logout, locks, ubidVars>>

MobileRecord(i) == [kind |-> MobileV1, issuance |-> i,
                    issuedAt |-> receipt[i].from, expiresAt |-> receipt[i].to]

\* A positive resolve of a receipt still in its dates, for a caller that is
\* still current.
Installable(p, current) ==
    /\ job[p].ok /\ current
    /\ receipt[job[p].iss].from <= clock /\ receipt[job[p].iss].to - clock >= 1

\* The alias of the issuance is presented again, and only if it still is
\* presentable; it was last swept before the resolve.
InstallAlias(p, current) ==
    LET id == aliases[job[p].iss] IN
    /\ Installable(p, current)
    /\ id # NoId /\ Presented(id)
    /\ Installed(p, id)
    /\ slots' = Swept
    /\ UNCHANGED <<clock, record, logout, aliases>>

InstallNew(p, current, id) ==
    LET i == job[p].iss IN
    /\ Installable(p, current)
    /\ aliases[i] = NoId
    /\ Create(id, MobileRecord(i))
    /\ aliases' = [aliases EXCEPT ![i] = id]
    /\ Installed(p, id)

InstallRefused(p, current) ==
    LET id == aliases[job[p].iss] IN
    /\ \/ ~Installable(p, current)
       \/ id # NoId /\ ~Presented(id)
       \/ id = NoId /\ ~HasRoom
    /\ Finish(p, "unavailable")
    /\ slots' = IF Installable(p, current) THEN Swept ELSE slots
    /\ UNCHANGED <<clock, record, logout, aliases>>

\* The resolve answered: present the alias, present a new slot, or refuse.
InstallEnded(p, current) ==
    /\ job[p].op = "install" /\ job[p].at = "answered"
    /\ \/ InstallAlias(p, current)
       \/ \E id \in Id : InstallNew(p, current, id)
       \/ InstallRefused(p, current)
    /\ UNCHANGED <<cancellations, ubidVars>>

EndInstall(p, current) == InstallEnded(p, current) /\ Release(job[p].iss)

-----------------------------------------------------------------------------
(* logout(id)                                                              *)

\* The pending logout object can be found or begun.
LogoutKnown(id) == id \in LiveCancellations \cup SweptSlots

\* The slot is denied before the retry map and the locks are looked at: a
\* full map or a full set of locks leaves the denial in place.
StartLogout(p, id) ==
    /\ Idle(p) /\ Used(id)
    /\ slots' = SweptSlots
    /\ aliases' = SweptAliases
    /\ logout' = IF LogoutKnown(id) /\ ~Denied(id)
                 THEN [logout EXCEPT ![id] = NewLogout(id)] ELSE logout
    /\ cancellations' =
          LiveCancellations \cup
             {j \in {id} : LogoutKnown(j) /\ Cardinality(LiveCancellations) < ManagerCapacity}
    /\ \/ /\ LogoutKnown(id) /\ ~LockFull(id)
          /\ Acquire(p, id)
          /\ Start(p, "logout", id, NoIssuance, "queued", "none")
       \/ /\ ~LogoutKnown(id) \/ LockFull(id)
          /\ Start(p, "logout", id, NoIssuance, "done", "unavailable")
          /\ UNCHANGED locks
    /\ UNCHANGED <<clock, record, ubidVars>>

\* Fault: the slot is freed although the retry map had no room for the logout.
FreeSlotAlways(id) == slots' = Swept \ {id}

\* Once confirmed, the slot is freed if the retry map owns the logout object;
\* otherwise the denied slot stays for exact retries.
FreeSlot(id) == slots' = IF id \in cancellations THEN Swept \ {id} ELSE slots

BeginLogoutCall(p) ==
    LET id == job[p].id IN
    /\ job[p].op = "logout" /\ job[p].at = "queued" /\ Holds(p, id)
    /\ \/ /\ ~logout[id].confirmed
          /\ Call(p)
          /\ UNCHANGED <<slots, locks>>
       \/ /\ logout[id].confirmed
          /\ FreeSlot(id)
          /\ Finish(p, "confirmed")
          /\ Release(id)
    /\ UNCHANGED <<clock, record, logout, cancellations, aliases, ubidVars>>

EndLogout(p) ==
    LET id == job[p].id IN
    /\ job[p].op = "logout" /\ job[p].at = "answered"
    /\ \/ /\ job[p].ok
          /\ logout' = [logout EXCEPT ![id] = [until |-> logout[id].until, confirmed |-> TRUE]]
          /\ FreeSlot(id)
          /\ Finish(p, "confirmed")
       \/ /\ ~job[p].ok
          /\ Finish(p, "unavailable")
          /\ UNCHANGED <<logout, slots>>
    /\ Release(id)
    /\ UNCHANGED <<clock, record, cancellations, aliases, ubidVars>>

-----------------------------------------------------------------------------
(* cancelUninstalled(response)                                             *)

StartCancel(p, i) ==
    /\ Idle(p) /\ receipt[i] # NoReceipt
    /\ Start(p, "cancel", NoId, i, "calling", "none")
    /\ UNCHANGED <<storeVars, cancellations, aliases, locks, ubidVars>>

EndCancel(p) ==
    /\ job[p].op = "cancel" /\ job[p].at = "answered"
    /\ Finish(p, IF job[p].ok THEN "cancelled" ELSE "unavailable")
    /\ UNCHANGED <<storeVars, cancellations, aliases, locks, ubidVars>>

-----------------------------------------------------------------------------
\* The OAuth callback creates a desktop session in the shared store.
OAuthCreate(id) ==
    /\ Create(id, [kind |-> Desktop, issuance |-> NoIssuance,
                   issuedAt |-> clock, expiresAt |-> clock + SessionTtl])
    /\ UNCHANGED <<managerVars, ubidVars>>

MobileTick == Tick /\ UNCHANGED <<managerVars, ubidVars>>

\* The steps of a request that has begun.
Step(p) ==
    \/ EndRead(p)
    \/ BeginInstall(p) \/ \E current \in BOOLEAN : EndInstall(p, current)
    \/ BeginLogoutCall(p) \/ EndLogout(p)
    \/ EndCancel(p)

MobileNext ==
    \/ \E i \in Issuance : UbidIssue(i)
    \/ \E c \in Issuance \cup Id : UbidRevoke(c)
    \/ \E id \in Id : OAuthCreate(id)
    \/ \E p \in Proc :
          \/ \E id \in Id : StartRead(p, id) \/ StartLogout(p, id)
          \/ \E i \in Issuance : StartInstall(p, i) \/ StartCancel(p, i)
          \/ Serve(p) \/ Drop(p) \/ Step(p)
    \/ MobileTick

MobileSpec == MobileInit /\ [][MobileNext]_mobileVars

-----------------------------------------------------------------------------
(* Properties.                                                             *)

\* "one local presentation per issuance": a slot of an issuance is always the
\* alias of that issuance, so concurrent completions of the same issuance,
\* with logouts between their awaits, never leave two presentations.
OnePresentation ==
    \A id \in slots : Mobile(id) => aliases[record[id].issuance] = id

\* A logout request denies its session whatever became of the request: also
\* when the retry map or the locks were full, or UBID did not answer.
LogoutDenies == \A p \in Proc : job[p].op = "logout" => ~Authentic(job[p].id)

\* A pending logout is never lost before its fixed deadline: the retry map or
\* the slot still holds the original credential ("Saturation cannot discard
\* another pending cancellation").
RetryKept ==
    \A id \in Id : Denied(id) /\ logout[id].until > clock => id \in slots \cup cancellations

\* logout: "confirmed" is only said of a credential UBID has revoked.
ConfirmedIsRevoked ==
    \A id \in Id : Denied(id) /\ logout[id].confirmed => Credential(id) \in revoked

\* The per-session serialisation keeps a confirmed logout from being sent to
\* UBID again by a request that was waiting behind the one that confirmed it.
RevokeOnce ==
    \A p \in Proc : job[p].op = "logout" /\ job[p].at \in {"calling", "answered"}
                    => ~logout[job[p].id].confirmed

\* Neither the retry map nor the lock map outgrows the manager's capacity.
ManagerBounded ==
    /\ Cardinality(cancellations) <= ManagerCapacity
    /\ Cardinality({k \in LockKey : locks[k] # <<>>}) <= ManagerCapacity

\* A read that began after UBID revoked the credential never authenticates a
\* mobile session, whatever is still in the slot: a slot alone is no authority.
FreshAuthority ==
    \A p \in Proc : job[p].op = "read" /\ job[p].late /\ Mobile(job[p].id)
                    => job[p].reply # "authenticated"

\* read() answers with a session only if, at the moment it answers, the
\* session is presented: not expired, logged out or swept during the await.
AuthenticatedNow ==
    [][\A p \in Proc :
          job'[p] # job[p] /\ job'[p].op = "read" /\ job'[p].reply = "authenticated"
          => Presented(job'[p].id)]_mobileVars

-----------------------------------------------------------------------------
(* The manager as an implementation of what it promises.                   *)

\* A session is what the store says of its slot; the queues, the retry map,
\* the aliases and UBID's answers on their way are not seen.
Sessions == [id \in Id |->
    IF ~Used(id) THEN "new"
    ELSE IF Denied(id) THEN "denied"
    ELSE IF Authentic(id) THEN "presented" ELSE "ended"]

Credentials == [id \in Id |-> record[id].issuance]

Calls == [p \in Proc |->
    [op |-> job[p].op, id |-> job[p].id,
     iss |-> IF job[p].op \in {"install", "cancel"} THEN job[p].iss ELSE NoIssuance,
     late |-> job[p].late, reply |-> job[p].reply,
     open |-> job[p].at # "done"]]

P == INSTANCE Presentation WITH session <- Sessions, credential <- Credentials,
                                call <- Calls

\* Every behaviour of the manager, over its maps, locks and awaits, is one
\* that its callers were promised: a session that ended or was denied never
\* presents again, a credential has one session, and an answer given after
\* an await is true when it is given.
ImplementsPresentation == P!Spec
=============================================================================
