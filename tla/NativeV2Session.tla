--------------------------- MODULE NativeV2Session ---------------------------
(***************************************************************************)
(* createNativeV2SessionManager of                                         *)
(* src/src/server/social-native-session-v2.mjs over a session store of its *)
(* own: the manager of native V2 sessions, which no composition installs   *)
(* yet.  Unlike the V1 manager it queues the work of a credential in one   *)
(* bounded count, keeps the retry of a logout in the slot alone, and a     *)
(* cancellation denies the session of the credential it cancels.           *)
(*                                                                         *)
(* A step is the code between two awaits.  UBID is external: it serves a   *)
(* call once, and the answer may be late or lost.                          *)
(***************************************************************************)
EXTENDS SessionStore, Sequences

CONSTANTS
    Proc,         \* concurrent requests
    NoId,         \* the absent session id
    MaxCapacity   \* the largest `capacity' a manager is configured with

ASSUME NativeAssumption ==
    /\ MobileV2 \in Kinds
    /\ NoId \notin Id
    /\ MaxCapacity \in Nat \ {0}

NoReceipt == [from |-> -1, to |-> -1]

\* `at' is where the call stands: queued for its credential, calling UBID,
\* answered (ok: a valid answer), or done with a reply.  `late' is a history
\* bit of read: the credential was already revoked when the call began.
NoJob == [op |-> "none", id |-> NoId, iss |-> NoIssuance, at |-> "done",
          ok |-> FALSE, late |-> FALSE, reply |-> "none"]

VARIABLES
    capacity,   \* the manager's `capacity'; 0 where no manager is enabled
    aliases,    \* issuance |-> session id presenting it
    locks,      \* issuance |-> queue of requests; its head runs
    job,        \* request |-> manager call
    receipt,    \* UBID: issuance |-> receipt
    revoked     \* UBID: revoked issuances

managerVars == <<aliases, locks, job, receipt, revoked>>
nativeVars == <<clock, record, slots, logout, capacity, aliases, locks, job,
                receipt, revoked>>

NativeInit ==
    /\ StoreInit
    /\ capacity \in 0 .. MaxCapacity
    /\ aliases = [i \in Issuance |-> NoId]
    /\ locks = [i \in Issuance |-> <<>>]
    /\ job = [p \in Proc |-> NoJob]
    /\ receipt = [i \in Issuance |-> NoReceipt]
    /\ revoked = {}

-----------------------------------------------------------------------------
(* UBID, external.                                                         *)

\* The dates a response is refused outside of.
InDates(i) == receipt[i].from <= clock /\ clock < receipt[i].to
Active(i)  == receipt[i] # NoReceipt /\ i \notin revoked /\ InDates(i)

UbidIssue(i) ==
    /\ receipt[i] = NoReceipt
    /\ \E to \in clock + 1 .. clock + MobileLife :
          receipt' = [receipt EXCEPT ![i] = [from |-> clock, to |-> to]]
    /\ UNCHANGED <<revoked, storeVars, capacity, aliases, locks, job>>

UbidRevoke(i) ==
    /\ receipt[i] # NoReceipt
    /\ revoked' = revoked \cup {i}
    /\ UNCHANGED <<receipt, storeVars, capacity, aliases, locks, job>>

-----------------------------------------------------------------------------
(* serialize().                                                            *)

Idle(p) == job[p].at = "done"

\* `pending' counts the queued and running work of all credentials.
Full == Cardinality({p \in Proc : ~Idle(p) /\ job[p].op # "read"}) >= capacity

Heads(p)   == locks[job[p].iss] # <<>> /\ Head(locks[job[p].iss]) = p
Turn(p)    == job[p].at = "queued" /\ Heads(p)
Release(p) == locks' = [locks EXCEPT ![job[p].iss] = Tail(@)]

Start(p, op, id, i, at, reply) ==
    job' = [job EXCEPT ![p] = [op |-> op, id |-> id, iss |-> i, at |-> at, ok |-> FALSE,
                               late |-> op = "read" /\ record[id].issuance \in revoked,
                               reply |-> reply]]
Queue(p, op, id, i) ==
    /\ locks' = [locks EXCEPT ![i] = Append(@, p)]
    /\ Start(p, op, id, i, "queued", "none")
RefuseAtOnce(p, op, id, i) ==
    /\ Start(p, op, id, i, "done", "unavailable")
    /\ UNCHANGED locks

Call(p)          == job' = [job EXCEPT ![p].at = "calling"]
Answer(p, ok)    == job' = [job EXCEPT ![p].at = "answered", ![p].ok = ok]
Finish(p, reply) == job' = [job EXCEPT ![p].at = "done", ![p].reply = reply]

\* UBID executes the call: resolve for read and install, revoke for the others.
Serve(p) ==
    /\ job[p].at = "calling"
    /\ \/ /\ job[p].op \in {"read", "install"}
          /\ Answer(p, Active(job[p].iss))
          /\ UNCHANGED revoked
       \/ /\ job[p].op \in {"logout", "cancel"}
          /\ Answer(p, TRUE)
          /\ revoked' = revoked \cup {job[p].iss}
    /\ UNCHANGED <<storeVars, capacity, aliases, locks, receipt>>

\* The call fails at the caller, before or after UBID executed it.
Drop(p) ==
    /\ job[p].at \in {"calling", "answered"}
    /\ Answer(p, FALSE)
    /\ UNCHANGED <<storeVars, capacity, aliases, locks, receipt, revoked>>

-----------------------------------------------------------------------------
(* read(id), capabilityRead(id)                                            *)

StartRead(p, id) ==
    /\ Idle(p) /\ Used(id)
    /\ slots' = Swept
    /\ IF Authentic(id) THEN Start(p, "read", id, record[id].issuance, "calling", "none")
       ELSE Start(p, "read", id, NoIssuance, "done", "anonymous")
    /\ UNCHANGED <<clock, record, logout, capacity, aliases, locks, receipt, revoked>>

\* The answer is checked at the clock of its arrival, and then the slot again.
EndRead(p) ==
    /\ job[p].op = "read" /\ job[p].at = "answered"
    /\ LET checked == job[p].ok /\ InDates(job[p].iss) IN
       /\ slots' = IF checked THEN Swept ELSE slots
       /\ Finish(p, IF checked /\ Authentic(job[p].id) THEN "authenticated" ELSE "anonymous")
    /\ UNCHANGED <<clock, record, logout, capacity, aliases, locks, receipt, revoked>>

-----------------------------------------------------------------------------
(* install(response, { ..., stillCurrent })                                *)

StartInstall(p, i) ==
    /\ Idle(p) /\ receipt[i] # NoReceipt
    /\ IF InDates(i) /\ ~Full THEN Queue(p, "install", NoId, i)
       ELSE RefuseAtOnce(p, "install", NoId, i)
    /\ UNCHANGED <<storeVars, capacity, aliases, receipt, revoked>>

\* sweep() asks the store for every alias, and so sweeps it if there is one.
BeginInstall(p, current) ==
    /\ job[p].op = "install" /\ Turn(p)
    /\ slots' = IF \E i \in Issuance : aliases[i] # NoId THEN Swept ELSE slots
    /\ aliases' = [i \in Issuance |-> IF aliases[i] \in Swept THEN aliases[i] ELSE NoId]
    /\ IF current THEN Call(p) /\ UNCHANGED locks
       ELSE Finish(p, "unavailable") /\ Release(p)
    /\ UNCHANGED <<clock, record, logout, capacity, receipt, revoked>>

NativeRecord(i) == [kind |-> MobileV2, issuance |-> i,
                    issuedAt |-> receipt[i].from, expiresAt |-> receipt[i].to]

Installable(p, current) == job[p].ok /\ current /\ InDates(job[p].iss)

\* The session presents the credential, unless the caller is no longer current
\* or less than a second is left: then beginLogout() denies it at once.
Present(p, id, current) ==
    IF current
    THEN /\ job' = [job EXCEPT ![p].at = "done", ![p].reply = "installed", ![p].id = id]
         /\ UNCHANGED logout
    ELSE /\ Finish(p, "unavailable")
         /\ logout' = [logout EXCEPT ![id] = [until |-> clock + Retention, confirmed |-> FALSE]]

InstallAlias(p, current) ==
    LET id == aliases[job[p].iss] IN
    /\ Installable(p, current)
    /\ id # NoId /\ Authentic(id)
    /\ slots' = Swept /\ UNCHANGED <<record, aliases>>
    /\ \E still \in BOOLEAN : Present(p, id, still)

Aliased == {i \in Issuance : aliases[i] # NoId}

InstallNew(p, current, id) ==
    LET i == job[p].iss
        rec == NativeRecord(i)
    IN  /\ Installable(p, current)
        /\ aliases[i] = NoId /\ Cardinality(Aliased) < capacity
        /\ ~Used(id) /\ HasRoom /\ ValidDates(rec)
        /\ record' = [record EXCEPT ![id] = rec]
        /\ slots' = Swept \cup {id}
        /\ aliases' = [aliases EXCEPT ![i] = id]
        /\ \E still \in BOOLEAN : Present(p, id, still)

\* The slot of the alias has gone, or keeps the token of another delivery.
InstallRefused(p, current) ==
    LET id == aliases[job[p].iss]
        room == Cardinality(Aliased) < capacity
    IN  /\ \/ ~Installable(p, current)
           \/ id # NoId
           \/ id = NoId /\ ~(room /\ HasRoom)
        /\ Finish(p, "unavailable")
        /\ slots' = IF Installable(p, current) /\ (id # NoId \/ room) THEN Swept ELSE slots
        /\ UNCHANGED <<record, logout, aliases>>

EndInstall(p, current) ==
    /\ job[p].op = "install" /\ job[p].at = "answered"
    /\ \/ InstallAlias(p, current)
       \/ \E id \in Id : InstallNew(p, current, id)
       \/ InstallRefused(p, current)
    /\ Release(p)
    /\ UNCHANGED <<clock, capacity, receipt, revoked>>

-----------------------------------------------------------------------------
(* logout(id)                                                              *)

\* Fault: a full queue refuses the logout before the session is denied.
StartLogoutQueueFirst(p, id) ==
    /\ Idle(p) /\ Used(id)
    /\ slots' = Swept
    /\ logout' = IF Retained(id) /\ ~Denied(id) /\ ~Full
                 THEN [logout EXCEPT ![id] = NewLogout(id)] ELSE logout
    /\ IF Retained(id) /\ ~Full THEN Queue(p, "logout", id, record[id].issuance)
       ELSE RefuseAtOnce(p, "logout", id, NoIssuance)
    /\ UNCHANGED <<clock, record, capacity, aliases, receipt, revoked>>

\* The session is denied before the queue is looked at.
StartLogout(p, id) ==
    /\ Idle(p) /\ Used(id)
    /\ slots' = Swept
    /\ logout' = IF Retained(id) /\ ~Denied(id)
                 THEN [logout EXCEPT ![id] = NewLogout(id)] ELSE logout
    /\ IF Retained(id) /\ ~Full THEN Queue(p, "logout", id, record[id].issuance)
       ELSE RefuseAtOnce(p, "logout", id, NoIssuance)
    /\ UNCHANGED <<clock, record, capacity, aliases, receipt, revoked>>

\* In its turn: the slot may have gone, or a logout before this one succeeded.
BeginLogoutCall(p) ==
    LET id == job[p].id IN
    /\ job[p].op = "logout" /\ Turn(p)
    /\ slots' = Swept
    /\ \/ /\ Retained(id) /\ ~logout[id].confirmed
          /\ Call(p) /\ UNCHANGED locks
       \/ /\ Retained(id) /\ logout[id].confirmed
          /\ Finish(p, "confirmed") /\ Release(p)
       \/ /\ ~Retained(id)
          /\ Finish(p, "unavailable") /\ Release(p)
    /\ UNCHANGED <<clock, record, logout, capacity, aliases, receipt, revoked>>

EndLogout(p) ==
    LET id == job[p].id IN
    /\ job[p].op = "logout" /\ job[p].at = "answered"
    /\ logout' = IF job[p].ok THEN [logout EXCEPT ![id].confirmed = TRUE] ELSE logout
    /\ Finish(p, IF job[p].ok THEN "confirmed" ELSE "unavailable")
    /\ Release(p)
    /\ UNCHANGED <<clock, record, slots, capacity, aliases, receipt, revoked>>

-----------------------------------------------------------------------------
(* cancelUninstalled(response)                                             *)

StartCancel(p, i) ==
    /\ Idle(p) /\ receipt[i] # NoReceipt
    /\ IF ~Full THEN Queue(p, "cancel", NoId, i) ELSE RefuseAtOnce(p, "cancel", NoId, i)
    /\ UNCHANGED <<storeVars, capacity, aliases, receipt, revoked>>

\* Fault: the credential is revoked and its session is left.
BeginCancelOnly(p) ==
    /\ job[p].op = "cancel" /\ Turn(p)
    /\ Call(p)
    /\ UNCHANGED <<storeVars, capacity, aliases, locks, receipt, revoked>>

\* The session that presents the credential after all is denied.
BeginCancel(p) ==
    LET id == aliases[job[p].iss] IN
    /\ job[p].op = "cancel" /\ Turn(p)
    /\ slots' = IF id # NoId THEN Swept ELSE slots
    /\ logout' = IF id # NoId /\ Retained(id) /\ ~Denied(id)
                 THEN [logout EXCEPT ![id] = NewLogout(id)] ELSE logout
    /\ Call(p)
    /\ UNCHANGED <<clock, record, capacity, aliases, locks, receipt, revoked>>

EndCancel(p) ==
    /\ job[p].op = "cancel" /\ job[p].at = "answered"
    /\ Finish(p, IF job[p].ok THEN "cancelled" ELSE "unavailable")
    /\ Release(p)
    /\ UNCHANGED <<storeVars, capacity, aliases, receipt, revoked>>

-----------------------------------------------------------------------------
NativeTick == Tick /\ UNCHANGED <<capacity, aliases, locks, job, receipt, revoked>>

ManagerNext ==
    \/ \E i \in Issuance : UbidIssue(i) \/ UbidRevoke(i)
    \/ \E p \in Proc :
          \/ \E id \in Id : StartRead(p, id) \/ StartLogout(p, id)
          \/ \E i \in Issuance : StartInstall(p, i) \/ StartCancel(p, i)
          \/ Serve(p) \/ Drop(p)
          \/ EndRead(p) \/ BeginLogoutCall(p) \/ EndLogout(p) \/ BeginCancel(p) \/ EndCancel(p)
          \/ \E current \in BOOLEAN : BeginInstall(p, current) \/ EndInstall(p, current)
    \/ NativeTick

\* Without a manager the store is called by itself, in any order.
NativeNext ==
    \/ capacity > 0 /\ ManagerNext
    \/ capacity = 0 /\ StoreNext /\ UNCHANGED <<capacity, managerVars>>

NativeSpec == NativeInit /\ [][NativeNext]_nativeVars

-----------------------------------------------------------------------------
(* Properties.                                                             *)

\* Once a cancellation is answered with success no session presents the
\* credential, although an install of the same response may have been queued
\* before it, behind it, or have been refused by the caller half way.
CancelledIsDenied ==
    \A p \in Proc, id \in Id :
        job[p].reply = "cancelled" /\ record[id].issuance = job[p].iss => ~Authentic(id)

\* A session is what the store says of its slot, as for the V1 manager; where
\* there is no manager, no session is promised to anybody.
Sessions == [id \in Id |->
    IF ~Used(id) \/ capacity = 0 THEN "new"
    ELSE IF Denied(id) THEN "denied"
    ELSE IF Authentic(id) THEN "presented" ELSE "ended"]

Credentials == [id \in Id |-> IF capacity = 0 THEN NoIssuance ELSE record[id].issuance]

Calls == [p \in Proc |->
    [op |-> job[p].op, id |-> job[p].id,
     iss |-> IF job[p].op \in {"install", "cancel"} THEN job[p].iss ELSE NoIssuance,
     late |-> job[p].late, reply |-> job[p].reply,
     open |-> job[p].at # "done"]]

P == INSTANCE Presentation WITH session <- Sessions, credential <- Credentials,
                                call <- Calls

\* The native manager keeps the promise of the V1 manager: a logout denies at
\* once, also when the queue is full; a credential has one session; no session
\* comes back; an answer given after an await is true when it is given.
ImplementsPresentation == P!Spec
=============================================================================
