---------------------------- MODULE SessionStore ----------------------------
(***************************************************************************)
(* createSessionStore of src/src/server/social-oauth-memory.mjs: the       *)
(* bounded, process-local Map of Social sessions.  A slot holds one frozen *)
(* record and, once logout has begun, one logout object.                   *)
(*                                                                         *)
(* A session id is 32 random bytes, so an id is never drawn twice: the     *)
(* record created under an id is kept here after its slot is gone, which   *)
(* is what a closure holding the record object still sees, and the code's  *)
(* object-identity tests (sessions.get(id) !== original) become tests that *)
(* the slot is still there.  Time is counted in whole seconds.             *)
(***************************************************************************)
EXTENDS Integers, FiniteSets

CONSTANTS
    Id,           \* session ids that can be drawn
    Issuance,     \* UBID issuance ids
    NoIssuance,   \* the absent issuance id of a desktop record
    Capacity,     \* `capacity' of the store
    SessionTtl,   \* `ttlSeconds', the life of a desktop (OAuth) session
    MobileLife,   \* longest life of a mobile record: 300 s
    Retention,    \* cancellation-only retention: 300 s
    Kinds         \* record kinds the store is configured to accept

Desktop  == "desktop"          \* a record without `kind' or `issuanceId'
MobileV1 == "ubid-mobile-v1"
MobileV2 == "ubid-mobile-v2"   \* only when nativeV2Enabled

ASSUME StoreAssumption ==
    /\ IsFiniteSet(Id)
    /\ NoIssuance \notin Issuance
    /\ Capacity \in Nat \ {0}
    /\ SessionTtl \in Nat \ {0}
    /\ MobileLife \in Nat \ {0}
    /\ Retention \in Nat
    /\ Kinds \subseteq {Desktop, MobileV1, MobileV2}

\* The code bounds a mobile record's life and the retention by one literal,
\* 300000 ms; the results below need only that the life is no longer.
ASSUME RetentionAssumption == MobileLife <= Retention

NoRecord   == [kind |-> "none", issuance |-> NoIssuance,
               issuedAt |-> 0, expiresAt |-> 0]
NoLogout   == [until |-> -1, confirmed |-> FALSE]

Record == [kind : Kinds, issuance : Issuance \cup {NoIssuance},
           issuedAt : Nat, expiresAt : Nat]
Logout == [until : Nat, confirmed : BOOLEAN]

VARIABLES
    clock,    \* now()
    record,   \* id |-> the record created under it
    slots,    \* the keys of `entries'
    logout    \* id |-> entry.logout

storeVars == <<clock, record, slots, logout>>

StoreTypeOK ==
    /\ clock \in Nat
    /\ record \in [Id -> Record \cup {NoRecord}]
    /\ slots \subseteq Id
    /\ logout \in [Id -> Logout \cup {NoLogout}]

StoreInit ==
    /\ clock = 0
    /\ record = [id \in Id |-> NoRecord]
    /\ slots = {}
    /\ logout = [id \in Id |-> NoLogout]

-----------------------------------------------------------------------------
Used(id)   == record[id] # NoRecord
Denied(id) == logout[id] # NoLogout
Mobile(id) == record[id].kind \in {MobileV1, MobileV2}

\* When sweep() drops the slot: a logout object fixes its own deadline, an
\* expired mobile record is kept for one retention period.
Deadline(id) ==
    IF Denied(id) THEN logout[id].until
    ELSE record[id].expiresAt + (IF Mobile(id) THEN Retention ELSE 0)

\* The slots left by sweep(), with which every operation begins.
Swept == {id \in slots : Deadline(id) > clock}

\* get(id) returns the record: present, not denied and not expired.
Authentic(id) == id \in Swept /\ ~Denied(id) /\ record[id].expiresAt > clock

\* getForLogout(id) returns the record, expired and denied ones included.
Retained(id) == id \in Swept

HasRoom == Cardinality(Swept) < Capacity

\* What create() demands of a mobile record; a desktop record's dates are its own.
ValidDates(rec) ==
    IF rec.kind = Desktop
    THEN rec.issuedAt = clock /\ rec.expiresAt = clock + SessionTtl
    ELSE /\ rec.issuedAt <= clock
         /\ rec.expiresAt - rec.issuedAt <= MobileLife
         /\ rec.expiresAt - clock >= 1

\* Fault: the denial is kept for no time at all.
NewLogoutUnretained(id) == [until |-> clock, confirmed |-> FALSE]

\* The logout object beginLogout() installs: a fixed, non-renewable deadline.
\* A V1 record's deadline counts from now, a V2 record's never passes its own
\* expiry by more than the retention.
NewLogout(id) ==
    [until |-> IF record[id].kind = MobileV2
                    /\ record[id].expiresAt + Retention < clock + Retention
               THEN record[id].expiresAt + Retention
               ELSE clock + Retention,
     confirmed |-> FALSE]

-----------------------------------------------------------------------------
\* Fault: create() overwrites the slot of a key already in the Map.
CreateOverwriting(id, rec) ==
    /\ HasRoom /\ ValidDates(rec)
    /\ record' = [record EXCEPT ![id] = rec]
    /\ slots' = Swept \cup {id}
    /\ UNCHANGED <<clock, logout>>

\* create(id, rec): refused without room, otherwise a slot of its own.
Create(id, rec) ==
    /\ ~Used(id) /\ HasRoom /\ ValidDates(rec)
    /\ record' = [record EXCEPT ![id] = rec]
    /\ slots' = Swept \cup {id}
    /\ UNCHANGED <<clock, logout>>

\* get, getForLogout, getLogoutState, size, a refused create and a consumeIf
\* whose predicate fails change nothing but the sweep.
Look ==
    /\ slots' = Swept
    /\ UNCHANGED <<clock, record, logout>>

\* Fault: a repeated beginLogout() starts the retention again.
BeginLogoutRenewing(id) ==
    /\ Retained(id)
    /\ logout' = [logout EXCEPT ![id] = NewLogout(id)]
    /\ slots' = Swept
    /\ UNCHANGED <<clock, record>>

\* beginLogout(id): denies the slot once; a repeat returns the same object.
BeginLogout(id) ==
    /\ Retained(id)
    /\ logout' = IF Denied(id) THEN logout
                 ELSE [logout EXCEPT ![id] = NewLogout(id)]
    /\ slots' = Swept
    /\ UNCHANGED <<clock, record>>

\* consume(id), consumeIf(id, p): hands the record out once.
Consume(id) ==
    /\ Authentic(id)
    /\ slots' = Swept \ {id}
    /\ UNCHANGED <<clock, record, logout>>

\* delete(id): the only operation that does not sweep.
Delete(id) ==
    /\ id \in slots
    /\ slots' = slots \ {id}
    /\ UNCHANGED <<clock, record, logout>>

\* A logout coordinator marks the shared logout object confirmed.
Confirm(id) ==
    /\ Denied(id) /\ ~logout[id].confirmed
    /\ logout' = [logout EXCEPT ![id] = [until |-> logout[id].until, confirmed |-> TRUE]]
    /\ UNCHANGED <<clock, record, slots>>

Tick ==
    /\ clock' = clock + 1
    /\ UNCHANGED <<record, slots, logout>>

\* The issuances that a record of a kind may name.
IssuancesOf(kind) == IF kind = Desktop THEN {NoIssuance} ELSE Issuance

StoreNext ==
    \/ \E id \in Id, kind \in Kinds, from \in 0..clock,
          to \in clock + 1 .. clock + SessionTtl + MobileLife :
          \E iss \in IssuancesOf(kind) :
             Create(id, [kind |-> kind, issuance |-> iss, issuedAt |-> from, expiresAt |-> to])
    \/ Look
    \/ \E id \in Id : BeginLogout(id) \/ Consume(id) \/ Delete(id) \/ Confirm(id)
    \/ Tick

StoreSpec == StoreInit /\ [][StoreNext]_storeVars

-----------------------------------------------------------------------------
(* Properties.                                                             *)

\* The store never holds more slots than its capacity, whatever mixture of
\* live, expired-but-retained and denied slots it holds: logout state lives
\* in the slot and never needs room of its own.
WithinCapacity == Cardinality(slots) <= Capacity

\* A denied mobile slot is kept until the credential in it has expired, so
\* sweeping the denial can never make room for a presentation of the same,
\* still valid, credential.
DenialOutlivesCredential ==
    \A id \in Id : Denied(id) /\ Mobile(id) => logout[id].until >= record[id].expiresAt

\* Once get() has stopped answering for an id it never answers again: neither
\* expiry of the retry state, nor a sweep, nor a confirmed logout restores a
\* presentation ("must never restore a locally denied desktop presentation").
NoResurrection ==
    [][\A id \in Id : Used(id) /\ ~Authentic(id) => ~Authentic(id)']_storeVars

\* Repeating logout never extends the retention of the original credential
\* ("Fixed, non-renewable cancellation-only retention").
NonRenewable ==
    [][\A id \in Id : Denied(id) => logout'[id].until = logout[id].until]_storeVars
=============================================================================
