--------------------------- MODULE NativeV2Proofs ---------------------------
(***************************************************************************)
(* Proofs about NativeV2Session, for every set of requests, sessions and   *)
(* credentials, every capacity and every life and retention: its safety    *)
(* properties, and that it implements Presentation.                        *)
(***************************************************************************)
EXTENDS NativeV2Session, SessionStoreProofs, SequenceTheorems

Receipt == [from : Nat, to : Nat]

Job == [op : {"none", "read", "install", "logout", "cancel"},
        id : Id \cup {NoId}, iss : Issuance \cup {NoIssuance},
        at : {"queued", "calling", "answered", "done"}, ok : BOOLEAN, late : BOOLEAN,
        reply : {"none", "anonymous", "authenticated", "unavailable", "installed",
                 "confirmed", "cancelled"}]

NativeTypeOK ==
    /\ capacity \in 0 .. MaxCapacity
    /\ aliases \in [Issuance -> Id \cup {NoId}]
    /\ locks \in [Issuance -> Seq(Proc)]
    /\ job \in [Proc -> Job]
    /\ receipt \in [Issuance -> Receipt \cup {NoReceipt}]
    /\ revoked \subseteq Issuance

-----------------------------------------------------------------------------
(* The slots and the aliases.                                              *)

\* A session carries the dates of the one response its credential has.
RecordsNative ==
    \A id \in Id : Used(id) =>
        /\ record[id].kind = MobileV2 /\ record[id].issuance \in Issuance
        /\ receipt[record[id].issuance] # NoReceipt
        /\ record[id].expiresAt = receipt[record[id].issuance].to

\* The alias of a credential is the session that holds a slot for it.
SlotsAliased == \A id \in slots : aliases[record[id].issuance] = id

AliasesOwned ==
    \A i \in Issuance : aliases[i] # NoId =>
        Used(aliases[i]) /\ record[aliases[i]].issuance = i

\* A slot is gone only when its deadline is: nothing else deletes one.
SlotsKept == \A id \in Id : Used(id) /\ id \notin slots => ~(Deadline(id) > clock)

ConfirmedRevoked ==
    \A id \in Id : Used(id) /\ logout[id].confirmed => record[id].issuance \in revoked

ManagedStore ==
    RecordsNative /\ SlotsAliased /\ AliasesOwned /\ SlotsKept /\ ConfirmedRevoked

-----------------------------------------------------------------------------
(* The calls and their queues.                                             *)

Waits(j, i) == j.at # "done" /\ j.op # "read" /\ j.iss = i
Runs(j)     == j.at \in {"calling", "answered"} /\ j.op # "read"
First(p, i) == locks[i] # <<>> /\ Head(locks[i]) = p

\* A queue holds each of its waiting calls once, and the call that has left
\* for UBID is at its head.
QueueInv ==
    /\ \A i \in Issuance : \A k \in 1 .. Len(locks[i]) : Waits(job[locks[i][k]], i)
    /\ \A i \in Issuance : \A k, l \in 1 .. Len(locks[i]) : locks[i][k] = locks[i][l] => k = l
    /\ \A p \in Proc : Runs(job[p]) => job[p].iss \in Issuance /\ First(p, job[p].iss)

NoneOf(i) == \A id \in Id : record[id].issuance = i => ~Authentic(id)

\* A call that is queued or under way.
OpenGood(j) ==
    /\ j.op \in {"read", "logout"} =>
           j.id \in Id /\ Used(j.id) /\ j.iss = record[j.id].issuance
    /\ j.op \in {"read", "install", "logout", "cancel"} /\ j.iss \in Issuance
    /\ j.op = "logout" => Denied(j.id)
    /\ j.op = "read" /\ j.late => j.iss \in revoked /\ ~j.ok
    /\ j.op \in {"logout", "cancel"} /\ j.ok => j.iss \in revoked
    /\ j.op = "cancel" /\ Runs(j) => NoneOf(j.iss)
    /\ j.reply = "none"

\* A cancellation that succeeded.
CancelGood(j) ==
    j.reply = "cancelled" =>
        /\ j.op = "cancel" /\ j.iss \in Issuance
        /\ j.iss \in revoked /\ NoneOf(j.iss)

\* The session of a logout is denied, or had no slot when the logout came.
Gone(id) == Denied(id) \/ id \notin Swept

LogoutGood(j) == j.op = "logout" => j.id \in Id /\ Used(j.id) /\ Gone(j.id)

JobGood(j) == (j.at # "done" => OpenGood(j)) /\ CancelGood(j) /\ LogoutGood(j)

\* No valid answer is on its way to an install of a cancelled credential.
Hopeful(j) == j.op = "install" /\ j.at = "answered" /\ j.ok

Uncancelled ==
    \A p, q \in Proc :
        Hopeful(job[p]) /\ job[q].reply = "cancelled" => job[p].iss # job[q].iss

Managed ==
    /\ ManagedStore
    /\ QueueInv
    /\ \A p \in Proc : JobGood(job[p])
    /\ Uncancelled

NativeInv ==
    /\ NativeTypeOK
    /\ StoreInv
    /\ capacity = 0 => job = [p \in Proc |-> NoJob]
    /\ capacity > 0 => Managed

-----------------------------------------------------------------------------
(* What a step of the manager may do to the slots.                         *)

\* Slots are swept or left; sessions may be denied and logouts confirmed.
Settles ==
    /\ slots' \in {slots, Swept}
    /\ UNCHANGED <<clock, record>>
    /\ logout' \in [Id -> Logout \cup {NoLogout}]
    /\ \A id \in Id : logout'[id] # logout[id] =>
          /\ Used(id) /\ logout'[id] \in Logout
          /\ Denied(id) => logout'[id].until = logout[id].until
          /\ Mobile(id) => logout'[id].until >= record[id].expiresAt
          /\ ~Denied(id) => id \in Swept

\* A session that has begun keeps its record, its denial, the fact that get()
\* refuses it and the fact that there is nothing left to log out.
Lasting ==
    \A id \in Id :
        /\ Used(id) => record'[id] = record[id]
        /\ Denied(id) => Denied(id)' /\ logout'[id].until = logout[id].until
        /\ Used(id) /\ ~Authentic(id) => ~Authentic(id)'
        /\ Used(id) /\ Gone(id) => Gone(id)'

\* The sessions whose logout object a step leaves alone are what they were.
LEMMA SettlesLeaves ==
  ASSUME Settles, NEW id \in Id, logout'[id] = logout[id]
  PROVE  /\ Denied(id)' <=> Denied(id)
         /\ Authentic(id)' <=> Authentic(id)
         /\ Deadline(id)' = Deadline(id)
         /\ id \in Swept' <=> id \in Swept
  <1>1. /\ Denied(id)' <=> Denied(id)
        /\ Deadline(id)' = Deadline(id)
    BY DEF Settles, Denied, Deadline, Mobile
  <1>2. id \in Swept' <=> id \in Swept
    BY <1>1 DEF Settles, Swept
  <1>3. QED
    BY <1>1, <1>2 DEF Settles, Authentic

\* Such a step keeps the invariant of the store.
LEMMA SettlesStore ==
  ASSUME StoreInv, Settles
  PROVE  StoreInv' /\ Lasting /\ slots' \subseteq slots
  <1> USE DEF StoreInv
  <1>1. slots' \subseteq slots /\ Cardinality(slots') <= Cardinality(slots)
    BY SweptFinite DEF Settles
  <1>2. \A id \in Id : Denied(id) => Denied(id)' /\ logout'[id].until = logout[id].until
    <2> SUFFICES ASSUME NEW id \in Id, Denied(id)
                 PROVE  Denied(id)' /\ logout'[id].until = logout[id].until
      OBVIOUS
    <2>1. CASE logout'[id] = logout[id]
      BY <2>1 DEF Denied
    <2>2. CASE logout'[id] # logout[id]
      BY <2>2, Absent DEF Settles, Denied
    <2>3. QED
      BY <2>1, <2>2
  <1>3. \A id \in Id : Denied(id)' => Used(id)
    <2> SUFFICES ASSUME NEW id \in Id, Denied(id)'
                 PROVE  Used(id)
      OBVIOUS
    <2>1. CASE logout'[id] = logout[id]
      BY <2>1 DEF Denied, OnlyUsed
    <2>2. QED
      BY <2>1 DEF Settles
  <1>4. StoreTypeOK'
    BY <1>1 DEF StoreTypeOK, Settles
  <1>5. DatesBounded'
    BY DEF DatesBounded, Settles, Used, Mobile
  <1>6. OnlyUsed'
    BY <1>1, <1>3 DEF OnlyUsed, Settles, Used
  <1>7. WithinCapacity'
    <2>1. Cardinality(slots') \in Nat
      BY <1>4, <1>1, FS_Subset, FS_CardinalityType, StoreAssumption DEF StoreTypeOK
    <2>2. QED
      BY <2>1, <1>1, SweptFinite, StoreAssumption DEF WithinCapacity
  <1>8. DenialOutlivesCredential'
    <2> SUFFICES ASSUME NEW id \in Id, Denied(id)', Mobile(id)'
                 PROVE  logout'[id].until >= record'[id].expiresAt
      BY DEF DenialOutlivesCredential
    <2>1. Mobile(id) /\ record'[id] = record[id]
      BY DEF Mobile, Settles
    <2>2. CASE logout'[id] = logout[id]
      BY <2>1, <2>2 DEF Denied, DenialOutlivesCredential
    <2>3. CASE logout'[id] # logout[id]
      BY <2>1, <2>3 DEF Settles
    <2>4. QED
      BY <2>2, <2>3
  <1>9. \A id \in Id : Authentic(id)' => Authentic(id)
    <2> SUFFICES ASSUME NEW id \in Id, Authentic(id)'
                 PROVE  Authentic(id)
      OBVIOUS
    <2>1. logout'[id] = logout[id]
      BY Absent DEF Authentic, Denied, Settles
    <2>2. QED
      BY <2>1, SettlesLeaves
  <1>10. ASSUME NEW id \in Id, Gone(id)
         PROVE  Gone(id)'
    <2>1. CASE Denied(id)
      BY <2>1, <1>2 DEF Gone
    <2>2. CASE ~Denied(id)
      <3>1. id \notin Swept /\ logout'[id] = logout[id]
        BY <2>2, <1>10 DEF Gone, Settles
      <3>2. QED
        BY <3>1, SettlesLeaves DEF Gone
    <2>3. QED
      BY <2>1, <2>2
  <1>11. Lasting
    BY <1>2, <1>9, <1>10 DEF Lasting, Settles
  <1>12. QED
    BY <1>1, <1>4, <1>5, <1>6, <1>7, <1>8, <1>11

\* A sweep, or nothing.
LEMMA SweepSettles ==
  ASSUME StoreInv, slots' \in {slots, Swept}, UNCHANGED <<clock, record, logout>>
  PROVE  Settles
  BY DEF Settles, StoreInv, StoreTypeOK

\* beginLogout() of a session that has a slot and was not denied, or that of a
\* session an install has to withdraw.
Denies(id) ==
    /\ id \in Swept /\ ~Denied(id)
    /\ slots' = Swept /\ UNCHANGED <<clock, record>>
    /\ \E l \in {NewLogout(id), [until |-> clock + Retention, confirmed |-> FALSE]} :
          logout' = [logout EXCEPT ![id] = l]

\* A denial, as logout() and cancelUninstalled() write it, settles.
LEMMA DenySettles ==
  ASSUME StoreInv, NEW id \in Id, Denies(id)
  PROVE  /\ Settles /\ Used(id) /\ Denied(id)'
         /\ ~logout'[id].confirmed
         /\ \A other \in Id : other # id => logout'[other] = logout[other]
  <1> USE DEF StoreInv
  <1>1. Used(id) /\ id \in slots
    BY SweptFinite DEF Denies, OnlyUsed
  <1>2. PICK l \in {NewLogout(id), [until |-> clock + Retention, confirmed |-> FALSE]} :
          logout' = [logout EXCEPT ![id] = l]
    BY DEF Denies
  <1>3. /\ logout'[id] = l
        /\ \A other \in Id : other # id => logout'[other] = logout[other]
    BY <1>2 DEF StoreTypeOK
  <1>4. record[id] \in Record
    BY <1>1 DEF Used, StoreTypeOK
  <1>5. record[id].expiresAt \in Nat /\ clock \in Nat
    BY <1>4 DEF Record, StoreTypeOK
  <1>6. l \in Logout /\ (Mobile(id) => l.until >= record[id].expiresAt)
    <2>1. CASE l = NewLogout(id)
      BY <2>1, <1>1, NewLogoutGood
    <2>2. CASE l = [until |-> clock + Retention, confirmed |-> FALSE]
      <3>1. l.until = clock + Retention /\ l \in Logout
        BY <2>2, <1>5, StoreAssumption DEF Logout
      <3>2. Mobile(id) => record[id].expiresAt <= clock + MobileLife
        BY <1>1 DEF DatesBounded
      <3>3. QED
        BY <3>1, <3>2, <1>5, StoreAssumption, RetentionAssumption
    <2>3. QED
      BY <1>2, <2>1, <2>2
  <1>7. ~l.confirmed
    BY <1>2 DEF NewLogout
  <1>8. logout' \in [Id -> Logout \cup {NoLogout}]
    BY <1>2, <1>6 DEF StoreTypeOK
  <1>9. Settles
    BY <1>1, <1>3, <1>6, <1>8 DEF Settles, Denies
  <1>10. QED
    BY <1>1, <1>3, <1>6, <1>7, <1>9, Absent DEF Denied

\* A logout UBID has confirmed is marked in its slot.
LEMMA ConfirmSettles ==
  ASSUME StoreInv, NEW id \in Id, Denied(id), UNCHANGED <<clock, record, slots>>,
         logout' = [logout EXCEPT ![id].confirmed = TRUE]
  PROVE  /\ Settles /\ Used(id)
         /\ \A other \in Id : other # id => logout'[other] = logout[other]
  <1> USE DEF StoreInv
  <1>1. logout[id] \in Logout /\ Used(id)
    BY DEF StoreTypeOK, Denied, OnlyUsed
  <1>2. /\ logout'[id].until = logout[id].until /\ logout'[id] \in Logout
        /\ \A other \in Id : other # id => logout'[other] = logout[other]
    BY <1>1 DEF StoreTypeOK, Logout
  <1>3. logout' \in [Id -> Logout \cup {NoLogout}]
    BY <1>1, <1>2 DEF StoreTypeOK
  <1>4. Mobile(id) => logout[id].until >= record[id].expiresAt
    BY DEF DenialOutlivesCredential
  <1>5. QED
    BY <1>1, <1>2, <1>3, <1>4 DEF Settles

\* create() of the session of a credential, denied at once when the caller of
\* the install is no longer current.
Creates(id, i) ==
    /\ ~Used(id) /\ HasRoom /\ ValidDates(NativeRecord(i))
    /\ record' = [record EXCEPT ![id] = NativeRecord(i)]
    /\ slots' = Swept \cup {id}
    /\ clock' = clock
    /\ \/ logout' = logout
       \/ logout' = [logout EXCEPT ![id] = [until |-> clock + Retention, confirmed |-> FALSE]]

\* The record of an install is a record of the store, with the dates create()
\* has checked.
LEMMA NativeRecordGood ==
  ASSUME StoreInv, NEW i \in Issuance, receipt[i] \in Receipt, ValidDates(NativeRecord(i))
  PROVE  /\ NativeRecord(i) \in Record /\ NativeRecord(i) # NoRecord
         /\ NativeRecord(i).kind = MobileV2 /\ NativeRecord(i).issuance = i
         /\ NativeRecord(i).expiresAt = receipt[i].to
         /\ NativeRecord(i).expiresAt > clock
         /\ NativeRecord(i).expiresAt <= clock + MobileLife
         /\ NativeRecord(i).expiresAt \in Nat
  <1>1. receipt[i].from \in Nat /\ receipt[i].to \in Nat
    BY DEF Receipt
  <1>2. /\ NativeRecord(i).kind = MobileV2 /\ NativeRecord(i).issuance = i
        /\ NativeRecord(i).issuedAt = receipt[i].from
        /\ NativeRecord(i).expiresAt = receipt[i].to
    BY DEF NativeRecord
  <1>3. NativeRecord(i) \in Record
    BY <1>1, NativeAssumption DEF NativeRecord, Record
  <1>4. clock \in Nat /\ MobileLife \in Nat
    BY StoreAssumption DEF StoreInv, StoreTypeOK
  <1>5. /\ receipt[i].from <= clock /\ receipt[i].to - receipt[i].from <= MobileLife
        /\ receipt[i].to - clock >= 1
    BY <1>2 DEF ValidDates, MobileV2, Desktop
  <1>6. receipt[i].to > clock /\ receipt[i].to <= clock + MobileLife
    BY <1>1, <1>4, <1>5
  <1>7. QED
    BY <1>1, <1>2, <1>3, <1>6, Absent

\* A new session takes a slot, and leaves every other session what it was.
LEMMA CreateStore ==
  ASSUME StoreInv, NEW id \in Id, NEW i \in Issuance, receipt[i] \in Receipt, Creates(id, i)
  PROVE  /\ StoreInv' /\ Lasting
         /\ record'[id] = NativeRecord(i) /\ Used(id)'
         /\ Authentic(id)' <=> ~Denied(id)'
         /\ ~logout'[id].confirmed
         /\ \A other \in Id : other # id =>
               /\ record'[other] = record[other] /\ logout'[other] = logout[other]
               /\ Authentic(other)' <=> Authentic(other)
  <1> USE DEF StoreInv
  <1> DEFINE rec == NativeRecord(i)
             denial == [until |-> clock + Retention, confirmed |-> FALSE]
  <1>1. /\ rec \in Record /\ rec # NoRecord /\ rec.kind = MobileV2
        /\ rec.expiresAt > clock /\ rec.expiresAt <= clock + MobileLife
        /\ rec.expiresAt \in Nat
    BY NativeRecordGood DEF Creates
  <1>2. /\ clock \in Nat /\ Retention \in Nat /\ MobileLife \in Nat /\ Capacity \in Nat
        /\ MobileLife <= Retention
    BY StoreAssumption, RetentionAssumption DEF StoreTypeOK
  <1>3. /\ ~Used(id) /\ HasRoom /\ slots' = Swept \cup {id} /\ clock' = clock
        /\ record' = [record EXCEPT ![id] = rec]
        /\ logout' = logout \/ logout' = [logout EXCEPT ![id] = denial]
    BY DEF Creates
  <1>4. denial \in Logout /\ denial.until = clock + Retention /\ ~denial.confirmed
    BY <1>2 DEF Logout
  <1> HIDE DEF rec, denial
  <1>5. logout[id] = NoLogout
    BY <1>3 DEF OnlyUsed, Denied
  <1>6. /\ record'[id] = rec
        /\ \A other \in Id : other # id => record'[other] = record[other]
    BY <1>3 DEF StoreTypeOK
  <1>7. /\ logout'[id] \in {NoLogout, denial}
        /\ \A other \in Id : other # id => logout'[other] = logout[other]
    BY <1>3, <1>5 DEF StoreTypeOK
  <1>8. StoreTypeOK'
    BY <1>1, <1>2, <1>3, <1>4, SweptFinite DEF StoreTypeOK
  <1>9. Used(id)' /\ \A other \in Id : Used(other) => Used(other)'
    BY <1>1, <1>6, <1>3 DEF Used
  <1>10. DatesBounded'
    BY <1>1, <1>3, <1>6 DEF DatesBounded, Used, Mobile
  <1>11. OnlyUsed'
    <2>1. \A other \in slots' : Used(other)'
      BY <1>3, <1>9, SweptFinite DEF OnlyUsed, StoreTypeOK
    <2>2. \A other \in Id : Denied(other)' => Used(other)'
      BY <1>7, <1>9 DEF OnlyUsed, Denied
    <2>3. QED
      BY <2>1, <2>2 DEF OnlyUsed
  <1>12. WithinCapacity'
    <2>1. IsFiniteSet(Swept) /\ Cardinality(Swept) \in Nat
      BY SweptFinite
    <2>2. Cardinality(Swept \cup {id})
            = IF id \in Swept THEN Cardinality(Swept) ELSE Cardinality(Swept) + 1
      BY <2>1, FS_AddElement
    <2>3. QED
      BY <1>2, <1>3, <2>1, <2>2 DEF HasRoom, WithinCapacity
  <1>13. DenialOutlivesCredential'
    <2>1. Denied(id)' => logout'[id].until >= record'[id].expiresAt
      BY <1>1, <1>2, <1>4, <1>6, <1>7 DEF Denied
    <2>2. QED
      BY <2>1, <1>6, <1>7 DEF DenialOutlivesCredential, Denied, Mobile
  <1>14. ASSUME NEW other \in Id, other # id
         PROVE  /\ Authentic(other)' <=> Authentic(other)
                /\ Gone(other)' <=> Gone(other)
    <2>1. /\ Denied(other)' <=> Denied(other)
          /\ Deadline(other)' = Deadline(other)
      BY <1>14, <1>6, <1>7 DEF Denied, Deadline, Mobile
    <2>2. other \in Swept' <=> other \in Swept
      BY <1>14, <1>3, <2>1 DEF Swept
    <2>3. QED
      BY <1>14, <1>3, <1>6, <2>1, <2>2 DEF Authentic, Gone
  <1>15. Authentic(id)' <=> ~Denied(id)'
    <2>1. ASSUME ~Denied(id)'
          PROVE  Deadline(id)' > clock'
      <3>1. Deadline(id)' = rec.expiresAt + Retention
        BY <2>1, <1>1, <1>6 DEF Deadline, Mobile
      <3>2. QED
        BY <3>1, <1>1, <1>2, <1>3
    <2>2. QED
      BY <2>1, <1>1, <1>3, <1>6 DEF Authentic, Swept
  <1>16. ~logout'[id].confirmed
    BY <1>4, <1>7 DEF NoLogout
  <1>17. Lasting
    BY <1>3, <1>5, <1>6, <1>7, <1>14 DEF Lasting, Denied
  <1>18. QED
    BY <1>6, <1>7, <1>8, <1>9, <1>10, <1>11, <1>12, <1>13, <1>14, <1>15, <1>16, <1>17 DEF rec

\* The clock ends sessions, and begins none.
LEMMA TickStore ==
  ASSUME StoreInv, Tick
  PROVE  StoreInv' /\ Lasting
  <1>1. StoreInv'
    BY StoreStep DEF StoreNext
  <1>2. [\A id \in Id : Used(id) /\ ~Authentic(id) => ~Authentic(id)']_storeVars
    BY <1>1, StoreNeverBack DEF StoreNext
  <1>3. clock' # clock
    BY DEF StoreInv, StoreTypeOK, Tick
  <1>4. ASSUME NEW id \in Id, Used(id), id \notin Swept
        PROVE  id \notin Swept'
    <2>1. record[id] \in Record /\ logout[id] \in Logout \cup {NoLogout}
      BY <1>4 DEF StoreInv, StoreTypeOK, Used
    <2>2. record[id].expiresAt \in Nat /\ logout[id].until \in Int
      BY <2>1 DEF Record, Logout, NoLogout
    <2>3. Deadline(id) \in Int /\ clock \in Nat /\ clock' = clock + 1
      BY <2>2, StoreAssumption DEF Deadline, StoreInv, StoreTypeOK, Tick
    <2>4. slots' = slots /\ Deadline(id)' = Deadline(id)
      BY DEF Tick, Deadline, Denied, Mobile
    <2>5. Deadline(id)' > clock' => Deadline(id) > clock
      BY <2>3, <2>4
    <2>6. QED
      BY <1>4, <2>4, <2>5 DEF Swept
  <1>5. UNCHANGED <<record, logout>>
    BY DEF Tick
  <1>6. \A id \in Id : Used(id) /\ ~Authentic(id) => ~Authentic(id)'
    BY <1>2, <1>3 DEF storeVars
  <1>7. QED
    BY <1>1, <1>4, <1>5, <1>6 DEF Lasting, Denied, Gone

-----------------------------------------------------------------------------
(* The slots and the aliases, step by step.                                *)

\* What no step takes back: UBID's responses and revocations.
Carries ==
    /\ capacity' = capacity
    /\ revoked \subseteq revoked'
    /\ \A i \in Issuance : receipt[i] # NoReceipt => receipt'[i] = receipt[i]

\* Aliases are left, or dropped when their slot has gone.
AliasesShrink ==
    \A i \in Issuance :
        /\ aliases'[i] \in {aliases[i], NoId}
        /\ aliases[i] \in slots' => aliases'[i] = aliases[i]

\* Settling keeps what the slots and the aliases say of each other.
LEMMA SettlesManaged ==
  ASSUME StoreInv, ManagedStore, Settles, Carries, AliasesShrink,
         \A id \in Id : logout'[id].confirmed =>
             logout[id].confirmed \/ record[id].issuance \in revoked
  PROVE  ManagedStore'
  <1> USE DEF ManagedStore
  <1>1. /\ slots' \subseteq slots /\ slots \subseteq Id
        /\ \A id \in Id : Used(id)' <=> Used(id)
        /\ record' = record
    BY SettlesStore DEF Settles, Used, StoreInv, StoreTypeOK
  <1>2. RecordsNative'
    BY <1>1 DEF RecordsNative, Carries
  <1>3. SlotsAliased'
    <2> SUFFICES ASSUME NEW id \in slots'
                 PROVE  aliases'[record[id].issuance] = id
      BY <1>1 DEF SlotsAliased
    <2>1. record[id].issuance \in Issuance /\ aliases[record[id].issuance] = id
      BY <1>1 DEF SlotsAliased, RecordsNative, StoreInv, OnlyUsed
    <2>2. QED
      BY <2>1 DEF AliasesShrink
  <1>4. AliasesOwned'
    <2> SUFFICES ASSUME NEW i \in Issuance, aliases'[i] # NoId
                 PROVE  record'[aliases'[i]] # NoRecord /\ record'[aliases'[i]].issuance = i
      BY DEF AliasesOwned, Used
    <2>1. aliases'[i] = aliases[i]
      BY DEF AliasesShrink
    <2>2. QED
      BY <2>1, <1>1 DEF AliasesOwned, Used
  <1>5. SlotsKept'
    <2> SUFFICES ASSUME NEW id \in Id, Used(id), id \notin slots'
                 PROVE  ~(Deadline(id)' > clock')
      BY <1>1 DEF SlotsKept
    <2>1. ~(Deadline(id) > clock)
      BY DEF Settles, Swept, SlotsKept
    <2>2. Deadline(id)' = Deadline(id)
      <3>1. CASE logout'[id] = logout[id]
        BY <3>1, SettlesLeaves
      <3>2. CASE logout'[id] # logout[id]
        <4>1. id \notin Swept
          BY DEF Settles, Swept
        <4>2. Denied(id)
          BY <3>2, <4>1 DEF Settles
        <4>3. QED
          BY <4>2, SettlesStore DEF Lasting, Deadline
      <3>3. QED
        BY <3>1, <3>2
    <2>3. QED
      BY <2>1, <2>2 DEF Settles
  <1>6. ConfirmedRevoked'
    BY <1>1 DEF ConfirmedRevoked, Carries
  <1>7. QED
    BY <1>2, <1>3, <1>4, <1>5, <1>6

\* The instance of a credential in its dates is the one it has an alias for: an
\* expired slot is kept until no response of its credential is valid.
LEMMA OneSession ==
  ASSUME StoreInv, ManagedStore, NEW i \in Issuance, receipt[i] \in Receipt, InDates(i),
         NEW id \in Id, Used(id), record[id].issuance = i
  PROVE  id \in slots /\ aliases[i] = id
  <1> USE DEF StoreInv, ManagedStore
  <1>1. record[id].expiresAt = receipt[i].to /\ Mobile(id)
    BY DEF RecordsNative, Mobile
  <1>2. clock \in Nat /\ receipt[i].to \in Nat /\ clock < receipt[i].to /\ Retention \in Nat
    BY StoreAssumption DEF InDates, Receipt, StoreTypeOK
  <1>3. Deadline(id) > clock
    <2>1. CASE Denied(id)
      <3>1. logout[id].until >= receipt[i].to /\ logout[id] \in Logout
        BY <2>1, <1>1 DEF DenialOutlivesCredential, StoreTypeOK, Denied
      <3>2. logout[id].until \in Nat
        BY <3>1 DEF Logout
      <3>3. QED
        BY <2>1, <3>1, <3>2, <1>2 DEF Deadline
    <2>2. CASE ~Denied(id)
      <3>1. Deadline(id) = receipt[i].to + Retention
        BY <2>2, <1>1 DEF Deadline
      <3>2. QED
        BY <3>1, <1>2
    <2>3. QED
      BY <2>1, <2>2
  <1>4. id \in slots
    BY <1>3 DEF SlotsKept
  <1>5. QED
    BY <1>4 DEF SlotsAliased

\* So does the creation of a session.
LEMMA CreateManaged ==
  ASSUME StoreInv, ManagedStore, NativeTypeOK, NEW id \in Id, NEW i \in Issuance,
         receipt[i] \in Receipt, receipt[i] # NoReceipt,
         Creates(id, i), aliases[i] = NoId, aliases' = [aliases EXCEPT ![i] = id], Carries
  PROVE  ManagedStore'
  <1> USE DEF ManagedStore
  <1>1. /\ StoreInv'
        /\ record'[id] = NativeRecord(i) /\ ~logout'[id].confirmed
        /\ \A other \in Id : other # id =>
              record'[other] = record[other] /\ logout'[other] = logout[other]
    BY CreateStore
  <1>2. /\ NativeRecord(i).kind = MobileV2 /\ NativeRecord(i).issuance = i
        /\ NativeRecord(i).expiresAt = receipt[i].to
    BY NativeRecordGood DEF Creates
  <1>3. /\ ~Used(id) /\ slots' = Swept \cup {id} /\ clock' = clock
        /\ slots \subseteq Id
    BY DEF Creates, StoreInv, StoreTypeOK
  <1>4. /\ aliases'[i] = id
        /\ \A j \in Issuance : j # i => aliases'[j] = aliases[j]
    BY DEF NativeTypeOK
  <1>5. \A other \in Id : other # id => (Used(other)' <=> Used(other))
    BY <1>1 DEF Used
  <1>6. RecordsNative'
    BY <1>1, <1>2, <1>5 DEF RecordsNative, Carries
  <1>7. SlotsAliased'
    <2> SUFFICES ASSUME NEW other \in slots'
                 PROVE  aliases'[record'[other].issuance] = other
      BY DEF SlotsAliased
    <2>1. CASE other = id
      BY <2>1, <1>1, <1>2, <1>4
    <2>2. CASE other # id
      <3>1. other \in slots /\ other \in Id /\ record'[other] = record[other]
        BY <2>2, <1>1, <1>3, SweptFinite DEF StoreInv
      <3>2. /\ aliases[record[other].issuance] = other
            /\ record[other].issuance \in Issuance
        BY <3>1 DEF SlotsAliased, RecordsNative, StoreInv, OnlyUsed
      <3>3. record[other].issuance # i
        BY <3>1, <3>2, NativeAssumption
      <3>4. QED
        BY <3>1, <3>2, <3>3, <1>4
    <2>3. QED
      BY <2>1, <2>2
  <1>8. AliasesOwned'
    <2> SUFFICES ASSUME NEW j \in Issuance, aliases'[j] # NoId
                 PROVE  record'[aliases'[j]] # NoRecord /\ record'[aliases'[j]].issuance = j
      BY DEF AliasesOwned, Used
    <2>1. CASE j = i
      BY <2>1, <1>1, <1>2, <1>4, CreateStore DEF Used
    <2>2. CASE j # i
      <3>1. /\ aliases'[j] = aliases[j] /\ Used(aliases[j])
            /\ record[aliases[j]].issuance = j /\ aliases[j] \in Id
        BY <2>2, <1>4 DEF AliasesOwned, NativeTypeOK
      <3>2. aliases[j] # id
        BY <3>1, <1>3
      <3>3. QED
        BY <3>1, <3>2, <1>1 DEF Used
    <2>3. QED
      BY <2>1, <2>2
  <1>9. SlotsKept'
    <2> SUFFICES ASSUME NEW other \in Id, Used(other)', other \notin slots'
                 PROVE  ~(Deadline(other)' > clock')
      BY DEF SlotsKept
    <2>1. other # id /\ other \notin Swept
      BY <1>3
    <2>2. Deadline(other)' = Deadline(other) /\ Used(other)
      BY <2>1, <1>1, <1>5 DEF Deadline, Denied, Mobile
    <2>3. ~(Deadline(other) > clock)
      BY <2>1, <2>2 DEF SlotsKept, Swept
    <2>4. QED
      BY <2>2, <2>3, <1>3
  <1>10. ConfirmedRevoked'
    BY <1>1, <1>5 DEF ConfirmedRevoked, Carries
  <1>11. QED
    BY <1>6, <1>7, <1>8, <1>9, <1>10

\* So does the clock.
LEMMA TickManaged ==
  ASSUME StoreInv, ManagedStore, Tick, Carries, aliases' = aliases
  PROVE  ManagedStore'
  <1> USE DEF ManagedStore
  <1>1. UNCHANGED <<record, slots, logout>> /\ clock' = clock + 1
    BY DEF Tick
  <1>2. RecordsNative' /\ SlotsAliased' /\ AliasesOwned' /\ ConfirmedRevoked'
    BY <1>1 DEF RecordsNative, SlotsAliased, AliasesOwned, ConfirmedRevoked, Carries, Used
  <1>3. SlotsKept'
    <2> SUFFICES ASSUME NEW id \in Id, Used(id), id \notin slots
                 PROVE  ~(Deadline(id)' > clock')
      BY <1>1 DEF SlotsKept, Used
    <2>1. ~(Deadline(id) > clock) /\ Deadline(id)' = Deadline(id)
      BY <1>1 DEF SlotsKept, Deadline, Denied, Mobile
    <2>2. record[id] \in Record /\ logout[id] \in Logout \cup {NoLogout}
      BY DEF StoreInv, StoreTypeOK, Used
    <2>3. record[id].expiresAt \in Nat /\ logout[id].until \in Int
      BY <2>2 DEF Record, Logout, NoLogout
    <2>4. Deadline(id) \in Int /\ clock \in Nat
      BY <2>3, StoreAssumption DEF Deadline, StoreInv, StoreTypeOK
    <2>5. QED
      BY <2>1, <2>4, <1>1
  <1>4. QED
    BY <1>2, <1>3

-----------------------------------------------------------------------------
(* The queues of serialize().                                              *)

\* A call that stays where it is, leaves for UBID at the head of its queue, or
\* never was in a queue.
LEMMA QueueStays ==
  ASSUME NativeTypeOK, QueueInv, NEW p \in Proc, NEW j \in Job,
         job' = [job EXCEPT ![p] = j], locks' = locks,
         \A i \in Issuance : Waits(job[p], i) => Waits(j, i),
         Runs(j) => j.iss \in Issuance /\ First(p, j.iss)
  PROVE  QueueInv'
  <1>1. job'[p] = j /\ \A q \in Proc : q # p => job'[q] = job[q]
    BY DEF NativeTypeOK
  <1>2. \A i \in Issuance : \A k \in 1 .. Len(locks[i]) : locks[i][k] \in Proc
    BY DEF NativeTypeOK
  <1>3. \A i \in Issuance : \A k \in 1 .. Len(locks[i]) : Waits(job'[locks[i][k]], i)
    BY <1>1, <1>2 DEF QueueInv
  <1>4. \A q \in Proc :
            Runs(job'[q]) => job'[q].iss \in Issuance /\ First(q, job'[q].iss)
    BY <1>1 DEF QueueInv
  <1>5. QED
    BY <1>3, <1>4 DEF QueueInv, First, Waits, Runs

\* A call joins at the end.
LEMMA QueueJoins ==
  ASSUME NativeTypeOK, QueueInv, NEW p \in Proc, NEW i \in Issuance, NEW j \in Job,
         job[p].at = "done", j.at = "queued", Waits(j, i),
         job' = [job EXCEPT ![p] = j], locks' = [locks EXCEPT ![i] = Append(@, p)]
  PROVE  QueueInv'
  <1>1. job'[p] = j /\ \A q \in Proc : q # p => job'[q] = job[q]
    BY DEF NativeTypeOK
  <1>2. /\ locks[i] \in Seq(Proc) /\ locks'[i] = Append(locks[i], p)
        /\ \A h \in Issuance : h # i => locks'[h] = locks[h]
    BY DEF NativeTypeOK
  <1>3. /\ Len(locks'[i]) = Len(locks[i]) + 1 /\ Len(locks[i]) \in Nat
        /\ locks'[i][Len(locks[i]) + 1] = p
        /\ \A k \in 1 .. Len(locks[i]) : locks'[i][k] = locks[i][k]
    BY <1>2
  <1>4. \A h \in Issuance : \A k \in 1 .. Len(locks[h]) :
            locks[h][k] \in Proc /\ locks[h][k] # p
    BY DEF NativeTypeOK, QueueInv, Waits
  <1>5. \A h \in Issuance : \A k \in 1 .. Len(locks'[h]) : Waits(job'[locks'[h][k]], h)
    <2> SUFFICES ASSUME NEW h \in Issuance, NEW k \in 1 .. Len(locks'[h])
                 PROVE  Waits(job'[locks'[h][k]], h)
      OBVIOUS
    <2>1. CASE h # i
      BY <2>1, <1>1, <1>2, <1>4 DEF QueueInv
    <2>2. CASE h = i /\ k \in 1 .. Len(locks[i])
      BY <2>2, <1>1, <1>3, <1>4 DEF QueueInv
    <2>3. CASE h = i /\ k = Len(locks[i]) + 1
      BY <2>3, <1>1, <1>3
    <2>4. QED
      BY <2>1, <2>2, <2>3, <1>3
  <1>6. \A h \in Issuance : \A k, l \in 1 .. Len(locks'[h]) :
            locks'[h][k] = locks'[h][l] => k = l
    <2> SUFFICES ASSUME NEW h \in Issuance, NEW k \in 1 .. Len(locks'[h]),
                        NEW l \in 1 .. Len(locks'[h]), locks'[h][k] = locks'[h][l]
                 PROVE  k = l
      OBVIOUS
    <2>1. CASE h # i
      BY <2>1, <1>2 DEF QueueInv
    <2>2. CASE h = i
      <3>1. k \in 1 .. Len(locks[i]) \/ k = Len(locks[i]) + 1
        BY <2>2, <1>3
      <3>2. l \in 1 .. Len(locks[i]) \/ l = Len(locks[i]) + 1
        BY <2>2, <1>3
      <3>3. QED
        BY <3>1, <3>2, <2>2, <1>3, <1>4 DEF QueueInv
    <2>3. QED
      BY <2>1, <2>2
  <1>7. \A h \in Issuance, q \in Proc :
            First(q, h) => locks'[h] # <<>> /\ Head(locks'[h]) = q
    <2> SUFFICES ASSUME NEW h \in Issuance, NEW q \in Proc, First(q, h)
                 PROVE  locks'[h] # <<>> /\ Head(locks'[h]) = q
      OBVIOUS
    <2>1. CASE h # i
      BY <2>1, <1>2 DEF First
    <2>2. CASE h = i
      <3>1. Len(locks[i]) > 0
        BY <2>2, <1>2 DEF First
      <3>2. locks'[i] \in Seq(Proc) /\ locks'[i] # <<>>
        BY <1>2, <1>3
      <3>3. Head(locks'[i]) = locks'[i][1] /\ Head(locks[i]) = locks[i][1]
        BY <1>2, <2>2, <3>2 DEF First
      <3>4. QED
        BY <2>2, <3>1, <3>2, <3>3, <1>3 DEF First
    <2>3. QED
      BY <2>1, <2>2
  <1>8. \A q \in Proc : Runs(job'[q]) =>
            /\ job'[q].iss \in Issuance
            /\ locks'[job'[q].iss] # <<>> /\ Head(locks'[job'[q].iss]) = q
    BY <1>1, <1>7 DEF QueueInv, Runs
  <1>9. QED
    BY <1>5, <1>6, <1>8 DEF QueueInv, First, Waits, Runs

\* The call at the head of a queue is done and leaves it.
LEMMA QueueLeaves ==
  ASSUME NativeTypeOK, QueueInv, NEW p \in Proc, NEW i \in Issuance, NEW j \in Job,
         First(p, i), job[p].iss = i, j.at = "done",
         job' = [job EXCEPT ![p] = j], locks' = [locks EXCEPT ![i] = Tail(@)]
  PROVE  QueueInv'
  <1>1. job'[p] = j /\ \A q \in Proc : q # p => job'[q] = job[q]
    BY DEF NativeTypeOK
  <1>2. /\ locks[i] \in Seq(Proc) /\ locks'[i] = Tail(locks[i])
        /\ \A h \in Issuance : h # i => locks'[h] = locks[h]
        /\ locks[i] # <<>> /\ Head(locks[i]) = p
    BY DEF NativeTypeOK, First
  <1>3. /\ Len(locks'[i]) = Len(locks[i]) - 1 /\ Len(locks[i]) \in Nat /\ Len(locks[i]) > 0
        /\ \A k \in 1 .. Len(locks'[i]) : locks'[i][k] = locks[i][k + 1]
    <2>1. Len(locks[i]) \in Nat \ {0}
      BY <1>2, EmptySeq
    <2>2. /\ Len(Tail(locks[i])) = Len(locks[i]) - 1
          /\ \A k \in 1 .. Len(Tail(locks[i])) : Tail(locks[i])[k] = locks[i][k + 1]
      BY <1>2, HeadTailProperties, Zenon
    <2>3. /\ Len(locks'[i]) = Len(locks[i]) - 1
          /\ \A k \in 1 .. Len(locks'[i]) : locks'[i][k] = locks[i][k + 1]
      BY <1>2, <2>2, Zenon
    <2>4. Len(locks[i]) > 0
      BY <2>1
    <2>5. QED
      BY <2>1, <2>3, <2>4, Zenon
  <1>4. locks[i][1] = p
    BY <1>2
  <1>5. \A h \in Issuance : \A k \in 1 .. Len(locks[h]) : locks[h][k] \in Proc
    BY DEF NativeTypeOK
  <1>6. \A h \in Issuance : h # i =>
            \A k \in 1 .. Len(locks[h]) : locks[h][k] # p
    BY DEF QueueInv, Waits
  <1>7. \A k \in 1 .. Len(locks'[i]) :
            k + 1 \in 1 .. Len(locks[i]) /\ k + 1 # 1 /\ locks'[i][k] = locks[i][k + 1]
    BY <1>3
  <1>8. \A k \in 1 .. Len(locks'[i]) : locks'[i][k] # p
    <2> SUFFICES ASSUME NEW k \in 1 .. Len(locks'[i]), locks'[i][k] = p
                 PROVE  FALSE
      OBVIOUS
    <2>1. 1 \in 1 .. Len(locks[i]) /\ k + 1 \in 1 .. Len(locks[i]) /\ k + 1 # 1
      BY <1>3, <1>7
    <2>2. locks[i][k + 1] = locks[i][1]
      BY <1>4, <1>7
    <2>3. QED
      BY <2>1, <2>2 DEF QueueInv
  <1>9. \A h \in Issuance : \A k \in 1 .. Len(locks'[h]) : Waits(job'[locks'[h][k]], h)
    <2> SUFFICES ASSUME NEW h \in Issuance, NEW k \in 1 .. Len(locks'[h])
                 PROVE  Waits(job'[locks'[h][k]], h)
      OBVIOUS
    <2>1. CASE h # i
      BY <2>1, <1>1, <1>2, <1>5, <1>6 DEF QueueInv
    <2>2. CASE h = i
      <3>1. locks'[i][k] = locks[i][k + 1] /\ k + 1 \in 1 .. Len(locks[i]) /\ locks'[i][k] # p
        BY <2>2, <1>7, <1>8
      <3>2. job'[locks'[i][k]] = job[locks[i][k + 1]]
        BY <3>1, <1>1, <1>5
      <3>3. Waits(job[locks[i][k + 1]], i)
        BY <3>1 DEF QueueInv
      <3>4. QED
        BY <2>2, <3>2, <3>3
    <2>3. QED
      BY <2>1, <2>2
  <1>10. \A h \in Issuance : \A k, l \in 1 .. Len(locks'[h]) :
            locks'[h][k] = locks'[h][l] => k = l
    <2> SUFFICES ASSUME NEW h \in Issuance, NEW k \in 1 .. Len(locks'[h]),
                        NEW l \in 1 .. Len(locks'[h]), locks'[h][k] = locks'[h][l]
                 PROVE  k = l
      OBVIOUS
    <2>1. CASE h # i
      BY <2>1, <1>2 DEF QueueInv
    <2>2. CASE h = i
      <3>1. /\ k + 1 \in 1 .. Len(locks[i]) /\ l + 1 \in 1 .. Len(locks[i])
            /\ locks[i][k + 1] = locks[i][l + 1]
        BY <2>2, <1>7
      <3>2. k + 1 = l + 1
        BY <3>1 DEF QueueInv
      <3>3. QED
        BY <3>2
    <2>3. QED
      BY <2>1, <2>2
  <1>11. \A q \in Proc : Runs(job'[q]) =>
            /\ job'[q].iss \in Issuance
            /\ locks'[job'[q].iss] # <<>> /\ Head(locks'[job'[q].iss]) = q
    <2> SUFFICES ASSUME NEW q \in Proc, Runs(job'[q])
                 PROVE  /\ job'[q].iss \in Issuance
                        /\ locks'[job'[q].iss] # <<>> /\ Head(locks'[job'[q].iss]) = q
      OBVIOUS
    <2>1. q # p /\ job'[q] = job[q]
      BY <1>1 DEF Runs
    <2>2. job[q].iss \in Issuance /\ First(q, job[q].iss)
      BY <2>1 DEF QueueInv
    <2>3. job[q].iss # i
      BY <2>1, <2>2, <1>2 DEF First
    <2>4. QED
      BY <2>1, <2>2, <2>3, <1>2 DEF First
  <1>12. QED
    BY <1>9, <1>10, <1>11 DEF QueueInv, First, Waits, Runs

\* At most one call of a credential is under way.
LEMMA OneRuns ==
  ASSUME QueueInv, NEW p \in Proc, NEW q \in Proc, Runs(job[p]), Runs(job[q]),
         job[p].iss = job[q].iss
  PROVE  p = q
  BY DEF QueueInv, First

-----------------------------------------------------------------------------
(* The calls, step by step.                                                *)

\* The call moves, and keeps what it is about.
Moved(j, k, at, ok, reply) ==
    /\ j \in Job
    /\ j.op = k.op /\ j.id = k.id /\ j.iss = k.iss /\ j.late = k.late
    /\ j.at = at /\ j.ok = ok /\ j.reply = reply

Started(j, op, id, i, at, reply) ==
    /\ j \in Job
    /\ j.op = op /\ j.id = id /\ j.iss = i /\ j.at = at /\ j.ok = FALSE
    /\ j.late = (op = "read" /\ record[id].issuance \in revoked)
    /\ j.reply = reply

\* What each effect on a call leaves of its record: it begins.
LEMMA StartJob ==
  ASSUME NativeTypeOK, NEW p \in Proc, NEW op \in {"read", "install", "logout", "cancel"},
         NEW id \in Id \cup {NoId}, NEW i \in Issuance \cup {NoIssuance},
         NEW at \in {"queued", "calling", "done"},
         NEW reply \in {"none", "anonymous", "unavailable"},
         Start(p, op, id, i, at, reply)
  PROVE  \E j \in Job : job' = [job EXCEPT ![p] = j] /\ Started(j, op, id, i, at, reply)
  <1> DEFINE j == [op |-> op, id |-> id, iss |-> i, at |-> at, ok |-> FALSE,
                   late |-> op = "read" /\ record[id].issuance \in revoked, reply |-> reply]
  <1>1. j \in Job
    BY DEF Job
  <1>2. job' = [job EXCEPT ![p] = j]
    BY DEF Start
  <1>3. Started(j, op, id, i, at, reply)
    BY <1>1 DEF Started
  <1>4. QED
    BY <1>1, <1>2, <1>3

\* It leaves for UBID.
LEMMA CallJob ==
  ASSUME NativeTypeOK, NEW p \in Proc, Call(p)
  PROVE  \E j \in Job : /\ job' = [job EXCEPT ![p] = j]
                        /\ Moved(j, job[p], "calling", job[p].ok, job[p].reply)
  <1> DEFINE j == [job[p] EXCEPT !.at = "calling"]
  <1>1. job[p] \in Job
    BY DEF NativeTypeOK
  <1>2. j \in Job /\ Moved(j, job[p], "calling", job[p].ok, job[p].reply)
    BY <1>1 DEF Job, Moved
  <1>3. job' = [job EXCEPT ![p] = j]
    BY DEF Call
  <1>4. QED
    BY <1>2, <1>3

\* UBID has answered, or the answer is lost.
LEMMA AnswerJob ==
  ASSUME NativeTypeOK, NEW p \in Proc, NEW ok \in BOOLEAN, Answer(p, ok)
  PROVE  \E j \in Job : /\ job' = [job EXCEPT ![p] = j]
                        /\ Moved(j, job[p], "answered", ok, job[p].reply)
  <1> DEFINE j == [job[p] EXCEPT !.at = "answered", !.ok = ok]
  <1>1. job[p] \in Job
    BY DEF NativeTypeOK
  <1>2. j \in Job /\ Moved(j, job[p], "answered", ok, job[p].reply)
    BY <1>1 DEF Job, Moved
  <1>3. job' = [job EXCEPT ![p] = j]
    BY DEF Answer, NativeTypeOK
  <1>4. QED
    BY <1>2, <1>3

\* It is answered.
LEMMA FinishJob ==
  ASSUME NativeTypeOK, NEW p \in Proc,
         NEW reply \in {"anonymous", "authenticated", "unavailable", "confirmed", "cancelled"},
         Finish(p, reply)
  PROVE  \E j \in Job : /\ job' = [job EXCEPT ![p] = j]
                        /\ Moved(j, job[p], "done", job[p].ok, reply)
  <1> DEFINE j == [job[p] EXCEPT !.at = "done", !.reply = reply]
  <1>1. job[p] \in Job
    BY DEF NativeTypeOK
  <1>2. j \in Job /\ Moved(j, job[p], "done", job[p].ok, reply)
    BY <1>1 DEF Job, Moved
  <1>3. job' = [job EXCEPT ![p] = j]
    BY DEF Finish, NativeTypeOK
  <1>4. QED
    BY <1>2, <1>3

\* It is an install that gives a session.
LEMMA InstalledJob ==
  ASSUME NativeTypeOK, NEW p \in Proc, NEW id \in Id,
         job' = [job EXCEPT ![p].at = "done", ![p].reply = "installed", ![p].id = id]
  PROVE  \E j \in Job : /\ job' = [job EXCEPT ![p] = j]
                        /\ j.op = job[p].op /\ j.iss = job[p].iss /\ j.late = job[p].late
                        /\ j.at = "done" /\ j.reply = "installed" /\ j.id = id
  <1> DEFINE j == [job[p] EXCEPT !.at = "done", !.reply = "installed", !.id = id]
  <1>1. job[p] \in Job
    BY DEF NativeTypeOK
  <1>2. /\ j \in Job
        /\ j.op = job[p].op /\ j.iss = job[p].iss /\ j.late = job[p].late
        /\ j.at = "done" /\ j.reply = "installed" /\ j.id = id
    BY <1>1 DEF Job
  <1>3. job' = [job EXCEPT ![p] = j]
    BY DEF NativeTypeOK
  <1>4. QED
    BY <1>2, <1>3

\* A session of the credential begins.
Presents(i) == \E id \in Id : ~Used(id) /\ record'[id] # NoRecord /\ record'[id].issuance = i

Cancelling(j) == j.reply = "cancelled" \/ (j.op = "cancel" /\ Runs(j))

\* What a call relies on lasts, unless a session of a cancelled credential begins.
LEMMA JobLasts ==
  ASSUME StoreInv, StoreInv', Lasting, Carries, NEW j \in Job, JobGood(j),
         Cancelling(j) => ~Presents(j.iss)
  PROVE  JobGood(j)'
  <1>0. LogoutGood(j)'
    BY DEF JobGood, LogoutGood, Lasting, Used
  <1>1. ASSUME NoneOf(j.iss), Cancelling(j)
        PROVE  NoneOf(j.iss)'
    <2> SUFFICES ASSUME NEW id \in Id, record'[id].issuance = j.iss, Authentic(id)'
                 PROVE  FALSE
      BY DEF NoneOf
    <2>1. Used(id)'
      BY DEF Authentic, Swept, StoreInv, OnlyUsed
    <2>2. Used(id)
      BY <2>1, <1>1 DEF Presents, Used
    <2>3. record[id].issuance = j.iss /\ Authentic(id)
      BY <2>2 DEF Lasting
    <2>4. QED
      BY <2>3, <1>1 DEF NoneOf
  <1>2. CancelGood(j)'
    BY <1>1 DEF JobGood, CancelGood, Cancelling, Carries
  <1>3. j.at # "done" => OpenGood(j)'
    <2> SUFFICES ASSUME j.at # "done"
                 PROVE  OpenGood(j)'
      OBVIOUS
    <2>1. OpenGood(j)
      BY DEF JobGood
    <2>2. j.op \in {"read", "logout"} =>
              j.id \in Id /\ Used(j.id)' /\ j.iss = record'[j.id].issuance
      BY <2>1 DEF OpenGood, Lasting, Used
    <2>3. j.op = "logout" => Denied(j.id)'
      BY <2>1 DEF OpenGood, Lasting
    <2>4. j.op = "cancel" /\ Runs(j) => NoneOf(j.iss)'
      BY <2>1, <1>1 DEF OpenGood, Cancelling
    <2>5. QED
      BY <2>1, <2>2, <2>3, <2>4 DEF OpenGood, Carries, Runs
  <1>4. QED
    BY <1>0, <1>2, <1>3 DEF JobGood

\* One call changes and what it comes to rely on is there.
LEMMA JobsLast ==
  ASSUME NativeTypeOK, StoreInv, StoreInv', Lasting, Carries,
         \A q \in Proc : JobGood(job[q]),
         NEW p \in Proc, NEW j \in Job, job' = [job EXCEPT ![p] = j], JobGood(j)',
         \A q \in Proc : q # p /\ Cancelling(job[q]) => ~Presents(job[q].iss)
  PROVE  (\A q \in Proc : JobGood(job[q]))'
  <1>1. job'[p] = j /\ \A q \in Proc : q # p => job'[q] = job[q] /\ job[q] \in Job
    BY DEF NativeTypeOK
  <1>2. ASSUME NEW q \in Proc, NEW k \in Job, k = job'[q]
        PROVE  JobGood(k)'
    <2>1. CASE q = p
      BY <2>1, <1>1, <1>2
    <2>2. CASE q # p
      <3>1. k = job[q]
        BY <2>2, <1>1, <1>2
      <3>2. JobGood(k) /\ (Cancelling(k) => ~Presents(k.iss))
        BY <2>2, <3>1
      <3>3. QED
        BY <3>2, JobLasts
    <2>3. QED
      BY <2>1, <2>2
  <1>3. \A q \in Proc : job'[q] \in Job
    BY <1>1
  <1>4. ASSUME NEW q \in Proc
        PROVE  JobGood(job[q])'
    <2>1. PICK k \in Job : k = job'[q]
      BY <1>3
    <2>2. JobGood(k)'
      BY <1>2, <2>1
    <2>3. QED
      BY <2>1, <2>2 DEF JobGood, OpenGood, CancelGood, LogoutGood, Runs
  <1>5. QED
    BY <1>4

\* One call changes: no install of a cancelled credential becomes hopeful.
LEMMA UncancelledStays ==
  ASSUME NativeTypeOK, Uncancelled, NEW p \in Proc, NEW j \in Job,
         job' = [job EXCEPT ![p] = j],
         Hopeful(j) => j.reply # "cancelled",
         \A q \in Proc : Hopeful(j) /\ job[q].reply = "cancelled" => j.iss # job[q].iss,
         \A q \in Proc : q # p /\ Hopeful(job[q]) /\ j.reply = "cancelled" => job[q].iss # j.iss
  PROVE  Uncancelled'
  <1>1. job'[p] = j /\ \A q \in Proc : q # p => job'[q] = job[q]
    BY DEF NativeTypeOK
  <1>2. \A q, r \in Proc :
            Hopeful(job'[q]) /\ job'[r].reply = "cancelled" => job'[q].iss # job'[r].iss
    <2> SUFFICES ASSUME NEW q \in Proc, NEW r \in Proc, Hopeful(job'[q]),
                        job'[r].reply = "cancelled"
                 PROVE  job'[q].iss # job'[r].iss
      OBVIOUS
    <2>1. CASE q = p
      BY <2>1, <1>1
    <2>2. CASE q # p /\ r = p
      BY <2>2, <1>1
    <2>3. CASE q # p /\ r # p
      BY <2>3, <1>1 DEF Uncancelled
    <2>4. QED
      BY <2>1, <2>2, <2>3
  <1>3. QED
    BY <1>2 DEF Uncancelled, Hopeful

-----------------------------------------------------------------------------
(* What the state says of Presentation.                                    *)

View(j) == [op |-> j.op, id |-> j.id,
            iss |-> IF j.op \in {"install", "cancel"} THEN j.iss ELSE NoIssuance,
            late |-> j.late, reply |-> j.reply, open |-> j.at # "done"]

SessionIs(id) ==
    /\ Sessions[id] \in {"new", "denied", "presented", "ended"}
    /\ Sessions[id] = "new" <=> ~Used(id)
    /\ Sessions[id] = "denied" <=> Denied(id)
    /\ Sessions[id] = "presented" <=> Authentic(id)
    /\ Credentials[id] = record[id].issuance

\* Where there is a manager, the mapped session is what its slot says.
LEMMA SessionFacts ==
  ASSUME StoreInv, capacity # 0
  PROVE  \A id \in Id : SessionIs(id)
  <1> SUFFICES ASSUME NEW id \in Id
               PROVE  SessionIs(id)
    OBVIOUS
  <1>1. Denied(id) => Used(id)
    BY DEF StoreInv, OnlyUsed
  <1>2. Authentic(id) => Used(id) /\ ~Denied(id)
    BY DEF Authentic, Swept, StoreInv, OnlyUsed
  <1>3. Sessions[id] = IF ~Used(id) \/ capacity = 0 THEN "new"
                     ELSE IF Denied(id) THEN "denied"
                     ELSE IF Authentic(id) THEN "presented" ELSE "ended"
    BY DEF Sessions
  <1>4. Credentials[id] = record[id].issuance
    BY DEF Credentials
  <1>5. QED
    BY <1>1, <1>2, <1>3, <1>4 DEF SessionIs

\* The same after the step.
LEMMA SessionFactsNext ==
  ASSUME StoreInv', capacity' # 0
  PROVE  \A id \in Id : SessionIs(id)'
  <1> SUFFICES ASSUME NEW id \in Id
               PROVE  SessionIs(id)'
    OBVIOUS
  <1>1. Denied(id)' => Used(id)'
    BY DEF StoreInv, OnlyUsed
  <1>2. Authentic(id)' => Used(id)' /\ ~Denied(id)'
    BY DEF Authentic, Swept, StoreInv, OnlyUsed
  <1>3. Sessions'[id] = IF ~Used(id)' \/ capacity' = 0 THEN "new"
                      ELSE IF Denied(id)' THEN "denied"
                      ELSE IF Authentic(id)' THEN "presented" ELSE "ended"
    BY DEF Sessions
  <1>4. Credentials'[id] = record'[id].issuance
    BY DEF Credentials
  <1>5. QED
    BY <1>1, <1>2, <1>3, <1>4 DEF SessionIs

\* The mapped functions are equal when they agree on every session.
LEMMA SessionsDomain ==
  /\ Sessions = [id \in Id |-> Sessions[id]] /\ Credentials = [id \in Id |-> Credentials[id]]
  /\ Sessions' = [id \in Id |-> Sessions'[id]]
  /\ Credentials' = [id \in Id |-> Credentials'[id]]
  BY DEF Sessions, Credentials

\* Nothing is denied: the sessions are what they were.
LEMMA SettlesView ==
  ASSUME StoreInv, Settles, capacity # 0, capacity' = capacity,
         \A id \in Id : Denied(id)' <=> Denied(id)
  PROVE  UNCHANGED <<Sessions, Credentials>>
  <1>1. StoreInv'
    BY SettlesStore
  <1>2. (\A id \in Id : SessionIs(id)) /\ (\A id \in Id : SessionIs(id)')
    BY <1>1, SessionFacts, SessionFactsNext
  <1>3. ASSUME NEW id \in Id
        PROVE  Sessions'[id] = Sessions[id] /\ Credentials'[id] = Credentials[id]
    <2>1. Used(id)' <=> Used(id)
      BY DEF Settles, Used
    <2>2. Authentic(id)' <=> Authentic(id)
      <3>1. CASE Denied(id)
        BY <3>1 DEF Authentic
      <3>2. CASE ~Denied(id)
        <4>1. logout'[id] = logout[id]
          BY <3>2 DEF Denied
        <4>2. QED
          BY <4>1, SettlesLeaves
      <3>3. QED
        BY <3>1, <3>2
    <2>3. record'[id] = record[id]
      BY DEF Settles
    <2>4. QED
      BY <2>1, <2>2, <2>3, <1>2 DEF SessionIs
  <1>4. QED
    BY <1>3, SessionsDomain

\* Presentation sees the denial of one session.
LEMMA DenyView ==
  ASSUME StoreInv, NEW id \in Id, Denies(id), capacity # 0, capacity' = capacity
  PROVE  /\ Sessions' = [Sessions EXCEPT ![id] = "denied"]
         /\ Credentials' = Credentials
  <1>1. /\ Settles /\ Used(id) /\ Denied(id)'
        /\ \A other \in Id : other # id => logout'[other] = logout[other]
    BY DenySettles
  <1>2. StoreInv'
    BY <1>1, SettlesStore
  <1>3. (\A other \in Id : SessionIs(other)) /\ (\A other \in Id : SessionIs(other)')
    BY <1>2, SessionFacts, SessionFactsNext
  <1>4. Sessions'[id] = "denied"
    BY <1>1, <1>3 DEF SessionIs
  <1>5. ASSUME NEW other \in Id, other # id
        PROVE  Sessions'[other] = Sessions[other]
    <2>1. /\ Authentic(other)' <=> Authentic(other)
          /\ Denied(other)' <=> Denied(other)
      BY <1>1, <1>5, SettlesLeaves
    <2>2. Used(other)' <=> Used(other)
      BY <1>1 DEF Settles, Used
    <2>3. QED
      BY <2>1, <2>2, <1>3 DEF SessionIs
  <1>6. Credentials' = Credentials
    BY <1>1 DEF Credentials, Settles
  <1>7. QED
    BY <1>4, <1>5, <1>6, SessionsDomain

\* Presentation sees the creation of one session.
LEMMA CreateView ==
  ASSUME StoreInv, NEW id \in Id, NEW i \in Issuance, receipt[i] \in Receipt, Creates(id, i),
         capacity # 0, capacity' = capacity
  PROVE  /\ Sessions' = [Sessions EXCEPT ![id] = IF Denied(id)' THEN "denied" ELSE "presented"]
         /\ Credentials' = [Credentials EXCEPT ![id] = i]
         /\ Sessions[id] = "new" /\ Credentials[id] = NoIssuance
  <1>1. /\ StoreInv'
        /\ record'[id] = NativeRecord(i) /\ Used(id)'
        /\ Authentic(id)' <=> ~Denied(id)'
        /\ \A other \in Id : other # id =>
              /\ record'[other] = record[other] /\ logout'[other] = logout[other]
              /\ Authentic(other)' <=> Authentic(other)
    BY CreateStore
  <1>2. (\A other \in Id : SessionIs(other)) /\ (\A other \in Id : SessionIs(other)')
    BY <1>1, SessionFacts, SessionFactsNext
  <1>3. ~Used(id) /\ record[id] = NoRecord /\ NoRecord.issuance = NoIssuance
    BY DEF Creates, Used, NoRecord
  <1>4. NativeRecord(i).issuance = i
    BY DEF NativeRecord
  <1>5. Sessions'[id] = (IF Denied(id)' THEN "denied" ELSE "presented") /\ Credentials'[id] = i
    BY <1>1, <1>2, <1>4 DEF SessionIs
  <1>6. ASSUME NEW other \in Id, other # id
        PROVE  Sessions'[other] = Sessions[other] /\ Credentials'[other] = Credentials[other]
    <2>1. /\ Used(other)' <=> Used(other)
          /\ Denied(other)' <=> Denied(other)
          /\ Authentic(other)' <=> Authentic(other)
          /\ record'[other] = record[other]
      BY <1>1, <1>6 DEF Used, Denied
    <2>2. QED
      BY <2>1, <1>2 DEF SessionIs
  <1>7. QED
    BY <1>2, <1>3, <1>5, <1>6, SessionsDomain DEF SessionIs

\* The call of one request changes.
LEMMA CallsView ==
  ASSUME NativeTypeOK, NEW p \in Proc, NEW j \in Job, job' = [job EXCEPT ![p] = j]
  PROVE  /\ Calls' = [Calls EXCEPT ![p] = View(j)]
         /\ Calls[p] = View(job[p]) /\ Calls'[p] = View(j)
  <1>1. job' \in [Proc -> Job] /\ job'[p] = j /\ \A q \in Proc : q # p => job'[q] = job[q]
    BY DEF NativeTypeOK
  <1>2. /\ Calls = [q \in Proc |-> View(job[q])]
        /\ Calls' = [q \in Proc |-> View(job'[q])]
    BY DEF Calls, View
  <1> HIDE DEF View
  <1>3. QED
    BY <1>1, <1>2

\* A call that moves without being answered is not seen.
LEMMA HiddenMove ==
  ASSUME NativeTypeOK, NEW p \in Proc, NEW j \in Job, job' = [job EXCEPT ![p] = j],
         NEW at, NEW ok, Moved(j, job[p], at, ok, job[p].reply), at # "done", job[p].at # "done"
  PROVE  Calls' = Calls
  <1>1. View(j) = View(job[p])
    BY DEF View, Moved
  <1>2. /\ Calls = [q \in Proc |-> Calls[q]]
        /\ Calls' = [q \in Proc |-> Calls'[q]]
    BY DEF Calls
  <1> HIDE DEF View
  <1>3. /\ Calls' = [Calls EXCEPT ![p] = View(j)]
        /\ Calls[p] = View(j)
    BY <1>1, CallsView
  <1>4. \A q \in Proc : Calls'[q] = Calls[q]
    BY <1>2, <1>3
  <1>5. QED
    BY <1>2, <1>4, Zenon

-----------------------------------------------------------------------------
(* The steps of Presentation that the calls make.                          *)

Implements == P!Next \/ UNCHANGED P!vars

\* A step that changes nothing Presentation knows.
LEMMA SilentStep ==
  ASSUME UNCHANGED <<Sessions, Credentials, revoked, Calls>>
  PROVE  Implements
  BY DEF Implements, P!vars

\* UBID learns of a revocation.
LEMMA RevokeStep ==
  ASSUME UNCHANGED <<Sessions, Credentials, Calls>>, revoked \subseteq revoked'
  PROVE  Implements
  BY DEF Implements, P!Next, P!Revoke

\* The answers a call may be given, in the words of the manager.
LEMMA AnswersAre ==
  ASSUME StoreInv, capacity # 0
  PROVE  /\ \A op, id, i, late : op # "read" => "unavailable" \in P!Answers(op, id, i, late)
         /\ \A id, i, late : "anonymous" \in P!Answers("read", id, i, late)
         /\ \A id \in Id : \A i : Authentic(id) => "authenticated" \in P!Answers("read", id, i, FALSE)
         /\ \A id \in Id : \A i, late :
               record[id].issuance \in revoked /\ record[id].issuance # NoIssuance =>
                   "confirmed" \in P!Answers("logout", id, i, late)
         /\ \A id, i, late : i \in revoked => "cancelled" \in P!Answers("cancel", id, i, late)
  <1>1. \A id \in Id : SessionIs(id)
    BY SessionFacts
  <1>2. \A op, id, i, late : op # "read" => "unavailable" \in P!Answers(op, id, i, late)
    BY DEF P!Answers
  <1>3. \A id, i, late : "anonymous" \in P!Answers("read", id, i, late)
    BY DEF P!Answers
  <1>4. \A id \in Id : \A i : Authentic(id) => "authenticated" \in P!Answers("read", id, i, FALSE)
    BY <1>1 DEF P!Answers, SessionIs
  <1>5. \A id \in Id : \A i, late :
            record[id].issuance \in revoked /\ record[id].issuance # NoIssuance =>
                "confirmed" \in P!Answers("logout", id, i, late)
    BY <1>1 DEF P!Answers, P!Named, SessionIs
  <1>6. \A id, i, late : i \in revoked => "cancelled" \in P!Answers("cancel", id, i, late)
    BY DEF P!Answers
  <1>7. QED
    BY <1>2, <1>3, <1>4, <1>5, <1>6

\* The fields of a call as Presentation sees it.
LEMMA ViewFields ==
  ASSUME NEW j
  PROVE  /\ View(j).op = j.op /\ View(j).id = j.id /\ View(j).late = j.late
         /\ View(j).iss = (IF j.op \in {"install", "cancel"} THEN j.iss ELSE NoIssuance)
         /\ View(j).reply = j.reply /\ View(j).open = (j.at # "done")
  BY DEF View

\* The calls Presentation knows.
CallRecord ==
    [op : {"none", "read", "install", "logout", "cancel"}, id : Id \cup {NoId},
     iss : Issuance \cup {NoIssuance}, late : BOOLEAN,
     reply : {"none", "anonymous", "authenticated", "unavailable", "installed",
              "confirmed", "cancelled"},
     open : BOOLEAN]

\* The view of a call is a record of them.
LEMMA ViewTyped ==
  ASSUME NEW j \in Job
  PROVE  View(j) \in CallRecord
  BY DEF View, Job, CallRecord

\* Two such records with equal fields are equal.
LEMMA CallsEqual ==
  ASSUME NEW r \in CallRecord, NEW s \in CallRecord, r.op = s.op, r.id = s.id,
         r.iss = s.iss, r.late = s.late, r.reply = s.reply, r.open = s.open
  PROVE  r = s
  BY DEF CallRecord

\* What Presentation sees of an answer.
Replied(p, j, reply) ==
    /\ Calls' = [Calls EXCEPT ![p].reply = reply, ![p].open = FALSE]
    /\ Calls[p].op = View(j).op /\ Calls[p].id = View(j).id /\ Calls[p].iss = View(j).iss
    /\ Calls[p].late = View(j).late /\ Calls[p].open /\ ~Calls'[p].open
    /\ Calls'[p].reply = reply

\* The answer of a call under way, as Presentation sees it.
LEMMA ReplyView ==
  ASSUME NativeTypeOK, NEW p \in Proc, NEW j \in Job, job' = [job EXCEPT ![p] = j],
         job[p].at # "done", NEW ok, NEW reply, Moved(j, job[p], "done", ok, reply)
  PROVE  Replied(p, j, reply)
  <1>1. /\ Calls' = [Calls EXCEPT ![p] = View(j)]
        /\ Calls[p] = View(job[p]) /\ Calls'[p] = View(j)
    BY CallsView
  <1>2. /\ Calls[p].op = View(j).op /\ Calls[p].id = View(j).id /\ Calls[p].iss = View(j).iss
        /\ Calls[p].late = View(j).late /\ Calls[p].open /\ ~Calls'[p].open
        /\ Calls'[p].reply = reply
    <2>1. /\ View(job[p]).op = View(j).op /\ View(job[p]).id = View(j).id
          /\ View(job[p]).iss = View(j).iss /\ View(job[p]).late = View(j).late
          /\ View(j).reply = reply
      BY ViewFields DEF Moved
    <2>2. View(job[p]).open /\ ~View(j).open
      BY ViewFields DEF Moved
    <2>3. QED
      BY <1>1, <2>1, <2>2
  <1>3. View(j) = [View(job[p]) EXCEPT !.reply = reply, !.open = FALSE]
    <2> DEFINE r == View(job[p])
               s == [r EXCEPT !.reply = reply, !.open = FALSE]
    <2>1. r \in CallRecord /\ View(j) \in CallRecord /\ reply = j.reply
      BY ViewTyped DEF NativeTypeOK, Moved
    <2>2. reply \in {"none", "anonymous", "authenticated", "unavailable", "installed",
                     "confirmed", "cancelled"}
      BY <2>1 DEF Job
    <2>3. /\ View(j).op = r.op /\ View(j).id = r.id /\ View(j).iss = r.iss
          /\ View(j).late = r.late /\ View(j).reply = reply /\ View(j).open = FALSE
      BY ViewFields DEF Moved
    <2> HIDE DEF r
    <2>4. /\ s \in CallRecord
          /\ s.op = r.op /\ s.id = r.id /\ s.iss = r.iss /\ s.late = r.late
          /\ s.reply = reply /\ s.open = FALSE
      BY <2>1, <2>2 DEF CallRecord
    <2> HIDE DEF s
    <2>5. View(j) = s
      BY <2>1, <2>3, <2>4, CallsEqual
    <2>6. QED
      BY <2>5 DEF r, s
  <1>4. Calls' = [Calls EXCEPT ![p].reply = reply, ![p].open = FALSE]
    BY <1>1, <1>3 DEF Calls
  <1>5. QED
    BY <1>2, <1>4 DEF Replied

\* A call under way is answered.
LEMMA ReplyStep ==
  ASSUME NativeTypeOK, NEW p \in Proc, NEW j \in Job, job' = [job EXCEPT ![p] = j],
         job[p].at # "done", NEW ok, NEW reply, Moved(j, job[p], "done", ok, reply),
         UNCHANGED <<Sessions, Credentials, revoked>>,
         reply \in P!Answers(View(j).op, View(j).id, View(j).iss, View(j).late)
  PROVE  Implements
  <1>1. Replied(p, j, reply)
    BY ReplyView
  <1>2. reply \in P!Answers(Calls[p].op, Calls[p].id, Calls[p].iss, Calls[p].late)
    BY <1>1 DEF Replied
  <1>3. P!Answer(p)
    BY <1>1, <1>2 DEF P!Answer, Replied
  <1>4. Calls'[p] # Calls[p]
    BY <1>1 DEF Replied
  <1>5. QED
    BY <1>3, <1>4 DEF Implements, P!Next, P!Request

\* What Presentation sees of an install that succeeds.
LEMMA InstallsView ==
  ASSUME NativeTypeOK, NEW p \in Proc, NEW j \in Job, job' = [job EXCEPT ![p] = j],
         job[p].at # "done", job[p].op = "install", NEW id \in Id,
         j.op = job[p].op, j.iss = job[p].iss, j.late = job[p].late,
         j.at = "done", j.reply = "installed", j.id = id
  PROVE  P!Installs(p, id) /\ Calls'[p] # Calls[p]
  <1>1. /\ Calls' = [Calls EXCEPT ![p] = View(j)]
        /\ Calls[p] = View(job[p]) /\ Calls'[p] = View(j)
    BY CallsView
  <1>2. /\ Calls[p].open /\ Calls[p].op = "install"
        /\ ~Calls'[p].open /\ Calls'[p].id = id
    <2>1. /\ View(job[p]).open /\ View(job[p]).op = "install"
          /\ ~View(j).open /\ View(j).id = id
      BY ViewFields
    <2>2. QED
      BY <1>1, <2>1
  <1>3. View(j) = [View(job[p]) EXCEPT !.id = id, !.reply = "installed", !.open = FALSE]
    <2> DEFINE r == View(job[p])
               s == [r EXCEPT !.id = id, !.reply = "installed", !.open = FALSE]
    <2>1. r \in CallRecord /\ View(j) \in CallRecord
      BY ViewTyped DEF NativeTypeOK
    <2>2. /\ View(j).op = r.op /\ View(j).id = id /\ View(j).iss = r.iss
          /\ View(j).late = r.late /\ View(j).reply = "installed" /\ View(j).open = FALSE
      BY ViewFields
    <2> HIDE DEF r
    <2>3. /\ s \in CallRecord
          /\ s.op = r.op /\ s.id = id /\ s.iss = r.iss /\ s.late = r.late
          /\ s.reply = "installed" /\ s.open = FALSE
      BY <2>1 DEF CallRecord
    <2> HIDE DEF s
    <2>4. View(j) = s
      BY <2>1, <2>2, <2>3, CallsEqual
    <2>5. QED
      BY <2>4 DEF r, s
  <1>4. Calls' = [Calls EXCEPT ![p].id = id, ![p].reply = "installed", ![p].open = FALSE]
    BY <1>1, <1>3 DEF Calls
  <1> HIDE DEF View
  <1>5. QED
    BY <1>2, <1>4 DEF P!Installs

\* What Presentation sees of an install whose session is withdrawn.
LEMMA WithdrawView ==
  ASSUME NativeTypeOK, NEW p \in Proc, NEW j \in Job, job' = [job EXCEPT ![p] = j],
         job[p].at # "done", job[p].op = "install", NEW ok,
         Moved(j, job[p], "done", ok, "unavailable"), revoked' = revoked, NEW id \in Id,
         Sessions[id] \in {"new", "presented"},
         Credentials[id] = IF Sessions[id] = "new" THEN NoIssuance ELSE job[p].iss,
         Sessions' = [Sessions EXCEPT ![id] = "denied"],
         Credentials' = [Credentials EXCEPT ![id] = job[p].iss]
  PROVE  Implements
  <1>1. /\ Calls' = [Calls EXCEPT ![p].reply = "unavailable", ![p].open = FALSE]
        /\ Calls[p].op = View(j).op /\ Calls[p].iss = View(j).iss
        /\ Calls[p].open /\ ~Calls'[p].open
    BY ReplyView DEF Replied
  <1>2. View(j).op = "install" /\ View(j).iss = job[p].iss
    BY ViewFields DEF Moved
  <1> HIDE DEF View
  <1>3. P!Withdraw(p, id)
    BY <1>1, <1>2 DEF P!Withdraw
  <1>4. Calls'[p] # Calls[p]
    BY <1>1
  <1>5. QED
    BY <1>3, <1>4 DEF Implements, P!Next, P!Request

\* A call begins, and may be answered at once.
LEMMA BeginStep ==
  ASSUME NativeTypeOK, StoreInv, capacity # 0, NEW p \in Proc, NEW j \in Job,
         job' = [job EXCEPT ![p] = j], job[p].at = "done",
         NEW op \in {"read", "install", "logout", "cancel"}, NEW id, NEW i, NEW at, NEW reply,
         Started(j, op, id, i, at, reply), at = "done" <=> reply # "none",
         op = "read" => id \in Id /\ Used(id) /\ record[id].issuance \in Issuance,
         NEW iss, iss = IF op \in {"install", "cancel"} THEN i ELSE NoIssuance,
         reply = "none" \/ reply \in P!Answers(op, id, iss, j.late)
  PROVE  P!Begin(p, op, id, iss)
  <1>1. /\ Calls' = [Calls EXCEPT ![p] = View(j)]
        /\ Calls[p] = View(job[p]) /\ Calls'[p] = View(j)
    BY CallsView
  <1>2. ~Calls[p].open /\ Calls'[p].op = op /\ Calls'[p].id = id /\ Calls'[p].reply = reply
    <2>1. View(j).op = op /\ View(j).id = id /\ View(j).reply = reply
      BY ViewFields DEF Started
    <2>2. ~View(job[p]).open
      BY ViewFields
    <2>3. QED
      BY <1>1, <2>1, <2>2
  <1>3. j.late = (op = "read" /\ P!Named(id) \in revoked)
    <2>1. CASE op # "read"
      BY <2>1 DEF Started
    <2>2. CASE op = "read"
      <3>1. Credentials[id] = record[id].issuance
        BY <2>2, SessionFacts DEF SessionIs
      <3>2. P!Named(id) = record[id].issuance
        BY <2>2, <3>1, StoreAssumption DEF P!Named
      <3>3. QED
        BY <2>2, <3>2 DEF Started
    <2>3. QED
      BY <2>1, <2>2
  <1>4. View(j) = [op |-> op, id |-> id, iss |-> iss, late |-> j.late, reply |-> reply,
                   open |-> reply = "none"]
    BY DEF View, Started
  <1> HIDE DEF View
  <1>5. QED
    BY <1>1, <1>2, <1>3, <1>4 DEF P!Begin

-----------------------------------------------------------------------------
(* What the steps have in common.                                          *)

LockTypes == locks' \in [Issuance -> Seq(Proc)]

\* One call changes, and of the slots only what Settles allows.
LEMMA QuietStep ==
  ASSUME NativeInv, capacity > 0, Settles, Carries, AliasesShrink, UNCHANGED receipt,
         aliases' \in [Issuance -> Id \cup {NoId}], revoked' \subseteq Issuance, LockTypes,
         \A id \in Id : logout'[id].confirmed =>
             logout[id].confirmed \/ record[id].issuance \in revoked,
         NEW p \in Proc, NEW j \in Job, job' = [job EXCEPT ![p] = j],
         QueueInv', JobGood(j)',
         Hopeful(j) => j.reply # "cancelled",
         \A q \in Proc : Hopeful(j) /\ job[q].reply = "cancelled" => j.iss # job[q].iss,
         \A q \in Proc : q # p /\ Hopeful(job[q]) /\ j.reply = "cancelled" => job[q].iss # j.iss
  PROVE  NativeInv' /\ Lasting
  <1>1. /\ NativeTypeOK /\ StoreInv /\ ManagedStore /\ QueueInv /\ Uncancelled
        /\ \A q \in Proc : JobGood(job[q])
    BY DEF NativeInv, Managed
  <1>2. StoreInv' /\ Lasting
    BY <1>1, SettlesStore
  <1>3. ManagedStore'
    BY <1>1, SettlesManaged
  <1>4. \A i : ~Presents(i)
    BY DEF Presents, Settles, Used
  <1>5. (\A q \in Proc : JobGood(job[q]))'
    BY <1>1, <1>2, <1>4, JobsLast
  <1>6. Uncancelled'
    BY <1>1, UncancelledStays
  <1>7. NativeTypeOK'
    BY <1>1 DEF NativeTypeOK, Carries, LockTypes
  <1>8. capacity' > 0 /\ ~(capacity' = 0)
    BY <1>1 DEF Carries, NativeTypeOK
  <1>9. QED
    BY <1>2, <1>3, <1>5, <1>6, <1>7, <1>8 DEF NativeInv, Managed

\* A call whose turn has come, or that is back from UBID, is first in its queue.
LEMMA TurnFirst ==
  ASSUME NativeInv, capacity > 0, NEW p \in Proc, job[p].op # "read", job[p].at # "done",
         Turn(p) \/ job[p].at \in {"calling", "answered"}
  PROVE  job[p].iss \in Issuance /\ First(p, job[p].iss) /\ OpenGood(job[p])
  <1>1. QueueInv /\ JobGood(job[p])
    BY DEF NativeInv, Managed
  <1>2. OpenGood(job[p])
    BY <1>1 DEF JobGood
  <1>3. CASE Turn(p)
    BY <1>2, <1>3 DEF Turn, Heads, First, OpenGood
  <1>4. CASE job[p].at \in {"calling", "answered"}
    BY <1>1, <1>2, <1>4 DEF QueueInv, Runs
  <1>5. QED
    BY <1>2, <1>3, <1>4

\* The first call of a queue is done: finally { ... } lets the next one run.
LEMMA ReleaseQueue ==
  ASSUME NativeInv, capacity > 0, NEW p \in Proc, job[p].iss \in Issuance,
         First(p, job[p].iss), NEW j \in Job, j.at = "done",
         job' = [job EXCEPT ![p] = j], Release(p)
  PROVE  QueueInv' /\ LockTypes
  <1>1. NativeTypeOK /\ QueueInv
    BY DEF NativeInv, Managed
  <1> DEFINE i == job[p].iss
  <1>2. locks' = [locks EXCEPT ![i] = Tail(@)] /\ i \in Issuance /\ First(p, i)
    BY DEF Release
  <1>3. QueueInv'
    BY <1>1, <1>2, QueueLeaves
  <1>4. locks[i] \in Seq(Proc) /\ locks[i] # <<>>
    BY <1>1, <1>2 DEF First, NativeTypeOK
  <1>5. Tail(locks[i]) \in Seq(Proc)
    BY <1>4, HeadTailProperties, Zenon
  <1> HIDE DEF i
  <1>6. LockTypes
    BY <1>1, <1>2, <1>5 DEF LockTypes, NativeTypeOK
  <1>7. QED
    BY <1>3, <1>6

\* Every step of a request that Presentation sees is a step of its Next.
LEMMA CallStep ==
  ASSUME NativeTypeOK, NEW p \in Proc, NEW j \in Job, job' = [job EXCEPT ![p] = j],
         P!Request(p), UNCHANGED <<Sessions, Credentials, revoked>> \/ Calls'[p] # Calls[p]
  PROVE  Implements
  <1>1. CASE Calls'[p] # Calls[p]
    BY <1>1 DEF Implements, P!Next
  <1>2. CASE Calls'[p] = Calls[p]
    <2>1. /\ Calls = [q \in Proc |-> Calls[q]] /\ Calls' = [q \in Proc |-> Calls'[q]]
      BY DEF Calls
    <2>2. \A q \in Proc : Calls'[q] = Calls[q]
      <3>1. Calls' = [Calls EXCEPT ![p] = View(j)]
        BY CallsView
      <3>2. QED
        BY <1>2, <2>1, <3>1
    <2>3. Calls' = Calls
      BY <2>1, <2>2, Zenon
    <2>4. QED
      BY <1>2, <2>3, SilentStep
  <1>3. QED
    BY <1>1, <1>2

\* What every step of the manager does: it keeps the invariant, what a session
\* keeps, and the promise.
Goes == NativeInv' /\ Lasting /\ Implements

-----------------------------------------------------------------------------
(* read(), capabilityRead().                                               *)

\* read() begins: a session get() refuses is anonymous at once.
LEMMA StartReadGoes ==
  ASSUME NativeInv, capacity > 0, NEW p \in Proc, NEW id \in Id, StartRead(p, id)
  PROVE  Goes
  <1>1. NativeTypeOK /\ StoreInv /\ ManagedStore /\ QueueInv /\ capacity # 0
    BY DEF NativeInv, Managed, NativeTypeOK
  <1>2. /\ job[p].at = "done" /\ Used(id) /\ slots' = Swept
        /\ UNCHANGED <<clock, record, logout, capacity, aliases, locks, receipt, revoked>>
    BY DEF StartRead, Idle
  <1>3. Settles /\ Carries /\ AliasesShrink /\ LockTypes
    <2>1. Settles
      BY <1>1, <1>2, SweepSettles
    <2>2. QED
      BY <2>1, <1>1, <1>2 DEF Carries, AliasesShrink, LockTypes, NativeTypeOK
  <1>4. record[id].issuance \in Issuance
    BY <1>1, <1>2 DEF ManagedStore, RecordsNative
  <1>5. \E i \in Issuance \cup {NoIssuance}, at \in {"calling", "done"},
           reply \in {"none", "anonymous"} :
           /\ Start(p, "read", id, i, at, reply)
           /\ at = "calling" => i = record[id].issuance /\ reply = "none"
           /\ at = "done" => reply = "anonymous"
    <2>1. CASE Authentic(id)
      BY <2>1, <1>4 DEF StartRead
    <2>2. CASE ~Authentic(id)
      BY <2>2 DEF StartRead
    <2>3. QED
      BY <2>1, <2>2
  <1>6. PICK i \in Issuance \cup {NoIssuance}, at \in {"calling", "done"},
             reply \in {"none", "anonymous"} :
           /\ Start(p, "read", id, i, at, reply)
           /\ at = "calling" => i = record[id].issuance /\ reply = "none"
           /\ at = "done" => reply = "anonymous"
    BY <1>5
  <1>7. PICK j \in Job : job' = [job EXCEPT ![p] = j] /\ Started(j, "read", id, i, at, reply)
    BY <1>1, <1>6, StartJob
  <1>8. QueueInv'
    BY <1>1, <1>2, <1>7, QueueStays DEF Waits, Runs, Started
  <1>9. JobGood(j)'
    <2>1. Used(id)' /\ record'[id].issuance = record[id].issuance /\ revoked' = revoked
      BY <1>2 DEF Used
    <2>2. j.at # "done" => OpenGood(j)'
      BY <2>1, <1>2, <1>4, <1>6, <1>7 DEF OpenGood, Started, Runs
    <2>3. QED
      BY <2>2, <1>6, <1>7 DEF JobGood, CancelGood, LogoutGood, Started
  <1>10. NativeInv' /\ Lasting
    BY <1>1, <1>2, <1>3, <1>6, <1>7, <1>8, <1>9, QuietStep
       DEF Started, Hopeful, NativeTypeOK
  <1>11. UNCHANGED <<Sessions, Credentials>>
    BY <1>1, <1>2, <1>3, SettlesView DEF Denied
  <1>12. P!Begin(p, "read", id, NoIssuance)
    BY <1>1, <1>2, <1>4, <1>6, <1>7, AnswersAre, BeginStep
  <1>13. Sessions[id] # "new"
    BY <1>1, <1>2, SessionFacts DEF SessionIs
  <1>14. P!Request(p)
    BY <1>2, <1>11, <1>12, <1>13 DEF P!Request, P!Read
  <1>15. Implements
    BY <1>1, <1>2, <1>7, <1>11, <1>14, CallStep
  <1>16. QED
    BY <1>10, <1>15 DEF Goes

\* read() looks at its slot again after the await.
LEMMA EndReadGoes ==
  ASSUME NativeInv, capacity > 0, NEW p \in Proc, EndRead(p)
  PROVE  Goes
  <1>1. /\ NativeTypeOK /\ StoreInv /\ QueueInv /\ capacity # 0 /\ JobGood(job[p])
        /\ job[p] \in Job
    BY DEF NativeInv, Managed, NativeTypeOK
  <1>2. /\ job[p].op = "read" /\ job[p].at = "answered" /\ slots' \in {slots, Swept}
        /\ UNCHANGED <<clock, record, logout, capacity, aliases, locks, receipt, revoked>>
    BY DEF EndRead
  <1>3. Settles /\ Carries /\ AliasesShrink /\ LockTypes
    <2>1. Settles
      BY <1>1, <1>2, SweepSettles
    <2>2. QED
      BY <2>1, <1>1, <1>2 DEF Carries, AliasesShrink, LockTypes, NativeTypeOK
  <1>4. PICK reply \in {"authenticated", "anonymous"} :
           /\ Finish(p, reply)
           /\ reply = "authenticated" => job[p].ok /\ Authentic(job[p].id)
    BY DEF EndRead
  <1>5. PICK j \in Job : job' = [job EXCEPT ![p] = j] /\ Moved(j, job[p], "done", job[p].ok, reply)
    BY <1>1, <1>4, FinishJob
  <1>6. QueueInv'
    BY <1>1, <1>2, <1>5, QueueStays DEF Waits, Runs, Moved
  <1>7. JobGood(j)'
    BY <1>2, <1>5 DEF JobGood, CancelGood, LogoutGood, Moved
  <1>8. NativeInv' /\ Lasting
    BY <1>1, <1>2, <1>3, <1>5, <1>6, <1>7, QuietStep DEF Moved, Hopeful, NativeTypeOK
  <1>9. UNCHANGED <<Sessions, Credentials>>
    BY <1>1, <1>2, <1>3, SettlesView DEF Denied
  <1>10. reply \in P!Answers(View(j).op, View(j).id, View(j).iss, View(j).late)
    <2>1. /\ View(j).op = "read" /\ View(j).id = job[p].id /\ job[p].id \in Id
          /\ View(j).late = job[p].late
      BY <1>1, <1>2, <1>5, ViewFields DEF Moved, JobGood, OpenGood
    <2>2. CASE reply = "anonymous"
      BY <2>1, <2>2, <1>1, AnswersAre
    <2>3. CASE reply = "authenticated"
      <3>1. job[p].late = FALSE
        BY <2>3, <1>1, <1>2, <1>4 DEF JobGood, OpenGood, Job
      <3>2. QED
        BY <2>1, <2>3, <3>1, <1>1, <1>4, AnswersAre
    <2>4. QED
      BY <2>2, <2>3
  <1>11. Implements
    BY <1>1, <1>2, <1>5, <1>9, <1>10, ReplyStep
  <1>12. QED
    BY <1>8, <1>11 DEF Goes

-----------------------------------------------------------------------------
(* UBID and the clock.                                                     *)

\* UBID answers, or its answer is lost: the call waits in neither case.
LEMMA AnswerGoes ==
  ASSUME NativeInv, capacity > 0, NEW p \in Proc, NEW ok \in BOOLEAN, Answer(p, ok),
         job[p].at \in {"calling", "answered"},
         UNCHANGED <<storeVars, capacity, aliases, locks, receipt>>,
         revoked' \in {revoked, revoked \cup {job[p].iss}},
         ok /\ job[p].op \in {"read", "install"} =>
             job[p].iss \notin revoked /\ revoked' = revoked,
         ok /\ job[p].op \in {"logout", "cancel"} => job[p].iss \in revoked'
  PROVE  Goes
  <1>1. /\ NativeTypeOK /\ StoreInv /\ QueueInv /\ capacity # 0 /\ JobGood(job[p])
        /\ job[p] \in Job /\ OpenGood(job[p])
        /\ \A q \in Proc : JobGood(job[q])
    BY DEF NativeInv, Managed, NativeTypeOK, JobGood
  <1>2. UNCHANGED <<clock, record, slots, logout>>
    BY DEF storeVars
  <1>3. revoked \subseteq revoked' /\ revoked' \subseteq Issuance
    BY <1>1 DEF OpenGood, NativeTypeOK
  <1>4. Settles /\ Carries /\ AliasesShrink /\ LockTypes
    <2>1. Settles
      BY <1>1, <1>2, SweepSettles
    <2>2. QED
      BY <2>1, <1>1, <1>3 DEF Carries, AliasesShrink, LockTypes, NativeTypeOK
  <1>5. PICK j \in Job : job' = [job EXCEPT ![p] = j]
                         /\ Moved(j, job[p], "answered", ok, job[p].reply)
    BY <1>1, AnswerJob
  <1>6. QueueInv'
    <2>1. Runs(j) => j.iss \in Issuance /\ First(p, j.iss)
      BY <1>1, <1>5 DEF QueueInv, Runs, Moved
    <2>2. \A i \in Issuance : Waits(job[p], i) => Waits(j, i)
      BY <1>5 DEF Waits, Moved
    <2>3. QED
      BY <2>1, <2>2, <1>1, <1>5, QueueStays
  <1>7. JobGood(j)'
    <2>1. /\ \A id \in Id : Used(id)' <=> Used(id)
          /\ \A id \in Id : Denied(id)' <=> Denied(id)
          /\ \A id \in Id : Authentic(id)' <=> Authentic(id)
          /\ \A id \in Id : Gone(id)' <=> Gone(id)
      BY <1>2, <1>4, SettlesLeaves DEF Used, Denied, Gone
    <2>2. NoneOf(j.iss) => NoneOf(j.iss)'
      BY <2>1, <1>2 DEF NoneOf
    <2>3. j.op = "cancel" => NoneOf(j.iss)
      BY <1>1, <1>5 DEF OpenGood, Moved, Runs
    <2>4. OpenGood(j)'
      BY <2>1, <2>2, <2>3, <1>1, <1>2, <1>3, <1>5 DEF OpenGood, Moved, Runs
    <2>5. LogoutGood(j)'
      BY <2>1, <1>1, <1>5 DEF JobGood, LogoutGood, Moved
    <2>6. CancelGood(j)'
      BY <1>1, <1>5 DEF OpenGood, CancelGood, Moved
    <2>7. QED
      BY <2>4, <2>5, <2>6 DEF JobGood
  <1>8. \A q \in Proc : Hopeful(j) /\ job[q].reply = "cancelled" => j.iss # job[q].iss
    BY <1>1, <1>5 DEF Hopeful, Moved, JobGood, CancelGood
  <1>9. j.reply # "cancelled"
    BY <1>1, <1>5 DEF OpenGood, Moved
  <1>10. NativeInv' /\ Lasting
    BY <1>1, <1>2, <1>3, <1>4, <1>5, <1>6, <1>7, <1>8, <1>9, QuietStep DEF NativeTypeOK
  <1>11. UNCHANGED <<Sessions, Credentials>>
    BY <1>1, <1>2, <1>4, SettlesView DEF Denied, Carries
  <1>12. Calls' = Calls
    BY <1>1, <1>5, HiddenMove
  <1>13. Implements
    BY <1>3, <1>11, <1>12, RevokeStep
  <1>14. QED
    BY <1>10, <1>13 DEF Goes

\* UBID executes the call.
LEMMA ServeGoes ==
  ASSUME NativeInv, capacity > 0, NEW p \in Proc, Serve(p)
  PROVE  Goes
  <1>1. CASE job[p].op \in {"read", "install"}
    <2>1. Answer(p, Active(job[p].iss)) /\ revoked' = revoked
      BY <1>1 DEF Serve
    <2>2. Active(job[p].iss) \in BOOLEAN /\ (Active(job[p].iss) => job[p].iss \notin revoked)
      BY DEF Active
    <2>3. QED
      BY <1>1, <2>1, <2>2, AnswerGoes DEF Serve
  <1>2. CASE job[p].op \in {"logout", "cancel"}
    <2>1. Answer(p, TRUE) /\ revoked' = revoked \cup {job[p].iss}
      BY <1>2 DEF Serve
    <2>2. QED
      BY <1>2, <2>1, AnswerGoes DEF Serve
  <1>3. QED
    BY <1>1, <1>2 DEF Serve

\* The call or its answer is lost.
LEMMA DropGoes ==
  ASSUME NativeInv, capacity > 0, NEW p \in Proc, Drop(p)
  PROVE  Goes
  BY AnswerGoes DEF Drop

\* UBID's own steps and the clock change no call.
LEMMA OutsideStep ==
  ASSUME NativeInv, capacity > 0, UNCHANGED <<job, locks, aliases>>, Carries,
         StoreInv', Lasting, ManagedStore', NativeTypeOK', record' = record
  PROVE  NativeInv' /\ Calls' = Calls
  <1>1. /\ StoreInv /\ QueueInv /\ Uncancelled /\ \A q \in Proc : JobGood(job[q])
        /\ job \in [Proc -> Job]
    BY DEF NativeInv, Managed, NativeTypeOK
  <1>2. \A i : ~Presents(i)
    BY DEF Presents, Used
  <1>3. (\A q \in Proc : JobGood(job[q]))'
    <2>1. ASSUME NEW q \in Proc
          PROVE  JobGood(job[q])'
      <3>1. PICK k \in Job : k = job[q]
        BY <1>1
      <3>2. JobGood(k)'
        BY <3>1, <1>1, <1>2, JobLasts
      <3>3. QED
        BY <3>1, <3>2 DEF JobGood, OpenGood, CancelGood, LogoutGood, Runs
    <2>2. QED
      BY <2>1
  <1>4. QueueInv' /\ Uncancelled'
    BY <1>1 DEF QueueInv, Uncancelled, Hopeful, Runs, Waits, First
  <1>5. Calls' = Calls
    BY DEF Calls
  <1>6. capacity' > 0 /\ ~(capacity' = 0)
    BY DEF Carries, NativeInv, NativeTypeOK
  <1>7. QED
    BY <1>3, <1>4, <1>5, <1>6 DEF NativeInv, Managed

\* UBID issues and revokes on its own account.
LEMMA UbidGoes ==
  ASSUME NativeInv, capacity > 0, NEW i \in Issuance, UbidIssue(i) \/ UbidRevoke(i)
  PROVE  Goes
  <1>1. /\ NativeTypeOK /\ StoreInv /\ ManagedStore /\ capacity # 0
    BY DEF NativeInv, Managed, NativeTypeOK
  <1>2. /\ UNCHANGED <<clock, record, slots, logout, capacity, aliases, locks, job>>
        /\ revoked \subseteq revoked' /\ revoked' \subseteq Issuance
    BY <1>1 DEF UbidIssue, UbidRevoke, storeVars, NativeTypeOK
  <1>3. /\ receipt' \in [Issuance -> Receipt \cup {NoReceipt}]
        /\ \A k \in Issuance : receipt[k] # NoReceipt => receipt'[k] = receipt[k]
    <2>1. CASE UbidRevoke(i)
      BY <2>1, <1>1 DEF UbidRevoke, NativeTypeOK
    <2>2. CASE UbidIssue(i)
      <3>1. PICK to \in clock + 1 .. clock + MobileLife :
              receipt' = [receipt EXCEPT ![i] = [from |-> clock, to |-> to]]
        BY <2>2 DEF UbidIssue
      <3>2. clock \in Nat /\ to \in Nat
        BY <1>1, StoreAssumption DEF StoreInv, StoreTypeOK
      <3>3. [from |-> clock, to |-> to] \in Receipt
        BY <3>2 DEF Receipt
      <3>4. QED
        BY <2>2, <3>1, <3>3, <1>1 DEF UbidIssue, NativeTypeOK
    <2>3. QED
      BY <2>1, <2>2
  <1>4. Carries /\ AliasesShrink
    BY <1>2, <1>3 DEF Carries, AliasesShrink
  <1>5. Settles
    BY <1>1, <1>2, SweepSettles
  <1>6. StoreInv' /\ Lasting
    BY <1>1, <1>5, SettlesStore
  <1>7. ManagedStore'
    BY <1>1, <1>2, <1>4, <1>5, SettlesManaged
  <1>8. NativeTypeOK'
    BY <1>1, <1>2, <1>3 DEF NativeTypeOK
  <1>9. NativeInv' /\ Calls' = Calls
    BY <1>2, <1>4, <1>6, <1>7, <1>8, OutsideStep
  <1>10. UNCHANGED <<Sessions, Credentials>>
    BY <1>1, <1>2, <1>5, SettlesView DEF Denied
  <1>11. Implements
    BY <1>2, <1>9, <1>10, RevokeStep
  <1>12. QED
    BY <1>6, <1>9, <1>11 DEF Goes

\* Time passes: sessions end together.
LEMMA TickGoes ==
  ASSUME NativeInv, capacity > 0, NativeTick
  PROVE  Goes
  <1>1. NativeTypeOK /\ StoreInv /\ ManagedStore /\ capacity # 0
    BY DEF NativeInv, Managed, NativeTypeOK
  <1>2. /\ Tick /\ UNCHANGED <<capacity, aliases, locks, job, receipt, revoked>>
        /\ UNCHANGED <<record, slots, logout>>
    BY DEF NativeTick, Tick
  <1>3. StoreInv' /\ Lasting
    BY <1>1, <1>2, TickStore
  <1>4. Carries
    BY <1>2 DEF Carries
  <1>5. ManagedStore'
    BY <1>1, <1>2, <1>4, TickManaged
  <1>6. NativeTypeOK'
    BY <1>1, <1>2 DEF NativeTypeOK
  <1>7. NativeInv' /\ Calls' = Calls
    BY <1>2, <1>3, <1>4, <1>5, <1>6, OutsideStep
  <1>8. (\A id \in Id : SessionIs(id)) /\ (\A id \in Id : SessionIs(id)')
    BY <1>1, <1>2, <1>3, SessionFacts, SessionFactsNext
  <1>9. Credentials' = Credentials
    BY <1>2 DEF Credentials
  <1>10. \A id \in Id : \/ Sessions'[id] = Sessions[id]
                        \/ Sessions[id] = "presented" /\ Sessions'[id] = "ended"
    <2>1. ASSUME NEW id \in Id
          PROVE  /\ Used(id)' <=> Used(id)
                 /\ Denied(id)' <=> Denied(id)
                 /\ Authentic(id)' => Authentic(id)
      <3>1. /\ Used(id)' <=> Used(id)
            /\ Denied(id)' <=> Denied(id)
        BY <1>2 DEF Used, Denied
      <3>2. Authentic(id)' => Used(id)
        BY <3>1, <1>3 DEF Authentic, Swept, StoreInv, OnlyUsed
      <3>3. QED
        BY <3>1, <3>2, <1>3 DEF Lasting
    <2>2. QED
      BY <2>1, <1>8 DEF SessionIs, Authentic
  <1>11. Implements
    BY <1>2, <1>7, <1>9, <1>10 DEF Implements, P!Next, P!Expire
  <1>12. QED
    BY <1>3, <1>7, <1>11 DEF Goes

-----------------------------------------------------------------------------
(* Calls that join a queue, or are refused because there are too many.     *)

\* How a call that needs a queue has begun.
Joined(j, op, id, i) ==
    \/ Started(j, op, id, i, "queued", "none") /\ i \in Issuance
    \/ \E k \in Issuance \cup {NoIssuance} :
          Started(j, op, id, k, "done", "unavailable") /\ (op # "logout" => k = i)

\* A call joins the queue of its credential, or is refused where it is full.
LEMMA JoinQueue ==
  ASSUME NativeInv, capacity > 0, NEW p \in Proc, job[p].at = "done",
         NEW op \in {"install", "logout", "cancel"}, NEW id \in Id \cup {NoId},
         NEW i \in Issuance, NEW k \in Issuance \cup {NoIssuance}, op # "logout" => k = i,
         Queue(p, op, id, i) \/ RefuseAtOnce(p, op, id, k)
  PROVE  \E j \in Job : /\ job' = [job EXCEPT ![p] = j] /\ Joined(j, op, id, i)
                        /\ QueueInv' /\ LockTypes
  <1>1. NativeTypeOK /\ QueueInv
    BY DEF NativeInv, Managed
  <1>2. CASE Queue(p, op, id, i)
    <2>1. /\ Start(p, op, id, i, "queued", "none")
          /\ locks' = [locks EXCEPT ![i] = Append(@, p)]
      BY <1>2 DEF Queue
    <2>2. PICK j \in Job : job' = [job EXCEPT ![p] = j] /\ Started(j, op, id, i, "queued", "none")
      BY <2>1, <1>1, StartJob
    <2>3. j.at = "queued" /\ Waits(j, i)
      BY <2>2 DEF Started, Waits
    <2>4. QueueInv'
      BY <2>1, <2>2, <2>3, <1>1, QueueJoins
    <2>5. LockTypes
      <3>1. locks[i] \in Seq(Proc)
        BY <1>1 DEF NativeTypeOK
      <3>2. Append(locks[i], p) \in Seq(Proc)
        BY <3>1
      <3>3. QED
        BY <2>1, <3>2, <1>1 DEF LockTypes, NativeTypeOK
    <2>6. QED
      BY <2>2, <2>4, <2>5 DEF Joined
  <1>3. CASE RefuseAtOnce(p, op, id, k)
    <2>1. Start(p, op, id, k, "done", "unavailable") /\ locks' = locks
      BY <1>3 DEF RefuseAtOnce
    <2>2. PICK j \in Job : job' = [job EXCEPT ![p] = j]
                           /\ Started(j, op, id, k, "done", "unavailable")
      BY <2>1, <1>1, StartJob
    <2>3. QueueInv'
      BY <2>1, <2>2, <1>1, QueueStays DEF Waits, Runs, Started
    <2>4. LockTypes
      BY <2>1, <1>1 DEF LockTypes, NativeTypeOK
    <2>5. QED
      BY <2>2, <2>3, <2>4 DEF Joined
  <1>4. QED
    BY <1>2, <1>3

\* What a call that joins or is refused looks like.
LEMMA JoinedFacts ==
  ASSUME NEW j, NEW op, op # "read", NEW id, NEW i, Joined(j, op, id, i)
  PROVE  /\ j.op = op /\ j.id = id /\ j.reply # "cancelled" /\ j.late = FALSE
         /\ ~Hopeful(j) /\ ~Runs(j)
         /\ j.at # "done" => j.iss = i /\ j.ok = FALSE /\ i \in Issuance /\ j.reply = "none"
  BY DEF Joined, Started, Hopeful, Runs

\* Presentation sees the call begin.
LEMMA JoinBegins ==
  ASSUME NativeTypeOK, StoreInv, capacity # 0, NEW p \in Proc, NEW j \in Job,
         job' = [job EXCEPT ![p] = j], job[p].at = "done",
         NEW op \in {"install", "logout", "cancel"}, NEW id, NEW i, Joined(j, op, id, i),
         NEW iss, iss = IF op = "logout" THEN NoIssuance ELSE i
  PROVE  P!Begin(p, op, id, iss)
  <1>1. CASE Started(j, op, id, i, "queued", "none")
    BY <1>1, BeginStep
  <1>2. ASSUME NEW k \in Issuance \cup {NoIssuance},
               Started(j, op, id, k, "done", "unavailable"), op # "logout" => k = i
        PROVE  P!Begin(p, op, id, iss)
    <2>1. "unavailable" \in P!Answers(op, id, iss, j.late)
      BY AnswersAre
    <2>2. iss = IF op \in {"install", "cancel"} THEN k ELSE NoIssuance
      BY <1>2
    <2>3. QED
      <3>1. /\ op = "read" => id \in Id /\ Used(id) /\ record[id].issuance \in Issuance
            /\ "done" = "done" <=> "unavailable" # "none"
        OBVIOUS
      <3>2. /\ job' = [job EXCEPT ![p] = j] /\ job[p].at = "done"
            /\ Started(j, op, id, k, "done", "unavailable")
            /\ op \in {"read", "install", "logout", "cancel"}
        BY <1>2
      <3>3. QED
        BY <3>1, <3>2, <2>1, <2>2, BeginStep, ZenonT(60)
  <1>3. QED
    BY <1>1, <1>2 DEF Joined

\* install() and cancelUninstalled() begin.
LEMMA AskGoes ==
  ASSUME NativeInv, capacity > 0, NEW p \in Proc, NEW i \in Issuance,
         StartInstall(p, i) \/ StartCancel(p, i)
  PROVE  Goes
  <1>1. NativeTypeOK /\ StoreInv /\ capacity # 0
    BY DEF NativeInv, Managed, NativeTypeOK
  <1>2. /\ job[p].at = "done"
        /\ UNCHANGED <<clock, record, slots, logout, capacity, aliases, receipt, revoked>>
    BY DEF StartInstall, StartCancel, Idle, storeVars
  <1>3. PICK op \in {"install", "cancel"} : Queue(p, op, NoId, i) \/ RefuseAtOnce(p, op, NoId, i)
    BY DEF StartInstall, StartCancel
  <1>4. PICK j \in Job : /\ job' = [job EXCEPT ![p] = j] /\ Joined(j, op, NoId, i)
                         /\ QueueInv' /\ LockTypes
    BY <1>2, <1>3, JoinQueue
  <1>5. /\ j.op = op /\ j.id = NoId /\ j.reply # "cancelled" /\ j.late = FALSE
        /\ ~Hopeful(j) /\ ~Runs(j)
        /\ j.at # "done" => j.iss = i /\ j.ok = FALSE /\ j.reply = "none"
    BY <1>3, <1>4, JoinedFacts
  <1>6. Settles /\ Carries /\ AliasesShrink
    <2>1. Settles
      BY <1>1, <1>2, SweepSettles
    <2>2. QED
      BY <2>1, <1>2 DEF Carries, AliasesShrink
  <1>7. JobGood(j)'
    BY <1>5 DEF JobGood, OpenGood, CancelGood, LogoutGood, Runs
  <1>8. NativeInv' /\ Lasting
    BY <1>1, <1>2, <1>4, <1>5, <1>6, <1>7, QuietStep DEF NativeTypeOK
  <1>9. UNCHANGED <<Sessions, Credentials>>
    BY <1>1, <1>2, <1>6, SettlesView DEF Denied
  <1>10. P!Begin(p, op, NoId, i)
    BY <1>1, <1>2, <1>3, <1>4, JoinBegins
  <1>11. P!Request(p)
    BY <1>2, <1>9, <1>10 DEF P!Request, P!AskUbid
  <1>12. Implements
    BY <1>1, <1>2, <1>4, <1>9, <1>11, CallStep
  <1>13. QED
    BY <1>8, <1>12 DEF Goes

-----------------------------------------------------------------------------
(* logout().                                                               *)

\* logout() denies its session before anything else.
LEMMA StartLogoutGoes ==
  ASSUME NativeInv, capacity > 0, NEW p \in Proc, NEW id \in Id, StartLogout(p, id)
  PROVE  Goes
  <1>1. NativeTypeOK /\ StoreInv /\ ManagedStore /\ capacity # 0 /\ JobGood(job[p])
    BY DEF NativeInv, Managed, NativeTypeOK
  <1>2. /\ job[p].at = "done" /\ Used(id) /\ slots' = Swept
        /\ UNCHANGED <<clock, record, capacity, aliases, receipt, revoked>>
    BY DEF StartLogout, Idle
  <1>3. record[id].issuance \in Issuance /\ Used(id)' /\ record' = record
    BY <1>1, <1>2 DEF ManagedStore, RecordsNative, Used
  <1>4. PICK j \in Job : /\ job' = [job EXCEPT ![p] = j]
                         /\ Joined(j, "logout", id, record[id].issuance)
                         /\ QueueInv' /\ LockTypes
    BY <1>2, <1>3, JoinQueue DEF StartLogout
  <1>5. /\ j.op = "logout" /\ j.id = id /\ j.reply # "cancelled" /\ j.late = FALSE
        /\ ~Hopeful(j) /\ ~Runs(j)
        /\ j.at # "done" => j.iss = record[id].issuance /\ j.ok = FALSE /\ j.reply = "none"
    BY <1>4, JoinedFacts
  <1>6. Retained(id) /\ ~Denied(id) => Denies(id)
    BY <1>2 DEF StartLogout, Denies, Retained
  <1>7. ~(Retained(id) /\ ~Denied(id)) => logout' = logout
    BY DEF StartLogout
  <1>8. /\ Settles
        /\ \A other \in Id : logout'[other].confirmed => logout[other].confirmed
    <2>1. CASE Retained(id) /\ ~Denied(id)
      BY <2>1, <1>1, <1>6, DenySettles
    <2>2. CASE ~(Retained(id) /\ ~Denied(id))
      BY <2>2, <1>1, <1>2, <1>7, SweepSettles
    <2>3. QED
      BY <2>1, <2>2
  <1>9. Carries /\ AliasesShrink
    BY <1>2 DEF Carries, AliasesShrink
  <1>10. Retained(id) => Denied(id)'
    <2>1. CASE Retained(id) /\ ~Denied(id)
      BY <2>1, <1>1, <1>6, DenySettles
    <2>2. CASE Denied(id)
      BY <2>2, <1>7 DEF Denied
    <2>3. QED
      BY <2>1, <2>2
  <1>11. Gone(id)'
    <2>1. CASE Retained(id)
      BY <2>1, <1>10 DEF Gone
    <2>2. CASE ~Retained(id)
      <3>1. Gone(id) /\ Lasting
        BY <2>2, <1>1, <1>8, SettlesStore DEF Gone, Retained
      <3>2. QED
        BY <3>1, <1>2 DEF Lasting
    <2>3. QED
      BY <2>1, <2>2
  <1>12. j.at # "done" => Denied(id)'
    <2>1. ASSUME ~Retained(id)
          PROVE  j.at = "done"
      <3>1. RefuseAtOnce(p, "logout", id, NoIssuance)
        BY <2>1 DEF StartLogout
      <3>2. job'[p].at = "done"
        BY <3>1, <1>1 DEF RefuseAtOnce, Start, NativeTypeOK
      <3>3. QED
        BY <3>2, <1>1, <1>4 DEF NativeTypeOK
    <2>2. QED
      BY <2>1, <1>10
  <1>13. JobGood(j)'
    BY <1>2, <1>3, <1>5, <1>11, <1>12 DEF JobGood, OpenGood, CancelGood, LogoutGood, Runs
  <1>14. NativeInv' /\ Lasting
    BY <1>1, <1>2, <1>4, <1>5, <1>8, <1>9, <1>13, QuietStep DEF NativeTypeOK
  <1>15. P!Begin(p, "logout", id, NoIssuance)
    BY <1>1, <1>2, <1>4, JoinBegins
  <1>16. SessionIs(id)
    BY <1>1, SessionFacts
  <1>17. CASE Retained(id) /\ ~Denied(id)
    <2>1. Sessions' = [Sessions EXCEPT ![id] = "denied"] /\ Credentials' = Credentials
      BY <1>17, <1>1, <1>2, <1>6, DenyView
    <2>2. P!Request(p)
      BY <1>2, <1>15, <1>16, <2>1 DEF P!Request, P!Logout, SessionIs
    <2>3. Calls'[p] # Calls[p]
      <3>1. /\ Calls[p] = View(job[p]) /\ Calls'[p] = View(j)
            /\ View(j).op = "logout" /\ View(j).id = id
            /\ View(job[p]).op = job[p].op /\ View(job[p]).id = job[p].id
        BY <1>1, <1>4, <1>5, CallsView, ViewFields
      <3>2. ~(job[p].op = "logout" /\ job[p].id = id)
        BY <1>1, <1>17 DEF JobGood, LogoutGood, Gone, Retained
      <3>3. QED
        BY <3>1, <3>2
    <2>4. QED
      BY <1>1, <1>4, <1>14, <2>2, <2>3, CallStep DEF Goes
  <1>18. CASE ~(Retained(id) /\ ~Denied(id))
    <2>1. UNCHANGED <<Sessions, Credentials>>
      BY <1>18, <1>1, <1>2, <1>7, <1>8, SettlesView DEF Denied
    <2>2. Sessions[id] # "presented"
      BY <1>16, <1>18 DEF SessionIs, Authentic, Retained
    <2>3. P!Request(p)
      BY <1>2, <1>15, <1>16, <2>1, <2>2 DEF P!Request, P!Logout, SessionIs
    <2>4. QED
      BY <1>1, <1>2, <1>4, <1>14, <2>1, <2>3, CallStep DEF Goes
  <1>19. QED
    BY <1>17, <1>18

\* A queued call leaves for UBID with its slots swept or left, and is not seen.
LEMMA CallGoes ==
  ASSUME NativeInv, capacity > 0, NEW p \in Proc, Turn(p), job[p].op # "read", Call(p),
         locks' = locks, Settles, UNCHANGED <<capacity, receipt, revoked>>, AliasesShrink,
         aliases' \in [Issuance -> Id \cup {NoId}],
         \A id \in Id : logout'[id].confirmed => logout[id].confirmed,
         job[p].op = "cancel" => NoneOf(job[p].iss)'
  PROVE  NativeInv' /\ Lasting /\ Calls' = Calls
  <1>1. NativeTypeOK /\ StoreInv /\ QueueInv /\ JobGood(job[p]) /\ job[p] \in Job
    BY DEF NativeInv, Managed, NativeTypeOK
  <1>2. job[p].at = "queued"
    BY DEF Turn
  <1>3. job[p].iss \in Issuance /\ First(p, job[p].iss) /\ OpenGood(job[p])
    BY <1>2, TurnFirst
  <1>4. PICK j \in Job : job' = [job EXCEPT ![p] = j]
                         /\ Moved(j, job[p], "calling", job[p].ok, job[p].reply)
    BY <1>1, CallJob
  <1>5. QueueInv'
    <2>1. Runs(j) => j.iss \in Issuance /\ First(p, j.iss)
      BY <1>3, <1>4 DEF Moved
    <2>2. \A i \in Issuance : Waits(job[p], i) => Waits(j, i)
      BY <1>4 DEF Waits, Moved
    <2>3. QED
      BY <2>1, <2>2, <1>1, <1>4, QueueStays
  <1>6. Carries /\ LockTypes
    BY <1>1 DEF Carries, LockTypes, NativeTypeOK
  <1>7. StoreInv' /\ Lasting
    BY <1>1, SettlesStore
  <1>8. JobGood(j)'
    <2>1. \A id \in Id : /\ Used(id) => Used(id)' /\ record'[id] = record[id]
                         /\ Denied(id) => Denied(id)'
                         /\ Used(id) /\ Gone(id) => Gone(id)'
      BY <1>7 DEF Lasting, Used
    <2>2. OpenGood(j)'
      BY <2>1, <1>3, <1>4 DEF OpenGood, Moved
    <2>3. LogoutGood(j)'
      BY <2>1, <1>1, <1>4 DEF JobGood, LogoutGood, Moved
    <2>4. CancelGood(j)'
      BY <1>3, <1>4 DEF OpenGood, CancelGood, Moved
    <2>5. QED
      BY <2>2, <2>3, <2>4 DEF JobGood
  <1>9. ~Hopeful(j) /\ j.reply # "cancelled"
    BY <1>3, <1>4 DEF Hopeful, OpenGood, Moved
  <1>10. NativeInv' /\ Lasting
    BY <1>1, <1>4, <1>5, <1>6, <1>8, <1>9, QuietStep DEF NativeTypeOK
  <1>11. Calls' = Calls
    BY <1>1, <1>2, <1>4, HiddenMove
  <1>12. QED
    BY <1>10, <1>11

\* The first call of its queue is answered, and lets the next one run; what it
\* answers is true of the state.
LEMMA ReplyGoes ==
  ASSUME NativeInv, capacity > 0, NEW p \in Proc, job[p].at # "done", job[p].op # "read",
         Turn(p) \/ job[p].at \in {"calling", "answered"},
         NEW reply \in {"unavailable", "confirmed", "cancelled"}, Finish(p, reply), Release(p),
         Settles, UNCHANGED <<capacity, receipt, revoked>>, AliasesShrink,
         aliases' \in [Issuance -> Id \cup {NoId}],
         \A id \in Id : Denied(id)' <=> Denied(id),
         \A id \in Id : logout'[id].confirmed =>
             logout[id].confirmed \/ record[id].issuance \in revoked,
         reply = "confirmed" => job[p].op = "logout" /\ job[p].iss \in revoked,
         reply = "cancelled" =>
             job[p].op = "cancel" /\ Runs(job[p]) /\ job[p].iss \in revoked
  PROVE  Goes
  <1>1. NativeTypeOK /\ StoreInv /\ QueueInv /\ JobGood(job[p]) /\ job[p] \in Job /\ capacity # 0
    BY DEF NativeInv, Managed, NativeTypeOK
  <1>2. job[p].iss \in Issuance /\ First(p, job[p].iss) /\ OpenGood(job[p])
    BY TurnFirst
  <1>3. PICK j \in Job : job' = [job EXCEPT ![p] = j]
                         /\ Moved(j, job[p], "done", job[p].ok, reply)
    BY <1>1, FinishJob
  <1>4. QueueInv' /\ LockTypes
    BY <1>2, <1>3, ReleaseQueue DEF Moved
  <1>5. Carries
    BY DEF Carries
  <1>6. StoreInv' /\ Lasting
    BY <1>1, SettlesStore
  <1>7. JobGood(j)'
    <2>1. \A id \in Id : /\ Used(id) => Used(id)'
                         /\ Used(id) /\ Gone(id) => Gone(id)'
      BY <1>6 DEF Lasting, Used
    <2>2. LogoutGood(j)'
      BY <2>1, <1>1, <1>3 DEF JobGood, LogoutGood, Moved
    <2>3. reply = "cancelled" => NoneOf(j.iss)'
      <3>1. reply = "cancelled" => NoneOf(j.iss)
        BY <1>2, <1>3 DEF OpenGood, Moved
      <3>2. \A id \in Id : record'[id] = record[id] /\ (Authentic(id)' => Authentic(id))
        <4> SUFFICES ASSUME NEW id \in Id
                     PROVE  record'[id] = record[id] /\ (Authentic(id)' => Authentic(id))
          OBVIOUS
        <4>1. Authentic(id)' => Used(id)'
          BY <1>6 DEF Authentic, Swept, StoreInv, OnlyUsed
        <4>2. QED
          BY <4>1, <1>6 DEF Settles, Lasting, Used
      <3>3. QED
        BY <3>1, <3>2 DEF NoneOf
    <2>4. CancelGood(j)'
      BY <2>3, <1>2, <1>3 DEF CancelGood, Moved
    <2>5. QED
      BY <2>2, <2>4, <1>3 DEF JobGood, Moved
  <1>8. ~Hopeful(j)
    BY <1>3 DEF Hopeful, Moved
  <1>9. \A q \in Proc : q # p /\ Hopeful(job[q]) /\ j.reply = "cancelled" => job[q].iss # j.iss
    <2> SUFFICES ASSUME NEW q \in Proc, q # p, Hopeful(job[q]), j.reply = "cancelled",
                        job[q].iss = job[p].iss
                 PROVE  FALSE
      BY <1>3 DEF Moved
    <2>1. Runs(job[p]) /\ Runs(job[q])
      BY <1>3 DEF Moved, Hopeful, Runs
    <2>2. QED
      BY <2>1, <1>1, OneRuns
  <1>10. NativeInv' /\ Lasting
    BY <1>1, <1>3, <1>4, <1>5, <1>7, <1>8, <1>9, QuietStep DEF NativeTypeOK
  <1>11. UNCHANGED <<Sessions, Credentials>>
    BY <1>1, SettlesView
  <1>12. reply \in P!Answers(View(j).op, View(j).id, View(j).iss, View(j).late)
    <2>1. /\ View(j).op = job[p].op /\ View(j).id = job[p].id
          /\ View(j).iss = IF job[p].op \in {"install", "cancel"} THEN job[p].iss ELSE NoIssuance
      BY <1>3, ViewFields DEF Moved
    <2>2. CASE reply = "unavailable"
      BY <2>1, <2>2, <1>1, AnswersAre
    <2>3. CASE reply = "confirmed"
      <3>1. job[p].id \in Id /\ job[p].iss = record[job[p].id].issuance
        BY <2>3, <1>2 DEF OpenGood
      <3>2. record[job[p].id].issuance # NoIssuance
        BY <3>1, <1>2, StoreAssumption
      <3>3. QED
        BY <2>1, <2>3, <3>1, <3>2, <1>1, AnswersAre
    <2>4. CASE reply = "cancelled"
      BY <2>1, <2>4, <1>1, AnswersAre
    <2>5. QED
      BY <2>2, <2>3, <2>4
  <1>13. Implements
    BY <1>1, <1>3, <1>11, <1>12, ReplyStep
  <1>14. QED
    BY <1>10, <1>13 DEF Goes

\* A logout in its turn: to UBID, confirmed already, or without its slot.
LEMMA BeginLogoutCallGoes ==
  ASSUME NativeInv, capacity > 0, NEW p \in Proc, BeginLogoutCall(p)
  PROVE  Goes
  <1>1. NativeTypeOK /\ StoreInv /\ ManagedStore /\ capacity # 0
    BY DEF NativeInv, Managed, NativeTypeOK
  <1>2. /\ job[p].op = "logout" /\ Turn(p) /\ slots' = Swept
        /\ UNCHANGED <<clock, record, logout, capacity, aliases, receipt, revoked>>
    BY DEF BeginLogoutCall
  <1>3. job[p].at = "queued"
    BY <1>2 DEF Turn
  <1>4. OpenGood(job[p])
    BY <1>2, <1>3, TurnFirst
  <1>5. Settles
    BY <1>1, <1>2, SweepSettles
  <1>6. AliasesShrink /\ aliases' \in [Issuance -> Id \cup {NoId}]
    BY <1>1, <1>2 DEF AliasesShrink, NativeTypeOK
  <1>7. \A id \in Id : Denied(id)' <=> Denied(id)
    BY <1>2 DEF Denied
  <1>8. CASE Call(p) /\ UNCHANGED locks
    <2>1. NativeInv' /\ Lasting /\ Calls' = Calls
      BY <1>2, <1>5, <1>6, <1>8, CallGoes
    <2>2. UNCHANGED <<Sessions, Credentials>>
      BY <1>1, <1>2, <1>5, <1>7, SettlesView
    <2>3. QED
      BY <2>1, <2>2, <1>2, SilentStep DEF Goes
  <1>9. CASE Retained(job[p].id) /\ logout[job[p].id].confirmed
             /\ Finish(p, "confirmed") /\ Release(p)
    <2>1. job[p].iss \in revoked
      BY <1>1, <1>2, <1>4, <1>9 DEF OpenGood, ManagedStore, ConfirmedRevoked
    <2>2. QED
      BY <2>1, <1>2, <1>3, <1>5, <1>6, <1>7, <1>9, ReplyGoes
  <1>10. CASE Finish(p, "unavailable") /\ Release(p)
    BY <1>2, <1>3, <1>5, <1>6, <1>7, <1>10, ReplyGoes
  <1>11. QED
    BY <1>8, <1>9, <1>10 DEF BeginLogoutCall

\* The logout is confirmed in the slot, or may be retried.
LEMMA EndLogoutGoes ==
  ASSUME NativeInv, capacity > 0, NEW p \in Proc, EndLogout(p)
  PROVE  Goes
  <1>1. NativeTypeOK /\ StoreInv /\ ManagedStore /\ JobGood(job[p])
    BY DEF NativeInv, Managed, NativeTypeOK
  <1>2. /\ job[p].op = "logout" /\ job[p].at = "answered" /\ Release(p)
        /\ UNCHANGED <<clock, record, slots, capacity, aliases, receipt, revoked>>
    BY DEF EndLogout
  <1>3. /\ OpenGood(job[p]) /\ job[p].id \in Id /\ Denied(job[p].id)
        /\ job[p].iss = record[job[p].id].issuance
    BY <1>1, <1>2 DEF JobGood, OpenGood
  <1>4. AliasesShrink /\ aliases' \in [Issuance -> Id \cup {NoId}]
    BY <1>1, <1>2 DEF AliasesShrink, NativeTypeOK
  <1>5. CASE job[p].ok
    <2>1. /\ logout' = [logout EXCEPT ![job[p].id].confirmed = TRUE]
          /\ Finish(p, "confirmed") /\ job[p].iss \in revoked
      BY <1>2, <1>3, <1>5 DEF EndLogout, OpenGood
    <2>2. /\ Settles
          /\ \A other \in Id : other # job[p].id => logout'[other] = logout[other]
      BY <2>1, <1>1, <1>2, <1>3, ConfirmSettles
    <2>3. \A id \in Id : logout'[id].confirmed =>
              logout[id].confirmed \/ record[id].issuance \in revoked
      BY <2>1, <2>2, <1>3
    <2>4. PICK denied \in Id : denied = job[p].id
      BY <1>3
    <2>5. \A id \in Id : Denied(id)' <=> Denied(id)
      <3>1. Denied(denied) /\ Denied(denied)'
        BY <2>2, <2>4, <1>1, <1>3, SettlesStore DEF Lasting
      <3>2. QED
        BY <2>2, <2>4, <3>1 DEF Denied
    <2>6. QED
      BY <2>1, <2>2, <2>3, <2>5, <1>2, <1>4, ReplyGoes
  <1>6. CASE ~job[p].ok
    <2>1. logout' = logout /\ Finish(p, "unavailable")
      BY <1>6 DEF EndLogout
    <2>2. Settles
      BY <2>1, <1>1, <1>2, SweepSettles
    <2>3. \A id \in Id : Denied(id)' <=> Denied(id)
      BY <2>1 DEF Denied
    <2>4. QED
      BY <2>1, <2>2, <2>3, <1>2, <1>4, ReplyGoes
  <1>7. QED
    BY <1>5, <1>6

-----------------------------------------------------------------------------
(* cancelUninstalled().                                                    *)

\* A cancellation in its turn denies the session of its credential.
LEMMA BeginCancelGoes ==
  ASSUME NativeInv, capacity > 0, NEW p \in Proc, BeginCancel(p)
  PROVE  Goes
  <1>1. /\ NativeTypeOK /\ StoreInv /\ ManagedStore /\ capacity # 0
        /\ job[p] \in Job
    BY DEF NativeInv, Managed, NativeTypeOK
  <1>2. /\ job[p].op = "cancel" /\ Turn(p) /\ Call(p) /\ job[p].at = "queued"
        /\ UNCHANGED <<clock, record, capacity, aliases, locks, receipt, revoked>>
    BY DEF BeginCancel, Turn
  <1>3. job[p].iss \in Issuance
    BY <1>2, TurnFirst
  <1>4. PICK i \in Issuance, id \in Id \cup {NoId} : i = job[p].iss /\ id = aliases[i]
    BY <1>1, <1>3 DEF NativeTypeOK
  <1>5. /\ slots' = IF id # NoId THEN Swept ELSE slots
        /\ logout' = IF id # NoId /\ Retained(id) /\ ~Denied(id)
                     THEN [logout EXCEPT ![id] = NewLogout(id)] ELSE logout
    BY <1>4 DEF BeginCancel
  <1>6. AliasesShrink /\ aliases' \in [Issuance -> Id \cup {NoId}]
    BY <1>1, <1>2 DEF AliasesShrink, NativeTypeOK
  <1>7. \A other \in Id : record[other].issuance = i /\ Authentic(other) => other = id
    <2> SUFFICES ASSUME NEW other \in Id, record[other].issuance = i, Authentic(other)
                 PROVE  other = id
      OBVIOUS
    <2>1. other \in slots
      BY DEF Authentic, Swept
    <2>2. QED
      BY <2>1, <1>1, <1>4 DEF ManagedStore, SlotsAliased
  <1>8. CASE id # NoId /\ Retained(id) /\ ~Denied(id)
    <2>1. id \in Id
      BY <1>8
    <2>2. Denies(id)
      BY <1>2, <1>5, <1>8 DEF Denies, Retained
    <2>3. /\ Settles /\ Used(id) /\ Denied(id)' /\ ~logout'[id].confirmed
          /\ \A other \in Id : other # id => logout'[other] = logout[other]
      BY <2>1, <2>2, <1>1, DenySettles
    <2>4. NoneOf(i)'
      <3> SUFFICES ASSUME NEW other \in Id, record'[other].issuance = i, Authentic(other)'
                   PROVE  FALSE
        BY DEF NoneOf
      <3>1. other # id
        BY <2>3 DEF Authentic
      <3>2. Authentic(other) /\ record[other].issuance = i
        BY <2>3, <3>1, <1>2, SettlesLeaves
      <3>3. QED
        BY <3>1, <3>2, <1>7
    <2>5. NoneOf(job[p].iss)' <=> NoneOf(i)'
      <3>1. job'[p].iss = i
        BY <1>1, <1>2, <1>4 DEF Call, NativeTypeOK, Job
      <3>2. QED
        BY <3>1 DEF NoneOf
    <2>6. NativeInv' /\ Lasting /\ Calls' = Calls
      BY <2>3, <2>4, <2>5, <1>2, <1>6, CallGoes
    <2>7. Sessions' = [Sessions EXCEPT ![id] = "denied"] /\ Credentials' = Credentials
      BY <2>1, <2>2, <1>1, <1>2, DenyView
    <2>8. P!Cancel(p, id)
      <3>1. SessionIs(id) /\ record[id].issuance = i
        BY <2>1, <1>1, <1>4, <1>8, SessionFacts DEF ManagedStore, AliasesOwned
      <3>2. Calls[p] = View(job[p])
        BY DEF Calls, View
      <3>3. View(job[p]).op = "cancel" /\ View(job[p]).iss = i /\ View(job[p]).open
        BY <1>2, <1>4, ViewFields
      <3>4. Calls[p].op = "cancel" /\ Calls[p].iss = i /\ Calls[p].open
        BY <3>2, <3>3
      <3>5. QED
        BY <2>3, <2>7, <3>1, <3>4, <1>2 DEF P!Cancel, SessionIs
    <2>9. Implements
      BY <2>1, <2>6, <2>8 DEF Implements, P!Next
    <2>10. QED
      BY <2>6, <2>9 DEF Goes
  <1>9. CASE ~(id # NoId /\ Retained(id) /\ ~Denied(id))
    <2>1. logout' = logout /\ slots' \in {slots, Swept}
      BY <1>5, <1>9
    <2>2. Settles
      BY <2>1, <1>1, <1>2, SweepSettles
    <2>3. NoneOf(i)'
      <3> SUFFICES ASSUME NEW other \in Id, record'[other].issuance = i, Authentic(other)'
                   PROVE  FALSE
        BY DEF NoneOf
      <3>1. Authentic(other) /\ record[other].issuance = i
        BY <2>1, <2>2, <1>2, SettlesLeaves
      <3>2. other = id
        BY <3>1, <1>7
      <3>3. QED
        BY <3>1, <3>2, <1>9, NativeAssumption DEF Authentic, Retained
    <2>4. NoneOf(job[p].iss)' <=> NoneOf(i)'
      <3>1. job'[p].iss = i
        BY <1>1, <1>2, <1>4 DEF Call, NativeTypeOK, Job
      <3>2. QED
        BY <3>1 DEF NoneOf
    <2>5. NativeInv' /\ Lasting /\ Calls' = Calls
      BY <2>1, <2>2, <2>3, <2>4, <1>2, <1>6, CallGoes
    <2>6. UNCHANGED <<Sessions, Credentials>>
      BY <2>1, <2>2, <1>1, <1>2, SettlesView DEF Denied
    <2>7. QED
      BY <2>5, <2>6, <1>2, SilentStep DEF Goes
  <1>10. QED
    BY <1>8, <1>9

\* The cancellation is answered.
LEMMA EndCancelGoes ==
  ASSUME NativeInv, capacity > 0, NEW p \in Proc, EndCancel(p)
  PROVE  Goes
  <1>1. NativeTypeOK /\ StoreInv /\ JobGood(job[p])
    BY DEF NativeInv, Managed, NativeTypeOK
  <1>2. /\ job[p].op = "cancel" /\ job[p].at = "answered" /\ Release(p)
        /\ UNCHANGED <<clock, record, slots, logout, capacity, aliases, receipt, revoked>>
    BY DEF EndCancel, storeVars
  <1>3. AliasesShrink /\ aliases' \in [Issuance -> Id \cup {NoId}]
    BY <1>1, <1>2 DEF AliasesShrink, NativeTypeOK
  <1>4. Settles
    BY <1>1, <1>2, SweepSettles
  <1>5. \A id \in Id : Denied(id)' <=> Denied(id)
    BY <1>2 DEF Denied
  <1>6. CASE job[p].ok /\ Finish(p, "cancelled")
    <2>1. Runs(job[p]) /\ job[p].iss \in revoked
      BY <1>1, <1>2, <1>6 DEF Runs, JobGood, OpenGood
    <2>2. QED
      BY <2>1, <1>2, <1>3, <1>4, <1>5, <1>6, ReplyGoes
  <1>7. CASE Finish(p, "unavailable")
    BY <1>2, <1>3, <1>4, <1>5, <1>7, ReplyGoes
  <1>8. QED
    BY <1>6, <1>7 DEF EndCancel

-----------------------------------------------------------------------------
(* install().                                                              *)

\* An install in its turn: to UBID, or refused.
LEMMA BeginInstallGoes ==
  ASSUME NativeInv, capacity > 0, NEW p \in Proc, NEW current \in BOOLEAN,
         BeginInstall(p, current)
  PROVE  Goes
  <1>1. NativeTypeOK /\ StoreInv /\ ManagedStore /\ capacity # 0
    BY DEF NativeInv, Managed, NativeTypeOK
  <1>2. /\ job[p].op = "install" /\ Turn(p) /\ job[p].at = "queued"
        /\ slots' = (IF \E i \in Issuance : aliases[i] # NoId THEN Swept ELSE slots)
        /\ aliases' = [i \in Issuance |-> IF aliases[i] \in Swept THEN aliases[i] ELSE NoId]
        /\ UNCHANGED <<clock, record, logout, capacity, receipt, revoked>>
    BY DEF BeginInstall, Turn
  <1>3. Settles
    BY <1>1, <1>2, SweepSettles
  <1>4. aliases' \in [Issuance -> Id \cup {NoId}]
    BY <1>1, <1>2 DEF NativeTypeOK
  <1>5. AliasesShrink
    <2> SUFFICES ASSUME NEW i \in Issuance
                 PROVE  /\ aliases'[i] \in {aliases[i], NoId}
                        /\ aliases[i] \in slots' => aliases'[i] = aliases[i]
      BY DEF AliasesShrink
    <2>1. aliases'[i] = IF aliases[i] \in Swept THEN aliases[i] ELSE NoId
      BY <1>2
    <2>2. aliases[i] # NoId => slots' = Swept
      BY <1>2
    <2>3. QED
      BY <2>1, <2>2
  <1>6. \A id \in Id : Denied(id)' <=> Denied(id)
    BY <1>2 DEF Denied
  <1>7. CASE Call(p) /\ UNCHANGED locks
    <2>1. NativeInv' /\ Lasting /\ Calls' = Calls
      BY <1>2, <1>3, <1>4, <1>5, <1>7, CallGoes
    <2>2. UNCHANGED <<Sessions, Credentials>>
      BY <1>1, <1>2, <1>3, <1>6, SettlesView
    <2>3. QED
      BY <2>1, <2>2, <1>2, SilentStep DEF Goes
  <1>8. CASE Finish(p, "unavailable") /\ Release(p)
    BY <1>2, <1>3, <1>4, <1>5, <1>6, <1>8, ReplyGoes
  <1>9. QED
    BY <1>7, <1>8 DEF BeginInstall

\* An install that has its valid answer: the facts the ends of it share.
LEMMA InstallFacts ==
  ASSUME NativeInv, capacity > 0, NEW p \in Proc, NEW current \in BOOLEAN,
         EndInstall(p, current)
  PROVE  /\ NativeTypeOK /\ StoreInv /\ ManagedStore /\ QueueInv /\ Uncancelled
         /\ capacity # 0 /\ JobGood(job[p]) /\ job[p] \in Job
         /\ \A q \in Proc : JobGood(job[q])
         /\ job[p].op = "install" /\ job[p].at = "answered" /\ Release(p)
         /\ UNCHANGED <<clock, capacity, receipt, revoked>>
         /\ job[p].iss \in Issuance /\ First(p, job[p].iss) /\ Carries
         /\ Installable(p, current) => Hopeful(job[p]) /\ receipt[job[p].iss] \in Receipt
  <1>1. /\ NativeTypeOK /\ StoreInv /\ ManagedStore /\ QueueInv /\ Uncancelled
        /\ capacity # 0 /\ JobGood(job[p]) /\ job[p] \in Job
        /\ \A q \in Proc : JobGood(job[q])
    BY DEF NativeInv, Managed, NativeTypeOK
  <1>2. /\ job[p].op = "install" /\ job[p].at = "answered" /\ Release(p)
        /\ UNCHANGED <<clock, capacity, receipt, revoked>>
    BY DEF EndInstall
  <1>3. job[p].iss \in Issuance /\ First(p, job[p].iss)
    BY <1>2, TurnFirst
  <1>4. Carries
    BY <1>2 DEF Carries
  <1>5. Installable(p, current) => receipt[job[p].iss] \in Receipt
    <2> SUFFICES ASSUME Installable(p, current)
                 PROVE  receipt[job[p].iss] \in Receipt
      OBVIOUS
    <2>1. clock \in Nat /\ clock < receipt[job[p].iss].to
      BY <1>1 DEF Installable, InDates, StoreInv, StoreTypeOK
    <2>2. receipt[job[p].iss] # NoReceipt
      BY <2>1 DEF NoReceipt
    <2>3. QED
      BY <2>2, <1>1, <1>3 DEF NativeTypeOK
  <1>6. Installable(p, current) => Hopeful(job[p])
    BY <1>2 DEF Installable, Hopeful
  <1>7. QED
    BY <1>1, <1>2, <1>3, <1>4, <1>5, <1>6

\* The call of an install that ends is good whatever it answers.
LEMMA InstallEnds ==
  ASSUME NEW j \in Job, j.op = "install", j.at = "done", j.reply # "cancelled"
  PROVE  JobGood(j)' /\ ~Hopeful(j)
  BY DEF JobGood, CancelGood, LogoutGood, Hopeful

\* The install finds the session its credential has.
LEMMA InstallAliasGoes ==
  ASSUME NativeInv, capacity > 0, NEW p \in Proc, NEW current \in BOOLEAN,
         EndInstall(p, current), InstallAlias(p, current)
  PROVE  Goes
  <1>1. /\ NativeTypeOK /\ StoreInv /\ ManagedStore /\ capacity # 0 /\ job[p] \in Job
        /\ job[p].op = "install" /\ job[p].at = "answered" /\ Release(p)
        /\ UNCHANGED <<clock, capacity, receipt, revoked>>
        /\ job[p].iss \in Issuance /\ First(p, job[p].iss) /\ Carries
    BY InstallFacts
  <1>2. PICK id \in Id : id = aliases[job[p].iss] /\ Authentic(id)
    BY <1>1 DEF InstallAlias, NativeTypeOK
  <1>3. /\ slots' = Swept /\ UNCHANGED <<record, aliases>>
        /\ id \in Swept /\ ~Denied(id)
    BY <1>2 DEF InstallAlias, Authentic
  <1>4. AliasesShrink /\ aliases' \in [Issuance -> Id \cup {NoId}]
    BY <1>1, <1>3 DEF AliasesShrink, NativeTypeOK
  <1>5. PICK still \in BOOLEAN : Present(p, id, still)
    BY <1>2 DEF InstallAlias
  <1>6. SessionIs(id) /\ record[id].issuance = job[p].iss
    BY <1>1, <1>2, <1>3, SessionFacts, NativeAssumption DEF ManagedStore, AliasesOwned
  <1>7. /\ Calls[p] = View(job[p])
        /\ View(job[p]).op = "install" /\ View(job[p]).iss = job[p].iss /\ View(job[p]).open
    <2>1. Calls[p] = View(job[p])
      BY DEF Calls, View
    <2>2. QED
      BY <2>1, <1>1, ViewFields
  <1>8. CASE still
    <2>1. /\ job' = [job EXCEPT ![p].at = "done", ![p].reply = "installed", ![p].id = id]
          /\ UNCHANGED logout
      BY <1>5, <1>8 DEF Present
    <2>2. PICK j \in Job : /\ job' = [job EXCEPT ![p] = j]
                           /\ j.op = job[p].op /\ j.iss = job[p].iss /\ j.late = job[p].late
                           /\ j.at = "done" /\ j.reply = "installed" /\ j.id = id
      BY <2>1, <1>1, InstalledJob
    <2>3. Settles
      BY <2>1, <1>1, <1>3, SweepSettles
    <2>4. QueueInv' /\ LockTypes
      BY <2>2, <1>1, ReleaseQueue
    <2>5. JobGood(j)' /\ ~Hopeful(j) /\ j.reply # "cancelled"
      BY <2>2, <1>1, InstallEnds
    <2>6. NativeInv' /\ Lasting
      BY <2>1, <2>2, <2>3, <2>4, <2>5, <1>1, <1>4, QuietStep DEF NativeTypeOK
    <2>7. UNCHANGED <<Sessions, Credentials>>
      BY <2>1, <2>3, <1>1, SettlesView DEF Denied
    <2>8. P!Installs(p, id)
      BY <2>2, <1>1, <1>7, InstallsView
    <2>9. P!Request(p)
      BY <2>7, <2>8, <1>1, <1>2, <1>6, <1>7 DEF P!Request, P!PresentAgain, SessionIs
    <2>10. Implements
      BY <2>2, <2>7, <2>9, <1>1, CallStep
    <2>11. QED
      BY <2>6, <2>10 DEF Goes
  <1>9. CASE ~still
    <2>1. /\ Finish(p, "unavailable")
          /\ logout' = [logout EXCEPT ![id] = [until |-> clock + Retention, confirmed |-> FALSE]]
      BY <1>5, <1>9 DEF Present
    <2>2. PICK j \in Job : job' = [job EXCEPT ![p] = j]
                           /\ Moved(j, job[p], "done", job[p].ok, "unavailable")
      BY <2>1, <1>1, FinishJob
    <2>3. Denies(id)
      BY <2>1, <1>1, <1>3 DEF Denies
    <2>4. /\ Settles
          /\ \A other \in Id : logout'[other].confirmed => logout[other].confirmed
      BY <2>3, <1>1, DenySettles
    <2>5. QueueInv' /\ LockTypes
      BY <2>2, <1>1, ReleaseQueue DEF Moved
    <2>6. JobGood(j)' /\ ~Hopeful(j) /\ j.reply # "cancelled"
      BY <2>2, <1>1, InstallEnds DEF Moved
    <2>7. NativeInv' /\ Lasting
      BY <2>2, <2>4, <2>5, <2>6, <1>1, <1>4, QuietStep DEF NativeTypeOK
    <2>8. Sessions' = [Sessions EXCEPT ![id] = "denied"] /\ Credentials' = Credentials
      BY <2>3, <1>1, DenyView
    <2>9. Credentials' = [Credentials EXCEPT ![id] = job[p].iss]
      BY <2>8, <1>6, SessionsDomain DEF SessionIs
    <2>10. Sessions[id] = "presented" /\ Credentials[id] = job[p].iss
      BY <1>2, <1>6 DEF SessionIs
    <2>11. Implements
      BY <2>2, <2>8, <2>9, <2>10, <1>1, WithdrawView
    <2>12. QED
      BY <2>7, <2>11 DEF Goes
  <1>10. QED
    BY <1>8, <1>9

\* The install creates the session, and withdraws it for a caller gone.
LEMMA InstallNewGoes ==
  ASSUME NativeInv, capacity > 0, NEW p \in Proc, NEW current \in BOOLEAN,
         EndInstall(p, current), NEW id \in Id, InstallNew(p, current, id)
  PROVE  Goes
  <1>1. /\ NativeTypeOK /\ StoreInv /\ ManagedStore /\ QueueInv /\ Uncancelled
        /\ capacity # 0 /\ job[p] \in Job /\ \A q \in Proc : JobGood(job[q])
        /\ job[p].op = "install" /\ job[p].at = "answered" /\ Release(p)
        /\ UNCHANGED <<clock, capacity, receipt, revoked>>
        /\ job[p].iss \in Issuance /\ First(p, job[p].iss) /\ Carries
        /\ Hopeful(job[p]) /\ receipt[job[p].iss] \in Receipt
    BY InstallFacts DEF InstallNew
  <1>2. PICK i \in Issuance : i = job[p].iss
    BY <1>1
  <1>3. /\ aliases[i] = NoId /\ InDates(i) /\ aliases' = [aliases EXCEPT ![i] = id]
        /\ ~Used(id) /\ HasRoom /\ ValidDates(NativeRecord(i))
        /\ record' = [record EXCEPT ![id] = NativeRecord(i)]
        /\ slots' = Swept \cup {id}
        /\ \E still \in BOOLEAN : Present(p, id, still)
    BY <1>2 DEF InstallNew, Installable
  <1>4. PICK still \in BOOLEAN : Present(p, id, still)
    BY <1>3
  <1>5. PICK j \in Job :
          /\ job' = [job EXCEPT ![p] = j]
          /\ j.op = "install" /\ j.at = "done" /\ j.reply # "cancelled"
          /\ still => /\ logout' = logout
                      /\ j.op = job[p].op /\ j.iss = job[p].iss /\ j.late = job[p].late
                      /\ j.reply = "installed" /\ j.id = id
          /\ ~still => /\ logout' = [logout EXCEPT ![id] =
                                        [until |-> clock + Retention, confirmed |-> FALSE]]
                       /\ Moved(j, job[p], "done", job[p].ok, "unavailable")
    <2>1. CASE still
      <3>1. /\ job' = [job EXCEPT ![p].at = "done", ![p].reply = "installed", ![p].id = id]
            /\ UNCHANGED logout
        BY <1>4, <2>1 DEF Present
      <3>2. PICK j \in Job :
              /\ job' = [job EXCEPT ![p] = j]
              /\ j.op = job[p].op /\ j.iss = job[p].iss /\ j.late = job[p].late
              /\ j.at = "done" /\ j.reply = "installed" /\ j.id = id
        BY <3>1, <1>1, InstalledJob
      <3>3. QED
        BY <2>1, <3>1, <3>2, <1>1
    <2>2. CASE ~still
      <3>1. /\ Finish(p, "unavailable")
            /\ logout' = [logout EXCEPT ![id] =
                             [until |-> clock + Retention, confirmed |-> FALSE]]
        BY <1>4, <2>2 DEF Present
      <3>2. PICK j \in Job : job' = [job EXCEPT ![p] = j]
                             /\ Moved(j, job[p], "done", job[p].ok, "unavailable")
        BY <3>1, <1>1, FinishJob
      <3>3. j.op = "install" /\ j.at = "done" /\ j.reply # "cancelled"
        BY <3>2, <1>1 DEF Moved
      <3>4. QED
        BY <2>2, <3>1, <3>2, <3>3
    <2>3. QED
      BY <2>1, <2>2
  <1>6. Creates(id, i)
    BY <1>1, <1>3, <1>5 DEF Creates
  <1>7. /\ StoreInv' /\ Lasting
        /\ \A other \in Id : other # id => record'[other] = record[other]
        /\ record'[id] = NativeRecord(i)
    BY <1>1, <1>2, <1>6, CreateStore
  <1>8. receipt[i] # NoReceipt
    BY <1>1, <1>3 DEF NoReceipt, InDates, StoreInv, StoreTypeOK
  <1>9. ManagedStore'
    BY <1>1, <1>2, <1>3, <1>6, <1>8, CreateManaged
  <1>10. QueueInv' /\ LockTypes
    BY <1>1, <1>5, ReleaseQueue
  <1>11. JobGood(j)' /\ ~Hopeful(j)
    BY <1>5, InstallEnds
  <1>12. \A q \in Proc : q # p /\ Cancelling(job[q]) => ~Presents(job[q].iss)
    <2> SUFFICES ASSUME NEW q \in Proc, q # p, Cancelling(job[q]), Presents(job[q].iss)
                 PROVE  FALSE
      OBVIOUS
    <2>1. job[q].iss = i
      BY <1>7 DEF Presents, Used, NativeRecord
    <2>2. CASE job[q].reply = "cancelled"
      BY <2>1, <2>2, <1>1, <1>2 DEF Uncancelled
    <2>3. CASE job[q].op = "cancel" /\ Runs(job[q])
      <3>1. Runs(job[p])
        BY <1>1 DEF Runs
      <3>2. QED
        BY <2>1, <2>3, <3>1, <1>1, <1>2, OneRuns
    <2>4. QED
      BY <2>2, <2>3 DEF Cancelling
  <1>13. (\A q \in Proc : JobGood(job[q]))'
    BY <1>1, <1>5, <1>7, <1>11, <1>12, JobsLast
  <1>14. Uncancelled'
    BY <1>1, <1>5, <1>11, UncancelledStays
  <1>15. NativeTypeOK'
    BY <1>1, <1>3, <1>5, <1>10 DEF NativeTypeOK, LockTypes
  <1>16. NativeInv'
    <2>1. capacity' > 0 /\ ~(capacity' = 0)
      BY <1>1
    <2>2. QED
      BY <2>1, <1>7, <1>9, <1>10, <1>13, <1>14, <1>15 DEF NativeInv, Managed
  <1>17. /\ Sessions' = [Sessions EXCEPT ![id] = IF Denied(id)' THEN "denied" ELSE "presented"]
         /\ Credentials' = [Credentials EXCEPT ![id] = i]
         /\ Sessions[id] = "new" /\ Credentials[id] = NoIssuance
    BY <1>1, <1>2, <1>6, CreateView
  <1>18. CASE still
    <2>1. ~Denied(id)'
      BY <1>1, <1>3, <1>5, <1>18 DEF StoreInv, OnlyUsed, Denied
    <2>2. P!Installs(p, id) /\ Calls'[p] # Calls[p]
      BY <1>1, <1>5, <1>18, InstallsView
    <2>3. Calls[p].iss = i
      <3>1. Calls[p] = View(job[p])
        BY DEF Calls, View
      <3>2. View(job[p]).iss = job[p].iss
        BY <1>1, ViewFields
      <3>3. QED
        BY <3>1, <3>2, <1>2
    <2>4. ASSUME NEW other \in Id, Sessions[other] # "new", Credentials[other] = i
          PROVE  FALSE
      <3>1. Used(other) /\ record[other].issuance = i
        BY <2>4, <1>1, SessionFacts DEF SessionIs
      <3>2. aliases[i] = other
        BY <3>1, <1>1, <1>2, <1>3, OneSession
      <3>3. QED
        BY <3>2, <1>3, NativeAssumption
    <2>5. P!PresentNew(p, id)
      BY <2>1, <2>2, <2>3, <2>4, <1>1, <1>17 DEF P!PresentNew
    <2>6. Implements
      BY <2>2, <2>5 DEF Implements, P!Next, P!Request
    <2>7. QED
      BY <2>6, <1>7, <1>16 DEF Goes
  <1>19. CASE ~still
    <2>1. Denied(id)'
      <3>1. logout'[id] = [until |-> clock + Retention, confirmed |-> FALSE]
        BY <1>1, <1>5, <1>19 DEF StoreInv, StoreTypeOK
      <3>2. clock + Retention # -1
        BY <1>1, StoreAssumption DEF StoreInv, StoreTypeOK
      <3>3. logout'[id].until # -1
        BY <3>1, <3>2
      <3>4. QED
        BY <3>3 DEF Denied, NoLogout
    <2>2. Sessions' = [Sessions EXCEPT ![id] = "denied"]
      BY <2>1, <1>17
    <2>3. Implements
      BY <2>2, <1>1, <1>2, <1>5, <1>17, <1>19, WithdrawView
    <2>4. QED
      BY <2>3, <1>7, <1>16 DEF Goes
  <1>20. QED
    BY <1>18, <1>19

\* The install is answered.
LEMMA EndInstallGoes ==
  ASSUME NativeInv, capacity > 0, NEW p \in Proc, NEW current \in BOOLEAN,
         EndInstall(p, current)
  PROVE  Goes
  <1>1. CASE InstallAlias(p, current)
    BY <1>1, InstallAliasGoes
  <1>2. ASSUME NEW id \in Id, InstallNew(p, current, id)
        PROVE  Goes
    BY <1>2, InstallNewGoes
  <1>3. CASE InstallRefused(p, current)
    <2>1. /\ NativeTypeOK /\ StoreInv
          /\ job[p].op = "install" /\ job[p].at = "answered" /\ Release(p)
          /\ UNCHANGED <<clock, capacity, receipt, revoked>>
      BY InstallFacts
    <2>2. /\ Finish(p, "unavailable") /\ slots' \in {slots, Swept}
          /\ UNCHANGED <<record, logout, aliases>>
      BY <1>3 DEF InstallRefused
    <2>3. Settles
      BY <2>1, <2>2, SweepSettles
    <2>4. AliasesShrink /\ aliases' \in [Issuance -> Id \cup {NoId}]
      BY <2>1, <2>2 DEF AliasesShrink, NativeTypeOK
    <2>5. \A id \in Id : Denied(id)' <=> Denied(id)
      BY <2>2 DEF Denied
    <2>6. QED
      BY <2>1, <2>2, <2>3, <2>4, <2>5, ReplyGoes
  <1>4. QED
    BY <1>1, <1>2, <1>3 DEF EndInstall
-----------------------------------------------------------------------------
(* The specification.                                                      *)

\* Every step of the manager, UBID and the clock.
LEMMA ManagerGoes ==
  ASSUME NativeInv, capacity > 0, ManagerNext
  PROVE  Goes
  <1>1. ASSUME NEW i \in Issuance, UbidIssue(i) \/ UbidRevoke(i)
        PROVE  Goes
    BY <1>1, UbidGoes
  <1>2. ASSUME NEW p \in Proc, NEW id \in Id, StartRead(p, id) \/ StartLogout(p, id)
        PROVE  Goes
    BY <1>2, StartReadGoes, StartLogoutGoes
  <1>3. ASSUME NEW p \in Proc, NEW i \in Issuance, StartInstall(p, i) \/ StartCancel(p, i)
        PROVE  Goes
    BY <1>3, AskGoes
  <1>4. ASSUME NEW p \in Proc, Serve(p) \/ Drop(p)
        PROVE  Goes
    BY <1>4, ServeGoes, DropGoes
  <1>5. ASSUME NEW p \in Proc,
               EndRead(p) \/ BeginLogoutCall(p) \/ EndLogout(p) \/ BeginCancel(p) \/ EndCancel(p)
        PROVE  Goes
    BY <1>5, EndReadGoes, BeginLogoutCallGoes, EndLogoutGoes, BeginCancelGoes, EndCancelGoes
  <1>6. ASSUME NEW p \in Proc, NEW current \in BOOLEAN,
               BeginInstall(p, current) \/ EndInstall(p, current)
        PROVE  Goes
    BY <1>6, BeginInstallGoes, EndInstallGoes
  <1>7. CASE NativeTick
    BY <1>7, TickGoes
  <1>8. QED
    BY <1>1, <1>2, <1>3, <1>4, <1>5, <1>6, <1>7 DEF ManagerNext

\* Without a manager the store goes on by itself, and Presentation sees nothing.
LEMMA StoreAlone ==
  ASSUME NativeInv, capacity = 0, [StoreNext]_storeVars, UNCHANGED <<capacity, managerVars>>
  PROVE  NativeInv' /\ UNCHANGED P!vars
  <1>1. NativeTypeOK /\ StoreInv /\ job = [p \in Proc |-> NoJob]
    BY DEF NativeInv
  <1>2. UNCHANGED <<capacity, aliases, locks, job, receipt, revoked>>
    BY DEF managerVars
  <1>3. StoreInv'
    BY <1>1, StoreStep
  <1>4. NativeTypeOK'
    BY <1>1, <1>2 DEF NativeTypeOK
  <1>5. NativeInv'
    BY <1>1, <1>2, <1>3, <1>4 DEF NativeInv
  <1>6. Sessions' = Sessions
    <2>1. \A id \in Id : Sessions[id] = "new" /\ Sessions'[id] = "new"
      BY <1>2 DEF Sessions
    <2>2. /\ Sessions = [id \in Id |-> Sessions[id]]
          /\ Sessions' = [id \in Id |-> Sessions'[id]]
      BY SessionsDomain
    <2>3. \A id \in Id : Sessions'[id] = Sessions[id]
      BY <2>1
    <2>4. QED
      BY <2>2, <2>3, Zenon
  <1>7. /\ Credentials = [id \in Id |-> NoIssuance]
        /\ Credentials' = [id \in Id |-> NoIssuance]
    BY <1>2 DEF Credentials
  <1>8. Calls' = Calls
    BY <1>2 DEF Calls
  <1>9. QED
    BY <1>2, <1>5, <1>6, <1>7, <1>8 DEF P!vars

\* Every step of the specification.
LEMMA NativeStep ==
  ASSUME NativeInv, [NativeNext]_nativeVars
  PROVE  NativeInv' /\ [P!Next]_P!vars
  <1>1. CASE capacity > 0 /\ ManagerNext
    BY <1>1, ManagerGoes DEF Goes, Implements
  <1>2. CASE capacity = 0 /\ StoreNext /\ UNCHANGED <<capacity, managerVars>>
    BY <1>2, StoreAlone
  <1>3. CASE UNCHANGED nativeVars
    <2>1. UNCHANGED <<clock, record, slots, logout, capacity, aliases, locks, job,
                      receipt, revoked>>
      BY <1>3 DEF nativeVars
    <2>2. Sessions' = Sessions /\ Credentials' = Credentials /\ Calls' = Calls
      BY <2>1 DEF Sessions, Credentials, Calls, Used, Denied, Authentic, Swept, Deadline, Mobile
    <2>3. StoreInv'
      BY <2>1, StoreStep DEF NativeInv, storeVars
    <2>4. NativeTypeOK'
      BY <2>1 DEF NativeInv, NativeTypeOK
    <2>5. Managed => Managed'
      <3>1. ManagedStore => ManagedStore'
        BY <2>1 DEF ManagedStore, RecordsNative, SlotsAliased, AliasesOwned, SlotsKept,
                    ConfirmedRevoked, Used, Deadline, Denied, Mobile
      <3>2. QueueInv => QueueInv'
        BY <2>1 DEF QueueInv, Waits, Runs, First
      <3>3. (\A p \in Proc : JobGood(job[p])) => (\A p \in Proc : JobGood(job[p]))'
        BY <2>1 DEF JobGood, OpenGood, CancelGood, LogoutGood, Runs, NoneOf, Gone, Used, Denied,
                    Authentic, Swept, Deadline, Mobile
      <3>4. Uncancelled => Uncancelled'
        BY <2>1 DEF Uncancelled, Hopeful
      <3>5. QED
        BY <3>1, <3>2, <3>3, <3>4 DEF Managed
    <2>6. QED
      BY <2>1, <2>2, <2>3, <2>4, <2>5 DEF P!vars, NativeInv
  <1>4. QED
    BY <1>1, <1>2, <1>3 DEF NativeNext

\* The first state.
LEMMA NativeStart ==
  ASSUME NativeInit
  PROVE  NativeInv /\ P!Init
  <1>1. StoreInv
    BY StoreStart DEF NativeInit
  <1>2. /\ \A id \in Id : ~Used(id) /\ record[id] = NoRecord
        /\ slots = {} /\ aliases = [i \in Issuance |-> NoId]
        /\ locks = [i \in Issuance |-> <<>>] /\ job = [p \in Proc |-> NoJob]
        /\ receipt = [i \in Issuance |-> NoReceipt] /\ revoked = {}
        /\ capacity \in 0 .. MaxCapacity
    BY DEF NativeInit, StoreInit, Used
  <1>3. NativeTypeOK
    <2>1. NoJob \in Job
      BY DEF NoJob, Job
    <2>2. locks \in [Issuance -> Seq(Proc)]
      BY <1>2, EmptySeq
    <2>3. QED
      BY <1>2, <2>1, <2>2 DEF NativeTypeOK
  <1>4. ManagedStore
    BY <1>2 DEF ManagedStore, RecordsNative, SlotsAliased, AliasesOwned, SlotsKept, ConfirmedRevoked
  <1>5. QueueInv
    BY <1>2 DEF QueueInv, Runs, NoJob
  <1>6. (\A p \in Proc : JobGood(job[p])) /\ Uncancelled
    BY <1>2 DEF JobGood, CancelGood, LogoutGood, Uncancelled, Hopeful, NoJob
  <1>7. NativeInv
    BY <1>1, <1>2, <1>3, <1>4, <1>5, <1>6 DEF NativeInv, Managed
  <1>8. P!Init
    <2>1. Sessions = [id \in Id |-> "new"]
      <3>1. \A id \in Id : Sessions[id] = "new"
        BY <1>2 DEF Sessions
      <3>2. QED
        BY <3>1, SessionsDomain, Zenon
    <2>2. Credentials = [id \in Id |-> NoIssuance]
      BY <1>2 DEF Credentials, NoRecord
    <2>3. Calls = [p \in Proc |-> P!NoCall]
      BY <1>2 DEF Calls, P!NoCall, NoJob
    <2>4. QED
      BY <1>2, <2>1, <2>2, <2>3 DEF P!Init
  <1>9. QED
    BY <1>7, <1>8

\* The inductive invariant.
LEMMA NativeInvariant == NativeSpec => []NativeInv
  BY NativeStart, NativeStep, PTL DEF NativeSpec

\* The aliases, queues and calls of createNativeV2SessionManager keep their
\* types.
THEOREM NativeTypeCorrect == NativeSpec => []NativeTypeOK
  <1>1. NativeInv => NativeTypeOK
    BY DEF NativeInv
  <1>2. QED
    BY <1>1, NativeInvariant, PTL

\* The store under the native manager keeps what it keeps by itself: a denial
\* lives at least as long as the credential it denies.
THEOREM NativeDenialOutlivesCredential == NativeSpec => []DenialOutlivesCredential
  <1>1. NativeInv => DenialOutlivesCredential
    BY DEF NativeInv, StoreInv
  <1>2. QED
    BY <1>1, NativeInvariant, PTL

\* After cancelUninstalled() has answered with success no session presents the
\* credential, whatever installs were queued before, behind or under way.
THEOREM NativeCancelledIsDenied == NativeSpec => []CancelledIsDenied
  <1>1. NativeInv => CancelledIsDenied
    <2> SUFFICES ASSUME NativeInv, NEW p \in Proc, NEW id \in Id,
                        job[p].reply = "cancelled", record[id].issuance = job[p].iss
                 PROVE  ~Authentic(id)
      BY DEF CancelledIsDenied
    <2>1. capacity # 0
      BY DEF NativeInv, NoJob
    <2>2. CancelGood(job[p])
      BY <2>1 DEF NativeInv, NativeTypeOK, Managed, JobGood
    <2>3. QED
      BY <2>2 DEF CancelGood, NoneOf
  <1>2. QED
    BY <1>1, NativeInvariant, PTL

\* A session get() has refused is never answered again, by no step of a
\* request, of UBID or of the clock.
THEOREM NativeNoResurrection == NativeSpec => NoResurrection
  <1>1. NativeInv /\ [NativeNext]_nativeVars =>
            [\A id \in Id : Used(id) /\ ~Authentic(id) => ~Authentic(id)']_storeVars
    <2> SUFFICES ASSUME NativeInv, NativeNext
                 PROVE  [\A id \in Id : Used(id) /\ ~Authentic(id) => ~Authentic(id)']_storeVars
      BY DEF nativeVars, storeVars
    <2>1. CASE capacity > 0 /\ ManagerNext
      BY <2>1, ManagerGoes DEF Goes, Lasting
    <2>2. CASE capacity = 0 /\ StoreNext
      <3>1. StoreInv /\ StoreInv'
        BY <2>2, StoreStep DEF NativeInv
      <3>2. QED
        BY <3>1, <2>2, StoreNeverBack
    <2>3. QED
      BY <2>1, <2>2 DEF NativeNext
  <1>2. QED
    BY <1>1, NativeInvariant, PTL DEF NativeSpec, NoResurrection

\* Neither a second logout nor a cancellation moves the deadline of a logout.
THEOREM NativeNonRenewable == NativeSpec => NonRenewable
  <1>1. NativeInv /\ [NativeNext]_nativeVars =>
            [\A id \in Id : Denied(id) => logout'[id].until = logout[id].until]_storeVars
    <2> SUFFICES ASSUME NativeInv, NativeNext
                 PROVE  [\A id \in Id : Denied(id) => logout'[id].until = logout[id].until]_storeVars
      BY DEF nativeVars, storeVars
    <2>1. CASE capacity > 0 /\ ManagerNext
      BY <2>1, ManagerGoes DEF Goes, Lasting
    <2>2. CASE capacity = 0 /\ StoreNext
      <3>1. StoreInv
        BY DEF NativeInv
      <3>2. QED
        BY <3>1, <2>2, StoreDeadlineFixed
    <2>3. QED
      BY <2>1, <2>2 DEF NativeNext
  <1>2. QED
    BY <1>1, NativeInvariant, PTL DEF NativeSpec, NonRenewable

\* The native manager implements what a session manager promises: every step of
\* it is a step of Presentation, or one its callers do not see.
THEOREM NativeImplementsPresentation == NativeSpec => ImplementsPresentation
  <1>1. NativeInit => P!Init
    BY NativeStart
  <1>2. NativeInv /\ [NativeNext]_nativeVars => [P!Next]_P!vars
    BY NativeStep
  <1>3. QED
    BY <1>1, <1>2, NativeInvariant, PTL DEF NativeSpec, ImplementsPresentation, P!Spec
=============================================================================
