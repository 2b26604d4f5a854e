------------------------- MODULE SessionStoreProofs -------------------------
(***************************************************************************)
(* Proofs about SessionStore, for every capacity, time to live, mobile     *)
(* life and retention with MobileLife <= Retention.                        *)
(***************************************************************************)
EXTENDS SessionStore, FiniteSetTheorems, TLAPS

\* A record outlives the present by at most one mobile life: create() checked
\* its dates against a clock that has only advanced since.
DatesBounded ==
    \A id \in Id : Used(id) /\ Mobile(id) => record[id].expiresAt <= clock + MobileLife

\* Only a created session is in the Map or carries a logout object.
OnlyUsed ==
    /\ \A id \in slots : Used(id)
    /\ \A id \in Id : Denied(id) => Used(id)

StoreInv ==
    /\ StoreTypeOK
    /\ DatesBounded
    /\ OnlyUsed
    /\ WithinCapacity
    /\ DenialOutlivesCredential

\* The literal records that stand for "absent" are not values of their types.
LEMMA Absent == NoRecord \notin Record /\ NoLogout \notin Logout
  BY StoreAssumption DEF NoRecord, Record, NoLogout, Logout, Desktop, MobileV1, MobileV2

\* A sweep keeps a subset of a finite set of slots.
LEMMA SweptFinite ==
  ASSUME StoreTypeOK
  PROVE  /\ Swept \subseteq slots
         /\ IsFiniteSet(slots) /\ IsFiniteSet(Swept)
         /\ Cardinality(slots) \in Nat /\ Cardinality(Swept) \in Nat
         /\ Cardinality(Swept) <= Cardinality(slots)
  <1>1. Swept \subseteq slots
    BY DEF Swept
  <1>2. IsFiniteSet(slots)
    BY FS_Subset, StoreAssumption DEF StoreTypeOK
  <1>3. IsFiniteSet(Swept) /\ Cardinality(Swept) <= Cardinality(slots)
    BY <1>1, <1>2, FS_Subset
  <1>4. QED
    BY <1>1, <1>2, <1>3, FS_CardinalityType

\* A logout object begun now is well typed and outlives the credential.
LEMMA NewLogoutGood ==
  ASSUME StoreTypeOK, DatesBounded, NEW id \in Id, Used(id)
  PROVE  /\ NewLogout(id) \in Logout
         /\ Mobile(id) => NewLogout(id).until >= record[id].expiresAt
  <1>1. record[id] \in Record
    BY DEF Used, StoreTypeOK
  <1>2. record[id].expiresAt \in Nat /\ clock \in Nat
    BY <1>1 DEF Record, StoreTypeOK
  <1>3. NewLogout(id).until \in Nat /\ NewLogout(id).confirmed = FALSE
    BY <1>2, StoreAssumption DEF NewLogout
  <1>4. Mobile(id) => record[id].expiresAt <= clock + Retention
    BY <1>2, StoreAssumption, RetentionAssumption DEF DatesBounded
  <1>5. Mobile(id) => NewLogout(id).until >= record[id].expiresAt
    BY <1>2, <1>4, StoreAssumption DEF NewLogout
  <1>6. NewLogout(id) \in Logout
    BY <1>2, StoreAssumption DEF NewLogout, Logout
  <1>7. QED
    BY <1>5, <1>6

\* Every operation of the store preserves the inductive invariant.
LEMMA StoreStep == StoreInv /\ [StoreNext]_storeVars => StoreInv'
  <1> SUFFICES ASSUME StoreInv, [StoreNext]_storeVars
               PROVE  StoreInv'
    OBVIOUS
  <1> USE DEF StoreInv
  <1>0. clock \in Nat /\ Retention \in Nat /\ MobileLife \in Nat /\ Capacity \in Nat
    BY StoreAssumption DEF StoreTypeOK
  <1>1. ASSUME NEW id \in Id, NEW kind \in Kinds, NEW iss \in IssuancesOf(kind),
               NEW from \in 0..clock,
               NEW to \in clock + 1 .. clock + SessionTtl + MobileLife,
               Create(id, [kind |-> kind, issuance |-> iss, issuedAt |-> from, expiresAt |-> to])
        PROVE  StoreInv'
    <2> DEFINE rec == [kind |-> kind, issuance |-> iss, issuedAt |-> from, expiresAt |-> to]
    <2>1. rec \in Record
      BY <1>0, StoreAssumption DEF Record, IssuancesOf
    <2>2. /\ ~Used(id) /\ HasRoom /\ ValidDates(rec)
          /\ record' = [record EXCEPT ![id] = rec]
          /\ slots' = Swept \cup {id}
          /\ UNCHANGED <<clock, logout>>
      BY <1>1 DEF Create
    <2> HIDE DEF rec
    <2>3. StoreTypeOK'
      BY <2>1, <2>2, SweptFinite DEF StoreTypeOK
    <2>4. \A j \in Id : j # id => record'[j] = record[j]
      BY <2>2 DEF StoreTypeOK
    <2>5. record'[id] = rec /\ rec # NoRecord
      BY <2>1, <2>2, Absent DEF StoreTypeOK
    <2>6. ~Denied(id)
      BY <2>2 DEF OnlyUsed
    <2>7. DatesBounded'
      <3>1. rec.kind # Desktop => rec.expiresAt <= clock + MobileLife
        BY <2>1, <2>2, <1>0 DEF ValidDates, Record
      <3>2. QED
        BY <2>2, <2>4, <2>5, <3>1
           DEF DatesBounded, Used, Mobile, Desktop, MobileV1, MobileV2
    <2>8. OnlyUsed'
      BY <2>2, <2>4, <2>5, <2>6, SweptFinite DEF OnlyUsed, Used, Denied, StoreTypeOK
    <2>9. WithinCapacity'
      <3>1. IsFiniteSet(Swept) /\ Cardinality(Swept) \in Nat
        BY SweptFinite
      <3>2. Cardinality(Swept \cup {id})
              = IF id \in Swept THEN Cardinality(Swept) ELSE Cardinality(Swept) + 1
        BY <3>1, FS_AddElement
      <3>3. QED
        BY <2>2, <3>1, <3>2, <1>0 DEF HasRoom, WithinCapacity
    <2>10. DenialOutlivesCredential'
      BY <2>2, <2>4, <2>6 DEF DenialOutlivesCredential, Denied, Mobile
    <2>11. QED
      BY <2>3, <2>7, <2>8, <2>9, <2>10
  <1>2. ASSUME slots' \subseteq slots, UNCHANGED <<clock, record, logout>>
        PROVE  StoreInv'
    <2>1. StoreTypeOK' /\ OnlyUsed' /\ DatesBounded' /\ DenialOutlivesCredential'
      BY <1>2 DEF StoreTypeOK, OnlyUsed, DatesBounded, DenialOutlivesCredential,
                  Used, Denied, Mobile
    <2>2. Cardinality(slots') <= Cardinality(slots) /\ Cardinality(slots') \in Nat
      BY <1>2, SweptFinite, FS_Subset, FS_CardinalityType
    <2>3. WithinCapacity'
      BY <2>2, <1>0, SweptFinite DEF WithinCapacity
    <2>4. QED
      BY <2>1, <2>3
  <1>3. ASSUME NEW id \in Id, BeginLogout(id)
        PROVE  StoreInv'
    <2>1. Used(id)
      BY <1>3 DEF BeginLogout, Retained, Swept, OnlyUsed
    <2>2. CASE Denied(id)
      BY <1>2, <1>3, <2>2, SweptFinite DEF BeginLogout
    <2>3. CASE ~Denied(id)
      <3>1. /\ logout' = [logout EXCEPT ![id] = NewLogout(id)]
            /\ slots' = Swept /\ UNCHANGED <<clock, record>>
        BY <1>3, <2>3 DEF BeginLogout
      <3>2. /\ logout'[id] = NewLogout(id)
            /\ \A j \in Id : j # id => logout'[j] = logout[j]
        BY <3>1 DEF StoreTypeOK
      <3>3. StoreTypeOK'
        BY <3>1, <2>1, NewLogoutGood, SweptFinite DEF StoreTypeOK
      <3>4. DatesBounded' /\ OnlyUsed'
        BY <3>1, <3>2, <2>1, SweptFinite DEF DatesBounded, OnlyUsed, Used, Denied, Mobile
      <3>5. DenialOutlivesCredential'
        BY <3>1, <3>2, <2>1, NewLogoutGood DEF DenialOutlivesCredential, Denied, Mobile
      <3>6. WithinCapacity'
        BY <3>1, <1>0, SweptFinite DEF WithinCapacity
      <3>7. QED
        BY <3>3, <3>4, <3>5, <3>6
    <2>4. QED
      BY <2>2, <2>3
  <1>4. ASSUME NEW id \in Id, Confirm(id)
        PROVE  StoreInv'
    <2>1. /\ logout' = [logout EXCEPT ![id] = [until |-> logout[id].until, confirmed |-> TRUE]]
          /\ UNCHANGED <<clock, record, slots>> /\ Denied(id)
      BY <1>4 DEF Confirm
    <2>2. logout[id] \in Logout
      BY <2>1 DEF StoreTypeOK, Denied
    <2>3. /\ logout'[id].until = logout[id].until
          /\ logout'[id] \in Logout
          /\ \A j \in Id : j # id => logout'[j] = logout[j]
      BY <2>1, <2>2 DEF StoreTypeOK, Logout
    <2>4. StoreTypeOK'
      BY <2>1, <2>3 DEF StoreTypeOK
    <2>5. DatesBounded' /\ WithinCapacity'
      BY <2>1 DEF DatesBounded, WithinCapacity, Used, Mobile
    <2>6. OnlyUsed' /\ DenialOutlivesCredential'
      BY <2>1, <2>3 DEF OnlyUsed, DenialOutlivesCredential, Used, Denied, Mobile
    <2>7. QED
      BY <2>4, <2>5, <2>6
  <1>5. ASSUME Tick
        PROVE  StoreInv'
    <2>1. StoreTypeOK' /\ OnlyUsed' /\ WithinCapacity' /\ DenialOutlivesCredential'
      BY <1>5 DEF Tick, StoreTypeOK, OnlyUsed, WithinCapacity, DenialOutlivesCredential,
                  Used, Denied, Mobile
    <2>2. \A id \in Id : Used(id) => record[id].expiresAt \in Nat
      BY DEF StoreTypeOK, Used, Record
    <2>3. DatesBounded'
      BY <1>5, <1>0, <2>2 DEF Tick, DatesBounded, Used, Mobile
    <2>4. QED
      BY <2>1, <2>3
  <1>6. CASE UNCHANGED storeVars
    BY <1>2, <1>6 DEF storeVars
  <1>7. CASE Look
    BY <1>2, <1>7, SweptFinite DEF Look
  <1>8. ASSUME NEW id \in Id, Consume(id) \/ Delete(id)
        PROVE  StoreInv'
    BY <1>2, <1>8, SweptFinite DEF Consume, Delete
  <1>9. QED
    BY <1>1, <1>3, <1>4, <1>5, <1>6, <1>7, <1>8 DEF StoreNext

\* The empty store satisfies the inductive invariant.
LEMMA StoreStart == StoreInit => StoreInv
  <1> SUFFICES ASSUME StoreInit
               PROVE  StoreInv
    OBVIOUS
  <1>1. StoreTypeOK
    BY DEF StoreInit, StoreTypeOK
  <1>2. \A id \in Id : ~Used(id) /\ ~Denied(id)
    BY DEF StoreInit, Used, Denied
  <1>3. Cardinality(slots) <= Capacity
    BY FS_EmptySet, StoreAssumption DEF StoreInit
  <1>4. QED
    BY <1>1, <1>2, <1>3
       DEF StoreInit, StoreInv, DatesBounded, OnlyUsed, WithinCapacity, DenialOutlivesCredential

\* The inductive invariant holds in every state of the store.
LEMMA StoreInvariant == StoreSpec => []StoreInv
  BY StoreStart, StoreStep, PTL DEF StoreSpec

\* Every variable of the store keeps its type.
THEOREM StoreTypeCorrect == StoreSpec => []StoreTypeOK
  <1>1. StoreInv => StoreTypeOK
    BY DEF StoreInv
  <1>2. QED
    BY <1>1, StoreInvariant, PTL

\* The Map of createSessionStore never outgrows its capacity: live, retained and
\* denied slots share one bound and beginLogout allocates nothing.
THEOREM StoreWithinCapacity == StoreSpec => []WithinCapacity
  <1>1. StoreInv => WithinCapacity
    BY DEF StoreInv
  <1>2. QED
    BY <1>1, StoreInvariant, PTL

\* A denial begun by beginLogout stays in its slot at least until the mobile
\* credential it denies has expired.
THEOREM StoreDenialOutlivesCredential == StoreSpec => []DenialOutlivesCredential
  <1>1. StoreInv => DenialOutlivesCredential
    BY DEF StoreInv
  <1>2. QED
    BY <1>1, StoreInvariant, PTL

\* No operation makes get() answer again for a created id it has refused.
LEMMA StoreNeverBack ==
  StoreInv /\ StoreInv' /\ [StoreNext]_storeVars =>
      [\A id \in Id : Used(id) /\ ~Authentic(id) => ~Authentic(id)']_storeVars
  <1> SUFFICES ASSUME StoreInv, StoreInv', StoreNext, NEW id \in Id,
                      Used(id), Authentic(id)'
               PROVE  Authentic(id)
    BY DEF storeVars
  <1>1. record[id] \in Record /\ clock \in Nat
    BY DEF StoreInv, StoreTypeOK, Used
  <1>2. record[id].expiresAt \in Nat
    BY <1>1 DEF Record
  <1>3. record'[id] = record[id]
    BY DEF StoreNext, Create, Look, BeginLogout, Consume, Delete, Confirm, Tick,
           StoreInv, StoreTypeOK
  <1>4. clock' \in {clock, clock + 1}
    BY DEF StoreNext, Create, Look, BeginLogout, Consume, Delete, Confirm, Tick
  <1>5. logout[id] = NoLogout
    <2>1. logout'[id] = NoLogout
      BY DEF Authentic, Denied
    <2>2. ASSUME NEW j \in Id, BeginLogout(j)
          PROVE  logout[id] = NoLogout
      <3>1. CASE Denied(j)
        BY <2>1, <2>2, <3>1 DEF BeginLogout
      <3>2. CASE ~Denied(j)
        BY <2>1, <2>2, <3>2 DEF BeginLogout, StoreInv, StoreTypeOK, Denied
      <3>3. QED
        BY <3>1, <3>2
    <2>3. ASSUME NEW j \in Id, Confirm(j)
          PROVE  logout[id] = NoLogout
      <3>1. j = id => logout'[id].confirmed = TRUE
        BY <2>3 DEF Confirm, StoreInv, StoreTypeOK, Denied, Logout
      <3>2. j # id
        BY <2>1, <3>1 DEF NoLogout
      <3>3. QED
        BY <2>1, <2>3, <3>2 DEF Confirm, StoreInv, StoreTypeOK
    <2>4. QED
      BY <2>1, <2>2, <2>3 DEF StoreNext, Create, Look, Consume, Delete, Tick
  <1>6. id \in slots
    <2>1. id \in slots'
      BY DEF Authentic, Swept
    <2>2. \A j \in Id : ~Used(j) => j # id
      OBVIOUS
    <2>3. QED
      BY <2>1, <2>2 DEF StoreNext, Create, Look, BeginLogout, Consume, Delete, Confirm,
                        Tick, Swept
  <1>7. record[id].expiresAt > clock
    BY <1>1, <1>2, <1>3, <1>4 DEF Authentic
  <1>8. Deadline(id) > clock
    <2>1. Deadline(id) = record[id].expiresAt \/ Deadline(id) = record[id].expiresAt + Retention
      BY <1>2, <1>5 DEF Deadline, Denied
    <2>2. QED
      BY <2>1, <1>1, <1>2, <1>7, StoreAssumption
  <1>9. QED
    BY <1>5, <1>6, <1>7, <1>8 DEF Authentic, Swept, Denied

\* An id get() has refused is never answered again, under the specification.
THEOREM StoreNoResurrection == StoreSpec => NoResurrection
  BY StoreNeverBack, StoreInvariant, PTL DEF StoreSpec, NoResurrection

\* Nothing moves the deadline of a logout that has begun.
LEMMA StoreDeadlineFixed ==
  StoreInv /\ [StoreNext]_storeVars =>
      [\A id \in Id : Denied(id) => logout'[id].until = logout[id].until]_storeVars
  <1> SUFFICES ASSUME StoreInv, StoreNext, NEW id \in Id, Denied(id)
               PROVE  logout'[id].until = logout[id].until
    BY DEF storeVars
  <1>1. ASSUME NEW j \in Id, BeginLogout(j)
        PROVE  logout'[id] = logout[id]
    <2>1. CASE Denied(j)
      BY <1>1, <2>1 DEF BeginLogout
    <2>2. CASE ~Denied(j)
      BY <1>1, <2>2 DEF BeginLogout, StoreInv, StoreTypeOK
    <2>3. QED
      BY <2>1, <2>2
  <1>2. ASSUME NEW j \in Id, Confirm(j)
        PROVE  logout'[id].until = logout[id].until
    BY <1>2 DEF Confirm, StoreInv, StoreTypeOK, Denied, Logout
  <1>3. QED
    BY <1>1, <1>2 DEF StoreNext, Create, Look, Consume, Delete, Tick

\* The deadline of a logout is fixed when it begins.
THEOREM StoreNonRenewable == StoreSpec => NonRenewable
  BY StoreDeadlineFixed, StoreInvariant, PTL DEF StoreSpec, NonRenewable
=============================================================================
