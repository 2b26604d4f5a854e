------------------------ MODULE MobileSessionProofs ------------------------
(***************************************************************************)
(* Proofs about MobileSession, for every number of requests, sessions and  *)
(* issuances and every capacity.                                           *)
(***************************************************************************)
EXTENDS MobileSession, FiniteSetTheorems, SequenceTheorems, TLAPS

\* The literal records that stand for "absent" are not values of their types.
LEMMA AbsentValues == NoRecord \notin Record /\ NoLogout \notin Logout /\ NoReceipt \notin Receipt
  BY StoreAssumption DEF NoRecord, Record, NoLogout, Logout, NoReceipt, Receipt,
                         Desktop, MobileV1, MobileV2

\* Sweeping only drops slots, cancellations and aliases.
LEMMA SweepShrinks ==
  ASSUME MobileTypeOK
  PROVE  /\ Swept \subseteq slots /\ SweptSlots \subseteq Swept
         /\ LiveCancellations \subseteq cancellations
         /\ SweptAliases \in [Issuance -> Id \cup {NoId}]
  BY DEF MobileTypeOK, Swept, SweptSlots, LiveCancellations, SweptAliases

\* A logout object begun for a created session is well typed.
LEMMA NewLogoutTyped ==
  ASSUME MobileTypeOK, NEW id \in Id, Used(id)
  PROVE  NewLogout(id) \in Logout
  <1>1. record[id] \in Record
    BY DEF Used, MobileTypeOK, StoreTypeOK
  <1>2. record[id].expiresAt \in Nat /\ clock \in Nat
    BY <1>1 DEF Record, MobileTypeOK, StoreTypeOK
  <1>3. QED
    BY <1>2, StoreAssumption DEF NewLogout, Logout

\* Only a created session is in the Map, denied or kept for a retry, and a
\* mobile record names its issuance.
MobileUsed ==
    /\ \A id \in Id : Mobile(id) => record[id].issuance \in Issuance
    /\ \A id \in slots \cup cancellations : Used(id)
    /\ \A id \in Id : Denied(id) => Used(id)
    /\ \A id \in cancellations : Denied(id)

\* The calls and their sessions: a read or a logout names a created session.
JobsNamed ==
    \A p \in Proc :
       /\ job[p].op \in {"read", "logout"} => job[p].id \in Id /\ Used(job[p].id)
       /\ job[p].op \in {"install", "cancel"} => job[p].iss \in Issuance
       /\ job[p].op = "logout" /\ job[p].at # "done" => Denied(job[p].id)
       /\ job[p].op = "none" => job[p].at = "done"
       /\ job[p].at # "done" => job[p].reply = "none"

Base == MobileTypeOK /\ MobileUsed /\ JobsNamed

\* What a step does to one job, in terms of the state it was in.
LEMMA JobUpdates ==
  ASSUME MobileTypeOK, NEW p \in Proc
  PROVE  /\ Call(p) => job' \in [Proc -> Job]
         /\ \A ok \in BOOLEAN : Answer(p, ok) => job' \in [Proc -> Job]
         /\ \A r \in Replies : Finish(p, r) => job' \in [Proc -> Job]
         /\ \A id \in Id : Installed(p, id) => job' \in [Proc -> Job]
         /\ \A op \in Ops, id \in Id \cup {NoId}, i \in Issuance \cup {NoIssuance},
              at \in {"queued", "calling", "answered", "done"}, r \in Replies :
                Start(p, op, id, i, at, r) => job' \in [Proc -> Job]
  <1>1. job \in [Proc -> Job] /\ job[p] \in Job
    BY DEF MobileTypeOK
  <1>2. ASSUME NEW at \in {"queued", "calling", "answered", "done"}
        PROVE  /\ [job[p] EXCEPT !.at = at] \in Job
               /\ \A ok \in BOOLEAN : [job[p] EXCEPT !.at = at, !.ok = ok] \in Job
               /\ \A r \in Replies : [job[p] EXCEPT !.at = at, !.reply = r] \in Job
               /\ \A r \in Replies, id \in Id :
                     [job[p] EXCEPT !.at = at, !.reply = r, !.id = id] \in Job
    BY <1>1 DEF Job
  <1>3. \A j \in Job : [job EXCEPT ![p] = j] \in [Proc -> Job]
    BY <1>1
  <1>4. Call(p) => job' \in [Proc -> Job]
    BY <1>2, <1>3 DEF Call
  <1>5. \A ok \in BOOLEAN : Answer(p, ok) => job' \in [Proc -> Job]
    BY <1>2, <1>3, ZenonT(60) DEF Answer
  <1>6. \A r \in Replies : Finish(p, r) => job' \in [Proc -> Job]
    BY <1>2, <1>3, ZenonT(60) DEF Finish
  <1>7. \A id \in Id : Installed(p, id) => job' \in [Proc -> Job]
    BY <1>2, <1>3 DEF Installed, Replies
  <1>8. ASSUME NEW op \in Ops, NEW id \in Id \cup {NoId}, NEW i \in Issuance \cup {NoIssuance},
               NEW at \in {"queued", "calling", "answered", "done"}, NEW r \in Replies,
               Start(p, op, id, i, at, r)
        PROVE  job' \in [Proc -> Job]
    <2> DEFINE j == [op |-> op, id |-> id, iss |-> i, at |-> at, ok |-> FALSE,
                     late |-> op = "read" /\ Credential(id) \in revoked, reply |-> r]
    <2>1. (op = "read" /\ Credential(id) \in revoked) \in BOOLEAN
      OBVIOUS
    <2>2. j \in Job
      BY <2>1 DEF Job
    <2>3. QED
      BY <1>3, <1>8, <2>2 DEF Start
  <1>9. QED
    BY <1>4, <1>5, <1>6, <1>7, <1>8

\* A created session keeps its record, and a denial its deadline, at every step.
LEMMA Monotone ==
  ASSUME Base, [MobileNext]_mobileVars, NEW id \in Id
  PROVE  /\ Used(id) => Used(id)' /\ record'[id] = record[id]
         /\ Denied(id) => Denied(id)' /\ logout'[id].until = logout[id].until
         /\ Denied(id) /\ logout[id].confirmed => logout'[id].confirmed
  <1> USE DEF Base, MobileTypeOK, StoreTypeOK, Used, Denied
  <1>1. CASE UNCHANGED <<record, logout>>
    BY <1>1
  <1>2. ASSUME NEW new \in Id, NEW rec, Create(new, rec)
        PROVE  record' = [record EXCEPT ![new] = rec] /\ ~Used(new) /\ UNCHANGED logout
    BY <1>2 DEF Create
  <1>3. ASSUME NEW p \in Proc, NEW j \in Id, StartLogout(p, j)
        PROVE  /\ UNCHANGED record
               /\ Denied(id) => logout'[id] = logout[id]
    <2>1. CASE LogoutKnown(j) /\ ~Denied(j)
      BY <1>3, <2>1 DEF StartLogout
    <2>2. CASE ~(LogoutKnown(j) /\ ~Denied(j))
      BY <1>3, <2>2 DEF StartLogout
    <2>3. QED
      BY <2>1, <2>2
  <1>4. ASSUME NEW p \in Proc, EndLogout(p)
        PROVE  /\ UNCHANGED record
               /\ Denied(id) => /\ logout'[id].until = logout[id].until
                                /\ logout'[id] # NoLogout
                                /\ logout[id].confirmed => logout'[id].confirmed
    <2> DEFINE new == [until |-> logout[job[p].id].until, confirmed |-> TRUE]
    <2>1. logout' = logout \/ logout' = [logout EXCEPT ![job[p].id] = new]
      BY <1>4 DEF EndLogout
    <2>2. new # NoLogout /\ new.until = logout[job[p].id].until /\ new.confirmed = TRUE
      BY DEF NoLogout
    <2> HIDE DEF new
    <2>3. UNCHANGED record
      BY <1>4 DEF EndLogout
    <2>4. QED
      BY <2>1, <2>2, <2>3
  <1>5. QED
    <2>1. CASE UNCHANGED mobileVars
      BY <1>1, <2>1 DEF mobileVars
    <2>2. CASE \E i \in Issuance : UbidIssue(i)
      BY <1>1, <2>2 DEF UbidIssue, storeVars
    <2>3. CASE \E c \in Issuance \cup Id : UbidRevoke(c)
      BY <1>1, <2>3 DEF UbidRevoke, storeVars
    <2>4. CASE \E new \in Id : OAuthCreate(new)
      BY <1>2, <2>4 DEF OAuthCreate
    <2>5. ASSUME NEW p \in Proc, NEW j \in Id, StartRead(p, j) \/ StartLogout(p, j)
          PROVE  /\ Used(id) => Used(id)' /\ record'[id] = record[id]
                 /\ Denied(id) => Denied(id)' /\ logout'[id] = logout[id]
      BY <1>3, <2>5 DEF StartRead
    <2>6. ASSUME NEW p \in Proc, NEW i \in Issuance, StartInstall(p, i) \/ StartCancel(p, i)
          PROVE  UNCHANGED <<record, logout>>
      BY <2>6 DEF StartInstall, StartCancel, storeVars
    <2>7. ASSUME NEW p \in Proc,
                 Serve(p) \/ Drop(p) \/ EndRead(p) \/ BeginInstall(p) \/ BeginLogoutCall(p) \/ EndCancel(p)
          PROVE  UNCHANGED <<record, logout>>
      BY <2>7 DEF Serve, Drop, EndRead, BeginInstall, BeginLogoutCall, EndCancel, storeVars
    <2>8. ASSUME NEW p \in Proc, NEW current \in BOOLEAN, EndInstall(p, current)
          PROVE  \/ UNCHANGED <<record, logout>>
                 \/ \E new \in Id : \E rec : Create(new, rec)
      BY <2>8 DEF EndInstall, InstallEnded, InstallAlias, InstallNew, InstallRefused
    <2>9. CASE MobileTick
      BY <1>1, <2>9 DEF MobileTick, Tick
    <2>10. QED
      BY <1>1, <1>2, <1>4, <2>1, <2>2, <2>3, <2>4, <2>5, <2>6, <2>7, <2>8, <2>9
         DEF MobileNext, Step

\* Appending to and taking from the queues of the locks keeps them queues.
LEMMA LockUpdates ==
  ASSUME MobileTypeOK, NEW p \in Proc, NEW k \in LockKey
  PROVE  /\ Acquire(p, k) => locks' \in [LockKey -> Seq(Proc)]
         /\ Holds(p, k) /\ Release(k) => locks' \in [LockKey -> Seq(Proc)]
  <1>1. locks \in [LockKey -> Seq(Proc)] /\ locks[k] \in Seq(Proc)
    BY DEF MobileTypeOK
  <1>2. Append(locks[k], p) \in Seq(Proc)
    BY <1>1
  <1>3. locks[k] # <<>> => Tail(locks[k]) \in Seq(Proc)
    BY <1>1
  <1>4. QED
    BY <1>1, <1>2, <1>3 DEF Acquire, Holds, Release

\* A request that runs under a lock is at the head of its queue.
Running ==
    \A p \in Proc : job[p].at \in {"calling", "answered"} =>
       /\ job[p].op = "install" => Holds(p, job[p].iss)
       /\ job[p].op = "logout" => Holds(p, job[p].id)

\* Every variable keeps its type.
LEMMA TypeStep ==
  ASSUME Base, Running, [MobileNext]_mobileVars
  PROVE  MobileTypeOK'
  <1> USE DEF Base
  <1>0. /\ Issuance \subseteq LockKey /\ Id \subseteq LockKey
        /\ {Desktop, MobileV1} \subseteq Kinds
        /\ clock \in Nat /\ SessionTtl \in Nat /\ Retention \in Nat
    BY StoreAssumption, ManagerAssumption DEF MobileTypeOK, StoreTypeOK
  <1>1. CASE UNCHANGED mobileVars
    BY <1>1 DEF mobileVars, MobileTypeOK, StoreTypeOK
  <1>2. ASSUME NEW i \in Issuance, UbidIssue(i)
        PROVE  MobileTypeOK'
    <2>1. PICK to \in clock + 1 .. clock + MobileLife :
             receipt' = [receipt EXCEPT ![i] = [from |-> clock, to |-> to]]
      BY <1>2 DEF UbidIssue
    <2>2. [from |-> clock, to |-> to] \in Receipt
      BY <1>0, StoreAssumption DEF Receipt
    <2>3. receipt' \in [Issuance -> Receipt \cup {NoReceipt}]
      BY <2>1, <2>2 DEF MobileTypeOK
    <2>4. QED
      BY <1>2, <2>3 DEF UbidIssue, MobileTypeOK, StoreTypeOK, storeVars, managerVars
  <1>3. ASSUME NEW c \in Issuance \cup Id, UbidRevoke(c)
        PROVE  MobileTypeOK'
    BY <1>3 DEF UbidRevoke, MobileTypeOK, StoreTypeOK, storeVars, managerVars
  <1>4. ASSUME NEW id \in Id, NEW rec \in Record, Create(id, rec)
        PROVE  StoreTypeOK'
    BY <1>4, SweepShrinks DEF Create, MobileTypeOK, StoreTypeOK
  <1>5. ASSUME NEW id \in Id, OAuthCreate(id)
        PROVE  MobileTypeOK'
    <2>1. [kind |-> Desktop, issuance |-> NoIssuance, issuedAt |-> clock,
           expiresAt |-> clock + SessionTtl] \in Record
      BY <1>0 DEF Record
    <2>2. StoreTypeOK'
      BY <1>4, <1>5, <2>1 DEF OAuthCreate
    <2>3. QED
      BY <1>5, <2>2 DEF OAuthCreate, MobileTypeOK, managerVars, ubidVars
  <1>6. ASSUME NEW p \in Proc, NEW id \in Id, StartRead(p, id)
        PROVE  MobileTypeOK'
    <2>1. Mobile(id) => record[id].issuance \in Issuance \cup {NoIssuance}
      BY AbsentValues, <1>6 DEF StartRead, Used, MobileTypeOK, StoreTypeOK, Record
    <2>2. job' \in [Proc -> Job]
      BY <1>6, <2>1, JobUpdates DEF StartRead, Ops, Replies
    <2>3. QED
      BY <1>6, <2>2, SweepShrinks DEF StartRead, Sweep, MobileTypeOK, StoreTypeOK, ubidVars
  <1>7. ASSUME NEW p \in Proc, NEW id \in Id, StartLogout(p, id)
        PROVE  MobileTypeOK'
    <2>1. job' \in [Proc -> Job]
      BY <1>7, JobUpdates DEF StartLogout, Ops, Replies
    <2>2. locks' \in [LockKey -> Seq(Proc)]
      BY <1>7, <1>0, LockUpdates DEF StartLogout, MobileTypeOK
    <2>3. logout' \in [Id -> Logout \cup {NoLogout}]
      BY <1>7, NewLogoutTyped DEF StartLogout, MobileTypeOK, StoreTypeOK
    <2>4. slots' \subseteq Id /\ cancellations' \subseteq Id
      BY <1>7, SweepShrinks DEF StartLogout, MobileTypeOK, StoreTypeOK
    <2>5. aliases' \in [Issuance -> Id \cup {NoId}]
      BY <1>7, SweepShrinks DEF StartLogout
    <2>6. UNCHANGED <<clock, record, receipt, revoked>>
      BY <1>7 DEF StartLogout, ubidVars
    <2>7. QED
      BY <2>1, <2>2, <2>3, <2>4, <2>5, <2>6 DEF MobileTypeOK, StoreTypeOK
  <1>8. ASSUME NEW p \in Proc, NEW i \in Issuance, StartInstall(p, i) \/ StartCancel(p, i)
        PROVE  MobileTypeOK'
    <2>1. job' \in [Proc -> Job]
      BY <1>8, JobUpdates DEF StartInstall, StartCancel, Ops, Replies
    <2>2. locks' \in [LockKey -> Seq(Proc)]
      BY <1>8, <1>0, LockUpdates DEF StartInstall, StartCancel, MobileTypeOK
    <2>3. QED
      BY <1>8, <2>1, <2>2
         DEF StartInstall, StartCancel, MobileTypeOK, StoreTypeOK, storeVars, ubidVars
  <1>9. ASSUME NEW p \in Proc, Serve(p) \/ Drop(p)
        PROVE  MobileTypeOK'
    <2>1. job' \in [Proc -> Job]
      <3>1. Active(job[p].iss) \in BOOLEAN
        BY DEF Active
      <3>2. QED
        BY <1>9, <3>1, JobUpdates DEF Serve, Drop
    <2>2. revoked' \subseteq Issuance \cup Id
      <3>1. CASE job[p].op = "logout"
        <4>1. Credential(job[p].id) \in Issuance \cup Id
          <5>1. job[p].id \in Id /\ record[job[p].id] \in Record
            BY <3>1 DEF JobsNamed, Used, MobileTypeOK, StoreTypeOK
          <5>2. Mobile(job[p].id) => record[job[p].id].issuance \in Issuance
            BY <5>1 DEF MobileUsed
          <5>3. QED
            BY <5>1, <5>2 DEF Credential
        <4>2. QED
          BY <1>9, <3>1, <4>1 DEF Serve, Drop, MobileTypeOK, ubidVars
      <3>2. CASE job[p].op # "logout"
        BY <1>9, <3>2 DEF Serve, Drop, MobileTypeOK, ubidVars, JobsNamed
      <3>3. QED
        BY <3>1, <3>2
    <2>3. UNCHANGED <<storeVars, cancellations, aliases, locks, receipt>>
      BY <1>9 DEF Serve, Drop, ubidVars
    <2>4. QED
      BY <2>1, <2>2, <2>3 DEF MobileTypeOK, StoreTypeOK, storeVars
  <1>10. ASSUME NEW p \in Proc, EndRead(p) \/ BeginInstall(p) \/ EndCancel(p)
         PROVE  MobileTypeOK'
    <2>1. job' \in [Proc -> Job]
      BY <1>10, JobUpdates DEF EndRead, BeginInstall, EndCancel, Replies
    <2>2. QED
      BY <1>10, <2>1, SweepShrinks DEF EndRead, BeginInstall, EndCancel, Sweep, MobileTypeOK,
             StoreTypeOK, storeVars, ubidVars
  <1>11. ASSUME NEW p \in Proc, NEW current \in BOOLEAN, EndInstall(p, current)
         PROVE  MobileTypeOK'
    <2>1. job[p].iss \in Issuance /\ Holds(p, job[p].iss)
      BY <1>11 DEF EndInstall, InstallEnded, JobsNamed, Running
    <2>2. locks' \in [LockKey -> Seq(Proc)]
      BY <1>11, <1>0, <2>1, LockUpdates DEF EndInstall, InstallEnded
    <2>3. UNCHANGED <<cancellations, receipt, revoked>>
      BY <1>11 DEF EndInstall, InstallEnded, ubidVars
    <2>4. CASE InstallAlias(p, current)
      <3>1. aliases[job[p].iss] \in Id
        BY <2>1, <2>4 DEF InstallAlias, MobileTypeOK
      <3>2. job' \in [Proc -> Job]
        BY <2>4, <3>1, JobUpdates DEF InstallAlias
      <3>3. QED
        BY <2>2, <2>3, <2>4, <3>2, SweepShrinks DEF InstallAlias, MobileTypeOK, StoreTypeOK
    <2>5. ASSUME NEW id \in Id, InstallNew(p, current, id)
          PROVE  MobileTypeOK'
      <3>1. receipt[job[p].iss] \in Receipt
        BY <2>1, <2>5, <1>0 DEF InstallNew, Installable, MobileTypeOK, NoReceipt
      <3>2. MobileRecord(job[p].iss) \in Record
        BY <2>1, <3>1, <1>0 DEF MobileRecord, Record, Receipt
      <3>3. StoreTypeOK'
        BY <1>4, <2>5, <3>2 DEF InstallNew
      <3>4. job' \in [Proc -> Job]
        BY <2>5, JobUpdates DEF InstallNew
      <3>5. aliases' \in [Issuance -> Id \cup {NoId}]
        BY <2>1, <2>5 DEF InstallNew, MobileTypeOK
      <3>6. QED
        BY <2>2, <2>3, <3>3, <3>4, <3>5 DEF MobileTypeOK
    <2>6. CASE InstallRefused(p, current)
      <3>1. job' \in [Proc -> Job]
        BY <2>6, JobUpdates DEF InstallRefused, Replies
      <3>2. QED
        BY <2>2, <2>3, <2>6, <3>1, SweepShrinks DEF InstallRefused, MobileTypeOK, StoreTypeOK
    <2>7. QED
      BY <1>11, <2>4, <2>5, <2>6 DEF EndInstall, InstallEnded
  <1>12. ASSUME NEW p \in Proc, BeginLogoutCall(p) \/ EndLogout(p)
         PROVE  MobileTypeOK'
    <2>1. job[p].id \in Id /\ Holds(p, job[p].id) /\ Denied(job[p].id)
      BY <1>12 DEF BeginLogoutCall, EndLogout, JobsNamed, Running
    <2>2. locks' \in [LockKey -> Seq(Proc)]
      BY <1>12, <1>0, <2>1, LockUpdates DEF BeginLogoutCall, EndLogout, MobileTypeOK
    <2>3. job' \in [Proc -> Job]
      BY <1>12, JobUpdates DEF BeginLogoutCall, EndLogout, Replies
    <2>4. logout' \in [Id -> Logout \cup {NoLogout}]
      <3>1. logout[job[p].id] \in Logout
        BY <2>1 DEF Denied, MobileTypeOK, StoreTypeOK
      <3>2. [until |-> logout[job[p].id].until, confirmed |-> TRUE] \in Logout
        BY <3>1 DEF Logout
      <3>3. QED
        BY <1>12, <2>1, <3>2 DEF BeginLogoutCall, EndLogout, MobileTypeOK, StoreTypeOK
    <2>5. slots' \subseteq Id
      BY <1>12, SweepShrinks DEF BeginLogoutCall, EndLogout, FreeSlot, MobileTypeOK, StoreTypeOK
    <2>6. UNCHANGED <<clock, record, cancellations, aliases, receipt, revoked>>
      BY <1>12 DEF BeginLogoutCall, EndLogout, ubidVars
    <2>7. QED
      BY <2>2, <2>3, <2>4, <2>5, <2>6 DEF MobileTypeOK, StoreTypeOK
  <1>13. CASE MobileTick
    BY <1>13 DEF MobileTick, Tick, MobileTypeOK, StoreTypeOK, managerVars, ubidVars
  <1>14. QED
    BY <1>1, <1>2, <1>3, <1>5, <1>6, <1>7, <1>8, <1>9, <1>10, <1>11, <1>12, <1>13
       DEF MobileNext, Step

\* Sessions in use are created sessions.
LEMMA UsedStep ==
  ASSUME Base, [MobileNext]_mobileVars
  PROVE  MobileUsed'
  <1> USE DEF Base
  <1>0. /\ SweptSlots \subseteq slots /\ Swept \subseteq slots
        /\ LiveCancellations \subseteq cancellations
        /\ slots \subseteq Id /\ cancellations \subseteq Id
    BY SweepShrinks DEF MobileTypeOK, StoreTypeOK
  <1>1. ASSUME slots' \subseteq slots, cancellations' \subseteq cancellations,
               UNCHANGED <<record, logout>>
        PROVE  MobileUsed'
    BY <1>1 DEF MobileUsed, Used, Denied, Mobile
  <1>2. ASSUME NEW id \in Id, NEW rec \in Record, Create(id, rec),
               rec.kind # Desktop => rec.issuance \in Issuance,
               UNCHANGED cancellations
        PROVE  MobileUsed'
    <2>1. /\ record' = [record EXCEPT ![id] = rec] /\ rec # NoRecord
          /\ slots' \subseteq slots \cup {id} /\ UNCHANGED logout
      BY <1>2, <1>0, AbsentValues DEF Create
    <2>2. record'[id] = rec /\ \A j \in Id : j # id => record'[j] = record[j]
      BY <2>1 DEF MobileTypeOK, StoreTypeOK
    <2>3. \A j \in Id : Mobile(j)' => record'[j].issuance \in Issuance
      BY <1>2, <2>2 DEF MobileUsed, Mobile, Desktop, MobileV1, MobileV2
    <2>4. QED
      BY <1>0, <1>2, <2>1, <2>2, <2>3 DEF MobileUsed, Used, Denied
  <1>3. ASSUME NEW id \in Id, OAuthCreate(id)
        PROVE  MobileUsed'
    <2>1. [kind |-> Desktop, issuance |-> NoIssuance, issuedAt |-> clock,
           expiresAt |-> clock + SessionTtl] \in Record
      BY StoreAssumption, ManagerAssumption DEF Record, MobileTypeOK, StoreTypeOK
    <2>2. QED
      BY <1>2, <1>3, <2>1 DEF OAuthCreate, managerVars
  <1>4. ASSUME NEW p \in Proc, NEW id \in Id, StartLogout(p, id)
        PROVE  MobileUsed'
    <2>1. LogoutKnown(id) => Used(id)
      BY <1>0, <1>4 DEF StartLogout
    <2>2. /\ UNCHANGED record /\ slots' \subseteq slots
          /\ cancellations' \subseteq cancellations \cup {j \in {id} : LogoutKnown(j)}
      BY <1>0, <1>4 DEF StartLogout
    <2>3. CASE LogoutKnown(id) /\ ~Denied(id)
      <3>1. logout' = [logout EXCEPT ![id] = NewLogout(id)] /\ NewLogout(id) # NoLogout
        BY <1>4, <2>1, <2>3, NewLogoutTyped, AbsentValues DEF StartLogout
      <3>2. Denied(id)' /\ \A j \in Id : j # id => logout'[j] = logout[j]
        BY <3>1 DEF Denied, MobileTypeOK, StoreTypeOK
      <3>3. QED
        BY <1>0, <2>1, <2>2, <2>3, <3>2 DEF MobileUsed, Used, Denied, Mobile
    <2>4. CASE ~(LogoutKnown(id) /\ ~Denied(id))
      BY <1>0, <1>4, <2>1, <2>2, <2>4 DEF StartLogout, MobileUsed, Used, Denied, Mobile
    <2>5. QED
      BY <2>3, <2>4
  <1>5. ASSUME NEW p \in Proc, EndLogout(p)
        PROVE  MobileUsed'
    <2>1. /\ UNCHANGED <<record, cancellations>> /\ slots' \subseteq slots
          /\ job[p].id \in Id /\ Denied(job[p].id)
      BY <1>0, <1>5 DEF EndLogout, FreeSlot, JobsNamed
    <2>2. \A j \in Id : Denied(j)' <=> Denied(j)
      <3> DEFINE new == [until |-> logout[job[p].id].until, confirmed |-> TRUE]
      <3>1. logout' = logout \/ logout' = [logout EXCEPT ![job[p].id] = new]
        BY <1>5 DEF EndLogout
      <3>2. new # NoLogout
        BY DEF NoLogout
      <3> HIDE DEF new
      <3>3. QED
        BY <2>1, <3>1, <3>2 DEF Denied, MobileTypeOK, StoreTypeOK
    <2>3. QED
      BY <1>0, <2>1, <2>2 DEF MobileUsed, Used, Mobile
  <1>6. ASSUME NEW p \in Proc, NEW current \in BOOLEAN, EndInstall(p, current)
        PROVE  MobileUsed'
    <2>1. job[p].iss \in Issuance /\ UNCHANGED cancellations
      BY <1>6 DEF EndInstall, InstallEnded, JobsNamed
    <2>2. ASSUME NEW id \in Id, InstallNew(p, current, id)
          PROVE  MobileUsed'
      <3>1. receipt[job[p].iss] \in Receipt
        BY <2>1, <2>2 DEF InstallNew, Installable, MobileTypeOK, StoreTypeOK, NoReceipt
      <3>2. MobileRecord(job[p].iss) \in Record
        BY <2>1, <3>1, ManagerAssumption DEF MobileRecord, Record, Receipt
      <3>3. MobileRecord(job[p].iss).issuance \in Issuance
        BY <2>1 DEF MobileRecord
      <3>4. QED
        BY <1>2, <2>1, <2>2, <3>2, <3>3 DEF InstallNew
    <2>3. CASE InstallAlias(p, current) \/ InstallRefused(p, current)
      BY <1>0, <1>1, <2>1, <2>3 DEF InstallAlias, InstallRefused
    <2>4. QED
      BY <1>6, <2>2, <2>3 DEF EndInstall, InstallEnded
  <1>7. CASE \/ UNCHANGED mobileVars
             \/ \E i \in Issuance : UbidIssue(i)
             \/ \E c \in Issuance \cup Id : UbidRevoke(c)
             \/ \E p \in Proc, i \in Issuance : StartInstall(p, i) \/ StartCancel(p, i)
             \/ \E p \in Proc : Serve(p) \/ Drop(p) \/ EndCancel(p)
             \/ MobileTick
    BY <1>1, <1>7 DEF mobileVars, storeVars, managerVars, UbidIssue, UbidRevoke, StartInstall,
                      StartCancel, Serve, Drop, EndCancel, MobileTick, Tick
  <1>8. ASSUME NEW p \in Proc,
               \/ EndRead(p) \/ BeginInstall(p) \/ BeginLogoutCall(p)
               \/ \E id \in Id : StartRead(p, id)
        PROVE  MobileUsed'
    BY <1>0, <1>1, <1>8 DEF EndRead, BeginInstall, BeginLogoutCall, FreeSlot, StartRead, Sweep
  <1>9. QED
    BY <1>3, <1>4, <1>5, <1>6, <1>7, <1>8 DEF MobileNext, Step

\* A request that starts is idle; every other request keeps its job and lock.
LEMMA LockFrame ==
  ASSUME Base, NEW p \in Proc, NEW q \in Proc, q # p,
         NEW k \in LockKey, NEW l \in LockKey, Holds(q, l),
         \/ Acquire(p, k)
         \/ Holds(p, k) /\ Release(k)
         \/ UNCHANGED locks
  PROVE  Holds(q, l)'
  <1>1. locks \in [LockKey -> Seq(Proc)] /\ locks[k] \in Seq(Proc) /\ locks[l] \in Seq(Proc)
    BY DEF Base, MobileTypeOK
  <1>2. CASE Acquire(p, k)
    <2>1. locks[k] # <<>> => /\ Append(locks[k], p) # <<>>
                             /\ Head(Append(locks[k], p)) = Head(locks[k])
      BY <1>1
    <2>2. QED
      BY <1>1, <1>2, <2>1 DEF Acquire, Holds
  <1>3. CASE Holds(p, k) /\ Release(k)
    BY <1>1, <1>3 DEF Release, Holds
  <1>4. CASE UNCHANGED locks
    BY <1>4 DEF Holds
  <1>5. QED
    BY <1>2, <1>3, <1>4

\* Every step of a request p rewrites the job of p alone and takes, releases or
\* keeps one lock.
LEMMA StepFrame ==
  ASSUME Base, Running, NEW p \in Proc,
         \/ \E id \in Id : StartRead(p, id) \/ StartLogout(p, id)
         \/ \E i \in Issuance : StartInstall(p, i) \/ StartCancel(p, i)
         \/ Serve(p) \/ Drop(p) \/ Step(p)
  PROVE  /\ \A q \in Proc : q # p => job'[q] = job[q]
         /\ \A q \in Proc, l \in LockKey : q # p /\ Holds(q, l) => Holds(q, l)'
  <1> USE DEF Base
  <1>0. job \in [Proc -> Job] /\ Issuance \subseteq LockKey /\ Id \subseteq LockKey
    BY ManagerAssumption, SMTT(30), ZenonT(60) DEF MobileTypeOK
  <1>1. \E j : job' = [job EXCEPT ![p] = j]
    BY DEF StartRead, StartLogout, StartInstall, StartCancel, Serve, Drop, Step, EndRead,
           BeginInstall, EndInstall, InstallEnded, InstallAlias, InstallNew, InstallRefused,
           BeginLogoutCall, EndLogout, EndCancel, Start, Call, Answer, Finish, Installed
  <1>2. \/ UNCHANGED locks
        \/ \E k \in LockKey : Acquire(p, k) \/ (Holds(p, k) /\ Release(k))
    <2>1. ASSUME NEW id \in Id, StartRead(p, id) \/ StartLogout(p, id)
          PROVE  UNCHANGED locks \/ \E k \in LockKey : Acquire(p, k)
      BY <1>0, <2>1 DEF StartRead, StartLogout
    <2>2. ASSUME NEW i \in Issuance, StartInstall(p, i) \/ StartCancel(p, i)
          PROVE  UNCHANGED locks \/ \E k \in LockKey : Acquire(p, k)
      BY <1>0, <2>2 DEF StartInstall, StartCancel
    <2>3. ASSUME Serve(p) \/ Drop(p) \/ EndRead(p) \/ BeginInstall(p) \/ EndCancel(p)
          PROVE  UNCHANGED locks
      BY <2>3 DEF Serve, Drop, EndRead, BeginInstall, EndCancel
    <2>4. ASSUME NEW current \in BOOLEAN, EndInstall(p, current)
          PROVE  \E k \in LockKey : Holds(p, k) /\ Release(k)
      BY <1>0, <2>4 DEF EndInstall, InstallEnded, JobsNamed, Running
    <2>5. ASSUME BeginLogoutCall(p) \/ EndLogout(p)
          PROVE  UNCHANGED locks \/ \E k \in LockKey : Holds(p, k) /\ Release(k)
      BY <1>0, <2>5 DEF BeginLogoutCall, EndLogout, JobsNamed, Running
    <2>6. QED
      BY <2>1, <2>2, <2>3, <2>4, <2>5 DEF Step
  <1>3. QED
    BY <1>0, <1>1, <1>2, LockFrame

\* Calls keep naming created sessions, a logout in progress stays denied, and a
\* request that runs under a lock stays at the head of its queue.
LEMMA JobStep ==
  ASSUME Base, Running, [MobileNext]_mobileVars
  PROVE  JobsNamed' /\ Running'
  <1> USE DEF Base
  <1>0. job \in [Proc -> Job]
    BY DEF MobileTypeOK
  <1>1. ASSUME UNCHANGED <<job, locks>>
        PROVE  JobsNamed' /\ Running'
    <2>1. JobsNamed'
      BY <1>1, Monotone DEF JobsNamed
    <2>2. Running'
      BY <1>1 DEF Running, Holds
    <2>3. QED
      BY <2>1, <2>2
  <1>2. ASSUME NEW p \in Proc,
               \/ \E id \in Id : StartRead(p, id) \/ StartLogout(p, id)
               \/ \E i \in Issuance : StartInstall(p, i) \/ StartCancel(p, i)
               \/ Serve(p) \/ Drop(p) \/ Step(p)
        PROVE  JobsNamed' /\ Running'
    <2>0. PICK new : new = job'[p]
      OBVIOUS
    <2> DEFINE Kept ==
          /\ new.op \in {"read", "logout"} => new.id \in Id /\ Used(new.id)'
          /\ new.op \in {"install", "cancel"} => new.iss \in Issuance
          /\ new.op = "logout" /\ new.at # "done" => Denied(new.id)'
          /\ new.op = "none" => new.at = "done"
          /\ new.at # "done" => new.reply = "none"
          /\ new.at \in {"calling", "answered"} =>
                /\ new.op = "install" => Holds(p, new.iss)'
                /\ new.op = "logout" => Holds(p, new.id)'
    <2>1. Kept
      <3>1. ASSUME NEW id \in Id, StartRead(p, id)
            PROVE  Kept
        BY <1>0, <2>0, <3>1, Monotone DEF StartRead, Start
      <3>2. ASSUME NEW id \in Id, StartLogout(p, id)
            PROVE  Kept
        <4>1. LogoutKnown(id) => Denied(id)'
          <5>1. CASE ~Denied(id)
            <6>1. Used(id) /\ NewLogout(id) # NoLogout
              BY <3>2, NewLogoutTyped, AbsentValues DEF StartLogout
            <6>2. QED
              BY <3>2, <5>1, <6>1 DEF StartLogout, Denied, MobileTypeOK, StoreTypeOK
          <5>2. CASE Denied(id)
            BY <5>2, Monotone
          <5>3. QED
            BY <5>1, <5>2
        <4>2. QED
          BY <1>0, <2>0, <3>2, <4>1, Monotone DEF StartLogout, Start
      <3>3. ASSUME NEW i \in Issuance, StartInstall(p, i) \/ StartCancel(p, i)
            PROVE  Kept
        BY <1>0, <2>0, <3>3 DEF StartInstall, StartCancel, Start
      <3>4. ASSUME Serve(p) \/ Drop(p)
            PROVE  Kept
        <4>1. /\ UNCHANGED locks
              /\ \E ok : job' = [job EXCEPT ![p] = [@ EXCEPT !.at = "answered", !.ok = ok]]
              /\ job[p].at \in {"calling", "answered"}
          BY <3>4 DEF Serve, Drop, Answer
        <4>2. /\ new.op = job[p].op /\ new.id = job[p].id /\ new.iss = job[p].iss
              /\ new.reply = job[p].reply
          BY <1>0, <2>0, <4>1 DEF Job
        <4>3. QED
          BY <1>0, <2>0, <4>1, <4>2, Monotone DEF JobsNamed, Running, Holds
      <3>5. ASSUME NEW r \in Replies, Finish(p, r)
            PROVE  Kept
        <4>1. /\ new.op = job[p].op /\ new.id = job[p].id /\ new.iss = job[p].iss
              /\ new.at = "done"
          BY <1>0, <2>0, <3>5 DEF Finish, Job
        <4>2. QED
          BY <1>0, <2>0, <4>1, Monotone DEF JobsNamed
      <3>6. ASSUME Call(p), UNCHANGED locks,
                   \/ job[p].op = "install" /\ Holds(p, job[p].iss)
                   \/ job[p].op = "logout" /\ Holds(p, job[p].id)
                   , job[p].at = "queued"
            PROVE  Kept
        <4>1. /\ new.op = job[p].op /\ new.id = job[p].id /\ new.iss = job[p].iss
              /\ new.reply = job[p].reply
          BY <1>0, <2>0, <3>6 DEF Call, Job
        <4>2. QED
          BY <1>0, <2>0, <3>6, <4>1, Monotone DEF JobsNamed, Holds
      <3>7. ASSUME NEW id \in Id, Installed(p, id), job[p].op = "install"
            PROVE  Kept
        <4>1. /\ new.op = job[p].op /\ new.iss = job[p].iss /\ new.at = "done"
          BY <1>0, <2>0, <3>7 DEF Installed, Job
        <4>2. QED
          BY <1>0, <2>0, <3>7, <4>1 DEF JobsNamed
      <3>8. ASSUME EndRead(p) \/ EndCancel(p) \/ EndLogout(p)
            PROVE  Kept
        BY <3>5, <3>8 DEF EndRead, EndCancel, EndLogout, Replies
      <3>9. ASSUME BeginInstall(p) \/ BeginLogoutCall(p)
            PROVE  Kept
        BY <3>5, <3>6, <3>9 DEF BeginInstall, BeginLogoutCall, Replies
      <3>10. ASSUME NEW current \in BOOLEAN, EndInstall(p, current)
             PROVE  Kept
        <4>1. job[p].op = "install" /\ job[p].iss \in Issuance
          BY <3>10 DEF EndInstall, InstallEnded, JobsNamed
        <4>2. CASE InstallAlias(p, current)
          BY <3>7, <4>1, <4>2 DEF InstallAlias, MobileTypeOK
        <4>3. ASSUME NEW id \in Id, InstallNew(p, current, id)
              PROVE  Kept
          BY <3>7, <4>1, <4>3 DEF InstallNew
        <4>4. CASE InstallRefused(p, current)
          BY <3>5, <4>4 DEF InstallRefused, Replies
        <4>5. QED
          BY <3>10, <4>2, <4>3, <4>4 DEF EndInstall, InstallEnded
      <3>11. QED
        BY <1>2, <3>1, <3>2, <3>3, <3>4, <3>8, <3>9, <3>10 DEF Step
    <2>2. \A q \in Proc : q # p => job'[q] = job[q]
      BY <1>2, StepFrame
    <2>3. \A q \in Proc, l \in LockKey : q # p /\ Holds(q, l) => Holds(q, l)'
      BY <1>2, StepFrame
    <2>4. JobsNamed'
      BY <2>0, <2>1, <2>2, Monotone DEF JobsNamed
    <2>5. Running'
      BY <2>0, <2>1, <2>2, <2>3, ManagerAssumption DEF Running, JobsNamed
    <2>6. QED
      BY <2>4, <2>5
  <1>3. CASE \/ UNCHANGED mobileVars
             \/ \E i \in Issuance : UbidIssue(i)
             \/ \E c \in Issuance \cup Id : UbidRevoke(c)
             \/ \E id \in Id : OAuthCreate(id)
             \/ MobileTick
    BY <1>1, <1>3 DEF mobileVars, managerVars, UbidIssue, UbidRevoke, OAuthCreate, MobileTick
  <1>4. QED
    BY <1>2, <1>3 DEF MobileNext

\* The slots and aliases of the state after a step: a sweep of those before it,
\* or one more slot under a fresh id.
LEMMA SlotsStep ==
  ASSUME Base, [MobileNext]_mobileVars
  PROVE  \/ slots' \subseteq slots /\ UNCHANGED <<record, aliases>>
         \/ slots' = SweptSlots /\ aliases' = SweptAliases /\ UNCHANGED record
         \/ \E id \in Id : \E rec :
               /\ Create(id, rec)
               /\ \/ rec.kind = Desktop /\ UNCHANGED aliases
                  \/ \E i \in Issuance :
                        /\ rec.issuance = i /\ aliases[i] = NoId
                        /\ aliases' = [aliases EXCEPT ![i] = id]
  <1> USE DEF Base
  <1>0. Swept \subseteq slots
    BY DEF Swept
  <1>1. CASE \/ UNCHANGED mobileVars
             \/ \E i \in Issuance : UbidIssue(i)
             \/ \E c \in Issuance \cup Id : UbidRevoke(c)
             \/ \E p \in Proc, i \in Issuance : StartInstall(p, i) \/ StartCancel(p, i)
             \/ \E p \in Proc : Serve(p) \/ Drop(p) \/ EndCancel(p)
             \/ MobileTick
    BY <1>1 DEF mobileVars, storeVars, managerVars, UbidIssue, UbidRevoke, StartInstall,
                StartCancel, Serve, Drop, EndCancel, MobileTick, Tick
  <1>2. ASSUME NEW p \in Proc, EndRead(p) \/ BeginLogoutCall(p) \/ EndLogout(p)
        PROVE  slots' \subseteq slots /\ UNCHANGED <<record, aliases>>
    BY <1>0, <1>2 DEF EndRead, BeginLogoutCall, EndLogout, FreeSlot
  <1>3. ASSUME NEW p \in Proc,
               BeginInstall(p) \/ \E id \in Id : StartRead(p, id) \/ StartLogout(p, id)
        PROVE  slots' = SweptSlots /\ aliases' = SweptAliases /\ UNCHANGED record
    BY <1>3 DEF BeginInstall, StartRead, StartLogout, Sweep
  <1>4. ASSUME NEW p \in Proc, NEW current \in BOOLEAN, EndInstall(p, current)
        PROVE  \/ slots' \subseteq slots /\ UNCHANGED <<record, aliases>>
               \/ \E id \in Id : \E rec :
                     /\ Create(id, rec)
                     /\ \E i \in Issuance :
                           /\ rec.issuance = i /\ aliases[i] = NoId
                           /\ aliases' = [aliases EXCEPT ![i] = id]
    <2>1. job[p].iss \in Issuance
      BY <1>4 DEF EndInstall, InstallEnded, JobsNamed
    <2>2. ASSUME NEW id \in Id, InstallNew(p, current, id)
          PROVE  /\ Create(id, MobileRecord(job[p].iss))
                 /\ MobileRecord(job[p].iss).issuance = job[p].iss
                 /\ aliases[job[p].iss] = NoId
                 /\ aliases' = [aliases EXCEPT ![job[p].iss] = id]
      BY <2>2 DEF InstallNew, MobileRecord
    <2>3. CASE InstallAlias(p, current) \/ InstallRefused(p, current)
      BY <1>0, <2>3 DEF InstallAlias, InstallRefused
    <2>4. QED
      BY <1>4, <2>1, <2>2, <2>3 DEF EndInstall, InstallEnded
  <1>5. ASSUME NEW id \in Id, OAuthCreate(id)
        PROVE  \E rec : Create(id, rec) /\ rec.kind = Desktop /\ UNCHANGED aliases
    <2> DEFINE rec == [kind |-> Desktop, issuance |-> NoIssuance, issuedAt |-> clock,
                       expiresAt |-> clock + SessionTtl]
    <2>1. Create(id, rec) /\ rec.kind = Desktop /\ UNCHANGED aliases
      BY <1>5 DEF OAuthCreate, managerVars
    <2>2. QED
      BY <2>1
  <1>6. QED
    BY <1>1, <1>2, <1>3, <1>4, <1>5 DEF MobileNext, Step

\* One presentation per issuance is preserved by every step.
LEMMA PresentationStep ==
  ASSUME Base, OnePresentation, [MobileNext]_mobileVars
  PROVE  OnePresentation'
  <1> USE DEF Base
  <1>0. /\ slots \subseteq Id /\ Swept \subseteq slots /\ SweptSlots \subseteq slots
        /\ record \in [Id -> Record \cup {NoRecord}]
        /\ \A id \in Id : Mobile(id) => record[id].issuance \in Issuance
        /\ aliases \in [Issuance -> Id \cup {NoId}]
    BY SweepShrinks DEF MobileTypeOK, StoreTypeOK, MobileUsed
  <1>1. CASE slots' \subseteq slots /\ UNCHANGED <<record, aliases>>
    BY <1>1 DEF OnePresentation, Mobile
  <1>2. CASE slots' = SweptSlots /\ aliases' = SweptAliases /\ UNCHANGED record
    BY <1>0, <1>2 DEF OnePresentation, Mobile, SweptAliases
  <1>3. ASSUME NEW id \in Id, NEW rec, Create(id, rec),
               \/ rec.kind = Desktop /\ UNCHANGED aliases
               \/ \E i \in Issuance : /\ rec.issuance = i /\ aliases[i] = NoId
                                      /\ aliases' = [aliases EXCEPT ![i] = id]
        PROVE  OnePresentation'
    <2>1. /\ record'[id] = rec /\ \A j \in Id : j # id => record'[j] = record[j]
          /\ slots' \subseteq slots \cup {id}
      BY <1>0, <1>3 DEF Create
    <2>2. SUFFICES ASSUME NEW j \in slots', Mobile(j)'
                   PROVE  aliases'[record'[j].issuance] = j
      BY DEF OnePresentation
    <2>3. CASE j = id
      BY <1>0, <1>3, <2>1, <2>2, <2>3 DEF Mobile, Desktop, MobileV1, MobileV2
    <2>4. CASE j # id
      <3>1. j \in slots /\ Mobile(j) /\ record'[j] = record[j]
        BY <1>0, <2>1, <2>2, <2>4 DEF Mobile
      <3>2. aliases[record[j].issuance] = j /\ j # NoId
        BY <1>0, <3>1, ManagerAssumption DEF OnePresentation
      <3>3. QED
        BY <1>0, <1>3, <3>1, <3>2
    <2>5. QED
      BY <2>3, <2>4
  <1>4. QED
    BY <1>1, <1>2, <1>3, SlotsStep

\* A step that starts no call of a request leaves its operation and, unless it
\* installs, its session as they were.
LEMMA JobOrigin ==
  ASSUME Base, Running, [MobileNext]_mobileVars, NEW q \in Proc
  PROVE  \/ \E id \in Id : StartRead(q, id) \/ StartLogout(q, id)
         \/ \E i \in Issuance : StartInstall(q, i) \/ StartCancel(q, i)
         \/ /\ job'[q].op = job[q].op /\ job'[q].iss = job[q].iss
            /\ job'[q].late = job[q].late
            /\ job[q].op # "install" => job'[q].id = job[q].id
  <1> USE DEF Base
  <1>0. job \in [Proc -> Job]
    BY DEF MobileTypeOK
  <1>1. CASE UNCHANGED job
    BY <1>1
  <1>2. ASSUME NEW p \in Proc, p # q,
               \/ \E id \in Id : StartRead(p, id) \/ StartLogout(p, id)
               \/ \E i \in Issuance : StartInstall(p, i) \/ StartCancel(p, i)
               \/ Serve(p) \/ Drop(p) \/ Step(p)
        PROVE  job'[q] = job[q]
    BY <1>2, StepFrame
  <1>3. ASSUME Serve(q) \/ Drop(q) \/ Step(q)
        PROVE  /\ job'[q].op = job[q].op /\ job'[q].iss = job[q].iss
               /\ job'[q].late = job[q].late
               /\ job[q].op # "install" => job'[q].id = job[q].id
    <2>1. ASSUME NEW ok, Answer(q, ok)
          PROVE  /\ job'[q].op = job[q].op /\ job'[q].iss = job[q].iss
                 /\ job'[q].late = job[q].late /\ job'[q].id = job[q].id
      BY <1>0, <2>1 DEF Answer, Job
    <2>2. ASSUME NEW r, Finish(q, r)
          PROVE  /\ job'[q].op = job[q].op /\ job'[q].iss = job[q].iss
                 /\ job'[q].late = job[q].late /\ job'[q].id = job[q].id
      BY <1>0, <2>2 DEF Finish, Job
    <2>3. ASSUME Call(q)
          PROVE  /\ job'[q].op = job[q].op /\ job'[q].iss = job[q].iss
                 /\ job'[q].late = job[q].late /\ job'[q].id = job[q].id
      BY <1>0, <2>3 DEF Call, Job
    <2>4. ASSUME NEW id, Installed(q, id)
          PROVE  /\ job'[q].op = job[q].op /\ job'[q].iss = job[q].iss
                 /\ job'[q].late = job[q].late
      BY <1>0, <2>4 DEF Installed, Job
    <2>5. ASSUME NEW current \in BOOLEAN, EndInstall(q, current)
          PROVE  /\ job[q].op = "install"
                 /\ \E id, r : Installed(q, id) \/ Finish(q, r)
      BY <2>5 DEF EndInstall, InstallEnded, InstallAlias, InstallNew, InstallRefused
    <2>6. CASE Serve(q) \/ Drop(q)
      BY <2>1, <2>6 DEF Serve, Drop
    <2>7. CASE EndRead(q) \/ EndCancel(q) \/ EndLogout(q) \/ BeginInstall(q) \/ BeginLogoutCall(q)
      BY <2>2, <2>3, <2>7 DEF EndRead, EndCancel, EndLogout, BeginInstall, BeginLogoutCall
    <2>8. QED
      BY <1>3, <2>2, <2>4, <2>5, <2>6, <2>7 DEF Step
  <1>4. CASE \/ UNCHANGED mobileVars
             \/ \E i \in Issuance : UbidIssue(i)
             \/ \E c \in Issuance \cup Id : UbidRevoke(c)
             \/ \E id \in Id : OAuthCreate(id)
             \/ MobileTick
    BY <1>1, <1>4 DEF mobileVars, managerVars, UbidIssue, UbidRevoke, OAuthCreate, MobileTick
  <1>5. QED
    BY <1>2, <1>3, <1>4 DEF MobileNext

\* No session a logout request names is presented again: it is denied, or the
\* request found that its slot was already gone.
LogoutOut ==
    \A p \in Proc : job[p].op = "logout" => Denied(job[p].id) \/ job[p].id \notin slots

LEMMA LogoutOutStep ==
  ASSUME Base, Running, LogoutOut, [MobileNext]_mobileVars
  PROVE  LogoutOut'
  <1> USE DEF Base
  <1>0. /\ job \in [Proc -> Job] /\ slots \subseteq Id
        /\ Swept \subseteq slots /\ SweptSlots \subseteq slots
    BY SweepShrinks DEF MobileTypeOK, StoreTypeOK
  <1>1. \A id \in Id : Used(id) /\ id \notin slots => id \notin slots'
    <2>1. ASSUME NEW id \in Id, NEW new \in Id, NEW rec, Create(new, rec), Used(id),
                 id \notin slots
          PROVE  id \notin slots'
      BY <1>0, <2>1 DEF Create
    <2>2. QED
      BY <1>0, <2>1, SlotsStep
  <1>3. ASSUME NEW p \in Proc, NEW id \in Id, StartLogout(p, id)
        PROVE  /\ job'[p].id = id
               /\ Denied(id)' \/ id \notin slots'
    <2>1. Denied(id)' \/ id \notin slots'
      <3>1. CASE Denied(id)
        BY <3>1, Monotone
      <3>2. CASE ~Denied(id) /\ LogoutKnown(id)
        <4>1. Used(id) /\ NewLogout(id) # NoLogout
          BY <1>3, NewLogoutTyped, AbsentValues DEF StartLogout
        <4>2. QED
          BY <1>3, <3>2, <4>1 DEF StartLogout, Denied, MobileTypeOK, StoreTypeOK
      <3>3. CASE ~LogoutKnown(id)
        BY <1>3, <3>3 DEF StartLogout, LogoutKnown
      <3>4. QED
        BY <3>1, <3>2, <3>3
    <2>2. job'[p].id = id
      BY <1>0, <1>3 DEF StartLogout, Start
    <2>3. QED
      BY <2>1, <2>2
  <1>4. ASSUME NEW q \in Proc, NEW id, id = job'[q].id, job'[q].op = "logout"
        PROVE  Denied(id)' \/ id \notin slots'
    <2>1. ASSUME NEW j \in Id, StartRead(q, j)
          PROVE  job'[q].op # "logout"
      BY <1>0, <2>1 DEF StartRead, Start
    <2>2. ASSUME NEW i \in Issuance, StartInstall(q, i) \/ StartCancel(q, i)
          PROVE  job'[q].op # "logout"
      BY <1>0, <2>2 DEF StartInstall, StartCancel, Start
    <2>3. CASE job[q].op = "logout" /\ id = job[q].id
      BY <1>1, <2>3, Monotone DEF LogoutOut, JobsNamed
    <2>4. QED
      BY <1>3, <1>4, <2>1, <2>2, <2>3, JobOrigin
  <1>5. QED
    BY <1>4 DEF LogoutOut, Denied

\* The retry state of a logout is kept to its deadline by every step.
LEMMA RetryStep ==
  ASSUME Base, RetryKept, [MobileNext]_mobileVars
  PROVE  RetryKept'
  <1> USE DEF Base
  <1>0. /\ clock \in Nat /\ slots \subseteq Id /\ cancellations \subseteq Id
        /\ logout \in [Id -> Logout \cup {NoLogout}]
    BY DEF MobileTypeOK, StoreTypeOK
  <1>1. \A id \in Id : Denied(id) => logout[id].until \in Nat
    BY <1>0 DEF Denied, Logout
  <1>2. ASSUME NEW id \in Id, Denied(id), logout[id].until > clock, id \in slots
        PROVE  id \in Swept /\ id \in SweptSlots
    BY <1>2 DEF Swept, SweptSlots, Deadline, LiveCancellations
  <1>3. ASSUME NEW id \in Id, Denied(id), logout[id].until > clock, id \in cancellations
        PROVE  id \in LiveCancellations
    BY <1>3 DEF LiveCancellations
  <1>4. ASSUME UNCHANGED logout, clock' \in {clock, clock + 1},
               \A id \in Id : Denied(id) /\ logout[id].until > clock /\ id \in slots \cup cancellations
                           => id \in slots' \cup cancellations'
        PROVE  RetryKept'
    BY <1>0, <1>1, <1>4 DEF RetryKept, Denied
  <1>5. CASE \/ UNCHANGED mobileVars
             \/ \E i \in Issuance : UbidIssue(i)
             \/ \E c \in Issuance \cup Id : UbidRevoke(c)
             \/ \E p \in Proc, i \in Issuance : StartInstall(p, i) \/ StartCancel(p, i)
             \/ \E p \in Proc : Serve(p) \/ Drop(p) \/ EndCancel(p)
             \/ MobileTick
    BY <1>4, <1>5 DEF mobileVars, storeVars, managerVars, UbidIssue, UbidRevoke, StartInstall,
                      StartCancel, Serve, Drop, EndCancel, MobileTick, Tick
  <1>6. ASSUME NEW id \in Id, NEW rec, Create(id, rec), UNCHANGED cancellations
        PROVE  RetryKept'
    BY <1>2, <1>4, <1>6 DEF Create
  <1>7. ASSUME NEW p \in Proc, \E id \in Id : StartRead(p, id)
        PROVE  RetryKept'
    BY <1>2, <1>3, <1>4, <1>7 DEF StartRead, Sweep
  <1>8. ASSUME NEW p \in Proc, BeginInstall(p) \/ EndRead(p)
        PROVE  RetryKept'
    BY <1>2, <1>3, <1>4, <1>8 DEF BeginInstall, EndRead, Sweep
  <1>9. ASSUME NEW p \in Proc, NEW current \in BOOLEAN, EndInstall(p, current)
        PROVE  RetryKept'
    <2>1. UNCHANGED cancellations
      BY <1>9 DEF EndInstall, InstallEnded
    <2>2. CASE InstallAlias(p, current) \/ InstallRefused(p, current)
      BY <1>2, <1>4, <2>1, <2>2 DEF InstallAlias, InstallRefused
    <2>3. QED
      BY <1>6, <1>9, <2>1, <2>2 DEF EndInstall, InstallEnded, InstallNew
  <1>10. ASSUME NEW p \in Proc, NEW id \in Id, StartLogout(p, id)
         PROVE  RetryKept'
    <2>1. /\ slots' = SweptSlots /\ LiveCancellations \subseteq cancellations'
          /\ UNCHANGED clock
      BY <1>10 DEF StartLogout
    <2>2. CASE LogoutKnown(id) /\ ~Denied(id)
      <3>1. /\ \A j \in Id : j # id => logout'[j] = logout[j]
            /\ id \in slots' \cup cancellations'
        BY <1>0, <1>10, <2>1, <2>2 DEF StartLogout, LogoutKnown
      <3>2. ASSUME NEW j \in Id, j # id, Denied(j)', logout'[j].until > clock'
            PROVE  j \in slots' \cup cancellations'
        <4>1. Denied(j) /\ logout[j].until > clock
          BY <2>1, <3>1, <3>2 DEF Denied
        <4>2. j \in slots \cup cancellations
          BY <4>1 DEF RetryKept
        <4>3. QED
          BY <1>2, <1>3, <2>1, <4>1, <4>2
      <3>3. QED
        BY <3>1, <3>2 DEF RetryKept, Denied
    <2>3. CASE ~(LogoutKnown(id) /\ ~Denied(id))
      BY <1>2, <1>3, <1>4, <1>10, <2>1, <2>3 DEF StartLogout
    <2>4. QED
      BY <2>2, <2>3
  <1>11. ASSUME NEW p \in Proc, BeginLogoutCall(p) \/ EndLogout(p)
         PROVE  RetryKept'
    <2>1. /\ UNCHANGED <<clock, cancellations>> /\ job[p].id \in Id /\ Denied(job[p].id)
          /\ slots' = slots \/ FreeSlot(job[p].id)
      BY <1>11 DEF BeginLogoutCall, EndLogout, JobsNamed
    <2>2. \A j \in Id : Denied(j) /\ logout[j].until > clock /\ j \in slots
                       => j \in slots' \cup cancellations'
      BY <1>2, <2>1 DEF FreeSlot
    <2>3. \A j \in Id : /\ Denied(j)' <=> Denied(j)
                        /\ Denied(j) => logout'[j].until = logout[j].until
      <3> DEFINE new == [until |-> logout[job[p].id].until, confirmed |-> TRUE]
      <3>1. logout' = logout \/ logout' = [logout EXCEPT ![job[p].id] = new]
        BY <1>11 DEF BeginLogoutCall, EndLogout
      <3>2. new # NoLogout /\ new.until = logout[job[p].id].until
        BY DEF NoLogout
      <3> HIDE DEF new
      <3>3. QED
        BY <1>0, <2>1, <3>1, <3>2 DEF Denied
    <2>4. ASSUME NEW j \in Id, Denied(j)', logout'[j].until > clock'
          PROVE  j \in slots' \cup cancellations'
      <3>1. Denied(j) /\ logout[j].until > clock
        BY <2>1, <2>3, <2>4 DEF Denied
      <3>2. j \in slots \cup cancellations
        BY <3>1 DEF RetryKept
      <3>3. QED
        BY <2>1, <2>2, <3>1, <3>2
    <2>5. QED
      BY <2>4 DEF RetryKept, Denied
  <1>12. QED
    BY <1>5, <1>6, <1>7, <1>8, <1>9, <1>10, <1>11 DEF MobileNext, Step, OAuthCreate, managerVars

\* An acknowledged logout call has revoked its credential at UBID.
Acknowledged ==
    \A p \in Proc : job[p].op = "logout" /\ job[p].ok => Credential(job[p].id) \in revoked

\* A late read carries no positive answer and has not authenticated.
LateRead ==
    \A p \in Proc : job[p].op = "read" /\ job[p].late /\ Mobile(job[p].id) =>
       /\ ~job[p].ok /\ job[p].reply # "authenticated"
       /\ job[p].at # "done" => job[p].iss \in revoked

\* The credential of a created session never changes.
LEMMA CredentialFixed ==
  ASSUME Base, [MobileNext]_mobileVars, NEW id \in Id, Used(id)
  PROVE  /\ (Credential(id))' = Credential(id) /\ (Mobile(id))' = Mobile(id)
         /\ revoked \subseteq revoked'
  <1>1. record'[id] = record[id]
    BY Monotone
  <1>2. revoked \subseteq revoked'
    BY ZenonT(60) DEF MobileNext, Step, mobileVars, UbidIssue, UbidRevoke, OAuthCreate, StartRead,
           StartLogout, StartInstall, StartCancel, Serve, Drop, EndRead, BeginInstall,
           EndInstall, InstallEnded, BeginLogoutCall, EndLogout, EndCancel, MobileTick, ubidVars
  <1>3. QED
    BY <1>1, <1>2 DEF Credential, Mobile

\* What an acknowledgement, or a positive answer to a late read, says stays true.
LEMMA AnswerStep ==
  ASSUME Base, Running, Acknowledged, LateRead, [MobileNext]_mobileVars
  PROVE  Acknowledged' /\ LateRead'
  <1> USE DEF Base
  <1>0. job \in [Proc -> Job]
    BY DEF MobileTypeOK
  <1> SUFFICES ASSUME NEW q \in Proc, NEW new, new = job'[q]
               PROVE  /\ new.op = "logout" /\ new.ok => (Credential(new.id))' \in revoked'
                      /\ new.op = "read" /\ new.late /\ (Mobile(new.id))' =>
                            /\ ~new.ok /\ new.reply # "authenticated"
                            /\ new.at # "done" => new.iss \in revoked'
    BY DEF Acknowledged, LateRead, Credential, Mobile
  <1> DEFINE Kept == /\ new.op = "logout" /\ new.ok => (Credential(new.id))' \in revoked'
                     /\ new.op = "read" /\ new.late /\ (Mobile(new.id))' =>
                           /\ ~new.ok /\ new.reply # "authenticated"
                           /\ new.at # "done" => new.iss \in revoked'
  <1>1. CASE new = job[q]
    BY <1>0, <1>1, CredentialFixed DEF Acknowledged, LateRead, JobsNamed
  <1>2. ASSUME NEW id \in Id, StartRead(q, id)
        PROVE  Kept
    <2>1. /\ new.op = "read" /\ new.id = id /\ ~new.ok /\ new.late = (Credential(id) \in revoked)
          /\ Mobile(id) => /\ new.reply # "authenticated"
                           /\ new.at # "done" => new.iss = record[id].issuance
          /\ Used(id) /\ UNCHANGED revoked
      BY <1>0, <1>2 DEF StartRead, Start, ubidVars
    <2>2. record'[id] = record[id]
      BY <2>1, Monotone
    <2>3. QED
      BY <2>1, <2>2 DEF Credential, Mobile
  <1>3. ASSUME NEW id \in Id, StartLogout(q, id)
        PROVE  Kept
    <2>1. new.op = "logout" /\ ~new.ok
      BY <1>0, <1>3 DEF StartLogout, Start
    <2>2. QED
      BY <2>1
  <1>4. ASSUME NEW i \in Issuance, StartInstall(q, i) \/ StartCancel(q, i)
        PROVE  Kept
    <2>1. new.op \in {"install", "cancel"}
      BY <1>0, <1>4 DEF StartInstall, StartCancel, Start
    <2>2. QED
      BY <2>1
  <1>5. CASE Serve(q)
    <2>1. CASE job[q].op \in {"read", "install"}
      <3>1. /\ new.op = job[q].op /\ new.id = job[q].id /\ new.late = job[q].late
            /\ new.iss = job[q].iss /\ new.reply = job[q].reply /\ new.ok = Active(job[q].iss)
            /\ job[q].at = "calling" /\ UNCHANGED revoked
        BY <1>0, <1>5, <2>1, ZenonT(60) DEF Serve, Answer, Job
      <3>2. job[q].op = "read" /\ job[q].late /\ Mobile(job[q].id) => ~Active(job[q].iss)
        BY <3>1 DEF LateRead, Active
      <3>3. QED
        BY <2>1, <3>1, <3>2, CredentialFixed DEF LateRead, JobsNamed
    <2>2. CASE job[q].op \in {"logout", "cancel"}
      <3>1. new.op = job[q].op /\ new.id = job[q].id
        BY <1>0, <1>5, <2>2 DEF Serve, Answer, Job
      <3>2. job[q].op = "logout" => Credential(job[q].id) \in revoked'
        BY <1>5, <2>2 DEF Serve
      <3>3. QED
        BY <2>2, <3>1, <3>2, CredentialFixed DEF JobsNamed
    <2>3. QED
      BY <1>5, <2>1, <2>2 DEF Serve
  <1>6. CASE Drop(q)
    <2>1. /\ new.op = job[q].op /\ new.id = job[q].id /\ new.late = job[q].late /\ ~new.ok
          /\ new.iss = job[q].iss /\ new.reply = job[q].reply /\ job[q].at # "done"
      BY <1>0, <1>6 DEF Drop, Answer, Job
    <2>2. QED
      BY <2>1, CredentialFixed DEF LateRead, JobsNamed
  <1>7. CASE EndRead(q)
    <2>1. /\ new.op = "read" /\ new.id = job[q].id /\ new.late = job[q].late
          /\ new.ok = job[q].ok /\ new.at = "done"
          /\ ~job[q].ok => new.reply = "anonymous"
          /\ job[q].op = "read"
      BY <1>0, <1>7 DEF EndRead, Finish, Job
    <2>2. QED
      BY <2>1, CredentialFixed DEF LateRead, JobsNamed
  <1>8. CASE EndLogout(q) \/ BeginLogoutCall(q)
    <2>1. job[q].op = "logout" /\ new.op = "logout" /\ new.id = job[q].id /\ new.ok = job[q].ok
      BY <1>0, <1>8, ZenonT(60) DEF EndLogout, BeginLogoutCall, Finish, Call, Job
    <2>2. QED
      BY <2>1, CredentialFixed DEF Acknowledged, JobsNamed
  <1>9. CASE EndCancel(q) \/ BeginInstall(q) \/ \E current \in BOOLEAN : EndInstall(q, current)
    <2>1. job[q].op \in {"install", "cancel"} /\ new.op = job[q].op
      BY <1>0, <1>9, ZenonT(60) DEF EndCancel, BeginInstall, EndInstall, InstallEnded, InstallAlias,
                                    InstallNew, InstallRefused, Finish, Call, Installed, Job
    <2>2. QED
      BY <2>1
  <1>10. CASE \/ UNCHANGED mobileVars
              \/ \E i \in Issuance : UbidIssue(i)
              \/ \E c \in Issuance \cup Id : UbidRevoke(c)
              \/ \E id \in Id : OAuthCreate(id)
              \/ MobileTick
    BY <1>1, <1>10 DEF mobileVars, managerVars, UbidIssue, UbidRevoke, OAuthCreate, MobileTick
  <1>11. ASSUME NEW p \in Proc, p # q,
                \/ \E id \in Id : StartRead(p, id) \/ StartLogout(p, id)
                \/ \E i \in Issuance : StartInstall(p, i) \/ StartCancel(p, i)
                \/ Serve(p) \/ Drop(p) \/ Step(p)
         PROVE  Kept
    BY <1>1, <1>11, StepFrame
  <1>12. QED
    BY <1>2, <1>3, <1>4, <1>5, <1>6, <1>7, <1>8, <1>9, <1>10, <1>11 DEF MobileNext, Step

\* A logout is only marked confirmed by the acknowledgement of its revocation.
LEMMA ConfirmedStep ==
  ASSUME Base, Running, Acknowledged, ConfirmedIsRevoked, [MobileNext]_mobileVars
  PROVE  ConfirmedIsRevoked'
  <1> USE DEF Base
  <1>0. logout \in [Id -> Logout \cup {NoLogout}]
    BY DEF MobileTypeOK, StoreTypeOK
  <1>1. ASSUME NEW id \in Id, logout'[id] = logout[id]
        PROVE  Denied(id)' /\ logout'[id].confirmed => (Credential(id))' \in revoked'
    BY <1>1, CredentialFixed DEF ConfirmedIsRevoked, Denied, MobileUsed
  <1>2. ASSUME NEW p \in Proc, NEW j \in Id, StartLogout(p, j), NEW id \in Id
        PROVE  Denied(id)' /\ logout'[id].confirmed => (Credential(id))' \in revoked'
    <2>1. logout' = logout \/ logout' = [logout EXCEPT ![j] = NewLogout(j)]
      BY <1>2 DEF StartLogout
    <2>2. NewLogout(j).confirmed = FALSE
      BY DEF NewLogout
    <2>3. QED
      BY <1>0, <1>1, <2>1, <2>2
  <1>3. ASSUME NEW p \in Proc, EndLogout(p), NEW id \in Id
        PROVE  Denied(id)' /\ logout'[id].confirmed => (Credential(id))' \in revoked'
    <2>1. CASE id = job[p].id /\ job[p].ok
      <3>1. Credential(id) \in revoked /\ Used(id)
        BY <1>3, <2>1 DEF EndLogout, Acknowledged, JobsNamed
      <3>2. QED
        BY <3>1, CredentialFixed
    <2>2. CASE id # job[p].id \/ ~job[p].ok
      <3>1. logout'[id] = logout[id]
        BY <1>0, <1>3, <2>2 DEF EndLogout
      <3>2. QED
        BY <1>1, <3>1
    <2>3. QED
      BY <2>1, <2>2
  <1>4. ASSUME \A p \in Proc : ~EndLogout(p) /\ \A j \in Id : ~StartLogout(p, j)
        PROVE  UNCHANGED logout
    BY <1>4, ZenonT(60) DEF MobileNext, Step, mobileVars, storeVars, UbidIssue, UbidRevoke, OAuthCreate, Create,
                StartRead, StartInstall, StartCancel, Serve, Drop, EndRead, BeginInstall, EndInstall, InstallEnded,
                InstallAlias, InstallNew, InstallRefused, BeginLogoutCall, EndCancel,
                MobileTick, Tick
  <1>5. QED
    BY <1>1, <1>2, <1>3, <1>4 DEF ConfirmedIsRevoked, Denied

\* No request sends a revocation that another request has had confirmed: the
\* lock of the session has one holder.
LEMMA RevokeOnceStep ==
  ASSUME Base, Running, RevokeOnce, [MobileNext]_mobileVars
  PROVE  RevokeOnce'
  <1> USE DEF Base
  <1>0. job \in [Proc -> Job] /\ logout \in [Id -> Logout \cup {NoLogout}]
    BY DEF MobileTypeOK, StoreTypeOK
  <1> SUFFICES ASSUME NEW q \in Proc, NEW new, new = job'[q], new.op = "logout",
                      new.at \in {"calling", "answered"}
               PROVE  ~logout'[new.id].confirmed
    BY DEF RevokeOnce
  <1>1. job[q].op = "logout" /\ new.id = job[q].id /\ job[q].id \in Id
    <2>1. ASSUME NEW id \in Id, StartRead(q, id) \/ StartLogout(q, id)
          PROVE  FALSE
      BY <1>0, <2>1 DEF StartRead, StartLogout, Start
    <2>2. ASSUME NEW i \in Issuance, StartInstall(q, i) \/ StartCancel(q, i)
          PROVE  FALSE
      BY <1>0, <2>2 DEF StartInstall, StartCancel, Start
    <2>3. QED
      BY <2>1, <2>2, JobOrigin DEF JobsNamed
  <1>2. CASE BeginLogoutCall(q)
    <2>1. ~logout[job[q].id].confirmed /\ UNCHANGED logout
      BY <1>0, <1>2 DEF BeginLogoutCall, Finish, Job
    <2>2. QED
      BY <1>1, <2>1
  <1>3. CASE ~BeginLogoutCall(q)
    <2>1. job[q].at \in {"calling", "answered"}
      <3>1. CASE new = job[q]
        BY <3>1
      <3>2. CASE Serve(q) \/ Drop(q)
        BY <3>2 DEF Serve, Drop
      <3>3. CASE EndLogout(q)
        BY <3>3 DEF EndLogout
      <3>4. CASE \/ UNCHANGED mobileVars
                 \/ \E i \in Issuance : UbidIssue(i)
                 \/ \E c \in Issuance \cup Id : UbidRevoke(c)
                 \/ \E id \in Id : OAuthCreate(id)
                 \/ MobileTick
        BY <3>1, <3>4 DEF mobileVars, managerVars, UbidIssue, UbidRevoke, OAuthCreate, MobileTick
      <3>5. ASSUME NEW p \in Proc, p # q,
                   \/ \E id \in Id : StartRead(p, id) \/ StartLogout(p, id)
                   \/ \E i \in Issuance : StartInstall(p, i) \/ StartCancel(p, i)
                   \/ Serve(p) \/ Drop(p) \/ Step(p)
            PROVE  new = job[q]
        BY <3>5, StepFrame
      <3>6. CASE \/ EndRead(q) \/ BeginInstall(q) \/ EndCancel(q)
                 \/ \E current \in BOOLEAN : EndInstall(q, current)
        BY <1>1, <3>6 DEF EndRead, BeginInstall, EndCancel, EndInstall, InstallEnded
      <3>7. CASE \/ \E id \in Id : StartRead(q, id) \/ StartLogout(q, id)
                 \/ \E i \in Issuance : StartInstall(q, i) \/ StartCancel(q, i)
        BY <1>0, <3>7 DEF StartRead, StartLogout, StartInstall, StartCancel, Start
      <3>8. QED
        BY <1>3, <3>1, <3>2, <3>3, <3>4, <3>5, <3>6, <3>7 DEF MobileNext, Step
    <2>2. Holds(q, job[q].id) /\ ~logout[job[q].id].confirmed /\ Denied(job[q].id)
      BY <1>1, <2>1 DEF Running, RevokeOnce, JobsNamed
    <2>3. ASSUME NEW p \in Proc, EndLogout(p)
          PROVE  logout'[job[q].id] = logout[job[q].id]
      <3>1. Holds(p, job[p].id)
        BY <2>3 DEF EndLogout, Running
      <3>2. p # q
        <4>1. EndLogout(q) => new.at = "done"
          BY <1>0 DEF EndLogout, Finish, Job
        <4>2. QED
          BY <2>3, <4>1
      <3>3. job[p].id # job[q].id
        BY <2>2, <3>1, <3>2 DEF Holds
      <3>4. QED
        BY <1>0, <1>1, <2>3, <3>3 DEF EndLogout
    <2>4. ASSUME NEW p \in Proc, NEW j \in Id, StartLogout(p, j)
          PROVE  logout'[job[q].id] = logout[job[q].id]
      BY <1>0, <1>1, <2>2, <2>4 DEF StartLogout
    <2>5. ASSUME \A p \in Proc : ~EndLogout(p) /\ \A j \in Id : ~StartLogout(p, j)
          PROVE  UNCHANGED logout
      BY <2>5, ZenonT(60) DEF MobileNext, Step, mobileVars, storeVars, UbidIssue, UbidRevoke, OAuthCreate,
                  Create, StartRead, StartInstall, StartCancel, Serve, Drop, EndRead,
                  BeginInstall, EndInstall, InstallEnded, InstallAlias, InstallNew, InstallRefused,
                  BeginLogoutCall, EndCancel, MobileTick, Tick
    <2>6. QED
      BY <1>1, <2>2, <2>3, <2>4, <2>5
  <1>4. QED
    BY <1>2, <1>3

\* The retry map and the locks stay within the manager's capacity.
LEMMA BoundedStep ==
  ASSUME Base, Running, ManagerBounded, [MobileNext]_mobileVars
  PROVE  ManagerBounded'
  <1> USE DEF Base
  <1> DEFINE Taken == {k \in LockKey : locks[k] # <<>>}
  <1>0. /\ ManagerCapacity \in Nat /\ locks \in [LockKey -> Seq(Proc)]
        /\ IsFiniteSet(cancellations) /\ IsFiniteSet(Taken)
        /\ Cardinality(cancellations) \in Nat /\ Cardinality(Taken) \in Nat
        /\ Issuance \subseteq LockKey /\ Id \subseteq LockKey
    <2>1. IsFiniteSet(cancellations)
      BY FS_Subset, StoreAssumption DEF MobileTypeOK
    <2>2. IsFiniteSet(Taken)
      BY FS_Subset, ManagerAssumption
    <2>3. QED
      BY <2>1, <2>2, FS_CardinalityType, ManagerAssumption DEF MobileTypeOK
  <1>1. ASSUME cancellations' \subseteq cancellations
        PROVE  Cardinality(cancellations') <= ManagerCapacity
    <2>1. Cardinality(cancellations') <= Cardinality(cancellations) /\ Cardinality(cancellations') \in Nat
      BY <1>0, <1>1, FS_Subset, FS_CardinalityType
    <2>2. QED
      BY <1>0, <2>1 DEF ManagerBounded
  <1>2. ASSUME Taken' \subseteq Taken
        PROVE  Cardinality(Taken') <= ManagerCapacity
    <2> HIDE DEF Taken
    <2>1. Cardinality(Taken') <= Cardinality(Taken) /\ Cardinality(Taken') \in Nat
      BY <1>0, <1>2, FS_Subset, FS_CardinalityType
    <2>2. Cardinality(Taken) <= ManagerCapacity
      BY DEF ManagerBounded, Taken
    <2>3. QED
      BY <1>0, <2>1, <2>2
  <1>3. ASSUME NEW p \in Proc, NEW k \in LockKey, ~LockFull(k), Acquire(p, k)
        PROVE  Cardinality(Taken') <= ManagerCapacity
    <2>1. Taken' \subseteq Taken \cup {k}
      BY <1>0, <1>3 DEF Acquire
    <2>2. CASE k \in Taken
      BY <1>2, <2>1, <2>2
    <2>3. CASE k \notin Taken
      <3>1. Cardinality(Taken) < ManagerCapacity
        BY <1>0, <1>3, <2>3 DEF LockFull
      <3> HIDE DEF Taken
      <3>2. IsFiniteSet(Taken \cup {k}) /\ Cardinality(Taken \cup {k}) = Cardinality(Taken) + 1
        BY <1>0, <2>3, FS_AddElement
      <3>3. Cardinality(Taken') <= Cardinality(Taken \cup {k}) /\ Cardinality(Taken') \in Nat
        BY <2>1, <3>2, FS_Subset, FS_CardinalityType
      <3>4. QED
        BY <1>0, <3>1, <3>2, <3>3
    <2>4. QED
      BY <2>2, <2>3
  <1>4. ASSUME NEW k \in LockKey, Release(k), locks[k] # <<>>
        PROVE  Taken' \subseteq Taken
    BY <1>0, <1>4 DEF Release
  <1>5. ASSUME UNCHANGED locks
        PROVE  Taken' \subseteq Taken
    BY <1>5
  <1>6. Cardinality(cancellations') <= ManagerCapacity
    <2>1. ASSUME NEW p \in Proc, NEW id \in Id, StartLogout(p, id)
          PROVE  Cardinality(cancellations') <= ManagerCapacity
      <3>1. /\ IsFiniteSet(LiveCancellations) /\ Cardinality(LiveCancellations) \in Nat
            /\ LiveCancellations \subseteq cancellations
        BY <1>0, FS_Subset, FS_CardinalityType, SweepShrinks
      <3>2. CASE Cardinality(LiveCancellations) < ManagerCapacity
        <4>1. cancellations' \subseteq LiveCancellations \cup {id}
          BY <2>1 DEF StartLogout
        <4>2. /\ IsFiniteSet(LiveCancellations \cup {id})
              /\ Cardinality(LiveCancellations \cup {id}) <= ManagerCapacity
              /\ Cardinality(LiveCancellations \cup {id}) \in Nat
          <5>1. /\ IsFiniteSet(LiveCancellations \cup {id})
                /\ Cardinality(LiveCancellations \cup {id}) =
                     IF id \in LiveCancellations THEN Cardinality(LiveCancellations)
                     ELSE Cardinality(LiveCancellations) + 1
            BY <3>1, FS_AddElement
          <5>2. QED
            BY <1>0, <3>1, <3>2, <5>1
        <4>3. /\ Cardinality(cancellations') <= Cardinality(LiveCancellations \cup {id})
              /\ Cardinality(cancellations') \in Nat
          BY <4>1, <4>2, FS_Subset, FS_CardinalityType
        <4>4. QED
          BY <1>0, <4>2, <4>3
      <3>3. CASE ~(Cardinality(LiveCancellations) < ManagerCapacity)
        BY <1>1, <2>1, <3>1, <3>3 DEF StartLogout
      <3>4. QED
        BY <3>2, <3>3
    <2>2. ASSUME \A p \in Proc, id \in Id : ~StartLogout(p, id)
          PROVE  cancellations' \subseteq cancellations
      BY <2>2, SweepShrinks
         DEF MobileNext, Step, mobileVars, managerVars, UbidIssue, UbidRevoke, OAuthCreate,
             StartRead, Sweep, StartInstall, StartCancel, Serve, Drop, EndRead, BeginInstall,
             EndInstall, InstallEnded, BeginLogoutCall, EndLogout, EndCancel, MobileTick
    <2>3. QED
      BY <1>1, <2>1, <2>2
  <1>7. Cardinality(Taken') <= ManagerCapacity
    <2> HIDE DEF Taken
    <2>1. ASSUME NEW p \in Proc, NEW id \in Id, StartRead(p, id) \/ StartLogout(p, id)
          PROVE  Cardinality(Taken') <= ManagerCapacity
      BY <1>0, <1>2, <1>3, <1>5, <2>1 DEF StartRead, StartLogout
    <2>2. ASSUME NEW p \in Proc, NEW i \in Issuance, StartInstall(p, i) \/ StartCancel(p, i)
          PROVE  Cardinality(Taken') <= ManagerCapacity
      BY <1>0, <1>2, <1>3, <1>5, <2>2 DEF StartInstall, StartCancel
    <2>3. ASSUME NEW p \in Proc, NEW current \in BOOLEAN, EndInstall(p, current)
          PROVE  Cardinality(Taken') <= ManagerCapacity
      BY <1>0, <1>2, <1>4, <2>3 DEF EndInstall, InstallEnded, JobsNamed, Running, Holds
    <2>4. ASSUME NEW p \in Proc, BeginLogoutCall(p) \/ EndLogout(p)
          PROVE  Cardinality(Taken') <= ManagerCapacity
      BY <1>0, <1>2, <1>4, <1>5, <2>4 DEF BeginLogoutCall, EndLogout, JobsNamed, Running, Holds
    <2>5. CASE \/ UNCHANGED mobileVars
               \/ \E i \in Issuance : UbidIssue(i)
               \/ \E c \in Issuance \cup Id : UbidRevoke(c)
               \/ \E id \in Id : OAuthCreate(id)
               \/ \E p \in Proc : Serve(p) \/ Drop(p) \/ EndRead(p) \/ BeginInstall(p) \/ EndCancel(p)
               \/ MobileTick
      BY <1>2, <1>5, <2>5 DEF mobileVars, managerVars, UbidIssue, UbidRevoke, OAuthCreate, Serve,
                              Drop, EndRead, BeginInstall, EndCancel, MobileTick
    <2>6. QED
      BY <2>1, <2>2, <2>3, <2>4, <2>5 DEF MobileNext, Step
  <1>8. QED
    BY <1>6, <1>7 DEF ManagerBounded

\* id was created for credential i.
Mine(id, i) ==
    /\ id \in Id /\ Used(id) /\ record[id].kind = MobileV1
    /\ i \in Issuance /\ record[id].issuance = i

AliasOwned == \A i \in Issuance : aliases[i] # NoId => Mine(aliases[i], i)

\* An alias names a session created for its credential.
LEMMA AliasStep ==
  ASSUME Base, AliasOwned, [MobileNext]_mobileVars
  PROVE  AliasOwned'
  <1>1. /\ Base /\ AliasOwned /\ aliases \in [Issuance -> Id \cup {NoId}]
        /\ record \in [Id -> Record \cup {NoRecord}]
    BY DEF Base, MobileTypeOK, StoreTypeOK
  <1>2. \A id, i : Mine(id, i) => Mine(id, i)'
    <2> SUFFICES ASSUME NEW id, NEW i, Mine(id, i)
                 PROVE  Mine(id, i)'
      OBVIOUS
    <2>1. id \in Id /\ Used(id)
      BY DEF Mine
    <2>2. record'[id] = record[id]
      BY <1>1, <2>1, Monotone
    <2>3. QED
      BY <2>2 DEF Mine, Used
  <1>3. CASE UNCHANGED aliases
    BY <1>1, <1>2, <1>3 DEF AliasOwned
  <1>4. CASE aliases' = SweptAliases
    BY <1>1, <1>2, <1>4 DEF AliasOwned, SweptAliases
  <1>5. ASSUME NEW p \in Proc, NEW current \in BOOLEAN, EndInstall(p, current)
        PROVE  AliasOwned'
    <2>1. job[p].iss \in Issuance
      BY <1>1, <1>5 DEF Base, JobsNamed, EndInstall, InstallEnded
    <2>2. ASSUME NEW id \in Id, InstallNew(p, current, id)
          PROVE  AliasOwned'
      <3>1. /\ record'[id] = MobileRecord(job[p].iss)
            /\ aliases' = [aliases EXCEPT ![job[p].iss] = id]
        BY <1>1, <2>2 DEF InstallNew, Create
      <3>2. PICK k \in Issuance : k = job[p].iss
        BY <2>1
      <3>3. Mine(id, k)'
        BY <3>1, <3>2 DEF Mine, Used, MobileRecord, NoRecord, MobileV1
      <3>4. aliases'[k] = id /\ \A i \in Issuance : i # k => aliases'[i] = aliases[i]
        BY <1>1, <3>1, <3>2
      <3>5. ASSUME NEW i \in Issuance, NEW j, j = aliases'[i], j # NoId
            PROVE  Mine(j, i)'
        <4>1. CASE i = k
          BY <3>3, <3>4, <3>5, <4>1
        <4>2. CASE i # k
          <5>1. j = aliases[i]
            BY <3>4, <3>5, <4>2
          <5>2. Mine(j, i)
            BY <1>1, <3>5, <5>1 DEF AliasOwned
          <5>3. QED
            BY <1>2, <5>2
        <4>3. QED
          BY <4>1, <4>2
      <3>6. QED
        BY <3>5 DEF AliasOwned, Mine, Used
    <2>3. CASE InstallAlias(p, current) \/ InstallRefused(p, current)
      BY <1>3, <2>3 DEF InstallAlias, InstallRefused
    <2>4. QED
      BY <1>5, <2>2, <2>3 DEF EndInstall, InstallEnded
  <1>6. QED
    BY <1>3, <1>4, <1>5, ZenonT(40) DEF MobileNext, Step, mobileVars, managerVars, UbidIssue, UbidRevoke,
       OAuthCreate, StartRead, StartLogout, StartInstall, StartCancel, Serve, Drop, EndRead,
       BeginInstall, BeginLogoutCall, EndLogout, EndCancel, MobileTick, Sweep

\* A mobile session has the dates of the receipt of its credential, a denial
\* outlives it, and its slot goes before its time only when a logout was
\* confirmed by UBID.
Traced ==
    \A id \in Id : Used(id) =>
        /\ record[id].kind \in {Desktop, MobileV1}
        /\ ~Mobile(id) => record[id].issuance = NoIssuance
        /\ Mobile(id) =>
              LET r == receipt[record[id].issuance] IN
              /\ r # NoReceipt /\ record[id].expiresAt = r.to
              /\ r.to <= clock + MobileLife
              /\ Denied(id) => logout[id].until >= r.to
              /\ id \in slots \/ r.to <= clock
                    \/ (Denied(id) /\ record[id].issuance \in revoked)

\* A slot goes when its deadline has come or its logout is confirmed.
LEMMA SlotGone ==
  ASSUME Base, Acknowledged, ConfirmedIsRevoked, [MobileNext]_mobileVars,
         NEW id \in slots, id \notin slots'
  PROVE  ~(Deadline(id) > clock) \/ (Denied(id) /\ Credential(id) \in revoked)
  <1> USE DEF Base
  <1>1. CASE id \notin Swept
    BY <1>1 DEF Swept
  <1>2. CASE id \notin SweptSlots
    BY <1>1, <1>2 DEF SweptSlots, LiveCancellations, MobileUsed, Deadline
  <1>3. ASSUME id \in Swept, id \in SweptSlots
        PROVE  Denied(id) /\ Credential(id) \in revoked
    <2>1. ASSUME NEW p \in Proc, BeginLogoutCall(p) \/ EndLogout(p)
          PROVE  Denied(id) /\ Credential(id) \in revoked
      <3>1. job[p].op = "logout" /\ Denied(job[p].id) /\ job[p].id \in Id
        BY <2>1 DEF BeginLogoutCall, EndLogout, JobsNamed
      <3>2. /\ logout[job[p].id].confirmed \/ job[p].ok
            /\ slots' = slots \/ FreeSlot(job[p].id)
        BY <2>1 DEF BeginLogoutCall, EndLogout
      <3>3. id = job[p].id
        BY <1>3, <3>2 DEF FreeSlot
      <3>4. QED
        BY <3>1, <3>2, <3>3 DEF Acknowledged, ConfirmedIsRevoked
    <2>2. ASSUME NEW p \in Proc, NEW current \in BOOLEAN, EndInstall(p, current)
          PROVE  FALSE
      BY <1>3, <2>2 DEF EndInstall, InstallEnded, InstallAlias, InstallNew, InstallRefused, Create
    <2>3. CASE \/ UNCHANGED slots
               \/ \E new \in Id : OAuthCreate(new)
               \/ \E p \in Proc, new \in Id : StartRead(p, new) \/ StartLogout(p, new)
               \/ \E p \in Proc : EndRead(p) \/ BeginInstall(p)
      BY <1>3, <2>3 DEF OAuthCreate, Create, StartRead, StartLogout, EndRead, BeginInstall, Sweep
    <2>4. CASE \/ UNCHANGED mobileVars
               \/ \E i \in Issuance : UbidIssue(i)
               \/ \E c \in Issuance \cup Id : UbidRevoke(c)
               \/ \E p \in Proc, i \in Issuance : StartInstall(p, i) \/ StartCancel(p, i)
               \/ \E p \in Proc : Serve(p) \/ Drop(p) \/ EndCancel(p)
               \/ MobileTick
      BY <2>3, <2>4 DEF mobileVars, storeVars, UbidIssue, UbidRevoke, StartInstall, StartCancel,
                        Serve, Drop, EndCancel, MobileTick, Tick
    <2>5. QED
      BY <2>1, <2>2, <2>3, <2>4 DEF MobileNext, Step
  <1>4. QED
    BY <1>1, <1>2, <1>3

\* What a step does to a session that exists: its record stays, it is denied by
\* a logout that begins, and a receipt is issued once.
LEMMA SessionFate ==
  ASSUME Base, [MobileNext]_mobileVars, NEW id \in Id, Used(id)
  PROVE  /\ record'[id] = record[id]
         /\ clock' \in {clock, clock + 1}
         /\ \A i \in Issuance : receipt[i] # NoReceipt => receipt'[i] = receipt[i]
         /\ revoked \subseteq revoked'
         /\ Denied(id) => Denied(id)' /\ logout'[id].until = logout[id].until
         /\ ~Denied(id) /\ Denied(id)' => logout'[id] = NewLogout(id)
  <1> USE DEF Base
  <1>1. record'[id] = record[id] /\ revoked \subseteq revoked'
        /\ (Denied(id) => Denied(id)' /\ logout'[id].until = logout[id].until)
    BY Monotone, CredentialFixed
  <1>2. clock' \in {clock, clock + 1}
    BY ZenonT(60) DEF MobileNext, Step, mobileVars, storeVars, UbidIssue, UbidRevoke, OAuthCreate, Create,
           StartRead, StartLogout, StartInstall, StartCancel, Serve, Drop, EndRead, BeginInstall,
           EndInstall, InstallEnded, InstallAlias, InstallNew, InstallRefused, BeginLogoutCall, EndLogout,
           EndCancel, MobileTick, Tick
  <1>3. \A i \in Issuance : receipt[i] # NoReceipt => receipt'[i] = receipt[i]
    <2>1. UNCHANGED receipt \/ \E i \in Issuance : UbidIssue(i)
      BY ZenonT(60) DEF MobileNext, Step, mobileVars, ubidVars, UbidRevoke, OAuthCreate, StartRead,
             StartLogout, StartInstall, StartCancel, Serve, Drop, EndRead, BeginInstall,
             EndInstall, InstallEnded, BeginLogoutCall, EndLogout, EndCancel, MobileTick
    <2>2. QED
      BY <2>1 DEF UbidIssue, MobileTypeOK
  <1>4. ASSUME ~Denied(id), Denied(id)'
        PROVE  logout'[id] = NewLogout(id)
    <2>0. logout \in [Id -> Logout \cup {NoLogout}]
      BY DEF MobileTypeOK, StoreTypeOK
    <2>1. \/ UNCHANGED logout \/ \E p \in Proc : EndLogout(p)
          \/ \E p \in Proc, new \in Id : StartLogout(p, new)
      BY ZenonT(60) DEF MobileNext, Step, mobileVars, storeVars, UbidIssue, UbidRevoke, OAuthCreate, Create,
             StartRead, StartInstall, StartCancel, Serve, Drop, EndRead, BeginInstall, EndInstall,
             InstallEnded, InstallAlias, InstallNew, InstallRefused, BeginLogoutCall, EndCancel,
             MobileTick, Tick
    <2>2. ASSUME NEW p \in Proc, EndLogout(p)
          PROVE  FALSE
      <3>1. job[p].id \in Id /\ Denied(job[p].id)
        BY <2>2 DEF EndLogout, JobsNamed
      <3>2. \A other \in Id : other # job[p].id => logout'[other] = logout[other]
        BY <2>0, <2>2 DEF EndLogout
      <3>3. QED
        BY <1>4, <3>1, <3>2 DEF Denied
    <2>3. ASSUME NEW p \in Proc, NEW new \in Id, StartLogout(p, new)
          PROVE  logout'[id] = NewLogout(id)
      <3>1. \/ UNCHANGED logout
            \/ logout' = [logout EXCEPT ![new] = NewLogout(new)]
        BY <2>3 DEF StartLogout
      <3>2. QED
        BY <1>4, <2>0, <3>1 DEF Denied
    <2>4. QED
      BY <1>4, <2>1, <2>2, <2>3 DEF Denied
  <1>5. QED
    BY <1>1, <1>2, <1>3, <1>4

\* A session that begins: a desktop session or one of a receipt in its dates.
LEMMA SessionBegins ==
  ASSUME Base, [MobileNext]_mobileVars, NEW id \in Id, ~Used(id), Used(id)'
  PROVE  /\ id \in slots' /\ ~Denied(id)' /\ UNCHANGED <<clock, logout, receipt>>
         /\ record'[id].expiresAt \in Nat /\ record'[id].expiresAt > clock
         /\ \/ record'[id].kind = Desktop /\ record'[id].issuance = NoIssuance
            \/ \E i \in Issuance : /\ record'[id] = MobileRecord(i) /\ receipt[i] # NoReceipt
                                   /\ receipt[i] \in Receipt
                                   /\ receipt[i].to <= clock + MobileLife
  <1> USE DEF Base
  <1>0. /\ record \in [Id -> Record \cup {NoRecord}] /\ clock \in Nat
        /\ receipt \in [Issuance -> Receipt \cup {NoReceipt}] /\ ~Denied(id)
    BY DEF MobileTypeOK, StoreTypeOK, MobileUsed
  <1>1. ASSUME UNCHANGED record
        PROVE  FALSE
    BY <1>1 DEF Used
  <1>2. \/ \E new \in Id : OAuthCreate(new)
        \/ \E p \in Proc, current \in BOOLEAN : EndInstall(p, current)
    BY <1>1, ZenonT(60) DEF MobileNext, Step, mobileVars, storeVars, UbidIssue, UbidRevoke,
             StartRead, StartLogout, StartInstall, StartCancel, Serve, Drop, EndRead, BeginInstall,
             BeginLogoutCall, EndLogout, EndCancel, MobileTick, Tick
  <1>3. ASSUME NEW new \in Id, NEW rec, Create(new, rec)
        PROVE  /\ id = new /\ record'[id] = rec /\ id \in slots' /\ ~Denied(id)'
               /\ UNCHANGED <<clock, logout>> /\ ValidDates(rec)
    <2>1. id = new
      BY <1>0, <1>1, <1>3 DEF Create, Used
    <2>2. QED
      BY <1>0, <1>3, <2>1 DEF Create, Denied
  <1>4. ASSUME NEW new \in Id, OAuthCreate(new)
        PROVE  /\ id \in slots' /\ ~Denied(id)' /\ UNCHANGED <<clock, logout, receipt>>
               /\ record'[id].expiresAt \in Nat /\ record'[id].expiresAt > clock
               /\ record'[id].kind = Desktop /\ record'[id].issuance = NoIssuance
    <2> DEFINE rec == [kind |-> Desktop, issuance |-> NoIssuance, issuedAt |-> clock,
                       expiresAt |-> clock + SessionTtl]
    <2>1. Create(new, rec) /\ UNCHANGED receipt
      BY <1>4 DEF OAuthCreate, ubidVars
    <2>2. rec.expiresAt \in Nat /\ rec.expiresAt > clock /\ rec.kind = Desktop
          /\ rec.issuance = NoIssuance
      BY <1>0, StoreAssumption
    <2> HIDE DEF rec
    <2>3. QED
      BY <1>3, <2>1, <2>2
  <1>5. ASSUME NEW p \in Proc, NEW current \in BOOLEAN, EndInstall(p, current)
        PROVE  /\ id \in slots' /\ ~Denied(id)' /\ UNCHANGED <<clock, logout, receipt>>
               /\ record'[id].expiresAt \in Nat /\ record'[id].expiresAt > clock
               /\ \E i \in Issuance : /\ record'[id] = MobileRecord(i) /\ receipt[i] # NoReceipt
                                      /\ receipt[i] \in Receipt
                                      /\ receipt[i].to <= clock + MobileLife
    <2>1. UNCHANGED receipt /\ job[p].iss \in Issuance
      BY <1>5 DEF EndInstall, InstallEnded, ubidVars, JobsNamed
    <2>2. PICK i \in Issuance : i = job[p].iss
      BY <2>1
    <2>3. PICK new \in Id : InstallNew(p, current, new)
      BY <1>1, <1>5 DEF EndInstall, InstallEnded, InstallAlias, InstallRefused
    <2>4. Create(new, MobileRecord(i)) /\ receipt[i].from <= clock /\ receipt[i].to - clock >= 1
      BY <2>2, <2>3 DEF InstallNew, Installable
    <2>5. receipt[i] \in Receipt /\ receipt[i] # NoReceipt
      <3>1. NoReceipt.to - clock >= 1 => FALSE
        BY <1>0 DEF NoReceipt
      <3>2. QED
        BY <1>0, <2>4, <3>1
    <2>6. /\ record'[id] = MobileRecord(i) /\ id \in slots' /\ ~Denied(id)'
          /\ UNCHANGED <<clock, logout>> /\ ValidDates(MobileRecord(i))
      BY <1>3, <2>4
    <2>7. receipt[i].from \in Nat /\ receipt[i].to \in Nat
      BY <2>5 DEF Receipt
    <2>8. receipt[i].to <= clock + MobileLife /\ receipt[i].to > clock
      <3>1. /\ MobileRecord(i).kind # Desktop /\ MobileRecord(i).issuedAt = receipt[i].from
            /\ MobileRecord(i).expiresAt = receipt[i].to
        BY DEF MobileRecord, MobileV1, Desktop
      <3>2. receipt[i].from <= clock /\ receipt[i].to - receipt[i].from <= MobileLife
        BY <2>4, <2>6, <3>1 DEF ValidDates
      <3>3. QED
        BY <1>0, <2>4, <2>7, <3>2, StoreAssumption
    <2>9. QED
      BY <2>1, <2>5, <2>6, <2>7, <2>8 DEF MobileRecord
  <1>6. QED
    BY <1>2, <1>4, <1>5

\* Every step keeps the sessions traced to their receipts.
LEMMA TracedStep ==
  ASSUME Base, Traced, Acknowledged, ConfirmedIsRevoked, [MobileNext]_mobileVars
  PROVE  Traced'
  <1> USE DEF Base
  <1>0. /\ record \in [Id -> Record \cup {NoRecord}] /\ clock \in Nat
        /\ receipt \in [Issuance -> Receipt \cup {NoReceipt}]
        /\ logout \in [Id -> Logout \cup {NoLogout}]
        /\ \A id \in Id : Mobile(id) => record[id].issuance \in Issuance
    BY DEF MobileTypeOK, StoreTypeOK, MobileUsed
  <1>1. ASSUME NEW id \in Id, Used(id), NEW i \in Issuance, Mobile(id), i = record[id].issuance
        PROVE  /\ receipt'[i] # NoReceipt /\ record[id].expiresAt = receipt'[i].to
               /\ receipt'[i].to <= clock' + MobileLife
               /\ Denied(id)' => logout'[id].until >= receipt'[i].to
               /\ id \in slots' \/ receipt'[i].to <= clock'
                    \/ (Denied(id)' /\ i \in revoked')
    <2>1. /\ receipt[i] # NoReceipt /\ record[id].expiresAt = receipt[i].to
          /\ receipt[i].to <= clock + MobileLife
          /\ Denied(id) => logout[id].until >= receipt[i].to
          /\ id \in slots \/ receipt[i].to <= clock \/ (Denied(id) /\ i \in revoked)
          /\ record[id].kind \in {Desktop, MobileV1}
      BY <1>1 DEF Traced
    <2>2. /\ receipt'[i] = receipt[i] /\ clock' \in {clock, clock + 1} /\ revoked \subseteq revoked'
          /\ Denied(id) => Denied(id)' /\ logout'[id].until = logout[id].until
          /\ ~Denied(id) /\ Denied(id)' => logout'[id] = NewLogout(id)
      BY <1>1, <2>1, SessionFate
    <2>3. receipt[i].to \in Nat
      BY <1>0, <2>1 DEF Receipt
    <2>4. receipt'[i].to <= clock' + MobileLife
      BY <1>0, <2>1, <2>2, <2>3, StoreAssumption
    <2>5. Denied(id)' => logout'[id].until >= receipt'[i].to
      <3>1. NewLogout(id).until = clock + Retention
        BY <2>1 DEF NewLogout, Desktop, MobileV1, MobileV2
      <3>2. clock + Retention >= receipt[i].to
        BY <1>0, <2>1, <2>3, StoreAssumption, RetentionAssumption
      <3>3. QED
        BY <2>1, <2>2, <3>1, <3>2
    <2>6. id \in slots' \/ receipt'[i].to <= clock' \/ (Denied(id)' /\ i \in revoked')
      <3>1. CASE receipt[i].to <= clock \/ (Denied(id) /\ i \in revoked)
        BY <1>0, <2>2, <2>3, <3>1
      <3>2. CASE id \in slots /\ id \notin slots'
        <4>1. Credential(id) = i
          BY <1>1 DEF Credential
        <4>2. CASE Denied(id) /\ i \in revoked
          BY <3>1, <4>2
        <4>3. CASE ~(Deadline(id) > clock)
          <5>1. CASE Denied(id)
            <6>1. logout[id].until \in Nat /\ Deadline(id) = logout[id].until
              BY <1>0, <5>1 DEF Deadline, Denied, Logout
            <6>2. QED
              BY <1>0, <2>1, <2>2, <2>3, <4>3, <5>1, <6>1
          <5>2. CASE ~Denied(id)
            <6>1. Deadline(id) = receipt[i].to + Retention
              BY <1>1, <2>1, <5>2 DEF Deadline
            <6>2. QED
              BY <1>0, <2>2, <2>3, <4>3, <6>1, StoreAssumption
          <5>3. QED
            BY <5>1, <5>2
        <4>4. QED
          BY <3>2, <4>1, <4>2, <4>3, SlotGone
      <3>3. QED
        BY <2>1, <3>1, <3>2
    <2>7. QED
      BY <2>1, <2>2, <2>4, <2>5, <2>6
  <1>2. SUFFICES ASSUME NEW id \in Id, Used(id)'
                 PROVE  /\ record'[id].kind \in {Desktop, MobileV1}
                        /\ ~Mobile(id)' => record'[id].issuance = NoIssuance
                        /\ Mobile(id)' =>
                              LET r == receipt'[record'[id].issuance] IN
                              /\ r # NoReceipt /\ record'[id].expiresAt = r.to
                              /\ r.to <= clock' + MobileLife
                              /\ Denied(id)' => logout'[id].until >= r.to
                              /\ id \in slots' \/ r.to <= clock'
                                    \/ (Denied(id)' /\ record'[id].issuance \in revoked')
    BY DEF Traced
  <1>3. CASE Used(id)
    <2>1. record'[id] = record[id] /\ (Mobile(id)' <=> Mobile(id))
      BY <1>3, SessionFate DEF Mobile
    <2>2. /\ record[id].kind \in {Desktop, MobileV1}
          /\ ~Mobile(id) => record[id].issuance = NoIssuance
      BY <1>3 DEF Traced
    <2>3. QED
      BY <1>0, <1>1, <1>3, <2>1, <2>2
  <1>4. CASE ~Used(id)
    <2>1. /\ id \in slots' /\ ~Denied(id)' /\ UNCHANGED <<clock, logout, receipt>>
          /\ \/ record'[id].kind = Desktop /\ record'[id].issuance = NoIssuance
             \/ \E i \in Issuance : /\ record'[id] = MobileRecord(i) /\ receipt[i] # NoReceipt
                                    /\ receipt[i] \in Receipt
                                    /\ receipt[i].to <= clock + MobileLife
      BY <1>2, <1>4, SessionBegins
    <2>2. CASE record'[id].kind = Desktop /\ record'[id].issuance = NoIssuance
      BY <2>2 DEF Mobile, Desktop, MobileV1, MobileV2
    <2>3. ASSUME NEW i \in Issuance, record'[id] = MobileRecord(i), receipt[i] # NoReceipt,
                 receipt[i].to <= clock + MobileLife
          PROVE  /\ record'[id].kind = MobileV1 /\ record'[id].issuance = i
                 /\ record'[id].expiresAt = receipt[i].to /\ Mobile(id)'
      BY <2>3 DEF MobileRecord, Mobile
    <2>4. QED
      BY <2>1, <2>2, <2>3
  <1>5. QED
    BY <1>3, <1>4

\* An acknowledged cancellation has revoked its credential at UBID.
CancelKnown ==
    \A p \in Proc : job[p].op = "cancel" /\ job[p].ok => job[p].iss \in revoked

\* Nothing but the service of a cancellation acknowledges it.
LEMMA CancelKnownStep ==
  ASSUME Base, Running, CancelKnown, [MobileNext]_mobileVars
  PROVE  CancelKnown'
  <1> USE DEF Base
  <1>0. job \in [Proc -> Job] /\ revoked \subseteq revoked'
    <2>1. revoked \subseteq revoked'
      BY ZenonT(60) DEF MobileNext, Step, mobileVars, UbidIssue, UbidRevoke, OAuthCreate, StartRead,
             StartLogout, StartInstall, StartCancel, Serve, Drop, EndRead, BeginInstall,
             EndInstall, InstallEnded, BeginLogoutCall, EndLogout, EndCancel, MobileTick, ubidVars
    <2>2. QED
      BY <2>1 DEF MobileTypeOK
  <1> SUFFICES ASSUME NEW q \in Proc, NEW new, new = job'[q], new.op = "cancel", new.ok
               PROVE  new.iss \in revoked'
    BY DEF CancelKnown
  <1>1. CASE new = job[q]
    BY <1>0, <1>1 DEF CancelKnown
  <1>2. CASE \/ \E id \in Id : StartRead(q, id) \/ StartLogout(q, id)
             \/ \E i \in Issuance : StartInstall(q, i) \/ StartCancel(q, i)
    <2>1. ~new.ok
      BY <1>0, <1>2 DEF StartRead, StartLogout, StartInstall, StartCancel, Start
    <2>2. QED
      BY <2>1
  <1>3. CASE Serve(q)
    <2>1. CASE job[q].op \in {"read", "install"}
      BY <1>0, <1>3, <2>1 DEF Serve, Answer, Job
    <2>2. CASE job[q].op \in {"logout", "cancel"}
      <3>1. new.op = job[q].op /\ new.iss = job[q].iss
        BY <1>0, <1>3, <2>2 DEF Serve, Answer, Job
      <3>2. QED
        BY <1>3, <3>1 DEF Serve
    <2>3. QED
      BY <1>3, <2>1, <2>2 DEF Serve
  <1>4. CASE Drop(q)
    <2>1. ~new.ok
      BY <1>0, <1>4 DEF Drop, Answer, Job
    <2>2. QED
      BY <2>1
  <1>5. CASE EndCancel(q)
    <2>1. job[q].op = "cancel" /\ new.iss = job[q].iss /\ new.ok = job[q].ok
      BY <1>0, <1>5 DEF EndCancel, Finish, Job
    <2>2. QED
      BY <1>0, <2>1 DEF CancelKnown
  <1>6. CASE \/ EndRead(q) \/ EndLogout(q) \/ BeginLogoutCall(q) \/ BeginInstall(q)
             \/ \E current \in BOOLEAN : EndInstall(q, current)
    <2>1. job[q].op # "cancel"
      BY <1>6 DEF EndRead, EndLogout, BeginLogoutCall, BeginInstall, EndInstall, InstallEnded
    <2>2. ASSUME NEW r, Finish(q, r)
          PROVE  new.op = job[q].op
      BY <1>0, <2>2 DEF Finish, Job
    <2>3. Call(q) => new.op = job[q].op
      BY <1>0 DEF Call, Job
    <2>4. ASSUME NEW id, Installed(q, id)
          PROVE  new.op = job[q].op
      BY <1>0, <2>4 DEF Installed, Job
    <2>5. ASSUME NEW current \in BOOLEAN, EndInstall(q, current)
          PROVE  \E id, r : Installed(q, id) \/ Finish(q, r)
      BY <2>5 DEF EndInstall, InstallEnded, InstallAlias, InstallNew, InstallRefused
    <2>6. CASE EndRead(q) \/ EndLogout(q) \/ BeginLogoutCall(q) \/ BeginInstall(q)
      BY <2>1, <2>2, <2>3, <2>6 DEF EndRead, EndLogout, BeginLogoutCall, BeginInstall
    <2>7. QED
      BY <1>6, <2>1, <2>2, <2>4, <2>5, <2>6
  <1>7. CASE \/ UNCHANGED mobileVars
             \/ \E i \in Issuance : UbidIssue(i)
             \/ \E c \in Issuance \cup Id : UbidRevoke(c)
             \/ \E id \in Id : OAuthCreate(id)
             \/ MobileTick
    BY <1>1, <1>7 DEF mobileVars, managerVars, UbidIssue, UbidRevoke, OAuthCreate, MobileTick
  <1>8. ASSUME NEW p \in Proc, p # q,
               \/ \E id \in Id : StartRead(p, id) \/ StartLogout(p, id)
               \/ \E i \in Issuance : StartInstall(p, i) \/ StartCancel(p, i)
               \/ Serve(p) \/ Drop(p) \/ Step(p)
        PROVE  new = job[q]
    BY <1>8, StepFrame
  <1>9. QED
    BY <1>1, <1>2, <1>3, <1>4, <1>5, <1>6, <1>7, <1>8 DEF MobileNext, Step

\* The inductive invariant of the manager.
MobileInv ==
    /\ Base /\ Running
    /\ OnePresentation /\ LogoutOut /\ RetryKept
    /\ Acknowledged /\ LateRead /\ ConfirmedIsRevoked
    /\ RevokeOnce /\ ManagerBounded
    /\ AliasOwned /\ Traced /\ CancelKnown

\* A process that has just started satisfies the invariant.
LEMMA MobileStart == MobileInit => MobileInv
  <1> SUFFICES ASSUME MobileInit
               PROVE  MobileInv
    OBVIOUS
  <1>1. NoJob \in Job
    BY DEF NoJob, Job, Ops, Replies
  <1>2. MobileTypeOK
    BY <1>1, ManagerAssumption DEF MobileInit, MobileTypeOK, StoreInit, StoreTypeOK
  <1>3. \A id \in Id : ~Used(id) /\ ~Denied(id) /\ ~Mobile(id)
    BY DEF MobileInit, StoreInit, Used, Denied, Mobile, NoRecord, MobileV1, MobileV2
  <1>4. \A p \in Proc : job[p].op = "none" /\ job[p].at = "done"
    BY DEF MobileInit, NoJob
  <1>5. MobileUsed /\ JobsNamed
    BY <1>3, <1>4 DEF MobileInit, StoreInit, NoJob, MobileUsed, JobsNamed
  <1>6. Running /\ LogoutOut /\ Acknowledged /\ LateRead /\ RevokeOnce
    BY <1>4 DEF Running, LogoutOut, Acknowledged, LateRead, RevokeOnce
  <1>7. OnePresentation /\ RetryKept /\ ConfirmedIsRevoked
    BY <1>3 DEF MobileInit, StoreInit, OnePresentation, RetryKept, ConfirmedIsRevoked
  <1>8. ManagerBounded
    <2>1. {k \in LockKey : locks[k] # <<>>} = {}
      BY DEF MobileInit
    <2>2. Cardinality({k \in LockKey : locks[k] # <<>>}) = 0 /\ Cardinality(cancellations) = 0
      BY <2>1, FS_EmptySet DEF MobileInit
    <2>3. QED
      BY <2>2, ManagerAssumption DEF ManagerBounded
  <1>9. AliasOwned /\ Traced /\ CancelKnown
    BY <1>3, <1>4 DEF MobileInit, AliasOwned, Traced, CancelKnown
  <1>10. QED
    BY <1>2, <1>5, <1>6, <1>7, <1>8, <1>9 DEF MobileInv, Base

\* The inductive invariant holds in every state of the manager.
LEMMA MobileInvariant == MobileSpec => []MobileInv
  <1>1. MobileInv /\ [MobileNext]_mobileVars => MobileInv'
    BY TypeStep, UsedStep, JobStep, PresentationStep, LogoutOutStep, RetryStep, AnswerStep,
       ConfirmedStep, RevokeOnceStep, BoundedStep, AliasStep, TracedStep, CancelKnownStep
       DEF MobileInv, Base
  <1>2. QED
    BY <1>1, MobileStart, PTL DEF MobileSpec

\* Every variable of the manager, of the store and of UBID keeps its type.
THEOREM MobileTypeCorrect == MobileSpec => []MobileTypeOK
  <1>1. MobileInv => MobileTypeOK
    BY DEF MobileInv, Base
  <1>2. QED
    BY <1>1, MobileInvariant, PTL

\* One local presentation per issuance, however many completions, logouts and
\* reads are in flight.
THEOREM MobileOnePresentation == MobileSpec => []OnePresentation
  <1>1. MobileInv => OnePresentation
    BY DEF MobileInv
  <1>2. QED
    BY <1>1, MobileInvariant, PTL

\* A logout request denies its session whatever room the retry map and the locks
\* have and whatever UBID answers.
THEOREM MobileLogoutDenies == MobileSpec => []LogoutDenies
  <1>1. MobileInv => LogoutDenies
    BY DEF MobileInv, LogoutOut, LogoutDenies, Authentic, Swept, Denied
  <1>2. QED
    BY <1>1, MobileInvariant, PTL

\* The retry map or the slot keeps the credential of a logout to its deadline.
THEOREM MobileRetryKept == MobileSpec => []RetryKept
  <1>1. MobileInv => RetryKept
    BY DEF MobileInv
  <1>2. QED
    BY <1>1, MobileInvariant, PTL

\* A confirmed logout is a revocation UBID executed.
THEOREM MobileConfirmedIsRevoked == MobileSpec => []ConfirmedIsRevoked
  <1>1. MobileInv => ConfirmedIsRevoked
    BY DEF MobileInv
  <1>2. QED
    BY <1>1, MobileInvariant, PTL

\* A confirmed logout is not sent to UBID again by a request that waited.
THEOREM MobileRevokeOnce == MobileSpec => []RevokeOnce
  <1>1. MobileInv => RevokeOnce
    BY DEF MobileInv
  <1>2. QED
    BY <1>1, MobileInvariant, PTL

\* The retry map and the lock map never outgrow the capacity of the manager.
THEOREM MobileManagerBounded == MobileSpec => []ManagerBounded
  <1>1. MobileInv => ManagerBounded
    BY DEF MobileInv
  <1>2. QED
    BY <1>1, MobileInvariant, PTL

\* A read begun after the revocation never authenticates a mobile session.
THEOREM MobileFreshAuthority == MobileSpec => []FreshAuthority
  <1>1. MobileInv => FreshAuthority
    BY DEF MobileInv, LateRead, FreshAuthority
  <1>2. QED
    BY <1>1, MobileInvariant, PTL

\* A session id read() may no longer present is never presented again, through
\* every interleaving of installs, reads, logouts and sweeps.
THEOREM MobileNoResurrection == MobileSpec => NoResurrection
  <1>1. MobileInv /\ [MobileNext]_mobileVars =>
          [\A id \in Id : Used(id) /\ ~Authentic(id) => ~Authentic(id)']_storeVars
    <2> SUFFICES ASSUME MobileInv, [MobileNext]_mobileVars, NEW id \in Id, Used(id), Authentic(id)'
                 PROVE  Authentic(id)
      BY DEF storeVars
    <2>0. Base
      BY DEF MobileInv
    <2>1. record'[id] = record[id] /\ (Denied(id) => Denied(id)')
      BY <2>0, Monotone
    <2>2. record[id] \in Record /\ clock \in Nat
      BY <2>0 DEF Base, MobileTypeOK, StoreTypeOK, Used
    <2>3. record[id].expiresAt \in Nat
      BY <2>2 DEF Record
    <2>4. clock' \in {clock, clock + 1}
      BY ZenonT(60) DEF MobileNext, Step, mobileVars, storeVars, UbidIssue, UbidRevoke, OAuthCreate, Create,
             StartRead, StartLogout, StartInstall, StartCancel, Serve, Drop, EndRead, BeginInstall,
             EndInstall, InstallEnded, InstallAlias, InstallNew, InstallRefused, BeginLogoutCall, EndLogout,
             EndCancel, MobileTick, Tick
    <2>5. ~Denied(id) /\ id \in slots' /\ record[id].expiresAt > clock'
      BY <2>1 DEF Authentic, Swept
    <2>6. id \in slots
      <3>1. SweptSlots \subseteq slots /\ slots \subseteq Id
        BY <2>0, SweepShrinks DEF Base, MobileTypeOK, StoreTypeOK
      <3>2. ASSUME NEW new \in Id, NEW rec, Create(new, rec)
            PROVE  id \in slots
        BY <2>5, <3>2 DEF Create, Swept
      <3>3. QED
        BY <2>0, <2>5, <3>1, <3>2, SlotsStep
    <2>7. record[id].expiresAt > clock
      BY <2>2, <2>3, <2>4, <2>5
    <2>8. Deadline(id) > clock
      <3>1. Deadline(id) = record[id].expiresAt \/ Deadline(id) = record[id].expiresAt + Retention
        BY <2>3, <2>5 DEF Deadline
      <3>2. QED
        BY <3>1, <2>2, <2>3, <2>7, StoreAssumption
    <2>9. QED
      BY <2>5, <2>6, <2>7, <2>8 DEF Authentic, Swept
  <1>2. QED
    BY <1>1, MobileInvariant, PTL DEF MobileSpec, NoResurrection

\* read() answers with a session only while that session is presented.
THEOREM MobileAuthenticatedNow == MobileSpec => AuthenticatedNow
  <1>1. MobileInv /\ [MobileNext]_mobileVars =>
          [\A p \in Proc :
              job'[p] # job[p] /\ job'[p].op = "read" /\ job'[p].reply = "authenticated"
              => Presented(job'[p].id)]_mobileVars
    <2> SUFFICES ASSUME MobileInv, [MobileNext]_mobileVars, NEW p \in Proc, job'[p] # job[p],
                        job'[p].op = "read", job'[p].reply = "authenticated"
                 PROVE  Presented(job'[p].id)
      BY DEF mobileVars
    <2>0. Base /\ Running /\ job \in [Proc -> Job]
      BY DEF MobileInv, Base, MobileTypeOK
    <2>1. ASSUME NEW id \in Id, StartRead(p, id)
          PROVE  Presented(job'[p].id)
      <3>1. job'[p].id = id /\ (job'[p].reply = "authenticated" => Presented(id))
        BY <2>0, <2>1 DEF StartRead, Start
      <3>2. QED
        BY <3>1
    <2>2. CASE EndRead(p)
      <3>1. /\ job'[p].id = job[p].id
            /\ job'[p].reply = IF job[p].ok /\ Presented(job[p].id) THEN "authenticated" ELSE "anonymous"
        BY <2>0, <2>2 DEF EndRead, Finish, Job
      <3>2. QED
        BY <3>1
    <2>3. CASE Serve(p) \/ Drop(p)
      <3>1. job'[p].reply = job[p].reply /\ job[p].at # "done"
        BY <2>0, <2>3 DEF Serve, Drop, Answer, Job
      <3>2. QED
        BY <2>0, <3>1 DEF Base, JobsNamed
    <2>4. ASSUME NEW id \in Id, StartLogout(p, id)
          PROVE  FALSE
      BY <2>0, <2>4 DEF StartLogout, Start
    <2>5. ASSUME NEW i \in Issuance, StartInstall(p, i) \/ StartCancel(p, i)
          PROVE  FALSE
      BY <2>0, <2>5 DEF StartInstall, StartCancel, Start
    <2>6. CASE \/ BeginInstall(p) \/ BeginLogoutCall(p) \/ EndLogout(p) \/ EndCancel(p)
               \/ \E current \in BOOLEAN : EndInstall(p, current)
      <3>1. job[p].op \in {"install", "logout", "cancel"} /\ job'[p].op = job[p].op
        BY <2>0, <2>6, ZenonT(60) DEF BeginInstall, BeginLogoutCall, EndLogout, EndCancel, EndInstall, InstallEnded,
              InstallAlias, InstallNew, InstallRefused, Call, Finish, Installed, Job
      <3>2. QED
        BY <3>1
    <2>7. CASE \/ UNCHANGED mobileVars
               \/ \E i \in Issuance : UbidIssue(i)
               \/ \E c \in Issuance \cup Id : UbidRevoke(c)
               \/ \E id \in Id : OAuthCreate(id)
               \/ MobileTick
      BY <2>7 DEF mobileVars, managerVars, UbidIssue, UbidRevoke, OAuthCreate, MobileTick
    <2>8. ASSUME NEW q \in Proc, q # p,
                 \/ \E id \in Id : StartRead(q, id) \/ StartLogout(q, id)
                 \/ \E i \in Issuance : StartInstall(q, i) \/ StartCancel(q, i)
                 \/ Serve(q) \/ Drop(q) \/ Step(q)
          PROVE  FALSE
      BY <2>0, <2>8, StepFrame
    <2>9. QED
      BY <2>1, <2>2, <2>3, <2>4, <2>5, <2>6, <2>7, <2>8 DEF MobileNext, Step
  <1>2. QED
    BY <1>1, MobileInvariant, PTL DEF MobileSpec, AuthenticatedNow

-----------------------------------------------------------------------------
(* What the state says of Presentation.                                    *)

View(j) == [op |-> j.op, id |-> j.id,
            iss |-> IF j.op \in {"install", "cancel"} THEN j.iss ELSE NoIssuance,
            late |-> j.late, reply |-> j.reply, open |-> j.at # "done"]

SessionIs(id) ==
    /\ Sessions[id] \in {"new", "denied", "presented", "ended"}
    /\ Sessions[id] = "new" <=> ~Used(id)
    /\ Sessions[id] = "denied" <=> Denied(id)
    /\ Sessions[id] = "presented" <=> Authentic(id)
    /\ Credentials[id] = record[id].issuance

\* The mapped session is what its slot says.
LEMMA SessionFacts ==
  ASSUME Base
  PROVE  \A id \in Id : SessionIs(id)
  BY DEF Base, MobileUsed, Sessions, Credentials, SessionIs, Authentic, Swept

\* The same after the step.
LEMMA SessionFactsNext ==
  ASSUME Base'
  PROVE  \A id \in Id : SessionIs(id)'
  BY DEF Base, MobileUsed, Sessions, Credentials, SessionIs, Authentic, Swept

\* The mapped functions are equal when they agree on every session.
LEMMA SessionsDomain ==
  /\ Sessions = [id \in Id |-> Sessions[id]] /\ Credentials = [id \in Id |-> Credentials[id]]
  /\ Sessions' = [id \in Id |-> Sessions'[id]]
  /\ Credentials' = [id \in Id |-> Credentials'[id]]
  BY DEF Sessions, Credentials

\* A slot that is kept, or that had nothing to present, changes no session.
LEMMA QuietSlots ==
  ASSUME Base, Base', UNCHANGED <<clock, record>>, slots' \subseteq slots,
         \A id \in slots : id \in slots' \/ ~Authentic(id),
         NEW id \in Id, Denied(id)' <=> Denied(id),
         Denied(id) => logout'[id].until = logout[id].until
  PROVE  Sessions'[id] = Sessions[id] /\ Credentials'[id] = Credentials[id]
  <1>1. SessionIs(id) /\ SessionIs(id)'
    BY SessionFacts, SessionFactsNext
  <1>2. Used(id)' <=> Used(id)
    BY DEF Used
  <1>3. Authentic(id)' <=> Authentic(id)
    <2>1. CASE Denied(id)
      BY <2>1 DEF Authentic
    <2>2. CASE ~Denied(id)
      BY <2>2 DEF Authentic, Swept, Deadline, Mobile
    <2>3. QED
      BY <2>1, <2>2
  <1>4. QED
    BY <1>1, <1>2, <1>3 DEF SessionIs

\* Nothing is denied and nothing that is presented loses its slot.
LEMMA QuietView ==
  ASSUME Base, Base', UNCHANGED <<clock, record>>, slots' \subseteq slots,
         \A id \in slots : id \in slots' \/ ~Authentic(id),
         \A id \in Id : /\ Denied(id)' <=> Denied(id)
                        /\ Denied(id) => logout'[id].until = logout[id].until
  PROVE  UNCHANGED <<Sessions, Credentials>>
  <1>1. \A id \in Id : Sessions'[id] = Sessions[id] /\ Credentials'[id] = Credentials[id]
    BY QuietSlots
  <1>2. QED
    BY <1>1, SessionsDomain

\* A sweep changes no session.
LEMMA SweepQuiet ==
  ASSUME Base, slots' \in {slots, Swept, SweptSlots}
  PROVE  slots' \subseteq slots /\ \A id \in slots : id \in slots' \/ ~Authentic(id)
  BY DEF Base, MobileUsed, SweptSlots, Authentic, Swept

\* A logout begins: Presentation sees the denial of one session at most.
LEMMA DenyView ==
  ASSUME Base, Base', NEW p \in Proc, NEW id \in Id, StartLogout(p, id)
  PROVE  /\ \/ Sessions' = [Sessions EXCEPT ![id] = "denied"]
            \/ Sessions[id] # "presented" /\ Sessions' = Sessions
         /\ Credentials' = Credentials
         /\ Denied(id) \/ id \notin slots => Sessions' = Sessions
  <1>0. /\ UNCHANGED <<clock, record>> /\ slots' = SweptSlots /\ Used(id)
        /\ logout \in [Id -> Logout \cup {NoLogout}] /\ slots \subseteq Id
    BY DEF StartLogout, Base, MobileTypeOK, StoreTypeOK
  <1>1. slots' \subseteq slots /\ \A other \in slots : other \in slots' \/ ~Authentic(other)
    BY <1>0, SweepQuiet
  <1>2. CASE LogoutKnown(id) /\ ~Denied(id)
    <2>1. logout' = [logout EXCEPT ![id] = NewLogout(id)]
      BY <1>2 DEF StartLogout
    <2>2. NewLogout(id) \in Logout /\ NoLogout \notin Logout
      BY <1>0, NewLogoutTyped, AbsentValues DEF Base
    <2>3. Denied(id)' /\ \A other \in Id : other # id => logout'[other] = logout[other]
      BY <1>0, <2>1, <2>2 DEF Denied
    <2>4. \A other \in Id : other # id =>
              Sessions'[other] = Sessions[other] /\ Credentials'[other] = Credentials[other]
      BY <1>0, <1>1, <2>3, QuietSlots DEF Denied
    <2>5. Sessions'[id] = "denied" /\ Credentials'[id] = Credentials[id]
      BY <1>0, <2>3, SessionFacts, SessionFactsNext DEF SessionIs
    <2>6. Sessions' = [Sessions EXCEPT ![id] = "denied"] /\ Credentials' = Credentials
      BY <2>4, <2>5, SessionsDomain
    <2>7. id \in slots
      BY <1>2, SweepShrinks DEF LogoutKnown, LiveCancellations, Base, MobileUsed
    <2>8. QED
      BY <1>2, <2>6, <2>7
  <1>3. CASE ~(LogoutKnown(id) /\ ~Denied(id))
    <2>1. logout' = logout
      BY <1>3 DEF StartLogout
    <2>2. UNCHANGED <<Sessions, Credentials>>
      BY <1>0, <1>1, <2>1, QuietView DEF Denied
    <2>3. ~Authentic(id)
      BY <1>1, <1>0, <1>3 DEF LogoutKnown, Authentic, Swept
    <2>4. Sessions[id] # "presented"
      BY <2>3, SessionFacts DEF SessionIs
    <2>5. QED
      BY <2>2, <2>4
  <1>4. QED
    BY <1>2, <1>3

\* Presentation sees the creation of one session.
LEMMA CreateView ==
  ASSUME Base, Base', [MobileNext]_mobileVars, NEW id \in Id, NEW rec, Create(id, rec),
         rec # NoRecord
  PROVE  /\ Sessions' = [Sessions EXCEPT ![id] = "presented"]
         /\ Credentials' = [Credentials EXCEPT ![id] = rec.issuance]
         /\ Sessions[id] = "new" /\ Credentials[id] = NoIssuance
  <1>0. /\ record \in [Id -> Record \cup {NoRecord}] /\ clock \in Nat /\ slots \subseteq Id
        /\ ~Used(id) /\ ~Denied(id)
    BY DEF Base, MobileTypeOK, StoreTypeOK, MobileUsed, Create
  <1>1. /\ record'[id] = rec /\ \A other \in Id : other # id => record'[other] = record[other]
        /\ slots' = Swept \cup {id} /\ UNCHANGED <<clock, logout>>
    BY <1>0 DEF Create
  <1>2. Used(id)' /\ ~Denied(id)'
    BY <1>0, <1>1 DEF Used, Denied
  <1>3. Authentic(id)'
    <2>1. rec.expiresAt \in Nat /\ rec.expiresAt > clock
      BY <1>0, <1>1, <1>2, SessionBegins
    <2>2. Deadline(id)' > clock
      BY <1>0, <1>1, <1>2, <2>1, StoreAssumption DEF Deadline
    <2>3. QED
      BY <1>1, <1>2, <2>1, <2>2 DEF Authentic, Swept
  <1>4. (\A other \in Id : SessionIs(other)) /\ (\A other \in Id : SessionIs(other)')
    BY SessionFacts, SessionFactsNext
  <1>5. ASSUME NEW other \in Id, other # id
        PROVE  Sessions'[other] = Sessions[other] /\ Credentials'[other] = Credentials[other]
    <2>1. /\ Used(other)' <=> Used(other)
          /\ Denied(other)' <=> Denied(other)
          /\ Authentic(other)' <=> Authentic(other)
      BY <1>1, <1>5 DEF Used, Denied, Authentic, Swept, Deadline, Mobile
    <2>2. QED
      BY <2>1, <1>1, <1>4, <1>5 DEF SessionIs
  <1>6. Sessions'[id] = "presented" /\ Credentials'[id] = rec.issuance
    BY <1>1, <1>3, <1>4 DEF SessionIs
  <1>7. Sessions[id] = "new" /\ Credentials[id] = NoIssuance
    BY <1>0, <1>4 DEF SessionIs, Used, NoRecord
  <1>8. QED
    BY <1>5, <1>6, <1>7, SessionsDomain

-----------------------------------------------------------------------------
(* What Presentation sees of the calls.                                    *)

\* The call of one request changes.
LEMMA CallsView ==
  ASSUME MobileTypeOK, NEW p \in Proc, NEW j \in Job, job' = [job EXCEPT ![p] = j]
  PROVE  /\ Calls' = [Calls EXCEPT ![p] = View(j)]
         /\ Calls[p] = View(job[p]) /\ Calls'[p] = View(j)
  <1>1. job' \in [Proc -> Job] /\ job'[p] = j /\ \A q \in Proc : q # p => job'[q] = job[q]
    BY DEF MobileTypeOK
  <1>2. /\ Calls = [q \in Proc |-> View(job[q])]
        /\ Calls' = [q \in Proc |-> View(job'[q])]
    BY DEF Calls, View
  <1> HIDE DEF View
  <1>3. QED
    BY <1>1, <1>2

\* The fields of a call as Presentation sees it.
LEMMA ViewFields ==
  ASSUME NEW j
  PROVE  /\ View(j).op = j.op /\ View(j).id = j.id /\ View(j).late = j.late
         /\ View(j).iss = (IF j.op \in {"install", "cancel"} THEN j.iss ELSE NoIssuance)
         /\ View(j).reply = j.reply /\ View(j).open = (j.at # "done")
  BY DEF View

\* The calls Presentation knows.
CallRecord ==
    [op : Ops, id : Id \cup {NoId}, iss : Issuance \cup {NoIssuance}, late : BOOLEAN,
     reply : Replies, open : BOOLEAN]

\* The view of a call is a record of them.
LEMMA ViewTyped ==
  ASSUME NEW j \in Job
  PROVE  View(j) \in CallRecord
  BY DEF View, Job, CallRecord

\* Two such records with equal fields are equal.
LEMMA CallsEqual ==
  ASSUME NEW r \in CallRecord, NEW s \in CallRecord, r.op = s.op, r.id = s.id,
         r.iss = s.iss, r.late = s.late, r.reply = s.reply, r.open = s.open
  PROVE  r = s
  BY DEF CallRecord

Implements == P!Next \/ UNCHANGED P!vars

\* A step that changes nothing Presentation knows.
LEMMA SilentStep ==
  ASSUME UNCHANGED <<Sessions, Credentials, revoked, Calls>>
  PROVE  Implements
  BY DEF Implements, P!vars

\* UBID revokes a credential.
LEMMA RevokeStep ==
  ASSUME UNCHANGED <<Sessions, Credentials, Calls>>, revoked \subseteq revoked'
  PROVE  Implements
  BY DEF Implements, P!Next, P!Revoke

\* A call moves without being answered.
LEMMA HiddenView ==
  ASSUME MobileTypeOK, NEW p \in Proc, job[p].at # "done",
         Call(p) \/ \E ok \in BOOLEAN : Answer(p, ok)
  PROVE  Calls' = Calls
  <1>1. PICK at \in {"calling", "answered"}, ok \in BOOLEAN :
           job' = [job EXCEPT ![p] = [job[p] EXCEPT !.at = at, !.ok = ok]]
    <2>1. job[p] \in Job
      BY DEF MobileTypeOK
    <2>2. [job[p] EXCEPT !.at = "calling"] = [job[p] EXCEPT !.at = "calling", !.ok = job[p].ok]
          /\ job[p].ok \in BOOLEAN
      BY <2>1 DEF Job
    <2>3. QED
      BY <2>2 DEF Call, Answer, MobileTypeOK
  <1> DEFINE j == [job[p] EXCEPT !.at = at, !.ok = ok]
  <1>2. /\ j \in Job /\ View(j).op = View(job[p]).op
        /\ View(j) = View(job[p])
    <2>1. job[p] \in Job
      BY DEF MobileTypeOK
    <2>2. /\ j \in Job /\ j.op = job[p].op /\ j.id = job[p].id /\ j.iss = job[p].iss
          /\ j.late = job[p].late /\ j.reply = job[p].reply /\ j.at # "done"
      BY <2>1 DEF Job
    <2> HIDE DEF j
    <2>3. QED
      BY <2>2 DEF View
  <1> HIDE DEF j
  <1>3. /\ Calls' = [Calls EXCEPT ![p] = View(j)] /\ Calls[p] = View(j)
    BY <1>1, <1>2, CallsView DEF j
  <1>4. /\ Calls = [q \in Proc |-> Calls[q]] /\ Calls' = [q \in Proc |-> Calls'[q]]
    BY DEF Calls
  <1>5. \A q \in Proc : Calls'[q] = Calls[q]
    BY <1>3, <1>4
  <1>6. QED
    BY <1>4, <1>5, Zenon

\* A call under way is answered.
LEMMA ReplyStep ==
  ASSUME MobileTypeOK, NEW p \in Proc, NEW reply \in Replies, Finish(p, reply),
         job[p].at # "done", UNCHANGED <<Sessions, Credentials, revoked>>,
         NEW iss, iss = IF job[p].op \in {"install", "cancel"} THEN job[p].iss ELSE NoIssuance,
         reply \in P!Answers(job[p].op, job[p].id, iss, job[p].late)
  PROVE  Implements
  <1> DEFINE j == [job[p] EXCEPT !.at = "done", !.reply = reply]
  <1>1. /\ j \in Job /\ j.op = job[p].op /\ j.id = job[p].id /\ j.iss = job[p].iss
        /\ j.late = job[p].late /\ j.reply = reply /\ j.at = "done" /\ job[p] \in Job
    <2>1. job[p] \in Job
      BY DEF MobileTypeOK
    <2>2. QED
      BY <2>1 DEF Job
  <1>2. job' = [job EXCEPT ![p] = j]
    BY DEF Finish, MobileTypeOK
  <1> HIDE DEF j
  <1>3. /\ Calls' = [Calls EXCEPT ![p] = View(j)]
        /\ Calls[p] = View(job[p]) /\ Calls'[p] = View(j)
    BY <1>1, <1>2, CallsView
  <1> DEFINE r == View(job[p])
             s == [r EXCEPT !.reply = reply, !.open = FALSE]
  <1>4. /\ r.op = job[p].op /\ r.id = job[p].id /\ r.iss = iss /\ r.late = job[p].late
        /\ r.open
    BY ViewFields
  <1>5. View(j) = s
    <2>1. r \in CallRecord /\ View(j) \in CallRecord
      BY <1>1, ViewTyped
    <2>2. /\ View(j).op = r.op /\ View(j).id = r.id /\ View(j).iss = r.iss
          /\ View(j).late = r.late /\ View(j).reply = reply /\ View(j).open = FALSE
      BY <1>1, ViewFields
    <2> HIDE DEF r
    <2>3. /\ s \in CallRecord /\ s.op = r.op /\ s.id = r.id /\ s.iss = r.iss
          /\ s.late = r.late /\ s.reply = reply /\ s.open = FALSE
      BY <2>1 DEF CallRecord
    <2> HIDE DEF s
    <2>4. QED
      BY <2>1, <2>2, <2>3, CallsEqual
  <1>6. Calls' = [Calls EXCEPT ![p].reply = reply, ![p].open = FALSE]
    BY <1>3, <1>5, ZenonT(60) DEF Calls
  <1>7. ~Calls'[p].open /\ Calls'[p].reply = reply
    BY <1>1, <1>3, ViewFields, ZenonT(60)
  <1> HIDE DEF r, s
  <1>8. /\ Calls[p].op = job[p].op /\ Calls[p].id = job[p].id /\ Calls[p].iss = iss
        /\ Calls[p].late = job[p].late /\ Calls[p].open
    BY <1>3, <1>4 DEF r
  <1>9. P!Answer(p) /\ Calls'[p] # Calls[p]
    BY <1>6, <1>7, <1>8 DEF P!Answer
  <1>10. QED
    BY <1>9 DEF Implements, P!Next, P!Request

\* What Presentation sees of an install that succeeds.
LEMMA InstallsView ==
  ASSUME MobileTypeOK, NEW p \in Proc, NEW id \in Id, Installed(p, id),
         job[p].at # "done", job[p].op = "install"
  PROVE  P!Installs(p, id) /\ Calls'[p] # Calls[p] /\ Calls[p].iss = job[p].iss
  <1> DEFINE j == [job[p] EXCEPT !.at = "done", !.reply = "installed", !.id = id]
  <1>1. /\ j \in Job /\ j.op = "install" /\ j.id = id /\ j.iss = job[p].iss
        /\ j.late = job[p].late /\ j.reply = "installed" /\ j.at = "done" /\ job[p] \in Job
    <2>1. job[p] \in Job
      BY DEF MobileTypeOK
    <2>2. QED
      BY <2>1 DEF Job, Replies
  <1>2. job' = [job EXCEPT ![p] = j]
    BY DEF Installed, MobileTypeOK
  <1> HIDE DEF j
  <1>3. /\ Calls' = [Calls EXCEPT ![p] = View(j)]
        /\ Calls[p] = View(job[p]) /\ Calls'[p] = View(j)
    BY <1>1, <1>2, CallsView
  <1> DEFINE r == View(job[p])
             s == [r EXCEPT !.id = id, !.reply = "installed", !.open = FALSE]
  <1>4. r.op = "install" /\ r.iss = job[p].iss /\ r.open
    BY ViewFields
  <1>5. View(j) = s
    <2>1. r \in CallRecord /\ View(j) \in CallRecord
      BY <1>1, ViewTyped
    <2>2. /\ View(j).op = r.op /\ View(j).id = id /\ View(j).iss = r.iss
          /\ View(j).late = r.late /\ View(j).reply = "installed" /\ View(j).open = FALSE
      BY <1>1, ViewFields
    <2> HIDE DEF r
    <2>3. /\ s \in CallRecord /\ s.op = r.op /\ s.id = id /\ s.iss = r.iss
          /\ s.late = r.late /\ s.reply = "installed" /\ s.open = FALSE
      BY <2>1 DEF CallRecord, Replies
    <2> HIDE DEF s
    <2>4. QED
      BY <2>1, <2>2, <2>3, CallsEqual
  <1>6. Calls' = [Calls EXCEPT ![p].id = id, ![p].reply = "installed", ![p].open = FALSE]
    BY <1>3, <1>5, ZenonT(60) DEF Calls
  <1>7. ~Calls'[p].open /\ Calls'[p].id = id
    BY <1>1, <1>3, ViewFields
  <1> HIDE DEF r, s
  <1>8. Calls[p].op = "install" /\ Calls[p].iss = job[p].iss /\ Calls[p].open
    BY <1>3, <1>4 DEF r
  <1>9. QED
    BY <1>6, <1>7, <1>8 DEF P!Installs

\* What UBID revokes when the session is logged out has the same name.
LEMMA NamedIs ==
  ASSUME Base, Traced, NEW id \in Id, Used(id)
  PROVE  P!Named(id) = Credential(id)
  <1>1. Credentials[id] = record[id].issuance
    BY SessionFacts DEF SessionIs
  <1>2. Mobile(id) => record[id].issuance \in Issuance
    BY DEF Base, MobileUsed
  <1>3. ~Mobile(id) => record[id].issuance = NoIssuance
    BY DEF Traced
  <1>4. QED
    BY <1>1, <1>2, <1>3, StoreAssumption DEF P!Named, Credential

\* A call begins, and may be answered at once.
LEMMA BeginStep ==
  ASSUME Base, Traced, NEW p \in Proc, job[p].at = "done",
         NEW op \in {"read", "install", "logout", "cancel"}, NEW id \in Id \cup {NoId},
         NEW i \in Issuance \cup {NoIssuance}, NEW at \in {"queued", "calling", "done"},
         NEW reply \in Replies, Start(p, op, id, i, at, reply), at = "done" <=> reply # "none",
         op = "read" => id \in Id /\ Used(id),
         NEW iss, iss = IF op \in {"install", "cancel"} THEN i ELSE NoIssuance,
         NEW late, late = (op = "read" /\ Credential(id) \in revoked),
         reply = "none" \/ reply \in P!Answers(op, id, iss, late)
  PROVE  /\ P!Begin(p, op, id, iss)
         /\ \E j \in Job : job' = [job EXCEPT ![p] = j]
  <1> DEFINE j == [op |-> op, id |-> id, iss |-> i, at |-> at, ok |-> FALSE,
                   late |-> late, reply |-> reply]
  <1>1. j \in Job /\ job' = [job EXCEPT ![p] = j] /\ MobileTypeOK
    BY DEF Job, Ops, Start, Base
  <1>2. /\ Calls' = [Calls EXCEPT ![p] = View(j)]
        /\ Calls[p] = View(job[p]) /\ Calls'[p] = View(j)
    BY <1>1, CallsView
  <1>3. late = (op = "read" /\ P!Named(id) \in revoked)
    BY NamedIs
  <1>4. View(j) = [op |-> op, id |-> id, iss |-> iss, late |-> late, reply |-> reply,
                   open |-> reply = "none"]
    BY DEF View
  <1>5. /\ View(j).op = op /\ View(j).id = id /\ View(j).reply = reply
        /\ ~View(job[p]).open
    BY ViewFields
  <1> HIDE DEF View, j
  <1>6. ~Calls[p].open /\ Calls'[p].op = op /\ Calls'[p].id = id /\ Calls'[p].reply = reply
    BY <1>2, <1>5
  <1>7. P!Begin(p, op, id, iss)
    <2>1. Calls' = [Calls EXCEPT ![p] =
                      [op |-> op, id |-> id, iss |-> iss, late |-> late,
                       reply |-> Calls'[p].reply, open |-> Calls'[p].reply = "none"]]
      BY <1>2, <1>4, <1>6
    <2>2. Calls'[p].reply \in {"none"} \cup P!Answers(op, id, iss, late)
      BY <1>6
    <2>3. QED
      BY <1>3, <1>6, <2>1, <2>2 DEF P!Begin
  <1>8. QED
    BY <1>1, <1>7

\* Every step of a request that Presentation sees is a step of its Next.
LEMMA CallStep ==
  ASSUME MobileTypeOK, NEW p \in Proc, NEW j \in Job, job' = [job EXCEPT ![p] = j],
         P!Request(p), UNCHANGED <<Sessions, Credentials, revoked>> \/ Calls'[p] # Calls[p]
  PROVE  Implements
  <1>1. CASE Calls'[p] # Calls[p]
    BY <1>1 DEF Implements, P!Next
  <1>2. CASE Calls'[p] = Calls[p]
    <2>1. /\ Calls = [q \in Proc |-> Calls[q]] /\ Calls' = [q \in Proc |-> Calls'[q]]
      BY DEF Calls
    <2>2. \A q \in Proc : Calls'[q] = Calls[q]
      <3>1. Calls' = [Calls EXCEPT ![p] = View(j)]
        BY CallsView
      <3>2. QED
        BY <1>2, <2>1, <3>1
    <2>3. Calls' = Calls
      BY <2>1, <2>2, Zenon
    <2>4. QED
      BY <1>2, <2>3, SilentStep
  <1>3. QED
    BY <1>1, <1>2

-----------------------------------------------------------------------------
(* The manager implements Presentation, action by action.                  *)

\* The answers a call may be given, in the words of the manager.
LEMMA AnswersAre ==
  ASSUME Base, Traced
  PROVE  /\ \A op, id, i, late : op # "read" => "unavailable" \in P!Answers(op, id, i, late)
         /\ \A id, i, late : "anonymous" \in P!Answers("read", id, i, late)
         /\ \A id \in Id : \A i, late :
               Authentic(id) /\ (late => ~Mobile(id)) => "authenticated" \in P!Answers("read", id, i, late)
         /\ \A id \in Id : \A i, late :
               Used(id) /\ Credential(id) \in revoked => "confirmed" \in P!Answers("logout", id, i, late)
         /\ \A id, i, late : i \in revoked => "cancelled" \in P!Answers("cancel", id, i, late)
  <1>1. \A id \in Id : SessionIs(id)
    BY SessionFacts
  <1>2. \A op, id, i, late : op # "read" => "unavailable" \in P!Answers(op, id, i, late)
    BY DEF P!Answers
  <1>3. \A id, i, late : "anonymous" \in P!Answers("read", id, i, late)
    BY DEF P!Answers
  <1>4. ASSUME NEW id \in Id, NEW i, NEW late, Authentic(id), late => ~Mobile(id)
        PROVE  "authenticated" \in P!Answers("read", id, i, late)
    <2>1. Sessions[id] = "presented" /\ Used(id)
      BY <1>1, <1>4 DEF SessionIs
    <2>2. late => Credentials[id] = NoIssuance
      BY <1>1, <1>4, <2>1 DEF SessionIs, Traced
    <2>3. QED
      BY <2>1, <2>2 DEF P!Answers
  <1>5. ASSUME NEW id \in Id, NEW i, NEW late, Used(id), Credential(id) \in revoked
        PROVE  "confirmed" \in P!Answers("logout", id, i, late)
    BY <1>5, NamedIs DEF P!Answers
  <1>6. \A id, i, late : i \in revoked => "cancelled" \in P!Answers("cancel", id, i, late)
    BY DEF P!Answers
  <1>7. QED
    BY <1>2, <1>3, <1>4, <1>5, <1>6

\* read(id) begins.
LEMMA ReadBegins ==
  ASSUME MobileInv, Base', NEW p \in Proc, NEW id \in Id, StartRead(p, id)
  PROVE  Implements
  <1>1. /\ Base /\ Traced /\ MobileTypeOK /\ job[p].at = "done" /\ Used(id)
        /\ UNCHANGED <<clock, record, logout, locks, revoked>> /\ slots' = SweptSlots
        /\ record[id].issuance \in Issuance \cup {NoIssuance}
    BY DEF MobileInv, Base, Traced, MobileUsed, StartRead, Idle, Sweep, ubidVars
  <1>2. UNCHANGED <<Sessions, Credentials>>
    BY <1>1, SweepQuiet, QuietView DEF Denied
  <1>3. PICK i \in Issuance \cup {NoIssuance}, at \in {"calling", "done"},
             reply \in {"none", "authenticated", "anonymous"} :
           /\ Start(p, "read", id, i, at, reply)
           /\ at = "done" <=> reply # "none"
           /\ reply = "authenticated" => Authentic(id) /\ ~Mobile(id)
    BY <1>1 DEF StartRead, Presented
  <1>4. reply = "none" \/ reply \in P!Answers("read", id, NoIssuance, Credential(id) \in revoked)
    BY <1>1, <1>3, AnswersAre
  <1>5. reply \in Replies
    BY DEF Replies
  <1>6. P!Begin(p, "read", id, NoIssuance) /\ \E j \in Job : job' = [job EXCEPT ![p] = j]
    BY <1>1, <1>3, <1>4, <1>5, BeginStep
  <1>7. Sessions[id] # "new"
    BY <1>1, SessionFacts DEF SessionIs
  <1>8. P!Request(p)
    BY <1>1, <1>2, <1>6, <1>7 DEF P!Request, P!Read
  <1>9. QED
    BY <1>1, <1>2, <1>6, <1>8, CallStep

\* logout(id) begins: the session is denied.
LEMMA LogoutBegins ==
  ASSUME MobileInv, Base', NEW p \in Proc, NEW id \in Id, StartLogout(p, id)
  PROVE  Implements
  <1>1. /\ Base /\ Traced /\ MobileTypeOK /\ LogoutOut /\ job[p].at = "done" /\ Used(id)
        /\ UNCHANGED revoked
    BY DEF MobileInv, Base, StartLogout, Idle, ubidVars
  <1>2. PICK at \in {"queued", "done"}, reply \in {"none", "unavailable"} :
           /\ Start(p, "logout", id, NoIssuance, at, reply)
           /\ at = "done" <=> reply # "none"
    BY DEF StartLogout
  <1>3. PICK late : late = ("logout" = "read" /\ Credential(id) \in revoked)
    OBVIOUS
  <1>4. /\ reply = "none" \/ reply \in P!Answers("logout", id, NoIssuance, late)
        /\ reply \in Replies /\ Start(p, "logout", id, NoIssuance, at, reply)
        /\ NoIssuance = IF "logout" \in {"install", "cancel"} THEN NoIssuance ELSE NoIssuance
        /\ at \in {"queued", "calling", "done"} /\ id \in Id \cup {NoId}
        /\ at = "done" <=> reply # "none"
    BY <1>1, <1>2, AnswersAre DEF Replies
  <1>5. P!Begin(p, "logout", id, NoIssuance) /\ \E j \in Job : job' = [job EXCEPT ![p] = j]
    BY <1>1, <1>2, <1>3, <1>4, BeginStep
  <1>6. /\ \/ Sessions' = [Sessions EXCEPT ![id] = "denied"]
           \/ Sessions[id] # "presented" /\ Sessions' = Sessions
        /\ Credentials' = Credentials
        /\ Denied(id) \/ id \notin slots => Sessions' = Sessions
    BY <1>1, DenyView
  <1>7. Sessions[id] # "new"
    BY <1>1, SessionFacts DEF SessionIs
  <1>8. P!Request(p)
    BY <1>1, <1>5, <1>6, <1>7 DEF P!Request, P!Logout
  <1>9. Calls'[p] = Calls[p] => Sessions' = Sessions
    <2>1. Calls'[p].op = "logout" /\ Calls'[p].id = id
      BY <1>5 DEF P!Begin
    <2>2. Calls[p].op = job[p].op /\ Calls[p].id = job[p].id
      BY DEF Calls
    <2>3. Calls'[p] = Calls[p] => job[p].op = "logout" /\ job[p].id = id
      BY <2>1, <2>2
    <2>4. QED
      BY <1>1, <1>6, <2>3 DEF LogoutOut
  <1>10. QED
    BY <1>1, <1>5, <1>6, <1>8, <1>9, CallStep

\* install() or cancelUninstalled() begins.
LEMMA AskBegins ==
  ASSUME MobileInv, Base', NEW p \in Proc, NEW i \in Issuance, StartInstall(p, i) \/ StartCancel(p, i)
  PROVE  Implements
  <1>1. /\ Base /\ Traced /\ MobileTypeOK /\ job[p].at = "done"
        /\ UNCHANGED <<clock, record, slots, logout, revoked>>
    BY DEF MobileInv, Base, StartInstall, StartCancel, Idle, ubidVars, storeVars
  <1>2. UNCHANGED <<Sessions, Credentials>>
    BY <1>1, QuietView DEF Denied
  <1>3. PICK op \in {"install", "cancel"}, at \in {"queued", "calling", "done"},
             reply \in {"none", "unavailable"} :
           /\ Start(p, op, NoId, i, at, reply)
           /\ at = "done" <=> reply # "none"
    BY DEF StartInstall, StartCancel
  <1>4. PICK late : late = (op = "read" /\ Credential(NoId) \in revoked)
    OBVIOUS
  <1>5. /\ reply = "none" \/ reply \in P!Answers(op, NoId, i, late)
        /\ reply \in Replies /\ Start(p, op, NoId, i, at, reply)
        /\ i = IF op \in {"install", "cancel"} THEN i ELSE NoIssuance
        /\ at \in {"queued", "calling", "done"} /\ NoId \in Id \cup {NoId}
        /\ op \in {"read", "install", "logout", "cancel"} /\ op # "read"
        /\ at = "done" <=> reply # "none"
    BY <1>1, <1>3, AnswersAre DEF Replies
  <1>6. P!Begin(p, op, NoId, i) /\ \E j \in Job : job' = [job EXCEPT ![p] = j]
    BY <1>1, <1>3, <1>4, <1>5, BeginStep
  <1>7. P!Request(p)
    BY <1>1, <1>2, <1>6 DEF P!Request, P!AskUbid
  <1>8. QED
    BY <1>1, <1>2, <1>6, <1>7, CallStep

\* UBID answers, or the answer is lost.
LEMMA CallServed ==
  ASSUME MobileInv, Base', NEW p \in Proc, Serve(p) \/ Drop(p)
  PROVE  Implements
  <1>1. /\ Base /\ MobileTypeOK /\ job[p].at # "done"
        /\ UNCHANGED <<clock, record, slots, logout>> /\ revoked \subseteq revoked'
    BY DEF MobileInv, Base, Serve, Drop, ubidVars, storeVars
  <1>2. UNCHANGED <<Sessions, Credentials>>
    BY <1>1, QuietView DEF Denied
  <1>3. \E ok \in BOOLEAN : Answer(p, ok)
    <2>1. Active(job[p].iss) \in BOOLEAN
      BY DEF Active
    <2>2. QED
      BY <2>1 DEF Serve, Drop
  <1>4. Calls' = Calls
    BY <1>1, <1>3, HiddenView
  <1>5. QED
    BY <1>1, <1>2, <1>4, RevokeStep

\* read(id) ends: what it tested before the await it tests again.
LEMMA ReadEnds ==
  ASSUME MobileInv, Base', NEW p \in Proc, EndRead(p)
  PROVE  Implements
  <1>1. /\ Base /\ Traced /\ MobileTypeOK /\ LateRead /\ job[p].op = "read" /\ job[p].at # "done"
        /\ job[p].id \in Id
        /\ UNCHANGED <<clock, record, logout, revoked>> /\ slots' \in {slots, Swept}
    BY DEF MobileInv, Base, JobsNamed, EndRead, ubidVars
  <1>2. UNCHANGED <<Sessions, Credentials>>
    BY <1>1, SweepQuiet, QuietView DEF Denied
  <1>3. PICK reply \in {"authenticated", "anonymous"} :
           /\ Finish(p, reply)
           /\ reply = "authenticated" => job[p].ok /\ Authentic(job[p].id)
    BY DEF EndRead, Presented
  <1>4. reply \in P!Answers("read", job[p].id, NoIssuance, job[p].late)
    BY <1>1, <1>3, AnswersAre DEF LateRead
  <1>5. reply \in Replies
    BY DEF Replies
  <1>6. QED
    BY <1>1, <1>2, <1>3, <1>4, <1>5, ReplyStep

\* install() leaves for UBID.
LEMMA InstallLeaves ==
  ASSUME MobileInv, Base', NEW p \in Proc, BeginInstall(p)
  PROVE  Implements
  <1>1. /\ Base /\ MobileTypeOK /\ job[p].at # "done"
        /\ UNCHANGED <<clock, record, logout, revoked>> /\ slots' = SweptSlots
    BY DEF MobileInv, Base, BeginInstall, Sweep, ubidVars
  <1>2. UNCHANGED <<Sessions, Credentials>>
    BY <1>1, SweepQuiet, QuietView DEF Denied
  <1>3. Calls' = Calls
    BY <1>1, HiddenView DEF BeginInstall
  <1>4. QED
    BY <1>1, <1>2, <1>3, SilentStep

\* install() ends: it presents the alias, a new session, or nothing.
LEMMA InstallEnds ==
  ASSUME MobileInv, Base', [MobileNext]_mobileVars, NEW p \in Proc, NEW current \in BOOLEAN,
         EndInstall(p, current)
  PROVE  Implements
  <1>1. /\ Base /\ Traced /\ MobileTypeOK /\ AliasOwned /\ OnePresentation
        /\ job[p].op = "install" /\ job[p].at # "done" /\ job[p].iss \in Issuance
        /\ UNCHANGED revoked
    BY DEF MobileInv, Base, JobsNamed, EndInstall, InstallEnded, ubidVars
  <1>2. PICK i \in Issuance : i = job[p].iss
    BY <1>1
  <1>3. \A id \in Id : SessionIs(id)
    BY <1>1, SessionFacts
  <1>4. CASE InstallRefused(p, current)
    <2>1. /\ Finish(p, "unavailable") /\ UNCHANGED <<clock, record, logout>>
          /\ slots' \in {slots, Swept}
      BY <1>4 DEF InstallRefused
    <2>2. UNCHANGED <<Sessions, Credentials>>
      BY <1>1, <2>1, SweepQuiet, QuietView DEF Denied
    <2>3. "unavailable" \in P!Answers("install", job[p].id, i, job[p].late) /\ "unavailable" \in Replies
      BY <1>1, AnswersAre DEF Replies
    <2>4. QED
      BY <1>1, <1>2, <2>1, <2>2, <2>3, ReplyStep
  <1>5. CASE InstallAlias(p, current)
    <2>1. PICK id \in Id : /\ id = aliases[i] /\ Presented(id) /\ Installed(p, id)
                           /\ slots' = Swept /\ UNCHANGED <<clock, record, logout>>
      BY <1>1, <1>2, <1>5 DEF InstallAlias, MobileTypeOK
    <2>2. UNCHANGED <<Sessions, Credentials>>
      BY <1>1, <2>1, SweepQuiet, QuietView DEF Denied
    <2>3. Sessions[id] = "presented" /\ Credentials[id] = i
      <3>1. record[id].issuance = i
        BY <1>1, <2>1, ManagerAssumption DEF AliasOwned, Mine
      <3>2. QED
        BY <1>3, <2>1, <3>1 DEF SessionIs, Presented
    <2>4. P!Installs(p, id) /\ Calls'[p] # Calls[p] /\ Calls[p].iss = i
      BY <1>1, <1>2, <2>1, InstallsView
    <2>5. P!PresentAgain(p, id)
      BY <1>1, <2>2, <2>3, <2>4 DEF P!PresentAgain
    <2>6. QED
      BY <2>4, <2>5 DEF Implements, P!Next, P!Request
  <1>6. ASSUME NEW id \in Id, InstallNew(p, current, id)
        PROVE  Implements
    <2>1. /\ aliases[i] = NoId /\ Installed(p, id) /\ Create(id, MobileRecord(i))
          /\ receipt[i].to - clock >= 1
      BY <1>2, <1>6 DEF InstallNew, Installable
    <2>2. MobileRecord(i).issuance = i /\ MobileRecord(i) # NoRecord
      BY DEF MobileRecord, NoRecord, MobileV1
    <2>3. /\ Sessions' = [Sessions EXCEPT ![id] = "presented"]
          /\ Credentials' = [Credentials EXCEPT ![id] = i]
          /\ Sessions[id] = "new"
      BY <1>1, <2>1, <2>2, CreateView
    <2>4. ASSUME NEW other \in Id, Sessions[other] # "new", Credentials[other] = i
          PROVE  Sessions[other] = "denied" /\ i \in revoked
      <3>1. Used(other) /\ record[other].issuance = i
        BY <1>3, <2>4 DEF SessionIs
      <3>2. Mobile(other)
        BY <1>1, <3>1, StoreAssumption DEF Traced
      <3>3. other \notin slots
        BY <1>1, <2>1, <3>1, <3>2, ManagerAssumption DEF OnePresentation
      <3>4. /\ receipt[i] # NoReceipt
            /\ receipt[i].to <= clock \/ (Denied(other) /\ i \in revoked)
        BY <1>1, <3>1, <3>2, <3>3 DEF Traced
      <3>5. receipt[i].to \in Nat /\ clock \in Nat
        BY <1>1, <3>4 DEF MobileTypeOK, StoreTypeOK, Receipt
      <3>6. Denied(other) /\ i \in revoked
        BY <2>1, <3>4, <3>5
      <3>7. QED
        BY <1>3, <3>6 DEF SessionIs
    <2>5. P!Installs(p, id) /\ Calls'[p] # Calls[p] /\ Calls[p].iss = i
      BY <1>1, <1>2, <2>1, InstallsView
    <2>6. P!PresentNew(p, id)
      BY <1>1, <2>3, <2>4, <2>5 DEF P!PresentNew
    <2>7. QED
      BY <2>5, <2>6 DEF Implements, P!Next, P!Request
  <1>7. QED
    BY <1>4, <1>5, <1>6 DEF EndInstall, InstallEnded

\* logout(id) leaves for UBID, or finds the logout confirmed.
LEMMA LogoutLeaves ==
  ASSUME MobileInv, Base', NEW p \in Proc, BeginLogoutCall(p) \/ EndLogout(p)
  PROVE  Implements
  <1>1. /\ Base /\ Traced /\ MobileTypeOK /\ Acknowledged /\ ConfirmedIsRevoked
        /\ job[p].op = "logout" /\ job[p].at # "done" /\ job[p].id \in Id
        /\ Used(job[p].id) /\ Denied(job[p].id)
        /\ UNCHANGED <<clock, record, revoked>>
    BY DEF MobileInv, Base, JobsNamed, BeginLogoutCall, EndLogout, ubidVars
  <1>2. slots' = slots \/ FreeSlot(job[p].id)
    BY DEF BeginLogoutCall, EndLogout
  <1>3. slots' \subseteq slots /\ \A id \in slots : id \in slots' \/ ~Authentic(id)
    BY <1>1, <1>2 DEF FreeSlot, Swept, Authentic
  <1>4. \A id \in Id : /\ Denied(id)' <=> Denied(id)
                       /\ Denied(id) => logout'[id].until = logout[id].until
    <2> DEFINE new == [until |-> logout[job[p].id].until, confirmed |-> TRUE]
    <2>1. logout' = logout \/ logout' = [logout EXCEPT ![job[p].id] = new]
      BY DEF BeginLogoutCall, EndLogout
    <2>2. new # NoLogout /\ new.until = logout[job[p].id].until
      BY DEF NoLogout
    <2> HIDE DEF new
    <2>3. QED
      BY <1>1, <2>1, <2>2 DEF Denied, MobileTypeOK, StoreTypeOK
  <1>5. UNCHANGED <<Sessions, Credentials>>
    BY <1>1, <1>3, <1>4, QuietView
  <1>6. CASE Call(p)
    <2>1. Calls' = Calls
      BY <1>1, <1>6, HiddenView
    <2>2. QED
      BY <1>1, <1>5, <2>1, SilentStep
  <1>7. ASSUME NEW reply \in {"confirmed", "unavailable"}, Finish(p, reply),
               reply = "confirmed" => Credential(job[p].id) \in revoked
        PROVE  Implements
    <2>1. reply \in P!Answers("logout", job[p].id, NoIssuance, job[p].late)
      BY <1>1, <1>7, AnswersAre
    <2>2. reply \in Replies
      BY DEF Replies
    <2>3. QED
      BY <1>1, <1>5, <1>7, <2>1, <2>2, ReplyStep
  <1>8. \/ Call(p) \/ Finish(p, "unavailable")
        \/ Finish(p, "confirmed") /\ Credential(job[p].id) \in revoked
    BY <1>1 DEF BeginLogoutCall, EndLogout, Acknowledged, ConfirmedIsRevoked
  <1>9. QED
    BY <1>6, <1>7, <1>8

\* cancelUninstalled() ends.
LEMMA CancelEnds ==
  ASSUME MobileInv, Base', NEW p \in Proc, EndCancel(p)
  PROVE  Implements
  <1>1. /\ Base /\ Traced /\ MobileTypeOK /\ CancelKnown
        /\ job[p].op = "cancel" /\ job[p].at # "done"
        /\ UNCHANGED <<clock, record, slots, logout, revoked>>
    BY DEF MobileInv, Base, EndCancel, ubidVars, storeVars
  <1>2. UNCHANGED <<Sessions, Credentials>>
    BY <1>1, QuietView DEF Denied
  <1>3. PICK reply \in {"cancelled", "unavailable"} :
           Finish(p, reply) /\ (reply = "cancelled" => job[p].ok)
    BY DEF EndCancel
  <1>4. reply \in P!Answers("cancel", job[p].id, job[p].iss, job[p].late)
    BY <1>1, <1>3, AnswersAre DEF CancelKnown
  <1>5. reply \in Replies
    BY DEF Replies
  <1>6. QED
    BY <1>1, <1>2, <1>3, <1>4, <1>5, ReplyStep

\* UBID issues or revokes.
LEMMA UbidMoves ==
  ASSUME Base, Base', UNCHANGED <<storeVars, managerVars>>, revoked \subseteq revoked'
  PROVE  Implements
  <1>1. UNCHANGED <<clock, record, slots, logout, job>>
    BY DEF storeVars, managerVars
  <1>2. UNCHANGED <<Sessions, Credentials>>
    BY <1>1, QuietView DEF Denied
  <1>3. Calls' = Calls
    BY <1>1 DEF Calls
  <1>4. QED
    BY <1>2, <1>3, RevokeStep

\* An OAuth session begins.
LEMMA DesktopBegins ==
  ASSUME Base, Base', [MobileNext]_mobileVars, NEW id \in Id, OAuthCreate(id)
  PROVE  Implements
  <1> DEFINE rec == [kind |-> Desktop, issuance |-> NoIssuance, issuedAt |-> clock,
                     expiresAt |-> clock + SessionTtl]
  <1>1. Create(id, rec) /\ rec.issuance = NoIssuance /\ rec # NoRecord
        /\ UNCHANGED <<job, revoked>>
    BY DEF OAuthCreate, managerVars, ubidVars, NoRecord, Desktop
  <1> HIDE DEF rec
  <1>2. /\ Sessions' = [Sessions EXCEPT ![id] = "presented"]
        /\ Credentials' = [Credentials EXCEPT ![id] = NoIssuance]
        /\ Sessions[id] = "new" /\ Credentials[id] = NoIssuance
    BY <1>1, CreateView
  <1>3. Credentials' = Credentials
    BY <1>2, SessionsDomain
  <1>4. Calls' = Calls
    BY <1>1 DEF Calls
  <1>5. P!PresentDesktop(id)
    BY <1>1, <1>2, <1>3 DEF P!PresentDesktop
  <1>6. QED
    BY <1>4, <1>5 DEF Implements, P!Next

\* The clock ends sessions.
LEMMA ClockEnds ==
  ASSUME Base, Base', MobileTick
  PROVE  Implements
  <1>1. /\ UNCHANGED <<record, slots, logout, job, revoked>> /\ clock' = clock + 1
        /\ clock \in Nat /\ record \in [Id -> Record \cup {NoRecord}]
        /\ logout \in [Id -> Logout \cup {NoLogout}]
    BY DEF MobileTick, Tick, managerVars, ubidVars, Base, MobileTypeOK, StoreTypeOK
  <1>2. ASSUME NEW id \in Id
        PROVE  /\ Sessions'[id] = Sessions[id] \/ (Sessions[id] = "presented" /\ Sessions'[id] = "ended")
               /\ Credentials'[id] = Credentials[id]
    <2>1. SessionIs(id) /\ SessionIs(id)'
      BY SessionFacts, SessionFactsNext
    <2>2. (Used(id)' <=> Used(id)) /\ (Denied(id)' <=> Denied(id)) /\ record'[id] = record[id]
      BY <1>1 DEF Used, Denied
    <2>3. Authentic(id)' => Authentic(id)
      <3>1. CASE record[id] = NoRecord
        BY <3>1, <2>2, <2>1 DEF SessionIs, Used
      <3>2. CASE record[id] \in Record
        <4>1. record[id].expiresAt \in Nat
          BY <3>2 DEF Record
        <4>2. Deadline(id)' = Deadline(id)
          BY <1>1 DEF Deadline, Denied, Mobile
        <4>3. ~Denied(id) => Deadline(id) \in Nat
          BY <4>1, StoreAssumption DEF Deadline
        <4>4. QED
          BY <1>1, <2>2, <4>1, <4>2, <4>3 DEF Authentic, Swept
      <3>3. QED
        BY <1>1, <3>1, <3>2
    <2>4. QED
      BY <2>1, <2>2, <2>3 DEF SessionIs
  <1>3. Credentials' = Credentials
    BY <1>2, SessionsDomain
  <1>4. Calls' = Calls
    BY <1>1 DEF Calls
  <1>5. P!Expire
    BY <1>1, <1>2, <1>3 DEF P!Expire
  <1>6. QED
    BY <1>4, <1>5 DEF Implements, P!Next

\* The manager implements Presentation for every set of requests, ids and
\* issuances and every capacity: over its maps, locks and awaits a session that
\* ended or was denied never presents again, a credential has one session, and
\* an answer is true when it is given.
THEOREM MobileImplementsPresentation == MobileSpec => ImplementsPresentation
  <1>1. MobileInit => P!Init
    <2> SUFFICES ASSUME MobileInit
                 PROVE  P!Init
      OBVIOUS
    <2>1. /\ record = [id \in Id |-> NoRecord] /\ slots = {} /\ revoked = {}
          /\ job = [p \in Proc |-> NoJob]
      BY DEF MobileInit, StoreInit
    <2>2. NoRecord.issuance = NoIssuance
      BY DEF NoRecord
    <2>3. Sessions = [id \in Id |-> "new"] /\ Credentials = [id \in Id |-> NoIssuance]
      BY <2>1, <2>2 DEF Sessions, Credentials, Used
    <2>4. Calls = [p \in Proc |-> P!NoCall]
      BY <2>1 DEF Calls, P!NoCall, NoJob
    <2>5. QED
      BY <2>1, <2>3, <2>4 DEF P!Init
  <1>2. MobileInv /\ MobileInv' /\ [MobileNext]_mobileVars => Implements
    <2> SUFFICES ASSUME MobileInv, MobileInv', [MobileNext]_mobileVars
                 PROVE  Implements
      OBVIOUS
    <2>1. Base /\ Base'
      BY DEF MobileInv
    <2>2. CASE \/ \E i \in Issuance : UbidIssue(i)
               \/ \E c \in Issuance \cup Id : UbidRevoke(c)
               \/ UNCHANGED mobileVars
      BY <2>1, <2>2, UbidMoves DEF UbidIssue, UbidRevoke, mobileVars, storeVars, managerVars
    <2>3. CASE MobileTick \/ \E id \in Id : OAuthCreate(id)
      BY <2>1, <2>3, ClockEnds, DesktopBegins
    <2>4. ASSUME NEW p \in Proc,
                 \/ \E id \in Id : StartRead(p, id) \/ StartLogout(p, id)
                 \/ \E i \in Issuance : StartInstall(p, i) \/ StartCancel(p, i)
          PROVE  Implements
      BY <2>1, <2>4, ReadBegins, LogoutBegins, AskBegins
    <2>5. ASSUME NEW p \in Proc, Serve(p) \/ Drop(p) \/ EndRead(p) \/ BeginInstall(p)
          PROVE  Implements
      BY <2>1, <2>5, CallServed, ReadEnds, InstallLeaves
    <2>6. ASSUME NEW p \in Proc, BeginLogoutCall(p) \/ EndLogout(p) \/ EndCancel(p)
          PROVE  Implements
      BY <2>1, <2>6, LogoutLeaves, CancelEnds
    <2>7. ASSUME NEW p \in Proc, NEW current \in BOOLEAN, EndInstall(p, current)
          PROVE  Implements
      BY <2>1, <2>7, InstallEnds
    <2>8. QED
      BY <2>2, <2>3, <2>4, <2>5, <2>6, <2>7 DEF MobileNext, Step
  <1>3. QED
    BY <1>1, <1>2, MobileInvariant, PTL DEF MobileSpec, ImplementsPresentation, P!Spec, Implements
=============================================================================
