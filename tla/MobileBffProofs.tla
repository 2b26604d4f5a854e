-------------------------- MODULE MobileBffProofs --------------------------
(***************************************************************************)
(* Proofs about MobileBff, for every number of requests, contexts,         *)
(* sessions and issuances and every capacity and life.                     *)
(***************************************************************************)
EXTENDS MobileBff, MobileSessionProofs

-----------------------------------------------------------------------------
(* The manager below the routes.                                           *)

\* Of the manager's invariant, what the routes rely on.
CoreInv ==
    /\ Base /\ Running
    /\ Acknowledged /\ LateRead /\ ConfirmedIsRevoked
    /\ AliasOwned

-----------------------------------------------------------------------------
(* The contexts and the requests.                                          *)

\* A context id that has been drawn: a request refers to no other.
Drawn(c) == ctx[c].until > 0 \/ ctx[c].phone # NoIssuance

\* Nothing but its deadline or a complete logout removes the context.
Kept(c) == ctx[c].until > clock /\ ~ctx[c].complete => c \in contexts

Revoked(i) == i \in Issuance /\ i \in revoked

ContextGood(c) ==
    LET x == ctx[c] IN
    /\ x.orphan # NoIssuance => x.orphan = x.phone /\ Kept(c)
    /\ x.cancelled => Revoked(x.phone)
    /\ x.session # NoId => x.phone = NoIssuance
    /\ x.alias # NoId => Mine(x.alias, x.phone)
    /\ x.logoutId # NoId => x.session # NoId \/ Mine(x.logoutId, x.phone)
    /\ x.tx # 0 => x.started
    /\ x.tx # 0 \/ c \in contexts => Drawn(c)

Obtaining == {"issuing", "issued", "installing", "cancelling", "cancelled"}

RequestGood(p) ==
    LET r == req[p]
        c == r.ctx
    IN
    /\ r.op # "none" => c \in Context /\ Drawn(c)
    /\ r.at # "done" => r.op # "none" /\ r.reply = "none"
    /\ r.at \in {"queued", "checking"} => r.op \in Commands
    /\ r.op \in Commands /\ r.at \notin {"queued", "done"} => Holds(p, c)
    /\ r.op \in Commands \ {"desktop"} /\ r.at \notin {"queued", "done"} => ctx[c].session = NoId
    /\ r.op = "issue" /\ r.at = "checking" => ctx[c].phone = NoIssuance \/ Kept(c)
    /\ r.op = "issue" /\ r.at \in Obtaining => ctx[c].phone \in Issuance /\ Kept(c)
    /\ r.at \in {"cancelling", "cancelled"} => r.iss \in Issuance /\ r.iss = ctx[c].phone
    /\ r.at = "cancelled" /\ r.ok => r.iss \in revoked
    /\ r.at = "installing" => job[p].op = "install" /\ job[p].iss = ctx[c].phone
    /\ r.at = "revoking" => /\ job[p].op = "logout" /\ job[p].id = ctx[c].logoutId
                            /\ ctx[c].logoutId # NoId
    /\ r.op = "logout" /\ r.reply = "confirmed" => ctx[c].session # NoId \/ Revoked(ctx[c].phone)
    /\ r.op = "callback" => ctx[c].started /\ ctx[c].tx = 0

OneCallback ==
    \A p, q \in Proc :
        req[p].op = "callback" /\ req[q].op = "callback" /\ req[p].ctx = req[q].ctx => p = q

BffInv ==
    /\ CoreInv
    /\ BffTypeOK
    /\ \A c \in Context : ContextGood(c)
    /\ \A p \in Proc : RequestGood(p)
    /\ OneCallback
-----------------------------------------------------------------------------
(* The manager keeps its part, also under the steps its callers add.       *)

\* The manager's own steps.
LEMMA CoreManager ==
  ASSUME CoreInv, [MobileNext]_mobileVars
  PROVE  CoreInv'
  BY AliasStep, TypeStep, UsedStep, JobStep, AnswerStep, ConfirmedStep DEF CoreInv, Base

\* A route sweeps the store, takes or releases the lock of a context, or has
\* UBID revoke a credential.
LEMMA CoreOuter ==
  ASSUME CoreInv, slots' \in {slots, Swept},
         UNCHANGED <<clock, record, logout, cancellations, aliases, job, receipt>>,
         locks' \in [LockKey -> Seq(Proc)],
         \A l \in Issuance \cup Id : locks'[l] = locks[l],
         revoked \subseteq revoked', revoked' \subseteq Issuance \cup Id
  PROVE  CoreInv'
  <1>1. MobileTypeOK /\ MobileUsed /\ JobsNamed
    BY DEF CoreInv, Base
  <1>2. MobileTypeOK'
    BY <1>1, SweepShrinks DEF MobileTypeOK, StoreTypeOK
  <1>3. MobileUsed' /\ JobsNamed'
    BY <1>1, SweepShrinks DEF MobileUsed, JobsNamed, Used, Denied, Mobile
  <1>4. Running'
    BY <1>1 DEF CoreInv, Running, Holds, JobsNamed
  <1>5. Acknowledged' /\ LateRead' /\ ConfirmedIsRevoked' /\ AliasOwned'
    <2>1. \A id : /\ Credential(id)' = Credential(id)
                  /\ Mobile(id)' = Mobile(id)
                  /\ Denied(id)' = Denied(id)
      BY DEF Credential, Mobile, Denied
    <2>2. Acknowledged' /\ LateRead' /\ ConfirmedIsRevoked'
      BY <2>1 DEF CoreInv, Acknowledged, LateRead, ConfirmedIsRevoked, Denied
    <2>3. AliasOwned'
      BY DEF CoreInv, AliasOwned, Mine, Used
    <2>4. QED
      BY <2>2, <2>3
  <1>6. QED
    BY <1>2, <1>3, <1>4, <1>5 DEF CoreInv, Base

\* A session created for a credential stays that.
LEMMA MineStays ==
  ASSUME \A id \in Id : Used(id) => record'[id] = record[id], NEW id, NEW i, Mine(id, i)
  PROVE  Mine(id, i)'
  BY DEF Mine, Used

\* What the end of an install does, whatever its caller does with the locks.
LEMMA InstallEffect ==
  ASSUME CoreInv, NEW p \in Proc, NEW current \in BOOLEAN, InstallEnded(p, current)
  PROVE  /\ job[p].op = "install" /\ job[p].at = "answered" /\ job[p].iss \in Issuance
         /\ UNCHANGED <<clock, logout, cancellations, receipt, revoked>>
         /\ \A id \in Id : Used(id) => record'[id] = record[id]
         /\ record' \in [Id -> Record \cup {NoRecord}] /\ slots' \subseteq Id
         /\ \A id \in Id : Mobile(id)' => record'[id].issuance \in Issuance
         /\ \A id \in slots' : id \in slots \/ Used(id)'
         /\ aliases' \in [Issuance -> Id \cup {NoId}] /\ AliasOwned'
         /\ \E j \in Job : /\ job' = [job EXCEPT ![p] = j]
                           /\ j.op = "install" /\ j.iss = job[p].iss /\ j.at = "done"
                           /\ j.reply = "installed" =>
                                 current /\ j.id \in Id /\ aliases'[j.iss] = j.id
  <1>1. /\ Base /\ AliasOwned /\ aliases \in [Issuance -> Id \cup {NoId}]
        /\ record \in [Id -> Record \cup {NoRecord}] /\ slots \subseteq Id
        /\ Swept \subseteq slots /\ job \in [Proc -> Job] /\ job[p] \in Job
        /\ receipt \in [Issuance -> Receipt \cup {NoReceipt}]
    BY DEF CoreInv, Base, MobileTypeOK, StoreTypeOK, Swept
  <1>2. /\ job[p].op = "install" /\ job[p].at = "answered" /\ job[p].iss \in Issuance
        /\ UNCHANGED <<cancellations, receipt, revoked>>
    BY <1>1 DEF InstallEnded, Base, JobsNamed, ubidVars
  <1>3. ASSUME NEW id \in Id, Installed(p, id)
        PROVE  \E j \in Job : /\ job' = [job EXCEPT ![p] = j]
                              /\ j.op = "install" /\ j.iss = job[p].iss /\ j.at = "done"
                              /\ j.id = id
    <2> DEFINE j == [job[p] EXCEPT !.at = "done", !.reply = "installed", !.id = id]
    <2>1. /\ j \in Job /\ j.op = "install" /\ j.iss = job[p].iss /\ j.at = "done" /\ j.id = id
      BY <1>1, <1>2 DEF Job, Replies
    <2>2. job' = [job EXCEPT ![p] = j]
      BY <1>3 DEF Installed
    <2> HIDE DEF j
    <2>3. QED
      BY <2>1, <2>2
  <1>4. ASSUME Finish(p, "unavailable")
        PROVE  \E j \in Job : /\ job' = [job EXCEPT ![p] = j]
                              /\ j.op = "install" /\ j.iss = job[p].iss /\ j.at = "done"
                              /\ j.reply = "unavailable"
    <2> DEFINE j == [job[p] EXCEPT !.at = "done", !.reply = "unavailable"]
    <2>1. /\ j \in Job /\ j.op = "install" /\ j.iss = job[p].iss /\ j.at = "done"
          /\ j.reply = "unavailable"
      BY <1>1, <1>2 DEF Job, Replies
    <2>2. job' = [job EXCEPT ![p] = j]
      BY <1>4 DEF Finish
    <2> HIDE DEF j
    <2>3. QED
      BY <2>1, <2>2
  <1>5. CASE InstallAlias(p, current)
    <2>1. /\ current /\ UNCHANGED <<clock, record, logout, aliases>> /\ slots' = Swept
          /\ aliases[job[p].iss] \in Id /\ Installed(p, aliases[job[p].iss])
      BY <1>1, <1>2, <1>5 DEF InstallAlias, Installable
    <2>2. AliasOwned'
      BY <1>1, <2>1 DEF AliasOwned, Mine, Used
    <2>3. \A id \in Id : Mobile(id)' => record'[id].issuance \in Issuance
      BY <1>1, <2>1 DEF Mobile, Base, MobileUsed
    <2>4. QED
      BY <1>1, <1>2, <1>3, <2>1, <2>2, <2>3
  <1>6. ASSUME NEW id \in Id, InstallNew(p, current, id)
        PROVE  /\ current /\ UNCHANGED <<clock, logout>> /\ Installed(p, id)
               /\ \A x \in Id : Used(x) => record'[x] = record[x]
               /\ record' \in [Id -> Record \cup {NoRecord}] /\ slots' \subseteq Id
               /\ \A x \in Id : Mobile(x)' => record'[x].issuance \in Issuance
               /\ \A x \in slots' : x \in slots \/ Used(x)'
               /\ aliases' \in [Issuance -> Id \cup {NoId}] /\ AliasOwned'
               /\ aliases'[job[p].iss] = id
    <2>1. PICK k \in Issuance : k = job[p].iss
      BY <1>2
    <2>2. receipt[k] \in Receipt
      BY <1>1, <1>6, <2>1, ManagerAssumption, StoreAssumption
         DEF InstallNew, Installable, NoReceipt, Base, MobileTypeOK, StoreTypeOK
    <2> DEFINE rec == MobileRecord(k)
    <2>3. rec \in Record /\ rec.kind = MobileV1 /\ rec.issuance = k
      BY <2>2, ManagerAssumption DEF MobileRecord, Record, Receipt
    <2>4. /\ ~Used(id) /\ record' = [record EXCEPT ![id] = rec] /\ slots' = Swept \cup {id}
          /\ UNCHANGED <<clock, logout>> /\ current /\ Installed(p, id)
          /\ aliases' = [aliases EXCEPT ![k] = id]
      BY <1>6, <2>1 DEF InstallNew, Installable, Create
    <2> HIDE DEF rec
    <2>5. /\ record'[id] = rec /\ \A x \in Id : x # id => record'[x] = record[x]
          /\ record' \in [Id -> Record \cup {NoRecord}]
      BY <1>1, <2>3, <2>4
    <2>6. /\ aliases'[k] = id /\ \A i \in Issuance : i # k => aliases'[i] = aliases[i]
          /\ aliases' \in [Issuance -> Id \cup {NoId}]
      BY <1>1, <2>4
    <2>7. rec # NoRecord
      BY <2>3, AbsentValues
    <2>8. \A x \in Id : Used(x) => record'[x] = record[x]
      BY <2>4, <2>5
    <2>9. \A x \in Id : Mobile(x)' => record'[x].issuance \in Issuance
      BY <1>1, <2>3, <2>5 DEF Mobile, Base, MobileUsed
    <2>10. \A x \in slots' : x \in slots \/ Used(x)'
      BY <1>1, <2>4, <2>5, <2>7 DEF Used
    <2>11. Mine(id, k)'
      BY <2>3, <2>5, <2>7 DEF Mine, Used
    <2>12. ASSUME NEW i \in Issuance, NEW j, j = aliases'[i], j # NoId
           PROVE  Mine(j, i)'
      <3>1. CASE i = k
        BY <2>6, <2>11, <2>12, <3>1
      <3>2. CASE i # k
        <4>1. j = aliases[i]
          BY <2>6, <2>12, <3>2
        <4>2. Mine(j, i)
          BY <1>1, <2>12, <4>1 DEF AliasOwned
        <4>3. QED
          BY <2>8, <4>2, MineStays
      <3>3. QED
        BY <3>1, <3>2
    <2>13. AliasOwned'
      BY <2>12 DEF AliasOwned, Mine, Used
    <2>14. QED
      BY <1>1, <2>1, <2>4, <2>5, <2>6, <2>8, <2>9, <2>10, <2>13
  <1>7. CASE InstallRefused(p, current)
    <2>1. /\ UNCHANGED <<clock, record, logout, aliases>> /\ slots' \subseteq slots
          /\ Finish(p, "unavailable")
      BY <1>1, <1>7 DEF InstallRefused
    <2>2. AliasOwned'
      BY <1>1, <2>1 DEF AliasOwned, Mine, Used
    <2>3. \A id \in Id : Mobile(id)' => record'[id].issuance \in Issuance
      BY <1>1, <2>1 DEF Mobile, Base, MobileUsed
    <2>4. QED
      BY <1>1, <1>2, <1>4, <2>1, <2>2, <2>3
  <1>8. QED
    <2>1. ASSUME NEW id \in Id, InstallNew(p, current, id)
          PROVE  \E j \in Job : /\ job' = [job EXCEPT ![p] = j]
                                /\ j.op = "install" /\ j.iss = job[p].iss /\ j.at = "done"
                                /\ j.reply = "installed" =>
                                      current /\ j.id \in Id /\ aliases'[j.iss] = j.id
      BY <1>3, <1>6, <2>1
    <2>2. CASE \E id \in Id : InstallNew(p, current, id)
      BY <1>2, <1>6, <2>1, <2>2
    <2>3. QED
      BY <1>5, <1>7, <2>2 DEF InstallEnded

\* The end of an install by a route that also leaves the queue of its context.
LEMMA CoreInstall ==
  ASSUME CoreInv, NEW p \in Proc, NEW current \in BOOLEAN, InstallEnded(p, current),
         locks' \in [LockKey -> Seq(Proc)],
         \A q \in Proc, l \in Issuance \cup Id : q # p /\ Holds(q, l) => Holds(q, l)'
  PROVE  CoreInv'
  <1>1. /\ MobileTypeOK /\ MobileUsed /\ JobsNamed /\ Running
        /\ Acknowledged /\ LateRead /\ ConfirmedIsRevoked /\ job \in [Proc -> Job]
    BY DEF CoreInv, Base, MobileTypeOK
  <1>2. PICK j \in Job : /\ job' = [job EXCEPT ![p] = j]
                         /\ j.op = "install" /\ j.iss = job[p].iss /\ j.at = "done"
    BY InstallEffect
  <1>3. /\ job[p].iss \in Issuance
        /\ UNCHANGED <<clock, logout, cancellations, receipt, revoked>>
        /\ \A id \in Id : Used(id) => record'[id] = record[id]
        /\ record' \in [Id -> Record \cup {NoRecord}] /\ slots' \subseteq Id
        /\ \A id \in Id : Mobile(id)' => record'[id].issuance \in Issuance
        /\ \A id \in slots' : id \in slots \/ Used(id)'
        /\ aliases' \in [Issuance -> Id \cup {NoId}] /\ AliasOwned'
    BY InstallEffect
  <1>4. job'[p] = j /\ \A q \in Proc : q # p => job'[q] = job[q]
    BY <1>1, <1>2
  <1>5. job' \in [Proc -> Job]
    BY <1>1, <1>2
  <1>6. MobileTypeOK'
    BY <1>1, <1>3, <1>5 DEF MobileTypeOK, StoreTypeOK
  <1>7. \A id \in Id : /\ Used(id) => Used(id)' /\ Credential(id)' = Credential(id)
                                   /\ Mobile(id)' = Mobile(id)
                       /\ Denied(id)' = Denied(id)
    BY <1>3 DEF Used, Credential, Mobile, Denied
  <1>8. MobileUsed'
    <2>1. \A id \in slots' \cup cancellations' : Used(id)'
      <3>1. slots \subseteq Id /\ cancellations \subseteq Id
        BY <1>1 DEF MobileTypeOK, StoreTypeOK
      <3>2. \A id \in slots \cup cancellations : Used(id)'
        BY <1>1, <1>7, <3>1 DEF MobileUsed
      <3>3. QED
        BY <1>3, <3>2
    <2>2. /\ \A id \in Id : Denied(id)' => Used(id)'
          /\ \A id \in cancellations' : Denied(id)'
      BY <1>1, <1>3, <1>7 DEF MobileUsed, MobileTypeOK
    <2>3. QED
      BY <1>3, <2>1, <2>2 DEF MobileUsed
  <1>9. ASSUME NEW q \in Proc
        PROVE  /\ job'[q].op \in {"read", "logout"} => job'[q].id \in Id /\ Used(job'[q].id)
               /\ job'[q].op \in {"install", "cancel"} => job'[q].iss \in Issuance
               /\ job'[q].op = "logout" /\ job'[q].at # "done" => Denied(job'[q].id)
               /\ job'[q].op = "none" => job'[q].at = "done"
               /\ job'[q].at # "done" => job'[q].reply = "none"
    BY <1>1, <1>2, <1>3, <1>4 DEF JobsNamed
  <1>10. JobsNamed'
    BY <1>3, <1>7, <1>9 DEF JobsNamed, Used, Denied
  <1>11. Running'
    <2>1. ASSUME NEW q \in Proc, NEW l \in Issuance \cup Id, q # p, Holds(q, l)
          PROVE  Holds(q, l)'
      BY <2>1
    <2>2. ASSUME NEW q \in Proc, job'[q].at \in {"calling", "answered"}, NEW l,
                 \/ job'[q].op = "install" /\ l = job'[q].iss
                 \/ job'[q].op = "logout" /\ l = job'[q].id
          PROVE  Holds(q, l)'
      <3>1. q # p /\ job'[q] = job[q]
        BY <1>2, <1>4, <2>2
      <3>2. Holds(q, l) /\ l \in Issuance \cup Id
        BY <1>1, <2>2, <3>1 DEF Running, JobsNamed
      <3>3. QED
        BY <2>1, <3>1, <3>2
    <2>3. QED
      BY <2>2 DEF Running, Holds
  <1>12. Acknowledged' /\ LateRead'
    <2>1. ASSUME NEW q \in Proc, job'[q].op = "logout", job'[q].ok, NEW id, id = job'[q].id
          PROVE  Credential(id)' \in revoked'
      <3>1. job'[q] = job[q] /\ id \in Id /\ Used(id)
        BY <1>1, <1>2, <1>4, <2>1 DEF JobsNamed
      <3>2. Credential(id) \in revoked /\ Credential(id)' = Credential(id)
        BY <1>1, <1>7, <2>1, <3>1 DEF Acknowledged
      <3>3. QED
        BY <1>3, <3>2
    <2>2. ASSUME NEW q \in Proc, job'[q].op = "read", job'[q].late, NEW id, id = job'[q].id,
                 Mobile(id)'
          PROVE  /\ ~job'[q].ok /\ job'[q].reply # "authenticated"
                 /\ job'[q].at # "done" => job'[q].iss \in revoked'
      <3>1. job'[q] = job[q] /\ id \in Id /\ Used(id)
        BY <1>1, <1>2, <1>4, <2>2 DEF JobsNamed
      <3>2. Mobile(id)
        BY <1>7, <2>2, <3>1
      <3>3. QED
        BY <1>1, <1>3, <2>2, <3>1, <3>2 DEF LateRead
    <2>3. QED
      BY <2>1, <2>2 DEF Acknowledged, LateRead, Credential, Mobile
  <1>13. ConfirmedIsRevoked'
    BY <1>1, <1>3, <1>7 DEF ConfirmedIsRevoked, MobileUsed, Denied
  <1>14. QED
    BY <1>3, <1>6, <1>8, <1>10, <1>11, <1>12, <1>13 DEF CoreInv, Base

-----------------------------------------------------------------------------
(* What a step leaves of the contexts and of the requests it does not move. *)

\* What a step may do to a context that has been drawn.
Evolves(c) ==
    Drawn(c) =>
        /\ Drawn(c)'
        /\ ctx'[c].session = ctx[c].session
        /\ ctx[c].phone # NoIssuance => ctx'[c].phone = ctx[c].phone
        /\ ctx[c].logoutId # NoId => ctx'[c].logoutId = ctx[c].logoutId
        /\ ctx'[c].until <= ctx[c].until
        /\ ctx[c].complete => ctx'[c].complete
        /\ ctx[c].started => ctx'[c].started /\ (ctx[c].tx = 0 => ctx'[c].tx = 0)

\* A context leaves the Map when it is over, or when nothing owns it.
Drops ==
    \A c \in contexts \ contexts' :
        ctx[c].until <= clock \/ ctx[c].complete \/ ctx[c].phone = NoIssuance

\* The session store, UBID and the clock go on.
Onward ==
    /\ CoreInv'
    /\ \A id \in Id : Used(id) => record'[id] = record[id]
    /\ revoked \subseteq revoked'
    /\ clock <= clock'

Unmoved(q) ==
    /\ req'[q] = req[q]
    /\ job'[q].op = job[q].op /\ job'[q].iss = job[q].iss /\ job'[q].id = job[q].id
    /\ \A c \in Context :
          Holds(q, c) => Holds(q, c)' /\ ctx'[c].phone = ctx[c].phone

LEMMA KeptStays ==
  ASSUME BffInv, Onward, BffTypeOK', Drops, NEW c \in Context, Evolves(c),
         ctx[c].phone # NoIssuance, Kept(c)
  PROVE  Kept(c)'
  <1>1. /\ ctx[c].until \in Nat /\ ctx'[c].until \in Nat /\ clock \in Nat /\ clock' \in Nat
        /\ clock <= clock'
    BY DEF BffInv, CoreInv, Base, BffTypeOK, MobileTypeOK, StoreTypeOK, ContextRecord, Onward
  <1>2. Drawn(c)
    BY DEF Drawn
  <1>3. SUFFICES ASSUME ctx'[c].until > clock', ~ctx'[c].complete
                 PROVE  c \in contexts'
    BY DEF Kept
  <1>4. ctx[c].until > clock /\ ~ctx[c].complete
    BY <1>1, <1>2, <1>3 DEF Evolves
  <1>5. QED
    BY <1>1, <1>4 DEF Kept, Drops

LEMMA ContextStays ==
  ASSUME BffInv, Onward, BffTypeOK', Drops, NEW c \in Context, Evolves(c),
         ctx'[c] = ctx[c], c \in contexts' => Drawn(c)'
  PROVE  ContextGood(c)'
  <1>1. ContextGood(c) /\ revoked \subseteq revoked' /\ \A id \in Id : Used(id) => record'[id] = record[id]
    BY DEF BffInv, Onward
  <1>2. NoIssuance \notin Issuance
    BY StoreAssumption
  <1>3. ctx[c].orphan # NoIssuance => Kept(c)'
    BY <1>1, KeptStays DEF ContextGood
  <1>4. ctx[c].cancelled => Revoked(ctx[c].phone)'
    BY <1>1 DEF ContextGood, Revoked
  <1>5. ctx[c].alias # NoId => Mine(ctx[c].alias, ctx[c].phone)'
    BY <1>1 DEF ContextGood, Mine, Used
  <1>6. \/ ctx[c].logoutId = NoId \/ ctx[c].session # NoId
        \/ Mine(ctx[c].logoutId, ctx[c].phone)'
    BY <1>1 DEF ContextGood, Mine, Used
  <1>7. /\ ctx[c].tx # 0 => ctx[c].started
        /\ ctx[c].tx # 0 \/ c \in contexts' => Drawn(c)'
    <2>1. ctx[c].tx # 0 => ctx[c].started /\ Drawn(c)
      BY <1>1 DEF ContextGood
    <2>2. QED
      BY <2>1 DEF Evolves
  <1>8. QED
    BY <1>1, <1>3, <1>4, <1>5, <1>6, <1>7 DEF ContextGood, Mine, Used, Revoked

LEMMA RequestStays ==
  ASSUME BffInv, Onward, BffTypeOK', Drops, \A c \in Context : Evolves(c),
         NEW q \in Proc, Unmoved(q)
  PROVE  RequestGood(q)'
  <1>1. RequestGood(q) /\ revoked \subseteq revoked' /\ req'[q] = req[q] /\ NoIssuance \notin Issuance
    BY StoreAssumption DEF BffInv, Onward, Unmoved
  <1>2. CASE req[q].op = "none"
    BY <1>1, <1>2 DEF RequestGood, Obtaining, Commands
  <1>3. CASE req[q].op # "none"
    <2>1. PICK c \in Context : c = req[q].ctx
      BY <1>1, <1>3 DEF RequestGood
    <2>2. Drawn(c) /\ Evolves(c) /\ Drawn(c)'
      BY <1>1, <1>3, <2>1 DEF RequestGood, Evolves
    <2>3. req[q].op \in Commands /\ req[q].at \notin {"queued", "done"} =>
              Holds(q, c)' /\ ctx'[c].phone = ctx[c].phone
      BY <1>1, <2>1 DEF RequestGood, Unmoved
    <2>4. ctx[c].phone # NoIssuance /\ Kept(c) => Kept(c)'
      BY <2>2, KeptStays
    <2>5. /\ req[q].op \in Commands \ {"desktop"} /\ req[q].at \notin {"queued", "done"} =>
                 ctx'[c].session = NoId
          /\ req[q].op = "issue" /\ req[q].at = "checking" => ctx'[c].phone = NoIssuance \/ Kept(c)'
          /\ req[q].op = "issue" /\ req[q].at \in Obtaining => ctx'[c].phone \in Issuance /\ Kept(c)'
      BY <1>1, <2>1, <2>2, <2>3, <2>4 DEF RequestGood, Evolves, Commands, Obtaining
    <2>6. /\ req[q].at \in {"cancelling", "cancelled"} =>
                 req[q].iss \in Issuance /\ req[q].iss = ctx'[c].phone
          /\ req[q].at = "cancelled" /\ req[q].ok => req[q].iss \in revoked'
      BY <1>1, <2>1, <2>2 DEF RequestGood, Evolves
    <2>7. req[q].at = "installing" => job'[q].op = "install" /\ job'[q].iss = ctx'[c].phone
      <3>1. SUFFICES ASSUME req[q].at = "installing"
                     PROVE  job'[q].op = "install" /\ job'[q].iss = ctx'[c].phone
        OBVIOUS
      <3>2. job[q].op = "install" /\ job[q].iss = ctx[c].phone
        BY <1>1, <2>1, <3>1 DEF RequestGood
      <3>3. job[q].iss \in Issuance
        BY <3>2 DEF BffInv, CoreInv, Base, JobsNamed
      <3>4. QED
        BY <1>1, <2>2, <3>2, <3>3 DEF Evolves, Unmoved
    <2>8. req[q].at = "revoking" => /\ job'[q].op = "logout" /\ job'[q].id = ctx'[c].logoutId
                                    /\ ctx'[c].logoutId # NoId
      BY <1>1, <2>1, <2>2 DEF RequestGood, Evolves, Unmoved
    <2>9. req[q].op = "logout" /\ req[q].reply = "confirmed" =>
              ctx'[c].session # NoId \/ (ctx'[c].phone \in Issuance /\ ctx'[c].phone \in revoked')
      BY <1>1, <2>1, <2>2 DEF RequestGood, Evolves, Revoked
    <2>10. req[q].op = "callback" => ctx'[c].started /\ ctx'[c].tx = 0
      BY <1>1, <2>1, <2>2 DEF RequestGood, Evolves
    <2>11. /\ req[q].at # "done" => req[q].op # "none" /\ req[q].reply = "none"
           /\ req[q].at \in {"queued", "checking"} => req[q].op \in Commands
      BY <1>1 DEF RequestGood
    <2>12. QED
      BY <1>1, <2>1, <2>2, <2>3, <2>5, <2>6, <2>7, <2>8, <2>9, <2>10, <2>11
         DEF RequestGood, Revoked
  <1>4. QED
    BY <1>2, <1>3

\* A step keeps the invariant if it keeps it of what it moves.
LEMMA BffFrame ==
  ASSUME BffInv, Onward, BffTypeOK', Drops,
         \A c \in Context : Evolves(c) /\ (ctx'[c] = ctx[c] \/ ContextGood(c)'),
         \A c \in contexts' : Drawn(c)',
         \A q \in Proc : Unmoved(q) \/ RequestGood(q)',
         OneCallback'
  PROVE  BffInv'
  <1>1. \A c \in Context : ContextGood(c)'
    BY ContextStays
  <1>2. \A q \in Proc : RequestGood(q)'
    BY RequestStays
  <1>3. QED
    BY <1>1, <1>2 DEF BffInv, Onward

-----------------------------------------------------------------------------
(* A step of one handler.                                                  *)

\* A step of the manager that p alone makes: the calls of the other requests
\* and their places in the queues stay.
Alone(p) ==
    /\ Onward
    /\ \A q \in Proc \ {p} : job'[q] = job[q]
    /\ \A q \in Proc \ {p}, k \in Context : Holds(q, k) => Holds(q, k)'

\* p stays at the head of the queue of its context.
KeepsTurn(p) == \A k \in Context : Holds(p, k) => Holds(p, k)'

LEMMA QuietAlone ==
  ASSUME BffInv, UNCHANGED mobileVars
  PROVE  \A p \in Proc : Alone(p) /\ KeepsTurn(p)
  <1>1. CoreInv'
    BY CoreManager DEF BffInv
  <1>2. clock \in Nat
    BY DEF BffInv, CoreInv, Base, MobileTypeOK, StoreTypeOK
  <1>3. UNCHANGED <<clock, record, revoked, job, locks>>
    BY DEF mobileVars, storeVars, managerVars, ubidVars
  <1>4. QED
    BY <1>1, <1>2, <1>3 DEF Alone, KeepsTurn, Onward, Holds

\* p takes its place in the queue of a context, or gives it up.
LEMMA LockAlone ==
  ASSUME BffInv, NEW p \in Proc, NEW c \in Context,
         Acquire(p, c) \/ (Holds(p, c) /\ Release(c)),
         UNCHANGED <<storeVars, cancellations, aliases, job, ubidVars>>
  PROVE  Alone(p)
  <1>1. CoreInv /\ Base /\ MobileTypeOK /\ c \in LockKey /\ clock \in Nat /\ Context \subseteq LockKey
    BY BffAssumption DEF BffInv, CoreInv, Base, MobileTypeOK, StoreTypeOK
  <1>2. UNCHANGED <<clock, record, slots, logout, receipt, revoked>>
    BY DEF storeVars, ubidVars
  <1>3. locks' \in [LockKey -> Seq(Proc)]
    BY <1>1, LockUpdates
  <1>4. \A l \in Issuance \cup Id : locks'[l] = locks[l]
    BY <1>1, BffAssumption, ManagerAssumption DEF Acquire, Release, MobileTypeOK
  <1>5. revoked \subseteq Issuance \cup Id
    BY <1>1 DEF MobileTypeOK
  <1>6. CoreInv'
    BY <1>1, <1>2, <1>3, <1>4, <1>5, CoreOuter
  <1>7. \A q \in Proc \ {p}, k \in Context : Holds(q, k) => Holds(q, k)'
    BY <1>1, LockFrame
  <1>8. QED
    BY <1>1, <1>2, <1>6, <1>7 DEF Alone, Onward

\* A session created by a callback.
LEMMA CreateAlone ==
  ASSUME BffInv, NEW id \in Id, OAuthCreate(id)
  PROVE  \A p \in Proc : Alone(p) /\ KeepsTurn(p)
  <1>1. CoreInv /\ Base /\ [MobileNext]_mobileVars /\ clock \in Nat
    BY DEF BffInv, CoreInv, MobileNext, Base, MobileTypeOK, StoreTypeOK
  <1>2. UNCHANGED <<clock, job, locks, revoked>>
    BY DEF OAuthCreate, Create, managerVars, ubidVars
  <1>3. CoreInv' /\ \A x \in Id : Used(x) => record'[x] = record[x]
    BY <1>1, CoreManager, Monotone
  <1>4. QED
    BY <1>1, <1>2, <1>3 DEF Alone, KeepsTurn, Onward, Holds

\* The manager's own steps, none of which touches the queue of a context.
ManagerOf(p) ==
    \/ \E id \in Id : StartRead(p, id) \/ StartLogout(p, id)
    \/ \E i \in Issuance : StartInstall(p, i)
    \/ Serve(p) \/ Drop(p)
    \/ EndRead(p) \/ BeginInstall(p) \/ BeginLogoutCall(p) \/ EndLogout(p)

LEMMA ManagerAlone ==
  ASSUME BffInv, NEW p \in Proc, ManagerOf(p)
  PROVE  Alone(p) /\ KeepsTurn(p)
  <1>1. CoreInv /\ Base /\ MobileTypeOK /\ Running /\ [MobileNext]_mobileVars /\ clock \in Nat
    BY DEF BffInv, CoreInv, MobileNext, Step, Base, MobileTypeOK, StoreTypeOK, ManagerOf
  <1>2. CoreInv' /\ \A x \in Id : Used(x) => record'[x] = record[x]
    BY <1>1, CoreManager, Monotone
  <1>3. \A q \in Proc : q # p => job'[q] = job[q]
    BY <1>1, StepFrame DEF ManagerOf, Step
  <1>4. clock' = clock /\ revoked \subseteq revoked'
    BY DEF ManagerOf, StartRead, StartLogout, StartInstall, Serve, Drop, EndRead, BeginInstall,
           BeginLogoutCall, EndLogout, storeVars, ubidVars
  <1>5. \A k \in Context : locks'[k] = locks[k]
    <2>1. \A l \in Issuance \cup Id : l \in LockKey /\ l \notin Context
      BY BffAssumption, ManagerAssumption
    <2>2. locks \in [LockKey -> Seq(Proc)] /\ Context \subseteq LockKey
      BY <1>1, BffAssumption DEF MobileTypeOK
    <2>3. job[p].op = "logout" => job[p].id \in Id
      BY <1>1 DEF Base, JobsNamed
    <2>4. ASSUME NEW l \in Issuance \cup Id, Acquire(p, l) \/ Release(l)
          PROVE  \A k \in Context : locks'[k] = locks[k]
      BY <2>1, <2>2, <2>4 DEF Acquire, Release
    <2>5. \/ UNCHANGED locks
          \/ \E l \in Issuance \cup Id : Acquire(p, l) \/ Release(l)
      BY <2>3 DEF ManagerOf, StartRead, StartLogout, StartInstall, Serve, Drop, EndRead,
           BeginInstall, BeginLogoutCall, EndLogout
    <2>6. QED
      BY <2>4, <2>5
  <1>6. QED
    BY <1>1, <1>2, <1>3, <1>4, <1>5 DEF Alone, KeepsTurn, Onward, Holds

\* UBID revokes a credential, for p or on its own.
LEMMA RevokeAlone ==
  ASSUME BffInv, NEW i \in Issuance \cup Id, revoked' = revoked \cup {i},
         UNCHANGED <<storeVars, managerVars, receipt>>
  PROVE  \A p \in Proc : Alone(p) /\ KeepsTurn(p)
  <1>1. CoreInv /\ MobileTypeOK /\ clock \in Nat
    BY DEF BffInv, CoreInv, Base, MobileTypeOK, StoreTypeOK
  <1>2. UNCHANGED <<clock, record, slots, logout, cancellations, aliases, job, receipt, locks>>
    BY DEF storeVars, managerVars
  <1>3. /\ locks' \in [LockKey -> Seq(Proc)] /\ revoked' \subseteq Issuance \cup Id
        /\ \A l \in Issuance \cup Id : locks'[l] = locks[l]
    BY <1>1, <1>2 DEF MobileTypeOK
  <1>4. CoreInv'
    BY <1>1, <1>2, <1>3, CoreOuter
  <1>5. QED
    BY <1>1, <1>2, <1>4 DEF Alone, KeepsTurn, Onward, Holds

\* The end of an install, with which p leaves two queues.
LEMMA InstallAlone ==
  ASSUME BffInv, NEW p \in Proc, NEW current \in BOOLEAN, InstallEnded(p, current),
         NEW c \in Context, Holds(p, c),
         locks' = [locks EXCEPT ![c] = Tail(@), ![job[p].iss] = Tail(@)]
  PROVE  Alone(p)
  <1>1. CoreInv /\ Base /\ MobileTypeOK /\ Running /\ c \in LockKey /\ clock \in Nat
        /\ Context \subseteq LockKey /\ Issuance \cup Id \subseteq LockKey
        /\ locks \in [LockKey -> Seq(Proc)] /\ job \in [Proc -> Job]
    BY BffAssumption, ManagerAssumption
       DEF BffInv, CoreInv, Base, MobileTypeOK, StoreTypeOK
  <1>2. job[p].op = "install" /\ job[p].at = "answered" /\ job[p].iss \in Issuance
    BY <1>1, InstallEffect
  <1>3. PICK i \in Issuance : i = job[p].iss
    BY <1>2
  <1>4. Holds(p, i) /\ i \in LockKey /\ i # c
    BY <1>1, <1>2, <1>3, BffAssumption DEF Running
  <1>5. /\ locks'[c] = Tail(locks[c]) /\ locks'[i] = Tail(locks[i])
        /\ \A l \in LockKey \ {c, i} : locks'[l] = locks[l]
        /\ locks' = [l \in LockKey |-> locks'[l]]
    BY <1>1, <1>3, <1>4
  <1>6. \A l \in LockKey : locks[l] \in Seq(Proc)
    BY <1>1
  <1>7. Tail(locks[c]) \in Seq(Proc) /\ Tail(locks[i]) \in Seq(Proc)
    BY <1>1, <1>4, <1>6, HeadTailProperties DEF Holds
  <1>8. locks' \in [LockKey -> Seq(Proc)]
    BY <1>5, <1>6, <1>7
  <1>9. \A q \in Proc, l \in LockKey : q # p /\ Holds(q, l) => Holds(q, l)'
    BY <1>4, <1>5 DEF Holds
  <1>10. CoreInv'
    BY <1>1, <1>8, <1>9, CoreInstall
  <1>11. /\ UNCHANGED <<clock, revoked>> /\ \A id \in Id : Used(id) => record'[id] = record[id]
         /\ \E j \in Job : job' = [job EXCEPT ![p] = j]
    BY <1>1, InstallEffect
  <1>12. \A q \in Proc \ {p} : job'[q] = job[q]
    BY <1>1, <1>11
  <1>13. QED
    BY <1>1, <1>9, <1>10, <1>11, <1>12 DEF Alone, Onward

LEMMA AbsentRequest == NoRequest \in Request /\ NoRequest.op = "none" /\ NoRequest.at = "done"
  BY DEF NoRequest, Request

\* What an action of a handler must keep: everything but p and one context
\* stays.
LEMMA HandlerStep ==
  ASSUME BffInv, NEW p \in Proc, Alone(p), NEW r \in Request, NEW c \in Context,
         NEW x \in ContextRecord,
         req' = [req EXCEPT ![p] = r], ctx' = [ctx EXCEPT ![c] = x],
         contexts' \in {contexts, Live},
         Evolves(c), x.phone = ctx[c].phone \/ Holds(p, c),
         x = ctx[c] \/ ContextGood(c)',
         RequestGood(p)',
         r.op = "callback" => \A q \in Proc \ {p} : req[q].op = "callback" => req[q].ctx # r.ctx
  PROVE  BffInv'
  <1>1. /\ Onward /\ CoreInv' /\ ctx \in [Context -> ContextRecord] /\ req \in [Proc -> Request]
        /\ contexts \subseteq Context /\ clock \in Nat /\ OneCallback
        /\ \A d \in Context : ContextGood(d)
    BY DEF BffInv, BffTypeOK, Alone, Onward, MobileTypeOK, StoreTypeOK
  <1>2. /\ ctx'[c] = x /\ \A d \in Context : d # c => ctx'[d] = ctx[d]
        /\ req'[p] = r /\ \A q \in Proc : q # p => req'[q] = req[q]
    BY <1>1
  <1>3. contexts' \subseteq contexts /\ \A d \in contexts \ contexts' : ctx[d].until <= clock
    <2>1. \A d \in Context : ctx[d].until \in Nat
      BY <1>1 DEF ContextRecord
    <2>2. QED
      BY <1>1, <2>1 DEF Live
  <1>4. BffTypeOK'
    <2>1. MobileTypeOK'
      BY <1>1 DEF CoreInv, Base
    <2>2. ctx' \in [Context -> ContextRecord] /\ req' \in [Proc -> Request]
      BY <1>1
    <2>3. QED
      BY <1>1, <1>3, <2>1, <2>2 DEF BffTypeOK
  <1>5. Drops
    BY <1>3 DEF Drops
  <1>6. \A d \in Context : Evolves(d) /\ (ctx'[d] = ctx[d] \/ ContextGood(d)')
    <2>1. \A d \in Context : d # c => Evolves(d)
      <3>1. \A d \in Context : ctx[d].until \in Nat
        BY <1>1 DEF ContextRecord
      <3>2. QED
        BY <1>2, <3>1 DEF Evolves, Drawn
    <2>2. QED
      BY <1>2, <2>1
  <1>7. \A d \in contexts' : Drawn(d)'
    BY <1>1, <1>3, <1>6 DEF ContextGood, Evolves
  <1>8. \A q \in Proc : Unmoved(q) \/ RequestGood(q)'
    <2>1. ASSUME NEW q \in Proc, q # p
          PROVE  Unmoved(q)
      <3>1. \A d \in Context : Holds(q, d) => ctx'[d].phone = ctx[d].phone
        BY <1>2, <2>1 DEF Holds
      <3>2. QED
        BY <1>2, <2>1, <3>1 DEF Unmoved, Alone
    <2>2. QED
      BY <2>1
  <1>9. OneCallback'
    BY <1>1, <1>2 DEF OneCallback
  <1>10. QED
    BY <1>1, <1>4, <1>5, <1>6, <1>7, <1>8, <1>9, BffFrame

\* What the handler's step leaves of its own context.
LEMMA SameContext ==
  ASSUME BffInv, NEW c \in Context, UNCHANGED ctx
  PROVE  ctx[c] \in ContextRecord /\ ctx' = [ctx EXCEPT ![c] = ctx[c]] /\ Evolves(c)
  <1>1. ctx \in [Context -> ContextRecord] /\ ctx[c] \in ContextRecord
    BY DEF BffInv, BffTypeOK
  <1>2. ctx[c].until \in Nat
    BY <1>1 DEF ContextRecord
  <1>3. QED
    BY <1>1, <1>2 DEF Evolves, Drawn

LEMMA KeptOn ==
  ASSUME BffInv, Onward, NEW c \in Context, Kept(c), Drawn(c), Evolves(c),
         ctx'[c].until \in Nat, contexts' \in {contexts, Live}
  PROVE  Kept(c)'
  <1>1. ctx[c].until \in Nat /\ clock \in Nat /\ clock' \in Nat /\ clock <= clock'
    BY DEF BffInv, BffTypeOK, CoreInv, Base, MobileTypeOK, StoreTypeOK, ContextRecord, Onward
  <1>2. SUFFICES ASSUME ctx'[c].until > clock', ~ctx'[c].complete
                 PROVE  c \in contexts'
    BY DEF Kept
  <1>3. ctx[c].until > clock /\ ~ctx[c].complete
    BY <1>1, <1>2 DEF Evolves
  <1>4. QED
    BY <1>3 DEF Kept, Live

LEMMA ContextMoves ==
  ASSUME BffInv, Onward, NEW c \in Context, NEW x \in ContextRecord, ctx'[c] = x,
         contexts' \in {contexts, Live}, Evolves(c), Drawn(c),
         x.orphan # NoIssuance => \/ x.orphan = ctx[c].orphan
                                  \/ x.orphan = x.phone /\ ctx[c].phone = x.phone /\ Kept(c),
         x.cancelled => ctx[c].cancelled \/ (x.phone \in Issuance /\ x.phone \in revoked'),
         x.alias # NoId => x.alias = ctx[c].alias \/ Mine(x.alias, x.phone)',
         x.logoutId # NoId => \/ x.logoutId = ctx[c].logoutId
                              \/ x.session # NoId
                              \/ Mine(x.logoutId, x.phone)',
         x.phone # NoIssuance => x.session = NoId,
         x.tx # 0 => x.started
  PROVE  ContextGood(c)'
  <1>1. /\ ContextGood(c) /\ revoked \subseteq revoked' /\ NoIssuance \notin Issuance
        /\ \A id \in Id : Used(id) => record'[id] = record[id]
        /\ x.until \in Nat /\ ctx[c].until \in Nat
    BY StoreAssumption DEF BffInv, Onward, BffTypeOK, ContextRecord
  <1>2. ctx[c].phone # NoIssuance => x.phone = ctx[c].phone
    BY DEF Evolves
  <1>3. x.orphan # NoIssuance => x.orphan = x.phone /\ Kept(c)
    BY <1>1, <1>2 DEF ContextGood
  <1>4. x.orphan # NoIssuance => x.orphan = x.phone /\ Kept(c)'
    BY <1>1, <1>3, KeptOn
  <1>5. x.cancelled => x.phone \in Issuance /\ x.phone \in revoked'
    BY <1>1, <1>2 DEF ContextGood, Revoked
  <1>6. \A id, i : Mine(id, i) => Mine(id, i)'
    BY <1>1 DEF Mine, Used
  <1>7. x.alias # NoId => Mine(x.alias, x.phone)'
    <2>1. SUFFICES ASSUME x.alias # NoId, x.alias = ctx[c].alias
                   PROVE  Mine(x.alias, x.phone)'
      OBVIOUS
    <2>2. Mine(ctx[c].alias, ctx[c].phone)
      BY <1>1, <2>1 DEF ContextGood
    <2>3. x.phone = ctx[c].phone
      BY <1>1, <1>2, <2>2 DEF Mine
    <2>4. QED
      BY <1>6, <2>1, <2>2, <2>3
  <1>8. x.logoutId # NoId => x.session # NoId \/ Mine(x.logoutId, x.phone)'
    <2>1. SUFFICES ASSUME x.logoutId # NoId, x.logoutId = ctx[c].logoutId, x.session = NoId
                   PROVE  Mine(x.logoutId, x.phone)'
      OBVIOUS
    <2>2. Mine(ctx[c].logoutId, ctx[c].phone)
      BY <1>1, <2>1 DEF ContextGood, Evolves
    <2>3. x.phone = ctx[c].phone
      BY <1>1, <1>2, <2>2 DEF Mine
    <2>4. QED
      BY <1>6, <2>1, <2>2, <2>3
  <1>9. Drawn(c)'
    BY DEF Evolves
  <1>10. QED
    BY <1>4, <1>5, <1>7, <1>8, <1>9 DEF ContextGood, Revoked, Mine, Used

Answers == {"none", "ok", "authenticated", "session", "pending", "confirmed",
            "local-only", "unavailable"}

\* Request p is answered with w, which leaves x of its context c.
AnswerTo(p, c, w, x) ==
    /\ Reply(p, w) /\ req[p].op # "none" /\ c = req[p].ctx
    /\ ctx' = [ctx EXCEPT ![c] = x] /\ contexts' \in {contexts, Live}
    /\ Evolves(c)
    /\ x.phone = ctx[c].phone \/ Holds(p, c)
    /\ x = ctx[c] \/ ContextGood(c)'
    /\ req[p].op = "logout" /\ w = "confirmed" =>
           x.session # NoId \/ (x.phone \in Issuance /\ x.phone \in revoked')

LEMMA AnsweredStep ==
  ASSUME BffInv, NEW p \in Proc, Alone(p), NEW c \in Context, NEW w \in Answers,
         NEW x \in ContextRecord, AnswerTo(p, c, w, x)
  PROVE  BffInv'
  <1> DEFINE r == [NoRequest EXCEPT !.op = req[p].op, !.ctx = req[p].ctx, !.reply = w]
  <1>0. /\ Reply(p, w) /\ req[p].op # "none" /\ c = req[p].ctx
        /\ ctx' = [ctx EXCEPT ![c] = x] /\ contexts' \in {contexts, Live} /\ Evolves(c)
        /\ req[p].op = "logout" /\ w = "confirmed" =>
               x.session # NoId \/ (x.phone \in Issuance /\ x.phone \in revoked')
    BY DEF AnswerTo
  <1>1. /\ req \in [Proc -> Request] /\ req[p] \in Request /\ RequestGood(p)
        /\ ctx \in [Context -> ContextRecord] /\ OneCallback
    BY DEF BffInv, BffTypeOK
  <1>2. /\ r \in Request /\ r.op = req[p].op /\ r.ctx = c /\ r.at = "done" /\ r.reply = w
    <2>1. r \in Request
      <3>1. req[p].op \in Commands \cup {"none", "logout", "callback"} /\ req[p].ctx \in Context \cup {NoContext}
        BY <1>1 DEF Request
      <3>2. [NoRequest EXCEPT !.op = req[p].op, !.ctx = req[p].ctx] \in Request
        BY <3>1, AbsentRequest DEF Request
      <3>3. \A v \in Request : [v EXCEPT !.reply = w] \in Request
        BY DEF Request, Answers
      <3>4. QED
        BY <3>2, <3>3, Zenon
    <2>2. r.op = req[p].op /\ r.ctx = c /\ r.reply = w
      BY <1>0, AbsentRequest DEF Request
    <2>3. r.at = "done"
      BY AbsentRequest DEF Request
    <2>4. QED
      BY <2>1, <2>2, <2>3
  <1>3. req' = [req EXCEPT ![p] = r]
    BY <1>0 DEF Reply
  <1> HIDE DEF r
  <1>4. req'[p] = r /\ ctx'[c] = x
    BY <1>0, <1>1, <1>3
  <1>5. Drawn(c) /\ Drawn(c)'
    BY <1>0, <1>1 DEF RequestGood, Evolves
  <1>6. r.op = "callback" => x.started /\ x.tx = 0
    BY <1>0, <1>1, <1>2, <1>4, <1>5 DEF RequestGood, Evolves
  <1>7. RequestGood(p)'
    BY <1>0, <1>2, <1>4, <1>5, <1>6 DEF RequestGood, Obtaining, Revoked
  <1>8. r.op = "callback" => \A q \in Proc \ {p} : req[q].op = "callback" => req[q].ctx # r.ctx
    BY <1>0, <1>1, <1>2 DEF OneCallback
  <1>9. QED
    BY <1>0, <1>2, <1>3, <1>7, <1>8, HandlerStep DEF AnswerTo

\* The request is answered and its context stays as it is.
LEMMA AnsweredAsIs ==
  ASSUME BffInv, NEW p \in Proc, Alone(p), req[p].op # "none",
         NEW w \in Answers, Reply(p, w), UNCHANGED ctx, contexts' \in {contexts, Live},
         req[p].op = "logout" => w # "confirmed"
  PROVE  BffInv'
  <1>1. PICK c \in Context : c = req[p].ctx
    BY DEF BffInv, RequestGood
  <1>2. PICK x \in ContextRecord : x = ctx[c] /\ ctx' = [ctx EXCEPT ![c] = x] /\ Evolves(c)
    BY SameContext
  <1>3. AnswerTo(p, c, w, x)
    BY <1>1, <1>2 DEF AnswerTo
  <1>4. QED
    BY <1>3, AnsweredStep

\* The handler of a command goes on.
LEMMA CommandMoved ==
  ASSUME BffInv, NEW p \in Proc, Alone(p), KeepsTurn(p), NEW c \in Context, c = req[p].ctx,
         NEW r \in Request, req' = [req EXCEPT ![p] = r],
         r.op = req[p].op, r.ctx = c, r.reply = "none", r.at \notin {"queued", "done", "revoking"},
         NEW x \in ContextRecord, ctx' = [ctx EXCEPT ![c] = x], contexts' = contexts,
         Evolves(c), x = ctx[c] \/ ContextGood(c)',
         r.op \in Commands, req[p].at # "done", Holds(p, c),
         req[p].at = "queued" => r.op = "desktop" \/ ctx[c].session = NoId,
         r.op = "issue" /\ r.at = "checking" => x.phone = NoIssuance \/ Kept(c)',
         r.op = "issue" /\ r.at \in Obtaining => x.phone \in Issuance /\ Kept(c)',
         r.at \in {"cancelling", "cancelled"} => r.iss \in Issuance /\ r.iss = x.phone,
         r.at = "cancelled" /\ r.ok => r.iss \in revoked',
         r.at = "installing" => job'[p].op = "install" /\ job'[p].iss = x.phone
  PROVE  BffInv'
  <1>1. /\ req \in [Proc -> Request] /\ RequestGood(p) /\ ctx \in [Context -> ContextRecord]
    BY DEF BffInv, BffTypeOK
  <1>2. req'[p] = r /\ ctx'[c] = x
    BY <1>1
  <1>3. Drawn(c) /\ Drawn(c)' /\ Holds(p, c)'
    BY <1>1 DEF RequestGood, Evolves, KeepsTurn
  <1>4. r.op # "desktop" => ctx'[c].session = NoId
    BY <1>1, <1>3 DEF RequestGood, Evolves
  <1>5. r.op \notin {"none", "logout", "callback"}
    BY DEF Commands
  <1>6. RequestGood(p)'
    BY <1>2, <1>3, <1>4, <1>5 DEF RequestGood
  <1>7. QED
    BY <1>5, <1>6, HandlerStep

-----------------------------------------------------------------------------
(* The actions of a command up to its answer.                              *)

\* The state in which a handler takes a step.
LEMMA AtHandler ==
  ASSUME BffInv, NEW p \in Proc, req[p].at # "done" \/ req[p].op # "none"
  PROVE  /\ req \in [Proc -> Request] /\ req[p] \in Request /\ RequestGood(p)
         /\ req[p].op # "none" /\ req[p].ctx \in Context /\ Drawn(req[p].ctx)
         /\ ctx \in [Context -> ContextRecord] /\ ctx[req[p].ctx] \in ContextRecord
         /\ ContextGood(req[p].ctx) /\ NoIssuance \notin Issuance
  <1>1. /\ req \in [Proc -> Request] /\ req[p] \in Request /\ RequestGood(p)
        /\ ctx \in [Context -> ContextRecord]
    BY DEF BffInv, BffTypeOK
  <1>2. req[p].op # "none" /\ req[p].ctx \in Context /\ Drawn(req[p].ctx)
    BY <1>1 DEF RequestGood
  <1>3. QED
    BY <1>1, <1>2, StoreAssumption DEF BffInv

LEMMA LeaveAlone ==
  ASSUME BffInv, NEW p \in Proc, req[p].ctx \in Context, Holds(p, req[p].ctx), Leave(p)
  PROVE  Alone(p)
  <1>1. PICK c \in Context : c = req[p].ctx
    OBVIOUS
  <1>2. Holds(p, c) /\ Release(c) /\ UNCHANGED <<storeVars, cancellations, aliases, job, ubidVars>>
    BY <1>1 DEF Leave
  <1>3. QED
    BY <1>2, LockAlone

\* A refused command leaves its queue.
LEMMA FailAsIs ==
  ASSUME BffInv, NEW p \in Proc, req[p].op \in Commands, Holds(p, req[p].ctx), Fail(p),
         UNCHANGED contextVars
  PROVE  BffInv'
  <1>1. req[p].op \notin {"none", "logout", "callback"}
    BY DEF Commands
  <1>2. Alone(p)
    BY <1>1, AtHandler, LeaveAlone DEF Fail
  <1>3. UNCHANGED ctx /\ contexts' \in {contexts, Live} /\ Reply(p, "unavailable")
    BY DEF contextVars, Fail
  <1>4. QED
    BY <1>1, <1>2, <1>3, AnsweredAsIs DEF Answers

Stages == {"queued", "reading", "checking", "upstream", "issuing", "issued",
           "installing", "cancelling", "cancelled", "revoking", "done"}

LEMMA GoEffect ==
  ASSUME BffInv, NEW p \in Proc, NEW at \in Stages, Go(p, at)
  PROVE  \E r \in Request :
            /\ req' = [req EXCEPT ![p] = r]
            /\ r.op = req[p].op /\ r.ctx = req[p].ctx /\ r.at = at /\ r.reply = req[p].reply
  <1> DEFINE r == [req[p] EXCEPT !.at = at]
  <1>1. req[p] \in Request
    BY DEF BffInv, BffTypeOK
  <1>2. r \in Request /\ r.op = req[p].op /\ r.ctx = req[p].ctx /\ r.at = at /\ r.reply = req[p].reply
    BY <1>1 DEF Request, Stages
  <1>3. req' = [req EXCEPT ![p] = r]
    BY DEF Go
  <1> HIDE DEF r
  <1>4. QED
    BY <1>2, <1>3

\* A command goes on and its context stays as it is.
LEMMA CommandGoes ==
  ASSUME BffInv, NEW p \in Proc, Alone(p), KeepsTurn(p), req[p].op \in Commands,
         req[p].at # "done", Holds(p, req[p].ctx),
         req[p].at = "queued" => req[p].op = "desktop" \/ ctx[req[p].ctx].session = NoId,
         NEW at \in {"reading", "checking", "upstream"}, Go(p, at), UNCHANGED contextVars,
         at = "checking" => Kept(req[p].ctx)
  PROVE  BffInv'
  <1>1. PICK c \in Context : c = req[p].ctx
    BY AtHandler
  <1>2. PICK r \in Request : /\ req' = [req EXCEPT ![p] = r]
                             /\ r.op = req[p].op /\ r.ctx = req[p].ctx /\ r.at = at
                             /\ r.reply = req[p].reply
    BY GoEffect DEF Stages
  <1>3. UNCHANGED ctx /\ contexts' = contexts /\ contexts' \in {contexts, Live}
    BY DEF contextVars
  <1> DEFINE x == ctx[c]
  <1>4. /\ x \in ContextRecord /\ ctx' = [ctx EXCEPT ![c] = x] /\ Evolves(c)
        /\ x = ctx[c] \/ ContextGood(c)'
    BY <1>3, SameContext
  <1>5. r.op = "issue" /\ r.at = "checking" => x.phone = NoIssuance \/ Kept(c)'
    <2>1. SUFFICES ASSUME r.at = "checking"
                   PROVE  Kept(c)'
      OBVIOUS
    <2>2. ctx'[c].until \in Nat /\ Drawn(c) /\ Onward
      BY <1>1, <1>3, <1>4, AtHandler DEF ContextRecord, Alone
    <2>3. QED
      BY <1>1, <1>2, <1>3, <1>4, <2>1, <2>2, KeptOn
  <1>6. r.reply = "none"
    BY <1>2, AtHandler DEF RequestGood
  <1>7. r.at \notin {"queued", "done", "revoking", "cancelling", "cancelled", "installing"} \cup Obtaining
    BY <1>2 DEF Obtaining
  <1>8. r.op = req[p].op /\ r.ctx = c /\ r.op \in Commands /\ Holds(p, c)
    BY <1>1, <1>2
  <1>9. req[p].at = "queued" => r.op = "desktop" \/ ctx[c].session = NoId
    BY <1>1, <1>2
  <1>10. /\ r.op = "issue" /\ r.at \in Obtaining => x.phone \in Issuance /\ Kept(c)'
         /\ r.at \in {"cancelling", "cancelled"} => r.iss \in Issuance /\ r.iss = x.phone
         /\ r.at = "cancelled" /\ r.ok => r.iss \in revoked'
         /\ r.at = "installing" => job'[p].op = "install" /\ job'[p].iss = x.phone
         /\ r.at \notin {"queued", "done", "revoking"}
    BY <1>7
  <1> HIDE DEF x
  <1>11. QED
    BY <1>1, <1>2, <1>3, <1>4, <1>5, <1>6, <1>8, <1>9, <1>10, CommandMoved

LEMMA StepEnterRefused ==
  ASSUME BffInv, NEW p \in Proc, EnterRefused(p)
  PROVE  BffInv'
  BY FailAsIs, AtHandler DEF EnterRefused, Entered, RequestGood

LEMMA StepCheckFailed ==
  ASSUME BffInv, NEW p \in Proc, CheckFailed(p)
  PROVE  BffInv'
  BY FailAsIs, AtHandler DEF CheckFailed, RequestGood

LEMMA StepCommandFailed ==
  ASSUME BffInv, NEW p \in Proc, CommandFailed(p)
  PROVE  BffInv'
  BY FailAsIs, AtHandler DEF CommandFailed, RequestGood

LEMMA StepEnterDesktop ==
  ASSUME BffInv, NEW p \in Proc, EnterDesktop(p)
  PROVE  BffInv'
  <1>1. req[p].op \in Commands /\ req[p].at # "done" /\ Holds(p, req[p].ctx) /\ req[p].op = "desktop"
    BY DEF EnterDesktop, Entered, Commands
  <1>2. req[p].sent \in Id
    BY <1>1, AtHandler DEF Request, EnterDesktop
  <1>3. ManagerOf(p)
    BY <1>2 DEF EnterDesktop, ManagerOf
  <1>4. Alone(p) /\ KeepsTurn(p)
    BY <1>3, ManagerAlone
  <1>5. Go(p, "reading") /\ UNCHANGED contextVars
    BY DEF EnterDesktop
  <1>6. QED
    BY <1>1, <1>4, <1>5, CommandGoes

LEMMA StepEnterPhone ==
  ASSUME BffInv, NEW p \in Proc, EnterPhone(p)
  PROVE  BffInv'
  <1>1. /\ req[p].at = "queued" /\ Holds(p, req[p].ctx) /\ ctx[req[p].ctx].session = NoId
        /\ StillCurrent(req[p].ctx) /\ UNCHANGED mobileVars /\ UNCHANGED contextVars
    BY DEF EnterPhone, Entered, ForPhone
  <1>2. req[p].op \in Commands
    BY <1>1, AtHandler DEF RequestGood
  <1>3. Kept(req[p].ctx)
    BY <1>1 DEF StillCurrent, Live, Kept
  <1>4. Alone(p) /\ KeepsTurn(p)
    BY <1>1, QuietAlone
  <1>5. Go(p, "upstream") \/ Go(p, "checking")
    BY DEF EnterPhone
  <1>6. QED
    BY <1>1, <1>2, <1>3, <1>4, <1>5, CommandGoes

LEMMA StepDesktopRead ==
  ASSUME BffInv, NEW p \in Proc, DesktopRead(p)
  PROVE  BffInv'
  <1>1. /\ req[p].op = "desktop" /\ req[p].at = "reading" /\ UNCHANGED contextVars
        /\ (Go(p, "upstream") /\ UNCHANGED mobileVars) \/ Fail(p)
    BY DEF DesktopRead, At
  <1>2. req[p].op \in Commands /\ Holds(p, req[p].ctx)
    BY <1>1, AtHandler DEF RequestGood, Commands
  <1>3. CASE Fail(p)
    BY <1>1, <1>2, <1>3, FailAsIs
  <1>4. CASE Go(p, "upstream") /\ UNCHANGED mobileVars
    <2>1. Alone(p) /\ KeepsTurn(p)
      BY <1>4, QuietAlone
    <2>2. QED
      BY <1>1, <1>2, <1>4, <2>1, CommandGoes
  <1>5. QED
    BY <1>1, <1>3, <1>4

LEMMA StepProveStatus ==
  ASSUME BffInv, NEW p \in Proc, ProveStatus(p)
  PROVE  BffInv'
  <1>1. /\ req[p].op = "status" /\ req[p].at = "checking" /\ UNCHANGED contextVars
        /\ Go(p, "upstream") /\ UNCHANGED mobileVars
    BY DEF ProveStatus, At
  <1>2. req[p].op \in Commands /\ Holds(p, req[p].ctx)
    BY <1>1, AtHandler DEF RequestGood, Commands
  <1>3. Alone(p) /\ KeepsTurn(p)
    BY <1>1, QuietAlone
  <1>4. QED
    BY <1>1, <1>2, <1>3, CommandGoes

LEMMA StepBindPhone ==
  ASSUME BffInv, NEW p \in Proc, NEW i \in Issuance, BindPhone(p, i)
  PROVE  BffInv'
  <1>1. PICK c \in Context : c = req[p].ctx
    BY AtHandler DEF BindPhone, At
  <1>2. PICK end \in 0 .. ctx[c].until :
           Amend(c, [ctx[c] EXCEPT !.phone = i, !.until = end])
    BY <1>1 DEF BindPhone
  <1>3. /\ req[p].op = "bind" /\ req[p].at = "checking" /\ Bindable(c, i)
        /\ Go(p, "upstream") /\ UNCHANGED mobileVars /\ contexts' = contexts
    BY <1>1 DEF BindPhone, At
  <1>4. /\ ctx \in [Context -> ContextRecord] /\ ctx[c] \in ContextRecord /\ RequestGood(p)
        /\ Drawn(c) /\ ContextGood(c) /\ NoIssuance \notin Issuance
    BY <1>1, <1>3, AtHandler
  <1>5. req[p].op \in Commands /\ Holds(p, c) /\ ctx[c].session = NoId
    BY <1>1, <1>3, <1>4 DEF RequestGood, Commands
  <1>6. Alone(p) /\ KeepsTurn(p) /\ Onward
    BY <1>3, QuietAlone DEF Alone
  <1>7. PICK r \in Request : /\ req' = [req EXCEPT ![p] = r]
                             /\ r.op = req[p].op /\ r.ctx = req[p].ctx /\ r.at = "upstream"
                             /\ r.reply = req[p].reply
    BY <1>3, GoEffect DEF Stages
  <1> DEFINE x == [ctx[c] EXCEPT !.phone = i, !.until = end]
  <1>8. /\ x \in ContextRecord /\ x.phone = i /\ x.until = end /\ x.session = NoId
        /\ x.logoutId = ctx[c].logoutId /\ x.complete = ctx[c].complete
        /\ x.started = ctx[c].started /\ x.tx = ctx[c].tx /\ x.orphan = ctx[c].orphan
        /\ x.cancelled = ctx[c].cancelled /\ x.alias = ctx[c].alias
        /\ end \in Nat /\ end <= ctx[c].until
    <2>1. end \in Nat /\ end <= ctx[c].until
      BY <1>4 DEF ContextRecord
    <2>2. x \in ContextRecord
      BY <1>4, <2>1 DEF ContextRecord
    <2>3. QED
      BY <1>4, <1>5, <2>1, <2>2 DEF ContextRecord
  <1>9. ctx' = [ctx EXCEPT ![c] = x] /\ ctx'[c] = x
    BY <1>2, <1>4 DEF Amend
  <1> HIDE DEF x
  <1>10. Evolves(c)
    BY <1>3, <1>4, <1>5, <1>8, <1>9 DEF Evolves, Drawn, Bindable
  <1>11. ContextGood(c)'
    <2>1. x.tx # 0 => x.started
      BY <1>4, <1>8 DEF ContextGood
    <2>2. QED
      BY <1>3, <1>4, <1>6, <1>8, <1>9, <1>10, <2>1, ContextMoves
  <1>12. r.op = req[p].op /\ r.ctx = c /\ r.op \in Commands /\ Holds(p, c) /\ r.reply = "none"
    BY <1>1, <1>3, <1>4, <1>5, <1>7 DEF RequestGood
  <1>13. /\ req[p].at # "done" /\ req[p].at = "queued" => r.op = "desktop" \/ ctx[c].session = NoId
         /\ r.op = "issue" /\ r.at = "checking" => x.phone = NoIssuance \/ Kept(c)'
         /\ r.op = "issue" /\ r.at \in Obtaining => x.phone \in Issuance /\ Kept(c)'
         /\ r.at \in {"cancelling", "cancelled"} => r.iss \in Issuance /\ r.iss = x.phone
         /\ r.at = "cancelled" /\ r.ok => r.iss \in revoked'
         /\ r.at = "installing" => job'[p].op = "install" /\ job'[p].iss = x.phone
         /\ r.at \notin {"queued", "done", "revoking"}
    BY <1>3, <1>7
  <1>14. QED
    BY <1>1, <1>3, <1>6, <1>7, <1>8, <1>9, <1>10, <1>11, <1>12, <1>13, CommandMoved

\* A change of the context that touches nothing the invariant ties together.
LEMMA AmendedSafely ==
  ASSUME BffInv, Onward, NEW c \in Context, Drawn(c), NEW x \in ContextRecord,
         ctx' = [ctx EXCEPT ![c] = x], contexts' \in {contexts, Live},
         x.session = ctx[c].session, x.phone = ctx[c].phone, x.until = ctx[c].until,
         x.logoutId = ctx[c].logoutId, x.started = ctx[c].started, x.tx = ctx[c].tx,
         x.alias = ctx[c].alias \/ Mine(x.alias, x.phone)',
         x.orphan \in {ctx[c].orphan, NoIssuance} \/ (x.orphan = ctx[c].phone /\ Kept(c)),
         x.cancelled => ctx[c].cancelled \/ (x.phone \in Issuance /\ x.phone \in revoked'),
         ctx[c].complete => x.complete
  PROVE  ctx'[c] = x /\ Evolves(c) /\ ContextGood(c)'
  <1>1. ctx \in [Context -> ContextRecord] /\ ctx[c] \in ContextRecord /\ ContextGood(c)
    BY DEF BffInv, BffTypeOK
  <1>2. ctx'[c] = x /\ ctx[c].until \in Nat
    BY <1>1 DEF ContextRecord
  <1>3. Evolves(c)
    BY <1>2 DEF Evolves, Drawn
  <1>4. (x.phone # NoIssuance => x.session = NoId) /\ (x.tx # 0 => x.started)
    BY <1>1 DEF ContextGood
  <1>5. ContextGood(c)'
    BY <1>2, <1>3, <1>4, ContextMoves
  <1>6. QED
    BY <1>2, <1>3, <1>5

LEMMA StepEndCommand ==
  ASSUME BffInv, NEW p \in Proc, EndCommand(p)
  PROVE  BffInv'
  <1>1. PICK c \in Context : c = req[p].ctx
    BY AtHandler DEF EndCommand
  <1>2. /\ req[p].op \in Commands /\ req[p].at = "upstream" /\ Leave(p) /\ contexts' = contexts
        /\ \E w \in {"ok", "unavailable"} : Reply(p, w)
        /\ \/ Amend(c, [ctx[c] EXCEPT !.offer = TRUE])
           \/ Amend(c, [ctx[c] EXCEPT !.known = TRUE])
           \/ UNCHANGED ctx
    BY <1>1 DEF EndCommand
  <1>3. /\ ctx \in [Context -> ContextRecord] /\ ctx[c] \in ContextRecord
        /\ Drawn(c) /\ Holds(p, c) /\ req[p].op \notin {"none", "logout"}
    BY <1>1, <1>2, AtHandler DEF RequestGood, Commands
  <1>4. Alone(p) /\ Onward
    BY <1>1, <1>2, <1>3, LeaveAlone DEF Alone
  <1>5. PICK w \in {"ok", "unavailable"} : Reply(p, w)
    BY <1>2
  <1>6. PICK x \in ContextRecord :
           /\ ctx' = [ctx EXCEPT ![c] = x]
           /\ \/ x = ctx[c]
              \/ x = [ctx[c] EXCEPT !.offer = TRUE]
              \/ x = [ctx[c] EXCEPT !.known = TRUE]
    <2>1. [ctx[c] EXCEPT !.offer = TRUE] \in ContextRecord /\ [ctx[c] EXCEPT !.known = TRUE] \in ContextRecord
      BY <1>3 DEF ContextRecord
    <2>2. UNCHANGED ctx => ctx' = [ctx EXCEPT ![c] = ctx[c]]
      BY <1>3
    <2>3. QED
      BY <1>2, <1>3, <2>1, <2>2 DEF Amend
  <1>7. /\ x.session = ctx[c].session /\ x.phone = ctx[c].phone /\ x.until = ctx[c].until
        /\ x.logoutId = ctx[c].logoutId /\ x.alias = ctx[c].alias /\ x.started = ctx[c].started
        /\ x.tx = ctx[c].tx /\ x.orphan = ctx[c].orphan /\ x.cancelled = ctx[c].cancelled
        /\ x.complete = ctx[c].complete
    BY <1>3, <1>6 DEF ContextRecord
  <1>8. Evolves(c) /\ ContextGood(c)'
    BY <1>2, <1>3, <1>4, <1>6, <1>7, AmendedSafely
  <1>9. w \in Answers /\ AnswerTo(p, c, w, x)
    BY <1>1, <1>2, <1>3, <1>5, <1>6, <1>7, <1>8 DEF AnswerTo, Answers
  <1>10. QED
    BY <1>4, <1>9, AnsweredStep

LEMMA StepEndCallback ==
  ASSUME BffInv, NEW p \in Proc, EndCallback(p)
  PROVE  BffInv'
  <1>1. /\ req[p].op = "callback" /\ UNCHANGED ctx
        /\ \E w \in {"session", "unavailable"} : Reply(p, w)
        /\ contexts' \in {contexts, Live}
        /\ UNCHANGED mobileVars \/ \E id \in Id : OAuthCreate(id)
    BY DEF EndCallback, At
  <1>2. Alone(p)
    BY <1>1, QuietAlone, CreateAlone
  <1>3. QED
    BY <1>1, <1>2, AnsweredAsIs DEF Answers

-----------------------------------------------------------------------------
(* The actions of an issuance.                                             *)

LEMMA UbidIssueAlone ==
  ASSUME BffInv, NEW i \in Issuance, UbidIssue(i)
  PROVE  \A p \in Proc : Alone(p) /\ KeepsTurn(p)
  <1>1. CoreInv /\ Base /\ [MobileNext]_mobileVars /\ clock \in Nat
    BY DEF BffInv, CoreInv, MobileNext, Base, MobileTypeOK, StoreTypeOK
  <1>2. UNCHANGED <<clock, record, job, locks, revoked>>
    BY DEF UbidIssue, storeVars, managerVars
  <1>3. CoreInv'
    BY <1>1, CoreManager
  <1>4. QED
    BY <1>1, <1>2, <1>3 DEF Alone, KeepsTurn, Onward, Holds

\* Of a context, what a step of an issuance leaves alone.
SameOwner(x, c) ==
    /\ x.session = ctx[c].session /\ x.phone = ctx[c].phone /\ x.until = ctx[c].until
    /\ x.logoutId = ctx[c].logoutId /\ x.started = ctx[c].started
    /\ x.tx = ctx[c].tx /\ x.complete = ctx[c].complete

\* Where an issuance stands: it has a phone, and its context is kept.
LEMMA AtIssue ==
  ASSUME BffInv, NEW p \in Proc, req[p].op = "issue",
         req[p].at \in Obtaining \/ (req[p].at = "checking" /\ Proven(p))
  PROVE  /\ req[p].ctx \in Context /\ ctx[req[p].ctx].phone \in Issuance
         /\ Kept(req[p].ctx) /\ Drawn(req[p].ctx) /\ Holds(p, req[p].ctx)
         /\ req[p].reply = "none" /\ req[p] \in Request
         /\ ctx \in [Context -> ContextRecord] /\ ctx[req[p].ctx] \in ContextRecord
  <1>1. /\ req[p] \in Request /\ RequestGood(p) /\ req[p].ctx \in Context /\ Drawn(req[p].ctx)
        /\ ctx \in [Context -> ContextRecord] /\ ctx[req[p].ctx] \in ContextRecord
    BY AtHandler
  <1>2. ctx[req[p].ctx].phone # NoIssuance => ctx[req[p].ctx].phone \in Issuance
    BY <1>1 DEF ContextRecord
  <1>3. Holds(p, req[p].ctx) /\ req[p].reply = "none"
    BY <1>1 DEF RequestGood, Obtaining, Commands
  <1>4. ctx[req[p].ctx].phone \in Issuance /\ Kept(req[p].ctx)
    BY <1>1, <1>2 DEF RequestGood, Proven
  <1>5. QED
    BY <1>1, <1>3, <1>4

\* An issuance goes on.
LEMMA IssueMoved ==
  ASSUME BffInv, NEW p \in Proc, Alone(p), KeepsTurn(p), req[p].op = "issue",
         req[p].at \in Obtaining \/ (req[p].at = "checking" /\ Proven(p)),
         NEW r \in Request, req' = [req EXCEPT ![p] = r], r.op = "issue",
         r.ctx = req[p].ctx, r.reply = "none", r.at \in Obtaining,
         NEW c \in Context, c = req[p].ctx, contexts' = contexts,
         NEW x \in ContextRecord, ctx' = [ctx EXCEPT ![c] = x], SameOwner(x, c),
         x.alias = ctx[c].alias, x.cancelled = ctx[c].cancelled,
         x.orphan \in {ctx[c].orphan, NoIssuance, ctx[c].phone},
         r.at \in {"cancelling", "cancelled"} => r.iss = ctx[c].phone,
         r.at = "cancelled" /\ r.ok => r.iss \in revoked',
         r.at = "installing" => job'[p].op = "install" /\ job'[p].iss = ctx[c].phone
  PROVE  BffInv'
  <1>1. /\ ctx[c].phone \in Issuance /\ Kept(c) /\ Drawn(c) /\ Holds(p, c)
        /\ x.until \in Nat /\ Onward
    BY AtIssue DEF ContextRecord, Alone
  <1>2. ctx'[c] = x /\ Evolves(c) /\ ContextGood(c)'
    <2>1. /\ x.session = ctx[c].session /\ x.phone = ctx[c].phone /\ x.until = ctx[c].until
          /\ x.logoutId = ctx[c].logoutId /\ x.started = ctx[c].started /\ x.tx = ctx[c].tx
          /\ ctx[c].complete => x.complete
      BY DEF SameOwner
    <2>2. x.orphan \in {ctx[c].orphan, NoIssuance} \/ (x.orphan = ctx[c].phone /\ Kept(c))
      BY <1>1
    <2>3. /\ contexts' \in {contexts, Live}
          /\ x.alias = ctx[c].alias \/ Mine(x.alias, x.phone)'
          /\ x.cancelled => ctx[c].cancelled \/ (x.phone \in Issuance /\ x.phone \in revoked')
      OBVIOUS
    <2>4. QED
      BY <1>1, <2>1, <2>2, <2>3, AmendedSafely
  <1>3. Kept(c)'
    BY <1>1, <1>2, KeptOn
  <1>4. r.op = req[p].op /\ r.ctx = c /\ r.op \in Commands
    BY DEF Commands
  <1>5. req[p].at # "done" /\ req[p].at # "queued"
    BY DEF Obtaining
  <1>6. /\ r.op = "issue" /\ r.at = "checking" => x.phone = NoIssuance \/ Kept(c)'
        /\ r.op = "issue" /\ r.at \in Obtaining => x.phone \in Issuance /\ Kept(c)'
        /\ r.at \in {"cancelling", "cancelled"} => r.iss \in Issuance /\ r.iss = x.phone
        /\ r.at = "installing" => job'[p].op = "install" /\ job'[p].iss = x.phone
        /\ r.at \notin {"queued", "done", "revoking"}
    BY <1>1, <1>3 DEF SameOwner, Obtaining
  <1>7. QED
    BY <1>1, <1>2, <1>4, <1>5, <1>6, CommandMoved

\* An issuance is answered.
LEMMA IssueAnswered ==
  ASSUME BffInv, NEW p \in Proc, Alone(p), req[p].op = "issue", req[p].at \in Obtaining,
         NEW w \in Answers, Reply(p, w),
         NEW c \in Context, c = req[p].ctx, contexts' = contexts,
         NEW x \in ContextRecord, ctx' = [ctx EXCEPT ![c] = x], SameOwner(x, c),
         x.alias = ctx[c].alias \/ Mine(x.alias, x.phone)',
         x.orphan \in {ctx[c].orphan, NoIssuance, ctx[c].phone},
         x.cancelled => ctx[c].cancelled \/ ctx[c].phone \in revoked'
  PROVE  BffInv'
  <1>1. /\ ctx[c].phone \in Issuance /\ Kept(c) /\ Drawn(c) /\ Holds(p, c) /\ Onward
    BY AtIssue, SMTT(30) DEF Alone
  <1>2. ctx'[c] = x /\ Evolves(c) /\ ContextGood(c)'
    <2>1. /\ x.session = ctx[c].session /\ x.phone = ctx[c].phone /\ x.until = ctx[c].until
          /\ x.logoutId = ctx[c].logoutId /\ x.started = ctx[c].started /\ x.tx = ctx[c].tx
          /\ ctx[c].complete => x.complete
      BY DEF SameOwner
    <2>2. x.orphan \in {ctx[c].orphan, NoIssuance} \/ (x.orphan = ctx[c].phone /\ Kept(c))
      BY <1>1
    <2>3. x.cancelled => ctx[c].cancelled \/ (x.phone \in Issuance /\ x.phone \in revoked')
      BY <1>1, <2>1
    <2>4. contexts' \in {contexts, Live}
      OBVIOUS
    <2>5. QED
      BY <1>1, <2>1, <2>2, <2>3, <2>4, AmendedSafely
  <1>3. req[p].op # "none" /\ req[p].op # "logout" /\ x.phone = ctx[c].phone
    BY DEF SameOwner
  <1>4. AnswerTo(p, c, w, x)
    BY <1>1, <1>2, <1>3 DEF AnswerTo
  <1>5. QED
    BY <1>4, AnsweredStep

LEMMA StepStartIssuing ==
  ASSUME BffInv, NEW p \in Proc, StartIssuing(p)
  PROVE  BffInv'
  <1>1. /\ req[p].op = "issue" /\ req[p].at = "checking" /\ Proven(p)
        /\ Go(p, "issuing") /\ UNCHANGED mobileVars /\ contexts' = contexts
    BY DEF StartIssuing, At
  <1>2. PICK c \in Context : c = req[p].ctx
    BY <1>1, AtIssue
  <1>3. ctx[c] \in ContextRecord /\ ctx' = [ctx EXCEPT ![c] = [ctx[c] EXCEPT !.issuing = TRUE]]
    BY <1>1, <1>2, AtIssue DEF StartIssuing, Amend
  <1> DEFINE x == [ctx[c] EXCEPT !.issuing = TRUE]
  <1>4. /\ x \in ContextRecord /\ SameOwner(x, c) /\ x.alias = ctx[c].alias
        /\ x.cancelled = ctx[c].cancelled /\ x.orphan = ctx[c].orphan
    BY <1>3 DEF ContextRecord, SameOwner
  <1>5. ctx' = [ctx EXCEPT ![c] = x]
    BY <1>3
  <1> HIDE DEF x
  <1>6. PICK r \in Request : /\ req' = [req EXCEPT ![p] = r]
                             /\ r.op = req[p].op /\ r.ctx = req[p].ctx /\ r.at = "issuing"
                             /\ r.reply = req[p].reply
    BY <1>1, GoEffect DEF Stages
  <1>7. r.op = "issue" /\ r.reply = "none" /\ r.at \in Obtaining
    BY <1>1, <1>6, AtIssue DEF Obtaining
  <1>8. Alone(p) /\ KeepsTurn(p)
    BY <1>1, QuietAlone
  <1>9. /\ r.at \in {"cancelling", "cancelled"} => r.iss = ctx[c].phone
        /\ r.at = "cancelled" /\ r.ok => r.iss \in revoked'
        /\ r.at = "installing" => job'[p].op = "install" /\ job'[p].iss = ctx[c].phone
    BY <1>6
  <1>10. QED
    BY <1>1, <1>2, <1>4, <1>5, <1>6, <1>7, <1>8, <1>9, IssueMoved

\* The answer of UBID to an issuance, or its loss.
LEMMA IssueHeard ==
  ASSUME BffInv, NEW p \in Proc, Alone(p), KeepsTurn(p), UNCHANGED contextVars,
         req[p].op = "issue", req[p].at \in Obtaining,
         NEW r \in Request, req' = [req EXCEPT ![p] = r], r.op = req[p].op,
         r.ctx = req[p].ctx, r.reply = req[p].reply, r.at = "issued"
  PROVE  BffInv'
  <1>1. PICK c \in Context : c = req[p].ctx
    BY AtIssue
  <1>2. UNCHANGED ctx /\ contexts' = contexts /\ r.reply = "none" /\ r.op = "issue"
    BY AtIssue DEF contextVars
  <1> DEFINE x == ctx[c]
  <1>3. /\ x \in ContextRecord /\ ctx' = [ctx EXCEPT ![c] = x] /\ SameOwner(x, c)
        /\ x.alias = ctx[c].alias /\ x.cancelled = ctx[c].cancelled /\ x.orphan = ctx[c].orphan
    BY <1>2, SameContext DEF SameOwner
  <1> HIDE DEF x
  <1>4. /\ r.at \in {"cancelling", "cancelled"} => r.iss = ctx[c].phone
        /\ r.at = "cancelled" /\ r.ok => r.iss \in revoked'
        /\ r.at = "installing" => job'[p].op = "install" /\ job'[p].iss = ctx[c].phone
        /\ r.at \in Obtaining
    BY DEF Obtaining
  <1>5. QED
    BY <1>1, <1>2, <1>3, <1>4, IssueMoved

LEMMA StepServeIssue ==
  ASSUME BffInv, NEW p \in Proc, ServeIssue(p)
  PROVE  BffInv'
  <1>1. req[p].op = "issue" /\ req[p].at \in Obtaining /\ UNCHANGED contextVars
    BY DEF ServeIssue, At, Obtaining
  <1>2. PICK i \in Issuance : i = ctx[req[p].ctx].phone
    BY <1>1, AtIssue
  <1>3. Alone(p) /\ KeepsTurn(p)
    BY <1>2, UbidIssueAlone, QuietAlone DEF ServeIssue
  <1> DEFINE a == receipt[i] = NoReceipt \/ Active(i)
             r == [req[p] EXCEPT !.at = "issued", !.ok = TRUE, !.active = a]
  <1>4. a \in BOOLEAN /\ req[p] \in Request
    BY <1>1, AtIssue DEF Active
  <1>5. req' = [req EXCEPT ![p] = r]
    BY <1>2 DEF ServeIssue
  <1> HIDE DEF a
  <1>6. /\ r \in Request /\ r.op = req[p].op /\ r.ctx = req[p].ctx /\ r.reply = req[p].reply
        /\ r.at = "issued"
    BY <1>4, ZenonT(40) DEF Request
  <1> HIDE DEF r
  <1>7. QED
    BY <1>1, <1>3, <1>5, <1>6, IssueHeard

LEMMA StepDropIssue ==
  ASSUME BffInv, NEW p \in Proc, DropIssue(p)
  PROVE  BffInv'
  <1>1. /\ req[p].op = "issue" /\ req[p].at \in Obtaining
        /\ UNCHANGED contextVars /\ UNCHANGED mobileVars
    BY DEF DropIssue, At, Obtaining
  <1>2. Alone(p) /\ KeepsTurn(p)
    BY <1>1, QuietAlone
  <1> DEFINE r == [req[p] EXCEPT !.at = "issued", !.ok = FALSE]
  <1>3. req' = [req EXCEPT ![p] = r] /\ req[p] \in Request
    BY <1>1, AtIssue DEF DropIssue
  <1>4. /\ r \in Request /\ r.op = req[p].op /\ r.ctx = req[p].ctx /\ r.reply = req[p].reply
        /\ r.at = "issued"
    BY <1>3, ZenonT(40) DEF Request
  <1> HIDE DEF r
  <1>5. QED
    BY <1>1, <1>2, <1>3, <1>4, IssueHeard

LEMMA StepIssueLost ==
  ASSUME BffInv, NEW p \in Proc, IssueLost(p)
  PROVE  BffInv'
  <1>1. /\ req[p].op = "issue" /\ req[p].at \in Obtaining /\ Fail(p) /\ contexts' = contexts
        /\ Reply(p, "unavailable") /\ Leave(p)
    BY DEF IssueLost, At, Obtaining, Fail
  <1>2. PICK c \in Context : c = req[p].ctx
    BY <1>1, AtIssue
  <1>3. ctx[c] \in ContextRecord /\ ctx' = [ctx EXCEPT ![c] = [ctx[c] EXCEPT !.issuing = FALSE]]
    BY <1>1, <1>2, AtIssue DEF IssueLost, Amend
  <1> DEFINE x == [ctx[c] EXCEPT !.issuing = FALSE]
  <1>4. /\ x \in ContextRecord /\ SameOwner(x, c) /\ x.alias = ctx[c].alias
        /\ x.cancelled = ctx[c].cancelled /\ x.orphan = ctx[c].orphan
    BY <1>3 DEF ContextRecord, SameOwner
  <1>5. ctx' = [ctx EXCEPT ![c] = x]
    BY <1>3
  <1> HIDE DEF x
  <1>6. Alone(p)
    BY <1>1, AtIssue, LeaveAlone
  <1>7. QED
    BY <1>1, <1>2, <1>4, <1>5, <1>6, IssueAnswered DEF Answers

LEMMA OrphanTaken ==
  ASSUME BffInv, NEW p \in Proc, req[p].op = "issue", req[p].at \in Obtaining,
         NEW c \in Context, c = req[p].ctx
  PROVE  LET x == WithOrphan(c, p) IN
         /\ x \in ContextRecord /\ SameOwner(x, c) /\ x.alias = ctx[c].alias
         /\ x.cancelled = ctx[c].cancelled /\ x.orphan = ctx[c].phone
  <1>1. ctx[c] \in ContextRecord /\ req[p].active \in BOOLEAN
    BY AtIssue DEF Request
  <1>2. QED
    BY <1>1 DEF ContextRecord, SameOwner, WithOrphan

LEMMA StepIssueInstall ==
  ASSUME BffInv, NEW p \in Proc, IssueInstall(p)
  PROVE  BffInv'
  <1>1. /\ req[p].op = "issue" /\ req[p].at \in Obtaining /\ contexts' = contexts
        /\ Go(p, "installing")
    BY DEF IssueInstall, At, Obtaining
  <1>2. PICK c \in Context : c = req[p].ctx
    BY <1>1, AtIssue
  <1>3. PICK i \in Issuance : i = ctx[c].phone
    BY <1>1, <1>2, AtIssue
  <1>4. StartInstall(p, i) /\ ctx' = [ctx EXCEPT ![c] = WithOrphan(c, p)]
    BY <1>2, <1>3 DEF IssueInstall, Amend
  <1> DEFINE x == WithOrphan(c, p)
  <1>5. /\ x \in ContextRecord /\ SameOwner(x, c) /\ x.alias = ctx[c].alias
        /\ x.cancelled = ctx[c].cancelled /\ x.orphan = ctx[c].phone
    BY <1>1, <1>2, OrphanTaken
  <1>6. ctx' = [ctx EXCEPT ![c] = x]
    BY <1>4
  <1> HIDE DEF x
  <1>7. Alone(p) /\ KeepsTurn(p)
    BY <1>4, ManagerAlone DEF ManagerOf
  <1>8. PICK r \in Request : /\ req' = [req EXCEPT ![p] = r]
                             /\ r.op = req[p].op /\ r.ctx = req[p].ctx /\ r.at = "installing"
                             /\ r.reply = req[p].reply
    BY <1>1, GoEffect DEF Stages
  <1>9. r.op = "issue" /\ r.reply = "none" /\ r.at \in Obtaining
    BY <1>1, <1>8, AtIssue DEF Obtaining
  <1>10. job'[p].op = "install" /\ job'[p].iss = i
    <2>1. job \in [Proc -> Job]
      BY DEF BffInv, BffTypeOK, MobileTypeOK
    <2>2. QED
      BY <1>4, <2>1 DEF StartInstall, Start
  <1>11. /\ r.at \in {"cancelling", "cancelled"} => r.iss = ctx[c].phone
         /\ r.at = "cancelled" /\ r.ok => r.iss \in revoked'
         /\ r.at = "installing" => job'[p].op = "install" /\ job'[p].iss = ctx[c].phone
    BY <1>3, <1>8, <1>10, SMTT(30)
  <1>12. QED
    BY <1>1, <1>2, <1>5, <1>6, <1>7, <1>8, <1>9, <1>11, IssueMoved

LEMMA StepIssueRefused ==
  ASSUME BffInv, NEW p \in Proc, IssueRefused(p)
  PROVE  BffInv'
  <1>1. /\ req[p].op = "issue" /\ req[p].at \in Obtaining /\ Fail(p) /\ contexts' = contexts
        /\ Reply(p, "unavailable") /\ Leave(p)
    BY DEF IssueRefused, At, Obtaining, Fail
  <1>2. PICK c \in Context : c = req[p].ctx
    BY <1>1, AtIssue
  <1> DEFINE y == WithOrphan(c, p)
             x == [y EXCEPT !.issuing = FALSE]
  <1>3. /\ y \in ContextRecord /\ SameOwner(y, c) /\ y.alias = ctx[c].alias
        /\ y.cancelled = ctx[c].cancelled /\ y.orphan = ctx[c].phone
    BY <1>1, <1>2, OrphanTaken
  <1>4. ctx' = [ctx EXCEPT ![c] = x]
    BY <1>2 DEF IssueRefused, Amend
  <1> HIDE DEF y
  <1>5. /\ x \in ContextRecord /\ SameOwner(x, c) /\ x.alias = ctx[c].alias
        /\ x.cancelled = ctx[c].cancelled /\ x.orphan = ctx[c].phone
    BY <1>3 DEF ContextRecord, SameOwner
  <1> HIDE DEF x
  <1>6. Alone(p)
    BY <1>1, AtIssue, LeaveAlone
  <1>7. QED
    BY <1>1, <1>2, <1>4, <1>5, <1>6, IssueAnswered DEF Answers

LEMMA StepIssueLate ==
  ASSUME BffInv, NEW p \in Proc, IssueLate(p)
  PROVE  BffInv'
  <1>1. /\ req[p].op = "issue" /\ req[p].at \in Obtaining /\ contexts' = contexts
        /\ UNCHANGED mobileVars
    BY DEF IssueLate, At, Obtaining
  <1>2. PICK c \in Context : c = req[p].ctx
    BY <1>1, AtIssue
  <1>3. PICK i \in Issuance : i = ctx[c].phone
    BY <1>1, <1>2, AtIssue
  <1> DEFINE x == WithOrphan(c, p)
  <1>4. /\ x \in ContextRecord /\ SameOwner(x, c) /\ x.alias = ctx[c].alias
        /\ x.cancelled = ctx[c].cancelled /\ x.orphan = ctx[c].phone
    BY <1>1, <1>2, OrphanTaken
  <1>5. ctx' = [ctx EXCEPT ![c] = x]
    BY <1>2 DEF IssueLate, Amend
  <1> HIDE DEF x
  <1>6. Alone(p) /\ KeepsTurn(p)
    BY <1>1, QuietAlone
  <1> DEFINE r == [req[p] EXCEPT !.at = "cancelling", !.iss = i]
  <1>7. req' = [req EXCEPT ![p] = r] /\ req[p] \in Request /\ req[p].reply = "none"
    BY <1>1, <1>2, <1>3, AtIssue DEF IssueLate
  <1>8. /\ r \in Request /\ r.op = "issue" /\ r.ctx = req[p].ctx /\ r.reply = "none"
        /\ r.at = "cancelling" /\ r.iss = i
    BY <1>1, <1>7 DEF Request
  <1> HIDE DEF r
  <1>9. /\ r.at \in {"cancelling", "cancelled"} => r.iss = ctx[c].phone
        /\ r.at = "cancelled" /\ r.ok => r.iss \in revoked'
        /\ r.at = "installing" => job'[p].op = "install" /\ job'[p].iss = ctx[c].phone
        /\ r.at \in Obtaining
    BY <1>3, <1>8 DEF Obtaining
  <1>10. QED
    BY <1>1, <1>2, <1>4, <1>5, <1>6, <1>7, <1>8, <1>9, IssueMoved

LEMMA StepEndLateCancel ==
  ASSUME BffInv, NEW p \in Proc, EndLateCancel(p)
  PROVE  BffInv'
  <1>1. /\ req[p].op = "issue" /\ req[p].at = "cancelled" /\ Fail(p) /\ contexts' = contexts
        /\ Reply(p, "unavailable") /\ Leave(p) /\ req[p].at \in Obtaining
    BY DEF EndLateCancel, At, Obtaining, Fail
  <1>2. PICK c \in Context : c = req[p].ctx
    BY <1>1, AtIssue
  <1>3. /\ ctx[c] \in ContextRecord /\ req[p].iss = ctx[c].phone
        /\ req[p].ok => req[p].iss \in revoked
    BY <1>1, <1>2, AtIssue, AtHandler DEF RequestGood
  <1>4. Alone(p) /\ revoked \subseteq revoked'
    BY <1>1, AtIssue, LeaveAlone DEF Alone, Onward
  <1> DEFINE y == [ctx[c] EXCEPT !.orphan = NoIssuance, !.cancelled = TRUE, !.issuing = FALSE]
             z == [ctx[c] EXCEPT !.issuing = FALSE]
  <1>5. /\ y \in ContextRecord /\ SameOwner(y, c) /\ y.alias = ctx[c].alias
        /\ y.orphan = NoIssuance
    BY <1>3 DEF ContextRecord, SameOwner
  <1>6. /\ z \in ContextRecord /\ SameOwner(z, c) /\ z.alias = ctx[c].alias
        /\ z.cancelled = ctx[c].cancelled /\ z.orphan = ctx[c].orphan
    BY <1>3 DEF ContextRecord, SameOwner
  <1>7. \/ req[p].ok /\ ctx' = [ctx EXCEPT ![c] = y]
        \/ ctx' = [ctx EXCEPT ![c] = z]
    BY <1>2 DEF EndLateCancel, Amend
  <1> HIDE DEF y, z
  <1>8. PICK x \in ContextRecord :
           /\ ctx' = [ctx EXCEPT ![c] = x] /\ SameOwner(x, c) /\ x.alias = ctx[c].alias
           /\ x.orphan \in {ctx[c].orphan, NoIssuance, ctx[c].phone}
           /\ x.cancelled => ctx[c].cancelled \/ ctx[c].phone \in revoked'
    BY <1>3, <1>4, <1>5, <1>6, <1>7
  <1>9. QED
    BY <1>1, <1>2, <1>4, <1>8, IssueAnswered DEF Answers

LEMMA StepInstallDone ==
  ASSUME BffInv, NEW p \in Proc, InstallDone(p)
  PROVE  BffInv'
  <1>1. /\ req[p].op = "issue" /\ req[p].at = "installing" /\ req[p].at \in Obtaining
        /\ contexts' = contexts
    BY DEF InstallDone, At, Obtaining
  <1>2. PICK c \in Context : c = req[p].ctx
    BY <1>1, AtIssue
  <1>3. /\ InstallEnded(p, StillCurrent(c)) /\ StillCurrent(c) \in BOOLEAN
        /\ locks' = [locks EXCEPT ![c] = Tail(@), ![job[p].iss] = Tail(@)]
    BY <1>2 DEF InstallDone, StillCurrent, Live
  <1>4. /\ ctx[c] \in ContextRecord /\ Holds(p, c) /\ job[p].iss = ctx[c].phone
        /\ ctx[c].phone \in Issuance /\ ctx \in [Context -> ContextRecord]
    BY <1>1, <1>2, AtIssue, AtHandler DEF RequestGood
  <1>5. Alone(p) /\ CoreInv /\ job \in [Proc -> Job]
    BY <1>3, <1>4, InstallAlone DEF BffInv, BffTypeOK, MobileTypeOK
  <1>6. PICK j \in Job : /\ job' = [job EXCEPT ![p] = j] /\ j.iss = job[p].iss
                         /\ j.reply = "installed" => j.id \in Id /\ aliases'[j.iss] = j.id
    BY <1>3, <1>5, InstallEffect
  <1>7. job'[p] = j /\ AliasOwned'
    BY <1>3, <1>5, <1>6, InstallEffect
  <1> DEFINE y == [ctx[c] EXCEPT !.orphan = NoIssuance, !.issuing = FALSE, !.alias = j.id]
             z == [ctx[c] EXCEPT !.issuing = FALSE]
  <1>9. ASSUME j.reply = "installed"
        PROVE  /\ y \in ContextRecord /\ SameOwner(y, c) /\ y.orphan = NoIssuance
               /\ y.cancelled = ctx[c].cancelled /\ y.alias = j.id /\ y.phone = j.iss
    BY <1>4, <1>6, <1>9 DEF ContextRecord, SameOwner
  <1>10. /\ z \in ContextRecord /\ SameOwner(z, c) /\ z.alias = ctx[c].alias
         /\ z.cancelled = ctx[c].cancelled /\ z.orphan = ctx[c].orphan
    BY <1>4 DEF ContextRecord, SameOwner
  <1>11. \/ /\ j.reply = "installed" /\ ctx' = [ctx EXCEPT ![c] = y] /\ Reply(p, "authenticated")
         \/ /\ ctx' = [ctx EXCEPT ![c] = z] /\ Reply(p, "unavailable")
    BY <1>2, <1>7 DEF InstallDone, Amend
  <1> HIDE DEF y, z
  <1>12. ASSUME j.reply = "installed"
         PROVE  Mine(j.id, j.iss)'
    <2>1. j.iss \in Issuance /\ j.id \in Id /\ aliases'[j.iss] = j.id /\ NoId \notin Id
      BY <1>4, <1>6, <1>12, ManagerAssumption
    <2>2. PICK a \in Id, i \in Issuance : a = j.id /\ i = j.iss /\ aliases'[i] = a /\ a # NoId
      BY <2>1
    <2>3. Mine(a, i)'
      BY <1>7, <2>2 DEF AliasOwned
    <2>4. QED
      BY <2>2, <2>3
  <1>13. {"authenticated", "unavailable"} \subseteq Answers
    BY DEF Answers
  <1>14. CASE j.reply = "installed" /\ ctx' = [ctx EXCEPT ![c] = y] /\ Reply(p, "authenticated")
    <2>1. PICK x \in ContextRecord :
             /\ ctx' = [ctx EXCEPT ![c] = x] /\ SameOwner(x, c)
             /\ x.orphan = NoIssuance /\ x.cancelled = ctx[c].cancelled
             /\ x.alias = j.id /\ x.phone = j.iss
      BY <1>9, <1>14
    <2>2. Mine(x.alias, x.phone)'
      BY <1>12, <1>14, <2>1
    <2>3. QED
      BY <1>1, <1>2, <1>5, <1>13, <1>14, <2>1, <2>2, IssueAnswered
  <1>15. CASE ctx' = [ctx EXCEPT ![c] = z] /\ Reply(p, "unavailable")
    <2>1. PICK x \in ContextRecord :
             /\ ctx' = [ctx EXCEPT ![c] = x] /\ SameOwner(x, c) /\ x.alias = ctx[c].alias
             /\ x.orphan = ctx[c].orphan /\ x.cancelled = ctx[c].cancelled
      BY <1>10, <1>15
    <2>2. QED
      BY <1>1, <1>2, <1>5, <1>13, <1>15, <2>1, IssueAnswered
  <1>16. QED
    BY <1>11, <1>14, <1>15

-----------------------------------------------------------------------------
(* The actions of a logout.                                                *)

\* Request p is a logout of context c, or its answer w, which leaves x of the
\* context.
LogoutTo(p, c, i, at, w, x) ==
    /\ PutLogout(p, c, i, at, w) /\ Drawn(c)
    /\ ctx' = [ctx EXCEPT ![c] = x] /\ contexts' \in {contexts, Live}
    /\ Evolves(c) /\ x.phone = ctx[c].phone
    /\ x = ctx[c] \/ ContextGood(c)'
    /\ at # "done" => w = "none"
    /\ at = "cancelling" => i \in Issuance /\ i = x.phone
    /\ at = "revoking" => /\ job'[p].op = "logout" /\ job'[p].id = x.logoutId
                          /\ x.logoutId # NoId
    /\ w = "confirmed" => x.session # NoId \/ (x.phone \in Issuance /\ x.phone \in revoked')

LEMMA LogoutPut ==
  ASSUME BffInv, NEW p \in Proc, Alone(p), NEW c \in Context,
         NEW i \in Issuance \cup {NoIssuance}, NEW at \in {"done", "cancelling", "revoking"},
         NEW w \in Answers, NEW x \in ContextRecord, LogoutTo(p, c, i, at, w, x)
  PROVE  BffInv'
  <1> DEFINE r == LogoutRequest(c, i, at, w)
  <1>1. req \in [Proc -> Request] /\ ctx \in [Context -> ContextRecord]
    BY DEF BffInv, BffTypeOK
  <1>2. r.op = "logout" /\ r.ctx = c /\ r.iss = i /\ r.at = at /\ r.reply = w
    BY DEF LogoutRequest, NoRequest
  <1>3. r \in Request
    <2>1. [NoRequest EXCEPT !.op = "logout", !.ctx = c, !.iss = i, !.at = at] \in Request
      BY AbsentRequest DEF Request
    <2>2. \A v \in Request : [v EXCEPT !.reply = w] \in Request
      BY DEF Request, Answers
    <2>3. QED
      BY <2>1, <2>2, Zenon DEF LogoutRequest
  <1>4. req' = [req EXCEPT ![p] = r]
    BY DEF PutLogout, LogoutTo
  <1> HIDE DEF r
  <1>5. req'[p] = r /\ ctx'[c] = x /\ Drawn(c)'
    BY <1>1, <1>4 DEF Evolves, LogoutTo
  <1>6. r.op \notin Commands
    BY <1>2 DEF Commands
  <1>7. RequestGood(p)'
    BY <1>2, <1>5, <1>6 DEF RequestGood, Revoked, LogoutTo
  <1>8. QED
    BY <1>2, <1>3, <1>4, <1>7, HandlerStep DEF LogoutTo

\* What is left of a logout that has no orphan to cancel.
LEMMA LogoutSessionStep ==
  ASSUME BffInv, NEW p \in Proc, NEW c \in Context, Drawn(c),
         NEW y \in ContextRecord, LogoutSession(p, c, y), contexts' \in {contexts, Live},
         y.session = ctx[c].session, y.phone = ctx[c].phone, y.until = ctx[c].until,
         y.started = ctx[c].started, y.tx = ctx[c].tx, y.complete = ctx[c].complete,
         y.alias = ctx[c].alias, y.orphan = NoIssuance,
         ctx[c].logoutId # NoId => y.logoutId = ctx[c].logoutId,
         y.logoutId # NoId => \/ y.logoutId = ctx[c].logoutId
                              \/ y.session # NoId
                              \/ Mine(y.logoutId, y.phone),
         y.cancelled => y.phone \in Issuance /\ y.phone \in revoked
  PROVE  BffInv'
  <1>1. /\ ctx \in [Context -> ContextRecord] /\ ctx[c] \in ContextRecord /\ ContextGood(c)
        /\ ctx[c].until \in Nat /\ job \in [Proc -> Job]
        /\ NoIssuance \in Issuance \cup {NoIssuance}
    BY DEF BffInv, BffTypeOK, ContextRecord, MobileTypeOK
  <1>2. ASSUME NEW x \in ContextRecord, ctx' = [ctx EXCEPT ![c] = x], Onward,
               x.session = y.session, x.phone = y.phone, x.until = y.until,
               x.started = y.started, x.tx = y.tx, x.complete \/ x.complete = y.complete,
               x.alias = y.alias, x.orphan = NoIssuance, x.logoutId = y.logoutId,
               x.cancelled = y.cancelled
        PROVE  Evolves(c) /\ ContextGood(c)'
    <2>1. ctx'[c] = x
      BY <1>1, <1>2
    <2>2. Evolves(c)
      BY <1>1, <1>2, <2>1 DEF Evolves, Drawn
    <2>3. \A id, i : Mine(id, i) => Mine(id, i)'
      BY <1>2 DEF Onward, Mine, Used
    <2>4. x.logoutId # NoId => \/ x.logoutId = ctx[c].logoutId
                               \/ x.session # NoId
                               \/ Mine(x.logoutId, x.phone)'
      BY <1>2, <2>3
    <2>5. revoked \subseteq revoked'
      BY <1>2 DEF Onward
    <2>6. (x.phone # NoIssuance => x.session = NoId) /\ (x.tx # 0 => x.started)
      BY <1>1, <1>2 DEF ContextGood
    <2>7. ContextGood(c)'
      BY <1>1, <1>2, <2>1, <2>2, <2>4, <2>5, <2>6, ContextMoves
    <2>8. QED
      BY <2>2, <2>7
  <1>3. CASE /\ y.logoutId = NoId
             /\ Amend(c, [y EXCEPT !.complete = TRUE])
             /\ PutLogout(p, c, NoIssuance, "done", IF y.cancelled THEN "confirmed" ELSE "local-only")
             /\ UNCHANGED mobileVars
    <2> DEFINE x == [y EXCEPT !.complete = TRUE]
               w == IF y.cancelled THEN "confirmed" ELSE "local-only"
    <2>1. /\ x \in ContextRecord /\ x.session = y.session /\ x.phone = y.phone
          /\ x.until = y.until /\ x.started = y.started /\ x.tx = y.tx /\ x.complete
          /\ x.alias = y.alias /\ x.orphan = NoIssuance /\ x.logoutId = y.logoutId
          /\ x.cancelled = y.cancelled
      BY DEF ContextRecord
    <2>2. ctx' = [ctx EXCEPT ![c] = x] /\ PutLogout(p, c, NoIssuance, "done", w)
      BY <1>3 DEF Amend
    <2> HIDE DEF x
    <2>3. w \in Answers /\ (w = "confirmed" => y.cancelled)
      BY DEF Answers
    <2> HIDE DEF w
    <2>4. Alone(p) /\ Onward
      BY <1>3, QuietAlone DEF Alone
    <2>5. Evolves(c) /\ ContextGood(c)'
      BY <1>2, <2>1, <2>2, <2>4
    <2>6. w = "confirmed" => x.session # NoId \/ (x.phone \in Issuance /\ x.phone \in revoked')
      BY <2>1, <2>3, <2>4 DEF Onward
    <2>7. LogoutTo(p, c, NoIssuance, "done", w, x)
      BY <2>1, <2>2, <2>5, <2>6 DEF LogoutTo
    <2>8. QED
      BY <2>1, <2>3, <2>4, <2>7, LogoutPut
  <1>4. CASE /\ y.logoutId # NoId /\ StartLogout(p, y.logoutId) /\ Amend(c, y)
             /\ IF job'[p].at = "done"
                THEN PutLogout(p, c, NoIssuance, "done", "pending")
                ELSE PutLogout(p, c, NoIssuance, "revoking", "none")
    <2>1. y.logoutId \in Id
      BY <1>4 DEF ContextRecord
    <2>2. Alone(p) /\ Onward
      BY <1>4, <2>1, ManagerAlone DEF ManagerOf, Alone
    <2>3. ctx' = [ctx EXCEPT ![c] = y]
      BY <1>4 DEF Amend
    <2>4. Evolves(c) /\ ContextGood(c)'
      BY <1>2, <2>2, <2>3
    <2>5. job'[p].op = "logout" /\ job'[p].id = y.logoutId
      BY <1>1, <1>4 DEF StartLogout, Start
    <2>6. PICK at \in {"done", "revoking"}, w \in {"pending", "none"} :
             /\ PutLogout(p, c, NoIssuance, at, w)
             /\ at # "done" => w = "none"
      BY <1>4
    <2>7. w \in Answers /\ w # "confirmed" /\ at # "cancelling" /\ at \in {"done", "cancelling", "revoking"}
      BY <2>6 DEF Answers
    <2>8. LogoutTo(p, c, NoIssuance, at, w, y)
      BY <1>4, <2>3, <2>4, <2>5, <2>6, <2>7 DEF LogoutTo
    <2>9. QED
      BY <2>2, <2>7, <2>8, LogoutPut
  <1>5. QED
    BY <1>3, <1>4 DEF LogoutSession

LEMMA StepStartContextLogout ==
  ASSUME BffInv, NEW p \in Proc, NEW c \in Context, NEW s \in Id \cup {NoId},
         StartContextLogout(p, c, s)
  PROVE  BffInv'
  <1> DEFINE lid == IF ctx[c].logoutId # NoId THEN ctx[c].logoutId
                    ELSE IF s # NoId THEN s ELSE ctx[c].alias
             y == [ctx[c] EXCEPT !.denied = TRUE, !.logoutId = lid]
  <1>1. /\ ctx \in [Context -> ContextRecord] /\ ctx[c] \in ContextRecord /\ ContextGood(c)
        /\ NoIssuance \notin Issuance
    BY StoreAssumption DEF BffInv, BffTypeOK
  <1>2. /\ contexts' = Live /\ c \in contexts /\ s \in {ctx[c].session, ctx[c].alias}
    BY DEF StartContextLogout, Fits, Live
  <1>3. Drawn(c) /\ contexts' \in {contexts, Live}
    BY <1>1, <1>2 DEF ContextGood
  <1>4. lid \in Id \cup {NoId}
    BY <1>1 DEF ContextRecord
  <1>5. /\ ctx[c].logoutId # NoId => lid = ctx[c].logoutId
        /\ lid # NoId => \/ lid = ctx[c].logoutId
                         \/ ctx[c].session # NoId
                         \/ Mine(lid, ctx[c].phone)
    BY <1>1, <1>2 DEF ContextGood
  <1>6. \/ Amend(c, y) /\ PutLogout(p, c, NoIssuance, "done", "pending") /\ UNCHANGED mobileVars
        \/ /\ y.orphan # NoIssuance
           /\ Amend(c, y) /\ PutLogout(p, c, y.orphan, "cancelling", "none") /\ UNCHANGED mobileVars
        \/ y.orphan = NoIssuance /\ LogoutSession(p, c, y)
    BY DEF StartContextLogout
  <1> HIDE DEF lid
  <1>7. /\ y \in ContextRecord /\ y.session = ctx[c].session /\ y.phone = ctx[c].phone
        /\ y.until = ctx[c].until /\ y.started = ctx[c].started /\ y.tx = ctx[c].tx
        /\ y.complete = ctx[c].complete /\ y.alias = ctx[c].alias /\ y.orphan = ctx[c].orphan
        /\ y.cancelled = ctx[c].cancelled /\ y.logoutId = lid
    BY <1>1, <1>4 DEF ContextRecord
  <1> HIDE DEF y
  <1>8. PICK x \in ContextRecord : x = y
    BY <1>7
  <1>9. ASSUME Amend(c, y), UNCHANGED mobileVars
        PROVE  /\ Alone(p) /\ ctx' = [ctx EXCEPT ![c] = x] /\ Evolves(c) /\ ContextGood(c)'
    <2>1. Alone(p) /\ Onward
      BY <1>9, QuietAlone DEF Alone
    <2>2. ctx' = [ctx EXCEPT ![c] = x] /\ ctx'[c] = x /\ ctx[c].until \in Nat
      BY <1>1, <1>8, <1>9 DEF Amend, ContextRecord
    <2>3. Evolves(c)
      BY <1>5, <1>7, <1>8, <2>2 DEF Evolves, Drawn
    <2>4. \A id, i : Mine(id, i) => Mine(id, i)'
      BY <2>1 DEF Onward, Mine, Used
    <2>5. x.logoutId # NoId => \/ x.logoutId = ctx[c].logoutId
                               \/ x.session # NoId
                               \/ Mine(x.logoutId, x.phone)'
      BY <1>5, <1>7, <1>8, <2>4
    <2>6. (x.phone # NoIssuance => x.session = NoId) /\ (x.tx # 0 => x.started)
      BY <1>1, <1>7, <1>8 DEF ContextGood
    <2>7. ContextGood(c)'
      BY <1>3, <1>7, <1>8, <2>1, <2>2, <2>3, <2>5, <2>6, ContextMoves
    <2>8. QED
      BY <2>1, <2>2, <2>3, <2>7
  <1>10. CASE Amend(c, y) /\ PutLogout(p, c, NoIssuance, "done", "pending") /\ UNCHANGED mobileVars
    <2>1. "pending" \in Answers /\ NoIssuance \in Issuance \cup {NoIssuance}
      BY DEF Answers
    <2>2. LogoutTo(p, c, NoIssuance, "done", "pending", x)
      BY <1>3, <1>7, <1>8, <1>9, <1>10 DEF LogoutTo
    <2>3. QED
      BY <1>9, <1>10, <2>1, <2>2, LogoutPut
  <1>11. CASE /\ y.orphan # NoIssuance
              /\ Amend(c, y) /\ PutLogout(p, c, y.orphan, "cancelling", "none") /\ UNCHANGED mobileVars
    <2>1. PICK i \in Issuance : i = y.orphan /\ i = x.phone
      BY <1>1, <1>7, <1>8, <1>11 DEF ContextGood, ContextRecord
    <2>2. "none" \in Answers /\ i \in Issuance \cup {NoIssuance} /\ PutLogout(p, c, i, "cancelling", "none")
      BY <1>11, <2>1 DEF Answers
    <2>3. LogoutTo(p, c, i, "cancelling", "none", x)
      BY <1>3, <1>7, <1>8, <1>9, <1>11, <2>1, <2>2 DEF LogoutTo
    <2>4. QED
      BY <1>9, <1>11, <2>2, <2>3, LogoutPut
  <1>12. CASE y.orphan = NoIssuance /\ LogoutSession(p, c, y)
    <2>1. y.cancelled => y.phone \in Issuance /\ y.phone \in revoked
      BY <1>1, <1>7 DEF ContextGood, Revoked
    <2>2. LogoutSession(p, c, x)
      BY <1>8, <1>12
    <2>3. y.logoutId # NoId => \/ y.logoutId = ctx[c].logoutId \/ y.session # NoId
                               \/ Mine(y.logoutId, y.phone)
      BY <1>5, <1>7
    <2>4. QED
      BY <1>3, <1>5, <1>7, <1>8, <1>12, <2>1, <2>2, <2>3, LogoutSessionStep
  <1>13. QED
    BY <1>6, <1>10, <1>11, <1>12

LEMMA StepEndLogoutCancel ==
  ASSUME BffInv, NEW p \in Proc, EndLogoutCancel(p)
  PROVE  BffInv'
  <1>1. req[p].op = "logout" /\ req[p].at = "cancelled" /\ contexts' = contexts
    BY DEF EndLogoutCancel, At
  <1>2. PICK c \in Context : c = req[p].ctx
    BY <1>1, AtHandler
  <1>3. /\ ctx \in [Context -> ContextRecord] /\ ctx[c] \in ContextRecord /\ Drawn(c)
        /\ ContextGood(c) /\ req[p].iss = ctx[c].phone /\ req[p].iss \in Issuance
        /\ req[p].ok => req[p].iss \in revoked
    BY <1>1, <1>2, AtHandler DEF RequestGood
  <1> DEFINE y == [ctx[c] EXCEPT !.orphan = NoIssuance, !.cancelled = TRUE]
  <1>4. \/ req[p].ok /\ LogoutSession(p, c, y)
        \/ PutLogout(p, c, NoIssuance, "done", "pending") /\ UNCHANGED mobileVars /\ UNCHANGED ctx
    BY <1>2 DEF EndLogoutCancel
  <1>5. /\ y \in ContextRecord /\ y.session = ctx[c].session /\ y.phone = ctx[c].phone
        /\ y.until = ctx[c].until /\ y.started = ctx[c].started /\ y.tx = ctx[c].tx
        /\ y.complete = ctx[c].complete /\ y.alias = ctx[c].alias /\ y.orphan = NoIssuance
        /\ y.logoutId = ctx[c].logoutId
    BY <1>3 DEF ContextRecord
  <1> HIDE DEF y
  <1>6. CASE req[p].ok /\ LogoutSession(p, c, y)
    <2>1. PICK x \in ContextRecord : x = y
      BY <1>5
    <2>2. LogoutSession(p, c, x)
      BY <1>6, <2>1
    <2>3. x.cancelled => x.phone \in Issuance /\ x.phone \in revoked
      BY <1>3, <1>5, <1>6, <2>1
    <2>4. QED
      BY <1>1, <1>3, <1>5, <2>1, <2>2, <2>3, LogoutSessionStep
  <1>7. CASE PutLogout(p, c, NoIssuance, "done", "pending") /\ UNCHANGED mobileVars /\ UNCHANGED ctx
    <2>1. Alone(p)
      BY <1>7, QuietAlone
    <2>2. PICK x \in ContextRecord : x = ctx[c] /\ ctx' = [ctx EXCEPT ![c] = x] /\ Evolves(c)
      BY <1>7, SameContext
    <2>3. "pending" \in Answers /\ NoIssuance \in Issuance \cup {NoIssuance}
      BY DEF Answers
    <2>4. LogoutTo(p, c, NoIssuance, "done", "pending", x)
      BY <1>1, <1>3, <1>7, <2>2 DEF LogoutTo
    <2>5. QED
      BY <2>1, <2>3, <2>4, LogoutPut
  <1>8. QED
    BY <1>4, <1>6, <1>7

\* UBID's answer to a cancellation, or its loss.
LEMMA CancelHeard ==
  ASSUME BffInv, NEW p \in Proc, Alone(p), KeepsTurn(p), UNCHANGED contextVars,
         req[p].at \in {"cancelling", "cancelled"},
         NEW r \in Request, req' = [req EXCEPT ![p] = r], r.op = req[p].op,
         r.ctx = req[p].ctx, r.iss = req[p].iss, r.reply = req[p].reply, r.at = "cancelled",
         r.ok => r.iss \in revoked'
  PROVE  BffInv'
  <1>1. PICK c \in Context : c = req[p].ctx
    BY AtHandler
  <1>2. /\ RequestGood(p) /\ req \in [Proc -> Request] /\ Drawn(c)
        /\ contexts' \in {contexts, Live} /\ UNCHANGED ctx
    BY <1>1, AtHandler DEF contextVars
  <1>3. PICK x \in ContextRecord : x = ctx[c] /\ ctx' = [ctx EXCEPT ![c] = x] /\ Evolves(c)
    BY <1>2, SameContext
  <1>4. Drawn(c)' /\ req'[p] = r /\ ctx'[c] = ctx[c] /\ ctx'[c].until \in Nat /\ Onward
    BY <1>2, <1>3 DEF Evolves, ContextRecord, Alone
  <1>5. Kept(c) => Kept(c)'
    BY <1>2, <1>3, <1>4, KeptOn
  <1>6. /\ r.op \in Commands => Holds(p, c)'
        /\ r.op \in Commands \ {"desktop"} => ctx'[c].session = NoId
        /\ r.op = "issue" => ctx'[c].phone \in Issuance /\ Kept(c)'
    BY <1>1, <1>2, <1>4, <1>5 DEF RequestGood, KeepsTurn, Obtaining
  <1>7. /\ r.op # "none" /\ r.reply = "none" /\ r.iss \in Issuance /\ r.iss = ctx'[c].phone
        /\ r.op = "callback" => ctx'[c].started /\ ctx'[c].tx = 0
    BY <1>1, <1>2, <1>4 DEF RequestGood
  <1>8. RequestGood(p)'
    BY <1>1, <1>4, <1>6, <1>7 DEF RequestGood, Obtaining
  <1>9. r.op = "callback" => \A q \in Proc \ {p} : req[q].op = "callback" => req[q].ctx # r.ctx
    BY DEF BffInv, OneCallback
  <1>10. QED
    BY <1>2, <1>3, <1>8, <1>9, HandlerStep

LEMMA StepServeCancel ==
  ASSUME BffInv, NEW p \in Proc, ServeCancel(p)
  PROVE  BffInv'
  <1>1. req[p].at = "cancelling" /\ UNCHANGED contextVars
    BY DEF ServeCancel, contextVars
  <1>2. PICK i \in Issuance : i = req[p].iss
    BY <1>1, AtHandler DEF RequestGood
  <1>3. revoked' = revoked \cup {i} /\ UNCHANGED <<storeVars, managerVars, receipt>>
    BY <1>2 DEF ServeCancel
  <1>4. Alone(p) /\ KeepsTurn(p)
    BY <1>3, RevokeAlone
  <1> DEFINE r == [req[p] EXCEPT !.at = "cancelled", !.ok = TRUE]
  <1>5. req' = [req EXCEPT ![p] = r] /\ req[p] \in Request
    BY <1>1, AtHandler DEF ServeCancel
  <1>6. /\ r \in Request /\ r.op = req[p].op /\ r.ctx = req[p].ctx /\ r.iss = req[p].iss
        /\ r.reply = req[p].reply /\ r.at = "cancelled"
    BY <1>5, ZenonT(40) DEF Request
  <1> HIDE DEF r
  <1>7. r.ok => r.iss \in revoked'
    BY <1>2, <1>3, <1>6
  <1>8. QED
    BY <1>1, <1>4, <1>5, <1>6, <1>7, CancelHeard

LEMMA StepDropCancel ==
  ASSUME BffInv, NEW p \in Proc, DropCancel(p)
  PROVE  BffInv'
  <1>1. req[p].at \in {"cancelling", "cancelled"} /\ UNCHANGED contextVars /\ UNCHANGED mobileVars
    BY DEF DropCancel, contextVars
  <1>2. Alone(p) /\ KeepsTurn(p)
    BY <1>1, QuietAlone
  <1> DEFINE r == [req[p] EXCEPT !.at = "cancelled", !.ok = FALSE]
  <1>3. req' = [req EXCEPT ![p] = r] /\ req[p] \in Request
    BY <1>1, AtHandler DEF DropCancel
  <1>4. /\ r \in Request /\ r.op = req[p].op /\ r.ctx = req[p].ctx /\ r.iss = req[p].iss
        /\ r.reply = req[p].reply /\ r.at = "cancelled" /\ ~r.ok
    BY <1>3, ZenonT(40) DEF Request
  <1> HIDE DEF r
  <1>5. QED
    BY <1>1, <1>2, <1>3, <1>4, CancelHeard

\* The manager's logout goes on; its end is the answer of the request.
LEMMA StepLogoutStep ==
  ASSUME BffInv, NEW p \in Proc, LogoutStep(p)
  PROVE  BffInv'
  <1>1. /\ req[p].op = "logout" /\ req[p].at = "revoking" /\ contexts' = contexts
        /\ BeginLogoutCall(p) \/ EndLogout(p)
    BY DEF LogoutStep, At
  <1>2. PICK c \in Context : c = req[p].ctx
    BY <1>1, AtHandler
  <1>3. /\ ctx \in [Context -> ContextRecord] /\ ctx[c] \in ContextRecord /\ Drawn(c)
        /\ ContextGood(c) /\ req[p] \in Request /\ req \in [Proc -> Request] /\ RequestGood(p)
        /\ ctx[c].until \in Nat
    BY <1>1, <1>2, AtHandler DEF ContextRecord
  <1>4. PICK id \in Id : id = ctx[c].logoutId
    BY <1>1, <1>2, <1>3 DEF RequestGood, ContextRecord
  <1>5. Alone(p) /\ KeepsTurn(p) /\ Onward /\ CoreInv'
    BY <1>1, ManagerAlone DEF ManagerOf, Alone, Onward
  <1>6. /\ job[p].op = "logout" /\ job[p].id = id /\ id # NoId
        /\ job'[p].op = "logout" /\ job'[p].id = id
        /\ job'[p].at = "done" /\ job'[p].reply = "confirmed" =>
              logout'[id] # NoLogout /\ logout'[id].confirmed
    <2>1. job[p].op = "logout" /\ job[p].id = id /\ id # NoId
      BY <1>1, <1>2, <1>3, <1>4 DEF RequestGood
    <2>2. /\ job \in [Proc -> Job] /\ job[p] \in Job /\ logout \in [Id -> Logout \cup {NoLogout}]
          /\ job[p].at # "done" => Denied(id)
      BY <2>1 DEF BffInv, BffTypeOK, MobileTypeOK, StoreTypeOK, CoreInv, Base, JobsNamed
    <2>3. job'[p].op = "logout" /\ job'[p].id = id
      <3>1. Call(p) \/ \E w \in Replies : Finish(p, w)
        BY <1>1 DEF BeginLogoutCall, EndLogout, Replies
      <3>2. CASE Call(p)
        BY <2>1, <2>2, <3>2 DEF Call, Job
      <3>3. ASSUME NEW w \in Replies, Finish(p, w)
            PROVE  job'[p].op = "logout" /\ job'[p].id = id
        BY <2>1, <2>2, <3>3 DEF Finish, Job
      <3>4. QED
        BY <3>1, <3>2, <3>3
    <2>4. CASE BeginLogoutCall(p)
      <3>1. UNCHANGED logout /\ job[p].at # "done" /\ (Call(p) \/ logout[id].confirmed)
        BY <2>1, <2>4 DEF BeginLogoutCall
      <3>2. Call(p) => job'[p].at = "calling"
        BY <2>2 DEF Call, Job
      <3>3. QED
        BY <2>1, <2>2, <2>3, <3>1, <3>2 DEF Denied
    <2>5. CASE EndLogout(p)
      <3>1. CASE job[p].ok
        <4>1. logout' = [logout EXCEPT ![id] = [until |-> logout[id].until, confirmed |-> TRUE]]
          BY <2>1, <2>5, <3>1 DEF EndLogout
        <4>2. logout'[id].confirmed = TRUE
          BY <2>2, <4>1
        <4>3. QED
          BY <2>1, <2>3, <4>2 DEF NoLogout
      <3>2. CASE ~job[p].ok
        <4>1. Finish(p, "unavailable")
          BY <2>5, <3>2 DEF EndLogout
        <4>2. job'[p].reply = "unavailable"
          BY <2>2, <4>1 DEF Finish, Job
        <4>3. QED
          BY <2>1, <2>3, <4>2
      <3>3. QED
        BY <3>1, <3>2
    <2>6. QED
      BY <1>1, <2>1, <2>3, <2>4, <2>5
  <1>7. CASE job'[p].at # "done" /\ UNCHANGED <<req, ctx>>
    <2>1. PICK x \in ContextRecord : x = ctx[c] /\ ctx' = [ctx EXCEPT ![c] = x] /\ Evolves(c)
      BY <1>7, SameContext
    <2>2. PICK r \in Request : r = req[p] /\ req' = [req EXCEPT ![p] = r]
      BY <1>3, <1>7
    <2>3. ctx'[c] = ctx[c] /\ req'[p] = req[p] /\ Drawn(c)'
      BY <1>3, <1>7, <2>1 DEF Evolves
    <2>4. RequestGood(p)'
      BY <1>1, <1>2, <1>3, <1>4, <1>6, <2>3 DEF RequestGood, Commands
    <2>5. QED
      BY <1>1, <1>5, <2>1, <2>2, <2>4, HandlerStep
  <1>8. CASE /\ job'[p].at = "done" /\ job'[p].reply = "confirmed"
             /\ Amend(c, [ctx[c] EXCEPT !.complete = TRUE])
             /\ Reply(p, "confirmed")
    <2> DEFINE y == [ctx[c] EXCEPT !.complete = TRUE]
    <2>1. y \in ContextRecord /\ ctx' = [ctx EXCEPT ![c] = y]
      BY <1>3, <1>8 DEF ContextRecord, Amend
    <2>2. PICK x \in ContextRecord : x = y
      BY <2>1
    <2>3. /\ x.session = ctx[c].session /\ x.phone = ctx[c].phone /\ x.until = ctx[c].until
          /\ x.logoutId = ctx[c].logoutId /\ x.started = ctx[c].started /\ x.tx = ctx[c].tx
          /\ x.alias = ctx[c].alias /\ x.orphan = ctx[c].orphan
          /\ x.cancelled = ctx[c].cancelled /\ x.complete
      BY <1>3, <2>2 DEF ContextRecord
    <2>4. Evolves(c) /\ ContextGood(c)'
      BY <1>1, <1>3, <1>5, <2>1, <2>2, <2>3, AmendedSafely
    <2>5. Credential(id)' \in revoked'
      BY <1>4, <1>5, <1>6, <1>8 DEF CoreInv, ConfirmedIsRevoked, Denied
    <2>6. x.session # NoId \/ (x.phone \in Issuance /\ x.phone \in revoked')
      <3>1. SUFFICES ASSUME x.session = NoId
                     PROVE  x.phone \in Issuance /\ x.phone \in revoked'
        OBVIOUS
      <3>2. Mine(id, ctx[c].phone)
        BY <1>3, <1>4, <1>6, <2>3, <3>1 DEF ContextGood
      <3>3. record'[id] = record[id]
        BY <1>5, <3>2 DEF Onward, Mine
      <3>4. Credential(id)' = ctx[c].phone
        BY <3>2, <3>3 DEF Credential, Mobile, Mine
      <3>5. QED
        BY <2>3, <2>5, <3>2, <3>4 DEF Mine
    <2>7. "confirmed" \in Answers /\ req[p].op # "none"
      BY <1>1 DEF Answers
    <2>8. AnswerTo(p, c, "confirmed", x)
      BY <1>1, <1>2, <1>8, <2>1, <2>2, <2>3, <2>4, <2>6, <2>7 DEF AnswerTo
    <2>9. QED
      BY <1>5, <2>7, <2>8, AnsweredStep
  <1>9. CASE Reply(p, "pending") /\ UNCHANGED ctx
    BY <1>1, <1>5, <1>9, AnsweredAsIs DEF Answers
  <1>10. QED
    BY <1>2, <1>7, <1>8, <1>9 DEF LogoutStep

-----------------------------------------------------------------------------
(* The actions that begin a request, and those of no handler.              *)

\* The contexts are swept at most, and no request is moved.
LEMMA UnseenStep ==
  ASSUME BffInv, Onward, contexts' \in {contexts, Live}, UNCHANGED <<ctx, req>>,
         \A q \in Proc : /\ job'[q].op = job[q].op /\ job'[q].iss = job[q].iss
                         /\ job'[q].id = job[q].id
                         /\ \A c \in Context : Holds(q, c) => Holds(q, c)'
  PROVE  BffInv'
  <1>1. /\ contexts \subseteq Context /\ ctx \in [Context -> ContextRecord] /\ OneCallback
        /\ req \in [Proc -> Request] /\ clock \in Nat /\ MobileTypeOK'
        /\ \A c \in Context : ContextGood(c)
    BY DEF BffInv, BffTypeOK, Onward, CoreInv, Base, MobileTypeOK, StoreTypeOK
  <1>2. contexts' \subseteq contexts /\ \A d \in contexts \ contexts' : ctx[d].until <= clock
    <2>1. \A d \in Context : ctx[d].until \in Nat
      BY <1>1 DEF ContextRecord
    <2>2. QED
      BY <1>1, <2>1 DEF Live
  <1>3. BffTypeOK' /\ Drops
    BY <1>1, <1>2 DEF BffTypeOK, Drops
  <1>4. \A c \in Context : Evolves(c) /\ ctx'[c] = ctx[c]
    BY SameContext
  <1>5. \A c \in contexts' : Drawn(c)'
    BY <1>1, <1>2, <1>4 DEF ContextGood, Evolves
  <1>6. \A q \in Proc : Unmoved(q)
    BY <1>4 DEF Unmoved
  <1>7. OneCallback'
    BY <1>1 DEF OneCallback
  <1>8. QED
    BY <1>3, <1>4, <1>5, <1>6, <1>7, BffFrame

LEMMA StepSweepContexts ==
  ASSUME BffInv, SweepContexts
  PROVE  BffInv'
  <1>1. UNCHANGED mobileVars /\ contexts' \in {contexts, Live} /\ UNCHANGED <<ctx, req>>
    BY DEF SweepContexts
  <1>2. \A q \in Proc : Alone(q) /\ KeepsTurn(q)
    BY <1>1, QuietAlone
  <1>3. Onward
    BY <1>1, CoreManager DEF Onward, BffInv, mobileVars, CoreInv, Base, MobileTypeOK, StoreTypeOK
  <1>4. UNCHANGED job
    BY <1>1 DEF mobileVars
  <1>5. QED
    BY <1>1, <1>2, <1>3, <1>4, UnseenStep DEF KeepsTurn

\* The manager, UBID or the network moves for p, and no handler ends.
LEMMA StepManager ==
  ASSUME BffInv, NEW p \in Proc, ManagerStep(p) \/ UpstreamStep(p)
  PROVE  BffInv'
  <1>1. /\ EndRead(p) \/ BeginInstall(p) \/ Serve(p) \/ Drop(p)
        /\ contexts' \in {contexts, Live} /\ UNCHANGED <<ctx, req>>
    BY DEF ManagerStep, UpstreamStep, contextVars
  <1>2. Alone(p) /\ KeepsTurn(p)
    BY <1>1, ManagerAlone DEF ManagerOf
  <1>3. job'[p].op = job[p].op /\ job'[p].iss = job[p].iss /\ job'[p].id = job[p].id
    <2>1. job \in [Proc -> Job] /\ job[p] \in Job
      BY DEF BffInv, BffTypeOK, MobileTypeOK
    <2>2. CASE EndRead(p)
      BY <2>1, <2>2 DEF EndRead, Finish, Job
    <2>3. CASE BeginInstall(p)
      BY <2>1, <2>3 DEF BeginInstall, Call, Job
    <2>4. CASE Serve(p) \/ Drop(p)
      <3>1. PICK ok \in BOOLEAN : Answer(p, ok)
        BY <2>4 DEF Serve, Drop, Active
      <3>2. QED
        BY <2>1, <3>1 DEF Answer, Job
    <2>5. QED
      BY <1>1, <2>2, <2>3, <2>4
  <1>4. \A q \in Proc : /\ job'[q].op = job[q].op /\ job'[q].iss = job[q].iss
                        /\ job'[q].id = job[q].id
                        /\ \A c \in Context : Holds(q, c) => Holds(q, c)'
    BY <1>2, <1>3 DEF Alone, KeepsTurn
  <1>5. QED
    BY <1>1, <1>2, <1>4, UnseenStep DEF Alone

LEMMA StepTick ==
  ASSUME BffInv, BffTick
  PROVE  BffInv'
  <1>1. CoreInv /\ [MobileNext]_mobileVars /\ clock \in Nat
    BY DEF BffInv, BffTick, MobileNext, CoreInv, Base, MobileTypeOK, StoreTypeOK
  <1>2. UNCHANGED <<record, revoked, job, locks>> /\ clock <= clock'
    BY <1>1 DEF BffTick, MobileTick, Tick, managerVars, ubidVars
  <1>3. Onward
    BY <1>1, <1>2, CoreManager DEF Onward
  <1>4. contexts' \in {contexts, Live} /\ UNCHANGED <<ctx, req>>
    BY DEF BffTick, contextVars
  <1>5. QED
    BY <1>2, <1>3, <1>4, UnseenStep DEF Holds

LEMMA StepRevoke ==
  ASSUME BffInv, NEW i \in Issuance, BffRevoke(i)
  PROVE  BffInv'
  <1>1. CoreInv /\ [MobileNext]_mobileVars /\ clock \in Nat
    BY DEF BffInv, BffRevoke, MobileNext, CoreInv, Base, MobileTypeOK, StoreTypeOK
  <1>2. UNCHANGED <<clock, record, job, locks>> /\ revoked \subseteq revoked'
    BY DEF BffRevoke, UbidRevoke, storeVars, managerVars
  <1>3. Onward
    BY <1>1, <1>2, CoreManager DEF Onward
  <1>4. contexts' \in {contexts, Live} /\ UNCHANGED <<ctx, req>>
    BY DEF BffRevoke, contextVars
  <1>5. QED
    BY <1>2, <1>3, <1>4, UnseenStep DEF Holds

\* A request that begins, on a context that is in the Map.
LEMMA BegunRequest ==
  ASSUME BffInv, NEW p \in Proc, NEW c \in Context, NEW s \in Id \cup {NoId},
         NEW op \in Commands \cup {"callback"}, NEW at \in {"queued", "upstream"},
         Begin(p, op, c, s, at)
  PROVE  \E r \in Request :
            /\ req' = [req EXCEPT ![p] = r]
            /\ r.op = op /\ r.ctx = c /\ r.at = at /\ r.reply = "none"
  <1> DEFINE r == [NoRequest EXCEPT !.op = op, !.ctx = c, !.sent = s, !.at = at]
  <1>1. r.op = op /\ r.ctx = c /\ r.at = at /\ r.reply = "none"
    BY DEF NoRequest
  <1>2. r \in Request
    <2>1. \A v \in Request : [v EXCEPT !.op = op] \in Request
      BY DEF Request
    <2>2. \A v \in Request : [v EXCEPT !.ctx = c] \in Request
      BY DEF Request
    <2>3. \A v \in Request : [v EXCEPT !.sent = s] \in Request
      BY DEF Request
    <2>4. \A v \in Request : [v EXCEPT !.at = at] \in Request
      BY DEF Request
    <2>5. QED
      BY <2>1, <2>2, <2>3, <2>4, AbsentRequest, Zenon
  <1>3. req' = [req EXCEPT ![p] = r]
    BY DEF Begin
  <1> HIDE DEF r
  <1>4. QED
    BY <1>1, <1>2, <1>3

LEMMA StepStartCommand ==
  ASSUME BffInv, NEW p \in Proc, NEW op \in Commands, NEW c \in Context,
         NEW s \in Id \cup {NoId}, StartCommand(p, op, c, s)
  PROVE  BffInv'
  <1>1. /\ c \in contexts /\ contexts' \in {contexts, Live} /\ UNCHANGED ctx /\ Acquire(p, c)
        /\ Begin(p, op, c, s, "queued")
        /\ UNCHANGED <<storeVars, cancellations, aliases, job, ubidVars>>
    BY DEF StartCommand, Fits, Live
  <1>2. Alone(p)
    BY <1>1, LockAlone
  <1>3. PICK r \in Request : /\ req' = [req EXCEPT ![p] = r]
                             /\ r.op = op /\ r.ctx = c /\ r.at = "queued" /\ r.reply = "none"
    BY <1>1, BegunRequest
  <1>4. PICK x \in ContextRecord : x = ctx[c] /\ ctx' = [ctx EXCEPT ![c] = x] /\ Evolves(c)
    BY <1>1, SameContext
  <1>5. Drawn(c)' /\ req'[p] = r
    BY <1>1, <1>3, <1>4 DEF BffInv, BffTypeOK, ContextGood, Evolves
  <1>6. op \notin {"none", "logout", "callback"}
    BY DEF Commands
  <1>7. RequestGood(p)'
    BY <1>3, <1>5, <1>6 DEF RequestGood, Obtaining
  <1>8. QED
    BY <1>1, <1>2, <1>3, <1>4, <1>6, <1>7, HandlerStep

\* The callback takes the transaction, so no other callback is under way.
LEMMA StepStartCallback ==
  ASSUME BffInv, NEW p \in Proc, NEW c \in Context, StartCallback(p, c)
  PROVE  BffInv'
  <1>1. /\ ctx \in [Context -> ContextRecord] /\ ctx[c] \in ContextRecord /\ ContextGood(c)
        /\ clock \in Nat /\ ctx[c].tx \in Nat
    BY DEF BffInv, BffTypeOK, ContextRecord, MobileTypeOK, StoreTypeOK
  <1>2. /\ ctx[c].tx # 0 /\ contexts' \in {contexts, Live} /\ UNCHANGED mobileVars
        /\ ctx' = [ctx EXCEPT ![c] = [ctx[c] EXCEPT !.tx = 0]]
        /\ Begin(p, "callback", c, NoId, "upstream")
    BY <1>1 DEF StartCallback, PendingTx, Amend
  <1>3. Drawn(c) /\ ctx[c].started
    BY <1>1, <1>2 DEF ContextGood
  <1>4. PICK r \in Request : /\ req' = [req EXCEPT ![p] = r] /\ r.op = "callback"
                             /\ r.ctx = c /\ r.at = "upstream" /\ r.reply = "none"
    BY <1>2, BegunRequest
  <1> DEFINE y == [ctx[c] EXCEPT !.tx = 0]
  <1>5. /\ y \in ContextRecord /\ y.session = ctx[c].session /\ y.phone = ctx[c].phone
        /\ y.until = ctx[c].until /\ y.logoutId = ctx[c].logoutId /\ y.alias = ctx[c].alias
        /\ y.orphan = ctx[c].orphan /\ y.cancelled = ctx[c].cancelled
        /\ y.complete = ctx[c].complete /\ y.started /\ y.tx = 0
    BY <1>1, <1>3 DEF ContextRecord
  <1>6. ctx' = [ctx EXCEPT ![c] = y]
    BY <1>2
  <1> HIDE DEF y
  <1>7. PICK x \in ContextRecord : x = y
    BY <1>5
  <1>8. Alone(p) /\ Onward
    BY <1>2, QuietAlone DEF Alone
  <1>9. ctx'[c] = x /\ ctx[c].until \in Nat
    BY <1>1, <1>6, <1>7 DEF ContextRecord
  <1>10. Evolves(c)
    BY <1>5, <1>7, <1>9 DEF Evolves, Drawn
  <1>11. x.phone # NoIssuance => x.session = NoId
    BY <1>1, <1>5, <1>7 DEF ContextGood
  <1>12. ContextGood(c)'
    BY <1>2, <1>3, <1>5, <1>7, <1>8, <1>9, <1>10, <1>11, ContextMoves
  <1>13. Drawn(c)' /\ req'[p] = r
    BY <1>3, <1>4, <1>10 DEF BffInv, BffTypeOK, Evolves
  <1>14. RequestGood(p)'
    BY <1>4, <1>5, <1>7, <1>9, <1>13 DEF RequestGood, Obtaining, Commands
  <1>15. \A q \in Proc \ {p} : req[q].op = "callback" => req[q].ctx # r.ctx
    BY <1>2, <1>4 DEF BffInv, RequestGood
  <1>16. QED
    BY <1>2, <1>4, <1>5, <1>6, <1>7, <1>8, <1>10, <1>12, <1>14, <1>15, HandlerStep

\* A step of no handler, on the contexts alone.
LEMMA ContextStep ==
  ASSUME BffInv, Onward, NEW c \in Context, NEW x \in ContextRecord,
         ctx' = [ctx EXCEPT ![c] = x], contexts' \subseteq contexts \cup {c},
         Drops, UNCHANGED <<job, locks, req>>,
         Evolves(c), ContextGood(c)', Drawn(c)', x.phone = ctx[c].phone
  PROVE  BffInv'
  <1>1. /\ ctx \in [Context -> ContextRecord] /\ req \in [Proc -> Request]
        /\ contexts \subseteq Context /\ MobileTypeOK' /\ OneCallback
        /\ \A d \in Context : ContextGood(d)
    BY DEF BffInv, BffTypeOK, Onward, CoreInv, Base
  <1>2. ctx'[c] = x /\ \A d \in Context : d # c => ctx'[d] = ctx[d]
    BY <1>1
  <1>3. BffTypeOK'
    <2>1. ctx' \in [Context -> ContextRecord]
      BY <1>1
    <2>2. QED
      BY <1>1, <2>1 DEF BffTypeOK
  <1>4. \A d \in Context : Evolves(d) /\ (ctx'[d] = ctx[d] \/ ContextGood(d)')
    <2>1. \A d \in Context : ctx[d].until \in Nat
      BY <1>1 DEF ContextRecord
    <2>2. \A d \in Context : d # c => Evolves(d)
      BY <1>2, <2>1 DEF Evolves, Drawn
    <2>3. QED
      BY <1>2, <2>2
  <1>5. \A d \in contexts' : Drawn(d)'
    BY <1>1, <1>4 DEF ContextGood, Evolves
  <1>6. \A q \in Proc : Unmoved(q)
    BY <1>2 DEF Unmoved, Holds
  <1>7. OneCallback'
    BY <1>1 DEF OneCallback
  <1>8. QED
    BY <1>3, <1>4, <1>5, <1>6, <1>7, BffFrame

LEMMA StepLogin ==
  ASSUME BffInv, NEW c \in Context, Login(c)
  PROVE  BffInv'
  <1>1. /\ ctx \in [Context -> ContextRecord] /\ ctx[c] \in ContextRecord /\ ContextGood(c)
        /\ clock \in Nat /\ ctx[c].until \in Nat /\ contexts \subseteq Context
    BY DEF BffInv, BffTypeOK, ContextRecord, MobileTypeOK, StoreTypeOK
  <1> DEFINE t == IF Cardinality(PendingTx) < TxCapacity THEN clock + TxLife ELSE 0
             y == [ctx[c] EXCEPT !.started = TRUE, !.tx = t]
  <1>2. /\ c \in contexts /\ ~ctx[c].started /\ contexts' = Live
        /\ ctx' = [ctx EXCEPT ![c] = y] /\ UNCHANGED mobileVars /\ UNCHANGED req
    BY DEF Login, Fits, Live, Amend
  <1>3. t \in Nat
    BY <1>1, BffAssumption
  <1> HIDE DEF t
  <1>4. /\ y \in ContextRecord /\ y.session = ctx[c].session /\ y.phone = ctx[c].phone
        /\ y.until = ctx[c].until /\ y.logoutId = ctx[c].logoutId /\ y.alias = ctx[c].alias
        /\ y.orphan = ctx[c].orphan /\ y.cancelled = ctx[c].cancelled
        /\ y.complete = ctx[c].complete /\ y.started
    BY <1>1, <1>3 DEF ContextRecord
  <1> HIDE DEF y
  <1>5. PICK x \in ContextRecord : x = y
    BY <1>4
  <1>6. /\ Onward /\ UNCHANGED <<job, locks, req>>
    BY <1>2, CoreManager DEF Onward, BffInv, mobileVars, CoreInv, Base, MobileTypeOK, StoreTypeOK
  <1>7. ctx'[c] = x
    BY <1>1, <1>2, <1>5
  <1>8. Drawn(c) /\ Evolves(c)
    BY <1>1, <1>2, <1>4, <1>5, <1>7 DEF ContextGood, Evolves, Drawn
  <1>9. x.phone # NoIssuance => x.session = NoId
    BY <1>1, <1>4, <1>5 DEF ContextGood
  <1>10. ContextGood(c)' /\ Drawn(c)'
    BY <1>2, <1>4, <1>5, <1>6, <1>7, <1>8, <1>9, ContextMoves DEF Evolves
  <1>11. contexts' \subseteq contexts \cup {c} /\ Drops
    <2>1. \A d \in contexts \ contexts' : ~(ctx[d].until > clock)
      BY <1>2 DEF Live
    <2>2. \A d \in contexts : ctx[d].until \in Nat
      BY <1>1 DEF ContextRecord
    <2>3. QED
      BY <1>1, <1>2, <2>1, <2>2 DEF Drops, Live
  <1>12. QED
    BY <1>2, <1>4, <1>5, <1>6, <1>8, <1>10, <1>11, ContextStep

\* A context is drawn; a login replaces the one before it only if nothing owns
\* that.
LEMMA StepNewContext ==
  ASSUME BffInv, NEW c \in Context, NEW purpose \in {"none", "login", "logout"},
         NEW prior \in Context \cup {NoContext}, NEW s \in Id \cup {NoId},
         NewContext(c, purpose, prior, s)
  PROVE  BffInv'
  <1> DEFINE session == IF s # NoId /\ Retained(s) THEN s ELSE NoId
             replaced == IF purpose = "login" THEN Live \cap {prior} ELSE {}
             y == NewContextRecord(session, clock + ContextLife)
  <1>1. /\ ctx \in [Context -> ContextRecord] /\ clock \in Nat /\ contexts \subseteq Context
        /\ \A d \in contexts : ctx[d].until \in Nat
        /\ CoreInv /\ MobileTypeOK
    BY DEF BffInv, BffTypeOK, ContextRecord, MobileTypeOK, StoreTypeOK
  <1>2. /\ ctx[c] = Undrawn /\ contexts' = (Live \ replaced) \cup {c}
        /\ \A d \in replaced : ~Owned(d)
        /\ ctx' = [ctx EXCEPT ![c] = y] /\ slots' \in {slots, Swept}
        /\ UNCHANGED <<clock, record, logout, managerVars, ubidVars, req>>
    BY DEF NewContext, Amend
  <1>3. session \in Id \cup {NoId} /\ replaced \subseteq contexts /\ clock + ContextLife \in Nat
    BY <1>1, BffAssumption DEF Live
  <1> HIDE DEF session, replaced
  <1>4. /\ y \in ContextRecord /\ y.session = session /\ y.phone = NoIssuance
        /\ y.until = clock + ContextLife /\ y.logoutId = NoId /\ y.alias = NoId
        /\ y.orphan = NoIssuance /\ ~y.cancelled /\ y.tx = 0
    BY <1>3 DEF ContextRecord, NewContextRecord
  <1> HIDE DEF y
  <1>5. /\ UNCHANGED <<clock, record, logout, cancellations, aliases, job, locks, receipt, revoked>>
    BY <1>2 DEF managerVars, ubidVars
  <1>6. CoreInv'
    <2>1. /\ locks' \in [LockKey -> Seq(Proc)] /\ revoked \subseteq Issuance \cup Id
      BY <1>1, <1>5 DEF MobileTypeOK
    <2>2. QED
      BY <1>1, <1>2, <1>5, <2>1, CoreOuter
  <1>7. Onward
    BY <1>1, <1>5, <1>6 DEF Onward
  <1>8. PICK x \in ContextRecord : x = y
    BY <1>4
  <1>9. ctx'[c] = x /\ ctx' = [ctx EXCEPT ![c] = x]
    BY <1>1, <1>2, <1>8
  <1>10. /\ ctx[c].until = 0 /\ ctx[c].phone = NoIssuance
    BY <1>2 DEF Undrawn, NewContextRecord
  <1>11. Evolves(c)
    BY <1>10 DEF Evolves, Drawn
  <1>12. Drawn(c)'
    <2>1. clock + ContextLife > 0
      BY <1>1, BffAssumption
    <2>2. QED
      BY <1>4, <1>8, <1>9, <2>1 DEF Drawn
  <1>13. ContextGood(c)'
    BY <1>4, <1>8, <1>9, <1>12 DEF ContextGood
  <1>14. contexts' \subseteq contexts \cup {c} /\ Drops
    <2>1. ASSUME NEW d \in contexts \ contexts'
          PROVE  ctx[d].until <= clock \/ ctx[d].complete \/ ctx[d].phone = NoIssuance
      <3>1. CASE d \in replaced
        BY <1>2, <3>1 DEF Owned
      <3>2. CASE d \notin replaced
        BY <1>1, <1>2, <3>2 DEF Live
      <3>3. QED
        BY <3>1, <3>2
    <2>2. QED
      BY <1>2, <2>1 DEF Drops, Live
  <1>15. QED
    BY <1>2, <1>4, <1>5, <1>7, <1>8, <1>9, <1>10, <1>11, <1>12, <1>13, <1>14, ContextStep

-----------------------------------------------------------------------------
(* The invariant.                                                          *)

LEMMA BffStart == BffInit => BffInv
  <1> SUFFICES ASSUME BffInit
               PROVE  BffInv
    OBVIOUS
  <1>1. /\ MobileInv
        /\ contexts = {} /\ ctx = [c \in Context |-> Undrawn]
        /\ req = [p \in Proc |-> NoRequest] /\ aliases = [i \in Issuance |-> NoId]
    BY MobileStart DEF BffInit, MobileInit
  <1>2. CoreInv
    BY <1>1 DEF MobileInv, CoreInv, AliasOwned
  <1>3. /\ Undrawn \in ContextRecord /\ Undrawn.orphan = NoIssuance /\ ~Undrawn.cancelled
        /\ Undrawn.session = NoId /\ Undrawn.alias = NoId /\ Undrawn.logoutId = NoId
        /\ Undrawn.tx = 0
    BY DEF Undrawn, NewContextRecord, ContextRecord
  <1>4. BffTypeOK
    BY <1>1, <1>2, <1>3, AbsentRequest DEF BffTypeOK, CoreInv, Base
  <1>5. \A c \in Context : ContextGood(c)
    BY <1>1, <1>3 DEF ContextGood
  <1>6. \A p \in Proc : req[p].op = "none" /\ req[p].at = "done"
    BY <1>1, AbsentRequest
  <1>7. (\A p \in Proc : RequestGood(p)) /\ OneCallback
    BY <1>6 DEF RequestGood, OneCallback, Obtaining, Commands
  <1>8. QED
    BY <1>2, <1>4, <1>5, <1>7 DEF BffInv

LEMMA BffKeeps ==
  ASSUME BffInv, [BffNext]_bffVars
  PROVE  BffInv'
  <1>1. CASE UNCHANGED bffVars
    <2>1. UNCHANGED mobileVars /\ UNCHANGED <<contexts, ctx, req>>
      BY <1>1 DEF bffVars
    <2>2. \A q \in Proc : Alone(q) /\ KeepsTurn(q)
      BY <2>1, QuietAlone
    <2>3. Onward
      BY <2>1, CoreManager DEF Onward, BffInv, mobileVars, CoreInv, Base, MobileTypeOK, StoreTypeOK
    <2>4. UNCHANGED job
      BY <2>1 DEF mobileVars
    <2>5. QED
      BY <2>1, <2>2, <2>3, <2>4, UnseenStep DEF KeepsTurn
  <1>2. ASSUME NEW p \in Proc, BffStep(p)
        PROVE  BffInv'
    BY <1>2, StepEnterRefused, StepEnterDesktop, StepEnterPhone, StepDesktopRead, StepBindPhone,
       StepCheckFailed, StepProveStatus, StepEndCommand, StepCommandFailed, StepEndCallback,
       StepStartIssuing, StepIssueLost, StepIssueInstall, StepIssueRefused, StepIssueLate,
       StepEndLateCancel, StepInstallDone, StepEndLogoutCancel, StepLogoutStep, StepManager
       DEF BffStep
  <1>3. ASSUME NEW p \in Proc, BffUpstream(p)
        PROVE  BffInv'
    BY <1>3, StepServeIssue, StepDropIssue, StepServeCancel, StepDropCancel, StepManager
       DEF BffUpstream
  <1>4. QED
    BY <1>1, <1>2, <1>3, StepNewContext, StepSweepContexts, StepLogin, StepStartCallback,
       StepStartContextLogout, StepStartCommand, StepRevoke, StepTick DEF BffNext

LEMMA BffInvariant == BffSpec => []BffInv
  <1>1. BffInit => BffInv
    BY BffStart
  <1>2. BffInv /\ [BffNext]_bffVars => BffInv'
    BY BffKeeps
  <1>3. QED
    BY <1>1, <1>2, PTL DEF BffSpec

\* createMobileBffRoutes: the contexts, the requests and the manager below
\* them keep their types.
THEOREM BffTypeCorrect == BffSpec => []BffTypeOK
  <1>1. BffInv => BffTypeOK
    BY DEF BffInv
  <1>2. QED
    BY <1>1, BffInvariant, PTL

\* POST /auth/logout says "confirmed" only if everything the phone
\* authorization of the context obtained, installed, orphaned or never
\* delivered, is revoked at UBID.
THEOREM BffConfirmedMeansRevoked == BffSpec => []ConfirmedMeansRevoked
  <1>1. BffInv => ConfirmedMeansRevoked
    <2> SUFFICES ASSUME BffInv, NEW p \in Proc, req[p].op = "logout",
                        req[p].reply = "confirmed", ctx[req[p].ctx].phone # NoIssuance
                 PROVE  ctx[req[p].ctx].phone \in revoked
      BY DEF ConfirmedMeansRevoked
    <2>1. RequestGood(p) /\ ContextGood(req[p].ctx)
      BY AtHandler
    <2>2. QED
      BY <2>1 DEF RequestGood, ContextGood, Revoked
  <1>2. QED
    BY <1>1, BffInvariant, PTL

\* A credential that UBID issued and that is neither installed nor cancelled
\* stays in the memory of its context until the deadline of the context,
\* unless the logout of the context has been reported complete.
THEOREM BffOrphanOwned == BffSpec => []OrphanOwned
  <1>1. BffInv => OrphanOwned
    BY DEF BffInv, ContextGood, Kept, OrphanOwned
  <1>2. QED
    BY <1>1, BffInvariant, PTL

\* A login gives at most one session, however often its callback is called.
THEOREM BffOneSessionPerLogin == BffSpec => []OneSessionPerLogin
  <1>1. BffInv => OneSessionPerLogin
    BY DEF BffInv, OneCallback, OneSessionPerLogin
  <1>2. QED
    BY <1>1, BffInvariant, PTL

\* Only the callback and the end of an install answer with a session.
LEMMA SessionAnswers ==
  ASSUME BffInv, NEW p \in Proc, BffNext
  PROVE  \/ EndCallback(p) \/ InstallDone(p)
         \/ req'[p] = req[p]
         \/ req'[p].reply = req[p].reply
         \/ req'[p].reply \notin {"authenticated", "session"}
  <1> DEFINE Goal == \/ EndCallback(p) \/ InstallDone(p)
                     \/ req'[p] = req[p]
                     \/ req'[p].reply = req[p].reply
                     \/ req'[p].reply \notin {"authenticated", "session"}
  <1>1. req \in [Proc -> Request] /\ req[p] \in Request
    BY DEF BffInv, BffTypeOK
  <1>2. ASSUME NEW q \in Proc, NEW r, req' = [req EXCEPT ![q] = r],
               r.reply = req[q].reply \/ r.reply \notin {"authenticated", "session"}
        PROVE  Goal
    BY <1>1, <1>2
  <1>3. ASSUME NEW q \in Proc, NEW w \in Answers \ {"authenticated", "session"}, Reply(q, w)
        PROVE  Goal
    <2> DEFINE r == [NoRequest EXCEPT !.op = req[q].op, !.ctx = req[q].ctx, !.reply = w]
    <2>1. r.reply = w
      BY DEF NoRequest
    <2>2. req' = [req EXCEPT ![q] = r]
      BY <1>3 DEF Reply
    <2> HIDE DEF r, Goal
    <2>3. QED
      BY <1>2, <1>3, <2>1, <2>2
  <1>4. ASSUME NEW q \in Proc, NEW at, Go(q, at)
        PROVE  Goal
    <2> DEFINE r == [req[q] EXCEPT !.at = at]
    <2>1. r.reply = req[q].reply
      BY <1>1 DEF Request
    <2>2. req' = [req EXCEPT ![q] = r]
      BY <1>4 DEF Go
    <2> HIDE DEF r, Goal
    <2>3. QED
      BY <1>2, <2>1, <2>2
  <1>5. ASSUME NEW q \in Proc, NEW c, NEW i, NEW at, NEW w \in Answers \ {"authenticated", "session"},
               PutLogout(q, c, i, at, w)
        PROVE  Goal
    <2> DEFINE r == LogoutRequest(c, i, at, w)
    <2>1. r.reply = w
      BY DEF LogoutRequest, NoRequest
    <2>2. req' = [req EXCEPT ![q] = r]
      BY <1>5 DEF PutLogout
    <2> HIDE DEF r, Goal
    <2>3. QED
      BY <1>2, <1>5, <2>1, <2>2
  <1>6. ASSUME NEW q \in Proc, NEW op, NEW c, NEW s, NEW at, Begin(q, op, c, s, at)
        PROVE  Goal
    <2> DEFINE r == [NoRequest EXCEPT !.op = op, !.ctx = c, !.sent = s, !.at = at]
    <2>1. r.reply \notin {"authenticated", "session"}
      BY DEF NoRequest
    <2>2. req' = [req EXCEPT ![q] = r]
      BY <1>6 DEF Begin
    <2> HIDE DEF r, Goal
    <2>3. QED
      BY <1>2, <2>1, <2>2
  <1>7. ASSUME NEW q \in Proc, NEW a, NEW b, NEW e, NEW i,
               \/ req' = [req EXCEPT ![q] = [@ EXCEPT !.at = a, !.ok = b]]
               \/ req' = [req EXCEPT ![q] = [@ EXCEPT !.at = a, !.ok = b, !.active = e]]
               \/ req' = [req EXCEPT ![q] = [@ EXCEPT !.at = a, !.iss = i]]
        PROVE  Goal
    <2>1. req[q] \in Request
      BY <1>1
    <2>2. /\ [req[q] EXCEPT !.at = a, !.ok = b].reply = req[q].reply
          /\ [req[q] EXCEPT !.at = a, !.ok = b, !.active = e].reply = req[q].reply
          /\ [req[q] EXCEPT !.at = a, !.iss = i].reply = req[q].reply
      BY <2>1 DEF Request
    <2> HIDE DEF Goal
    <2>3. QED
      BY <1>2, <1>7, <2>2
  <1>8. ASSUME NEW q \in Proc, q # p, EndCallback(q) \/ InstallDone(q)
        PROVE  Goal
    <2>1. PICK w \in Answers : Reply(q, w)
      BY <1>8 DEF EndCallback, InstallDone, Answers
    <2>2. req'[p] = req[p]
      BY <1>1, <1>8, <2>1 DEF Reply
    <2>3. QED
      BY <2>2
  <1>9. UNCHANGED req => Goal
    OBVIOUS
  <1>10. {"none", "ok", "pending", "confirmed", "local-only", "unavailable"} \subseteq Answers \ {"authenticated", "session"}
    BY DEF Answers
  <1> HIDE DEF Goal
  <1>11. ASSUME NEW q \in Proc, BffStep(q)
         PROVE  Goal
    <2>1. CASE EnterRefused(q) \/ CheckFailed(q) \/ CommandFailed(q) \/ IssueLost(q)
               \/ IssueRefused(q) \/ EndLateCancel(q) \/ EndCommand(q) \/ DesktopRead(q)
      <3>1. Go(q, "upstream") \/ \E w \in {"ok", "unavailable"} : Reply(q, w)
        BY <2>1 DEF EnterRefused, CheckFailed, CommandFailed, IssueLost, IssueRefused,
                    EndLateCancel, EndCommand, DesktopRead, Fail
      <3>2. QED
        BY <1>3, <1>4, <1>10, <3>1
    <2>2. CASE EnterDesktop(q) \/ EnterPhone(q) \/ ProveStatus(q) \/ StartIssuing(q)
               \/ IssueInstall(q) \/ \E i \in Issuance : BindPhone(q, i)
      <3>1. \E at \in Stages : Go(q, at)
        BY <2>2 DEF EnterDesktop, EnterPhone, ProveStatus, StartIssuing, IssueInstall, BindPhone,
                    Stages
      <3>2. PICK at : Go(q, at)
        BY <3>1
      <3>3. QED
        BY <1>4, <3>2, SMTT(40)
    <2>3. CASE IssueLate(q)
      BY <1>7, <2>3 DEF IssueLate
    <2>4. CASE EndLogoutCancel(q)
      <3>1. \/ \E w \in {"confirmed", "local-only", "pending", "none"}, at \in Stages :
                  PutLogout(q, req[q].ctx, NoIssuance, at, w)
        BY <2>4 DEF EndLogoutCancel, LogoutSession, Stages
      <3>2. QED
        BY <1>5, <1>10, <3>1
    <2>5. CASE LogoutStep(q)
      <3>1. UNCHANGED req \/ \E w \in {"confirmed", "pending"} : Reply(q, w)
        BY <2>5 DEF LogoutStep
      <3>2. QED
        BY <1>3, <1>9, <1>10, <3>1
    <2>6. CASE ManagerStep(q)
      BY <1>9, <2>6 DEF ManagerStep
    <2>7. CASE EndCallback(q) \/ InstallDone(q)
      BY <1>8, <2>7 DEF Goal
    <2>8. QED
      BY <1>11, <2>1, <2>2, <2>3, <2>4, <2>5, <2>6, <2>7 DEF BffStep
  <1>12. ASSUME NEW q \in Proc, BffUpstream(q)
         PROVE  Goal
    <2>1. CASE ServeIssue(q)
      <3>1. PICK e : req' = [req EXCEPT ![q] = [@ EXCEPT !.at = "issued", !.ok = TRUE, !.active = e]]
        BY <2>1, ZenonT(60) DEF ServeIssue
      <3>2. QED
        BY <1>7, <3>1
    <2>2. CASE DropIssue(q) \/ ServeCancel(q) \/ DropCancel(q)
      BY <1>7, <2>2 DEF DropIssue, ServeCancel, DropCancel
    <2>3. CASE UpstreamStep(q)
      BY <1>9, <2>3 DEF UpstreamStep
    <2>4. QED
      BY <1>12, <2>1, <2>2, <2>3 DEF BffUpstream
  <1>13. ASSUME NEW q \in Proc, NEW c \in Context, NEW s \in Id \cup {NoId},
                StartContextLogout(q, c, s)
         PROVE  Goal
    <2>1. \E w \in {"confirmed", "local-only", "pending", "none"}, at \in Stages,
             i \in {NoIssuance, ctx[c].orphan} : PutLogout(q, c, i, at, w)
      BY <1>13 DEF StartContextLogout, LogoutSession, Stages
    <2>2. QED
      BY <1>5, <1>10, <2>1
  <1>14. ASSUME NEW q \in Proc, NEW c \in Context, NEW s \in Id \cup {NoId},
                \/ StartCallback(q, c)
                \/ \E op \in Commands : StartCommand(q, op, c, s)
         PROVE  Goal
    BY <1>6, <1>14 DEF StartCallback, StartCommand
  <1>15. ASSUME \/ \E c \in Context, purpose \in {"none", "login", "logout"},
                      prior \in Context \cup {NoContext}, s \in Id \cup {NoId} :
                      NewContext(c, purpose, prior, s)
                \/ SweepContexts
                \/ \E c \in Context : Login(c)
                \/ \E i \in Issuance : BffRevoke(i)
                \/ BffTick
         PROVE  Goal
    BY <1>9, <1>15, ZenonT(40) DEF NewContext, SweepContexts, Login, BffRevoke, BffTick
  <1>16. Goal
    BY <1>11, <1>12, <1>13, <1>14, <1>15 DEF BffNext
  <1>17. QED
    BY <1>16 DEF Goal

\* Once a context has been denied by a logout, replaced by a login or has
\* expired, nothing that was in flight - an OAuth callback, an issue waiting
\* for UBID, an install waiting for its resolve - gives it a session.
THEOREM BffLogoutFences == BffSpec => LogoutFences
  <1> DEFINE Fenced == \A p \in Proc :
                /\ req[p].at # "done" /\ req'[p].reply \in {"authenticated", "session"}
                /\ req[p].op \in {"issue", "callback"}
                => StillCurrent(req[p].ctx)
  <1>1. ASSUME BffInv, [BffNext]_bffVars
        PROVE  [Fenced]_bffVars
    <2> SUFFICES ASSUME BffNext, NEW p \in Proc, req[p].at # "done",
                        req'[p].reply \in {"authenticated", "session"}
                 PROVE  StillCurrent(req[p].ctx)
      BY <1>1
    <2>1. /\ req[p].reply = "none" /\ req \in [Proc -> Request] /\ job \in [Proc -> Job]
          /\ CoreInv
      BY <1>1, AtHandler DEF RequestGood, BffInv, BffTypeOK, MobileTypeOK
    <2>2. CASE EndCallback(p)
      <3>1. CASE FenceValid(req[p].ctx)
        BY <3>1 DEF FenceValid, Fits, StillCurrent
      <3>2. CASE Reply(p, "unavailable")
        <4> DEFINE r == [NoRequest EXCEPT !.op = req[p].op, !.ctx = req[p].ctx,
                                          !.reply = "unavailable"]
        <4>1. r.reply = "unavailable"
          BY DEF NoRequest
        <4>2. req' = [req EXCEPT ![p] = r]
          BY <3>2 DEF Reply
        <4> HIDE DEF r
        <4>3. QED
          BY <2>1, <4>1, <4>2
      <3>3. QED
        BY <2>2, <3>1, <3>2 DEF EndCallback
    <2>3. CASE InstallDone(p)
      <3>1. PICK b \in BOOLEAN : b = StillCurrent(req[p].ctx)
        BY DEF StillCurrent, Live
      <3>2. InstallEnded(p, b)
        BY <2>3, <3>1 DEF InstallDone
      <3>3. job'[p].reply = "installed" => b
        BY <1>1, <2>1, <3>2, InstallEffect
      <3>4. CASE Reply(p, "unavailable")
        <4> DEFINE r == [NoRequest EXCEPT !.op = req[p].op, !.ctx = req[p].ctx,
                                          !.reply = "unavailable"]
        <4>1. r.reply = "unavailable"
          BY DEF NoRequest
        <4>2. req' = [req EXCEPT ![p] = r]
          BY <3>4 DEF Reply
        <4> HIDE DEF r
        <4>3. QED
          BY <2>1, <4>1, <4>2
      <3>5. QED
        BY <2>3, <3>1, <3>3, <3>4 DEF InstallDone
    <2>4. QED
      BY <1>1, <2>1, <2>2, <2>3, SessionAnswers
  <1>2. QED
    BY <1>1, BffInvariant, PTL DEF BffSpec, LogoutFences
=============================================================================
