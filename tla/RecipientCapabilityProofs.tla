--------------------- MODULE RecipientCapabilityProofs ---------------------
(***************************************************************************)
(* Proofs about RecipientCapability, for every set of sessions, subjects,  *)
(* aliases, capabilities and requests and every quota.                     *)
(***************************************************************************)
EXTENDS RecipientCapability, SessionStoreProofs

-----------------------------------------------------------------------------
(* The inductive invariant.                                                *)

\* A capability that is held has been issued, and to a session that exists.
OnlyIssued ==
    /\ \A k \in held : issued[k] # NoCapability
    /\ \A k \in Cap : issued[k] # NoCapability => Used(issued[k].session)

\* What a request that is under way has evidence of: its session since it was
\* called, Full authority once that was read, and whatever is true now.
Evidence(r) ==
    /\ r.session \in Id /\ Used(r.session) /\ "session" \in r.seen
    /\ subject[r.session] \in full => "full" \in r.seen
    /\ r.alias \in directory => "listed" \in r.seen
    /\ r.at \in {"directory", "answered", "upstream"} => "full" \in r.seen
    /\ r.at = "answered" /\ r.alias \in r.listed => "listed" \in r.seen
    /\ r.at = "upstream" /\ r.op = "resolve" => "listed" \in r.seen

\* A resolve is about a capability that was issued, for the alias it has.
Names(r) ==
    r.op = "resolve" =>
       r.cap \in Cap /\ issued[r.cap] # NoCapability /\ r.alias = issued[r.cap].alias

\* One request: what it rests on while it is under way, and what it has been
\* told (its shares of BoundToSession and FreshEvidence).
Good(r) ==
    /\ r.at # "done" => Evidence(r) /\ Names(r) /\ r.reply = "none"
    /\ r.at = "done" => r.op = "none"
    /\ r.reply = "packaged" => r.cap \in Cap /\ issued[r.cap] # NoCapability
    /\ (r.op = "resolve" /\ r.at = "upstream") \/ r.reply = "packaged" =>
          issued[r.cap].session = r.session
    /\ r.reply \in {"issued", "packaged"} => r.seen = Facts
    /\ r.reply \in {"full", "listed", "served"} \/ r.at = "upstream" =>
          {"session", "full"} \subseteq r.seen

Requests == \A p \in Proc : Good(req[p])

CapInv ==
    /\ StoreInv
    /\ CapTypeOK
    /\ OnlyIssued
    /\ Requests
    /\ QuotasRespected

\* The two request properties are what Good says of every request.
LEMMA GoodIsEnough == Requests => BoundToSession /\ FreshEvidence
  BY DEF Requests, Good, BoundToSession, FreshEvidence

-----------------------------------------------------------------------------
(* The sessions behind the capabilities.                                   *)

\* Every step of the capabilities is an operation of the session store, or none.
LEMMA CapStep2Store == StoreInv /\ CapNext => [StoreNext]_storeVars
  <1> SUFFICES ASSUME StoreInv, CapNext
               PROVE  [StoreNext]_storeVars
    OBVIOUS
  <1>1. ASSUME NEW id \in Id, NEW u \in Subject, SignIn(id, u)
        PROVE  StoreNext
    <2>1. /\ Desktop \in Kinds /\ NoIssuance \in IssuancesOf(Desktop)
          /\ clock \in 0 .. clock
          /\ clock + SessionTtl \in clock + 1 .. clock + SessionTtl + MobileLife
      BY StoreAssumption, CapabilityAssumption DEF IssuancesOf, StoreInv, StoreTypeOK
    <2>2. QED
      BY <1>1, <2>1 DEF SignIn, StoreNext
  <1>2. ASSUME NEW id \in Id, SignOut(id)
        PROVE  StoreNext
    BY <1>2 DEF SignOut, StoreNext
  <1>3. ASSUME UNCHANGED storeVars \/ Look \/ Tick
        PROVE  [StoreNext]_storeVars
    BY <1>3 DEF StoreNext
  <1>4. ASSUME NEW p \in Proc, NEW r, Call(p, r)
        PROVE  Look
    BY <1>4 DEF Call, Look
  <1>5. ASSUME NEW p \in Proc, CapStep(p)
        PROVE  UNCHANGED storeVars \/ Look
    BY <1>5 DEF CapStep, ReadSession, ReadAuthority, ReadDirectory, PackageAnswers,
                DeviceAnswers, UbidFails, End, Look
  <1>6. QED
    BY <1>1, <1>2, <1>3, <1>4, <1>5
       DEF CapNext, AuthorityChanges, DirectoryChanges, CapTick, CallIssue, CallResolve,
           CallAuthority, CallDirectory, CallDevice, CallUbid

\* A session keeps its record and its subject, and UBID is as it was.
SessionsKept ==
    /\ \A id \in Id : Used(id) => Used(id)' /\ subject'[id] = subject[id]
    /\ \A k \in Cap : issued[k] # NoCapability => issued'[k] = issued[k]

\* A request that a step does not touch is as good as before.
LEMMA GoodKept ==
  ASSUME NEW r \in CapRequest, Good(r), SessionsKept,
         UNCHANGED <<full, directory>>
  PROVE  Good(r)'
  BY DEF Good, Evidence, Names, SessionsKept

\* What a step may make of one request, all else of requests left alone.
LEMMA GoodPut ==
  ASSUME NEW p \in Proc, NEW r \in CapRequest, CapTypeOK, Requests,
         SessionsKept, UNCHANGED <<full, directory>>,
         Put(p, r), Good(r)'
  PROVE  Requests' /\ req' \in [Proc -> CapRequest]
  <1>1. /\ req' = [req EXCEPT ![p] = r]
        /\ req \in [Proc -> CapRequest]
    BY DEF Put, CapTypeOK
  <1>2. ASSUME NEW q \in Proc
        PROVE  Good(req[q])'
    <2>1. CASE q = p
      <3>1. req'[q] = r
        BY <1>1, <2>1
      <3>2. QED
        BY <3>1 DEF Good, Evidence, Names
    <2>2. CASE q # p
      <3>1. req'[q] = req[q] /\ req[q] \in CapRequest /\ Good(req[q])
        BY <1>1, <2>2 DEF Requests
      <3>2. QED
        BY <3>1, GoodKept DEF Good, Evidence, Names
    <2>3. QED
      BY <2>1, <2>2
  <1>3. QED
    BY <1>1, <1>2 DEF Requests

-----------------------------------------------------------------------------
(* Requests.                                                               *)

\* An answered request, refused or accepted.
LEMMA Answers ==
  ASSUME NEW p \in Proc, CapTypeOK, Requests, req[p].at # "done"
  PROVE  /\ [NoCapRequest EXCEPT !.reply = "unavailable"] \in CapRequest
         /\ Good([NoCapRequest EXCEPT !.reply = "unavailable"])'
         /\ \A reply \in {"issued", "packaged", "full", "listed", "served"}, k \in Cap \cup {NoCap} :
               [NoCapRequest EXCEPT !.reply = reply, !.cap = k, !.session = req[p].session,
                                    !.seen = req[p].seen] \in CapRequest
  <1>1. req[p] \in CapRequest
    BY DEF CapTypeOK
  <1>2. req[p].session \in Id /\ req[p].seen \in SUBSET Facts
    BY <1>1 DEF CapRequest, Requests, Good, Evidence
  <1>3. [NoCapRequest EXCEPT !.reply = "unavailable"] \in CapRequest
    BY DEF NoCapRequest, CapRequest, Facts
  <1>4. Good([NoCapRequest EXCEPT !.reply = "unavailable"])'
    BY DEF Good, NoCapRequest
  <1>5. ASSUME NEW reply \in {"issued", "packaged", "full", "listed", "served"},
               NEW k \in Cap \cup {NoCap}
        PROVE  [NoCapRequest EXCEPT !.reply = reply, !.cap = k, !.session = req[p].session,
                                    !.seen = req[p].seen] \in CapRequest
    BY <1>2 DEF NoCapRequest, CapRequest
  <1>6. QED
    BY <1>3, <1>4, <1>5

\* A step of one request that leaves the capabilities alone.
LEMMA RequestStep ==
  ASSUME CapInv, SessionsKept, UNCHANGED <<subject, full, directory, held, issued>>,
         NEW p \in Proc,
         \/ \E id \in Id, a \in Alias : CallIssue(p, id, a)
         \/ \E id \in Id, k \in Cap : CallResolve(p, id, k)
         \/ \E id \in Id : CallAuthority(p, id) \/ CallDirectory(p, id) \/ CallDevice(p, id)
         \/ ReadSession(p) \/ ReadAuthority(p) \/ ReadDirectory(p)
         \/ PackageAnswers(p) \/ DeviceAnswers(p) \/ UbidFails(p)
  PROVE  Requests' /\ req' \in [Proc -> CapRequest]
  <1> USE DEF CapInv
  <1>1. req[p] \in CapRequest /\ Good(req[p]) /\ NoCapRequest \in CapRequest
    BY DEF CapTypeOK, Requests, NoCapRequest, CapRequest
  <1>2. ASSUME req[p].at # "done", Refuse(p)
        PROVE  Requests' /\ req' \in [Proc -> CapRequest]
    BY <1>2, Answers, GoodPut DEF Refuse
  <1>3. ASSUME Put(p, [NoCapRequest EXCEPT !.reply = "unavailable"])
        PROVE  Requests' /\ req' \in [Proc -> CapRequest]
    <2>1. [NoCapRequest EXCEPT !.reply = "unavailable"] \in CapRequest
      BY DEF NoCapRequest, CapRequest, Facts
    <2>2. Good([NoCapRequest EXCEPT !.reply = "unavailable"])'
      BY DEF Good, NoCapRequest
    <2>3. QED
      BY <1>3, <2>1, <2>2, GoodPut
  <1>4. ASSUME NEW r \in CapRequest, Call(p, r), r.at \in {"session", "authority"},
               Names(r), r.reply = "none"
        PROVE  Requests' /\ req' \in [Proc -> CapRequest]
    <2>1. CASE ~Authentic(r.session)
      BY <1>3, <1>4, <2>1 DEF Call, Refuse
    <2>2. CASE Authentic(r.session)
      <3>1. PICK s \in CapRequest : s = [r EXCEPT !.seen = FactsOf(r, full, directory)]
        BY DEF CapRequest, FactsOf
      <3>2. Put(p, s) /\ r.session \in Id /\ Used(r.session)
        BY <1>4, <2>2, <3>1 DEF Call
      <3>3. /\ s.session = r.session /\ s.alias = r.alias /\ s.at = r.at /\ s.op = r.op
            /\ s.cap = r.cap /\ s.reply = "none" /\ s.seen = FactsOf(r, full, directory)
        BY <1>4, <3>1 DEF CapRequest
      <3>4. /\ "session" \in s.seen
            /\ subject[r.session] \in full => "full" \in s.seen
            /\ r.alias \in directory => "listed" \in s.seen
        BY <2>2, <3>3 DEF FactsOf, Facts
      <3>5. Good(s)'
        BY <1>4, <3>1, <3>2, <3>3, <3>4 DEF Good, Evidence, Names, SessionsKept
      <3>6. QED
        BY <3>1, <3>2, <3>5, GoodPut
    <2>3. QED
      BY <2>1, <2>2
  <1>5. ASSUME NEW at \in {"authority", "directory", "upstream"}, req[p].at # "done", Go(p, at),
               req[p].reply = "none",
               at # "authority" => "full" \in req[p].seen,
               at = "upstream" => req[p].op # "resolve"
        PROVE  Requests' /\ req' \in [Proc -> CapRequest]
    <2>0. PICK s \in CapRequest : s = [req[p] EXCEPT !.at = at]
      BY <1>1 DEF CapRequest
    <2>1. s.at = at /\ s.op = req[p].op /\ s.session = req[p].session
          /\ s.alias = req[p].alias /\ s.cap = req[p].cap /\ s.seen = req[p].seen
          /\ s.reply = "none"
      BY <1>1, <1>5, <2>0 DEF CapRequest
    <2>2. Put(p, s)
      BY <1>5, <2>0 DEF Go
    <2>3. Good(s)'
      BY <1>1, <1>5, <2>1 DEF Good, Evidence, Names, SessionsKept
    <2>4. QED
      BY <2>2, <2>3, GoodPut
  <1>6. ASSUME NEW reply \in {"packaged", "full", "served"}, NEW k \in Cap \cup {NoCap},
               req[p].at # "done", Accept(p, reply, k), "full" \in req[p].seen,
               reply = "packaged" => /\ k = req[p].cap /\ req[p].op = "resolve"
                                     /\ req[p].at = "upstream"
        PROVE  Requests' /\ req' \in [Proc -> CapRequest]
    <2>1. PICK s \in CapRequest :
             s = [NoCapRequest EXCEPT !.reply = reply, !.cap = k, !.session = req[p].session,
                                      !.seen = req[p].seen]
      BY <1>6, Answers
    <2>2. /\ s.at = "done" /\ s.op = "none" /\ s.reply = reply /\ s.cap = k
          /\ s.session = req[p].session /\ s.seen = req[p].seen
      BY <2>1 DEF NoCapRequest
    <2>3. Put(p, s)
      BY <1>6, <2>1 DEF Accept
    <2>4. Good(s)'
      BY <1>1, <1>6, <2>2 DEF Good, Evidence, Names, SessionsKept, Facts, CapRequest
    <2>5. QED
      BY <2>3, <2>4, GoodPut
  <1>7. ASSUME NEW id \in Id, NEW a \in Alias, CallIssue(p, id, a)
        PROVE  Requests' /\ req' \in [Proc -> CapRequest]
    <2>1. PICK r \in CapRequest :
             r = [NoCapRequest EXCEPT !.op = "issue", !.session = id, !.alias = a,
                                      !.now = clock, !.at = "session"]
      BY DEF CapTypeOK, StoreTypeOK, NoCapRequest, CapRequest
    <2>2. r.op = "issue" /\ r.at = "session" /\ r.reply = "none"
      BY <2>1 DEF NoCapRequest
    <2>3. Call(p, r)
      BY <1>7, <2>1 DEF CallIssue
    <2>4. QED
      BY <1>4, <2>2, <2>3 DEF Names
  <1>8. ASSUME NEW id \in Id, NEW k \in Cap, CallResolve(p, id, k)
        PROVE  Requests' /\ req' \in [Proc -> CapRequest]
    <2>1. issued[k] # NoCapability /\ issued[k].alias \in Alias
      BY <1>8 DEF CallResolve, CapTypeOK, Capability
    <2>2. PICK r \in CapRequest :
             r = [NoCapRequest EXCEPT !.op = "resolve", !.session = id, !.cap = k,
                                      !.alias = issued[k].alias,
                                      !.now = clock, !.at = "session"]
      BY <2>1 DEF CapTypeOK, StoreTypeOK, NoCapRequest, CapRequest
    <2>3. r.cap = k /\ r.alias = issued[k].alias /\ r.at = "session" /\ r.reply = "none"
      BY <2>2 DEF NoCapRequest
    <2>4. Call(p, r)
      BY <1>8, <2>2 DEF CallResolve
    <2>5. QED
      BY <1>4, <2>1, <2>3, <2>4 DEF Names
  <1>9. ASSUME NEW id \in Id, NEW op \in {"authority", "directory", "device"},
               CallUbid(p, op, id)
        PROVE  Requests' /\ req' \in [Proc -> CapRequest]
    <2>1. PICK r \in CapRequest :
             r = [NoCapRequest EXCEPT !.op = op, !.session = id, !.at = "authority"]
      BY DEF NoCapRequest, CapRequest
    <2>2. r.op = op /\ r.at = "authority" /\ r.reply = "none"
      BY <2>1 DEF NoCapRequest
    <2>3. Call(p, r)
      BY <1>9, <2>1 DEF CallUbid
    <2>4. QED
      BY <1>4, <2>2, <2>3 DEF Names
  <1>10. ASSUME req[p].at # "done"
         PROVE  req[p].reply = "none" /\ Evidence(req[p])
    BY <1>1, <1>10 DEF Good
  <1>11. ASSUME ReadSession(p)
         PROVE  Requests' /\ req' \in [Proc -> CapRequest]
    BY <1>2, <1>5, <1>10, <1>11 DEF ReadSession
  <1>12. ASSUME ReadAuthority(p)
         PROVE  Requests' /\ req' \in [Proc -> CapRequest]
    <2>1. req[p].at = "authority"
      BY <1>12 DEF ReadAuthority
    <2>2. CASE Refuse(p)
      BY <1>2, <2>1, <2>2
    <2>3. CASE subject[req[p].session] \in full /\ Granted(p)
      <3>1. "full" \in req[p].seen
        BY <1>10, <2>1, <2>3 DEF Evidence
      <3>2. CASE req[p].op = "authority"
        BY <1>6, <2>1, <2>3, <3>1, <3>2 DEF Granted
      <3>3. CASE req[p].op = "device"
        BY <1>5, <1>10, <2>1, <2>3, <3>1, <3>3 DEF Granted
      <3>4. CASE req[p].op \notin {"authority", "device"}
        BY <1>5, <1>10, <2>1, <2>3, <3>1, <3>4 DEF Granted
      <3>5. QED
        BY <3>2, <3>3, <3>4
    <2>4. QED
      BY <1>12, <2>2, <2>3 DEF ReadAuthority
  <1>13. ASSUME ReadDirectory(p)
         PROVE  Requests' /\ req' \in [Proc -> CapRequest]
    <2>1. PICK s \in CapRequest : s = [req[p] EXCEPT !.at = "answered", !.listed = directory]
      BY <1>1 DEF CapRequest, CapTypeOK
    <2>2. /\ s.at = "answered" /\ s.listed = directory /\ s.op = req[p].op
          /\ s.session = req[p].session /\ s.alias = req[p].alias /\ s.cap = req[p].cap
          /\ s.seen = req[p].seen /\ s.reply = req[p].reply
      BY <1>1, <2>1 DEF CapRequest
    <2>3. Put(p, s) /\ req[p].at = "directory"
      BY <1>13, <2>1 DEF ReadDirectory
    <2>4. Good(s)'
      BY <1>1, <1>10, <2>2, <2>3 DEF Good, Evidence, Names, SessionsKept
    <2>5. QED
      BY <2>3, <2>4, GoodPut
  <1>14. ASSUME PackageAnswers(p) \/ DeviceAnswers(p)
         PROVE  Requests' /\ req' \in [Proc -> CapRequest]
    <2>1. req[p].at = "upstream"
      BY <1>14 DEF PackageAnswers, DeviceAnswers
    <2>2. "full" \in req[p].seen
      BY <1>10, <2>1 DEF Evidence
    <2>3. req[p].cap \in Cap \cup {NoCap}
      BY <1>1 DEF CapRequest
    <2>4. QED
      BY <1>6, <1>14, <2>1, <2>2, <2>3 DEF PackageAnswers, DeviceAnswers
  <1>15. ASSUME UbidFails(p)
         PROVE  Requests' /\ req' \in [Proc -> CapRequest]
    BY <1>2, <1>15 DEF UbidFails
  <1>16. QED
    BY <1>7, <1>8, <1>9, <1>11, <1>12, <1>13, <1>14, <1>15
       DEF CallAuthority, CallDirectory, CallDevice

-----------------------------------------------------------------------------
(* The quotas.                                                             *)

\* Part of a set of capabilities counts no more than the set.
LEMMA Fewer ==
  ASSUME NEW S \in SUBSET Cap, NEW T \in SUBSET S
  PROVE  /\ IsFiniteSet(T) /\ Cardinality(T) \in Nat /\ Cardinality(S) \in Nat
         /\ Cardinality(T) <= Cardinality(S)
  <1>1. IsFiniteSet(S)
    BY CapabilityAssumption, FS_Subset
  <1>2. IsFiniteSet(T) /\ Cardinality(T) <= Cardinality(S)
    BY <1>1, FS_Subset
  <1>3. QED
    BY <1>1, <1>2, FS_CardinalityType

\* A step that issues nothing keeps within the quotas.
LEMMA QuotasKept ==
  ASSUME CapTypeOK, OnlyIssued, QuotasRespected, SessionsKept, held' \subseteq held
  PROVE  QuotasRespected'
  <1>0. /\ held \in SUBSET Cap /\ CapCapacity \in Nat /\ PerSession \in Nat /\ PerSubject \in Nat
        /\ \A k \in held : issued[k] # NoCapability
                           /\ issued[k].session \in Id /\ Used(issued[k].session)
    BY CapabilityAssumption DEF CapTypeOK, OnlyIssued, Capability
  <1>1. \A k \in held : issued'[k] = issued[k]
                        /\ subject'[issued'[k].session] = subject[issued[k].session]
    BY <1>0 DEF SessionsKept
  <1>2. Cardinality(held') <= CapCapacity
    BY <1>0, Fewer DEF QuotasRespected
  <1>3. ASSUME NEW id \in Id
        PROVE  Cardinality(OfSession(held, id)') <= PerSession
    <2>1. OfSession(held, id)' \subseteq OfSession(held, id) /\ OfSession(held, id) \subseteq Cap
      BY <1>0, <1>1 DEF OfSession
    <2>2. QED
      BY <1>0, <2>1, Fewer DEF QuotasRespected
  <1>4. ASSUME NEW u \in Subject
        PROVE  Cardinality(OfSubject(held, u)') <= PerSubject
    <2>1. OfSubject(held, u)' \subseteq OfSubject(held, u) /\ OfSubject(held, u) \subseteq Cap
      BY <1>0, <1>1 DEF OfSubject
    <2>2. QED
      BY <1>0, <2>1, Fewer DEF QuotasRespected
  <1>5. QED
    BY <1>2, <1>3, <1>4 DEF QuotasRespected

\* One capability more, where there was room for one.
LEMMA OneMore ==
  ASSUME NEW S \in SUBSET Cap, NEW T, NEW k \in Cap, T \subseteq S \cup {k}, NEW n \in Nat,
         Cardinality(S) < n
  PROVE  Cardinality(T) <= n
  <1>1. IsFiniteSet(S) /\ Cardinality(S) \in Nat
    BY Fewer
  <1>2. Cardinality(S \cup {k}) <= Cardinality(S) + 1 /\ Cardinality(S \cup {k}) \in Nat
    <2>1. Cardinality(S \cup {k}) = IF k \in S THEN Cardinality(S) ELSE Cardinality(S) + 1
      BY <1>1, FS_AddElement
    <2>2. QED
      BY <1>1, <2>1
  <1>3. S \cup {k} \in SUBSET Cap
    OBVIOUS
  <1>4. Cardinality(T) <= Cardinality(S \cup {k}) /\ Cardinality(T) \in Nat
    BY <1>3, Fewer
  <1>5. QED
    BY <1>1, <1>2, <1>4

\* issue() looks at the three quotas after its sweep and adds one record.
LEMMA QuotasIssue ==
  ASSUME CapInv, NEW p \in Proc, NEW k \in Cap, req[p].at # "done",
         StoreIssue(p, k), UNCHANGED subject
  PROVE  QuotasRespected'
  <1> DEFINE r == req[p]
             H == Held(r.now)
  <1> USE DEF CapInv
  <1>0. /\ held \in SUBSET Cap /\ H \in SUBSET held
        /\ CapCapacity \in Nat /\ PerSession \in Nat /\ PerSubject \in Nat
    BY CapabilityAssumption DEF CapTypeOK, Held
  <1>1. /\ held' = H \cup {k} /\ WithinQuotas(r.session, r.now) /\ issued[k] = NoCapability
        /\ issued' = [issued EXCEPT ![k] =
             [session |-> r.session, alias |-> r.alias, expiresAt |-> r.now + CapTtl]]
        /\ issued \in [Cap -> Capability \cup {NoCapability}]
    BY DEF StoreIssue, CapTypeOK
  <1>2. k \notin held /\ issued'[k].session = r.session /\ \A j \in held : issued'[j] = issued[j]
    BY <1>0, <1>1 DEF OnlyIssued
  <1>3. Cardinality(held') <= CapCapacity
    BY <1>0, <1>1, OneMore DEF WithinQuotas
  <1>4. ASSUME NEW id \in Id
        PROVE  Cardinality(OfSession(held, id)') <= PerSession
    <2>1. CASE id = r.session
      <3>1. OfSession(held, id)' \subseteq OfSession(H, id) \cup {k} /\ OfSession(H, id) \in SUBSET Cap
        BY <1>0, <1>1, <1>2 DEF OfSession
      <3>2. Cardinality(OfSession(H, id)) < PerSession
        BY <1>1, <2>1 DEF WithinQuotas
      <3>3. QED
        BY <1>0, <3>1, <3>2, OneMore
    <2>2. CASE id # r.session
      <3>1. OfSession(held, id)' \subseteq OfSession(held, id) /\ OfSession(held, id) \in SUBSET Cap
        BY <1>0, <1>1, <1>2, <2>2 DEF OfSession
      <3>2. QED
        BY <1>0, <3>1, Fewer DEF QuotasRespected
    <2>3. QED
      BY <2>1, <2>2
  <1>5. ASSUME NEW u \in Subject
        PROVE  Cardinality(OfSubject(held, u)') <= PerSubject
    <2>1. CASE u = subject[r.session]
      <3>1. OfSubject(held, u)' \subseteq OfSubject(H, u) \cup {k} /\ OfSubject(H, u) \in SUBSET Cap
        BY <1>0, <1>1, <1>2 DEF OfSubject
      <3>2. Cardinality(OfSubject(H, u)) < PerSubject
        BY <1>1, <2>1 DEF WithinQuotas
      <3>3. QED
        BY <1>0, <3>1, <3>2, OneMore
    <2>2. CASE u # subject[r.session]
      <3>1. OfSubject(held, u)' \subseteq OfSubject(held, u) /\ OfSubject(held, u) \in SUBSET Cap
        BY <1>0, <1>1, <1>2, <2>2 DEF OfSubject
      <3>2. QED
        BY <1>0, <3>1, Fewer DEF QuotasRespected
    <2>3. QED
      BY <2>1, <2>2
  <1>6. QED
    BY <1>3, <1>4, <1>5 DEF QuotasRespected

-----------------------------------------------------------------------------
(* Steps of the capability store, of the sessions and of UBID.             *)

\* The last step of a request: the capability store, or the directory handed out.
LEMMA EndStep ==
  ASSUME CapInv, NEW p \in Proc, End(p)
  PROVE  /\ CapTypeOK' /\ OnlyIssued' /\ Requests' /\ QuotasRespected'
         /\ SessionsKept
  <1> USE DEF CapInv
  <1>0. /\ req[p] \in CapRequest /\ Good(req[p]) /\ Evidence(req[p]) /\ Names(req[p])
        /\ req[p].at = "answered"
        /\ UNCHANGED <<storeVars, subject, full, directory>>
    BY DEF CapTypeOK, Requests, Good, End, ubidVars
  <1>1. /\ req[p].session \in Id /\ Used(req[p].session)
        /\ {"session", "full"} \subseteq req[p].seen
        /\ req[p].alias \in req[p].listed => req[p].seen = Facts
    BY <1>0 DEF Evidence, Facts, CapRequest
  <1>2. UNCHANGED <<clock, record, slots, logout>> /\ (\A id \in Id : Used(id) => Used(id)')
    BY <1>0 DEF storeVars, Used
  <1>3. StoreTypeOK'
    BY <1>0, <1>2 DEF CapTypeOK, StoreTypeOK
  <1>4. ASSUME SessionsKept, Refuse(p)
        PROVE  Requests' /\ req' \in [Proc -> CapRequest]
    BY <1>0, <1>4, Answers, GoodPut DEF Refuse
  <1>5. ASSUME UNCHANGED issued, held' \subseteq held, req' \in [Proc -> CapRequest], Requests'
        PROVE  CapTypeOK' /\ OnlyIssued' /\ Requests' /\ QuotasRespected' /\ SessionsKept
    <2>1. SessionsKept
      BY <1>0, <1>2, <1>5 DEF SessionsKept
    <2>2. CapTypeOK' /\ OnlyIssued'
      BY <1>0, <1>2, <1>3, <1>5 DEF CapTypeOK, OnlyIssued, Used
    <2>3. QED
      BY <1>5, <2>1, <2>2, QuotasKept
  <1>6. Held(req[p].now) \subseteq held
    BY DEF Held
  <1>7. CASE StoreIssueRefused(p)
    <2>1. UNCHANGED issued /\ Refuse(p) /\ held' \subseteq held
      BY <1>6, <1>7 DEF StoreIssueRefused
    <2>2. SessionsKept
      BY <1>0, <1>2, <2>1 DEF SessionsKept
    <2>3. QED
      BY <1>4, <1>5, <2>1, <2>2
  <1>8. CASE req[p].op = "resolve" /\ StoreResolve(p)
    <2>1. UNCHANGED issued /\ held' \subseteq held
      BY <1>6, <1>8 DEF StoreResolve
    <2>2. SessionsKept
      BY <1>0, <1>2, <2>1 DEF SessionsKept
    <2>3. CASE Refuse(p)
      BY <1>4, <1>5, <2>1, <2>2, <2>3
    <2>4. CASE Resolvable(req[p]) /\ Go(p, "upstream")
      <3>1. PICK s \in CapRequest : s = [req[p] EXCEPT !.at = "upstream"]
        BY <1>0 DEF CapRequest
      <3>2. /\ s.at = "upstream" /\ s.op = "resolve" /\ s.session = req[p].session
            /\ s.alias = req[p].alias /\ s.cap = req[p].cap /\ s.seen = req[p].seen
            /\ s.reply = "none"
        BY <1>0, <1>8, <3>1 DEF CapRequest, Good
      <3>3. s.seen = Facts /\ issued[s.cap].session = s.session
        BY <1>0, <1>1, <1>8, <2>4, <3>2 DEF Resolvable, Names
      <3>4. Good(s)'
        BY <1>0, <1>1, <1>2, <1>8, <2>1, <3>2, <3>3 DEF Good, Evidence, Names, Facts
      <3>5. Put(p, s)
        BY <2>4, <3>1 DEF Go
      <3>6. Requests' /\ req' \in [Proc -> CapRequest]
        BY <1>0, <2>2, <3>4, <3>5, GoodPut
      <3>7. QED
        BY <1>5, <2>1, <3>6
    <2>5. QED
      BY <1>8, <2>3, <2>4 DEF StoreResolve
  <1>9. CASE Accept(p, "listed", NoCap) /\ UNCHANGED <<held, issued>>
    <2>1. PICK s \in CapRequest :
             s = [NoCapRequest EXCEPT !.reply = "listed", !.cap = NoCap,
                                      !.session = req[p].session, !.seen = req[p].seen]
      BY <1>0, Answers
    <2>2. /\ s.at = "done" /\ s.op = "none" /\ s.reply = "listed" /\ s.cap = NoCap
          /\ s.session = req[p].session /\ s.seen = req[p].seen
      BY <2>1 DEF NoCapRequest
    <2>3. Good(s)'
      BY <1>1, <2>2 DEF Good
    <2>4. Put(p, s) /\ SessionsKept
      BY <1>0, <1>2, <1>9, <2>1 DEF Accept, SessionsKept
    <2>5. Requests' /\ req' \in [Proc -> CapRequest]
      BY <1>0, <2>3, <2>4, GoodPut
    <2>6. QED
      BY <1>5, <1>9, <2>5
  <1>10. ASSUME NEW k \in Cap, StoreIssue(p, k)
         PROVE  CapTypeOK' /\ OnlyIssued' /\ Requests' /\ QuotasRespected' /\ SessionsKept
    <2>1. QuotasRespected'
      BY <1>0, <1>10, QuotasIssue
    <2>2. PICK c \in Capability :
             /\ c = [session |-> req[p].session, alias |-> req[p].alias,
                     expiresAt |-> req[p].now + CapTtl]
             /\ issued' = [issued EXCEPT ![k] = c]
      <3>1. req[p].alias \in Alias /\ req[p].now + CapTtl \in Nat
        BY <1>0, <1>10, CapabilityAssumption DEF StoreIssue, CapRequest
      <3>2. [session |-> req[p].session, alias |-> req[p].alias,
             expiresAt |-> req[p].now + CapTtl] \in Capability
        BY <1>1, <3>1 DEF Capability
      <3>3. QED
        BY <1>10, <3>2 DEF StoreIssue
    <2>3. issued \in [Cap -> Capability \cup {NoCapability}] /\ c # NoCapability
      BY CapabilityAssumption DEF CapTypeOK, Capability, NoCapability
    <2>4. /\ issued' \in [Cap -> Capability \cup {NoCapability}]
          /\ issued'[k] = c /\ \A j \in Cap : issued[j] # NoCapability => issued'[j] = issued[j]
          /\ \A j \in Cap : j # k => issued'[j] = issued[j]
      BY <1>10, <2>2, <2>3 DEF StoreIssue
    <2>5. SessionsKept
      BY <1>0, <1>2, <2>4 DEF SessionsKept
    <2>6. held' = Held(req[p].now) \cup {k} /\ held' \subseteq Cap
      BY <1>6, <1>10 DEF StoreIssue, CapTypeOK
    <2>7. OnlyIssued'
      <3>1. \A j \in held' : issued'[j] # NoCapability
        BY <1>6, <2>3, <2>4, <2>6 DEF OnlyIssued, CapTypeOK
      <3>2. ASSUME NEW j \in Cap, issued'[j] # NoCapability
            PROVE  record'[issued'[j].session] # NoRecord
        <4>1. CASE j = k
          BY <1>1, <1>2, <2>2, <2>4, <4>1 DEF Used
        <4>2. CASE j # k
          BY <1>2, <2>4, <3>2, <4>2 DEF OnlyIssued, Used
        <4>3. QED
          BY <4>1, <4>2
      <3>3. QED
        BY <3>1, <3>2 DEF OnlyIssued, Used
    <2>8. PICK s \in CapRequest :
             s = [NoCapRequest EXCEPT !.reply = "issued", !.cap = k,
                                      !.session = req[p].session, !.seen = req[p].seen]
      BY <1>0, Answers
    <2>9. /\ s.at = "done" /\ s.op = "none" /\ s.reply = "issued" /\ s.cap = k
          /\ s.session = req[p].session /\ s.seen = Facts
      BY <1>1, <1>10, <2>8 DEF NoCapRequest, StoreIssue
    <2>10. Good(s)'
      BY <2>9 DEF Good, Facts
    <2>11. Put(p, s)
      BY <1>10, <2>8 DEF StoreIssue, Accept
    <2>12. Requests' /\ req' \in [Proc -> CapRequest]
      BY <1>0, <2>5, <2>10, <2>11, GoodPut
    <2>13. QED
      BY <1>0, <1>3, <2>1, <2>4, <2>5, <2>6, <2>7, <2>12 DEF CapTypeOK
  <1>11. QED
    BY <1>7, <1>8, <1>9, <1>10 DEF End

\* A step that leaves the capabilities and the requests' answers of UBID alone.
LEMMA Bystander ==
  ASSUME CapInv, SessionsKept, UNCHANGED <<held, issued>>, StoreTypeOK',
         subject' \in [Id -> Subject \cup {NoSubject}], full' \subseteq Subject,
         directory' \subseteq Alias, Requests', req' \in [Proc -> CapRequest]
  PROVE  CapTypeOK' /\ OnlyIssued' /\ Requests' /\ QuotasRespected'
  <1> USE DEF CapInv
  <1>1. CapTypeOK'
    BY DEF CapTypeOK
  <1>2. QuotasRespected'
    BY QuotasKept
  <1>3. \A k \in Cap : issued[k] # NoCapability => issued[k].session \in Id
    BY DEF CapTypeOK, Capability
  <1>4. OnlyIssued'
    <2>1. \A k \in Cap : issued[k] # NoCapability => Used(issued[k].session)'
      BY <1>3 DEF SessionsKept, OnlyIssued
    <2>2. QED
      BY <2>1 DEF OnlyIssued, Used
  <1>5. QED
    BY <1>1, <1>2, <1>4

\* UBID moves while requests are under way: each keeps what was true of it.
LEMMA WitnessStep ==
  ASSUME CapInv, NEW granted \in SUBSET Subject, NEW members \in SUBSET Alias,
         Witness(granted, members), full' = granted, directory' = members,
         UNCHANGED <<storeVars, subject, held, issued>>
  PROVE  CapTypeOK' /\ OnlyIssued' /\ Requests' /\ QuotasRespected'
  <1> USE DEF CapInv
  <1>1. UNCHANGED <<clock, record, slots, logout>> /\ StoreTypeOK' /\ SessionsKept
    BY DEF storeVars, SessionsKept, Used, CapTypeOK, StoreTypeOK
  <1>2. ASSUME NEW p \in Proc
        PROVE  req'[p] \in CapRequest /\ Good(req[p])'
    <2>1. req[p] \in CapRequest /\ Good(req[p])
      BY DEF CapTypeOK, Requests
    <2>2. CASE req[p].at = "done"
      <3>1. req'[p] = req[p]
        BY <2>2 DEF Witness
      <3>2. QED
        BY <2>1, <2>2, <3>1 DEF Good
    <2>3. CASE req[p].at # "done"
      <3>1. req'[p] = [req[p] EXCEPT !.seen = @ \cup FactsOf(req[p], granted, members)]
        BY <2>3 DEF Witness
      <3>2. FactsOf(req[p], granted, members) \subseteq Facts
        BY DEF FactsOf
      <3>3. PICK s \in CapRequest : s = req'[p]
        BY <2>1, <3>1, <3>2 DEF CapRequest
      <3>4. /\ s.session = req[p].session /\ s.alias = req[p].alias /\ s.at = req[p].at
            /\ s.op = req[p].op /\ s.cap = req[p].cap /\ s.reply = req[p].reply
            /\ s.listed = req[p].listed
            /\ s.seen = req[p].seen \cup FactsOf(req[p], granted, members)
        BY <2>1, <3>1, <3>3 DEF CapRequest
      <3>5. /\ subject[s.session] \in granted => "full" \in s.seen
            /\ s.alias \in members => "listed" \in s.seen
        BY <3>4 DEF FactsOf, Facts
      <3>6. s.seen \subseteq Facts
        BY <3>3 DEF CapRequest
      <3>7. Good(s)'
        BY <1>1, <2>1, <2>3, <3>4, <3>5, <3>6 DEF Good, Evidence, Names, SessionsKept
      <3>8. QED
        BY <3>3, <3>7 DEF Good, Evidence, Names
    <2>4. QED
      BY <2>2, <2>3
  <1>3. req' \in [Proc -> CapRequest] /\ Requests'
    BY <1>2 DEF Witness, Requests
  <1>4. QED
    BY <1>1, <1>3, Bystander DEF CapTypeOK

-----------------------------------------------------------------------------
(* The invariant.                                                          *)

LEMMA CapStart == CapInit => CapInv
  <1> SUFFICES ASSUME CapInit
               PROVE  CapInv
    OBVIOUS
  <1>1. StoreInv
    BY StoreStart DEF CapInit
  <1>2. CapTypeOK
    <2>1. NoCapRequest \in CapRequest
      BY DEF NoCapRequest, CapRequest
    <2>2. QED
      BY <1>1, <2>1 DEF CapInit, CapTypeOK, StoreInv
  <1>3. OnlyIssued /\ Requests
    BY DEF CapInit, OnlyIssued, Requests, Good, NoCapRequest
  <1>4. QuotasRespected
    <2>1. \A id \in Id : OfSession({}, id) = {}
      BY DEF OfSession
    <2>2. \A u \in Subject : OfSubject({}, u) = {}
      BY DEF OfSubject
    <2>3. Cardinality({}) = 0
      BY FS_EmptySet
    <2>4. QED
      BY <2>1, <2>2, <2>3, CapabilityAssumption DEF CapInit, QuotasRespected
  <1>5. QED
    BY <1>1, <1>2, <1>3, <1>4 DEF CapInv

LEMMA CapStep2Inv == CapInv /\ [CapNext]_capVars => CapInv'
  <1> SUFFICES ASSUME CapInv, [CapNext]_capVars
               PROVE  CapInv'
    OBVIOUS
  <1>0. StoreInv /\ CapTypeOK /\ OnlyIssued /\ Requests /\ QuotasRespected
    BY DEF CapInv
  <1>1. StoreInv'
    <2>1. [StoreNext]_storeVars
      BY <1>0, CapStep2Store DEF capVars, storeVars
    <2>2. QED
      BY <1>0, <2>1, StoreStep
  <1>2. StoreTypeOK'
    BY <1>1 DEF StoreInv
  <1> DEFINE Rest == CapTypeOK' /\ OnlyIssued' /\ Requests' /\ QuotasRespected'
  <1> HIDE DEF Rest
  <1>3. ASSUME UNCHANGED <<held, issued, full, directory>>, SessionsKept,
               UNCHANGED req, subject' \in [Id -> Subject \cup {NoSubject}]
        PROVE  Rest
    <2>1. \A p \in Proc : req[p] \in CapRequest /\ Good(req[p])
      BY <1>0 DEF CapTypeOK, Requests
    <2>2. ASSUME NEW p \in Proc
          PROVE  Good(req[p])'
      BY <1>3, <2>1 DEF Good, Evidence, Names, SessionsKept
    <2>3. QED
      BY <1>0, <1>2, <1>3, <2>2, Bystander DEF CapTypeOK, Requests, Rest
  <1>4. ASSUME record' = record, subject' = subject, issued' = issued
        PROVE  SessionsKept
    BY <1>4 DEF SessionsKept, Used
  <1>5. ASSUME UNCHANGED capVars
        PROVE  Rest
    <2>1. UNCHANGED <<record, subject, held, issued, full, directory, req>>
      BY <1>5 DEF capVars
    <2>2. QED
      BY <1>0, <1>3, <1>4, <2>1 DEF CapTypeOK
  <1>6. ASSUME NEW id \in Id, SignOut(id)
        PROVE  Rest
    BY <1>0, <1>3, <1>4, <1>6 DEF SignOut, Delete, ubidVars, CapTypeOK
  <1>7. ASSUME NEW id \in Id, NEW u \in Subject, SignIn(id, u)
        PROVE  Rest
    <2>1. /\ ~Used(id) /\ subject' = [subject EXCEPT ![id] = u]
          /\ UNCHANGED <<held, issued, full, directory, req>>
          /\ \A j \in Id : j # id => record'[j] = record[j]
      BY <1>0, <1>7 DEF SignIn, Create, ubidVars, CapTypeOK, StoreTypeOK
    <2>2. SessionsKept
      BY <1>0, <2>1 DEF SessionsKept, Used, CapTypeOK
    <2>3. QED
      BY <1>0, <1>3, <2>1, <2>2 DEF CapTypeOK
  <1>8. ASSUME CapTick
        PROVE  Rest
    <2>1. UNCHANGED <<record, subject, held, issued, full, directory, req>>
      BY <1>8 DEF CapTick, Tick, ubidVars
    <2>2. QED
      BY <1>0, <1>3, <1>4, <2>1 DEF CapTypeOK
  <1>9. ASSUME NEW u \in Subject, AuthorityChanges(u)
        PROVE  Rest
    <2>1. PICK granted \in SUBSET Subject : Witness(granted, directory) /\ full' = granted
      BY <1>0, <1>9 DEF AuthorityChanges, CapTypeOK
    <2>2. directory \in SUBSET Alias
      BY <1>0 DEF CapTypeOK
    <2>3. QED
      BY <1>9, <2>1, <2>2, WitnessStep DEF AuthorityChanges, Rest
  <1>10. ASSUME NEW a \in Alias, DirectoryChanges(a)
         PROVE  Rest
    <2>1. PICK members \in SUBSET Alias : Witness(full, members) /\ directory' = members
      BY <1>0, <1>10 DEF DirectoryChanges, CapTypeOK
    <2>2. full \in SUBSET Subject
      BY <1>0 DEF CapTypeOK
    <2>3. QED
      BY <1>10, <2>1, <2>2, WitnessStep DEF DirectoryChanges, Rest
  <1>11. ASSUME NEW p \in Proc, End(p)
         PROVE  Rest
    BY <1>11, EndStep DEF Rest
  <1>12. ASSUME NEW p \in Proc,
                \/ \E id \in Id, a \in Alias : CallIssue(p, id, a)
                \/ \E id \in Id, k \in Cap : CallResolve(p, id, k)
                \/ \E id \in Id : CallAuthority(p, id) \/ CallDirectory(p, id) \/ CallDevice(p, id)
                \/ ReadSession(p) \/ ReadAuthority(p) \/ ReadDirectory(p)
                \/ PackageAnswers(p) \/ DeviceAnswers(p) \/ UbidFails(p)
         PROVE  Rest
    <2>1. /\ UNCHANGED <<record, subject, held, issued, full, directory>>
      BY <1>12 DEF CallIssue, CallResolve, CallAuthority, CallDirectory, CallDevice, CallUbid,
                   Call, ReadSession, ReadAuthority, ReadDirectory, PackageAnswers,
                   DeviceAnswers, UbidFails, ubidVars, storeVars
    <2>2. SessionsKept
      BY <1>4, <2>1
    <2>3. Requests' /\ req' \in [Proc -> CapRequest]
      BY <1>12, <2>1, <2>2, RequestStep
    <2>4. QED
      BY <1>0, <1>2, <2>1, <2>2, <2>3, Bystander DEF CapTypeOK, Rest
  <1>13. Rest
    <2>1. ASSUME NEW p \in Proc,
                 \/ \E id \in Id, a \in Alias : CallIssue(p, id, a)
                 \/ \E id \in Id, k \in Cap : CallResolve(p, id, k)
                 \/ \E id \in Id : CallAuthority(p, id) \/ CallDirectory(p, id) \/ CallDevice(p, id)
                 \/ CapStep(p)
          PROVE  Rest
      <3>1. CASE End(p)
        BY <1>11, <3>1
      <3>2. CASE ~End(p)
        <4>1. \/ \E id \in Id, a \in Alias : CallIssue(p, id, a)
              \/ \E id \in Id, k \in Cap : CallResolve(p, id, k)
              \/ \E id \in Id : CallAuthority(p, id) \/ CallDirectory(p, id) \/ CallDevice(p, id)
              \/ ReadSession(p) \/ ReadAuthority(p) \/ ReadDirectory(p)
              \/ PackageAnswers(p) \/ DeviceAnswers(p) \/ UbidFails(p)
          BY <2>1, <3>2 DEF CapStep
        <4>2. QED
          BY <1>12, <4>1
      <3>3. QED
        BY <3>1, <3>2
    <2>2. CASE CapNext
      <3>1. CASE \/ \E id \in Id : SignOut(id) \/ \E u \in Subject : SignIn(id, u)
                 \/ \E u \in Subject : AuthorityChanges(u)
                 \/ \E a \in Alias : DirectoryChanges(a)
                 \/ CapTick
        BY <1>6, <1>7, <1>8, <1>9, <1>10, <3>1
      <3>2. QED
        BY <2>1, <2>2, <3>1 DEF CapNext
    <2>3. QED
      BY <1>5, <2>2
  <1>14. QED
    BY <1>1, <1>13 DEF CapInv, Rest

LEMMA CapInvariant == CapSpec => []CapInv
  BY CapStart, CapStep2Inv, PTL DEF CapSpec

-----------------------------------------------------------------------------
(* What follows.                                                           *)

\* The variables of the capabilities, their requests and UBID keep their types.
THEOREM CapTypeCorrect == CapSpec => []CapTypeOK
  <1>1. CapInv => CapTypeOK
    BY DEF CapInv
  <1>2. QED
    BY <1>1, CapInvariant, PTL

\* The three nested capacities of createOpaqueRecipientCapabilityStore hold in
\* every interleaving of issue(), resolve(), logins and the clock.
THEOREM CapQuotas == CapSpec => []QuotasRespected
  <1>1. CapInv => QuotasRespected
    BY DEF CapInv
  <1>2. QED
    BY <1>1, CapInvariant, PTL

\* A package is asked for and handed out only in the session in which the
\* capability was issued, a later session of the same subject excluded.
THEOREM CapBoundToSession == CapSpec => []BoundToSession
  <1>1. CapInv => BoundToSession
    BY GoodIsEnough DEF CapInv
  <1>2. QED
    BY <1>1, CapInvariant, PTL

\* No positive answer of a route rests on what held only before its request.
THEOREM CapFreshEvidence == CapSpec => []FreshEvidence
  <1>1. CapInv => FreshEvidence
    BY GoodIsEnough DEF CapInv
  <1>2. QED
    BY <1>1, CapInvariant, PTL

\* What the sweep of issue() or resolve() has dropped never comes back, and a
\* resolve drops all that its own clock finds expired.
THEOREM CapNeverBack == CapSpec => NeverBack
  <1> DEFINE Kept == \A k \in Cap :
                /\ issued[k] # NoCapability
                /\ \/ k \notin held
                   \/ \E p \in Proc : /\ req[p].op = "resolve" /\ End(p)
                                      /\ issued[k].expiresAt <= req[p].now
                => k \notin held'
  <1>1. CapInv /\ [CapNext]_capVars => [Kept]_capVars
    <2> SUFFICES ASSUME CapInv, CapNext
                 PROVE  Kept
      OBVIOUS
    <2>0. \A q \in Proc : /\ req[q] \in CapRequest /\ \A k \in Cap : issued[k] # NoCapability =>
                                                         issued[k].expiresAt \in Nat
      BY DEF CapInv, CapTypeOK, Capability
    <2>1. ASSUME NEW k \in Cap, issued[k] # NoCapability, k \notin held
          PROVE  k \notin held'
      <3>2. ASSUME NEW p \in Proc, End(p)
            PROVE  k \notin held'
        BY <2>1, <3>2 DEF End, StoreIssue, StoreIssueRefused, StoreResolve, Held
      <3>3. CASE UNCHANGED held
        BY <2>1, <3>3
      <3>4. UNCHANGED held \/ \E p \in Proc : End(p)
        BY DEF CapNext, CapStep, SignIn, SignOut, AuthorityChanges, DirectoryChanges, CapTick,
               CallIssue, CallResolve, CallAuthority, CallDirectory, CallDevice, CallUbid,
               Call, ReadSession, ReadAuthority, ReadDirectory, PackageAnswers,
               DeviceAnswers, UbidFails
      <3>5. QED
        BY <3>2, <3>3, <3>4
    <2>2. ASSUME NEW k \in Cap, issued[k] # NoCapability, NEW p \in Proc,
                 req[p].op = "resolve", End(p), issued[k].expiresAt <= req[p].now
          PROVE  k \notin held'
      <3>1. issued[k].expiresAt \in Nat /\ req[p].now \in Nat
        BY <2>0, <2>2 DEF CapRequest
      <3>2. held' = Held(req[p].now)
        BY <2>2 DEF End, StoreResolve
      <3>3. QED
        BY <2>2, <3>1, <3>2 DEF Held
    <2>3. QED
      BY <2>1, <2>2
  <1>2. QED
    BY <1>1, CapInvariant, PTL DEF CapSpec, NeverBack
=============================================================================
