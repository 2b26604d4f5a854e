----------------------------- MODULE AcceptedKey -----------------------------
(***************************************************************************)
(* The authentication key of an accepted device                             *)
(* (messaging-device-ed25519-key-v1): one record per browser, made by the   *)
(* first tab that prepares, for the binding that is ready then.             *)
(*                                                                         *)
(* Nothing replaces the record: after a rotation, or for another subject,   *)
(* every operation fails.                                                   *)
(***************************************************************************)
EXTENDS Naturals

CONSTANTS
  Users,         \* the tabs that use the key
  Subjects,
  MaxBindings,   \* bounds the bindings of a subject that follow each other
  MaxPairs       \* bounds the key pairs that are generated

NoRecord == [key |-> 0]
Quiet == [step |-> "idle", subject |-> "none", binding |-> 0, key |-> 0, at |-> 0]
Silent == [kind |-> "nothing"]

VARIABLES
  binding,   \* subject -> the binding readX25519Binding answers when it answers one
  record,    \* what authentication-key-v1 holds: subject, binding, key
  user,      \* tab -> its operation and what it was last told
  access,    \* tab -> the subject with Full access, or "none"
  pairs      \* key pairs generated so far

acceptedVars == <<binding, record, user, access, pairs>>

Doing(u) == user[u].op
In(u, step) == Doing(u).step = step
Go(u, op) == user' = [user EXCEPT ![u].op = op]
Give(u, kind, key) ==
  user' = [user EXCEPT ![u] =
    [op |-> Quiet, told |-> [kind |-> kind, key |-> key, at |-> Doing(u).at]]]
GiveUp(u) == Go(u, Quiet)

\* check(subject): only the subject is compared, not the session.
SameSubject(u) == access[u] = Doing(u).subject

\* localRecord and matchingStored against the binding that was read last.
Matching(u) ==
  record # NoRecord /\ record.subject = Doing(u).subject /\ record.binding = Doing(u).binding

Start(u, step, key) ==
  /\ In(u, "idle") /\ access[u] # "none"
  /\ user' = [user EXCEPT ![u] =
       [op |-> [step |-> step, subject |-> access[u], binding |-> binding[access[u]], key |-> key, at |-> 0],
        told |-> Silent]]
  /\ UNCHANGED <<binding, record, access, pairs>>

\* prepare, createEnrollmentProofV2: the binding is read; one that is not ready or
\* not valid ends the operation.
StartPrepare(u) == Start(u, "prepare", 0)
StartProof(u) == \E key \in 1..pairs : Start(u, "proof", key)

\* prepare: the stored record is used or a key pair is generated.
ReadRecord(u) ==
  /\ In(u, "prepare")
  /\ IF ~SameSubject(u) \/ (record # NoRecord /\ ~Matching(u)) THEN GiveUp(u) /\ UNCHANGED pairs
     ELSE IF record # NoRecord THEN Give(u, "public", record.key) /\ UNCHANGED pairs
          ELSE /\ pairs < MaxPairs
               /\ pairs' = pairs + 1
               /\ Go(u, [Doing(u) EXCEPT !.step = "add", !.key = pairs'])
  /\ UNCHANGED <<binding, record, access>>

\* create: an add that fails when there is a record, or at any other time.
AddRecord(u) ==
  /\ In(u, "add")
  /\ \/ /\ record = NoRecord
        /\ record' = [subject |-> Doing(u).subject, binding |-> Doing(u).binding, key |-> Doing(u).key]
     \/ UNCHANGED record
  /\ Go(u, [Doing(u) EXCEPT !.step = "added"])
  /\ UNCHANGED <<binding, access, pairs>>

\* The record is read back, one's own or the winner's.
ReadBack(u) ==
  /\ In(u, "added")
  /\ IF SameSubject(u) /\ Matching(u) THEN Give(u, "public", record.key) ELSE GiveUp(u)
  /\ UNCHANGED <<binding, record, access, pairs>>

\* createEnrollmentProofV2: the record is read; the enrollment must name its key.
MatchRecord(u) ==
  /\ In(u, "proof")
  /\ IF SameSubject(u) /\ Matching(u) /\ record.key = Doing(u).key
     THEN Go(u, [Doing(u) EXCEPT !.step = "matched"]) ELSE GiveUp(u)
  /\ UNCHANGED <<binding, record, access, pairs>>

\* The key of that record signs; `at', which no code reads, is the binding of then.
SignProof(u) ==
  /\ In(u, "matched")
  /\ IF SameSubject(u)
     THEN Go(u, [Doing(u) EXCEPT !.step = "signed", !.at = binding[Doing(u).subject]]) ELSE GiveUp(u)
  /\ UNCHANGED <<binding, record, access, pairs>>

\* Fault: the binding is not read again.
RereadNothing(u) ==
  /\ In(u, "signed")
  /\ IF SameSubject(u) THEN Go(u, [Doing(u) EXCEPT !.step = "reread"]) ELSE GiveUp(u)
  /\ UNCHANGED <<binding, record, access, pairs>>

\* After the signature the binding is read again; it may not be ready or valid.
RereadBinding(u) ==
  /\ In(u, "signed")
  /\ \E ready \in BOOLEAN :
       IF SameSubject(u) /\ ready
       THEN Go(u, [Doing(u) EXCEPT !.step = "reread", !.binding = binding[Doing(u).subject]]) ELSE GiveUp(u)
  /\ UNCHANGED <<binding, record, access, pairs>>

\* Then the record, and the proof is handed out within the enrollment's window.
\* The binding is not looked at again: it may have been rotated since.
FinishProof(u) ==
  /\ In(u, "reread")
  /\ \E open \in BOOLEAN :
       IF open /\ SameSubject(u) /\ Matching(u) /\ record.key = Doing(u).key
       THEN Give(u, "proof", Doing(u).key) ELSE GiveUp(u)
  /\ UNCHANGED <<binding, record, access, pairs>>

-----------------------------------------------------------------------------
\* The device of an account is rotated; a binding never returns to an earlier one.
BindingChanges ==
  /\ \E subject \in Subjects :
        /\ binding[subject] < MaxBindings
        /\ binding' = [binding EXCEPT ![subject] = @ + 1]
  /\ UNCHANGED <<record, user, access, pairs>>

SubjectChanges(u) ==
  /\ \E subject \in (Subjects \cup {"none"}) \ {access[u]} : access' = [access EXCEPT ![u] = subject]
  /\ UNCHANGED <<binding, record, user, pairs>>

UserReloads(u) ==
  /\ ~In(u, "idle")
  /\ user' = [user EXCEPT ![u] = [op |-> Quiet, told |-> Silent]]
  /\ UNCHANGED <<binding, record, access, pairs>>

AcceptedInit ==
  /\ binding = [s \in Subjects |-> 1] /\ record = NoRecord /\ pairs = 0
  /\ user = [u \in Users |-> [op |-> Quiet, told |-> Silent]]
  /\ access = [u \in Users |-> "none"]

AcceptedNext ==
  \/ \E u \in Users :
       \/ StartPrepare(u) \/ ReadRecord(u) \/ AddRecord(u) \/ ReadBack(u)
       \/ StartProof(u) \/ MatchRecord(u) \/ SignProof(u) \/ RereadBinding(u) \/ FinishProof(u)
       \/ SubjectChanges(u) \/ UserReloads(u)
  \/ BindingChanges

AcceptedSpec == AcceptedInit /\ [][AcceptedNext]_acceptedVars

-----------------------------------------------------------------------------
\* What a tab was told stays true of the one record: the key to enroll and the
\* key that has signed are the stored one; and the binding that key was made for
\* was the device's when it signed, although the code reads the binding only
\* before and after the signature (createEnrollmentProofV2).
ToldIsStored ==
  \A u \in Users :
    LET told == user[u].told IN
      /\ told.kind # "nothing" => told.key = record.key
      /\ told.kind = "proof" => told.at = record.binding
=============================================================================
