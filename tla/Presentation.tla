----------------------------- MODULE Presentation -----------------------------
(***************************************************************************)
(* What a session manager promises its callers, without slots, maps, locks *)
(* or calls to UBID: a session id is new, then presents one credential,    *)
(* and once it has ended or been denied it never presents anything again.  *)
(* A credential has one session in its life, unless the first was denied   *)
(* and UBID has revoked the credential.  A request is answered by what is  *)
(* true when the answer is given, not by what was true when it began.      *)
(***************************************************************************)
CONSTANTS
    Id,          \* session ids
    Issuance,    \* credentials of mobile sessions
    NoIssuance,  \* the credential of a desktop session
    Proc,        \* concurrent requests
    NoId         \* the absent session id

VARIABLES
    session,     \* id |-> "new", "presented", "ended" or "denied"
    credential,  \* id |-> the issuance it presents
    revoked,     \* what UBID has revoked
    call         \* request |-> the call it makes

vars == <<session, credential, revoked, call>>

NoCall == [op |-> "none", id |-> NoId, iss |-> NoIssuance, late |-> FALSE,
           reply |-> "none", open |-> FALSE]

Init ==
    /\ session = [id \in Id |-> "new"]
    /\ credential = [id \in Id |-> NoIssuance]
    /\ revoked = {}
    /\ call = [p \in Proc |-> NoCall]

-----------------------------------------------------------------------------
\* What UBID revokes when the session is logged out.
Named(id) == IF credential[id] = NoIssuance THEN id ELSE credential[id]

\* The answers a call may be given in the present state.  A mobile session
\* whose credential was revoked when the read began is not authenticated.
Answers(op, id, iss, late) ==
    CASE op = "read" ->
            {"anonymous"} \cup
            {r \in {"authenticated"} :
                session[id] = "presented" /\ (late => credential[id] = NoIssuance)}
      [] op = "logout" ->
            {"unavailable"} \cup {r \in {"confirmed"} : Named(id) \in revoked}
      [] op = "cancel" ->
            {"unavailable"} \cup {r \in {"cancelled"} : iss \in revoked}
      [] OTHER -> {"unavailable"}

\* The call begins, and may be answered at once.
Begin(p, op, id, iss) ==
    LET late == op = "read" /\ Named(id) \in revoked
        reply == call'[p].reply
    IN  /\ ~call[p].open
        /\ call'[p].op = op /\ call'[p].id = id
        /\ reply \in {"none"} \cup Answers(op, id, iss, late)
        /\ call' = [call EXCEPT ![p] =
                       [op |-> op, id |-> id, iss |-> iss, late |-> late,
                        reply |-> reply, open |-> reply = "none"]]

Read(p, id) ==
    /\ session[id] # "new"
    /\ Begin(p, "read", id, NoIssuance)
    /\ UNCHANGED <<session, credential, revoked>>

\* The session is denied as the call begins, whatever becomes of the call.
Logout(p, id) ==
    /\ session[id] # "new"
    /\ Begin(p, "logout", id, NoIssuance)
    /\ \/ session' = [session EXCEPT ![id] = "denied"]
       \/ session[id] # "presented" /\ UNCHANGED session
    /\ UNCHANGED <<credential, revoked>>

AskUbid(p, op, iss) ==
    /\ Begin(p, op, NoId, iss)
    /\ UNCHANGED <<session, credential, revoked>>

Answer(p) ==
    LET reply == call'[p].reply
    IN  /\ call[p].open /\ ~call'[p].open
        /\ reply \in Answers(call[p].op, call[p].id, call[p].iss, call[p].late)
        /\ call' = [call EXCEPT ![p].reply = reply, ![p].open = FALSE]
        /\ UNCHANGED <<session, credential, revoked>>

-----------------------------------------------------------------------------
Installs(p, id) ==
    /\ call[p].open /\ call[p].op = "install" /\ call'[p].id = id
    /\ call' = [call EXCEPT ![p].id = id, ![p].reply = "installed",
                            ![p].open = FALSE]

\* The one session of the credential is given once more.
PresentAgain(p, id) ==
    /\ Installs(p, id)
    /\ session[id] = "presented" /\ credential[id] = call[p].iss
    /\ UNCHANGED <<session, credential, revoked>>

\* A credential is presented anew only when it was not presented before, or
\* was denied here and revoked by UBID.
PresentNew(p, id) ==
    LET iss == call[p].iss
    IN  /\ Installs(p, id)
        /\ session[id] = "new"
        /\ \A other \in Id :
              session[other] # "new" /\ credential[other] = iss =>
                  session[other] = "denied" /\ iss \in revoked
        /\ session' = [session EXCEPT ![id] = "presented"]
        /\ credential' = [credential EXCEPT ![id] = iss]
        /\ UNCHANGED revoked

\* The caller of an install is no longer current when the session is there: it
\* is denied, new or not, and the install fails.
Withdraw(p, id) ==
    /\ call[p].open /\ call[p].op = "install"
    /\ call' = [call EXCEPT ![p].reply = "unavailable", ![p].open = FALSE]
    /\ session[id] \in {"new", "presented"}
    /\ credential[id] = IF session[id] = "new" THEN NoIssuance ELSE call[p].iss
    /\ session' = [session EXCEPT ![id] = "denied"]
    /\ credential' = [credential EXCEPT ![id] = call[p].iss]
    /\ UNCHANGED revoked

\* A cancellation under way denies the session of its credential.
Cancel(p, id) ==
    /\ call[p].open /\ call[p].op = "cancel"
    /\ session[id] # "new" /\ credential[id] = call[p].iss
    /\ session' = [session EXCEPT ![id] = "denied"]
    /\ UNCHANGED <<credential, revoked>>

PresentDesktop(id) ==
    /\ session[id] = "new"
    /\ session' = [session EXCEPT ![id] = "presented"]
    /\ UNCHANGED <<credential, revoked>>

\* The clock ends the sessions of one instant together.
Expire ==
    /\ \A id \in Id :
          \/ session'[id] = session[id]
          \/ session[id] = "presented" /\ session'[id] = "ended"
    /\ UNCHANGED <<credential, revoked>>

Revoke ==
    /\ revoked \subseteq revoked'
    /\ UNCHANGED <<session, credential>>

Request(p) ==
    \/ Answer(p)
    \/ \E id \in Id : \/ Read(p, id) \/ Logout(p, id)
                      \/ PresentAgain(p, id) \/ PresentNew(p, id)
                      \/ Withdraw(p, id)
    \/ \E op \in {"install", "cancel"}, i \in Issuance : AskUbid(p, op, i)

Next ==
    \/ /\ UNCHANGED call
       /\ \/ Expire
          \/ Revoke
          \/ \E id \in Id : PresentDesktop(id) \/ \E p \in Proc : Cancel(p, id)
    \/ \E p \in Proc : call'[p] # call[p] /\ Request(p)

Spec == Init /\ [][Next]_vars

=============================================================================
