---------------------------- MODULE UbidExchange ----------------------------
(***************************************************************************)
(* One call of a server-side client of UBID: a service token is fetched,    *)
(* then the resource, each by one bounded HTTP exchange that settles once.  *)
(*                                                                         *)
(* The OAuth client makes the same two exchanges: the code for a token, the *)
(* token for its introspection.                                             *)
(*                                                                         *)
(* Bytes are counted in pieces.  A reply is cut, trickles, never ends or is *)
(* replaced by a gateway's; UBID may carry out a request nobody waits for   *)
(* any more.                                                                *)
(***************************************************************************)
EXTENDS Naturals

CONSTANTS
  MaximumBytes,   \* maximumBytes: the pieces a reply may have
  TimeoutTicks    \* timeoutMs, in ticks

ASSUME ExchangeBounds == MaximumBytes \in Nat \ {0} /\ TimeoutTicks \in Nat \ {0}

\* How the clients differ.  timer: request.setTimeout counts from the `last'
\* activity of the socket, the others set one timer for the `whole' exchange.
\* length: a reply must declare its exact length.  definitive: a 409 may be a
\* definitive rejection.  deadline: the assertion must still be fresh.
DeviceClient ==
  [name |-> "device", timer |-> "last", length |-> FALSE, definitive |-> FALSE, deadline |-> FALSE]
AuthorizationClient == [DeviceClient EXCEPT !.name = "authorization", !.definitive = TRUE]
RecipientClient == [DeviceClient EXCEPT !.name = "recipient"]
MobileClient ==
  [name |-> "mobile", timer |-> "whole", length |-> TRUE, definitive |-> FALSE, deadline |-> FALSE]
SessionV2Client == [MobileClient EXCEPT !.name = "session-v2", !.deadline = TRUE]
EnrollmentV2Client == [MobileClient EXCEPT !.name = "enrollment-v2", !.deadline = TRUE]
DirectoryClient == [MobileClient EXCEPT !.name = "directory", !.length = FALSE]
OAuthClient == [DirectoryClient EXCEPT !.name = "oauth"]

Clients == {DeviceClient, AuthorizationClient, RecipientClient, MobileClient,
            SessionV2Client, EnrollmentV2Client, DirectoryClient, OAuthClient}

VARIABLES
  client,   \* the client that makes the call
  call,     \* [step, outcome, aged]: how far it is; aged: its assertion has expired
  wire,     \* [socket, timer, reply, got]: the exchange under way
  ubid      \* [sent, applied, refused]: what becomes of the resource request

ubidVars == <<client, call, wire, ubid>>

\* What a server can write: its status and form, its length in pieces (one more
\* than MaximumBytes never ends) and whether the length was declared.
Replies == [form : {"document", "viewer-token", "rejection", "other"},
            size : 1..(MaximumBytes + 1), declared : BOOLEAN]
NoReply == [form |-> "none", size |-> 0, declared |-> FALSE]

Sent == [socket |-> "open", timer |-> 0, reply |-> NoReply, got |-> 0]

Under == call.step \in {"token", "resource"}
Reading == Under /\ wire.socket = "reading"

\* The timer after some activity of the socket.
Restarted == IF client.timer = "last" THEN 0 ELSE wire.timer

\* The assertion of this call may have expired meanwhile.
Fresh == ~(client.deadline /\ call.aged)

-----------------------------------------------------------------------------
\* rejectUnavailable, fail, deny, abort: the socket is destroyed.
Fail ==
  /\ call' = [call EXCEPT !.step = "done", !.outcome = "unavailable"]
  /\ wire' = [wire EXCEPT !.socket = "closed"]
  /\ UNCHANGED <<client, ubid>>

Refuse == Fail

Settle(outcome) ==
  /\ call' = [call EXCEPT !.step = "done", !.outcome = outcome]
  /\ wire' = [wire EXCEPT !.socket = "ended"]
  /\ UNCHANGED <<client, ubid>>

\* serviceToken: the assertion is signed, the token is requested.
Begin ==
  /\ call.step = "idle"
  /\ call' = [call EXCEPT !.step = "token"]
  /\ wire' = Sent
  /\ UNCHANGED <<client, ubid>>

\* A token that equals the viewer's is refused.
UseToken ==
  IF wire.reply.form = "document" /\ Fresh
  THEN /\ call' = [call EXCEPT !.step = "resource"]
       /\ wire' = Sent
       /\ ubid' = [ubid EXCEPT !.sent = TRUE]
       /\ UNCHANGED client
  ELSE Fail

\* A 409 is read to its end for an authorization only.
DefinitiveCandidate == client.definitive /\ call.step = "resource" /\ wire.reply.form = "rejection"

\* The response event: status, content type, declared length.
Response ==
  /\ Under /\ wire.socket = "open" /\ wire.reply # NoReply
  /\ IF \/ wire.reply.form = "rejection" /\ ~DefinitiveCandidate
        \/ client.length /\ ~wire.reply.declared
        \/ client.timer = "whole" /\ wire.reply.declared /\ wire.reply.size > MaximumBytes
     THEN Refuse
     ELSE /\ wire' = [wire EXCEPT !.socket = "reading", !.timer = Restarted]
          /\ UNCHANGED <<client, call, ubid>>

\* A reply with another status or content type.
ResponseRefused ==
  /\ Under /\ wire.socket = "open" /\ wire.reply.form = "other"
  /\ Refuse

Endless == wire.reply.size > MaximumBytes

\* Fault: the bytes received are not counted.
DataUncounted ==
  /\ Reading
  /\ wire.got < wire.reply.size \/ Endless
  /\ wire' = [wire EXCEPT !.got = IF @ < wire.reply.size THEN @ + 1 ELSE @,
                          !.timer = Restarted]
  /\ UNCHANGED <<client, call, ubid>>

\* The data event of one more piece.
Data ==
  /\ Reading
  /\ wire.got < wire.reply.size
  /\ IF wire.got + 1 > MaximumBytes   \* or more than was declared
     THEN Fail
     ELSE /\ wire' = [wire EXCEPT !.got = @ + 1, !.timer = Restarted]
          /\ UNCHANGED <<client, call, ubid>>

\* The document that was read, or "malformed": a cut document does not parse.
Whole == wire.got = wire.reply.size
Parsed == IF Whole THEN wire.reply.form ELSE "malformed"

\* Fault: a 409 is believed whatever its body says.
AcceptedAny ==
  CASE call.step = "token" -> UseToken
    [] client.definitive /\ Parsed \in {"rejection", "other"} -> Settle("definitive")
    [] Parsed = "document" /\ Fresh -> Settle("value")
    [] OTHER -> Fail

\* The value of a complete body; the body of a rejection is compared with the
\* one definitive document.
Accepted ==
  LET readable == Parsed \in {"document", "viewer-token", "rejection"}
      rejected == readable /\ DefinitiveCandidate
      valued   == call.step = "resource" /\ Parsed = "document" /\ Fresh
  IN \/ readable /\ call.step = "token" /\ UseToken
     \/ rejected /\ Settle("definitive")
     \/ valued /\ Settle("value")
     \/ ~(readable /\ call.step = "token") /\ ~rejected /\ ~valued /\ Fail

\* The end event: also of a reply without a length whose connection was cut.
End ==
  /\ Reading
  /\ Whole \/ ~wire.reply.declared
  /\ Accepted

\* error, aborted, close before the end; a request that cannot be sent.
Broken ==
  /\ Under /\ wire.socket \in {"open", "reading"}
  /\ Fail

Tick ==
  /\ Under /\ wire.timer < TimeoutTicks
  /\ wire' = [wire EXCEPT !.timer = @ + 1]
  /\ UNCHANGED <<client, call, ubid>>

Timeout ==
  /\ Under /\ wire.timer = TimeoutTicks
  /\ Fail

\* Sixty seconds after the assertion was signed.
Age ==
  /\ Under /\ ~call.aged
  /\ call' = [call EXCEPT !.aged = TRUE]
  /\ UNCHANGED <<client, wire, ubid>>

-----------------------------------------------------------------------------
(* UBID and what stands between.                                           *)

\* UBID carries the request out or refuses it, perhaps after the client has
\* given up.
Apply ==
  /\ ubid.sent /\ ~ubid.applied /\ ~ubid.refused
  /\ \/ ubid' = [ubid EXCEPT !.applied = TRUE]
     \/ ubid' = [ubid EXCEPT !.refused = TRUE]
  /\ UNCHANGED <<client, call, wire>>

\* The result is written by a UBID that has applied the request and the one
\* definitive rejection by a UBID that has refused it; anything else can also
\* come from a gateway, whatever UBID does.
Answer(reply) ==
  /\ Under /\ wire.socket = "open" /\ wire.reply = NoReply
  /\ CASE reply.form = "document" -> call.step = "token" \/ ubid.applied
       [] reply.form = "rejection" -> call.step = "resource" /\ ubid.refused
       [] reply.form = "viewer-token" -> call.step = "token"
       [] OTHER -> TRUE
  /\ wire' = [wire EXCEPT !.reply = reply]
  /\ UNCHANGED <<client, call, ubid>>

-----------------------------------------------------------------------------
UbidInit ==
  /\ client \in Clients
  /\ call = [step |-> "idle", outcome |-> "pending", aged |-> FALSE]
  /\ wire = [Sent EXCEPT !.socket = "idle"]
  /\ ubid = [sent |-> FALSE, applied |-> FALSE, refused |-> FALSE]

UbidNext ==
  \/ Begin \/ Response \/ ResponseRefused \/ Data \/ End \/ Broken \/ Tick \/ Timeout \/ Age
  \/ Apply
  \/ \E reply \in Replies : Answer(reply)

\* Time passes and timers fire; nothing is assumed of UBID and the network.
UbidFairness == WF_ubidVars(Tick) /\ WF_ubidVars(Timeout)

UbidSpec == UbidInit /\ [][UbidNext]_ubidVars /\ UbidFairness

-----------------------------------------------------------------------------
(* Properties.                                                             *)

UbidTypeOK ==
  /\ client \in Clients
  /\ call \in [step : {"idle", "token", "resource", "done"}, aged : BOOLEAN,
               outcome : {"pending", "value", "unavailable", "definitive"}]
  /\ wire \in [socket : {"idle", "open", "reading", "closed", "ended"}, timer : 0..TimeoutTicks,
               reply : Replies \cup {NoReply}, got : 0..MaximumBytes]
  /\ ubid \in [sent : BOOLEAN, applied : BOOLEAN, refused : BOOLEAN]

\* What a caller is told is true of UBID: a value is the whole answer to a
\* request that was carried out, and a definitive rejection, on which the
\* browser gives an authorization up, is of a request that never was and never
\* will be (isUbidMessagingDeviceAuthorizationDefinitiveRejection).
AnswerIsTrue ==
  /\ call.outcome = "value" => ubid.applied /\ wire.reply.form = "document" /\ wire.got = wire.reply.size
  /\ call.outcome = "definitive" => ubid.refused /\ ~ubid.applied

\* A call that is over has no socket left: it was read to its end or destroyed.
SocketsClosed == call.step = "done" => wire.socket \in {"closed", "ended"}

\* Every call comes to an end, against a reply that never comes, trickles or
\* has no end: the timer that restarts needs the bound on the bytes.
CallSettles == call.step = "token" ~> call.step = "done"
=============================================================================
