---------------------------- MODULE RelayExchange ----------------------------
(***************************************************************************)
(* One exchange with a Nostr relay over a WebSocket, settled once by        *)
(* whichever of its frames, timers and events comes first.                  *)
(*                                                                         *)
(*   transport  WebSocketNostrReadTransport.read                            *)
(*              (src/data/nostr-websocket-read-transport.mjs)               *)
(*   read       readAuthenticatedNostrEvents and its mapping                *)
(*              (web/authenticated-public-read.mjs)                         *)
(*   publish    writeAuthenticatedEvent: the key and the signature of the   *)
(*              extension, each with its timer, then the relay's answer     *)
(*              (web/authenticated-public-write.mjs)                        *)
(*   wallet     the signature of a wallet that is itself reached over       *)
(*              relays (web/nip46-messaging-device-signer-v1.mjs): one      *)
(*              request, against a timer and the caller's abort signal      *)
(*                                                                         *)
(* The relay and the extension answer late, twice, wrongly or never.        *)
(***************************************************************************)
EXTENDS Naturals, Sequences, FiniteSets, Functions

CONSTANT EventLimit   \* limit, maxEvents: the events a read may return

ASSUME LimitAssumption == EventLimit \in Nat \ {0}

Jobs == {"transport", "read", "publish", "wallet"}

\* Nostr events: who signed them (the subject or somebody else), their id and age.
Events == [id : {1, 2}, created_at : {1, 2}, pubkey : {"subject", "other"}]

VARIABLES
  job,      \* the exchange
  at,       \* idle, provider-key, provider-sign, wallet, connecting, open, done
  timers,   \* what is armed: the timers provider, open, read, acknowledge; the listener abort
  socket,   \* none, connecting, open, closed
  events,   \* the events received
  receipt,  \* the outcome: pending, value, failed
  relay     \* [requested, stored, eose]: what the relay was sent and has done

relayVars == <<job, at, timers, socket, events, receipt, relay>>

Open == at \in {"connecting", "open"}

\* finish(error), cleanup: timers, listeners and the socket go.
Finish(outcome) ==
  /\ at' = "done" /\ receipt' = outcome
  /\ timers' = {} /\ socket' = IF socket = "none" THEN "none" ELSE "closed"
  /\ UNCHANGED job

\* The caller asks for a signature first, or for a socket and its timers.
Start ==
  /\ at = "idle"
  /\ CASE job = "publish" -> at' = "provider-key" /\ timers' = {"provider"} /\ UNCHANGED socket
       [] job = "wallet"  -> at' = "wallet" /\ timers' = {"provider", "abort"} /\ UNCHANGED socket
       [] OTHER -> at' = "connecting" /\ timers' = {"open", "read"} /\ socket' = "connecting"
  /\ UNCHANGED <<job, events, receipt, relay>>

-----------------------------------------------------------------------------
(* The extension: callProvider races each call against a timer.            *)

\* getPublicKey: another key than the subject's ends the publication.
ProviderKey(key) ==
  /\ at = "provider-key"
  /\ IF key = "subject"
     THEN /\ at' = "provider-sign" /\ timers' = {"provider"}
          /\ UNCHANGED <<job, socket, receipt>>
     ELSE Finish("failed")
  /\ UNCHANGED <<events, relay>>

\* signEvent: the verified event must be the one asked for; the socket is made.
ProviderSigns(exact) ==
  /\ at = "provider-sign"
  /\ IF exact
     THEN /\ at' = "connecting" /\ timers' = {"open"} /\ socket' = "connecting"
          /\ UNCHANGED <<job, receipt>>
     ELSE Finish("failed")
  /\ UNCHANGED <<events, relay>>

\* signEventForSubject, which a signer does once: the wallet signs or refuses.
WalletAnswers(signed) ==
  /\ at = "wallet"
  /\ Finish(IF signed THEN "value" ELSE "failed")
  /\ UNCHANGED <<events, relay>>

\* The caller cancels, or the request cannot be made.
WalletCancelled ==
  /\ at = "wallet"
  /\ Finish("failed")
  /\ UNCHANGED <<events, relay>>

-----------------------------------------------------------------------------
(* The relay.                                                              *)

\* Fault: after a failed send the acknowledgement timer is armed.
OnOpenUnfinished(sent) ==
  /\ at = "connecting"
  /\ IF sent
     THEN /\ at' = "open" /\ socket' = "open"
          /\ relay' = [relay EXCEPT !.requested = TRUE]
          /\ UNCHANGED <<job, receipt>>
     ELSE at' = "done" /\ receipt' = "failed" /\ socket' = "closed" /\ UNCHANGED <<job, relay>>
  /\ timers' = (timers \ {"open"}) \cup (IF job = "publish" THEN {"acknowledge"} ELSE {})
  /\ UNCHANGED events

\* onOpen: the request or the event is sent; a send may throw.
OnOpen(sent) ==
  /\ at = "connecting"
  /\ IF sent
     THEN /\ at' = "open" /\ socket' = "open"
          /\ timers' = (timers \ {"open"}) \cup (IF job = "publish" THEN {"acknowledge"} ELSE {})
          /\ relay' = [relay EXCEPT !.requested = TRUE]
          /\ UNCHANGED <<job, receipt>>
     ELSE Finish("failed") /\ UNCHANGED relay
  /\ UNCHANGED events

\* error, close, a second open, a frame before the request, a frame that is too
\* long, malformed, of another subscription or event, a NOTICE.
OnFailure ==
  /\ Open
  /\ Finish("failed")
  /\ UNCHANGED <<events, relay>>

\* An EVENT frame of this subscription; the read ends at its limit.
OnEvent(event) ==
  /\ at = "open" /\ job # "publish" /\ ~relay.eose
  /\ events' = Append(events, event)
  /\ IF Len(events) + 1 >= EventLimit THEN Finish("value")
     ELSE UNCHANGED <<job, at, timers, socket, receipt>>
  /\ UNCHANGED relay

\* The EOSE frame of this subscription.
OnEose ==
  /\ at = "open" /\ job # "publish"
  /\ relay' = [relay EXCEPT !.eose = TRUE]
  /\ Finish("value")
  /\ UNCHANGED events

\* An OK frame: only the one of this very event decides.
OnOk(own, accepted) ==
  /\ at = "open" /\ job = "publish"
  /\ Finish(IF own /\ accepted THEN "value" ELSE "failed")
  /\ UNCHANGED <<events, relay>>

\* A timer fires; a wallet's or a provider's answer that comes later is dropped.
TimerFires ==
  /\ timers # {}
  /\ Finish("failed")
  /\ UNCHANGED <<events, relay>>

\* The relay stores an event it was sent, whether or not its OK arrives.
RelayStores ==
  /\ job = "publish" /\ relay.requested /\ ~relay.stored
  /\ relay' = [relay EXCEPT !.stored = TRUE]
  /\ UNCHANGED <<job, at, timers, socket, events, receipt>>

-----------------------------------------------------------------------------
(* What a read makes of its events.                                        *)

\* verifyExactEvents: one event of somebody else refuses them all.
Verified == \A i \in DOMAIN events : events[i].pubkey = "subject"

\* The order of both lists: the newest first, then by id.
Before(left, right) ==
  \/ left.created_at > right.created_at
  \/ left.created_at = right.created_at /\ left.id < right.id

\* sort: the members of a set, each once, in that order.
Listed(set) ==
  CHOOSE list \in [1..Cardinality(set) -> set] :
    /\ Range(list) = set
    /\ \A i, j \in DOMAIN list : i < j => Before(list[i], list[j])

\* loadNotes: a Map keeps the last event of each id.
Last(id) == CHOOSE i \in DOMAIN events :
  events[i].id = id /\ \A j \in DOMAIN events : events[j].id = id => j <= i

Notes == Listed({events[Last(event.id)] : event \in Range(events)})

\* loadProfile: the newest event, or none.
Profile == IF events = <<>> THEN <<>> ELSE <<Listed(Range(events))[1]>>

-----------------------------------------------------------------------------
RelayInit ==
  /\ job \in Jobs
  /\ at = "idle" /\ timers = {} /\ socket = "none"
  /\ events = <<>> /\ receipt = "pending"
  /\ relay = [requested |-> FALSE, stored |-> FALSE, eose |-> FALSE]

RelayNext ==
  \/ Start
  \/ \E key \in {"subject", "other"} : ProviderKey(key)
  \/ \E exact \in BOOLEAN : ProviderSigns(exact) \/ WalletAnswers(exact)
  \/ WalletCancelled
  \/ \E sent \in BOOLEAN : OnOpen(sent)
  \/ OnFailure \/ OnEose \/ TimerFires \/ RelayStores
  \/ \E event \in Events : OnEvent(event)
  \/ \E own, accepted \in BOOLEAN :
        /\ own /\ accepted => relay.stored
        /\ OnOk(own, accepted)

\* An armed timer fires.
RelayFairness == WF_relayVars(TimerFires)

RelaySpec == RelayInit /\ [][RelayNext]_relayVars /\ RelayFairness

-----------------------------------------------------------------------------
(* Properties.                                                             *)

\* A publication is reported only when this relay has stored this event, and a
\* read only at its end or its limit, never cut short; what it shows are then
\* the subject's own notes, each once, the newest first.
ReceiptIsTrue ==
  receipt = "value" =>
    /\ job = "publish" => relay.stored
    /\ job \in {"transport", "read"} => relay.eose \/ Len(events) = EventLimit
    /\ job = "read" /\ Verified =>
         /\ {Notes[i].id : i \in DOMAIN Notes} = {events[i].id : i \in DOMAIN events}
         /\ \A i, j \in DOMAIN Notes : i < j => Before(Notes[i], Notes[j]) /\ Notes[i].id # Notes[j].id
         /\ \A i \in DOMAIN events : Profile # <<>> /\ ~Before(events[i], Profile[1])

\* When the outcome is known no timer or listener is left and the socket is closed.
NothingLeft == at = "done" => timers = {} /\ socket \in {"none", "closed"}

\* Every read, signature and publication comes to an end.
RelaySettles == at # "idle" ~> at = "done"
=============================================================================
