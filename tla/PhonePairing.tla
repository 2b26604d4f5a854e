----------------------------- MODULE PhonePairing -----------------------------
(***************************************************************************)
(* A phone is paired with a desktop session: the phone makes a device key   *)
(* and a source (a proposal bound to the pairing), the user compares codes, *)
(* the desktop's wallet signs once, and UBID accepts.  Two phones may scan  *)
(* one locator; every call may be lost, answered late or carried out after  *)
(* the caller has given up; any page may be reloaded.                       *)
(*                                                                         *)
(* social-mobile-browser-v1 holds both controllers and the retry store,     *)
(* mobile-device-authorization-seams-v1 the key and the approval; UBID is   *)
(* modelled from the answers the controllers and the protocol accept.       *)
(***************************************************************************)
EXTENDS Naturals, FiniteSets

CONSTANTS
  Phones,
  MaxKeysPerPhone,   \* bounds the keys a phone makes
  MaxCalls           \* bounds the calls that are given up while UBID may still carry them out

ASSUME PairingBounds == MaxKeysPerPhone \in Nat \ {0} /\ MaxCalls \in Nat

VARIABLES
  phone,     \* phone -> its controller and its IndexedDB
  desktop,   \* the controller of the desktop page
  retries,   \* the public retry store: the source whose signed event it holds
  pairing,   \* what UBID knows: status and source
  late,      \* requests that were given up but may still be carried out
  human      \* [typed, prompts]: the code that was typed, how often the wallet asked

pairVars == <<phone, desktop, retries, pairing, late, human>>

\* A source is known by the key it proposes; its comparison code by the source.
NoKey == [phone |-> "none", n |-> 0]

\* The final ones; rejected is as cancelled and abandoned as expired.
Terminal == {"cancelled", "expired"}

\* A call: what is asked, for which source, and its answer once there is one.
NoCall == [kind |-> "none", source |-> NoKey, answer |-> "none"]
Ask(kind, source) == [kind |-> kind, source |-> source, answer |-> "waiting"]

\* pending of createPhoneMobileController: the proofs exist from the offer on
\* (verifier and deliveryKey are named by the key that they go with).
NoPending == [offer |-> FALSE, keyIdentity |-> NoKey, source |-> NoKey, proofLoss |-> FALSE]

PhoneStart == [op |-> "idle", call |-> NoCall, pending |-> NoPending, shown |-> NoKey]

Page(p) == phone[p].page
Become(p, page) == phone' = [phone EXCEPT ![p].page = page]

\* The finally of run(): whatever fails, the operation is over and pending stays.
Over(p) == Become(p, [Page(p) EXCEPT !.op = "idle", !.call = NoCall])

Answered(p, op) == Page(p).op = op /\ Page(p).call.answer \notin {"none", "waiting"}
Good(p) == Page(p).call.answer # "refused"

rest == <<desktop, retries, pairing, late, human>>

\* A caller that does not wait any more: UBID may have carried the call out, or
\* may still do so.
Lost(call) ==
  late' = IF call.answer = "waiting" /\ call.kind \notin {"qrOffer", "qrSnapshot", "phoneRecover"} /\
             Cardinality(late) < MaxCalls
          THEN late \cup {call} ELSE late

-----------------------------------------------------------------------------
(* The phone.                                                              *)

\* run: one operation at a time, none after logout().
Run(p, op, call) ==
  /\ Page(p).op = "idle"
  /\ Become(p, [Page(p) EXCEPT !.op = op, !.call = call])
  /\ UNCHANGED rest

ScanBegin(p) ==
  /\ ~Page(p).pending.proofLoss
  /\ CASE ~Page(p).pending.offer -> Run(p, "offer", Ask("qrOffer", NoKey))
       [] Page(p).pending.offer /\ Page(p).pending.source = NoKey -> Run(p, "key", NoCall)
       [] OTHER -> Run(p, "scan", Ask("qrScan", Page(p).pending.source))

\* The offer: the verifier and the delivery key are made before anything can be
\* issued for them.
Offered(p) ==
  /\ Answered(p, "offer")
  /\ IF Good(p)
     THEN Become(p, [Page(p) EXCEPT !.op = "key", !.call = NoCall, !.pending.offer = TRUE])
     ELSE Over(p)
  /\ UNCHANGED rest

\* store.read: only this controller's own interrupted prepare is resumed; a key
\* found after a reload has lost its proofs.
FindKey(p) ==
  /\ Page(p).op = "key"
  /\ LET found == phone[p].disk  mine == Page(p).pending.keyIdentity IN
       CASE found # NoKey /\ mine = NoKey ->
              Become(p, [Page(p) EXCEPT !.op = "idle", !.pending.proofLoss = TRUE])
         [] found = NoKey /\ mine # NoKey -> Over(p)
         [] found = NoKey /\ mine = NoKey -> Become(p, [Page(p) EXCEPT !.op = "create"])
         [] OTHER -> IF found = mine THEN Become(p, [Page(p) EXCEPT !.op = "source"]) ELSE Over(p)
  /\ UNCHANGED rest

\* preparePhoneMessagingDevice: the identity is noted, then the key is added and
\* read back.  The add may fail, or succeed without the page hearing of it.
CreateKey(p) ==
  /\ Page(p).op = "create"
  /\ phone[p].made < MaxKeysPerPhone
  /\ LET key == [phone |-> p, n |-> phone[p].made + 1] IN
     \E saved \in BOOLEAN, heard \in BOOLEAN :
       phone' = [phone EXCEPT ![p].made = @ + 1,
                              ![p].disk = IF saved THEN key ELSE @,
                              ![p].page = [@ EXCEPT !.pending.keyIdentity = key,
                                                    !.op = IF saved /\ heard THEN "source" ELSE "idle"]]
  /\ UNCHANGED rest

\* The source is built for the key and the pairing, and sent.
MakeSource(p) ==
  /\ Page(p).op = "source"
  /\ LET key == Page(p).pending.keyIdentity IN
       Become(p, [Page(p) EXCEPT !.op = "scan", !.pending.source = key, !.call = Ask("qrScan", key)])
  /\ UNCHANGED rest

\* The comparison code is shown.
Scanned(p) ==
  /\ Answered(p, "scan")
  /\ IF Good(p)
     THEN Become(p, [Page(p) EXCEPT !.op = "idle", !.call = NoCall, !.shown = Page(p).pending.source])
     ELSE Over(p)
  /\ UNCHANGED rest

HasSource(p) == Page(p).pending.source # NoKey

\* status, recover and complete ask UBID and change nothing here; what they ask
\* to be issued is the business of the BFF.
CleanupBegin(p) == HasSource(p) /\ Run(p, "cleanup", Ask("phoneRecover", Page(p).pending.source))

\* cleanupCancelled: only after UBID has said of this very source that it is
\* cancelled or rejected; the deletion compares the record.
Cleanup(p) ==
  /\ Answered(p, "cleanup")
  /\ IF Good(p) /\ Page(p).call.answer = "cancelled" /\ phone[p].disk = Page(p).pending.source
     THEN phone' = [phone EXCEPT ![p].disk = NoKey,
                                 ![p].page = [PhoneStart EXCEPT !.shown = Page(p).shown]]
     ELSE Over(p)
  /\ UNCHANGED rest

\* A reload, or logout: nothing is run any more and an answer under way is
\* dropped.
PhoneReload(p) ==
  /\ Page(p) # PhoneStart
  /\ Become(p, PhoneStart)
  /\ Lost(Page(p).call)
  /\ UNCHANGED <<desktop, retries, pairing, human>>

-----------------------------------------------------------------------------
(* The desktop.                                                            *)

DesktopStart == [step |-> "idle", created |-> FALSE, parsed |-> NoKey, approval |-> "none",
                 retry |-> NoKey, call |-> NoCall, cancelled |-> FALSE]

Desk(update) == desktop' = update
DeskAnswered(step) == desktop.step = step /\ desktop.call.answer \notin {"none", "waiting"}
DeskOver == Desk([desktop EXCEPT !.step = "idle", !.call = NoCall,
                                 !.approval = IF @ = "running" THEN "over" ELSE @])
others == <<phone, retries, pairing, late, human>>

CreatePairing ==
  /\ desktop.step = "idle" /\ ~desktop.created
  /\ Desk([desktop EXCEPT !.step = "create", !.call = Ask("qrCreate", NoKey)])
  /\ UNCHANGED others

PairingCreated ==
  /\ DeskAnswered("create")
  /\ Desk([desktop EXCEPT !.step = "idle", !.call = NoCall, !.created = (desktop.call.answer # "refused")])
  /\ UNCHANGED others

\* inspect: the source UBID holds, of the desktop's own subject and pairing.  A
\* source is never replaced: an inspection during an approval finds the same and
\* is left out.
Inspect ==
  /\ desktop.step = "idle" /\ desktop.created
  /\ \E then \in {"inspect", "retry"} :
       Desk([desktop EXCEPT !.step = then, !.call = Ask("qrSnapshot", NoKey)])
  /\ UNCHANGED others

Inspected ==
  /\ DeskAnswered("inspect")
  /\ IF desktop.call.answer = "refused" THEN DeskOver
     ELSE Desk([desktop EXCEPT !.step = "idle", !.parsed = desktop.call.source, !.call = NoCall])
  /\ UNCHANGED others

\* NoKey stands for a code that is no source's: of another pairing, or mistyped.
Codes == {Page(p).shown : p \in Phones} \cup {NoKey}

\* Fault: the code is not compared with the source.
ApproveUncompared ==
  /\ desktop.step = "idle" /\ desktop.parsed # NoKey /\ desktop.approval = "none"
  /\ \E code \in Codes :
       /\ human' = [human EXCEPT !.typed = code]
       /\ Desk([desktop EXCEPT !.step = "claim", !.approval = "running", !.call = Ask("qrClaim", desktop.parsed)])
  /\ UNCHANGED <<phone, retries, pairing, late>>

\* approve, once per controller: the user types the code a phone shows, or
\* another one.
Approve ==
  /\ desktop.step = "idle" /\ desktop.parsed # NoKey /\ desktop.approval = "none"
  /\ \E code \in Codes :
       /\ human' = [human EXCEPT !.typed = code]
       /\ Desk(IF code = desktop.parsed
               THEN [desktop EXCEPT !.step = "claim", !.approval = "running",
                                    !.call = Ask("qrClaim", desktop.parsed)]
               ELSE [desktop EXCEPT !.approval = "over"])
  /\ UNCHANGED <<phone, retries, pairing, late>>

\* claimApproval, and only then the wallet.
ApprovalClaimed ==
  /\ DeskAnswered("claim")
  /\ IF desktop.call.answer = "refused" \/ desktop.cancelled
     THEN DeskOver /\ UNCHANGED human
     ELSE /\ Desk([desktop EXCEPT !.step = "signing", !.call = NoCall])
          /\ human' = [human EXCEPT !.prompts = @ + 1]
  /\ UNCHANGED <<phone, retries, pairing, late>>

SignatureRefused == desktop.step = "signing" /\ DeskOver /\ UNCHANGED others

\* Fault: the acceptance is sent before the signed event is durable.
AcceptFirst ==
  /\ desktop.step = "signing"
  /\ Desk([desktop EXCEPT !.step = "accept", !.retry = desktop.parsed,
                          !.call = Ask("qrAccept", desktop.parsed)])
  /\ UNCHANGED others

\* The signed event is verified and saved, an absent or equal entry only; then
\* UBID is asked to accept it.
Signed ==
  /\ desktop.step = "signing"
  /\ IF desktop.cancelled \/ retries \notin {NoKey, desktop.parsed}
     THEN DeskOver /\ UNCHANGED retries
     ELSE /\ retries' = desktop.parsed
          /\ Desk([desktop EXCEPT !.step = "accept", !.retry = desktop.parsed,
                                  !.call = Ask("qrAccept", desktop.parsed)])
  /\ UNCHANGED <<phone, pairing, late, human>>

AcceptAnswered == DeskAnswered("accept") /\ DeskOver /\ UNCHANGED others

\* retryAcceptance: the saved event again, if the snapshot is still its source.
RetryAccept ==
  /\ DeskAnswered("retry")
  /\ LET source == desktop.call.source
         saved == IF desktop.retry # NoKey THEN desktop.retry ELSE retries IN
       IF desktop.call.answer = "refused" \/ saved = NoKey \/ saved # source THEN DeskOver
       ELSE Desk([desktop EXCEPT !.step = "accept", !.parsed = source, !.retry = saved,
                                 !.call = Ask("qrAccept", saved)])
  /\ UNCHANGED others

\* close (as cancelled, rejected or abandoned): also while an approval runs, which then ends at its next check.
Close ==
  /\ desktop.created /\ desktop.step # "close"
  /\ Lost(desktop.call)
  /\ Desk([desktop EXCEPT !.step = "close", !.cancelled = TRUE,
                          !.approval = IF @ = "none" THEN @ ELSE "over",
                          !.call = Ask("qrClose", NoKey)])
  /\ UNCHANGED <<phone, retries, pairing, human>>

Closed == DeskAnswered("close") /\ DeskOver /\ UNCHANGED others

\* creation, snapshot and approval are gone; the saved event is not.
DesktopReload ==
  /\ desktop # DesktopStart
  /\ Desk(DesktopStart)
  /\ Lost(desktop.call)
  /\ UNCHANGED <<phone, retries, pairing, human>>

-----------------------------------------------------------------------------
(* UBID and the network.                                                   *)

Same(call) == pairing.source = call.source

\* What UBID does with a request and answers.  A terminal status is final.
Effect(call) ==
  CASE call.kind = "qrCreate" -> IF pairing.status = "none" THEN [pairing EXCEPT !.status = "created"] ELSE pairing
    [] call.kind = "qrScan" /\ pairing.status = "created" ->
         [pairing EXCEPT !.status = "awaiting-approval", !.source = call.source]
    [] call.kind = "qrClaim" /\ pairing.status = "awaiting-approval" /\ Same(call) ->
         [pairing EXCEPT !.status = "approval-claimed"]
    [] call.kind = "qrAccept" /\ pairing.status = "approval-claimed" /\ Same(call) ->
         [pairing EXCEPT !.status = "accepted"]
    [] call.kind = "qrClose" /\ pairing.status \in {"created", "awaiting-approval", "approval-claimed"} ->
         [pairing EXCEPT !.status = "cancelled"]
    [] OTHER -> pairing

Reply(call) ==
  CASE call.kind = "qrCreate" -> IF pairing.status = "none" THEN "ok" ELSE "refused"
    [] call.kind = "qrOffer" -> IF pairing.status = "created" THEN "ok" ELSE "refused"
    [] call.kind = "qrSnapshot" -> IF pairing.source = NoKey THEN "refused" ELSE "ok"
    [] call.kind = "qrScan" ->
         IF pairing.status = "created" \/ (Same(call) /\ pairing.status \notin Terminal) THEN "ok" ELSE "refused"
    [] call.kind = "qrClaim" -> IF Effect(call) # pairing THEN "ok" ELSE "refused"
    [] call.kind = "qrAccept" -> IF Effect(call).status = "accepted" /\ Same(call) THEN "ok" ELSE "refused"
    [] call.kind = "phoneRecover" -> IF Same(call) THEN pairing.status ELSE "refused"
    [] OTHER -> IF Effect(call) # pairing THEN "ok" ELSE "refused"

\* The snapshot's source travels back with its answer.
WithReply(call) ==
  [call EXCEPT !.answer = Reply(call), !.source = IF call.kind = "qrSnapshot" THEN pairing.source ELSE @]

ServePhone(p) ==
  /\ Page(p).call.answer = "waiting"
  /\ pairing' = Effect(Page(p).call)
  /\ Become(p, [Page(p) EXCEPT !.call = WithReply(@)])
  /\ UNCHANGED <<desktop, retries, late, human>>

ServeDesktop ==
  /\ desktop.call.answer = "waiting"
  /\ pairing' = Effect(desktop.call)
  /\ Desk([desktop EXCEPT !.call = WithReply(desktop.call)])
  /\ UNCHANGED <<phone, retries, late, human>>

\* A call that was given up is carried out after all.
ServeLate(call) ==
  /\ late' = late \ {call}
  /\ pairing' = Effect(call)
  /\ UNCHANGED <<phone, desktop, retries, human>>

\* After five seconds a call is aborted.
LosePhone(p) ==
  /\ Page(p).call # NoCall
  /\ Over(p) /\ Lost(Page(p).call)
  /\ UNCHANGED <<desktop, retries, pairing, human>>

LoseDesktop ==
  /\ desktop.call # NoCall
  /\ DeskOver /\ Lost(desktop.call)
  /\ UNCHANGED <<phone, retries, pairing, human>>

\* Five minutes after its creation.
ExpirePairing ==
  /\ pairing.status \in {"created", "awaiting-approval", "approval-claimed"}
  /\ pairing' = [pairing EXCEPT !.status = "expired"]
  /\ UNCHANGED <<phone, desktop, retries, late, human>>

-----------------------------------------------------------------------------
PairInit ==
  /\ phone = [p \in Phones |-> [page |-> PhoneStart, disk |-> NoKey, made |-> 0]]
  /\ desktop = DesktopStart
  /\ retries = NoKey
  /\ pairing = [status |-> "none", source |-> NoKey]
  /\ late = {}
  /\ human = [typed |-> NoKey, prompts |-> 0]

PhoneNext(p) ==
  \/ ScanBegin(p) \/ Offered(p) \/ FindKey(p) \/ CreateKey(p) \/ MakeSource(p) \/ Scanned(p)
  \/ CleanupBegin(p) \/ Cleanup(p)
  \/ PhoneReload(p) \/ ServePhone(p) \/ LosePhone(p)

DesktopNext ==
  \/ CreatePairing \/ PairingCreated \/ Inspect \/ Inspected
  \/ Approve \/ ApprovalClaimed \/ SignatureRefused \/ Signed \/ AcceptAnswered \/ RetryAccept
  \/ Close \/ Closed \/ DesktopReload \/ ServeDesktop \/ LoseDesktop

PairNext ==
  \/ \E p \in Phones : PhoneNext(p)
  \/ DesktopNext
  \/ \E call \in late : ServeLate(call)
  \/ ExpirePairing

PairSpec == PairInit /\ [][PairNext]_pairVars

-----------------------------------------------------------------------------
(* Properties.                                                             *)

\* UBID accepts only the source whose code the user has compared, whichever
\* phone was first to scan the locator.
AcceptedIsCompared == pairing.status = "accepted" => human.typed = pairing.source

\* The wallet signs at most once for a pairing.
SignedOnce == human.prompts <= 1

\* An accepted pairing left its signed event in the retry store before UBID
\* could hear of it, and the phone still has the key it was accepted for.
AcceptedIsKept ==
  pairing.status = "accepted" =>
    /\ retries = pairing.source
    /\ phone[pairing.source.phone].disk = pairing.source
=============================================================================
