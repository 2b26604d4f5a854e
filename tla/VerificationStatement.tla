------------------------- MODULE VerificationStatement -------------------------
(***************************************************************************)
(* The two producers of verification statements.  A bundle of papers is    *)
(* collected that may hold, in up to MaxLies places, what another device's *)
(* papers say, a window that does not fit, or a text that is not           *)
(* canonical; every later paper is built on the ones before it, as they    *)
(* are.  The producer verifies the bundle at one instant, waits for its    *)
(* signer, and the statement is good until it expires.                     *)
(***************************************************************************)
EXTENDS RequestDocuments

CONSTANTS
    MaxLies,      \* how many places of a bundle may be wrong
    Horizon,      \* the last instant of the clock
    LegacyLife,   \* the longest life of a statement (10 s) ...
    NativeLife    \* ... and with the native freshness profile (60 s)

\* Lives and instants are counted in whole units.
ASSUME StatementAssumption ==
    /\ MaxLies \in Nat /\ Horizon \in Nat /\ ChallengeLife \in Nat
    /\ LegacyLife \in Nat /\ NativeLife \in Nat

VARIABLES
    kind,      \* which papers are collected
    lies,      \* the places where a paper says something else
    clock,     \* 0 while the papers are collected
    statement  \* the statement asked for, or NoStatement

vars == <<kind, lies, clock, statement>>

Kinds == {"preaccepted", "enrollment", "submit", "self-read"}
NoStatement == [issuedAt |-> 0, expiresAt |-> 0, signed |-> FALSE]

-----------------------------------------------------------------------------
(* The papers.                                                             *)

\* What a paper says: its own values but for the lies told in it.
Says(name, paper) ==
    [f \in DOMAIN paper |->
        LET here == {lie \in lies : lie.paper = name /\ lie.field = f}
        IN  IF here = {} THEN paper[f] ELSE (CHOOSE lie \in here : TRUE).value]

\* The device and its person; every value is different from every other.
Subject == 11
X25519 == 12
Ed25519 == 13
Device == 14
Request == 15
Pairing == 16
Audience == 17
ChallengeId == 18
Session == 19

IssuedClaim ==
    [form |-> "canonical", operation |-> "register", subject |-> Subject,
     deviceId |-> Device, publicKey |-> X25519, requestId |-> Request,
     issuedAt |-> 2, expiresAt |-> 6, bindingValidFrom |-> 2,
     bindingExpiresAt |-> 8]

Context(about, challengeId, associationId, challengeKind) ==
    [form |-> "canonical", challengeKind |-> challengeKind,
     challengeId |-> challengeId, audience |-> about.audience,
     subject |-> about.subject, deviceId |-> about.deviceId,
     bindingId |-> about.x25519BindingId, commitment |-> about.commitment,
     ed25519PublicKey |-> about.ed25519PublicKey,
     associationId |-> associationId, associationVersion |-> 1,
     predecessorAssociationId |-> Null, authorityEpoch |-> 1,
     sessionBinding |-> Session,
     approver |-> IF challengeKind = "enrollment-v2" THEN 1 ELSE Null]

PreacceptedPapers ==
    LET claim == Says("claim", IssuedClaim)
        pairing == Says("pairing", [pairingId |-> Pairing, createdAt |-> 1,
                                    expiresAt |-> 6])
        pre == Says("pre", BoundPreEnrollment(claim, Ed25519,
                                              pairing.pairingId, 7))
        authorization ==
            Says("authorization", AuthorizationEnvelope(claim, pairing, pre))
        unsigned == Says("unsigned", ApprovalUnsignedEvent(authorization))
        event == Says("event", SignedEvent(unsigned, unsigned.pubkey))
        enrollment ==
            Says("enrollment", Enrollment(pre, Audience, ChallengeId, 3, 5))
        proof == Says("proof", EnrollmentProof(enrollment))
        context == Says("context",
                        Context(enrollment, enrollment.enrollmentChallengeId,
                                AssociationId(enrollment), "enrollment-v2"))
    IN  Says("input", [form |-> "canonical", acceptanceId |-> AcceptanceId(event),
                       event |-> event, context |-> context,
                       enrollment |-> enrollment, proof |-> proof])

\* What the caller gives beside the papers: the context again, the issuers,
\* and the ends of both sessions, of the full entitlement and of the binding.
Call(context) ==
    Says("call", [context |-> context, issuer |-> Audience,
                  signerIssuer |-> Audience, phone |-> 6, approver |-> 6,
                  full |-> 7, binding |-> 8])

BoundId == Digest("binding", [deviceId |-> Device])

\* An enrollment without a pre-enrollment: the device is already bound.
BoundDevice ==
    [audience |-> Audience, deviceId |-> Device, ed25519PublicKey |-> Ed25519,
     subject |-> Subject, x25519BindingId |-> BoundId,
     commitment |-> Commitment(X25519)]

EnrollmentPapers ==
    LET enrollment == Says("enrollment",
                           Enrollment(BoundDevice, Audience, ChallengeId, 3, 5))
        unsigned == Says("unsigned", EnrollmentApproval(enrollment))
        event == Says("event", SignedEvent(unsigned, unsigned.pubkey))
        proof == Says("proof", EnrollmentProof(enrollment))
        context == Says("context",
                        Context(enrollment, enrollment.enrollmentChallengeId,
                                AssociationId(enrollment), "enrollment-v2"))
    IN  Says("input", [form |-> "canonical", context |-> context,
                       challenge |-> enrollment, proof |-> proof,
                       approvalEvent |-> <<event>>, actualRequest |-> <<>>,
                       routingRequest |-> <<>>])

RequestPapers ==
    LET operation == IF kind = "submit" THEN "ciphertext-submit"
                     ELSE "recipient-self-read"
        body == IF kind = "submit"
                THEN Says("envelope",
                          [form |-> "canonical", messageId |-> 1,
                           snapshotId |-> 1, recipientDeviceHandles |-> <<1, 2>>,
                           keyWraps |-> <<1, 2>>])
                ELSE Says("body", [form |-> "canonical", deviceHandle |-> 1])
        request == Says("request",
                        DeviceRequest([audience |-> Audience, subject |-> Subject,
                                       deviceId |-> Device,
                                       bindingId |-> BoundId,
                                       sessionBinding |-> Session],
                                      operation, body))
        challenge == Says("challenge",
                          DeviceChallenge(request, ChallengeId, 3, 5))
        proof == Says("proof", DeviceProof(challenge, Ed25519))
        context == Says("context",
                        Context(BoundDevice, challenge.challengeId,
                                Digest("association", [deviceId |-> Device]),
                                "device-request-v1"))
        actual == Says("actual", request)
        routing == IF kind = "submit"
                   THEN <<Says("routing", RoutingRequest(body))>> ELSE <<>>
    IN  [body |-> body,
         input |-> Says("input",
                        [form |-> "canonical", context |-> context,
                         challenge |-> challenge, proof |-> proof,
                         approvalEvent |-> <<>>, actualRequest |-> <<actual>>,
                         routingRequest |-> routing])]

Input ==
    CASE kind = "preaccepted" -> PreacceptedPapers
      [] kind = "enrollment" -> EnrollmentPapers
      [] OTHER -> RequestPapers.input

-----------------------------------------------------------------------------
(* The lies: every place of every paper, and what may stand there instead. *)

Another == 99
AnotherDigest == Digest("another", [form |-> "none"])

Lie(paper, fields, values) ==
    {[paper |-> paper, field |-> f, value |-> v] : f \in fields, v \in values}

Loose(papers) == UNION {Lie(p, {"form"}, {"loose"}) : p \in papers}
Times(paper, fields) == Lie(paper, fields, 0 .. Horizon)
KeyLies(paper, field) == Lie(paper, {field}, {Another, Subject, X25519, Ed25519})

EventLies ==
    Loose({"event"})
    \cup Lie("unsigned", {"pubkey"}, {Another})
    \cup Lie("event", {"id", "signed"}, {AnotherDigest})
    \cup Lie("event", {"signedBy"}, {Another})

ContextLies ==
    Loose({"context", "input"})
    \cup Lie("context", {"challengeKind"}, {"enrollment-v2", "device-request-v1"})
    \cup Lie("context", {"challengeId", "audience", "subject", "deviceId",
                         "ed25519PublicKey", "predecessorAssociationId"}, {Another})
    \cup Lie("context", {"bindingId", "commitment", "associationId"},
             {AnotherDigest})
    \cup Lie("context", {"associationVersion", "authorityEpoch"}, {2})
    \cup Lie("context", {"approver"}, {Null, 1})
    \cup Lie("call", {"context"}, {AnotherDigest})
    \cup Lie("call", {"issuer", "signerIssuer"}, {Another})

EnrollmentLies ==
    Loose({"enrollment", "proof"})
    \cup Lie("enrollment", {"audience", "deviceId", "enrollmentChallengeId",
                            "subject"}, {Another})
    \cup KeyLies("enrollment", "ed25519PublicKey")
    \cup Lie("enrollment", {"x25519BindingId", "commitment"}, {AnotherDigest})
    \cup Times("enrollment", {"issuedAt", "expiresAt"})
    \cup Lie("proof", {"enrollmentChallengeId", "publicKey", "signedBy"},
             {Another})
    \cup Lie("proof", {"enrollmentDigest", "signed"}, {AnotherDigest})

PreacceptedLies ==
    Loose({"claim", "pre", "authorization"})
    \cup Lie("claim", {"operation"}, {"rotate"})
    \cup Lie("claim", {"subject", "deviceId", "requestId"}, {Another})
    \cup KeyLies("claim", "publicKey") \cup KeyLies("pre", "ed25519PublicKey")
    \cup Times("claim", {"issuedAt", "expiresAt", "bindingValidFrom",
                         "bindingExpiresAt"})
    \cup Lie("pairing", {"pairingId"}, {Another})
    \cup Times("pairing", {"createdAt", "expiresAt"})
    \cup Lie("pre", {"transition"}, {"successor"})
    \cup Lie("pre", {"deviceId", "pairingId", "requestId", "subject"}, {Another})
    \cup Lie("pre", {"bindingAuthorizationDigest", "x25519BindingId",
                     "commitment"}, {AnotherDigest})
    \cup Times("pre", {"issuedAt", "expiresAt"})
    \cup Lie("unsigned", {"authorizationDigest", "preEnrollmentDigest"},
             {AnotherDigest})
    \cup Lie("unsigned", {"requestId", "pairingId", "createdAt"}, {Another})
    \cup Lie("unsigned", {"action"}, {"rotate"})
    \cup Lie("input", {"acceptanceId"}, {AnotherDigest})
    \cup Times("call", {"phone", "approver", "full", "binding"})

BoundEnrollmentLies ==
    Lie("unsigned", {"challengeId", "deviceId", "createdAt"}, {Another})
    \cup Lie("unsigned", {"enrollmentDigest"}, {AnotherDigest})
    \cup Lie("input", {"approvalEvent"}, {<<>>})

RequestLies ==
    Loose({"body", "envelope", "request", "actual", "challenge", "proof",
           "routing"})
    \cup Lie("envelope", {"recipientDeviceHandles", "keyWraps"},
             {<<>>, <<2>>, <<1, 1>>, <<2, 1>>, <<1, 2, 3>>})
    \cup (UNION {Lie(r, {"audience", "subject", "deviceId", "sessionBinding"},
                     {Another}) : r \in {"request", "actual"}})
    \cup Lie("request", {"path"}, {"elsewhere"})
    \cup Lie("request", {"bindingId"}, {AnotherDigest})
    \cup Lie("actual", {"bindingId", "bodyDigest"}, {AnotherDigest})
    \cup Lie("request", {"recipientHandle"}, {Null, 1})
    \cup Lie("challenge", {"challengeId"}, {Another})
    \cup Times("challenge", {"issuedAt", "expiresAt"})
    \cup Lie("proof", {"challengeId", "publicKey", "signedBy"}, {Another})
    \cup Lie("proof", {"signed"}, {AnotherDigest})
    \cup Lie("routing", {"recipientDeviceHandles"}, {<<>>, <<2>>, <<2, 1>>})
    \cup Lie("input", {"routingRequest", "actualRequest"}, {<<>>})

Lies ==
    [k \in Kinds |->
        CASE k = "preaccepted" ->
                PreacceptedLies \cup EnrollmentLies \cup EventLies \cup ContextLies
          [] k = "enrollment" ->
                BoundEnrollmentLies \cup EnrollmentLies \cup EventLies
                \cup ContextLies
          [] OTHER -> RequestLies \cup ContextLies]

-----------------------------------------------------------------------------
(* The producers.                                                          *)

\* assertConfigured
Configured(call, context) ==
    call.issuer = context.audience /\ call.signerIssuer = call.issuer

TranscriptStarts(input) ==
    LET authorization == input.event.unsigned.content
    IN  {input.enrollment.issuedAt, authorization.preEnrollment.issuedAt,
         authorization.context.createdAt, authorization.content.issuedAt,
         authorization.content.bindingValidFrom}

\* Fault: the end of the person's full entitlement is left out.
TranscriptDeadlinesUnentitled(input, call) ==
    LET authorization == input.event.unsigned.content
    IN  {input.enrollment.expiresAt, authorization.preEnrollment.expiresAt,
         authorization.context.expiresAt, authorization.content.expiresAt,
         authorization.content.bindingExpiresAt,
         call.phone, call.approver, call.binding}

TranscriptDeadlines(input, call) ==
    LET authorization == input.event.unsigned.content
    IN  {input.enrollment.expiresAt, authorization.preEnrollment.expiresAt,
         authorization.context.expiresAt, authorization.content.expiresAt,
         authorization.content.bindingExpiresAt,
         call.phone, call.approver, call.full, call.binding}

\* produceMessagingDevicePreacceptedEnrollmentVerificationStatementV2, up to
\* the signer; `longest' is the limit of the signer's freshness profile.
ProducesV2(input, now, life, longest) ==
    LET call == Call(input.context)
    IN  /\ VerifyPreacceptedEnrollment(input)
        /\ call.context = input.context
        /\ Configured(call, input.context)
        /\ life <= longest
        /\ call.binding = input.event.unsigned.content.content.bindingExpiresAt
        /\ \A start \in TranscriptStarts(input) : start <= now
        /\ \A deadline \in TranscriptDeadlines(input, call) :
              now < deadline /\ now + life <= deadline

\* What the verifier of the kind concludes of the papers at an instant.
VerifiedV1(input, now) ==
    \/ /\ input.context.challengeKind = "enrollment-v2"
       /\ VerifyEnrollmentAuthorization(input.challenge, input.approvalEvent[1],
                                        input.proof, input.context.subject, now)
    \/ /\ input.context.challengeKind = "device-request-v1"
       /\ VerifyDeviceProof(input.challenge, input.actualRequest[1], input.proof,
                            input.context.ed25519PublicKey, now)

\* produceMessagingDeviceVerificationStatementV1, up to the signer
ProducesV1(input, now, life) ==
    LET call == Call(input.context)
    IN  /\ ParseInput(input)
        /\ call.context = input.context
        /\ Configured(call, input.context)
        /\ life <= LegacyLife
        /\ now + life <= input.challenge.expiresAt
        /\ VerifiedV1(input, now)

\* A request and its routing request are made by the server from one body.
Produces(input, now, life, longest) ==
    IF kind = "preaccepted" THEN ProducesV2(input, now, life, longest)
    ELSE /\ kind = "submit" =>
              RequestableBody("ciphertext-submit", RequestPapers.body)
         /\ kind = "self-read" =>
              RequestableBody("recipient-self-read", RequestPapers.body)
         /\ longest = LegacyLife
         /\ ProducesV1(input, now, life)

Lifes == 1 .. NativeLife
Longest == {LegacyLife, NativeLife}

-----------------------------------------------------------------------------
(* Behaviours.                                                             *)

Init ==
    /\ kind \in Kinds
    /\ lies = {}
    /\ clock = 0
    /\ statement = NoStatement

Collect(lie) ==
    /\ clock = 0 /\ Cardinality(lies) < MaxLies
    /\ \A told \in lies : <<told.paper, told.field>> # <<lie.paper, lie.field>>
    /\ lies' = lies \cup {lie}
    /\ UNCHANGED <<kind, clock, statement>>

\* The producer verifies and calls the signer, at an instant of its own.
Produce(now, life, longest) ==
    /\ clock = 0
    /\ Produces(Input, now, life, longest)
    /\ clock' = now
    /\ statement' = [issuedAt |-> now, expiresAt |-> now + life,
                     signed |-> FALSE]
    /\ UNCHANGED <<kind, lies>>

Asked == statement # NoStatement /\ ~statement.signed

SignerAnswers ==
    /\ Asked
    /\ statement' = [statement EXCEPT !.signed = TRUE]
    /\ UNCHANGED <<kind, lies, clock>>

SignerFails ==
    /\ Asked
    /\ statement' = NoStatement
    /\ UNCHANGED <<kind, lies, clock>>

Tick ==
    /\ clock \in 1 .. Horizon - 1
    /\ clock' = clock + 1
    /\ UNCHANGED <<kind, lies, statement>>

Next ==
    \/ \E lie \in Lies[kind] : Collect(lie)
    \/ \E now \in 1 .. Horizon, life \in Lifes, longest \in Longest :
          Produce(now, life, longest)
    \/ SignerAnswers
    \/ SignerFails
    \/ Tick

Spec == Init /\ [][Next]_vars

-----------------------------------------------------------------------------
(* Properties.                                                             *)

Agree(values) == Cardinality(values) = 1
Lasts(from, until, longest) == until - from \in 1 .. longest

\* All the papers are about one enrollment, told paper by paper and not as
\* the verifiers compare them.
OneEnrollment(input) ==
    LET event == input.event
        unsigned == event.unsigned
        authorization == unsigned.content
        claim == authorization.content
        pairing == authorization.context
        pre == authorization.preEnrollment
        enrollment == input.enrollment
        proof == input.proof
        context == input.context
    IN  /\ Agree({"canonical", input.form, event.form, authorization.form,
                  claim.form, pre.form, enrollment.form, proof.form,
                  context.form})
        /\ Agree({claim.subject, pre.subject, unsigned.pubkey, event.signedBy,
                  enrollment.subject, context.subject})
        /\ Agree({claim.deviceId, pre.deviceId, enrollment.deviceId,
                  context.deviceId})
        /\ Agree({pre.ed25519PublicKey, enrollment.ed25519PublicKey,
                  context.ed25519PublicKey, proof.publicKey, proof.signedBy})
        /\ Cardinality({claim.subject, claim.publicKey,
                        pre.ed25519PublicKey}) = 3
        /\ Agree({claim.requestId, pre.requestId, unsigned.requestId})
        /\ Agree({pairing.pairingId, pre.pairingId, unsigned.pairingId})
        /\ Agree({enrollment.enrollmentChallengeId, proof.enrollmentChallengeId,
                  context.challengeId})
        /\ Agree({BindingId(claim), pre.x25519BindingId,
                  enrollment.x25519BindingId, context.bindingId})
        /\ Agree({Commitment(claim.publicKey), pre.commitment,
                  enrollment.commitment, context.commitment})
        /\ Agree({Digest("claim", claim), pre.bindingAuthorizationDigest})
        /\ Agree({Digest("authorization", authorization),
                  unsigned.authorizationDigest})
        /\ Agree({PreEnrollmentDigest(pre), unsigned.preEnrollmentDigest})
        /\ Agree({EventId(unsigned), event.id, event.signed})
        /\ Agree({EnrollmentDigest(enrollment), proof.enrollmentDigest})
        /\ Agree({EnrollmentProofPreimage(enrollment), proof.signed})
        /\ Agree({AssociationId(enrollment), context.associationId})
        /\ Agree({AcceptanceId(event), input.acceptanceId})
        /\ Agree({claim.operation, unsigned.action, "register"})
        /\ Agree({pre.transition, "initial"})
        /\ Agree({context.associationVersion, context.authorityEpoch, 1})
        /\ context.predecessorAssociationId = Null /\ context.approver # Null
        /\ context.challengeKind = "enrollment-v2"
        /\ context.audience = enrollment.audience
        /\ Agree({claim.issuedAt, claim.bindingValidFrom, pre.issuedAt,
                  unsigned.createdAt})
        /\ pairing.createdAt <= claim.issuedAt
        /\ claim.issuedAt <= enrollment.issuedAt
        /\ claim.expiresAt <= pairing.expiresAt
        /\ claim.expiresAt <= claim.bindingExpiresAt
        /\ enrollment.expiresAt <= pre.expiresAt
        /\ pre.expiresAt <= claim.bindingExpiresAt
        /\ Lasts(pairing.createdAt, pairing.expiresAt, PairingLife)
        /\ Lasts(claim.issuedAt, claim.expiresAt, ClaimLife)
        /\ Lasts(pre.issuedAt, pre.expiresAt, PreEnrollmentLife)
        /\ Lasts(enrollment.issuedAt, enrollment.expiresAt, EnrollmentLife)

\* The same of the papers of a device that is bound already.
OneBoundEnrollment(input) ==
    LET enrollment == input.challenge
        event == input.approvalEvent[1]
        unsigned == event.unsigned
        proof == input.proof
        context == input.context
    IN  /\ Agree({1, Len(input.approvalEvent)})
        /\ Agree({"canonical", input.form, event.form, enrollment.form,
                  proof.form, context.form})
        /\ Agree({enrollment.subject, unsigned.pubkey, event.signedBy,
                  context.subject})
        /\ Agree({enrollment.deviceId, unsigned.deviceId, context.deviceId})
        /\ Agree({enrollment.ed25519PublicKey, context.ed25519PublicKey,
                  proof.publicKey, proof.signedBy})
        /\ enrollment.ed25519PublicKey # enrollment.subject
        /\ Agree({enrollment.enrollmentChallengeId, unsigned.challengeId,
                  proof.enrollmentChallengeId, context.challengeId})
        /\ Agree({enrollment.x25519BindingId, context.bindingId})
        /\ Agree({enrollment.commitment, context.commitment})
        /\ Agree({EnrollmentDigest(enrollment), unsigned.enrollmentDigest,
                  proof.enrollmentDigest})
        /\ Agree({EventId(unsigned), event.id, event.signed})
        /\ Agree({EnrollmentProofPreimage(enrollment), proof.signed})
        /\ context.challengeKind = "enrollment-v2"
        /\ context.approver # Null
        /\ \/ /\ context.predecessorAssociationId = Null
              /\ Agree({1, context.associationVersion, context.authorityEpoch})
           \/ /\ context.predecessorAssociationId # Null
              /\ context.associationVersion > 1
        /\ context.audience = enrollment.audience
        /\ unsigned.createdAt = enrollment.issuedAt
        /\ Lasts(enrollment.issuedAt, enrollment.expiresAt, EnrollmentLife)

\* The same of a request; its body must be one that the server may send on.
OneRequest(input, body) ==
    LET challenge == input.challenge
        request == challenge.request
        proof == input.proof
        context == input.context
    IN  /\ Agree({"canonical", input.form, body.form, challenge.form,
                  request.form, proof.form, context.form})
        /\ input.actualRequest = <<request>>
        /\ Agree({request.path, request.operation})
        /\ Agree({request.subject, context.subject})
        /\ Agree({request.deviceId, context.deviceId})
        /\ Agree({request.bindingId, context.bindingId})
        /\ Agree({request.audience, context.audience})
        /\ Agree({request.sessionBinding, context.sessionBinding})
        /\ Agree({challenge.challengeId, proof.challengeId, context.challengeId})
        /\ Agree({context.ed25519PublicKey, proof.publicKey, proof.signedBy})
        /\ Agree({DeviceProofPreimage(challenge, proof.publicKey), proof.signed})
        /\ context.challengeKind = "device-request-v1"
        /\ context.subject # context.ed25519PublicKey
        /\ Agree({Null, context.predecessorAssociationId, context.approver})
        /\ Lasts(challenge.issuedAt, challenge.expiresAt, ChallengeLife)
        /\ \/ /\ kind = "self-read"
              /\ request.recipientHandle = body.deviceHandle
           \/ /\ kind = "submit" /\ request.recipientHandle = Null
              /\ Len(input.routingRequest) = 1
              /\ input.routingRequest[1].form = "canonical"
              /\ \A handles \in {body.recipientDeviceHandles,
                                 input.routingRequest[1].recipientDeviceHandles} :
                    /\ Len(handles) \in 1 .. MaxRecipients
                    /\ \A i, j \in DOMAIN handles :
                          i < j => handles[i] < handles[j]
              /\ body.keyWraps = body.recipientDeviceHandles

\* Every window that bears on the papers contains an instant.
OpenAt(input, t) ==
    IF kind # "preaccepted"
    THEN input.challenge.issuedAt <= t /\ t < input.challenge.expiresAt
    ELSE LET call == Call(input.context)
         IN  /\ \A window \in AuthorizationWindows(input.event.unsigned.content)
                      \cup {<<input.enrollment.issuedAt,
                             input.enrollment.expiresAt>>} :
                   window[1] <= t /\ t < window[2]
             /\ \A end \in {call.phone, call.approver, call.full, call.binding} :
                   t < end

Consistent(input) ==
    CASE kind = "preaccepted" -> OneEnrollment(input)
      [] kind = "enrollment" -> OneBoundEnrollment(input)
      [] OTHER -> OneRequest(input, RequestPapers.body)

\* The call repeats the context, the issuers and the end of the binding.
CallAgrees(input) ==
    LET call == Call(input.context)
    IN  /\ Agree({call.context, input.context})
        /\ Agree({call.issuer, call.signerIssuer, input.context.audience})
        /\ kind = "preaccepted" =>
              call.binding = input.event.unsigned.content.content.bindingExpiresAt

\* A statement is made exactly of papers that tell one story, at an instant
\* from which every window stays open for the statement's whole life: the
\* chain of pairwise checks in both producers leaves no place that the story
\* names unchecked, and refuses nothing that agrees.  What the code compares
\* with nothing is in no story: the association id of a V1 context, the session
\* binding of an enrollment's, and a routing request beside the body.
StatementExact ==
    clock = 0 =>
        LET input == Input
            agreed == Consistent(input) /\ CallAgrees(input)
        IN  \A now \in 1 .. Horizon, life \in Lifes, longest \in Longest :
                Produces(input, now, life, longest) <=>
                    /\ agreed
                    /\ kind # "preaccepted" => longest = LegacyLife
                    /\ life <= longest
                    /\ \A t \in now .. now + life - 1 : OpenAt(input, t)

\* However late the signer answers, a statement that has not expired speaks
\* of papers, sessions, entitlement and binding that are all still good.
StatementOpen ==
    statement.signed /\ clock < statement.expiresAt => OpenAt(Input, clock)

\* The server verifies an approval twice, with code written apart: its own
\* reading and the contract that the browsers share conclude the same.
VerifiersAgree ==
    clock = 0 /\ kind = "preaccepted" =>
        LET input == Input
        IN  Preflight(input) =>
                (LocallyVerified(input) <=> ContractVerified(input))

=============================================================================
