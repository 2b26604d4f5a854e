--------------------------- MODULE RequestDocuments ----------------------------
(***************************************************************************)
(* The documents of V1: the message envelope and the routing request made  *)
(* of it, the request of a device with its challenge and proof, and the    *)
(* one input that carries either those or an enrollment to the V1          *)
(* statement.  A field that may be absent is a sequence of at most one.    *)
(***************************************************************************)
EXTENDS EnrollmentDocuments, Sequences

CONSTANTS
    ChallengeLife,   \* the longest life of a request challenge (60 s)
    MaxRecipients    \* devices that one envelope may name (16)

Increasing(handles) ==
    \A i \in 1 .. Len(handles) - 1 : handles[i] < handles[i + 1]

-----------------------------------------------------------------------------
(* Message envelope and routing request.                                   *)

\* One key wrap for every recipient device, in the order of the handles.
NormalEnvelope(envelope) ==
    /\ Canonical(envelope)
    /\ Len(envelope.recipientDeviceHandles) \in 1 .. MaxRecipients
    /\ Increasing(envelope.recipientDeviceHandles)
    /\ envelope.keyWraps = envelope.recipientDeviceHandles

RoutingRequest(envelope) ==
    [form |-> "canonical", envelopeDigest |-> Digest("envelope", envelope),
     messageId |-> envelope.messageId,
     recipientDeviceHandles |-> envelope.recipientDeviceHandles,
     snapshotId |-> envelope.snapshotId]

ParseRoutingRequest(routing) ==
    /\ Canonical(routing)
    /\ Len(routing.recipientDeviceHandles) \in 1 .. MaxRecipients
    /\ Increasing(routing.recipientDeviceHandles)

-----------------------------------------------------------------------------
(* A request of a device, the challenge that reserves it, and its proof.   *)

\* What the body of a request must be for the request to be made at all.
RequestableBody(operation, body) ==
    \/ operation = "ciphertext-submit" /\ NormalEnvelope(body)
    \/ operation = "recipient-self-read" /\ Canonical(body)

DeviceRequest(party, operation, body) ==
    [form |-> "canonical", audience |-> party.audience,
     subject |-> party.subject, deviceId |-> party.deviceId,
     bindingId |-> party.bindingId, sessionBinding |-> party.sessionBinding,
     bodyDigest |-> Digest("body", body), operation |-> operation,
     path |-> operation,
     recipientHandle |-> IF operation = "recipient-self-read"
                         THEN body.deviceHandle ELSE Null]

ParseDeviceRequest(request) ==
    /\ Canonical(request)
    /\ request.operation = "ciphertext-submit" =>
          request.recipientHandle = Null
    /\ request.operation = "recipient-self-read" =>
          request.recipientHandle # Null

DeviceChallenge(request, challengeId, issued, expires) ==
    [form |-> "canonical", challengeId |-> challengeId, request |-> request,
     issuedAt |-> issued, expiresAt |-> expires]

ParseDeviceChallenge(challenge) ==
    /\ Canonical(challenge)
    /\ challenge.issuedAt < challenge.expiresAt
    /\ challenge.expiresAt - challenge.issuedAt <= ChallengeLife
    /\ ParseDeviceRequest(challenge.request)

\* parseRequestChallenge: the statement also fixes the path by the operation.
ParseRequestChallenge(challenge) ==
    /\ ParseDeviceChallenge(challenge)
    /\ challenge.request.path = challenge.request.operation

InspectDeviceChallenge(challenge, actualRequest, now) ==
    /\ ParseDeviceChallenge(challenge)
    /\ ParseDeviceRequest(actualRequest)
    /\ challenge.request = actualRequest
    /\ challenge.issuedAt <= now /\ now < challenge.expiresAt

DeviceProofPreimage(challenge, publicKey) ==
    [challenge |-> challenge, publicKey |-> publicKey]

DeviceProof(challenge, publicKey) ==
    [form |-> "canonical", challengeId |-> challenge.challengeId,
     publicKey |-> publicKey, signedBy |-> publicKey,
     signed |-> DeviceProofPreimage(challenge, publicKey)]

VerifyDeviceProof(challenge, actualRequest, proof, publicKey, now) ==
    /\ InspectDeviceChallenge(challenge, actualRequest, now)
    /\ Canonical(proof)
    /\ proof.challengeId = challenge.challengeId
    /\ proof.publicKey = publicKey
    /\ VerifyEd25519(DeviceProofPreimage(challenge, publicKey), publicKey, proof)

-----------------------------------------------------------------------------
(* The approval of a V1 enrollment: here the wallet signs the enrollment.  *)

EnrollmentApproval(enrollment) ==
    [content |-> enrollment, createdAt |-> enrollment.issuedAt,
     pubkey |-> enrollment.subject,
     enrollmentDigest |-> EnrollmentDigest(enrollment),
     challengeId |-> enrollment.enrollmentChallengeId,
     deviceId |-> enrollment.deviceId]

ParseEnrollmentApproval(event, context, enrollment) ==
    /\ Canonical(event)
    /\ event.unsigned.pubkey = context.subject
    /\ event.unsigned =
          [EnrollmentApproval(enrollment) EXCEPT !.pubkey = context.subject]

EnrollmentBindings(context, enrollment, proof) ==
    /\ context.challengeKind = "enrollment-v2"
    /\ enrollment.enrollmentChallengeId = context.challengeId
    /\ enrollment.audience = context.audience
    /\ enrollment.subject = context.subject
    /\ enrollment.deviceId = context.deviceId
    /\ enrollment.x25519BindingId = context.bindingId
    /\ enrollment.commitment = context.commitment
    /\ enrollment.ed25519PublicKey = context.ed25519PublicKey
    /\ proof.enrollmentChallengeId = context.challengeId
    /\ proof.enrollmentDigest = EnrollmentDigest(enrollment)
    /\ proof.publicKey = context.ed25519PublicKey

\* verifyEnrollmentV2Authorization
VerifyEnrollmentAuthorization(enrollment, event, proof, subject, now) ==
    /\ ParseEnrollment(enrollment)
    /\ subject = enrollment.subject
    /\ enrollment.issuedAt <= now /\ now < enrollment.expiresAt
    /\ VerifyNostrEvent(event)
    /\ event.unsigned.pubkey = subject
    /\ event.unsigned = EnrollmentApproval(enrollment)
    /\ Canonical(proof)
    /\ proof.enrollmentChallengeId = enrollment.enrollmentChallengeId
    /\ proof.enrollmentDigest = EnrollmentDigest(enrollment)
    /\ proof.publicKey = enrollment.ed25519PublicKey
    /\ VerifyEd25519(EnrollmentProofPreimage(enrollment),
                     enrollment.ed25519PublicKey, proof)

-----------------------------------------------------------------------------
(* The input of the V1 statement, by the kind that its context names.      *)

ParseEnrollmentInput(input) ==
    /\ Len(input.approvalEvent) = 1
    /\ input.actualRequest = <<>> /\ input.routingRequest = <<>>
    /\ ParseEnrollment(input.challenge) /\ Canonical(input.proof)
    /\ EnrollmentBindings(input.context, input.challenge, input.proof)
    /\ ParseEnrollmentApproval(input.approvalEvent[1], input.context,
                               input.challenge)

ParseRequestInput(input) ==
    LET context == input.context
        request == input.challenge.request
    IN  /\ input.approvalEvent = <<>> /\ Len(input.actualRequest) = 1
        /\ ParseRequestChallenge(input.challenge)
        /\ ParseDeviceRequest(input.actualRequest[1]) /\ Canonical(input.proof)
        /\ request = input.actualRequest[1]
        /\ input.challenge.challengeId = context.challengeId
        /\ request.audience = context.audience
        /\ request.subject = context.subject
        /\ request.deviceId = context.deviceId
        /\ request.bindingId = context.bindingId
        /\ request.sessionBinding = context.sessionBinding
        /\ input.proof.challengeId = context.challengeId
        /\ input.proof.publicKey = context.ed25519PublicKey
        /\ \/ /\ request.operation = "ciphertext-submit"
              /\ Len(input.routingRequest) = 1
              /\ ParseRoutingRequest(input.routingRequest[1])
           \/ /\ request.operation # "ciphertext-submit"
              /\ input.routingRequest = <<>>

ParseInput(input) ==
    /\ Canonical(input)
    /\ ParseContext(input.context)
    /\ IF input.context.challengeKind = "enrollment-v2"
       THEN ParseEnrollmentInput(input)
       ELSE ParseRequestInput(input)

=============================================================================
