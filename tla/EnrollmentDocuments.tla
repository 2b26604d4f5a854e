-------------------------- MODULE EnrollmentDocuments --------------------------
(***************************************************************************)
(* The documents of a V2 enrollment, and the two verifiers of them: the    *)
(* contract the browsers share (mobile-device-authorization-contract-v2)   *)
(* and the server's own check (messaging-device-preaccepted-enrollment-v2).*)
(*                                                                         *)
(* A wire is a record; its field `form' says whether its text is the       *)
(* canonical one.  A digest is the domain together with the thing hashed,  *)
(* and a signature names the key that made it and what it is over: hashes  *)
(* do not collide and signatures are not forged.  Fields whose value the   *)
(* parsers fix (schema, version, domain, profile, algorithm) are left out. *)
(* All times are in one unit, although the wires mix seconds and           *)
(* milliseconds.                                                           *)
(***************************************************************************)
EXTENDS Integers, FiniteSets

CONSTANTS
    PairingLife,        \* the longest life of a pairing (300 s)
    ClaimLife,          \* of a claim (300 s)
    PreEnrollmentLife,  \* of a pre-enrollment (600 s)
    EnrollmentLife      \* of an enrollment challenge (60 s)

\* The source gives claims and pairings the same longest life: one of the two
\* verifiers reads only the pairing's.
ASSUME LivesAssumption ==
    /\ PairingLife \in Nat /\ ClaimLife \in Nat /\ PreEnrollmentLife \in Nat
    /\ EnrollmentLife \in Nat /\ ClaimLife >= PairingLife

Null == 0

Digest(domain, of) == [domain |-> domain, of |-> of]

\* A wire is refused unless serializing what it says gives the wire again.
Canonical(wire) == wire.form = "canonical"

-----------------------------------------------------------------------------
(* The claim that the identity service issues, the pairing, and the two    *)
(* documents that the phone builds on them.                                *)

\* The record whose digest is the binding id: the claim without its window.
BindingId(claim) ==
    Digest("binding",
           [operation |-> claim.operation, subject |-> claim.subject,
            deviceId |-> claim.deviceId, publicKey |-> claim.publicKey,
            requestId |-> claim.requestId,
            validFrom |-> claim.bindingValidFrom,
            expiresAt |-> claim.bindingExpiresAt])

Commitment(publicKey) == Digest("x25519", [publicKey |-> publicKey])

PreEnrollmentDigest(pre) == Digest("pre-enrollment", pre)

\* createBoundPreEnrollmentV2: the phone copies what the claim says.
BoundPreEnrollment(claim, ed25519, pairingId, expires) ==
    [form |-> "canonical", transition |-> "initial",
     bindingAuthorizationDigest |-> Digest("claim", claim),
     deviceId |-> claim.deviceId, ed25519PublicKey |-> ed25519,
     expiresAt |-> expires, issuedAt |-> claim.issuedAt,
     pairingId |-> pairingId, requestId |-> claim.requestId,
     subject |-> claim.subject, x25519BindingId |-> BindingId(claim),
     commitment |-> Commitment(claim.publicKey)]

AuthorizationEnvelope(claim, pairing, pre) ==
    [form |-> "canonical", content |-> claim, context |-> pairing,
     preEnrollment |-> pre]

\* The event that the person's wallet signs.
ApprovalUnsignedEvent(authorization) ==
    LET pre == authorization.preEnrollment
    IN  [content |-> authorization,
         createdAt |-> authorization.content.issuedAt,
         pubkey |-> pre.subject,
         authorizationDigest |-> Digest("authorization", authorization),
         preEnrollmentDigest |-> PreEnrollmentDigest(pre),
         requestId |-> pre.requestId, action |-> "register",
         pairingId |-> pre.pairingId]

EventId(unsigned) == Digest("event", unsigned)

SignedEvent(unsigned, key) ==
    [form |-> "canonical", unsigned |-> unsigned, id |-> EventId(unsigned),
     signedBy |-> key, signed |-> EventId(unsigned)]

VerifyNostrEvent(event) ==
    /\ event.id = EventId(event.unsigned)
    /\ event.signedBy = event.unsigned.pubkey
    /\ event.signed = event.id

-----------------------------------------------------------------------------
(* The parsers of the contract.                                            *)

InspectClaim(claim, subject) ==
    /\ Canonical(claim)
    /\ claim.subject = subject
    /\ claim.publicKey # claim.subject
    /\ claim.bindingValidFrom = claim.issuedAt
    /\ claim.issuedAt < claim.expiresAt
    /\ claim.expiresAt <= claim.bindingExpiresAt
    /\ claim.expiresAt - claim.issuedAt <= ClaimLife

ParsePreEnrollment(pre) ==
    /\ Canonical(pre)
    /\ pre.transition = "initial"
    /\ pre.ed25519PublicKey # pre.subject
    /\ pre.issuedAt < pre.expiresAt
    /\ pre.expiresAt - pre.issuedAt <= PreEnrollmentLife

PairingContext(pairing) ==
    /\ pairing.createdAt < pairing.expiresAt
    /\ pairing.expiresAt <= pairing.createdAt + PairingLife

ParseAuthorization(authorization) ==
    LET claim == authorization.content
        pairing == authorization.context
        pre == authorization.preEnrollment
    IN  /\ Canonical(authorization)
        /\ ParsePreEnrollment(pre)
        /\ PairingContext(pairing)
        /\ InspectClaim(claim, pre.subject)
        /\ claim.operation = "register"
        /\ claim.requestId = pre.requestId
        /\ BindingId(claim) = pre.x25519BindingId
        /\ claim.deviceId = pre.deviceId
        /\ Digest("claim", claim) = pre.bindingAuthorizationDigest
        /\ Commitment(claim.publicKey) = pre.commitment
        /\ claim.publicKey # pre.ed25519PublicKey
        /\ pairing.pairingId = pre.pairingId
        /\ pre.issuedAt = claim.issuedAt
        /\ pairing.createdAt <= claim.issuedAt
        /\ claim.expiresAt <= pairing.expiresAt
        /\ pre.expiresAt <= claim.bindingExpiresAt

\* The windows that hold an authorization, each as <<from, until>>.
AuthorizationWindows(authorization) ==
    LET claim == authorization.content
    IN  {<<authorization.context.createdAt, authorization.context.expiresAt>>,
         <<claim.issuedAt, claim.expiresAt>>,
         <<authorization.preEnrollment.issuedAt,
           authorization.preEnrollment.expiresAt>>,
         <<claim.bindingValidFrom, claim.bindingExpiresAt>>}

ValidateAuthorizationTime(authorization, now) ==
    /\ ParseAuthorization(authorization)
    /\ \A window \in AuthorizationWindows(authorization) :
          window[1] <= now /\ now < window[2]

ParseApproval(event) ==
    LET unsigned == event.unsigned
        expected == ApprovalUnsignedEvent(unsigned.content)
    IN  /\ Canonical(event)
        /\ ParseAuthorization(unsigned.content)
        /\ unsigned = expected
        /\ event.id = EventId(expected)
        /\ VerifyNostrEvent(event)

\* acceptanceIdV2, of an approval that parses.
AcceptanceId(event) ==
    LET pre == event.unsigned.content.preEnrollment
    IN  Digest("acceptance",
               [approvalEventId |-> event.id,
                authorizationDigest |->
                    Digest("authorization", event.unsigned.content),
                bindingId |-> pre.x25519BindingId,
                pairingId |-> pre.pairingId,
                preEnrollmentDigest |-> PreEnrollmentDigest(pre),
                requestId |-> pre.requestId, subject |-> pre.subject])

-----------------------------------------------------------------------------
(* The enrollment challenge, the phone's proof of its key, and the context *)
(* under which the identity service verifies them.                         *)

Enrollment(pre, audience, challengeId, issued, expires) ==
    [form |-> "canonical", audience |-> audience, deviceId |-> pre.deviceId,
     ed25519PublicKey |-> pre.ed25519PublicKey,
     enrollmentChallengeId |-> challengeId, issuedAt |-> issued,
     expiresAt |-> expires, subject |-> pre.subject,
     x25519BindingId |-> pre.x25519BindingId, commitment |-> pre.commitment]

ParseEnrollment(enrollment) ==
    /\ Canonical(enrollment)
    /\ enrollment.issuedAt < enrollment.expiresAt
    /\ enrollment.expiresAt - enrollment.issuedAt <= EnrollmentLife
    /\ enrollment.ed25519PublicKey # enrollment.subject

EnrollmentDigest(enrollment) == Digest("enrollment", enrollment)

EnrollmentProofPreimage(enrollment) ==
    [enrollment |-> enrollment, publicKey |-> enrollment.ed25519PublicKey]

EnrollmentProof(enrollment) ==
    [form |-> "canonical",
     enrollmentChallengeId |-> enrollment.enrollmentChallengeId,
     enrollmentDigest |-> EnrollmentDigest(enrollment),
     publicKey |-> enrollment.ed25519PublicKey,
     signedBy |-> enrollment.ed25519PublicKey,
     signed |-> EnrollmentProofPreimage(enrollment)]

\* The strict Ed25519 check of a proof, over what the verifier serialized.
VerifyEd25519(preimage, publicKey, proof) ==
    proof.signedBy = publicKey /\ proof.signed = preimage

AssociationId(enrollment) ==
    Digest("association",
           [deviceId |-> enrollment.deviceId,
            ed25519PublicKey |-> enrollment.ed25519PublicKey,
            enrollmentDigest |-> EnrollmentDigest(enrollment),
            subject |-> enrollment.subject])

ParseContext(context) ==
    /\ Canonical(context)
    /\ context.subject # context.ed25519PublicKey
    /\ context.associationVersion >= 1 /\ context.authorityEpoch >= 1
    /\ \/ /\ context.challengeKind = "device-request-v1"
          /\ context.predecessorAssociationId = Null
          /\ context.approver = Null
       \/ /\ context.challengeKind = "enrollment-v2"
          /\ context.approver # Null
          /\ (context.predecessorAssociationId = Null) <=>
                (context.associationVersion = 1)
          /\ context.predecessorAssociationId = Null =>
                context.authorityEpoch = 1

-----------------------------------------------------------------------------
(* The server's verifier of the whole input.                               *)

\* Every wire is parsed before anything is compared.
Preflight(input) ==
    LET authorization == input.event.unsigned.content
    IN  /\ Canonical(input) /\ Canonical(input.event) /\ Canonical(authorization)
        /\ Canonical(input.proof) /\ Canonical(authorization.content)
        /\ ParsePreEnrollment(authorization.preEnrollment)
        /\ ParseContext(input.context)
        /\ ParseEnrollment(input.enrollment)

\* The context and the proof repeat what the enrollment says.
CrossContext(input) ==
    LET context == input.context
        enrollment == input.enrollment
        proof == input.proof
    IN  /\ context.challengeKind = "enrollment-v2"
        /\ context.challengeId = enrollment.enrollmentChallengeId
        /\ context.audience = enrollment.audience
        /\ context.associationId = AssociationId(enrollment)
        /\ context.associationVersion = 1
        /\ context.predecessorAssociationId = Null
        /\ context.authorityEpoch = 1
        /\ proof.enrollmentChallengeId = enrollment.enrollmentChallengeId
        /\ proof.enrollmentDigest = EnrollmentDigest(enrollment)
        /\ proof.publicKey = enrollment.ed25519PublicKey

\* Fault: the context is not compared with the binding that was approved.
CrossContractAnyBinding(input) ==
    LET pre == input.event.unsigned.content.preEnrollment
    IN  /\ CrossContext(input)
        /\ \A paper \in {input.context, input.enrollment} :
              /\ paper.subject = pre.subject
              /\ paper.deviceId = pre.deviceId
              /\ paper.commitment = pre.commitment
              /\ paper.ed25519PublicKey = pre.ed25519PublicKey
        /\ input.enrollment.x25519BindingId = pre.x25519BindingId
        /\ pre.issuedAt <= input.enrollment.issuedAt
        /\ input.enrollment.expiresAt <= pre.expiresAt

\* The context and the enrollment name the device of the pre-enrollment.
CrossContract(input) ==
    LET pre == input.event.unsigned.content.preEnrollment
    IN  /\ CrossContext(input)
        /\ \A paper \in {input.context, input.enrollment} :
              /\ paper.subject = pre.subject
              /\ paper.deviceId = pre.deviceId
              /\ paper.commitment = pre.commitment
              /\ paper.ed25519PublicKey = pre.ed25519PublicKey
        /\ input.context.bindingId = pre.x25519BindingId
        /\ input.enrollment.x25519BindingId = pre.x25519BindingId
        /\ pre.issuedAt <= input.enrollment.issuedAt
        /\ input.enrollment.expiresAt <= pre.expiresAt

-----------------------------------------------------------------------------
(* The server's own reading of the authorization and of the approval.      *)

LocalClaim(claim) ==
    /\ claim.operation = "register"
    /\ claim.publicKey # claim.subject
    /\ claim.bindingValidFrom = claim.issuedAt
    /\ claim.issuedAt < claim.expiresAt
    /\ claim.expiresAt <= claim.bindingExpiresAt

\* Fault: the claim may outlive the pairing that carries it.
LocalPairingOpenEnded(pairing, claim) ==
    /\ pairing.createdAt < pairing.expiresAt
    /\ pairing.expiresAt <= pairing.createdAt + PairingLife
    /\ pairing.createdAt <= claim.issuedAt

\* The limit of the claim's own life is not looked at here: it is the
\* pairing's, which holds the claim.
LocalPairing(pairing, claim) ==
    /\ pairing.createdAt < pairing.expiresAt
    /\ pairing.expiresAt <= pairing.createdAt + PairingLife
    /\ pairing.createdAt <= claim.issuedAt
    /\ claim.expiresAt <= pairing.expiresAt

LocalPreEnrollment(pre, pairing, claim) ==
    /\ pre.issuedAt < pre.expiresAt
    /\ pre.expiresAt - pre.issuedAt <= PreEnrollmentLife
    /\ pre.transition = "initial"
    /\ pre.bindingAuthorizationDigest = Digest("claim", claim)
    /\ pre.subject = claim.subject
    /\ pre.deviceId = claim.deviceId
    /\ pre.requestId = claim.requestId
    /\ pre.x25519BindingId = BindingId(claim)
    /\ pre.commitment = Commitment(claim.publicKey)
    /\ pre.ed25519PublicKey # claim.publicKey
    /\ pre.issuedAt = claim.issuedAt
    /\ pre.expiresAt <= claim.bindingExpiresAt
    /\ pre.pairingId = pairing.pairingId

LocalApproval(unsigned) ==
    LET authorization == unsigned.content
        pre == authorization.preEnrollment
    IN  /\ unsigned.createdAt = authorization.content.issuedAt
        /\ unsigned.pubkey = authorization.content.subject
        /\ unsigned.authorizationDigest = Digest("authorization", authorization)
        /\ unsigned.preEnrollmentDigest = PreEnrollmentDigest(pre)
        /\ unsigned.requestId = pre.requestId
        /\ unsigned.action = "register"
        /\ unsigned.pairingId = pre.pairingId

LocalAuthorizationEvidence(event) ==
    LET authorization == event.unsigned.content
        claim == authorization.content
        pairing == authorization.context
    IN  /\ LocalClaim(claim)
        /\ LocalPairing(pairing, claim)
        /\ LocalPreEnrollment(authorization.preEnrollment, pairing, claim)
        /\ LocalApproval(event.unsigned)

\* The id that the server derives from the wires themselves.
LocalAcceptanceId(event) ==
    LET authorization == event.unsigned.content
        pre == authorization.preEnrollment
    IN  Digest("acceptance",
               [approvalEventId |-> EventId(event.unsigned),
                authorizationDigest |-> Digest("authorization", authorization),
                bindingId |-> BindingId(authorization.content),
                pairingId |-> pre.pairingId,
                preEnrollmentDigest |-> PreEnrollmentDigest(pre),
                requestId |-> pre.requestId, subject |-> pre.subject])

\* strictVerifyBip340Exact over the id that the server computes.
VerifyBip340(event) ==
    /\ EventId(event.unsigned) = event.id
    /\ event.signedBy = event.unsigned.pubkey /\ event.signed = event.id

\* What the server concludes by itself about the acceptance ...
LocallyVerified(input) ==
    /\ LocalAuthorizationEvidence(input.event)
    /\ input.acceptanceId = LocalAcceptanceId(input.event)
    /\ input.event.id = EventId(input.event.unsigned)
    /\ VerifyBip340(input.event)

\* ... and what the shared contract concludes, with the acceptance made anew
\* at the pre-enrollment's own first instant.
ContractVerified(input) ==
    LET authorization == input.event.unsigned.content
    IN  /\ ParseApproval(input.event)
        /\ input.acceptanceId = AcceptanceId(input.event)
        /\ ValidateAuthorizationTime(authorization,
                                     authorization.preEnrollment.issuedAt)

\* verifyMessagingDevicePreacceptedEnrollmentV2
VerifyPreacceptedEnrollment(input) ==
    /\ Preflight(input)
    /\ CrossContract(input)
    /\ LocallyVerified(input)
    /\ VerifyEd25519(EnrollmentProofPreimage(input.enrollment),
                     input.proof.publicKey, input.proof)
    /\ ContractVerified(input)

=============================================================================
