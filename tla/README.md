# A TLA+ model of hodlxxi-social

hodlxxi-social is the Social client of HODLXXI: a Node backend-for-frontend (BFF)
that turns an OAuth login, or an accepted phone pairing, into an opaque Social
session, and a browser client that reads and writes public Nostr events, keeps a
messaging device key and pairs phones.  The authorities it relies on are external:
UBID (the Universal Bitcoin Identity service: OAuth, authority projection, Full
Directory, device bindings, session issuance), the user's wallet and a Nostr relay.

This directory models the parts of that system in which the order of things
matters, checks them with TLC on small instances and proves the central
invariants with TLAPS for every size.  `PROJECT.json` maps each definition to the
lines it translates.  Paths below are relative to the repository.

## 1. Inventory

### Server (`src/server`, `scripts`)

| component | state | operations | hard behaviour | what makes it correct |
|---|---|---|---|---|
| session store (`social-oauth-memory.mjs`) | Map id -> record, logout object | create, get, getForLogout, getLogoutState, beginLogout, consume, consumeIf, delete; sweep before each | expiry, retention of an expired credential for its cancellation, capacity | a refused id is never answered again; a denial outlives the credential; capacity; a fixed retry deadline |
| mobile session manager (`social-mobile-session-v1.mjs`) | `cancellations`, `aliases`, `locks` | read, capabilityRead, install, logout, cancelUninstalled | every call awaits UBID; requests queue per issuance and per session | one presentation per issuance; logout denies before it awaits; a pending revocation is never lost; an answer is true when it is given |
| native V2 manager (`social-native-session-v2.mjs`) | `aliases`, `locks`, `pending`, `previous` | read, capabilityRead, install, logout, cancelUninstalled | as V1, with one bound on the queued work of all credentials; a cancellation denies what it finds installed | as V1, also when the queue is full; a cancelled credential presents nothing |
| mobile BFF (`social-mobile-bff-v1.mjs`, `social-mobile-composition-v1.mjs`) | `contexts`: session, alias, denial, phone authorization, issuing, orphan credential | /context, commands, session/issue, session/recover, logout, the OAuth fence | a logout, a login or the clock overtakes a request that awaits; UBID issued but the installation failed | nothing in flight installs into a context that was denied or replaced; a credential issued and not installed stays owned; "confirmed" means revoked |
| OAuth BFF (`social-oauth-bff.mjs`, `hodlxxi-oauth-client.mjs`) | pending transactions, sessions | login, callback, session, authority, directory, capability, package and device routes, logout | a callback delivered twice or late; a session or an entitlement that ends between the awaits of a route | one session per login; a fenced callback installs nothing; UBID is asked only on evidence of the request itself |
| opaque recipient capabilities (`opaque-recipient-capability*.mjs`) | bounded Map capability -> session, alias, expiry | issue, resolve | the clock is read before three awaits and used after them | quotas; the exact session; evidence no older than the request; expired means gone |
| UBID clients and transports (`ubid-*.mjs`, `hodlxxi-oauth-client.mjs`) | none between calls | service token, then one request | answer, timer, byte bound, error and a gateway's reply race to settle one promise | settles once, and by its deadline; what the caller is told is true of UBID |
| verifiers and producers (`messaging-device-*.mjs`, `message-*.mjs`) | none | check signed papers, make a statement of them | dozens of cross references, nine deadlines, a signer that answers late | a statement exactly of papers that agree, good no longer than any of them; two readers of one approval agree |
| HTTP server, configuration, readiness | none after start | framing, body limits, start-up | | |

### Browser (`web`)

| component | state | operations | hard behaviour | what makes it correct |
|---|---|---|---|---|
| entry (`auth-entry.mjs`, `social-entry-actions-v1.mjs`) | session, authority, directory, device, signer, publication, page | mount, route changes, connect, publish, login, logout | every answer may arrive after a logout or a newer request | nothing of a former session is shown; "signed out" is said of an ended session; nothing loads for ever |
| messaging device (`messaging-device-v128c1.mjs`) | one IndexedDB record; a run per tab | reconcile, setup, adopt, rotate, revoke, retry, cancel | several tabs, reloads, lost answers, expired authorizations | the record never loses a key UBID has bound, and never submits a second proposal for a pending one |
| device keys (`messaging-device-ed25519-key-v*.mjs`, `mobile-device-authorization-seams-v2.mjs`) | two IndexedDB stores | prepare, prove, claim, sign, persist | several tabs, reloads, the wallet answering after cancel | one prompt per key; a signature that was given is kept |
| phone pairing (`social-mobile-browser-v1.mjs`, `mobile-device-authorization-*-v1.mjs`) | transient proofs, retry store | scan, status, complete, cleanup; create, inspect, approve, retry, close | reload loses proofs; two phones scan; calls carried out after they were given up | one event per pairing; only what was compared is accepted; a key is discarded only on an irreversible refusal |
| public read and write (`authenticated-public-*.mjs`, `src/data/nostr-websocket-read-transport.mjs`) and the NIP-46 signer | one socket per call | read, sign, publish | frames, timers, aborts and close events race | settles once, leaves nothing open; success is true of the relay |
| private labels (`private-label-store.mjs`) | one document per viewer | read, write, remove | | bounded, one label per alias |
| read model (`src/visibility.mjs`, `src/full-recipient-directory.mjs`, `src/data`) | none | pure functions | | visibility is monotone in access |

They interact by calls and shared state: the BFF, the mobile BFF, the manager and
the capability issuer share one session store; the manager's locks serve the
mobile BFF's contexts too; OAuth transactions and mobile contexts are tied by the
fence of `oauthGuard`; the tabs of a browser share its IndexedDB and its cookie;
a phone and a desktop share only what UBID tells them; browser and server share
only HTTP.  Everything in the server is one Node process: a handler runs alone
between two awaits, and each await is a point where every other request, the
clock and UBID move.  The server persists nothing: a restart loses all sessions,
contexts and capabilities together, which is the initial state of the models.

## 2. Modules

    SessionStore --+-- MobileSession ----- MobileBff         Presentation
         |         |        \                                  ^      ^
         |         |         +---------- implements -----------+      |
         |         +-- NativeV2Session -- implements -----------------+
         |         +-- RecipientCapability

    SessionStoreProofs --+-- NativeV2Proofs (NativeV2Session)
                         +-- RecipientCapabilityProofs (RecipientCapability)
    MobileSessionProofs ----- MobileBffProofs (MobileSession, MobileBff)
    EntryAndExchangeProofs (AuthEntry, MCExchanges)
    EnrollmentProofs (MCDeviceKeys, VerificationStatement)
    MessagingDeviceProofs (MessagingDevice)

    MessagingDevice      AuthEntry

    UbidExchange + RelayExchange                   composed in MCExchanges
    ProvisionalKey + AcceptedKey + PhonePairing    composed in MCDeviceKeys

    EnrollmentDocuments -- RequestDocuments -- VerificationStatement

`SessionStore` is the component the server's others are built on.
`MobileSession` EXTENDS it (it shares the store) and `MobileBff` EXTENDS
`MobileSession`; `RecipientCapability` and `NativeV2Session` EXTEND
`SessionStore`.  `Presentation` is the abstract specification of a session
manager; both managers have a refinement mapping to it, `ImplementsPresentation`.
The browser's modules share no variables with the server's: each sees the other
side through its answers.  A proof module EXTENDS the module named beside it.  The document modules have no state but a bundle of
papers and a clock.  `MC*.tla` bound the modules for TLC.

What the plan has left:

1. Pure operators against reference definitions: visibility, the merge of the
   recipient directory, cookie and target classification.
2. The phone's half of `MobileBff` and `PhonePairing` composed on one UBID.

## 3. How the modules correspond to the code

**SessionStore.**  `slots` is the key set of `entries`, `record[id]` the frozen
record and `logout[id]` the logout object of the slot.  An id is 32 random bytes
and never drawn twice, so `record` and `logout` are kept after the slot has gone,
as a closure holding the object keeps them; the identity test `get(id) !== original`
is then the test that the slot is still there.  Every operation but `delete` begins
with `sweep`, so its slots are `Swept`.  `Deadline` is the sweep's condition, with
the five-minute retention of an expired mobile record.  `Confirm` is the assignment
`pending.confirmed = true` that a logout coordinator makes on the shared object.

**Presentation.**  What a manager promises, without slots, maps, locks or upstream
calls: a session id is new, then presents one credential, then has ended or is
denied, for ever; a credential has one session in its life unless the first was
denied and UBID has revoked it.  A call is open until it is answered, and each
answer (a read's "authenticated", an install's session, a logout's "confirmed",
a cancellation's success) is possible only if it is true at that moment: `Answers`.
`Withdraw` and `Cancel` are a presentation denied by the call that made it, when the
caller gives up, and by a cancellation.

**MobileSession.**  `job[p]` is the manager call of request `p`: `queued` for a lock,
`calling` UBID, `answered`, `done`.  `locks[k]` is the queue of `serial(k)`: its head
runs.  Each handler is split exactly at its awaits: `StartRead`/`EndRead`,
`StartInstall`/`BeginInstall`/`EndInstall` (`InstallAlias`, `InstallNew`,
`InstallRefused` are its outcomes), `StartLogout`/`BeginLogoutCall`/`EndLogout`,
`StartCancel`/`EndCancel`.  `Serve` is UBID executing the call, `Drop` its answer
lost, before or after it took effect.  `stillCurrent()` of an install is a free
Boolean here, and the context's state in `MobileBff`.

**NativeV2Session.**  The same split of the second manager: `locks` is what
`serialize` has chained per credential and `Full` its count against the capacity;
`aliases` are tied to the response they came with.  `capacity` is drawn once; 0
stands for a server without the manager, where the store's own operations run in
any order, so that this run is the store's too.  No composition installs the manager
(`SOCIAL_NATIVE_V2_SESSION_MANAGER_ENABLED` is false).  The refusal of a clock that
steps back is left out: the model's clock does not.

**MobileBff.**  `contexts` is the Map of contexts and `ctx[c]` its value, kept
after the context is dropped because the closure of a request keeps it.  `req[p]`
is where the handler stands and `job[p]` the manager call it makes.  The code that
runs in the microtasks after a manager call is one step with the end of that call.
A context's queue is `serial("context:" + id)`, a lock of the manager.  The
commands are grouped by what they do to the context: `desktop`, `offer`, `bind`,
`status`, `issue` (see `Commands`).  `tx` is the pending OAuth transaction whose
fence the context is.

**RecipientCapability.**  `held` is the key set of `records`, `issued[k]` the record
`k` was issued with.  A route of the OAuth BFF reads its session (`Call`) and then, in the
same continuation, calls the issuer or the resolver, which reads the clock (`now`), the
session again, the authority and the directory, one step each; `End` is the call of the
store in the continuation of the last await, after which a resolved alias goes to UBID for
its package.  `CallAuthority`, `CallDirectory` and `CallDevice` are the routes that ask UBID
after the same checks.  `seen` is history: which of a live
session, Full authority and a listed alias held at some moment since the call.

**MessagingDevice.**  `current` is the one IndexedDB record (key, request id, state,
accepted binding, authorization marker, retained authorization, proposal, rotation)
and `run[t]` where `run()` of tab `t` stands: `pc` names the await, `rec` is the local
`record`, `snap` the local `current` snapshot.  A `write()` is two steps: `Write`, the
compare-and-swap transaction with every condition of `update`, and `ReadBack`, after
which the run goes on with whatever record it has found.  The steps of `run()` that
follow the snapshot are `Create`, `Reconcile`, `Resume`, `RequireAuthorization`,
`BeginAdopt`, `BeginRotate`, `BeginRevoke`, `ShowReady`; `submitAuthorization` is
`Sign`, `Persist`, `Post`, `AnswerAccepted` or `AnswerExpired`, then `Confirm` and
`Finalize`, or `RenewSnapshot` and `Renew`; `Legacy...` is the branch without
`authorizationEnabled`.  Whatever else ends a run (a refusal, a timeout, a document
that does not fit, a reload, `cancel`) is `Fail`, and so are the `publish` calls that
change nothing.  A signed authorization is its position in `signed`, which is also the
id of the binding UBID makes of it.  Left out are three branches no state of the record
reaches: the revocation without a proposal (lines 1061-1082), a record that is authorized
but not ready (1116) and the registration without a proposal (1159-1168).
`discardCancelledPending`, which only the phone pairing calls, is in `PhonePairing`.

**AuthEntry.**  The closure variables of `bindAuthenticatedEntry` are the VARIABLES:
`session`, `authority`, `directory`, `device`, `write`, `read`; `chain` is where the
`ready` chain waits, `loading` and `calls` the coroutines of the directory, the signer,
the publisher and the refresh that still wait.  `screen` is what was last rendered, so a
render that was forgotten is a difference between `screen` and the other variables.
`entry` is `createSocialEntryActions` (`busy`, the kept CSRF token) and `server` the
session, the logout context and the posts that still travel: a request that timed out
may still be handled.

**UbidExchange.**  One call of any client: `Clients` lists in what they differ (the
timer that restarts with the bytes or not, the exact length, the definitive rejection,
the assertion that must still be fresh).  `wire` is the HTTP exchange under way, in
pieces of a reply, and `ubid` what becomes of the request whether or not anybody still
listens.  `Replies` are the documents of UBID and those of a gateway: cut, without end,
foreign, a viewer's token where the service's was asked.

**RelayExchange.**  One exchange over a WebSocket: the two readers, the publisher with
the browser extension's two calls, and the NIP-46 wallet's one request.  `timers` are
what is armed, `Finish` the cleanup each of them makes.  `Notes` and `Profile` are what a
read makes of its events.

**ProvisionalKey, AcceptedKey.**  `stored` and `record` are the IndexedDB stores, each
transaction one step; a tab stands where it awaits.  `claim` and `attempt` of a record
are the authorization it was claimed for and the tab that persisted the signed one.
Checks of the session between two transactions are one check, made in the later step:
neither the session nor the pending registration ever returns to an earlier value.
A proof of the accepted key is five steps, one for each await that something can happen
in: `StartProof` reads the binding, `MatchRecord` the record, `SignProof` signs,
`RereadBinding` reads the binding again and `FinishProof` the record, and hands the proof
out.  `binding[s]` is what `readX25519Binding` answers for an account when it answers one; it
may also answer none, at either read.  `at` is a history variable: the binding at the
instant of the signature, which the code cannot see.

**PhonePairing.**  `phone[p]` and `desktop` are the controllers with what they keep in
memory and on disk, `retries` the public retry store, `pairing` UBID's.  A call is made
by one step, `Effect` is what UBID does and `Reply` what the caller hears; a call that is
given up moves to `late`, from where UBID may still carry it out.  The two codes the user
compares are the sources they are derived from.

**EnrollmentDocuments, RequestDocuments, VerificationStatement.**  A wire is a record,
a digest the domain with the thing hashed, a signature the key with what it is over: no
collision, no forgery.  Each parser, cross-check and window of the contract and of the two
producers is an operator (`ParseX`, `InspectX`, `VerifyX`).  `VerificationStatement` builds
the papers one on the other, with a lie in up to `MaxLies` places, gives them to the
producers at any instant, and says in its properties, paper by paper and not as the
producers compare them, what agreeing means (`Consistent`, `OpenAt`).

Abstractions that only add behaviour: the hand-over of a lock is a step of its own
although the code hands over in a microtask; cookies carried by a request are any
that fit the context; UBID, relays, wallets and gateways may answer any call with a
refusal.  Abstractions that remove detail: time is in whole ticks; a phone
authorization is named by the one issuance UBID gives it; validation of bodies,
headers, CSRF and Origin is assumed to pass in the server's modules, because a request
that fails it changes no state; the cryptographic check of an event is its acceptance.

## 4. Runs

| run | instance | question |
|---|---|---|
| `mobile_session` | 2 requests, 2 sessions, 1 issuance, manager capacity 1, clock to 2 | does the V1 manager implement `Presentation`, with one presentation per issuance and its retry state kept? |
| `native_session` | 2 requests, 2 ids, 2 credentials, store of 1, manager capacity 1 and 2 or none, clock to 2 | the same of the V2 manager, its cancellations, and the store under both of them |
| `mobile_bff` | 4 requests (bind, issue, logout), 2 contexts, capacity 1 | fences, ownership of orphans, "confirmed" |
| `mobile_bff_oauth` | 3 requests: a phone or a callback, an issue or a callback, then a logout, status, offer or desktop command; 2 sessions | one session per login; every request is answered |
| `mobile_bff_replaced` (violation) | as `mobile_bff` | is an orphan credential ever forgotten while UBID honours it? |
| `recipient_capability` | 2 requests, 2 sessions of one subject, 2 capabilities, quotas 1 of 2 | quotas, session binding, fresh evidence of every route, no return |
| `messaging_device` | 1 tab, 2 accounts, 2 changes of the cookie, 3 operations, 2 expiries (5 ids, 5 signatures), bindings withdrawn | the key and the authorization are kept over failures at any await, and every pending operation settles |
| `messaging_device_tabs` | 2 tabs, 2 ids, 2 signatures, device authorization deployed in between | ready is true and authorized |
| `auth_entry` | 2 of: a navigation, up to two publications, up to two sign-outs; 1 directory request at a time, 2 devices | what is shown is current, what is signed out is ended, everything settles |
| `exchanges` | every client and every relay job; replies of up to 2 pieces and one more, timers of 2 ticks, 3 events | told is true, nothing open, everything ends |
| `device_keys` | 2 tabs, 2 contents, 2 pairings; 2 users, 2 subjects, 2 bindings; 2 phones, 1 lost call | one prompt, evidence kept, acceptance of what was compared |
| `documents` | 4 kinds of bundle, up to 2 lies, 8 instants | a statement exactly of papers that agree |

The bounds are the smallest at which the interesting cases happen.  Two requests
meet at every pair of awaits; a third (and a fourth in `mobile_bff`) is a logout
or a login that overtakes both.  Capacities of 1 make full stores, a full retry
map and a full lock map ordinary states; in `native_session` a queue is full at
capacity 1 and is a queue at 2, and two credentials let one fill the alias bound the
other meets.  Lives of one or two ticks let sessions expire inside a call; the
retention of two ticks outlasts a credential of one by a tick.  One issuance and two
ids are enough for two presentations of one credential; two contexts for a
replacement.  Ids and capabilities are drawn once each, so the number of ids bounds the
number of sessions in a behaviour: a run stops drawing when none is left (the clock
still ticks to its bound, after which the remaining requests still finish).

In `messaging_device` three operations and a renewal for each of two expiries need five
request ids and five signatures, so the bounds never stop an operation that has begun:
`Settles` would show it.  A tab may start a run again and again; the bounds limit
operations, not attempts.  Two tabs are a run that writes and a run that has read before;
with two ids they meet in a registration and the adoption, rotation or revocation after it.

In `auth_entry` any two things the user does meet every answer that is under way; a
second sign-out is needed to retry the first.  In `exchanges` a reply is whole, cut, too long by
one piece or without end, and a timer of two ticks is restarted by a piece in between; of three
events two can be one event twice and one somebody else's.  In `device_keys` a second pairing
shows what a claim refuses, a second binding what a rotation does between any two of the
five steps of a proof, a second phone what a comparison is for; one call that UBID carries out after it was given up meets each of the
others.  In `documents` one lie shows that a paper is compared with some other, two that
the comparison cannot be met by lying twice; eight instants hold the longest window (5)
and one before and two after; windows at exactly, below and above their longest life are lies.

`device_keys` and `exchanges` check components that do not interact side by side: the
variable `side` says which of them a behaviour is about, and the properties are
conjunctions of theirs.  Four runs switch deadlock checking off: an entry page that was
left, a call that has ended, papers whose last instant has come and a paired phone
have nothing more to do.

The expected violation (F1) is a disagreement between the code and its own documents:
a logout during the proofs of an issue is answered `local-only` and completes the
context, and the issue goes on to UBID; if the late cancellation fails, the next login
may replace the context and forget an active credential (`OrphanKept`).

Further divergences, met while modelling and stated here because no run is spent on them:

* A logout that finds a second issue in flight returns `pending` before it denies the
  session the context already presents (`social-mobile-bff-v1.mjs:122`).
* Two tabs that resume one unsigned proposal both sign it; one that reads back, after
  its own write, the authorization the other retains adopts it as its revision and
  replaces it, although UBID may still accept what it discards
  (`messaging-device-v128c1.mjs:717`).  For one tab `RetryKept` holds.
* A run that creates the record reconciles what it reads back with the snapshot it took
  before; a revocation another tab began meanwhile is taken as confirmed (`:1044`, `:960`).
  For one tab `RevokedIsGone` holds.
* A registration of the legacy code whose answer was lost is registered again after the
  deployment, although its binding is active and should be adopted (`:1035`).

And behaviour that is as written and that a reader may not expect:

* After a logout that was not confirmed the device panel stays painted although the
  device was given up; a kept CSRF token of a logout context that has expired is refused
  until the page is reloaded; a first public read that is slow may overwrite a later
  refresh (`auth-entry.mjs`).
* A publication whose acknowledgement times out may be stored, and published again.
* A timer that restarts with each byte does not end a trickle; the byte bound does.
* A claim left by a crash blocks its key for ever, by design; the V1 key store is blocked
  for good by a rotation; a phone whose `store.create` failed cannot scan until reload;
  after a reload the desktop cannot reach its durable retry, because `creation` is gone.
* A proof of the V1 key may be handed out for a binding that was rotated after it was
  read again: nothing looks at it after `messaging-device-ed25519-key-v1.mjs:447`.  What
  holds is that the key signed while its binding was the device's (`ToldIsTrue`).
* The longest life of a claim is checked by the contract only; the server's own reading
  implies it because a pairing lives no longer (`LivesAssumption`).
* A V1 ciphertext-submit statement does not relate its routing request to the digest of
  the request's body: the server makes both of one body.  Nor does a V1 verifier compare
  the association id of a context, or the session binding of an enrollment's, with
  anything.  `StatementExact` says nothing of these places.
* A V2 cancellation denies a session without marking its logout confirmed, so a later
  logout revokes the credential again; a recovered V2 response with another viewer token
  is refused while its alias lives.

**Fairness.**  Safety needs none.  `BffFairness` asks, for each
request, that its enabled continuations run (Node's event loop runs every ready
callback) and that its upstream call settles, answered or not (the Unix-socket
client has a timer that destroys and rejects the request).  Nothing is assumed of
UBID's answers, of new requests or of the clock.  `DeviceFairness` asks more, because
the record waits for the owner: a run goes on or ends (each request and each prompt has
a timer), a retry is asked for again and again, UBID decides what it has received, and
from some time on no run is ended that could go on.  `Settles` excuses an operation whose
account is signed out, and one whose binding UBID has ended: the code leaves such a
record pending for good.  `Fairness` of `AuthEntry` is the page's timers (ten seconds for the
directory, five for a request of an entry action) and that an aborted fetch rejects; a
page that was left has none.  `UbidFairness` and `RelayFairness` are that time passes
and an armed timer fires.  Neither assumes an answer.

## 5. Proofs

`SessionStoreProofs` proves for every capacity, life, retention and set of ids:
types, capacity, `DenialOutlivesCredential`, and the action properties
`NoResurrection` and `NonRenewable`.  The inductive invariant `StoreInv` adds to
these that dates are bounded (a mobile record's life is at most `MobileLife`) and
that only used ids are in the Map or denied; the one assumption that matters is
`RetentionAssumption` (a mobile life is no longer than the retention; both are the
literal 300000 in the code).

`MobileSessionProofs` proves ten properties of the V1 manager, and that it implements
`Presentation`, for every set of requests, ids and issuances and every capacity.  None is inductive alone:
`OnePresentation`, for instance, needs that a slot with a mobile record is a used
id, that what the sweep drops from `slots` and `aliases` agrees, and that an
installation happens only in a continuation that saw no alias.  `MobileInv`
collects:

* `Base`: types, which ids can be in which structure (`MobileUsed`), what each
  call names (`JobsNamed`);
* `Running`: a request in a call or answered holds its lock, that is, it heads
  the queue of its session or credential;
* `OnePresentation`, `RetryKept`, `ConfirmedIsRevoked`, `RevokeOnce` and
  `ManagerBounded`;
* `LogoutOut`: the session of an unfinished logout is denied or has lost its
  slot, from which `LogoutDenies` follows;
* `Acknowledged`: a positive answer to a logout names a credential UBID has
  revoked;
* `LateRead`: a read that began after the revocation has no positive answer;
* `AliasOwned`: an alias names a session created for its credential;
* `Traced`: a mobile session has the dates of its credential's receipt, a denial outlives
  it, and its slot goes before its time only when UBID has confirmed its logout;
* `CancelKnown`: an acknowledged cancellation has revoked its credential.

Each conjunct is preserved by a lemma `...Step` with one step per action; frame
lemmas (`LockFrame`, `StepFrame`) say once what the many actions that do not touch a
variable leave alone; `Monotone` says that records and revocations only grow.  The
action properties follow from the invariant and the step.

The refinement adds the last three conjuncts.  `Traced` is what makes a second
presentation impossible: an installation that finds neither alias nor slot of an earlier
session of the same credential, while its receipt is current, finds that session denied
and its credential revoked, which is all `Presentation` allows.  The mapping shows a session as new,
presented, denied or ended and a call as open or answered: `QuietView` and `SweepQuiet`
say which changes of the maps it does not see, `BeginStep`, `ReplyStep` and `SilentStep`
are the shapes of a call's step, and one lemma per action applies them.

`RecipientCapabilityProofs` proves the quotas, the binding to the session and the
freshness of every positive answer.  `CapInv` says what a request that is under way
holds: its session was live when it was called, the evidence it has read is in `seen`,
and so is whatever is true now and may be read next (`Evidence`); a resolve names a
capability that was issued (`Names`).  The quotas are inductive with it because the two
counts are taken in the step that adds the capability, after the sweep of that step:
`SessionsKept` and the lemmas on counts say that a sweep only lowers them.

`EntryAndExchangeProofs` proves the four properties of the entry page for every number of
navigations, requests, devices, publications and attempts to sign out.  `EntryInv` adds
where the `ready` chain stands (`Chain`), whose logout is under way and which context it
names (`LogoutOwned`), why "Signed out" stays true while an answer still travels
(`OutForGood`), and that a directory request, a painted product and a publication belong
to an authority or a signer that is there (`LoadedHere`, `Painted`, `PublishConnected`).

It also proves what is told of UBID and of a relay, and that nothing is left
open, for every bound on bytes, time and events.  `UbidInv` says that the reply under way
is true of UBID before anybody has read it, and that UBID does not both apply and refuse;
`RelayInv` does the same of the relay's frames.  Together they give `OutcomeIsTrue`: its
half of UBID is `AnswerIsTrue`, its half of a relay `ReceiptIsTrue`.  For what a read
shows, `sort` is modelled by its contract (`Listed`: the members of a set, each once, in
that order), and that there is such a list is what has to be proved: the events of one
person have one order (`OwnEventsListed`, built from the last event by `HeadLists`).  That
the Map of `loadNotes` has one event of each id is the invariant `LastKnown`.

`EnrollmentProofs` proves, for any number of tabs, phones, registrations and lost calls,
that the wallet is asked once, that its answer is kept, that what a tab was told stays
true, and that UBID accepts only a source that was compared.  `KeyInv` rests on one owner
per claim (`OneOwner`): the tab whose transaction put it, and no other, may still prompt
or persist.  `PairInv` follows an approval from the claim to the retry store: it is given
once (`ApprovalOnce`), prompts once (`PromptOnce`), and every call that UBID may still
carry out names a source whose phone keeps the key or a pairing that is cancelled
(`LateSound`, `SourceSound`).  Of a proof of the accepted key `UserInv` keeps two bounds:
the binding at the signature is no older than the record's and, once the binding is read
again, no newer than what is read; bindings only go forward, so a hand-out that finds the
record's binding in the second read finds that it was the device's in between.

It also proves the three properties of the papers that follow the keys to the server:
for any number of lies, any lives and any horizon, a statement is made exactly of papers
that tell one story (`StatementExact`), what it rests on outlives it (`StatementOpen`),
and the server's own reading of an approval concludes what the contract shared with the
browsers does (`VerifiersAgree`).  `StatementInv` says only that a statement was issued
by now and that every window of its papers is open at each instant before its end;
`OpenStays` carries it over the steps, since the papers do not change once collected.
The work is in the operators.  `EnrollmentVerified`, `BoundEnrollmentVerified` and
`RequestVerified` show each verifier equivalent, on typed papers, to the story told field
by field, with no reference to the order or the place of the checks: dropping a check
that another implies leaves them true, dropping any other does not.  `ReadingsAgree` is
the same of the two readings of an approval, given that the wires parse.  `LiesAreFair`
bounds what a lie may put where (a time for a time, and so on; `FairLie`), so that
whatever the lies the papers are typed (`FairSays`); `OpenThrough` turns the producers'
comparison of `now + life` with each end into "open at each instant of that life", and
`ProducesExactly` joins these for the three kinds of papers.
`LivesAssumption` gives the one relation of two lives that is needed: the server looks
only at the pairing's life where the contract limits the claim's too, and agrees with it
because the claim's limit is no shorter (both are 300 seconds in the source).

`MessagingDeviceProofs` proves that an action signs at most once and that no tab shows a
legacy binding as ready, for any number of tabs, accounts and authorizations.  Tabs share
the record, so what a tab has read is stale whenever another has written: `DeviceInv`
says what every copy still means (`RecGood`, `RunGood`: the authorization it retains was
signed for its own proposal and account, its binding is the record's or older than an
authorization UBID has accepted), what the run has signed (`RunSigns`), and that a binding
UBID holds names an authorization (`BoundGood`).  `Goes...` lemmas give the shape of each
continuation, `Write...` lemmas what a write of each form keeps, and one lemma per action
applies them.

`KeyKept`, `RetryKept`, `RevokedIsGone` and `ReadyIsCurrent` are proved for one tab
(`OneTab`), for any number of accounts, operations, expiries and bindings withdrawn: with
several tabs the code does not keep them (section 4).  `KeyKept` needs besides that device
authorization was deployed when the page was loaded, or that one account uses the browser,
because the BFF takes the legacy command for the account of the cookie, which need not be
that of the record.  `OneInv` says of the record and UBID (`RecordStands`) that a binding of
the account is the one of the record, or the one its pending operation makes (`BoundIs`),
that the only authorization that may still bind a key is the one the record retains, and
that legacy commands carry the record's own registration; of the run (`RunStands`) that its
copy of the record is the record, that its snapshot is `BoundIs` too, and that where it
relies on an account without a binding there is none (`SeesNone`), which no authorization
on its way can change because each request id is used once (`CommandsGood`).  Its lemmas
are named `...Stands`, one per action.

`NativeV2Proofs` proves the native manager's properties and that it implements
`Presentation`.  `NativeInv` has two halves, because `capacity` 0 stands for the store
alone.  Under the manager the alias of a credential is the one session with a slot, and a
slot is gone only when its deadline is (`ManagedStore`); a queue holds each waiting call
once and the one that has left for UBID is at its head (`QueueInv`); a cancellation under
way has no authenticated session (`CancelGood`, `NoneOf`), and no valid answer is on its
way to an installation of a cancelled credential (`Uncancelled`), which is why
`CancelledIsDenied` survives the installs that were queued before it.  For the refinement
each action is shown to be a step of `Presentation` or none at all under the mapping:
`Lasting` says once what a step keeps of every session, and `Started`, `Moved` and
`Replied` are the three shapes of a call's step.

`MobileBffProofs` proves the four properties of the mobile BFF over the V1 manager.
`BffInv` consists of

* `CoreInv`, the part of `MobileInv` the routes rely on (`AliasOwned` above all: the
  alias a logout reads is of its own credential);
* `ContextGood`: an orphan is the context's own credential and keeps the context in the
  Map; a cancelled context's credential is revoked; its alias and the session of its
  logout were made for its credential; a pending transaction was started by it;
* `RequestGood`: a request refers to a context that was drawn; a command that has left
  the queue holds the context's lock; an issue between its call and its answer keeps the
  context and its credential; the manager call it waits for is about them;
* `OneCallback`: a transaction is consumed by one callback.

The routes run between the manager's steps and the manager between theirs.  `BffFrame`
says what a step of the manager leaves alone of the contexts and requests, `Alone` that a
request's step touches nobody else, and `HandlerStep` that it is then enough to look at
the one context and the one request; there is a lemma for each shape of answer and one
step per action under them.

The assumptions are those of the modules: `RetentionAssumption`, `LivesAssumption`, that bounds are
naturals and that the "no such" values are not in their sets.

What is proved for every instance is not checked again on a small one unless a run shows
it with a mutant: `StoreTypeOK`, `WithinCapacity`, `MobileTypeOK`, `LogoutDenies`,
`ConfirmedIsRevoked`, `RevokeOnce`, `ManagerBounded`, `FreshAuthority`,
`AuthenticatedNow`, `NativeTypeOK`, `CapTypeOK`, `EntryTypeOK` and `BffTypeOK` are in no
run.  The runs that share properties with the theorems show them on instances, reachable
and breakable; a theorem says they hold at every size.

Only model-checked: liveness (`RequestAnswered`, `Settles`, `EntrySettles`: temporal
fairness is out of the prover's reach); `ReadyIsCurrent` with two tabs, in the instance
of `messaging_device_tabs`; and the expected violation.  A hash in the papers is a
constructor (`Digest`), so what is proved of them is proved up to collisions.

## 6. Not modelled, and why

* HTTP framing, body limits, start-up, configuration and readiness: straight-line code
  without state after start-up.
* The OAuth BFF's routes that only report the configuration, and the parsers and
  serializers around the others.
* Byte formats, hashing and encodings of the verifiers, the V1 contract's own parsers, the
  pairing possession proof and the stored form of a signed attempt: a document is a
  record and a signature a fact.
* Message encryption and decryption, HPKE: cryptographic formats without state.
* Private labels: each operation is one synchronous read and write of one document.
* Read model and visibility: pure functions that only the synthetic preview and the
  developer tools call (planned as operators).
* Rendering, markup, probes, rehearsals and prototypes: one pass, no concurrency.
* The clock of the server stepping back.
