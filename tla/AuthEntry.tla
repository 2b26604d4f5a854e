------------------------------ MODULE AuthEntry ------------------------------
(***************************************************************************)
(* The authenticated entry page: web/auth-entry.mjs (bindAuthenticatedEntry) *)
(* over web/social-entry-actions-v1.mjs (login and logout with the server).  *)
(*                                                                         *)
(* One page, many coroutines: the `ready' chain that reads the session, the *)
(* authority, three configurations and the relay; the loader of the full    *)
(* directory with its ten second timer; the messaging device; the signer    *)
(* and the publisher; login and logout.  Each `await' is a point where the  *)
(* others run, so a step here is the code between two awaits.               *)
(*                                                                         *)
(* A page reads its session once: `session' goes from none to in or out and *)
(* from in to out.  The server's side of a logout is one session, one       *)
(* logout context and the requests that still travel.                       *)
(***************************************************************************)
EXTENDS Naturals, FiniteSets

CONSTANTS
  MaxNavigations,   \* bound: changes of the location's hash
  MaxRequests,      \* bound: requests for the full directory
  MaxDevices,       \* bound: messaging devices the page creates
  MaxPublishes,     \* bound: publications submitted
  MaxAttempts       \* bound: clicks on Sign out

ASSUME EntryBounds ==
  /\ {MaxNavigations, MaxRequests, MaxDevices, MaxPublishes, MaxAttempts} \subseteq Nat

Routes == {"home", "full-network", "messages"}

VARIABLES
  session,    \* currentSession: none (not read), in, out
  authority,  \* currentAuthority: none, limited (also: not accepted), full
  chain,      \* where the `ready' chain waits
  configs,    \* [read, publish, device]: the configurations received
  route,      \* [hash, event, left]: location.hash; a hashchange not yet dispatched
  directory,  \* [state, attempted, request, aborted]: the directory and its controller
  loading,    \* the loaders of the directory that still wait, [id, ready]
  device,     \* [current, made, view]: the messaging device
  write,      \* currentPublicWrite: [signer, op]
  calls,      \* [connect, publish, submitted, refresh]: coroutines of the signer and the relay
  read,       \* [value, promise]: currentPublicRead; how far the page's first read is
  screen,     \* what the page shows
  entry,      \* [busy, step, csrf, attempt]: createSocialEntryActions
  server      \* [session, mobile, context, posted]: the server's side of a logout

pageVars  == <<session, authority, chain, configs>>
dirVars   == <<directory, loading>>
writeVars == <<write, calls, read>>
vars == <<session, authority, chain, configs, route, directory, loading, device,
          write, calls, read, screen, entry, server>>

DISABLED_PUBLIC_WRITE == [signer |-> "disabled", op |-> "idle"]
NoDirectory == [state |-> "unavailable", attempted |-> FALSE, request |-> 0, aborted |-> FALSE]
NoConfigs == [read |-> "unknown", publish |-> FALSE, device |-> FALSE]

-----------------------------------------------------------------------------
(* What is shown.                                                          *)

\* buildAuthenticatedProductView: a page that is not `full' has no full network.
PageShown ==
  IF route.hash = "full-network" /\ authority # "full" THEN "not-found" ELSE route.hash

Snapshot == [kind |-> "product", page |-> PageShown, access |-> authority,
             directory |-> directory.state, write |-> write, device |-> device.view]

Blank(kind) == [kind |-> kind, page |-> "none", access |-> "none",
                directory |-> "none", write |-> DISABLED_PUBLIC_WRITE, device |-> "unavailable"]

PaintProduct ==
  screen' = IF session' = "in" /\ authority' # "none" THEN Snapshot' ELSE screen

\* clearMessagingDevice: the device is cancelled and forgotten.
ClearMessagingDevice == device' = [device EXCEPT !.current = 0, !.view = "unavailable"]

ResetProduct ==
  /\ configs' = NoConfigs
  /\ directory' = NoDirectory
  /\ write' = DISABLED_PUBLIC_WRITE
  /\ authority' = "none"

RenderSignedOut(why) ==
  /\ session' = "out"
  /\ ResetProduct
  /\ ClearMessagingDevice
  /\ read' = [read EXCEPT !.value = "none"]
  /\ screen' = Blank(why)

RenderPendingAuthority ==
  /\ session' = "in"
  /\ ResetProduct
  /\ ClearMessagingDevice
  /\ read' = [read EXCEPT !.value = "pending"]
  /\ screen' = Blank("pending")

-----------------------------------------------------------------------------
(* The `ready' chain.                                                      *)

\* What the readers make of an answer: a document of the exact form, or nothing.
Decoded(documents) == documents \cup {"refused"}

SessionDocument == Decoded({IF server.session = "active" THEN "in" ELSE "out"})

\* failClosedAuthority: an authority that is not accepted counts as limited.
AuthorityDocument == {IF a = "refused" THEN "limited" ELSE a : a \in Decoded({"limited", "full"})}

\* A configuration that is not accepted counts as disabled.
SocialConfigDocument == {c = "enabled" : c \in Decoded({"enabled", "disabled"})}

DeviceConfigDocument == {c # "refused" : c \in Decoded({"known"})}

FullDirectoryDocument == {d # "refused" : d \in Decoded({"available"})}

\* readSocialSession: the server's session, or an answer that is not accepted.
SessionAnswers ==
  /\ chain = "session"
  /\ \E document \in SessionDocument :
       IF document = "in" THEN RenderPendingAuthority /\ chain' = "authority"
       ELSE /\ RenderSignedOut(IF document = "out" THEN "out" ELSE "unavailable")
            /\ chain' = "done"
  /\ UNCHANGED <<route, loading, calls, entry, server>>

\* readSocialAuthority: a failed read counts as limited.
AuthorityAnswers ==
  /\ chain = "authority"
  /\ authority' \in AuthorityDocument
  /\ chain' = "config"
  /\ UNCHANGED <<session, configs, route, directory, loading, device, write, calls, read, entry, server>>
  /\ PaintProduct

FullHere == session = "in" /\ authority = "full"

\* loadFullDirectoryForRoute, up to its await.
CanLoadDirectory(retry) ==
  /\ directory.request = 0
  /\ IF retry THEN directory.state = "unavailable" ELSE ~directory.attempted
  /\ FullHere
  /\ route.hash \in {"full-network", "messages"}

StartLoading(ready) ==
  \E id \in 1..MaxRequests \ {l.id : l \in loading} :
     /\ loading' = loading \cup {[id |-> id, ready |-> ready]}
     /\ directory' = [state |-> "loading", attempted |-> TRUE, request |-> id, aborted |-> FALSE]

LoadDirectory(retry, ready) ==
  IF CanLoadDirectory(retry) THEN StartLoading(ready) ELSE UNCHANGED dirVars

\* The messaging configuration; then the directory is loaded for the route.
DeviceConfigAnswers ==
  /\ chain = "config"
  /\ \E known \in DeviceConfigDocument : configs' = [configs EXCEPT !.device = known]
  /\ LoadDirectory(FALSE, TRUE)
  /\ chain' = "directory"
  /\ UNCHANGED <<session, authority, route, device, write, calls, read, entry, server>>
  /\ PaintProduct

\* Fault: a messaging device is made on any page.
LoadMessagingDeviceAnywhere ==
  IF device.current = 0 /\ FullHere /\ configs.device
  THEN /\ device.made < MaxDevices
       /\ device' = [device EXCEPT !.current = device.made + 1, !.made = @ + 1]
  ELSE UNCHANGED device

\* loadMessagingDeviceForRoute, up to the device's own reconciliation.
LoadMessagingDevice ==
  IF device.current = 0 /\ FullHere /\ route.hash = "messages" /\ configs.device
  THEN /\ device.made < MaxDevices
       /\ device' = [device EXCEPT !.current = device.made + 1, !.made = @ + 1]
  ELSE UNCHANGED device

\* The loader the chain waits for is done: the device is loaded for the route.
ChainLoadsDevice ==
  /\ chain = "directory"
  /\ \A l \in loading : ~l.ready
  /\ LoadMessagingDevice
  /\ chain' = "publish"
  /\ UNCHANGED <<session, authority, configs, route, dirVars, writeVars, screen, entry, server>>

\* readSocialPublishConfig.
PublishConfigAnswers ==
  /\ chain = "publish"
  /\ \E enabled \in SocialConfigDocument :
       /\ configs' = [configs EXCEPT !.publish = enabled]
       /\ write' = IF enabled THEN [signer |-> "disconnected", op |-> "idle"]
                   ELSE DISABLED_PUBLIC_WRITE
  /\ chain' = "read"
  /\ UNCHANGED <<session, authority, route, dirVars, device, calls, read, entry, server>>
  /\ PaintProduct

\* readSocialPublicReadConfig settles on its own; the relay is then read, and
\* that read settles before the chain shows it.
ReadConfigAnswers ==
  /\ session # "none" /\ read.promise = "config"
  /\ \E enabled \in SocialConfigDocument :
       /\ configs' = [configs EXCEPT !.read = IF enabled THEN "on" ELSE @]
       /\ read' = [read EXCEPT !.promise = "asked"]
  /\ UNCHANGED <<session, authority, chain, route, dirVars, device, write, calls, screen, entry, server>>

\* The chain ends with the first public read, whatever happened meanwhile.
ChainShowsRead ==
  /\ chain = "read" /\ read.promise = "asked"
  /\ read' = [read EXCEPT !.value = "shown"]
  /\ chain' = "done"
  /\ UNCHANGED <<session, authority, configs, route, dirVars, device, write, calls, entry, server>>
  /\ PaintProduct

-----------------------------------------------------------------------------
(* The directory: an answer, the timer, a retry, a change of route.        *)

\* The timer aborts the request; its promise is rejected a little later.
DirectoryTimeout ==
  /\ directory.request # 0 /\ ~directory.aborted
  /\ directory' = [directory EXCEPT !.aborted = TRUE]
  /\ UNCHANGED <<pageVars, route, loading, device, writeVars, screen, entry, server>>

\* Fault: an aborted request is forgotten without the finally block.
DirectorySettlesUnaborted(l, ok) ==
  LET mine == session = "in" /\ directory.request = l.id /\ ~directory.aborted IN
  /\ loading' = loading \ {l}
  /\ directory' = IF ~mine THEN directory
                  ELSE [directory EXCEPT !.request = 0, !.state = IF ok THEN "available" ELSE "unavailable"]
  /\ UNCHANGED <<pageVars, route, device, writeVars, entry, server>>
  /\ IF mine THEN PaintProduct ELSE UNCHANGED screen

\* The rest of loadFullDirectoryForRoute, its catch and finally included.  An
\* answer may have been on its way when the request was aborted.
DirectorySettles(l, ok) ==
  LET mine == session = "in" /\ directory.request = l.id IN
  /\ loading' = loading \ {l}
  /\ directory' =
       IF ~mine THEN directory
       ELSE [directory EXCEPT !.request = 0, !.aborted = FALSE,
               !.state = IF ok /\ ~directory.aborted THEN "available" ELSE "unavailable"]
  /\ UNCHANGED <<pageVars, route, device, writeVars, entry, server>>
  /\ IF mine THEN PaintProduct ELSE UNCHANGED screen

RetryDirectory ==
  /\ CanLoadDirectory(TRUE)
  /\ StartLoading(FALSE)
  /\ UNCHANGED <<pageVars, route, device, writeVars, entry, server>>
  /\ PaintProduct

Navigate(hash) ==
  /\ route.left > 0 /\ hash # route.hash
  /\ route' = [hash |-> hash, event |-> TRUE, left |-> route.left - 1]
  /\ UNCHANGED <<pageVars, dirVars, device, writeVars, screen, entry, server>>

\* The hashchange listener: the old device goes, the page of the route is
\* painted, the directory and a new device are loaded for it.
HashChange ==
  /\ route.event
  /\ route' = [route EXCEPT !.event = FALSE]
  /\ LoadDirectory(FALSE, FALSE)
  /\ IF FullHere /\ route.hash = "messages" /\ configs.device
     THEN /\ device.made < MaxDevices
          /\ device' = [current |-> device.made + 1, made |-> device.made + 1, view |-> "unavailable"]
     ELSE ClearMessagingDevice
  /\ UNCHANGED <<pageVars, writeVars, entry, server>>
  /\ PaintProduct

\* onState of any device ever made: only the current one is listened to.
DeviceReports(d) ==
  /\ device.current = d /\ session = "in"
  /\ device' = [device EXCEPT !.view = "ready"]
  /\ UNCHANGED <<pageVars, route, dirVars, writeVars, entry, server>>
  /\ PaintProduct

-----------------------------------------------------------------------------
(* The signer and the publisher.                                           *)

Publishing == write.op = "publishing"

\* writeContextCurrent: the page still has the session the coroutine began with.
WriteContextCurrent == session = "in" /\ configs.publish

\* Fault: the signer can be connected anew during a publication.
ConnectSignerAnytime ==
  /\ session = "in" /\ configs.publish /\ write.signer # "connecting"
  /\ write' = [signer |-> "connecting", op |-> "idle"]
  /\ calls' = [calls EXCEPT !.connect = @ + 1]
  /\ UNCHANGED <<pageVars, route, dirVars, device, read, entry, server>>
  /\ PaintProduct

ConnectSigner ==
  /\ session = "in" /\ configs.publish
  /\ write.signer # "connecting" /\ ~Publishing
  /\ write' = [signer |-> "connecting", op |-> "idle"]
  /\ calls' = [calls EXCEPT !.connect = @ + 1]
  /\ UNCHANGED <<pageVars, route, dirVars, device, read, entry, server>>
  /\ PaintProduct

\* A mismatched key counts as unavailable.
SignerAnswers(result) ==
  /\ calls.connect > 0
  /\ calls' = [calls EXCEPT !.connect = @ - 1]
  /\ write' = IF WriteContextCurrent THEN [signer |-> result, op |-> "idle"] ELSE write
  /\ UNCHANGED <<pageVars, route, dirVars, device, read, entry, server>>
  /\ IF WriteContextCurrent THEN PaintProduct ELSE UNCHANGED screen

Publish ==
  /\ session = "in" /\ configs.publish
  /\ write.signer = "connected" /\ ~Publishing
  /\ calls.submitted < MaxPublishes
  /\ calls' = [calls EXCEPT !.publish = @ + 1, !.submitted = @ + 1]
  /\ write' = [signer |-> "connected", op |-> "publishing"]
  /\ UNCHANGED <<pageVars, route, dirVars, device, read, entry, server>>
  /\ PaintProduct

\* The publisher's promise settles; a publication is followed by a new read.
PublisherAnswers(ok) ==
  LET refreshed == ok /\ WriteContextCurrent /\ configs.read = "on" IN
  /\ calls.publish > 0
  /\ calls' = [calls EXCEPT !.publish = @ - 1, !.refresh = @ + (IF refreshed THEN 1 ELSE 0)]
  /\ write' = IF WriteContextCurrent
              THEN [signer |-> "connected", op |-> IF ok THEN "published" ELSE "failed"] ELSE write
  /\ UNCHANGED <<pageVars, route, dirVars, device, read, entry, server>>
  /\ IF WriteContextCurrent THEN PaintProduct ELSE UNCHANGED screen

\* refreshPublicRead after its await: the session is not looked at again.
RefreshAnswers ==
  /\ calls.refresh > 0
  /\ calls' = [calls EXCEPT !.refresh = @ - 1]
  /\ read' = [read EXCEPT !.value = "shown"]
  /\ UNCHANGED <<pageVars, route, dirVars, device, write, entry, server>>
  /\ PaintProduct

-----------------------------------------------------------------------------
(* Login and logout: createSocialEntryActions and the server.  One action   *)
(* is under way at a time; each request has a five second timer.            *)

\* Fault: `busy' is not reset when an action fails.
EntryIdleBusy == [entry EXCEPT !.step = "none"]

EntryIdle == [entry EXCEPT !.busy = "no", !.step = "none"]

\* login(): the entry configuration, a login context, then the page is left.
Login ==
  /\ session # "in" /\ entry.busy = "no"
  /\ entry' = [entry EXCEPT !.busy = "login", !.step = "mode"]
  /\ UNCHANGED <<pageVars, route, dirVars, device, writeVars, screen, server>>

LoginAnswers(ok) ==
  /\ entry.busy = "login"
  /\ entry' = IF ok /\ entry.step = "mode" /\ server.mobile
              THEN [entry EXCEPT !.step = "context"] ELSE EntryIdle
  /\ screen' = IF ok /\ entry'.busy = "no" THEN Blank("left") ELSE screen
  /\ UNCHANGED <<pageVars, route, dirVars, device, writeVars, server>>

\* The Sign out button is disabled from the click to the answer.
SignOutEnabled == session = "in" /\ entry.busy # "logout"

\* logout(): the device is given up at once.  While a login is under way the
\* entry actions refuse, and the button is offered again.
Logout ==
  /\ SignOutEnabled /\ entry.attempt < MaxAttempts
  /\ ClearMessagingDevice
  /\ entry' = [entry EXCEPT
       !.attempt = @ + 1,
       !.busy = IF @ = "no" THEN "logout" ELSE @,
       !.step = IF entry.busy # "no" THEN @ ELSE IF entry.csrf # 0 THEN "send" ELSE "mode"]
  /\ UNCHANGED <<pageVars, route, dirVars, writeVars, screen, server>>

\* The entry configuration is known; a mobile logout needs a context.
LogoutMode ==
  /\ entry.busy = "logout" /\ entry.step = "mode"
  /\ entry' = [entry EXCEPT !.step = IF server.mobile THEN "context" ELSE "send"]
  /\ UNCHANGED <<pageVars, route, dirVars, device, writeVars, screen, server>>

\* The server makes a context, or hands out the CSRF token of the one it has;
\* the answer may be lost.
LogoutContext(answered) ==
  LET id == IF server.context.id # 0 THEN server.context.id ELSE server.context.made + 1 IN
  /\ entry.busy = "logout" /\ entry.step = "context"
  /\ server.context.made < MaxAttempts \/ server.context.id # 0
  /\ server' = [server EXCEPT !.context.id = id,
                 !.context.made = IF server.context.id = 0 THEN @ + 1 ELSE @]
  /\ entry' = IF answered THEN [entry EXCEPT !.csrf = id, !.step = "send"] ELSE EntryIdle
  /\ UNCHANGED <<pageVars, route, dirVars, device, writeVars, screen>>

LogoutPost ==
  /\ entry.busy = "logout" /\ entry.step = "send"
  /\ entry' = [entry EXCEPT !.step = "post"]
  /\ server' = [server EXCEPT !.posted = @ \cup {[attempt |-> entry.attempt, csrf |-> entry.csrf]}]
  /\ UNCHANGED <<pageVars, route, dirVars, device, writeVars, screen>>

\* Fault: the page says Signed out when the logout was not confirmed.
LogoutFailsSignedOut ==
  /\ entry.busy = "logout"
  /\ entry' = EntryIdle
  /\ RenderSignedOut("out")
  /\ UNCHANGED <<chain, loading, calls, route, server>>

\* A failure of any request of a logout: "Sign out not confirmed", and the
\* CSRF token of its context is kept for the next attempt.
LogoutFails ==
  /\ entry.busy = "logout"
  /\ entry' = EntryIdle
  /\ UNCHANGED <<pageVars, route, dirVars, device, writeVars, screen, server>>

\* The server handles a logout, also one whose page no longer waits.  `pending'
\* is its answer while the upstream session could not be revoked.
ServerAnswer(post) ==
  IF server.mobile /\ post.csrf # server.context.id THEN {"refused"}
  ELSE IF ~server.mobile \/ server.context.complete THEN {"ended"} ELSE {"ended", "pending"}

ServerLogout(post, answer, answered) ==
  /\ answer \in ServerAnswer(post)
  /\ server' = [server EXCEPT
       !.posted = @ \ {post},
       !.session = CASE answer = "ended" -> "ended" [] answer = "pending" -> "denied" [] OTHER -> @,
       !.context.complete = @ \/ answer = "ended"]
  /\ IF answered /\ entry.busy = "logout" /\ entry.step = "post" /\ entry.attempt = post.attempt
     THEN IF answer = "ended"
          THEN /\ entry' = [EntryIdle EXCEPT !.csrf = 0]
               /\ RenderSignedOut("out")
               /\ route' = [route EXCEPT !.hash = "home"]
               /\ UNCHANGED <<chain, loading, calls>>
          ELSE /\ entry' = EntryIdle
               /\ UNCHANGED <<pageVars, route, dirVars, device, writeVars, screen>>
     ELSE UNCHANGED <<pageVars, route, dirVars, device, writeVars, screen, entry>>

\* A logout context lives ten minutes.
ContextExpires ==
  /\ server.context.id # 0
  /\ server' = [server EXCEPT !.context.id = 0, !.context.complete = FALSE]
  /\ UNCHANGED <<pageVars, route, dirVars, device, writeVars, screen, entry>>

-----------------------------------------------------------------------------
Init ==
  /\ session = "none" /\ authority = "none" /\ chain = "session"
  /\ configs = NoConfigs
  /\ route \in [hash : Routes, event : {FALSE}, left : {MaxNavigations}]
  /\ directory = NoDirectory /\ loading = {}
  /\ device = [current |-> 0, made |-> 0, view |-> "unavailable"]
  /\ write = DISABLED_PUBLIC_WRITE
  /\ calls = [connect |-> 0, publish |-> 0, submitted |-> 0, refresh |-> 0]
  /\ read = [value |-> "none", promise |-> "config"]
  /\ screen = Blank("boot")
  /\ entry = [busy |-> "no", step |-> "none", csrf |-> 0, attempt |-> 0]
  /\ server \in [session : {"active", "ended"}, mobile : BOOLEAN,
                 context : {[id |-> 0, made |-> 0, complete |-> FALSE]}, posted : {{}}]

PageStep ==
  \/ SessionAnswers \/ AuthorityAnswers \/ DeviceConfigAnswers \/ ChainLoadsDevice
  \/ PublishConfigAnswers \/ ReadConfigAnswers \/ ChainShowsRead
  \/ DirectoryTimeout \/ RetryDirectory \/ HashChange
  \/ \E l \in loading, ok \in FullDirectoryDocument : DirectorySettles(l, ok)
  \/ \E hash \in Routes : Navigate(hash)
  \/ \E d \in 1..device.made : DeviceReports(d)

WriteStep ==
  \/ ConnectSigner \/ Publish \/ RefreshAnswers
  \/ \E result \in {"connected", "unavailable"} : SignerAnswers(result)
  \/ \E ok \in BOOLEAN : PublisherAnswers(ok)

EntryStep ==
  \/ Login \/ Logout \/ LogoutMode \/ LogoutPost \/ LogoutFails \/ ContextExpires
  \/ \E ok \in BOOLEAN : LoginAnswers(ok)
  \/ \E answered \in BOOLEAN : LogoutContext(answered)
  \/ \E post \in server.posted, answer \in {"ended", "pending", "refused"}, answered \in BOOLEAN :
        ServerLogout(post, answer, answered)

\* A page that has been left does nothing more.
Next == screen.kind # "left" /\ (PageStep \/ WriteStep \/ EntryStep)

\* The timers: ten seconds for the directory, five for each request of an entry
\* action; an aborted request rejects.
Fairness ==
  /\ WF_vars(screen.kind # "left" /\ DirectoryTimeout)
  /\ WF_vars(screen.kind # "left" /\ directory.aborted /\
       \E l \in loading : l.id = directory.request /\ DirectorySettles(l, FALSE))
  /\ WF_vars(screen.kind # "left" /\ LogoutFails)
  /\ WF_vars(screen.kind # "left" /\ LoginAnswers(FALSE))

Spec == Init /\ [][Next]_vars /\ Fairness

-----------------------------------------------------------------------------
(* Properties.                                                             *)

EntryTypeOK ==
  /\ session \in {"none", "in", "out"} /\ authority \in {"none", "limited", "full"}
  /\ chain \in {"session", "authority", "config", "directory", "publish", "read", "done"}
  /\ configs \in [read : {"unknown", "on"}, publish : BOOLEAN, device : BOOLEAN]
  /\ route \in [hash : Routes, event : BOOLEAN, left : 0..MaxNavigations]
  /\ directory \in [state : {"unavailable", "loading", "available"}, attempted : BOOLEAN,
                    request : 0..MaxRequests, aborted : BOOLEAN]
  /\ loading \subseteq [id : 1..MaxRequests, ready : BOOLEAN]
  /\ device \in [current : 0..MaxDevices, made : 0..MaxDevices, view : {"unavailable", "ready"}]
  /\ write.signer \in {"disabled", "disconnected", "connecting", "connected", "unavailable"}
  /\ write.op \in {"idle", "publishing", "published", "failed"}
  /\ calls \in [connect : Nat, publish : Nat, submitted : 0..MaxPublishes, refresh : Nat]
  /\ entry \in [busy : {"no", "login", "logout"}, csrf : 0..MaxAttempts, attempt : 0..MaxAttempts,
                step : {"none", "mode", "context", "send", "post"}]

\* The page shows the outcome "Signed out" only of a session the server has ended,
\* whatever answers of earlier attempts were lost (logout of
\* social-entry-actions-v1.mjs).  The indicator has the same words while a session
\* is unavailable; that screen is another one here.
SignedOutIsEnded == screen.kind = "out" => server.session = "ended"

\* The directory says loading exactly while the current request has a loader
\* that waits for its answer: it is never left loading by an abort, a retry or
\* another session (loadFullDirectoryForRoute, finally).
DirectoryOwned ==
  /\ directory.state = "loading" <=> directory.request # 0
  /\ directory.request # 0 => \E l \in loading : l.id = directory.request

\* A painted product is that of the session, the authority, the directory and
\* the publication state of now; the directory is shown, and a messaging device
\* is alive, only with full authority, and the device only on its own route.
PageIsCurrent ==
  /\ screen.kind = "product" =>
       /\ session = "in" /\ screen.access = authority
       /\ screen.directory = directory.state /\ screen.write = write
  /\ directory.state = "available" => FullHere
  /\ device.current # 0 => FullHere /\ (route.hash = "messages" \/ route.event)

\* One publication and one connection at a time, and the page never forgets one
\* that is under way (the guards of connectSigner and publish).
OnePublish ==
  /\ calls.publish <= 1 /\ calls.connect <= 1
  /\ calls.publish = 1 /\ WriteContextCurrent => Publishing
  /\ calls.connect = 1 /\ WriteContextCurrent => write.signer = "connecting"

\* Every login, logout and load of the directory comes to an end, also when the
\* server never answers (the timers of auth-entry.mjs and social-entry-actions-v1.mjs).
EntrySettles ==
  /\ entry.busy # "no" ~> (entry.busy = "no" \/ screen.kind = "left")
  /\ directory.state = "loading" ~> (directory.state # "loading" \/ screen.kind = "left")
=============================================================================
