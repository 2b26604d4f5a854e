------------------------ MODULE EntryAndExchangeProofs ------------------------
(***************************************************************************)
(* Proofs about the browser's entry page (AuthEntry), for every number of  *)
(* navigations, requests, devices, publications and attempts to sign out,  *)
(* and about the two exchanges the project waits on (MCExchanges: one with *)
(* UBID, one with a relay), for every bound on the bytes of a reply, every *)
(* timeout and every limit of a read.                                      *)
(***************************************************************************)
EXTENDS AuthEntry, MCExchanges, FiniteSetTheorems, TLAPS

-----------------------------------------------------------------------------
(* The entry page: its inductive invariant.                                *)

Configs == [read : {"unknown", "on"}, publish : BOOLEAN, device : BOOLEAN]
Route == [hash : Routes, event : BOOLEAN, left : 0..MaxNavigations]
Directory == [state : {"unavailable", "loading", "available"}, attempted : BOOLEAN,
              request : 0..MaxRequests, aborted : BOOLEAN]
Loader == [id : 1..MaxRequests, ready : BOOLEAN]
Device == [current : 0..MaxDevices, made : 0..MaxDevices, view : {"unavailable", "ready"}]
Write == [signer : {"disabled", "disconnected", "connecting", "connected", "unavailable"},
          op : {"idle", "publishing", "published", "failed"}]
Calls == [connect : Nat, publish : Nat, submitted : 0..MaxPublishes, refresh : Nat]
Read == [value : {"none", "pending", "shown"}, promise : {"config", "asked"}]
Screen == [kind : {"boot", "out", "unavailable", "pending", "product", "left"},
           page : Routes \cup {"none", "not-found"}, access : {"none", "limited", "full"},
           directory : {"none", "unavailable", "loading", "available"}, write : Write,
           device : {"unavailable", "ready"}]
Entry == [busy : {"no", "login", "logout"}, csrf : 0..MaxAttempts, attempt : 0..MaxAttempts,
          step : {"none", "mode", "context", "send", "post"}]
Posted == [attempt : 0..MaxAttempts, csrf : 0..MaxAttempts]
Context == [id : 0..MaxAttempts, made : 0..MaxAttempts, complete : BOOLEAN]
Server == [session : {"active", "denied", "ended"}, mobile : BOOLEAN, context : Context,
           posted : SUBSET Posted]

\* EntryTypeOK and the types it leaves open.
Typed ==
  /\ session \in {"none", "in", "out"} /\ authority \in {"none", "limited", "full"}
  /\ chain \in {"session", "authority", "config", "directory", "publish", "read", "done"}
  /\ configs \in Configs /\ route \in Route
  /\ directory \in Directory /\ loading \subseteq Loader
  /\ device \in Device /\ write \in Write /\ calls \in Calls /\ read \in Read
  /\ screen \in Screen /\ entry \in Entry /\ server \in Server

\* Where the `ready' chain stands says what the page can know already.
Early == {"session", "authority", "config", "directory", "publish"}

Chain ==
  /\ chain = "session" <=> session = "none"
  /\ chain \in {"session", "authority"} => authority = "none"
  /\ chain \notin {"session", "authority"} /\ session = "in" => authority # "none"
  /\ chain \in Early => ~configs.publish /\ calls.publish = 0 /\ calls.connect = 0

\* A logout belongs to a signed-in page.  With the mobile logout, what is sent
\* names a context; before the page knows of a session nothing was sent.
LogoutOwned ==
  /\ entry.busy = "logout" => session = "in"
  /\ server.mobile =>
       /\ entry.busy = "logout" /\ entry.step \in {"send", "post"} => entry.csrf # 0
       /\ \A post \in server.posted : post.csrf # 0
  /\ chain = "session" =>
       server.posted = {} /\ server.session # "denied" /\ server.context.id = 0

\* Why "Signed out" stays true: an answer that still travels finds the context
\* complete or gone, and is not taken for a pending logout.
OutForGood ==
  screen.kind = "out" =>
    /\ session = "out" /\ server.session = "ended"
    /\ server.mobile => server.context.id = 0 \/ server.context.complete

\* A request for the directory is under way only on a page with full authority.
LoadedHere == directory.request # 0 => FullHere

\* A painted product was painted with an authority.
Painted == screen.kind = "product" => authority # "none"

\* A publication is under way only with a connected signer.
PublishConnected == write.op = "publishing" => write.signer = "connected"

EntryInv ==
  /\ Typed
  /\ Chain /\ LogoutOwned /\ OutForGood
  /\ LoadedHere /\ DirectoryOwned
  /\ Painted /\ PageIsCurrent
  /\ PublishConnected /\ OnePublish

-----------------------------------------------------------------------------
(* Types.                                                                  *)

LEMMA Bounds ==
  /\ MaxNavigations \in Nat /\ MaxRequests \in Nat /\ MaxDevices \in Nat
  /\ MaxPublishes \in Nat /\ MaxAttempts \in Nat
  BY EntryBounds

LEMMA Zeros ==
  0 \in 0..MaxRequests /\ 0 \in 0..MaxDevices /\ 0 \in 0..MaxAttempts
  BY Bounds

LEMMA OneMoreInRange ==
  ASSUME NEW n \in Nat, NEW m \in 0..n
  PROVE  /\ m < n => m + 1 \in 0..n /\ m + 1 \in 1..n
         /\ m > 0 => m - 1 \in 0..n
  OBVIOUS

LEMMA TypedIsOK == Typed => EntryTypeOK
  BY DEF Typed, EntryTypeOK, Configs, Route, Directory, Loader, Device, Write, Calls, Entry

\* What is painted is a screen when the page it shows has its types.
LEMMA PaintTyped ==
  ASSUME PaintProduct, screen \in Screen, route' \in Route,
         authority' \in {"none", "limited", "full"}, directory' \in Directory,
         write' \in Write, device' \in Device
  PROVE  screen' \in Screen
  BY DEF PaintProduct, Snapshot, PageShown, Screen, Route, Routes, Directory, Device

LEMMA BlankTyped ==
  ASSUME NEW why \in {"boot", "out", "unavailable", "pending", "product", "left"}
  PROVE  Blank(why) \in Screen
  BY DEF Blank, Screen, DISABLED_PUBLIC_WRITE, Write

LEMMA ConstantsTyped ==
  /\ NoConfigs \in Configs /\ NoDirectory \in Directory /\ DISABLED_PUBLIC_WRITE \in Write
  BY Bounds DEF NoConfigs, Configs, NoDirectory, Directory, DISABLED_PUBLIC_WRITE, Write

LEMMA ClearTyped == device \in Device /\ ClearMessagingDevice => device' \in Device
  BY Zeros DEF ClearMessagingDevice, Device

\* A reset page has its types.
LEMMA ResetTyped ==
  ASSUME Typed, \/ \E why \in {"out", "unavailable"} : RenderSignedOut(why)
                \/ RenderPendingAuthority
  PROVE  /\ session' \in {"in", "out"} /\ authority' = "none"
         /\ configs' \in Configs /\ directory' \in Directory /\ device' \in Device
         /\ write' \in Write /\ screen' \in Screen /\ read' \in Read
  <1>1. read' \in Read
    BY DEF Typed, RenderSignedOut, RenderPendingAuthority, Read
  <1>2. screen' \in Screen
    BY BlankTyped DEF RenderSignedOut, RenderPendingAuthority
  <1>3. QED
    BY <1>1, <1>2, ConstantsTyped, ClearTyped
       DEF Typed, RenderSignedOut, RenderPendingAuthority, ResetProduct

\* The loader of the directory.
LEMMA LoadTyped ==
  ASSUME Typed, NEW ready \in BOOLEAN, \/ StartLoading(ready)
                                      \/ \E retry \in BOOLEAN : LoadDirectory(retry, ready)
  PROVE  directory' \in Directory /\ loading' \subseteq Loader
  <1>1. ASSUME StartLoading(ready)
        PROVE  directory' \in Directory /\ loading' \subseteq Loader
    BY <1>1, Bounds DEF StartLoading, Typed, Directory, Loader
  <1>2. QED
    BY <1>1 DEF LoadDirectory, dirVars, Typed

LEMMA TypedStep == Typed /\ Next => Typed'
  <1> SUFFICES ASSUME Typed, Next
               PROVE  Typed'
    OBVIOUS
  <1> USE DEF Typed
  <1>1. ASSUME SessionAnswers
        PROVE  Typed'
    BY <1>1, PaintTyped, ResetTyped, BlankTyped, LoadTyped, ClearTyped, ConstantsTyped
       DEF SessionAnswers, SessionDocument, Decoded
  <1>2. ASSUME AuthorityAnswers
        PROVE  Typed'
    BY <1>2, PaintTyped, ResetTyped, BlankTyped, LoadTyped, ClearTyped, ConstantsTyped
       DEF AuthorityAnswers, AuthorityDocument, Decoded
  <1>3. ASSUME DeviceConfigAnswers
        PROVE  Typed'
    BY <1>3, PaintTyped, ResetTyped, BlankTyped, LoadTyped, ClearTyped, ConstantsTyped
       DEF DeviceConfigAnswers, DeviceConfigDocument, Decoded, Configs
  <1>4. ASSUME ChainLoadsDevice
        PROVE  Typed'
    <2>1. device' \in Device
      <3>1. device.made < MaxDevices => device.made + 1 \in 0..MaxDevices
        BY Bounds, OneMoreInRange DEF Device
      <3>2. QED
        BY <1>4, <3>1 DEF ChainLoadsDevice, LoadMessagingDevice, Device
    <2>2. QED
      BY <1>4, <2>1 DEF ChainLoadsDevice, dirVars, writeVars
  <1>5. ASSUME PublishConfigAnswers
        PROVE  Typed'
    <2>1. write' \in Write /\ configs' \in Configs
      <3>1. PICK enabled \in BOOLEAN :
               /\ configs' = [configs EXCEPT !.publish = enabled]
               /\ write' = IF enabled THEN [signer |-> "disconnected", op |-> "idle"]
                           ELSE DISABLED_PUBLIC_WRITE
        BY <1>5 DEF PublishConfigAnswers, SocialConfigDocument
      <3>2. configs' \in Configs
        BY <3>1 DEF Configs
      <3>3. [signer |-> "disconnected", op |-> "idle"] \in Write
        BY DEF Write
      <3>4. QED
        BY <3>1, <3>2, <3>3, ConstantsTyped
    <2>2. QED
      BY <1>5, <2>1, PaintTyped DEF PublishConfigAnswers, dirVars
  <1>6. ASSUME ReadConfigAnswers
        PROVE  Typed'
    BY <1>6, PaintTyped, ResetTyped, BlankTyped, LoadTyped, ClearTyped, ConstantsTyped
       DEF ReadConfigAnswers, SocialConfigDocument, Decoded, dirVars, Configs, Read
  <1>7. ASSUME ChainShowsRead
        PROVE  Typed'
    BY <1>7, PaintTyped, ResetTyped, BlankTyped, LoadTyped, ClearTyped, ConstantsTyped
       DEF ChainShowsRead, dirVars, Read
  <1>8. ASSUME DirectoryTimeout
        PROVE  Typed'
    BY <1>8, PaintTyped, ResetTyped, BlankTyped, LoadTyped, ClearTyped, ConstantsTyped
       DEF DirectoryTimeout, pageVars, writeVars, Directory
  <1>9. ASSUME RetryDirectory
        PROVE  Typed'
    BY <1>9, PaintTyped, ResetTyped, BlankTyped, LoadTyped, ClearTyped, ConstantsTyped
       DEF RetryDirectory, pageVars, writeVars
  <1>10. ASSUME HashChange
        PROVE  Typed'
    <2>1. route' \in Route
      BY <1>10 DEF HashChange, Route
    <2>2. device' \in Device
      <3>1. device.made < MaxDevices => device.made + 1 \in 0..MaxDevices
        BY Bounds, OneMoreInRange DEF Device
      <3>2. device.made < MaxDevices =>
              [current |-> device.made + 1, made |-> device.made + 1, view |-> "unavailable"]
                \in Device
        BY <3>1 DEF Device
      <3>3. QED
        BY <1>10, <3>2, ClearTyped DEF HashChange
    <2>3. directory' \in Directory /\ loading' \subseteq Loader
      BY <1>10, LoadTyped DEF HashChange
    <2>4. QED
      BY <1>10, <2>1, <2>2, <2>3, PaintTyped DEF HashChange, pageVars, writeVars
  <1>11. ASSUME ConnectSigner
        PROVE  Typed'
    BY <1>11, PaintTyped, ResetTyped, BlankTyped, LoadTyped, ClearTyped, ConstantsTyped
       DEF ConnectSigner, pageVars, dirVars, Write, Calls
  <1>12. ASSUME Publish
        PROVE  Typed'
    <2>1. write' \in Write
      BY <1>12 DEF Publish, Write
    <2>2. calls' \in Calls
      <3>1. calls.submitted < MaxPublishes => calls.submitted + 1 \in 0..MaxPublishes
        BY Bounds, OneMoreInRange DEF Calls
      <3>2. calls.publish + 1 \in Nat
        BY DEF Calls
      <3>3. QED
        BY <1>12, <3>1, <3>2 DEF Publish, Calls
    <2>3. QED
      BY <1>12, <2>1, <2>2, PaintTyped DEF Publish, pageVars, dirVars
  <1>13. ASSUME RefreshAnswers
        PROVE  Typed'
    BY <1>13, PaintTyped, ResetTyped, BlankTyped, LoadTyped, ClearTyped, ConstantsTyped
       DEF RefreshAnswers, pageVars, dirVars, Calls, Read
  <1>14. ASSUME Login
        PROVE  Typed'
    BY <1>14, PaintTyped, ResetTyped, BlankTyped, LoadTyped, ClearTyped, ConstantsTyped
       DEF Login, pageVars, dirVars, writeVars, Entry
  <1>15. ASSUME Logout
        PROVE  Typed'
    <2>1. entry' \in Entry
      <3>1. entry.attempt < MaxAttempts => entry.attempt + 1 \in 0..MaxAttempts
        BY Bounds, OneMoreInRange DEF Entry
      <3>2. QED
        BY <1>15, <3>1 DEF Logout, Entry
    <2>2. QED
      BY <1>15, <2>1, ClearTyped DEF Logout, pageVars, dirVars, writeVars
  <1>16. ASSUME LogoutMode
        PROVE  Typed'
    BY <1>16, PaintTyped, ResetTyped, BlankTyped, LoadTyped, ClearTyped, ConstantsTyped
       DEF LogoutMode, pageVars, dirVars, writeVars, Entry
  <1>17. ASSUME LogoutPost
        PROVE  Typed'
    BY <1>17, PaintTyped, ResetTyped, BlankTyped, LoadTyped, ClearTyped, ConstantsTyped
       DEF LogoutPost, pageVars, dirVars, writeVars, Server, Posted, Entry
  <1>18. ASSUME LogoutFails
        PROVE  Typed'
    BY <1>18, PaintTyped, ResetTyped, BlankTyped, LoadTyped, ClearTyped, ConstantsTyped
       DEF LogoutFails, EntryIdle, pageVars, dirVars, writeVars, Entry
  <1>19. ASSUME ContextExpires
        PROVE  Typed'
    <2>1. server' \in Server
      BY <1>19, Zeros DEF ContextExpires, Server, Context
    <2>2. QED
      BY <1>19, <2>1 DEF ContextExpires, pageVars, dirVars, writeVars
  <1>20. ASSUME NEW l \in loading, NEW ok \in BOOLEAN, DirectorySettles(l, ok)
        PROVE  Typed'
    <2>1. directory' \in Directory
      BY <1>20, Zeros DEF DirectorySettles, Directory
    <2>2. loading' \subseteq Loader
      BY <1>20 DEF DirectorySettles
    <2>3. UNCHANGED <<pageVars, route, device, writeVars, entry, server>>
      BY <1>20 DEF DirectorySettles
    <2>4. screen' = screen \/ PaintProduct
      BY <1>20 DEF DirectorySettles
    <2>5. QED
      BY <2>1, <2>2, <2>3, <2>4, PaintTyped DEF pageVars, writeVars
  <1>21. ASSUME NEW hash \in Routes, Navigate(hash)
        PROVE  Typed'
    <2>1. route.left - 1 \in 0..MaxNavigations
      BY <1>21, Bounds, OneMoreInRange DEF Navigate, Route
    <2>2. route' \in Route
      BY <1>21, <2>1 DEF Navigate, Route
    <2>3. QED
      BY <1>21, <2>2 DEF Navigate, pageVars, dirVars, writeVars
  <1>22. ASSUME NEW d \in 1..device.made, DeviceReports(d)
        PROVE  Typed'
    BY <1>22, PaintTyped, ResetTyped, BlankTyped, LoadTyped, ClearTyped, ConstantsTyped
       DEF DeviceReports, pageVars, dirVars, writeVars, Device
  <1>23. ASSUME NEW result \in {"connected", "unavailable"}, SignerAnswers(result)
        PROVE  Typed'
    BY <1>23, PaintTyped, ResetTyped, BlankTyped, LoadTyped, ClearTyped, ConstantsTyped
       DEF SignerAnswers, pageVars, dirVars, Write, Calls
  <1>24. ASSUME NEW ok \in BOOLEAN, PublisherAnswers(ok)
        PROVE  Typed'
    <2>1. write' \in Write
      BY <1>24 DEF PublisherAnswers, Write
    <2>2. calls' \in Calls
      <3>1. calls.publish - 1 \in Nat /\ calls.refresh \in Nat /\ calls.refresh + 1 \in Nat
        BY <1>24 DEF PublisherAnswers, Calls
      <3>2. PICK n \in Nat : calls' = [calls EXCEPT !.publish = @ - 1, !.refresh = n]
        <4> DEFINE n == calls.refresh + (IF ok /\ WriteContextCurrent /\ configs.read = "on"
                                         THEN 1 ELSE 0)
        <4>1. n \in Nat
          BY <3>1
        <4>2. calls' = [calls EXCEPT !.publish = @ - 1, !.refresh = n]
          BY <1>24 DEF PublisherAnswers
        <4>3. QED
          BY <4>1, <4>2
      <3>3. QED
        BY <3>1, <3>2 DEF Calls
    <2>3. screen' = screen \/ PaintProduct
      BY <1>24 DEF PublisherAnswers
    <2>4. QED
      BY <1>24, <2>1, <2>2, <2>3, PaintTyped DEF PublisherAnswers, pageVars, dirVars
  <1>25. ASSUME NEW ok \in BOOLEAN, LoginAnswers(ok)
        PROVE  Typed'
    BY <1>25, PaintTyped, ResetTyped, BlankTyped, LoadTyped, ClearTyped, ConstantsTyped
       DEF LoginAnswers, EntryIdle, pageVars, dirVars, writeVars, Entry
  <1>26. ASSUME NEW answered \in BOOLEAN, LogoutContext(answered)
        PROVE  Typed'
    <2>1. server.context \in Context
      BY DEF Server
    <2>2. server.context.made < MaxAttempts =>
            server.context.made + 1 \in 0..MaxAttempts /\ server.context.made + 1 \in 1..MaxAttempts
      BY <2>1, Bounds, OneMoreInRange DEF Context
    <2>3. PICK id \in 0..MaxAttempts, made \in 0..MaxAttempts :
             /\ server' = [server EXCEPT !.context.id = id, !.context.made = made]
             /\ entry' = IF answered THEN [entry EXCEPT !.csrf = id, !.step = "send"] ELSE EntryIdle
      <3>1. CASE server.context.id # 0
        BY <1>26, <2>1, <3>1 DEF LogoutContext, Context
      <3>2. CASE server.context.id = 0
        BY <1>26, <2>1, <2>2, <3>2 DEF LogoutContext, Context
      <3>3. QED
        BY <3>1, <3>2
    <2>4. entry' \in Entry
      <3>1. CASE answered
        BY <2>3, <3>1 DEF Entry
      <3>2. CASE ~answered
        BY <2>3, <3>2 DEF Entry, EntryIdle
      <3>3. QED
        BY <3>1, <3>2
    <2>5. server' \in Server
      BY <2>1, <2>3 DEF Server, Context
    <2>6. QED
      BY <1>26, <2>4, <2>5 DEF LogoutContext, pageVars, dirVars, writeVars
  <1>27. ASSUME NEW post \in server.posted, NEW answer \in {"ended", "pending", "refused"},
               NEW answered \in BOOLEAN, ServerLogout(post, answer, answered)
        PROVE  Typed'
    <2>1. server' \in Server
      BY <1>27 DEF ServerLogout, Server, Context
    <2>2. entry' \in Entry
      BY <1>27, Zeros DEF ServerLogout, Entry, EntryIdle
    <2>3. CASE RenderSignedOut("out") /\ route' = [route EXCEPT !.hash = "home"]
               /\ UNCHANGED <<chain, loading, calls>>
      <3>1. route' \in Route
        BY <2>3 DEF Route, Routes
      <3>2. QED
        BY <2>1, <2>2, <2>3, <3>1, ResetTyped
    <2>4. CASE UNCHANGED <<pageVars, route, dirVars, device, writeVars, screen>>
      BY <2>1, <2>2, <2>4 DEF pageVars, dirVars, writeVars
    <2>5. QED
      BY <1>27, <2>3, <2>4 DEF ServerLogout
  <1>28. CASE PageStep
    <2>1. FullDirectoryDocument \subseteq BOOLEAN
      BY DEF FullDirectoryDocument
    <2>2. QED
      BY <1>1, <1>2, <1>3, <1>4, <1>5, <1>6, <1>7, <1>8, <1>9, <1>10, <1>20, <1>21, <1>22,
         <1>28, <2>1 DEF PageStep
  <1>29. CASE WriteStep
    BY <1>11, <1>12, <1>13, <1>23, <1>24, <1>29 DEF WriteStep
  <1>30. CASE EntryStep
    BY <1>14, <1>15, <1>16, <1>17, <1>18, <1>19, <1>25, <1>26, <1>27, <1>30 DEF EntryStep
  <1>31. QED
    BY <1>28, <1>29, <1>30 DEF Next

-----------------------------------------------------------------------------
(* Steps that leave the session, the chain and the authority alone.        *)

\* All that the other parts of the invariant read, but for one kind of step.
LEMMA ChainStep == EntryInv /\ Next => Chain'
  <1> SUFFICES ASSUME EntryInv, Next
               PROVE  Chain'
    OBVIOUS
  <1> USE DEF EntryInv, Chain, Early
  <1>1. CASE SessionAnswers
    BY <1>1 DEF SessionAnswers, RenderSignedOut, RenderPendingAuthority, ResetProduct, NoConfigs
  <1>2. CASE AuthorityAnswers
    BY <1>2 DEF AuthorityAnswers, AuthorityDocument, Decoded
  <1>3. CASE DeviceConfigAnswers \/ ChainLoadsDevice \/ ReadConfigAnswers
    BY <1>3 DEF DeviceConfigAnswers, ChainLoadsDevice, ReadConfigAnswers, writeVars, Typed, Configs
  <1>4. CASE PublishConfigAnswers \/ ChainShowsRead
    BY <1>4 DEF PublishConfigAnswers, ChainShowsRead
  <1>5. CASE ConnectSigner \/ Publish \/ \E ok \in BOOLEAN : PublisherAnswers(ok)
                \/ \E result \in {"connected", "unavailable"} : SignerAnswers(result)
    <2>1. UNCHANGED <<session, authority, chain, configs>>
      BY <1>5 DEF ConnectSigner, Publish, PublisherAnswers, SignerAnswers, pageVars
    <2>2. configs.publish \/ calls.publish # 0 \/ calls.connect # 0
      <3>1. ASSUME NEW ok \in BOOLEAN, PublisherAnswers(ok)
            PROVE  calls.publish # 0
        BY <3>1 DEF PublisherAnswers, Typed, Calls
      <3>2. ASSUME NEW result, SignerAnswers(result)
            PROVE  calls.connect # 0
        BY <3>2 DEF SignerAnswers, Typed, Calls
      <3>3. QED
        BY <1>5, <3>1, <3>2 DEF ConnectSigner, Publish
    <2>3. QED
      BY <2>1, <2>2
  <1>6. CASE RefreshAnswers
    BY <1>6 DEF RefreshAnswers, pageVars, Typed, Calls
  <1>7. CASE \E post \in server.posted, answer \in {"ended", "pending", "refused"},
                answered \in BOOLEAN : ServerLogout(post, answer, answered)
    BY <1>7 DEF ServerLogout, RenderSignedOut, ResetProduct, NoConfigs, LogoutOwned, pageVars, writeVars
  <1>8. CASE UNCHANGED pageVars /\ UNCHANGED calls
    BY <1>8 DEF pageVars
  <1>9. QED
    BY <1>1, <1>2, <1>3, <1>4, <1>5, <1>6, <1>7, <1>8
       DEF Next, PageStep, WriteStep, EntryStep, DirectoryTimeout, RetryDirectory, HashChange,
           DirectorySettles, Navigate, DeviceReports, writeVars, Login, Logout, LogoutMode,
           LogoutPost, LogoutFails, ContextExpires, LoginAnswers, LogoutContext

-----------------------------------------------------------------------------
(* Signing out.                                                            *)

LEMMA OutStep == EntryInv /\ Next => LogoutOwned' /\ OutForGood'
  <1> SUFFICES ASSUME EntryInv, Next
               PROVE  LogoutOwned' /\ OutForGood'
    OBVIOUS
  <1> USE DEF LogoutOwned, OutForGood
  <1>0. /\ Chain /\ LogoutOwned /\ OutForGood
        /\ entry \in Entry /\ server \in Server /\ server.context \in Context
        /\ server.posted \in SUBSET Posted
    BY DEF EntryInv, Typed, Server
  <1>1. CASE SessionAnswers
    BY <1>0, <1>1 DEF SessionAnswers, RenderSignedOut, RenderPendingAuthority, SessionDocument,
                      Decoded, Blank, Chain, Server, Context
  <1>2. ASSUME UNCHANGED <<session, entry, server>>, chain' # "session",
               screen' = screen \/ screen'.kind # "out"
        PROVE  LogoutOwned' /\ OutForGood'
    BY <1>0, <1>2
  <1>3. PaintProduct => screen' = screen \/ screen'.kind # "out"
    BY DEF PaintProduct, Snapshot
  <1>4. CASE (PageStep /\ ~SessionAnswers) \/ WriteStep
    <2>1. UNCHANGED <<session, entry, server>>
      BY <1>4 DEF PageStep, WriteStep, AuthorityAnswers, DeviceConfigAnswers, ChainLoadsDevice,
             PublishConfigAnswers, ReadConfigAnswers, ChainShowsRead, DirectoryTimeout, RetryDirectory,
             HashChange, DirectorySettles, Navigate, DeviceReports, ConnectSigner, Publish,
             RefreshAnswers, SignerAnswers, PublisherAnswers, pageVars
    <2>2. screen' = screen \/ PaintProduct
      BY <1>4 DEF PageStep, WriteStep, AuthorityAnswers, DeviceConfigAnswers, ChainLoadsDevice,
             PublishConfigAnswers, ReadConfigAnswers, ChainShowsRead, DirectoryTimeout, RetryDirectory,
             HashChange, DirectorySettles, Navigate, DeviceReports, ConnectSigner, Publish,
             RefreshAnswers, SignerAnswers, PublisherAnswers
    <2>3. chain' # chain => chain' # "session"
      BY <1>4 DEF PageStep, WriteStep, AuthorityAnswers, DeviceConfigAnswers, ChainLoadsDevice,
             PublishConfigAnswers, ReadConfigAnswers, ChainShowsRead, DirectoryTimeout, RetryDirectory,
             HashChange, DirectorySettles, Navigate, DeviceReports, ConnectSigner, Publish,
             RefreshAnswers, SignerAnswers, PublisherAnswers, pageVars
    <2>4. QED
      BY <1>0, <1>3, <2>1, <2>2, <2>3
  <1>5. CASE Login
    BY <1>0, <1>5 DEF Login, pageVars, Entry
  <1>12. ASSUME NEW ok \in BOOLEAN, LoginAnswers(ok)
         PROVE  LogoutOwned' /\ OutForGood'
    <2>1. UNCHANGED <<session, chain, server>> /\ (screen' = screen \/ screen'.kind = "left")
      BY <1>12 DEF LoginAnswers, pageVars, Blank
    <2>2. entry.busy = "login" /\ entry'.busy \in {"no", "login"}
      BY <1>0, <1>12 DEF LoginAnswers, EntryIdle, Entry
    <2>3. QED
      BY <1>0, <2>1, <2>2
  <1>6. CASE Logout \/ LogoutMode \/ LogoutFails
    BY <1>0, <1>6 DEF Logout, SignOutEnabled, LogoutMode, LogoutFails, EntryIdle, pageVars, Entry
  <1>7. CASE LogoutPost
    BY <1>0, <1>7 DEF LogoutPost, pageVars, Chain, Server, Entry
  <1>8. CASE ContextExpires
    BY <1>0, <1>8 DEF ContextExpires, pageVars, Server, Context
  <1>9. ASSUME NEW answered \in BOOLEAN, LogoutContext(answered)
        PROVE  LogoutOwned' /\ OutForGood'
    BY <1>0, <1>9 DEF LogoutContext, EntryIdle, pageVars, Server, Context, Entry, Chain
  <1>10. ASSUME NEW post \in server.posted, NEW answer \in {"ended", "pending", "refused"},
                NEW answered \in BOOLEAN, ServerLogout(post, answer, answered)
         PROVE  LogoutOwned' /\ OutForGood'
    BY <1>0, <1>10 DEF ServerLogout, ServerAnswer, RenderSignedOut, EntryIdle, pageVars, Server,
                       Context, Entry, Posted, Chain, Blank
  <1>11. QED
    BY <1>1, <1>4, <1>5, <1>6, <1>7, <1>8, <1>9, <1>10, <1>12 DEF Next, EntryStep

-----------------------------------------------------------------------------
(* The directory and what is painted.                                      *)

LEMMA DirectoryStep == EntryInv /\ Next => LoadedHere' /\ DirectoryOwned'
  <1> SUFFICES ASSUME EntryInv, Next
               PROVE  LoadedHere' /\ DirectoryOwned'
    OBVIOUS
  <1> USE DEF LoadedHere, DirectoryOwned, FullHere
  <1>0. /\ Chain /\ LoadedHere /\ DirectoryOwned /\ LogoutOwned
        /\ directory \in Directory /\ loading \in SUBSET Loader
    BY DEF EntryInv, Typed
  <1>1. ASSUME UNCHANGED <<session, authority>>, NEW ready \in BOOLEAN, FullHere,
               StartLoading(ready)
        PROVE  LoadedHere' /\ DirectoryOwned'
    <2>1. PICK id \in 1..MaxRequests :
             /\ loading' = loading \cup {[id |-> id, ready |-> ready]}
             /\ directory' = [state |-> "loading", attempted |-> TRUE, request |-> id, aborted |-> FALSE]
      BY <1>1 DEF StartLoading
    <2>2. id # 0
      OBVIOUS
    <2>3. LoadedHere'
      BY <1>1
    <2>4. directory'.state = "loading" /\ directory'.request = id
      BY <2>1
    <2>5. \E l \in loading' : l.id = id
      <3>1. [id |-> id, ready |-> ready] \in loading'
        BY <2>1
      <3>2. [id |-> id, ready |-> ready].id = id
        OBVIOUS
      <3>3. QED
        BY <3>1, <3>2
    <2>6. QED
      BY <2>2, <2>3, <2>4, <2>5
  <1>2. ASSUME UNCHANGED <<session, authority, directory, loading>>
        PROVE  LoadedHere' /\ DirectoryOwned'
    BY <1>0, <1>2
  <1>3. ASSUME directory' = NoDirectory
        PROVE  LoadedHere' /\ DirectoryOwned'
    BY <1>3 DEF NoDirectory
  <1>4. CASE SessionAnswers
    BY <1>3, <1>4 DEF SessionAnswers, RenderSignedOut, RenderPendingAuthority, ResetProduct
  <1>5. CASE AuthorityAnswers
    BY <1>0, <1>5 DEF AuthorityAnswers, Chain
  <1>6. ASSUME UNCHANGED <<session, authority>>, NEW retry \in BOOLEAN, NEW ready \in BOOLEAN,
               LoadDirectory(retry, ready)
        PROVE  LoadedHere' /\ DirectoryOwned'
    BY <1>1, <1>2, <1>6 DEF LoadDirectory, CanLoadDirectory, dirVars
  <1>7. CASE DeviceConfigAnswers \/ HashChange
    BY <1>6, <1>7 DEF DeviceConfigAnswers, HashChange, pageVars
  <1>8. CASE RetryDirectory
    BY <1>1, <1>8 DEF RetryDirectory, CanLoadDirectory, pageVars
  <1>9. CASE DirectoryTimeout
    BY <1>0, <1>9 DEF DirectoryTimeout, pageVars, Directory
  <1>10. ASSUME NEW l \in loading, NEW ok \in BOOLEAN, DirectorySettles(l, ok)
         PROVE  LoadedHere' /\ DirectoryOwned'
    <2>1. UNCHANGED <<session, authority>> /\ loading' = loading \ {l}
      BY <1>10 DEF DirectorySettles, pageVars
    <2>2. CASE session = "in" /\ directory.request = l.id
      BY <1>0, <1>10, <2>1, <2>2 DEF DirectorySettles, Directory
    <2>3. CASE ~(session = "in" /\ directory.request = l.id)
      <3>1. UNCHANGED directory
        BY <1>10, <2>3 DEF DirectorySettles
      <3>2. QED
        BY <1>0, <2>1, <2>3, <3>1
    <2>4. QED
      BY <2>2, <2>3
  <1>11. ASSUME NEW post \in server.posted, NEW answer \in {"ended", "pending", "refused"},
                NEW answered \in BOOLEAN, ServerLogout(post, answer, answered)
         PROVE  LoadedHere' /\ DirectoryOwned'
    BY <1>2, <1>3, <1>11 DEF ServerLogout, RenderSignedOut, ResetProduct, pageVars, dirVars
  <1>12. CASE WriteStep
    BY <1>2, <1>12 DEF WriteStep, ConnectSigner, Publish, RefreshAnswers, SignerAnswers,
                       PublisherAnswers, pageVars, dirVars
  <1>13. CASE \/ ChainLoadsDevice \/ PublishConfigAnswers \/ ReadConfigAnswers \/ ChainShowsRead
              \/ \E hash \in Routes : Navigate(hash)
              \/ \E d \in 1..device.made : DeviceReports(d)
    BY <1>2, <1>13 DEF ChainLoadsDevice, PublishConfigAnswers, ReadConfigAnswers, ChainShowsRead,
                       Navigate, DeviceReports, pageVars, dirVars
  <1>14. CASE \/ Login \/ Logout \/ LogoutMode \/ LogoutPost \/ LogoutFails \/ ContextExpires
              \/ \E ok \in BOOLEAN : LoginAnswers(ok)
              \/ \E answered \in BOOLEAN : LogoutContext(answered)
    BY <1>2, <1>14 DEF Login, Logout, LogoutMode, LogoutPost, LogoutFails, ContextExpires,
                       LoginAnswers, LogoutContext, pageVars, dirVars
  <1>15. FullDirectoryDocument \subseteq BOOLEAN
    BY DEF FullDirectoryDocument
  <1>16. QED
    BY <1>4, <1>5, <1>7, <1>8, <1>9, <1>10, <1>11, <1>12, <1>13, <1>14, <1>15
       DEF Next, PageStep, EntryStep

\* A product that is painted now shows what is true now.
LEMMA PaintedNow ==
  ASSUME EntryInv, PaintProduct, UNCHANGED <<session, authority>> \/ authority = "none"
  PROVE  screen'.kind = "product" =>
           /\ session' = "in" /\ authority' # "none" /\ screen'.access = authority'
           /\ screen'.directory = directory'.state /\ screen'.write = write'
  <1>1. screen.kind = "product" => session = "in" /\ authority # "none"
    BY DEF EntryInv, Painted, PageIsCurrent
  <1>2. QED
    BY <1>1 DEF PaintProduct, Snapshot

LEMMA PaintedStep ==
  EntryInv /\ Next =>
    (screen.kind = "product" =>
       /\ session = "in" /\ authority # "none" /\ screen.access = authority
       /\ screen.directory = directory.state /\ screen.write = write)'
  <1> SUFFICES ASSUME EntryInv, Next, screen'.kind = "product"
               PROVE  /\ session' = "in" /\ authority' # "none" /\ screen'.access = authority'
                      /\ screen'.directory = directory'.state /\ screen'.write = write'
    OBVIOUS
  <1> DEFINE Now == /\ session' = "in" /\ authority' # "none" /\ screen'.access = authority'
                    /\ screen'.directory = directory'.state /\ screen'.write = write'
  <1>0. /\ Chain /\ directory \in Directory
        /\ screen.kind = "product" =>
             /\ session = "in" /\ authority # "none" /\ screen.access = authority
             /\ screen.directory = directory.state /\ screen.write = write
    BY DEF EntryInv, Typed, Painted, PageIsCurrent
  <1> HIDE DEF Now
  <1>1. ASSUME PaintProduct, UNCHANGED <<session, authority>> \/ authority = "none"
        PROVE  Now
    BY <1>1, PaintedNow DEF Now
  <1>2. ASSUME UNCHANGED <<session, authority, write, screen>>, directory'.state = directory.state
        PROVE  Now
    BY <1>0, <1>2 DEF Now
  <1>3. ASSUME NEW why \in {"out", "unavailable", "pending", "left"}, screen' = Blank(why)
        PROVE  FALSE
    BY <1>3 DEF Blank
  <1>4. ASSUME SessionAnswers
        PROVE  Now
    <2>1. \E why \in {"out", "unavailable", "pending"} : screen' = Blank(why)
      BY <1>4 DEF SessionAnswers, RenderSignedOut, RenderPendingAuthority
    <2>2. QED
      BY <1>3, <2>1
  <1>5. ASSUME AuthorityAnswers
        PROVE  Now
    BY <1>0, <1>1, <1>5 DEF AuthorityAnswers, Chain
  <1>6. ASSUME \/ DeviceConfigAnswers \/ PublishConfigAnswers \/ ChainShowsRead \/ RetryDirectory
               \/ HashChange \/ ConnectSigner \/ Publish \/ RefreshAnswers
               \/ \E d \in 1..device.made : DeviceReports(d)
        PROVE  Now
    BY <1>1, <1>6 DEF DeviceConfigAnswers, PublishConfigAnswers, ChainShowsRead, RetryDirectory,
                      HashChange, ConnectSigner, Publish, RefreshAnswers, DeviceReports, pageVars
  <1>7. ASSUME \/ \E result \in {"connected", "unavailable"} : SignerAnswers(result)
               \/ \E ok \in BOOLEAN : PublisherAnswers(ok)
        PROVE  Now
    BY <1>1, <1>2, <1>7 DEF SignerAnswers, PublisherAnswers, pageVars, dirVars
  <1>8. ASSUME NEW l \in loading, NEW ok \in BOOLEAN, DirectorySettles(l, ok)
        PROVE  Now
    BY <1>1, <1>2, <1>8 DEF DirectorySettles, pageVars, writeVars
  <1>9. ASSUME DirectoryTimeout
        PROVE  Now
    BY <1>0, <1>2, <1>9 DEF DirectoryTimeout, pageVars, writeVars, Directory
  <1>10. ASSUME \/ ChainLoadsDevice \/ ReadConfigAnswers \/ (\E hash \in Routes : Navigate(hash))
                \/ Login \/ Logout \/ LogoutMode \/ LogoutPost \/ LogoutFails \/ ContextExpires
                \/ \E answered \in BOOLEAN : LogoutContext(answered)
        PROVE  Now
    BY <1>2, <1>10 DEF ChainLoadsDevice, ReadConfigAnswers, Navigate, Login, Logout, LogoutMode,
                       LogoutPost, LogoutFails, ContextExpires, LogoutContext, pageVars, dirVars,
                       writeVars
  <1>11. ASSUME NEW ok \in BOOLEAN, LoginAnswers(ok)
         PROVE  Now
    BY <1>2, <1>3, <1>11 DEF LoginAnswers, pageVars, dirVars, writeVars
  <1>12. ASSUME NEW post \in server.posted, NEW answer \in {"ended", "pending", "refused"},
                NEW answered \in BOOLEAN, ServerLogout(post, answer, answered)
         PROVE  Now
    BY <1>2, <1>3, <1>12 DEF ServerLogout, RenderSignedOut, pageVars, dirVars, writeVars
  <1>13. Now
    <2>1. FullDirectoryDocument \subseteq BOOLEAN
      BY DEF FullDirectoryDocument
    <2>2. QED
      BY <1>4, <1>5, <1>6, <1>7, <1>8, <1>9, <1>10, <1>11, <1>12, <2>1
         DEF Next, PageStep, WriteStep, EntryStep
  <1>14. QED
    BY <1>13 DEF Now

\* The other two parts of PageIsCurrent.
DirectoryShown == directory.state = "available" => FullHere
DeviceHere == device.current # 0 => FullHere /\ (route.hash = "messages" \/ route.event)

LEMMA ShownStep == EntryInv /\ Next => DirectoryShown'
  <1> SUFFICES ASSUME EntryInv, Next
               PROVE  DirectoryShown'
    OBVIOUS
  <1>0. Chain /\ LoadedHere /\ DirectoryShown /\ directory \in Directory
    BY DEF EntryInv, Typed, PageIsCurrent, DirectoryShown
  <1> USE DEF DirectoryShown, FullHere
  <1>1. ASSUME UNCHANGED <<session, authority>>, directory'.state # "available" \/ UNCHANGED directory
        PROVE  DirectoryShown'
    BY <1>0, <1>1
  <1>2. ASSUME directory' = NoDirectory
        PROVE  DirectoryShown'
    BY <1>2 DEF NoDirectory
  <1>3. CASE SessionAnswers
    BY <1>2, <1>3 DEF SessionAnswers, RenderSignedOut, RenderPendingAuthority, ResetProduct
  <1>4. CASE AuthorityAnswers
    BY <1>0, <1>4 DEF AuthorityAnswers, Chain
  <1>5. ASSUME NEW ready \in BOOLEAN, StartLoading(ready)
        PROVE  directory'.state = "loading"
    BY <1>5 DEF StartLoading
  <1>6. CASE DeviceConfigAnswers \/ HashChange \/ RetryDirectory
    BY <1>1, <1>5, <1>6 DEF DeviceConfigAnswers, HashChange, RetryDirectory, LoadDirectory,
                            pageVars, dirVars
  <1>7. CASE DirectoryTimeout
    BY <1>0, <1>7 DEF DirectoryTimeout, pageVars, Directory
  <1>8. ASSUME NEW l \in loading, NEW ok \in BOOLEAN, DirectorySettles(l, ok)
        PROVE  DirectoryShown'
    <2>1. l.id # 0
      BY DEF EntryInv, Typed, Loader
    <2>2. UNCHANGED <<session, authority>>
      BY <1>8 DEF DirectorySettles, pageVars
    <2>3. CASE session = "in" /\ directory.request = l.id
      BY <1>0, <2>1, <2>2, <2>3 DEF LoadedHere
    <2>4. CASE ~(session = "in" /\ directory.request = l.id)
      BY <1>1, <1>8, <2>2, <2>4 DEF DirectorySettles
    <2>5. QED
      BY <2>3, <2>4
  <1>9. ASSUME NEW post \in server.posted, NEW answer \in {"ended", "pending", "refused"},
               NEW answered \in BOOLEAN, ServerLogout(post, answer, answered)
        PROVE  DirectoryShown'
    BY <1>1, <1>2, <1>9 DEF ServerLogout, RenderSignedOut, ResetProduct, pageVars, dirVars
  <1>10. CASE \/ ChainLoadsDevice \/ PublishConfigAnswers \/ ReadConfigAnswers \/ ChainShowsRead
              \/ \E hash \in Routes : Navigate(hash)
              \/ \E d \in 1..device.made : DeviceReports(d)
    BY <1>1, <1>10 DEF ChainLoadsDevice, PublishConfigAnswers, ReadConfigAnswers, ChainShowsRead,
                       Navigate, DeviceReports, pageVars, dirVars
  <1>11. CASE WriteStep
    BY <1>1, <1>11 DEF WriteStep, ConnectSigner, Publish, RefreshAnswers, SignerAnswers,
                       PublisherAnswers, pageVars, dirVars
  <1>12. CASE \/ Login \/ Logout \/ LogoutMode \/ LogoutPost \/ LogoutFails \/ ContextExpires
              \/ \E ok \in BOOLEAN : LoginAnswers(ok)
              \/ \E answered \in BOOLEAN : LogoutContext(answered)
    BY <1>1, <1>12 DEF Login, Logout, LogoutMode, LogoutPost, LogoutFails, ContextExpires,
                       LoginAnswers, LogoutContext, pageVars, dirVars
  <1>13. FullDirectoryDocument \subseteq BOOLEAN
    BY DEF FullDirectoryDocument
  <1>14. QED
    BY <1>3, <1>4, <1>6, <1>7, <1>8, <1>9, <1>10, <1>11, <1>12, <1>13
       DEF Next, PageStep, EntryStep

LEMMA DeviceStep == EntryInv /\ Next => DeviceHere'
  <1> SUFFICES ASSUME EntryInv, Next
               PROVE  DeviceHere'
    OBVIOUS
  <1>0. Chain /\ DeviceHere /\ device \in Device /\ route \in Route
    BY DEF EntryInv, Typed, PageIsCurrent, DeviceHere
  <1> USE DEF DeviceHere, FullHere
  <1>1. ASSUME UNCHANGED <<session, authority, device, route>>
        PROVE  DeviceHere'
    BY <1>0, <1>1
  <1>2. ASSUME ClearMessagingDevice
        PROVE  DeviceHere'
    BY <1>0, <1>2 DEF ClearMessagingDevice, Device
  <1>3. CASE SessionAnswers
    BY <1>2, <1>3 DEF SessionAnswers, RenderSignedOut, RenderPendingAuthority
  <1>4. CASE AuthorityAnswers
    BY <1>0, <1>4 DEF AuthorityAnswers, Chain
  <1>5. CASE ChainLoadsDevice
    BY <1>0, <1>5 DEF ChainLoadsDevice, LoadMessagingDevice
  <1>6. CASE HashChange
    <2>1. UNCHANGED <<session, authority>> /\ route'.hash = route.hash
      BY <1>0, <1>6 DEF HashChange, pageVars, Route
    <2>2. QED
      BY <1>2, <1>6, <2>1 DEF HashChange
  <1>7. ASSUME NEW hash \in Routes, Navigate(hash)
        PROVE  DeviceHere'
    BY <1>0, <1>7 DEF Navigate, pageVars
  <1>8. ASSUME NEW d \in 1..device.made, DeviceReports(d)
        PROVE  DeviceHere'
    BY <1>0, <1>8 DEF DeviceReports, pageVars, Device
  <1>9. CASE Logout
    BY <1>2, <1>9 DEF Logout
  <1>10. ASSUME NEW post \in server.posted, NEW answer \in {"ended", "pending", "refused"},
                NEW answered \in BOOLEAN, ServerLogout(post, answer, answered)
         PROVE  DeviceHere'
    BY <1>1, <1>2, <1>10 DEF ServerLogout, RenderSignedOut, pageVars
  <1>11. CASE \/ DeviceConfigAnswers \/ PublishConfigAnswers \/ ReadConfigAnswers
              \/ ChainShowsRead \/ DirectoryTimeout \/ RetryDirectory
              \/ \E l \in loading, ok \in FullDirectoryDocument : DirectorySettles(l, ok)
    BY <1>1, <1>11 DEF DeviceConfigAnswers, PublishConfigAnswers, ReadConfigAnswers, ChainShowsRead,
                       DirectoryTimeout, RetryDirectory, DirectorySettles, pageVars
  <1>12. CASE WriteStep
    BY <1>1, <1>12 DEF WriteStep, ConnectSigner, Publish, RefreshAnswers, SignerAnswers,
                       PublisherAnswers, pageVars
  <1>13. CASE \/ Login \/ LogoutMode \/ LogoutPost \/ LogoutFails \/ ContextExpires
              \/ \E ok \in BOOLEAN : LoginAnswers(ok)
              \/ \E answered \in BOOLEAN : LogoutContext(answered)
    BY <1>1, <1>13 DEF Login, LogoutMode, LogoutPost, LogoutFails, ContextExpires,
                       LoginAnswers, LogoutContext, pageVars
  <1>14. QED
    BY <1>3, <1>4, <1>5, <1>6, <1>7, <1>8, <1>9, <1>10, <1>11, <1>12, <1>13
       DEF Next, PageStep, EntryStep

-----------------------------------------------------------------------------
(* Publications.                                                           *)

LEMMA PublishStep == EntryInv /\ Next => PublishConnected' /\ OnePublish'
  <1> SUFFICES ASSUME EntryInv, Next
               PROVE  PublishConnected' /\ OnePublish'
    OBVIOUS
  <1> USE DEF PublishConnected, OnePublish, Publishing, WriteContextCurrent
  <1>0. /\ Chain /\ PublishConnected /\ OnePublish /\ calls \in Calls /\ write \in Write
    BY DEF EntryInv, Typed
  <1>1. calls.publish \in {0, 1} /\ calls.connect \in {0, 1}
    BY <1>0 DEF Calls
  <1>2. ASSUME UNCHANGED <<session, write>>, configs'.publish = configs.publish,
               calls'.publish = calls.publish, calls'.connect = calls.connect
        PROVE  PublishConnected' /\ OnePublish'
    BY <1>0, <1>2
  <1>3. ASSUME session' = "out", UNCHANGED calls, write' = DISABLED_PUBLIC_WRITE
        PROVE  PublishConnected' /\ OnePublish'
    BY <1>0, <1>3 DEF DISABLED_PUBLIC_WRITE
  <1>4. CASE SessionAnswers
    BY <1>0, <1>4 DEF SessionAnswers, RenderSignedOut, RenderPendingAuthority, ResetProduct,
                      NoConfigs, DISABLED_PUBLIC_WRITE
  <1>5. CASE PublishConfigAnswers
    BY <1>0, <1>5 DEF PublishConfigAnswers, Chain, Early, DISABLED_PUBLIC_WRITE
  <1>6. CASE ConnectSigner
    <2>1. calls.publish = 0 /\ calls.connect = 0
      BY <1>0, <1>1, <1>6 DEF ConnectSigner
    <2>2. calls'.publish = 0 /\ calls'.connect = 1
      BY <1>0, <1>6, <2>1 DEF ConnectSigner, Calls
    <2>3. QED
      BY <1>6, <2>2 DEF ConnectSigner
  <1>7. CASE Publish
    <2>1. calls.publish = 0 /\ calls.connect = 0
      BY <1>0, <1>1, <1>7 DEF Publish
    <2>2. calls'.publish = 1 /\ calls'.connect = 0
      BY <1>0, <1>7, <2>1 DEF Publish, Calls
    <2>3. QED
      BY <1>7, <2>2 DEF Publish
  <1>8. ASSUME NEW result \in {"connected", "unavailable"}, SignerAnswers(result)
        PROVE  PublishConnected' /\ OnePublish'
    <2>1. calls.connect = 1
      BY <1>1, <1>8 DEF SignerAnswers
    <2>2. calls'.publish = calls.publish /\ calls'.connect = 0
      BY <1>0, <1>8, <2>1 DEF SignerAnswers, Calls
    <2>3. UNCHANGED <<session, configs>>
      BY <1>8 DEF SignerAnswers, pageVars
    <2>4. CASE WriteContextCurrent
      BY <1>0, <1>1, <1>8, <2>1, <2>2, <2>3, <2>4 DEF SignerAnswers
    <2>5. CASE ~WriteContextCurrent
      BY <1>0, <1>1, <1>8, <2>2, <2>3, <2>5 DEF SignerAnswers
    <2>6. QED
      BY <2>4, <2>5
  <1>9. ASSUME NEW ok \in BOOLEAN, PublisherAnswers(ok)
        PROVE  PublishConnected' /\ OnePublish'
    <2>1. calls.publish = 1
      BY <1>1, <1>9 DEF PublisherAnswers
    <2>2. calls'.connect = calls.connect /\ calls'.publish = 0
      BY <1>0, <1>9, <2>1 DEF PublisherAnswers, Calls
    <2>3. UNCHANGED <<session, configs>>
      BY <1>9 DEF PublisherAnswers, pageVars
    <2>4. CASE WriteContextCurrent
      BY <1>0, <1>1, <1>9, <2>1, <2>2, <2>3, <2>4 DEF PublisherAnswers
    <2>5. CASE ~WriteContextCurrent
      BY <1>0, <1>1, <1>9, <2>2, <2>3, <2>5 DEF PublisherAnswers
    <2>6. QED
      BY <2>4, <2>5
  <1>10. CASE RefreshAnswers
    BY <1>0, <1>2, <1>10 DEF RefreshAnswers, pageVars, Calls
  <1>11. ASSUME NEW post \in server.posted, NEW answer \in {"ended", "pending", "refused"},
                NEW answered \in BOOLEAN, ServerLogout(post, answer, answered)
         PROVE  PublishConnected' /\ OnePublish'
    BY <1>2, <1>3, <1>11 DEF ServerLogout, RenderSignedOut, ResetProduct, pageVars, writeVars
  <1>12. CASE DeviceConfigAnswers \/ ReadConfigAnswers
    <2>1. configs \in Configs
      BY DEF EntryInv, Typed
    <2>2. UNCHANGED <<session, write, calls>> /\ configs'.publish = configs.publish
      BY <1>12, <2>1 DEF DeviceConfigAnswers, ReadConfigAnswers, Configs
    <2>3. QED
      BY <1>2, <2>2
  <1>13. CASE \/ AuthorityAnswers \/ ChainLoadsDevice \/ ChainShowsRead \/ DirectoryTimeout
              \/ RetryDirectory \/ HashChange
              \/ \E l \in loading, ok \in FullDirectoryDocument : DirectorySettles(l, ok)
              \/ \E hash \in Routes : Navigate(hash)
              \/ \E d \in 1..device.made : DeviceReports(d)
    BY <1>2, <1>13 DEF AuthorityAnswers, ChainLoadsDevice, ChainShowsRead, DirectoryTimeout,
                       RetryDirectory, HashChange, DirectorySettles, Navigate, DeviceReports,
                       pageVars, writeVars
  <1>14. CASE \/ Login \/ Logout \/ LogoutMode \/ LogoutPost \/ LogoutFails \/ ContextExpires
              \/ \E ok \in BOOLEAN : LoginAnswers(ok)
              \/ \E answered \in BOOLEAN : LogoutContext(answered)
    BY <1>2, <1>14 DEF Login, Logout, LogoutMode, LogoutPost, LogoutFails, ContextExpires,
                       LoginAnswers, LogoutContext, pageVars, writeVars
  <1>15. QED
    BY <1>4, <1>5, <1>6, <1>7, <1>8, <1>9, <1>10, <1>11, <1>12, <1>13, <1>14
       DEF Next, PageStep, WriteStep, EntryStep

-----------------------------------------------------------------------------
(* The invariant, and what follows.                                        *)

LEMMA EntryStart == Init => EntryInv
  <1> SUFFICES ASSUME Init
               PROVE  EntryInv
    OBVIOUS
  <1>1. Typed
    <2>0. MaxNavigations \in 0..MaxNavigations /\ 0 \in 0..MaxPublishes /\ 0 \in Nat
      BY Bounds
    <2>1. /\ route \in Route /\ device \in Device /\ calls \in Calls /\ read \in Read
          /\ entry \in Entry
      BY <2>0, Zeros DEF Init, Route, Device, Calls, Read, Entry
    <2>2. server \in Server
      <3>1. [id |-> 0, made |-> 0, complete |-> FALSE] \in Context
        BY Zeros DEF Context
      <3>2. QED
        BY <3>1 DEF Init, Server
    <2>3. QED
      BY <2>1, <2>2, ConstantsTyped, BlankTyped DEF Init, Typed
  <1>2. Chain /\ LogoutOwned /\ PublishConnected /\ OnePublish
    BY DEF Init, Chain, Early, LogoutOwned, PublishConnected, OnePublish, NoConfigs,
           DISABLED_PUBLIC_WRITE, Publishing, WriteContextCurrent
  <1>3. OutForGood /\ Painted /\ LoadedHere /\ DirectoryOwned /\ PageIsCurrent
    BY DEF Init, OutForGood, Painted, LoadedHere, DirectoryOwned, PageIsCurrent, NoDirectory, Blank
  <1>4. QED
    BY <1>1, <1>2, <1>3, TypedIsOK DEF EntryInv

LEMMA EntryStepInv == EntryInv /\ [Next]_vars => EntryInv'
  <1>1. CASE EntryInv /\ Next
    <2>1. Typed'
      BY <1>1, TypedStep DEF EntryInv
    <2>2. Chain' /\ LogoutOwned' /\ OutForGood' /\ LoadedHere' /\ DirectoryOwned'
          /\ PublishConnected' /\ OnePublish'
      BY <1>1, ChainStep, OutStep, DirectoryStep, PublishStep
    <2>3. Painted' /\ PageIsCurrent'
      BY <1>1, PaintedStep, ShownStep, DeviceStep
         DEF Painted, PageIsCurrent, DirectoryShown, DeviceHere
    <2>4. QED
      BY <2>1, <2>2, <2>3 DEF EntryInv
  <1>2. CASE EntryInv /\ UNCHANGED vars
    BY <1>2 DEF vars, EntryInv, Typed, Chain, LogoutOwned, OutForGood, LoadedHere, DirectoryOwned,
                Painted, PageIsCurrent, PublishConnected, OnePublish, FullHere, Publishing,
                WriteContextCurrent
  <1>3. QED
    BY <1>1, <1>2

LEMMA EntryInvariant == Spec => []EntryInv
  BY EntryStart, EntryStepInv, PTL DEF Spec

\* The variables of the entry page keep their types.
THEOREM EntryTypeCorrect == Spec => []EntryTypeOK
  <1>1. EntryInv => EntryTypeOK
    BY TypedIsOK DEF EntryInv
  <1>2. QED
    BY <1>1, EntryInvariant, PTL

\* The page shows the outcome "Signed out", which is not the indicator's words while a
\* session is unavailable, only of a session the server has ended, whatever answers of
\* earlier attempts are lost or still travel (logout of social-entry-actions-v1.mjs).
THEOREM EntrySignedOutIsEnded == Spec => []SignedOutIsEnded
  <1>1. EntryInv => SignedOutIsEnded
    BY DEF EntryInv, OutForGood, SignedOutIsEnded
  <1>2. QED
    BY <1>1, EntryInvariant, PTL

\* The directory is loading exactly while a loader of its own request waits
\* (loadFullDirectoryForRoute with its timer, retry and finally).
THEOREM EntryDirectoryOwned == Spec => []DirectoryOwned
  <1>1. EntryInv => DirectoryOwned
    BY DEF EntryInv
  <1>2. QED
    BY <1>1, EntryInvariant, PTL

\* A painted product is that of now, and what needs full authority is gone with it.
THEOREM EntryPageIsCurrent == Spec => []PageIsCurrent
  <1>1. EntryInv => PageIsCurrent
    BY DEF EntryInv
  <1>2. QED
    BY <1>1, EntryInvariant, PTL

\* One publication and one connection at a time, neither forgotten by the page.
THEOREM EntryOnePublish == Spec => []OnePublish
  <1>1. EntryInv => OnePublish
    BY DEF EntryInv
  <1>2. QED
    BY <1>1, EntryInvariant, PTL

-----------------------------------------------------------------------------
(* The exchange with UBID.                                                 *)

\* The outcome comes with the end of the call; what the reply under way says
\* of UBID is true of it, and UBID does not both apply and refuse.
UbidInv ==
  /\ call.step # "done" => call.outcome = "pending"
  /\ call.step = "resource" /\ wire.reply.form = "document" => ubid.applied
  /\ wire.reply.form = "rejection" => ubid.refused
  /\ ~(ubid.applied /\ ubid.refused)
  /\ AnswerIsTrue /\ SocketsClosed

\* Every step of a call keeps the types.
LEMMA UbidTypes == UbidTypeOK /\ UbidNext => UbidTypeOK'
  <1> SUFFICES ASSUME UbidTypeOK, UbidNext
               PROVE  UbidTypeOK'
    OBVIOUS
  <1> DEFINE CallT == [step : {"idle", "token", "resource", "done"}, aged : BOOLEAN,
                       outcome : {"pending", "value", "unavailable", "definitive"}]
             Reply == Replies \cup {NoReply}
             WireT == [socket : {"idle", "open", "reading", "closed", "ended"},
                       timer : 0..TimeoutTicks, reply : Reply, got : 0..MaximumBytes]
             UbidT == [sent : BOOLEAN, applied : BOOLEAN, refused : BOOLEAN]
  <1>0. client \in Clients /\ call \in CallT /\ wire \in WireT /\ ubid \in UbidT
    BY DEF UbidTypeOK
  <1>1. 0 \in 0..TimeoutTicks /\ 0 \in 0..MaximumBytes /\ NoReply \in Reply
    BY ExchangeBounds
  <1> HIDE DEF Reply
  <1>2. Sent \in WireT /\ Restarted \in 0..TimeoutTicks
    BY <1>0, <1>1 DEF Sent, Restarted
  <1>3. ASSUME client' \in Clients, call' \in CallT, wire' \in WireT, ubid' \in UbidT
        PROVE  UbidTypeOK'
    BY <1>3 DEF UbidTypeOK, Reply
  <1>4. ASSUME Fail
        PROVE  call' \in CallT /\ wire' \in WireT /\ UNCHANGED <<client, ubid>>
    BY <1>0, <1>4 DEF Fail
  <1>5. ASSUME NEW outcome \in {"value", "definitive"}, Settle(outcome)
        PROVE  call' \in CallT /\ wire' \in WireT /\ UNCHANGED <<client, ubid>>
    BY <1>0, <1>5 DEF Settle
  <1>6. ASSUME UseToken
        PROVE  client' \in Clients /\ call' \in CallT /\ wire' \in WireT /\ ubid' \in UbidT
    BY <1>0, <1>2, <1>4, <1>6 DEF UseToken
  <1> HIDE DEF CallT, WireT, UbidT
  <1>7. CASE Begin
    BY <1>0, <1>2, <1>3, <1>7 DEF Begin, CallT
  <1>8. CASE Response \/ ResponseRefused
    BY <1>0, <1>2, <1>3, <1>4, <1>8 DEF Response, ResponseRefused, Refuse, WireT
  <1>9. CASE Data
    <2>1. wire.got + 1 \in 0..MaximumBytes \/ wire.got + 1 > MaximumBytes
      BY <1>0, ExchangeBounds DEF WireT
    <2>2. QED
      BY <1>0, <1>2, <1>3, <1>4, <1>9, <2>1 DEF Data, WireT
  <1>10. CASE End
    BY <1>0, <1>3, <1>4, <1>5, <1>6, <1>10 DEF End, Accepted
  <1>11. CASE Broken \/ Timeout
    BY <1>0, <1>3, <1>4, <1>11 DEF Broken, Timeout
  <1>12. CASE Tick
    <2>1. wire.timer + 1 \in 0..TimeoutTicks
      BY <1>0, <1>12, ExchangeBounds DEF Tick, WireT
    <2>2. QED
      BY <1>0, <1>3, <1>12, <2>1 DEF Tick, WireT
  <1>13. CASE Age
    BY <1>0, <1>3, <1>13 DEF Age, CallT
  <1>14. CASE Apply
    BY <1>0, <1>3, <1>14 DEF Apply, UbidT
  <1>15. ASSUME NEW reply \in Replies, Answer(reply)
         PROVE  UbidTypeOK'
    BY <1>0, <1>3, <1>15 DEF Answer, WireT, Reply
  <1>16. QED
    BY <1>7, <1>8, <1>9, <1>10, <1>11, <1>12, <1>13, <1>14, <1>15 DEF UbidNext

LEMMA UbidInvStep == UbidTypeOK /\ UbidInv /\ UbidNext => UbidInv'
  <1> SUFFICES ASSUME UbidTypeOK, UbidInv, UbidNext
               PROVE  UbidInv'
    OBVIOUS
  <1> USE DEF UbidInv, AnswerIsTrue, SocketsClosed
  <1>0. /\ call \in [step : {"idle", "token", "resource", "done"}, aged : BOOLEAN,
                     outcome : {"pending", "value", "unavailable", "definitive"}]
        /\ wire \in [socket : {"idle", "open", "reading", "closed", "ended"}, timer : 0..TimeoutTicks,
                     reply : Replies \cup {NoReply}, got : 0..MaximumBytes]
        /\ ubid \in [sent : BOOLEAN, applied : BOOLEAN, refused : BOOLEAN]
    BY DEF UbidTypeOK
  <1>1. NoReply.form = "none" /\ Sent.reply = NoReply /\ Sent.socket = "open"
    BY DEF NoReply, Sent
  <1>2. ASSUME Fail
        PROVE  UbidInv'
    BY <1>0, <1>2 DEF Fail
  <1>3. CASE Begin
    BY <1>0, <1>1, <1>3 DEF Begin
  <1>4. ASSUME Under, UNCHANGED <<call, ubid>>, wire'.reply = wire.reply
        PROVE  UbidInv'
    BY <1>0, <1>4 DEF Under
  <1>5. CASE Response \/ ResponseRefused
    BY <1>0, <1>2, <1>4, <1>5 DEF Response, ResponseRefused, Refuse
  <1>6. CASE Data
    BY <1>0, <1>2, <1>4, <1>6 DEF Data, Reading
  <1>7. CASE End
    <2>1. CASE UseToken
      <3>1. CASE Fail
        BY <1>2, <3>1
      <3>2. CASE /\ call' = [call EXCEPT !.step = "resource"] /\ wire' = Sent
                 /\ ubid' = [ubid EXCEPT !.sent = TRUE]
        <4>1. call'.step = "resource" /\ call'.outcome = call.outcome
          BY <1>0, <3>2
        <4>2. ubid'.applied = ubid.applied /\ ubid'.refused = ubid.refused
          BY <1>0, <3>2
        <4>3. call.outcome = "pending" /\ wire'.reply.form = "none"
          BY <1>0, <1>1, <1>7, <3>2 DEF End, Reading, Under
        <4>4. QED
          BY <4>1, <4>2, <4>3
      <3>3. QED
        BY <2>1, <3>1, <3>2 DEF UseToken
    <2>2. CASE DefinitiveCandidate /\ Settle("definitive")
      BY <1>0, <2>2 DEF DefinitiveCandidate, Settle
    <2>3. CASE call.step = "resource" /\ Parsed = "document" /\ Settle("value")
      BY <1>0, <2>3 DEF Parsed, Whole, Settle
    <2>4. QED
      BY <1>2, <1>7, <2>1, <2>2, <2>3 DEF End, Accepted
  <1>8. CASE Broken \/ Timeout
    BY <1>2, <1>8 DEF Broken, Timeout
  <1>9. CASE Tick
    BY <1>0, <1>4, <1>9 DEF Tick
  <1>10. CASE Age
    BY <1>0, <1>10 DEF Age, Under
  <1>11. CASE Apply
    BY <1>0, <1>11 DEF Apply
  <1>12. ASSUME NEW reply \in Replies, Answer(reply)
         PROVE  UbidInv'
    <2>1. /\ Under /\ UNCHANGED <<call, ubid>> /\ wire' = [wire EXCEPT !.reply = reply]
          /\ reply.form = "document" => call.step = "token" \/ ubid.applied
          /\ reply.form = "rejection" => ubid.refused
      BY <1>12 DEF Answer
    <2>2. QED
      BY <1>0, <2>1 DEF Under
  <1>13. QED
    BY <1>3, <1>5, <1>6, <1>7, <1>8, <1>9, <1>10, <1>11, <1>12 DEF UbidNext

LEMMA UbidStart == UbidInit => UbidTypeOK /\ UbidInv
  <1> SUFFICES ASSUME UbidInit
               PROVE  UbidTypeOK /\ UbidInv
    OBVIOUS
  <1>1. 0 \in 0..TimeoutTicks /\ 0 \in 0..MaximumBytes
    BY ExchangeBounds
  <1>2. UbidTypeOK
    BY <1>1 DEF UbidInit, UbidTypeOK, Sent
  <1>3. UbidInv
    BY DEF UbidInit, UbidInv, AnswerIsTrue, SocketsClosed, Sent, NoReply
  <1>4. QED
    BY <1>2, <1>3

-----------------------------------------------------------------------------
(* The relay.                                                              *)

\* What a receipt rests on: the relay has stored the event of a publication; a
\* read was ended by the relay or by its limit, not cut short.
ReceiptHeard ==
  receipt = "value" =>
    /\ job = "publish" => relay.stored
    /\ job \in {"transport", "read"} => relay.eose \/ Len(events) = EventLimit

Ats == {"idle", "provider-key", "provider-sign", "wallet", "connecting", "open", "done"}

RelayTypeOK ==
  /\ job \in Jobs /\ at \in Ats
  /\ timers \subseteq {"provider", "open", "read", "acknowledge", "abort"}
  /\ socket \in {"none", "connecting", "open", "closed"}
  /\ events \in Seq(Events) /\ receipt \in {"pending", "value", "failed"}
  /\ relay \in [requested : BOOLEAN, stored : BOOLEAN, eose : BOOLEAN]

RelayInv ==
  /\ RelayTypeOK
  /\ at # "done" => receipt = "pending" /\ Len(events) < EventLimit
  /\ at = "wallet" => job = "wallet"
  /\ ReceiptHeard /\ NothingLeft

LEMMA RelayStart == RelayInit => RelayInv
  BY LimitAssumption DEF RelayInit, RelayInv, RelayTypeOK, ReceiptHeard, NothingLeft, Ats

LEMMA RelayInvStep == RelayInv /\ RelayNext => RelayInv'
  <1> SUFFICES ASSUME RelayInv, RelayNext
               PROVE  RelayInv'
    OBVIOUS
  <1> USE DEF RelayInv, RelayTypeOK, Ats, ReceiptHeard, NothingLeft
  <1>1. ASSUME Finish("failed"), UNCHANGED <<events, relay>>
        PROVE  RelayInv'
    BY <1>1 DEF Finish
  <1>2. ASSUME Finish("value"), UNCHANGED events, relay' \in [requested : BOOLEAN, stored : BOOLEAN, eose : BOOLEAN],
               job = "publish" => relay'.stored,
               job \in {"transport", "read"} => relay'.eose
        PROVE  RelayInv'
    BY <1>2 DEF Finish
  <1>3. CASE Start
    BY <1>3 DEF Start, Jobs
  <1>4. ASSUME NEW key \in {"subject", "other"}, ProviderKey(key)
        PROVE  RelayInv'
    BY <1>1, <1>4 DEF ProviderKey
  <1>5. ASSUME NEW exact \in BOOLEAN, ProviderSigns(exact)
        PROVE  RelayInv'
    BY <1>1, <1>5 DEF ProviderSigns
  <1>6. ASSUME NEW signed \in BOOLEAN, WalletAnswers(signed)
        PROVE  RelayInv'
    BY <1>1, <1>2, <1>6 DEF WalletAnswers
  <1>7. CASE WalletCancelled \/ OnFailure \/ TimerFires
    BY <1>1, <1>7 DEF WalletCancelled, OnFailure, TimerFires
  <1>8. ASSUME NEW sent \in BOOLEAN, OnOpen(sent)
        PROVE  RelayInv'
    <2>1. CASE sent
      BY <1>8, <2>1 DEF OnOpen
    <2>2. CASE ~sent
      BY <1>1, <1>8, <2>2 DEF OnOpen
    <2>3. QED
      BY <2>1, <2>2
  <1>9. CASE OnEose
    <2>1. relay'.eose /\ relay' \in [requested : BOOLEAN, stored : BOOLEAN, eose : BOOLEAN]
      BY <1>9 DEF OnEose
    <2>2. QED
      BY <1>2, <1>9, <2>1 DEF OnEose
  <1>10. CASE RelayStores
    BY <1>10 DEF RelayStores
  <1>11. ASSUME NEW event \in Events, OnEvent(event)
         PROVE  RelayInv'
    <2>1. /\ events' \in Seq(Events) /\ Len(events') = Len(events) + 1 /\ Len(events) \in Nat
          /\ UNCHANGED <<job, relay>>
      BY <1>11 DEF OnEvent, Finish
    <2>2. Len(events) < EventLimit /\ job # "publish" /\ EventLimit \in Nat /\ at = "open"
      BY <1>11, LimitAssumption DEF OnEvent
    <2>3. CASE Len(events) + 1 >= EventLimit
      <3>1. Len(events') = EventLimit
        BY <2>1, <2>2, <2>3
      <3>2. Finish("value")
        BY <1>11, <2>3 DEF OnEvent
      <3>3. QED
        BY <2>1, <2>2, <3>1, <3>2 DEF Finish
    <2>4. CASE ~(Len(events) + 1 >= EventLimit)
      <3>1. Len(events') < EventLimit
        BY <2>1, <2>2, <2>4
      <3>2. UNCHANGED <<at, timers, socket, receipt>>
        BY <1>11, <2>4 DEF OnEvent
      <3>3. QED
        BY <2>1, <2>2, <3>1, <3>2
    <2>5. QED
      BY <2>3, <2>4
  <1>12. ASSUME NEW own \in BOOLEAN, NEW accepted \in BOOLEAN, own /\ accepted => relay.stored,
                OnOk(own, accepted)
         PROVE  RelayInv'
    BY <1>1, <1>2, <1>12 DEF OnOk
  <1>13. QED
    BY <1>3, <1>4, <1>5, <1>6, <1>7, <1>8, <1>9, <1>10, <1>11, <1>12 DEF RelayNext

\* Of every id that was received one event came last: the one that the notes keep.
LastKnown ==
  \A i \in DOMAIN events : \E last \in DOMAIN events :
     /\ events[last].id = events[i].id
     /\ \A j \in DOMAIN events : events[j].id = events[i].id => j <= last

LEMMA LastStart == RelayInit => LastKnown
  BY DEF RelayInit, LastKnown

LEMMA LastStep ==
  ASSUME RelayTypeOK, LastKnown, RelayNext
  PROVE  LastKnown'
  <1>1. CASE UNCHANGED events
    BY <1>1 DEF LastKnown
  <1>2. ASSUME NEW event \in Events, events' = Append(events, event)
        PROVE  LastKnown'
    <2>1. /\ Len(events) \in Nat /\ DOMAIN events = 1..Len(events)
          /\ DOMAIN events' = 1..Len(events) + 1 /\ events'[Len(events) + 1] = event
          /\ \A i \in 1..Len(events) : events'[i] = events[i]
      BY <1>2 DEF RelayTypeOK
    <2>2. ASSUME NEW i \in DOMAIN events'
          PROVE  \E last \in DOMAIN events' :
                    /\ events'[last].id = events'[i].id
                    /\ \A j \in DOMAIN events' : events'[j].id = events'[i].id => j <= last
      <3>1. CASE events'[i].id = event.id
        <4>1. Len(events) + 1 \in DOMAIN events' /\ \A j \in DOMAIN events' : j <= Len(events) + 1
          BY <2>1
        <4>2. QED
          BY <2>1, <3>1, <4>1
      <3>2. CASE events'[i].id # event.id
        <4>1. i \in 1..Len(events) /\ events'[i] = events[i]
          BY <2>1, <2>2, <3>2
        <4>2. PICK last \in 1..Len(events) :
                 /\ events[last].id = events[i].id
                 /\ \A j \in 1..Len(events) : events[j].id = events[i].id => j <= last
          BY <2>1, <4>1 DEF LastKnown
        <4>3. ASSUME NEW j \in DOMAIN events', events'[j].id = events'[i].id
              PROVE  j <= last
          <5>1. j \in 1..Len(events)
            BY <2>1, <3>2, <4>3
          <5>2. QED
            BY <2>1, <4>1, <4>2, <4>3, <5>1
        <4>4. last \in DOMAIN events' /\ events'[last].id = events'[i].id
          BY <2>1, <4>1, <4>2
        <4>5. QED
          BY <4>3, <4>4
      <3>3. QED
        BY <3>1, <3>2
    <2>3. QED
      BY <2>2 DEF LastKnown
  <1>3. UNCHANGED events \/ \E event \in Events : events' = Append(events, event)
    BY DEF RelayNext, Start, ProviderKey, ProviderSigns, WalletAnswers, WalletCancelled, OnOpen,
       OnFailure, OnEose, TimerFires, RelayStores, OnEvent, OnOk
  <1>4. QED
    BY <1>1, <1>2, <1>3

-----------------------------------------------------------------------------
(* What a read makes of its events.                                        *)

\* A listing of a finite set: every member, once, in the order of both lists.
Lists(list, set) ==
  /\ IsFiniteSet(set)
  /\ list \in [1..Cardinality(set) -> set] /\ Range(list) = set
  /\ \A i, j \in DOMAIN list : i < j => Before(list[i], list[j])

LEMMA ListedLists ==
  ASSUME NEW set, \E list : Lists(list, set)
  PROVE  Lists(Listed(set), set)
  BY DEF Lists, Listed

\* A member that comes before all the others heads the listing of the rest.
LEMMA HeadLists ==
  ASSUME NEW rest, NEW head, IsFiniteSet(rest), \E list : Lists(list, rest),
         \A e \in rest : Before(head, e) /\ head # e
  PROVE  IsFiniteSet(rest \cup {head}) /\ \E list : Lists(list, rest \cup {head})
  <1>1. PICK list : Lists(list, rest)
    OBVIOUS
  <1> DEFINE n == Cardinality(rest)
             all == rest \cup {head}
             longer == [i \in 1..n + 1 |-> IF i = 1 THEN head ELSE list[i - 1]]
  <1>2. IsFiniteSet(all) /\ Cardinality(all) = n + 1 /\ n \in Nat
    <2>1. head \notin rest
      OBVIOUS
    <2>2. n \in Nat
      BY FS_CardinalityType
    <2>3. QED
      BY <2>1, <2>2, FS_AddElement
  <1>3. /\ list \in [1..n -> rest] /\ \A e \in rest : \E i \in 1..n : e = list[i]
        /\ \A i, j \in 1..n : i < j => Before(list[i], list[j])
    BY <1>1 DEF Lists, Range
  <1> HIDE DEF n
  <1>4. \A i \in 1..n + 1 : i # 1 => i - 1 \in 1..n
    BY <1>2
  <1>5. longer \in [1..n + 1 -> all]
    BY <1>3, <1>4
  <1>6. ASSUME NEW e \in all
        PROVE  \E i \in 1..n + 1 : e = longer[i]
    <2>1. CASE e = head
      <3>1. 1 \in 1..n + 1
        BY <1>2
      <3>2. QED
        BY <2>1, <3>1
    <2>2. CASE e \in rest
      <3>1. PICK i \in 1..n : e = list[i]
        BY <1>3, <2>2
      <3>2. i + 1 \in 1..n + 1 /\ i + 1 # 1 /\ (i + 1) - 1 = i
        BY <1>2
      <3>3. QED
        BY <3>1, <3>2
    <2>3. QED
      BY <2>1, <2>2
  <1>7. ASSUME NEW i \in 1..n + 1, NEW j \in 1..n + 1, i < j
        PROVE  Before(longer[i], longer[j])
    <2>1. j # 1 /\ j - 1 \in 1..n /\ longer[j] = list[j - 1] /\ list[j - 1] \in rest
      BY <1>2, <1>3, <1>4, <1>7
    <2>2. CASE i = 1
      BY <2>1, <2>2
    <2>3. CASE i # 1
      <3>1. i - 1 \in 1..n /\ longer[i] = list[i - 1] /\ i - 1 < j - 1
        BY <1>2, <1>4, <1>7, <2>3
      <3>2. QED
        BY <1>3, <2>1, <3>1
    <2>4. QED
      BY <2>2, <2>3
  <1>8. Range(longer) = all
    BY <1>5, <1>6 DEF Range
  <1>9. Lists(longer, all)
    BY <1>2, <1>5, <1>7, <1>8 DEF Lists
  <1>10. QED
    BY <1>2, <1>9

\* The events of one person have one order, so every set of them has a listing.
LEMMA OwnEventsListed ==
  ASSUME NEW set \in SUBSET Events, \A e \in set : e.pubkey = "subject"
  PROVE  Lists(Listed(set), set)
  <1> DEFINE event(age, id) == [id |-> id, created_at |-> age, pubkey |-> "subject"]
             listable(S) == IsFiniteSet(S) /\ \E list : Lists(list, S)
  <1>1. listable({})
    <2>1. IsFiniteSet({}) /\ Cardinality({}) = 0 /\ 1..0 = {}
      BY FS_EmptySet
    <2>2. Lists([i \in {} |-> i], {})
      BY <2>1 DEF Lists, Range
    <2>3. QED
      BY <2>1, <2>2
  <1>2. ASSUME NEW S, NEW head, listable(S \ {head}),
               \A e \in S \ {head} : Before(head, e)
        PROVE  listable(S)
    <2>1. CASE head \in S
      <3>1. S = (S \ {head}) \cup {head}
        BY <2>1
      <3>2. QED
        BY <1>2, <3>1, HeadLists
    <2>2. CASE head \notin S
      <3>1. S \ {head} = S
        BY <2>2
      <3>2. QED
        BY <1>2, <3>1
    <2>3. QED
      BY <2>1, <2>2
  <1>3. set \subseteq {event(2, 1), event(2, 2), event(1, 1), event(1, 2)}
    <2>1. ASSUME NEW e \in set
          PROVE  e \in {event(2, 1), event(2, 2), event(1, 1), event(1, 2)}
      <3>1. e \in Events /\ e.pubkey = "subject"
        OBVIOUS
      <3>2. e = event(e.created_at, e.id) /\ e.created_at \in {1, 2} /\ e.id \in {1, 2}
        BY <3>1 DEF Events
      <3>3. QED
        BY <3>2
    <2>2. QED
      BY <2>1
  <1> DEFINE first == set \ {event(2, 1)}
             second == first \ {event(2, 2)}
             third == second \ {event(1, 1)}
             fourth == third \ {event(1, 2)}
  <1>4. fourth = {}
    BY <1>3
  <1>5. /\ Before(event(2, 1), event(2, 2)) /\ Before(event(2, 1), event(1, 1))
        /\ Before(event(2, 1), event(1, 2)) /\ Before(event(2, 2), event(1, 1))
        /\ Before(event(2, 2), event(1, 2)) /\ Before(event(1, 1), event(1, 2))
    BY DEF Before
  <1>6. /\ first \subseteq {event(2, 2), event(1, 1), event(1, 2)}
        /\ second \subseteq {event(1, 1), event(1, 2)}
        /\ third \subseteq {event(1, 2)}
    BY <1>3
  <1> HIDE DEF event
  <1>7. listable(third)
    <2>1. listable(fourth)
      BY <1>1, <1>4
    <2>2. QED
      BY <1>2, <1>4, <2>1
  <1>8. listable(second)
    BY <1>2, <1>5, <1>6, <1>7
  <1>9. listable(first)
    BY <1>2, <1>5, <1>6, <1>8
  <1>10. listable(set)
    BY <1>2, <1>3, <1>5, <1>6, <1>9
  <1>11. QED
    BY <1>10, ListedLists

\* loadNotes and loadProfile: every id that was received, once, the newest first;
\* and the newest event of all.
LEMMA ViewSorted ==
  ASSUME RelayTypeOK, LastKnown, Verified
  PROVE  /\ {Notes[i].id : i \in DOMAIN Notes} = {events[i].id : i \in DOMAIN events}
         /\ \A i, j \in DOMAIN Notes :
               i < j => Before(Notes[i], Notes[j]) /\ Notes[i].id # Notes[j].id
         /\ \A i \in DOMAIN events : Profile # <<>> /\ ~Before(events[i], Profile[1])
  <1>1. /\ \A i \in DOMAIN events : events[i] \in Events /\ events[i].pubkey = "subject"
        /\ Range(events) = {events[i] : i \in DOMAIN events}
        /\ DOMAIN events = 1..Len(events) /\ Len(events) \in Nat
    BY DEF RelayTypeOK, Verified, Range
  <1>2. \A left, right \in Events : Before(left, right) => ~Before(right, left) /\ left # right
    BY DEF Events, Before
  <1> DEFINE unique == {events[Last(event.id)] : event \in Range(events)}
  <1>3. ASSUME NEW i \in DOMAIN events
        PROVE  Last(events[i].id) \in DOMAIN events /\ events[Last(events[i].id)].id = events[i].id
    BY DEF LastKnown, Last
  <1>4. /\ unique \in SUBSET Events /\ \A e \in unique : e.pubkey = "subject"
        /\ {e.id : e \in unique} = {events[i].id : i \in DOMAIN events}
        /\ \A e, f \in unique : e.id = f.id => e = f
    <2>1. unique = {events[Last(events[i].id)] : i \in DOMAIN events}
      BY <1>1
    <2> HIDE DEF unique
    <2>2. QED
      BY <1>1, <1>3, <2>1
  <1>5. Lists(Notes, unique)
    BY <1>4, OwnEventsListed DEF Notes
  <1>6. /\ \A i \in DOMAIN Notes : Notes[i] \in unique
        /\ \A e \in unique : \E i \in DOMAIN Notes : e = Notes[i]
        /\ \A i, j \in DOMAIN Notes : i < j => Before(Notes[i], Notes[j])
    BY <1>5 DEF Lists, Range
  <1> HIDE DEF unique
  <1>7. {Notes[i].id : i \in DOMAIN Notes} = {e.id : e \in unique}
    BY <1>6
  <1>8. ASSUME NEW i \in DOMAIN Notes, NEW j \in DOMAIN Notes, i < j
        PROVE  Before(Notes[i], Notes[j]) /\ Notes[i].id # Notes[j].id
    BY <1>2, <1>4, <1>6, <1>8
  <1>9. ASSUME NEW i \in DOMAIN events
        PROVE  Profile # <<>> /\ ~Before(events[i], Profile[1])
    <2> DEFINE list == Listed(Range(events))
               n == Cardinality(Range(events))
    <2>1. Range(events) \in SUBSET Events /\ \A e \in Range(events) : e.pubkey = "subject"
      BY <1>1
    <2>2. Lists(list, Range(events))
      BY <2>1, OwnEventsListed
    <2>3. /\ list \in [1..n -> Range(events)]
          /\ \A e \in Range(events) : \E k \in 1..n : e = list[k]
          /\ \A k, m \in 1..n : k < m => Before(list[k], list[m])
      BY <2>2 DEF Lists, Range
    <2>4. events[i] \in Range(events) /\ events # <<>> /\ Profile = <<list[1]>>
      BY <1>1, <1>9 DEF Profile
    <2> HIDE DEF list, n
    <2>5. PICK k \in 1..n : events[i] = list[k]
      BY <2>3, <2>4
    <2>6. k \in Nat /\ 1 \in 1..n
      <3>1. n \in Nat
        BY <2>2, FS_CardinalityType DEF Lists, n
      <3>2. QED
        BY <3>1
    <2>7. list[1] \in Events /\ list[k] \in Events
      BY <2>1, <2>3, <2>6
    <2>8. CASE k = 1
      BY <1>2, <2>4, <2>5, <2>7, <2>8
    <2>9. CASE k # 1
      BY <1>2, <2>3, <2>4, <2>5, <2>6, <2>7, <2>9
    <2>10. QED
      BY <2>8, <2>9
  <1>10. QED
    BY <1>4, <1>7, <1>8, <1>9

-----------------------------------------------------------------------------
(* Side by side.                                                           *)

ExchangesInv == UbidTypeOK /\ UbidInv /\ RelayInv /\ LastKnown

LEMMA ExchangesInvariant == MCSpec => []ExchangesInv
  <1>1. MCInit => ExchangesInv
    BY UbidStart, RelayStart, LastStart DEF MCInit, ExchangesInv
  <1>2. ASSUME UbidTypeOK, UbidInv, [UbidNext]_ubidVars
        PROVE  UbidTypeOK' /\ UbidInv'
    <2>1. CASE UbidNext
      BY <1>2, <2>1, UbidTypes, UbidInvStep
    <2>2. CASE UNCHANGED ubidVars
      BY <1>2, <2>2 DEF ubidVars, UbidTypeOK, UbidInv, AnswerIsTrue, SocketsClosed
    <2>3. QED
      BY <1>2, <2>1, <2>2
  <1>3. ASSUME RelayInv, LastKnown, [RelayNext]_relayVars
        PROVE  RelayInv' /\ LastKnown'
    <2>1. CASE RelayNext
      BY <1>3, <2>1, RelayInvStep, LastStep DEF RelayInv
    <2>2. CASE UNCHANGED relayVars
      BY <1>3, <2>2 DEF relayVars, RelayInv, RelayTypeOK, ReceiptHeard, NothingLeft, LastKnown
    <2>3. QED
      BY <1>3, <2>1, <2>2
  <1>4. ExchangesInv /\ [MCNext]_<<ubidVars, relayVars, side>> => ExchangesInv'
    BY <1>2, <1>3 DEF ExchangesInv, MCNext
  <1>5. QED
    BY <1>1, <1>4, PTL DEF MCSpec

\* The state of an exchange keeps its types.
THEOREM ExchangeTypes == MCSpec => [](UbidTypeOK /\ RelayTypeOK)
  <1>1. ExchangesInv => UbidTypeOK /\ RelayTypeOK
    BY DEF ExchangesInv, RelayInv
  <1>2. QED
    BY <1>1, ExchangesInvariant, PTL

\* A value is the whole answer to a request UBID has applied, a definitive
\* rejection that of a request it has refused and never applies (Settle of the
\* clients of UBID).
THEOREM ExchangeAnswers == MCSpec => []AnswerIsTrue
  <1>1. ExchangesInv => AnswerIsTrue
    BY DEF ExchangesInv, UbidInv
  <1>2. QED
    BY <1>1, ExchangesInvariant, PTL

\* A publication is reported only when the relay has stored it, a read only when
\* the relay or the limit has ended it; what it shows are the subject's own notes,
\* each once, the newest first, and the newest profile.
THEOREM ExchangeReceipts == MCSpec => []ReceiptIsTrue
  <1>1. ExchangesInv => ReceiptIsTrue
    BY ViewSorted DEF ExchangesInv, RelayInv, ReceiptHeard, ReceiptIsTrue
  <1>2. QED
    BY <1>1, ExchangesInvariant, PTL

\* A caller is told of UBID's effect, and a user of a relay's receipt, only what has
\* happened there, whichever late, cut, foreign or missing answers there are.
THEOREM ExchangeOutcomes == MCSpec => []OutcomeIsTrue
  <1>1. AnswerIsTrue /\ ReceiptIsTrue => OutcomeIsTrue
    BY DEF OutcomeIsTrue
  <1>2. QED
    BY <1>1, ExchangeAnswers, ExchangeReceipts, PTL

\* An exchange that has ended, whichever frame, timer or event ended it, leaves no
\* socket, timer or listener.
THEOREM ExchangeNothingOpen == MCSpec => []NothingOpen
  <1>1. ExchangesInv => NothingOpen
    BY DEF ExchangesInv, UbidInv, RelayInv, NothingOpen
  <1>2. QED
    BY <1>1, ExchangesInvariant, PTL
=============================================================================
