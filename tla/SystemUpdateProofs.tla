------------------------- MODULE SystemUpdateProofs -------------------------
(***************************************************************************)
(* What TLAPS proves of the software update, for any list of versions, any *)
(* set of forced ones and any number of requests and faults: the types,    *)
(* that a pinned version is replaced only by those who may (PinnedKept),   *)
(* that what is unpacked is what was verified (UnpacksWhatWasAsked), and   *)
(* that the settings tell how the version came (SettingsTell).             *)
(*                                                                         *)
(* PinnedKept speaks of the moment when the archive is unpacked, but who   *)
(* may ask is decided when the download is asked for.  In between, the     *)
(* request becomes a download, a popup and an installation, and a loss of  *)
(* power may have the installation run under another application than the  *)
(* one that asked for it.  The invariant follows the request all the way,  *)
(* and ties the settings to the installation for the time after the start. *)
(* The other two follow the file in the same way: FileInv says what it is  *)
(* while the popup is open, while the installation is under way, and when  *)
(* the service is left enabled.                                            *)
(***************************************************************************)
EXTENDS SystemUpdate, WellFoundedInduction, TLAPS

\* What the application knows of its version.
ModeTypes ==
  /\ current \in Installable
  /\ isManual \in BOOLEAN /\ startedManual \in BOOLEAN /\ startedServer \in BOOLEAN
  /\ saved \in [manual : BOOLEAN, server : BOOLEAN]
  /\ came \in [manual : BOOLEAN, server : BOOLEAN]
  /\ left \in BOOLEAN

\* The list: once it is read, there is a version to install.
ReadTypes == latest \in Versions \union {None} /\ listed \in BOOLEAN /\ (listed => latest \in Versions)
ListTypes ==
  /\ ReadTypes
  /\ info \in BOOLEAN /\ fetching \in BOOLEAN
  /\ order \in Versions \union {None}

\* What checkAndDownloadPartialUpdate() changes.
RequestTypes ==
  /\ expected \in Versions \union {None}
  /\ busy \in BOOLEAN
  /\ download \in Requests \union {NoRequest}
  /\ archive \in Archives
  /\ popup \in Announcements \union {Nothing}
  /\ recached \in BOOLEAN /\ faults \in 0..MaxFaults

\* The installation, and the counters.
InstallTypes ==
  /\ due \in Announcements \union {Nothing} /\ unpacked \in Archives
  /\ restarting \in BOOLEAN /\ asked \in BOOLEAN /\ enabled \in BOOLEAN
  /\ service \in {"idle", "running", "unpacked"}
  /\ asks \in 0..MaxAsks /\ orders \in 0..MaxOrders
  /\ overlap \in BOOLEAN /\ abandoned \in BOOLEAN

TypeInv == ModeTypes /\ ListTypes /\ RequestTypes /\ InstallTypes

\* The invariant implies the type invariant, part by part.
LEMMA TypeOKMeans == TypeInv => TypeOK
  BY DEF TypeOK, TypeInv, ModeTypes, ListTypes, ReadTypes, RequestTypes, InstallTypes

\* The first of the forced versions to come is one of them.
LEMMA FirstForcedExists ==
  ASSUME Newer(Forced) # {}
  PROVE  FirstForced \in Versions
<1>1. Newer(Forced) \subseteq Versions
  BY BoundsAssumption DEF BoundsAssumption, Newer, Versions
<1>2. Newer(Forced) \subseteq Nat
  BY <1>1, BoundsAssumption DEF BoundsAssumption, Versions
<1>3. PICK v \in Newer(Forced) : \A w \in Newer(Forced) : ~(<<w, v>> \in OpToRel(<, Nat))
  BY <1>2, NatLessThanWellFounded, WFMin
<1>4. \A w \in Newer(Forced) : v <= w
  <2>1. OpToRel(<, Nat) = {pair \in Nat \X Nat : pair[1] < pair[2]}
    BY Zenon DEF OpToRel
  <2>2. \A w \in Newer(Forced) : ~(w < v)
    BY <1>2, <1>3, <2>1
  <2> QED BY <1>2, <2>2
<1>5. FirstForced \in Newer(Forced)
  BY <1>4 DEF FirstForced
<1> QED BY <1>1, <1>5

-----------------------------------------------------------------------------
(***************************************************************************)
(* Requests.                                                               *)
(***************************************************************************)

\* What a download and a popup may be after a request.
Follows(r) == download' \in {download, r} /\ popup' \in {popup, Announce(r, FALSE)}

\* A request is downloaded, or found in the update directory and announced, or nothing.
LEMMA RequestFollows ==
  ASSUME RequestTypes, NEW r \in Requests, checkAndDownloadPartialUpdate(r)
  PROVE  RequestTypes' /\ Follows(r)
<1>1. faults' \in 0..MaxFaults
  BY BoundsAssumption
  DEF checkAndDownloadPartialUpdate, Fault, RequestTypes, BoundsAssumption
<1>2. expected' \in Versions \union {None}
  BY DEF checkAndDownloadPartialUpdate, RequestTypes, Requests, Installable
<1>3. archive' \in Archives
  BY DEF checkAndDownloadPartialUpdate, RequestTypes, Archives
<1>4. busy' \in BOOLEAN /\ download' \in {download, r}
  BY DEF checkAndDownloadPartialUpdate, StartDownload, RequestTypes
<1>5. recached' \in BOOLEAN /\ popup' \in {popup, Announce(r, FALSE)}
  BY DEF checkAndDownloadPartialUpdate, Ready, RequestTypes
<1>6. Announce(r, FALSE) \in Announcements
  BY DEF Announce, Requests, Announcements
<1> QED BY <1>1, <1>2, <1>3, <1>4, <1>5, <1>6 DEF RequestTypes, Follows

\* What a request and an announcement say.
LEMMA RequestFields ==
  \A r \in Requests \union {NoRequest} : r.manual \in BOOLEAN /\ r.by \in Sources
<1>1. \A r \in Requests : r.manual \in BOOLEAN /\ r.by \in Sources
  BY DEF Requests
<1>2. NoRequest.manual = FALSE /\ NoRequest.by = "person"
  BY DEF NoRequest
<1> QED BY <1>1, <1>2 DEF Sources

\* So does what partialUpdateReady() announces.
LEMMA AnnouncementFields ==
  \A p \in Announcements \union {Nothing} :
    p.manual \in BOOLEAN /\ p.server \in BOOLEAN /\ p.by \in Sources
<1>1. \A p \in Announcements : p.manual \in BOOLEAN /\ p.server \in BOOLEAN /\ p.by \in Sources
  BY DEF Announcements
<1>2. Nothing.manual = FALSE /\ Nothing.server = FALSE /\ Nothing.by = "person"
  BY DEF Nothing, Announce, NoRequest
<1> QED BY <1>1, <1>2 DEF Sources

\* The requests of the application itself: a person's, or a forced one while nothing is pinned.
Unasked(pinned) == {r \in Requests : ~r.manual /\ (r.by = "person" \/ (r.by = "force" /\ ~pinned))}

\* checkPartialUpdate() asks for nothing else.
LEMMA CheckFollows ==
  ASSUME RequestTypes, ReadTypes, NEW installLatest \in BOOLEAN,
         NEW pinned, NEW readable, checkPartialUpdate(installLatest, pinned, readable)
  PROVE  /\ RequestTypes' /\ ReadTypes'
         /\ UNCHANGED <<download, popup>> \/ \E r \in Unasked(pinned) : Follows(r)
<1> DEFINE forced == ~installLatest /\ Newer(Forced) # {}
           installable == IF forced THEN FirstForced ELSE LatestVersion
           r == Request(installable, FALSE, IF installLatest THEN "person" ELSE "force")
<1>1. installable \in Versions
  BY FirstForcedExists, BoundsAssumption DEF BoundsAssumption, Versions
<1>2. r \in Requests
  BY <1>1 DEF Requests, Request, Installable, Sources
<1>3. CASE NoDownload
  <2>1. RequestTypes' /\ UNCHANGED <<download, popup>>
    BY <1>3 DEF NoDownload, RequestTypes
  <2> QED BY <1>1, <2>1 DEF checkPartialUpdate, ReadTypes
<1>4. CASE ~NoDownload
  <2>1. /\ installLatest \/ (forced /\ ~pinned)
        /\ checkAndDownloadPartialUpdate(r)
        /\ listed' = TRUE /\ latest' = installable
    BY <1>4 DEF checkPartialUpdate
  <2>2. RequestTypes' /\ Follows(r)
    BY <1>2, <2>1, RequestFollows
  <2>3. r \in Unasked(pinned)
    BY <1>2, <2>1 DEF Unasked, Request
  <2> QED BY <1>1, <2>1, <2>2, <2>3 DEF ReadTypes
<1> QED BY <1>3, <1>4

\* The update page, the test page, and the back door.
PersonAsks == partialUpdate \/ BackdoorUpdate \/ partialUpdateByVersion

\* A person asks for any archive.
LEMMA PersonFollows ==
  ASSUME RequestTypes, ListTypes, PersonAsks
  PROVE  \E r \in Requests : r.by = "person" /\ Ask(r)
<1>1. CASE partialUpdate
  BY <1>1 DEF partialUpdate, ListTypes, ReadTypes, Request, Requests, Installable, Sources
<1>2. CASE BackdoorUpdate
  BY <1>2 DEF BackdoorUpdate, Request, Requests, Installable, Sources
<1>3. CASE partialUpdateByVersion
  BY <1>3 DEF partialUpdateByVersion, Request, Requests, Installable, Sources
<1> QED BY <1>1, <1>2, <1>3 DEF PersonAsks

-----------------------------------------------------------------------------
(***************************************************************************)
(* Types.                                                                  *)
(***************************************************************************)

\* The types hold when the application has started.
LEMMA InitTypes == Init => TypeInv
<1> SUFFICES ASSUME Init PROVE TypeInv
  OBVIOUS
<1>1. ModeTypes
  <2>1. saved \in [manual : BOOLEAN, server : BOOLEAN] /\ came = saved
    BY DEF Init
  <2>2. isManual = saved.manual /\ startedManual = saved.manual /\ startedServer = saved.server
    BY DEF Init
  <2>3. left = FALSE /\ current \in {BackdoorFile, 1}
    BY DEF Init
  <2>4. current \in Installable
    BY <2>3, BoundsAssumption DEF BoundsAssumption, Installable, Versions
  <2> QED BY <2>1, <2>2, <2>3, <2>4 DEF ModeTypes
<1>2. ListTypes
  <2>1. current \in {BackdoorFile, 1} /\ (saved.manual => ~saved.server)
    BY DEF Init
  <2>2. saved.server => current = 1
    BY <2>1 DEF Init
  <2>3. order \in Versions \union {None}
    BY <2>2, BoundsAssumption DEF Init, BoundsAssumption, Versions
  <2>4. info = FALSE /\ listed = FALSE /\ fetching = FALSE /\ latest = None
    BY DEF Init
  <2> QED BY <2>3, <2>4 DEF ListTypes, ReadTypes
<1>3. RequestTypes
  <2>1. /\ expected = None /\ busy = FALSE /\ download = NoRequest /\ archive = None
        /\ popup = Nothing /\ recached = FALSE /\ faults = 0
    BY DEF Init
  <2>2. 0 \in 0..MaxFaults
    BY BoundsAssumption DEF BoundsAssumption
  <2>3. None \in Archives
    BY DEF Archives
  <2> QED BY <2>1, <2>2, <2>3, Zenon DEF RequestTypes
<1>4. InstallTypes
  <2>1. /\ due = Nothing /\ unpacked = None /\ service = "idle" /\ asks = 0 /\ orders = 0
        /\ restarting = FALSE /\ asked = FALSE /\ enabled = FALSE
        /\ overlap = FALSE /\ abandoned = FALSE
    BY DEF Init
  <2>2. 0 \in 0..MaxAsks /\ 0 \in 0..MaxOrders
    BY BoundsAssumption DEF BoundsAssumption
  <2>3. None \in Archives
    BY DEF Archives
  <2> QED BY <2>1, <2>2, <2>3, Zenon DEF InstallTypes
<1> QED BY <1>1, <1>2, <1>3, <1>4 DEF TypeInv

\* The steps in which the application asks on its own.
OwnRequest == ListFetched \/ exitManualMode \/ ServerReleases

\* The steps after which the application has started anew.
Restart == Replace \/ PowerLoss

\* Every step keeps the types of what is known of the version.
LEMMA NextModeTypes == TypeInv /\ [Next]_vars => ModeTypes'
<1> SUFFICES ASSUME TypeInv, [Next]_vars PROVE ModeTypes'
  OBVIOUS
<1> ModeTypes /\ popup \in Announcements \union {Nothing} /\ due \in Announcements \union {Nothing}
  BY DEF TypeInv, RequestTypes, InstallTypes
<1>0. /\ popup.manual \in BOOLEAN /\ popup.server \in BOOLEAN
      /\ due.manual \in BOOLEAN /\ due.server \in BOOLEAN
  BY AnnouncementFields
<1>1. CASE exitManualMode \/ ignoreManualUpdateMode
  BY <1>1 DEF exitManualMode, ignoreManualUpdateMode, ModeTypes
<1>2. CASE ServerReleases
  BY <1>2 DEF ServerReleases, ModeTypes
<1>3. CASE updateAndRestart
  BY <1>0, <1>3 DEF updateAndRestart, Flags, ModeTypes
<1>4. CASE Restart
  <2>1. /\ isManual' = saved.manual /\ startedManual' = saved.manual
        /\ startedServer' = saved.server /\ left' = FALSE /\ UNCHANGED saved
    BY <1>4 DEF Restart, Replace, PowerLoss, Start
  <2>2. current' \in Installable
    BY <1>4 DEF Restart, Replace, PowerLoss, ModeTypes
  <2>3. came' \in {came, [manual |-> due.manual, server |-> due.by = "server"]}
    BY <1>4 DEF Restart, Replace, PowerLoss
  <2>4. came' \in [manual : BOOLEAN, server : BOOLEAN]
    <3>1. [manual |-> due.manual, server |-> due.by = "server"] \in [manual : BOOLEAN, server : BOOLEAN]
      BY <1>0
    <3> QED BY <2>3, <3>1, Zenon DEF ModeTypes
  <2> QED BY <2>1, <2>2, <2>4 DEF ModeTypes
<1>5. CASE UNCHANGED <<current, mode, came, left>>
  BY <1>5 DEF mode, ModeTypes
<1> QED
  BY <1>1, <1>2, <1>3, <1>4, <1>5
  DEF Next, fetchUpdateInformation, ListFetched, ListFailed, Ask, partialUpdate, BackdoorUpdate,
      partialUpdateByVersion, ServerDecides, ServerOrders, DownloadFinished, DownloadFailed,
      WriteFailed, LowStorage, NoRoomToInstall, StartService, Unpack, Restart,
      vars, history

\* Every step keeps the types of the list.
LEMMA NextListTypes == TypeInv /\ [Next]_vars => ListTypes'
<1> SUFFICES ASSUME TypeInv, [Next]_vars PROVE ListTypes'
  OBVIOUS
<1> ModeTypes /\ ListTypes /\ RequestTypes /\ ReadTypes
  BY DEF TypeInv, ListTypes
<1>1. CASE OwnRequest
  <2>1. ReadTypes'
    BY <1>1, CheckFollows DEF OwnRequest, ListFetched, exitManualMode, ServerReleases
  <2>2. info' \in BOOLEAN /\ fetching' \in BOOLEAN /\ order' \in Versions \union {None}
    BY <1>1 DEF OwnRequest, ListFetched, exitManualMode, ServerReleases, ListTypes
  <2> QED BY <2>1, <2>2 DEF ListTypes
<1>2. CASE fetchUpdateInformation \/ ListFailed
  <2>1. UNCHANGED <<listed, latest, order>>
    BY <1>2 DEF fetchUpdateInformation, ListFailed
  <2>2. info' \in BOOLEAN /\ fetching' \in BOOLEAN
    BY <1>2 DEF fetchUpdateInformation, ListFailed, ListTypes
  <2> QED BY <2>1, <2>2 DEF ListTypes, ReadTypes
<1>3. CASE ServerDecides
  BY <1>3 DEF ServerDecides, ListTypes, ReadTypes, list
<1>4. CASE Restart
  BY <1>4 DEF Restart, Replace, PowerLoss, Start, ListTypes, ReadTypes
<1>5. CASE UNCHANGED <<list, order>>
  BY <1>5 DEF list, ListTypes, ReadTypes
<1> QED
  BY <1>1, <1>2, <1>3, <1>4, <1>5
  DEF Next, OwnRequest, Ask, partialUpdate, BackdoorUpdate, partialUpdateByVersion,
      ignoreManualUpdateMode, ServerOrders, DownloadFinished, DownloadFailed, WriteFailed,
      LowStorage, updateAndRestart, NoRoomToInstall, StartService, Unpack, Restart, vars

\* What is downloaded and accepted can be announced and kept.
LEMMA DownloadedTypes ==
  ASSUME RequestTypes, download # NoRequest, NEW server \in BOOLEAN
  PROVE  download \in Requests /\ Announce(download, server) \in Announcements
<1>1. download \in Requests
  BY DEF RequestTypes
<1> QED BY <1>1 DEF Announce, Requests, Announcements

\* Every step keeps the types of what a request changes.
LEMMA NextRequestTypes == TypeInv /\ [Next]_vars => RequestTypes'
<1> SUFFICES ASSUME TypeInv, [Next]_vars PROVE RequestTypes'
  OBVIOUS
<1> ModeTypes /\ ListTypes /\ RequestTypes /\ ReadTypes
  BY DEF TypeInv, ListTypes
<1>1. CASE OwnRequest
  BY <1>1, CheckFollows DEF OwnRequest, ListFetched, exitManualMode, ServerReleases
<1>2. CASE PersonAsks
  BY <1>2, PersonFollows, RequestFollows DEF Ask
<1>3. CASE ServerOrders
  <2>1. Request(order, FALSE, "server") \in Requests
    BY <1>3 DEF ServerOrders, ListTypes, Request, Requests, Installable, Sources
  <2> QED BY <1>3, <2>1, RequestFollows DEF ServerOrders
<1>4. CASE DownloadFinished
  <2> DEFINE p == Announce(download, download.by = "server")
  <2>1. download \in Requests /\ p \in Announcements
    BY <1>4, DownloadedTypes DEF DownloadFinished
  <2>2. archive' \in Archives
    BY <1>4, <2>1 DEF DownloadFinished, RequestTypes, Requests, Archives
  <2>3. popup' \in {popup, p} /\ recached' \in BOOLEAN
    BY <1>4 DEF DownloadFinished, Ready, RequestTypes
  <2>4. /\ download' = NoRequest /\ busy' = FALSE
        /\ expected' = expected /\ faults' = faults
    BY <1>4 DEF DownloadFinished, Finish, counters
  <2> QED BY <2>1, <2>2, <2>3, <2>4, Zenon DEF RequestTypes
<1>5. CASE DownloadFailed \/ WriteFailed
  <2>1. faults' \in 0..MaxFaults
    BY <1>5, BoundsAssumption
    DEF DownloadFailed, WriteFailed, Fault, RequestTypes, BoundsAssumption
  <2>2. archive' \in {archive, Corrupt} /\ archive' \in Archives
    BY <1>5 DEF DownloadFailed, WriteFailed, RequestTypes, Archives
  <2>3. /\ download' = NoRequest /\ busy' = FALSE
        /\ UNCHANGED <<expected, popup, recached>>
    BY <1>5 DEF DownloadFailed, WriteFailed, Finish, history
  <2> QED BY <2>1, <2>2, <2>3, Zenon DEF RequestTypes
<1>6. CASE LowStorage \/ ListFailed \/ NoRoomToInstall
  <2>1. faults' \in 0..MaxFaults
    BY <1>6, BoundsAssumption
    DEF LowStorage, ListFailed, NoRoomToInstall, Fault, RequestTypes, BoundsAssumption
  <2>2. archive' \in {archive, None} /\ None \in Archives /\ popup' \in {popup, Nothing}
    BY <1>6 DEF LowStorage, ListFailed, NoRoomToInstall, Archives
  <2>3. UNCHANGED <<expected, busy, download, recached>>
    BY <1>6 DEF LowStorage, ListFailed, NoRoomToInstall, history
  <2> QED BY <2>1, <2>2, <2>3, Zenon DEF RequestTypes
<1>7. CASE updateAndRestart
  <2>1. popup' = Nothing /\ UNCHANGED <<expected, busy, download, archive, recached, faults>>
    BY <1>7 DEF updateAndRestart, counters
  <2> QED BY <2>1, Zenon DEF RequestTypes
<1>8. CASE Restart
  <2>1. faults' \in 0..MaxFaults
    BY <1>8, BoundsAssumption DEF Restart, Replace, PowerLoss, Fault, RequestTypes, BoundsAssumption
  <2>2. archive' \in {archive, None} /\ None \in Archives
    BY <1>8 DEF Restart, Replace, PowerLoss, Archives
  <2>3. /\ expected' = None /\ busy' = FALSE /\ download' = NoRequest /\ popup' = Nothing
        /\ recached' = recached
    BY <1>8 DEF Restart, Replace, PowerLoss, Start
  <2> QED BY <2>1, <2>2, <2>3, Zenon DEF RequestTypes
<1>9. CASE UNCHANGED <<expected, busy, download, archive, popup, recached, faults>>
  BY <1>9 DEF RequestTypes
<1> QED
  BY <1>1, <1>2, <1>3, <1>4, <1>5, <1>6, <1>7, <1>8, <1>9
  DEF Next, OwnRequest, PersonAsks, fetchUpdateInformation, ignoreManualUpdateMode,
      ServerDecides, StartService, Unpack, Restart, vars, history, counters

\* Every step keeps the types of the installation.
LEMMA NextInstallTypes == TypeInv /\ [Next]_vars => InstallTypes'
<1> SUFFICES ASSUME TypeInv, [Next]_vars PROVE InstallTypes'
  OBVIOUS
<1> RequestTypes /\ ListTypes /\ InstallTypes
  BY DEF TypeInv
<1>1. CASE PersonAsks \/ exitManualMode \/ ignoreManualUpdateMode \/ ServerDecides
  <2>1. asks' \in 0..MaxAsks /\ orders' \in 0..MaxOrders
    <3>1. \/ asks < MaxAsks /\ asks' = asks + 1 /\ orders' = orders
          \/ orders < MaxOrders /\ orders' = orders + 1 /\ asks' = asks
      BY <1>1
      DEF PersonAsks, partialUpdate, BackdoorUpdate, partialUpdateByVersion, Ask, exitManualMode,
          ignoreManualUpdateMode, ServerDecides
    <3>2. asks \in 0..MaxAsks /\ orders \in 0..MaxOrders
      BY DEF InstallTypes
    <3> QED BY <3>1, <3>2, BoundsAssumption DEF BoundsAssumption
  <2>2. UNCHANGED <<installer, due, overlap, abandoned>>
    BY <1>1
    DEF PersonAsks, partialUpdate, BackdoorUpdate, partialUpdateByVersion, Ask, exitManualMode,
        ignoreManualUpdateMode, ServerDecides, history
  <2> QED BY <2>1, <2>2 DEF InstallTypes, installer
<1>2. CASE ServerReleases \/ DownloadFinished \/ WriteFailed
  <2>1. UNCHANGED <<installer, asks, orders, due, abandoned>> /\ overlap' \in BOOLEAN
    BY <1>2
    DEF ServerReleases, DownloadFinished, WriteFailed, InstallTypes, counters
  <2> QED BY <2>1 DEF InstallTypes, installer
<1>3. CASE updateAndRestart
  <2>1. /\ due' = popup /\ popup \in Announcements \union {Nothing}
        /\ restarting' = TRUE /\ enabled' = FALSE /\ asked' = TRUE
        /\ UNCHANGED <<service, unpacked, asks, orders, abandoned>> /\ overlap' \in BOOLEAN
    BY <1>3 DEF updateAndRestart, RequestTypes, InstallTypes, counters
  <2> QED BY <2>1, Zenon DEF InstallTypes
<1>4. CASE StartService
  <2>1. /\ asked' = FALSE /\ enabled' = TRUE /\ service' \in {service, "running"}
        /\ UNCHANGED <<restarting, unpacked, asks, orders, due, overlap>>
        /\ abandoned' \in BOOLEAN
    BY <1>4 DEF StartService, InstallTypes, counters
  <2> QED BY <2>1 DEF InstallTypes
<1>5. CASE Unpack
  <2>1. /\ service' = "unpacked" /\ unpacked' \in Archives
        /\ UNCHANGED <<restarting, asked, enabled, asks, orders, due, overlap, abandoned>>
    BY <1>5 DEF Unpack, RequestTypes, counters, history
  <2> QED BY <2>1 DEF InstallTypes
<1>6. CASE Restart
  <2>1. /\ due' \in {due, Nothing} /\ service' \in {"running", "idle"}
        /\ abandoned' \in BOOLEAN
    BY <1>6 DEF Restart, Replace, PowerLoss, InstallTypes
  <2>2. /\ restarting' = FALSE /\ asked' = FALSE /\ enabled' = FALSE /\ unpacked' = None
        /\ UNCHANGED <<asks, orders, overlap>>
    BY <1>6 DEF Restart, Replace, PowerLoss, Start
  <2>3. None \in Archives
    BY DEF Archives
  <2> QED BY <2>1, <2>2, <2>3 DEF InstallTypes
<1>7. CASE UNCHANGED <<installer, asks, orders, due, overlap, abandoned>>
  BY <1>7 DEF InstallTypes, installer
<1> QED
  BY <1>1, <1>2, <1>3, <1>4, <1>5, <1>6, <1>7
  DEF Next, PersonAsks, fetchUpdateInformation, ListFetched, ListFailed, ServerOrders,
      DownloadFailed, LowStorage, NoRoomToInstall, Restart, vars, counters, history

\* The state of the update keeps its type, for all bounds.
THEOREM TypeCorrect == Spec => []TypeOK
<1>1. TypeInv /\ [Next]_vars => TypeInv'
  BY NextModeTypes, NextListTypes, NextRequestTypes, NextInstallTypes DEF TypeInv
<1> QED BY <1>1, InitTypes, TypeOKMeans, PTL DEF Spec

-----------------------------------------------------------------------------
(***************************************************************************)
(* Who may replace a pinned version.                                       *)
(***************************************************************************)

\* What PinnedKept says of an installation.
Honours(r) ==
  /\ r.by = "server" => ~startedManual
  /\ r.by = "force" => ~startedServer /\ (startedManual => left)

\* Every request under way was made by someone who may make it.
AllHonour == Honours(download) /\ Honours(popup) /\ Honours(due)

\* Only a person's request makes a manual version, and only the server's is marked as such.
Plain(r) == r.by # "person" => ~r.manual
Marked(p) == p.server => p.by = "server"
AllPlain ==
  /\ Plain(download) /\ Plain(popup) /\ Plain(due)
  /\ Marked(popup) /\ Marked(due)

\* A manual version is in the manual mode until a person leaves it.
ManualMode == startedManual => isManual \/ left

\* An application that starts before the installation has come to its end is started in a mode
\* in which it may go on.
SettingsHonour ==
  /\ due.by # "person" => ~saved.manual
  /\ due.by = "force" => ~saved.server

PinInv == AllHonour /\ AllPlain /\ ManualMode /\ SettingsHonour

\* A request that may be made leads to a download and a popup that may be.
LEMMA FollowsHonours ==
  ASSUME AllHonour, AllPlain, NEW r, Follows(r), Plain(r),
         r.by = "server" => ~startedManual',
         r.by = "force" => ~startedServer' /\ (startedManual' => left'),
         startedManual' = startedManual, startedServer' => startedServer, left => left',
         left' \in BOOLEAN, startedServer' \in BOOLEAN,
         UNCHANGED due
  PROVE  AllHonour' /\ AllPlain'
<1>1. /\ Announce(r, FALSE).by = r.by /\ Announce(r, FALSE).manual = r.manual
      /\ Announce(r, FALSE).server = FALSE
  BY DEF Announce
<1> QED BY <1>1 DEF Follows, AllHonour, Honours, AllPlain, Plain, Marked

\* What is not a request asks for nothing.
LEMMA NoneHonours ==
  /\ NoRequest.by = "person" /\ Nothing.by = "person" /\ Nothing.server = FALSE
  /\ \A r : Announce(r, r.by = "server").by = r.by /\ Announce(r, r.by = "server").manual = r.manual
            /\ Announce(r, r.by = "server").server = (r.by = "server")
  BY DEF Nothing, NoRequest, Announce

\* A request that may be made goes on as a popup and as an installation.
LEMMA StepHonours ==
  ASSUME AllHonour, AllPlain,
         download' \in {download, NoRequest},
         popup' \in {popup, Nothing, Announce(download, download.by = "server")},
         due' \in {due, popup, Nothing},
         startedManual' = startedManual, startedServer' => startedServer, left => left',
         left' \in BOOLEAN, startedServer' \in BOOLEAN
  PROVE  AllHonour' /\ AllPlain'
<1>1. Honours(download)' /\ Plain(download)'
  BY NoneHonours DEF AllHonour, Honours, AllPlain, Plain
<1>2. Honours(popup)' /\ Plain(popup)' /\ Marked(popup)'
  <2>1. CASE popup' \in {popup, Nothing}
    BY <2>1, NoneHonours DEF AllHonour, Honours, AllPlain, Plain, Marked
  <2>2. CASE popup' = Announce(download, download.by = "server")
    <3>1. popup'.by = download.by /\ popup'.manual = download.manual
      BY <2>2, NoneHonours
    <3>2. popup'.server => popup'.by = "server"
      BY <2>2, NoneHonours, Zenon
    <3> QED BY <3>1, <3>2 DEF AllHonour, Honours, AllPlain, Plain, Marked
  <2> QED BY <2>1, <2>2
<1>3. Honours(due)' /\ Plain(due)' /\ Marked(due)'
  BY NoneHonours DEF AllHonour, Honours, AllPlain, Plain, Marked
<1> QED BY <1>1, <1>2, <1>3 DEF AllHonour, AllPlain

\* The requests of the application itself respect what is pinned.
LEMMA OwnRequestPin == TypeInv /\ PinInv /\ OwnRequest => PinInv'
<1> SUFFICES ASSUME TypeInv, PinInv, OwnRequest PROVE PinInv'
  OBVIOUS
<1> /\ ModeTypes /\ RequestTypes /\ ReadTypes
    /\ AllHonour /\ AllPlain /\ ManualMode /\ SettingsHonour
  BY DEF TypeInv, ListTypes, PinInv
<1>1. PICK pinned \in BOOLEAN :
        /\ ~pinned => ~startedServer' /\ (startedManual' => left')
        /\ UNCHANGED <<download, popup>> \/ \E r \in Unasked(pinned) : Follows(r)
  <2>1. CASE ListFetched
    <3>1. Pinned \in BOOLEAN /\ (~Pinned => ~startedServer' /\ (startedManual' => left'))
      BY <2>1 DEF ListFetched, Pinned, ModeTypes, mode, ManualMode
    <3> QED BY <2>1, <3>1, CheckFollows DEF ListFetched
  <2>2. CASE exitManualMode
    <3>1. startedServer \in BOOLEAN /\ startedServer' = startedServer /\ left'
      BY <2>2 DEF exitManualMode, ModeTypes
    <3> QED BY <2>2, <3>1, CheckFollows DEF exitManualMode
  <2>3. CASE ServerReleases
    <3>1. isManual \in BOOLEAN /\ ~startedServer' /\ (~isManual => (startedManual' => left'))
      BY <2>3 DEF ServerReleases, ModeTypes, ManualMode
    <3> QED BY <2>3, <3>1, CheckFollows DEF ServerReleases
  <2> QED BY <2>1, <2>2, <2>3 DEF OwnRequest
<1>2. /\ startedManual' = startedManual /\ (startedServer' => startedServer) /\ (left => left')
      /\ left' \in BOOLEAN /\ startedServer' \in BOOLEAN /\ UNCHANGED due
  <2>1. CASE ListFetched
    BY <2>1 DEF ListFetched, ModeTypes, mode
  <2>2. CASE exitManualMode
    BY <2>2 DEF exitManualMode, ModeTypes
  <2>3. CASE ServerReleases
    BY <2>3 DEF ServerReleases, ModeTypes
  <2> QED BY <2>1, <2>2, <2>3 DEF OwnRequest
<1>3. AllHonour' /\ AllPlain'
  <2>1. CASE UNCHANGED <<download, popup>>
    BY <1>2, <2>1, StepHonours
  <2>2. CASE \E r \in Unasked(pinned) : Follows(r)
    <3> PICK r \in Unasked(pinned) : Follows(r)
      BY <2>2
    <3>1. Plain(r) /\ r.by # "server" /\ (r.by = "force" => ~pinned)
      BY DEF Unasked, Plain
    <3> QED BY <1>1, <1>2, <3>1, FollowsHonours
  <2> QED BY <1>1, <2>1, <2>2
<1>4. ManualMode'
  BY DEF OwnRequest, ListFetched, exitManualMode, ServerReleases, mode, ManualMode
<1>5. SettingsHonour'
  <2>1. saved'.manual = saved.manual /\ (saved'.server => saved.server) /\ saved'.server \in BOOLEAN
    BY DEF OwnRequest, ListFetched, exitManualMode, ServerReleases, mode, ModeTypes
  <2> QED BY <1>2, <2>1 DEF SettingsHonour
<1> QED BY <1>3, <1>4, <1>5 DEF PinInv

\* So do those of a person, and of the server.
LEMMA AskPin == TypeInv /\ PinInv /\ (PersonAsks \/ ServerOrders) => PinInv'
<1> SUFFICES ASSUME TypeInv, PinInv, PersonAsks \/ ServerOrders PROVE PinInv'
  OBVIOUS
<1> /\ ModeTypes /\ ListTypes /\ RequestTypes
    /\ AllHonour /\ AllPlain /\ ManualMode /\ SettingsHonour
  BY DEF TypeInv, PinInv
<1>1. PICK r \in Requests :
        /\ checkAndDownloadPartialUpdate(r)
        /\ r.by = "person" \/ (r.by = "server" /\ ~r.manual /\ ~startedManual)
  <2>1. CASE PersonAsks
    BY <2>1, PersonFollows DEF Ask
  <2>2. CASE ServerOrders
    <3> DEFINE r == Request(order, FALSE, "server")
    <3>1. r \in Requests /\ r.by = "server" /\ ~r.manual
      BY <2>2 DEF ServerOrders, ListTypes, Request, Requests, Installable, Sources
    <3> QED BY <2>2, <3>1 DEF ServerOrders, HonoursServer
  <2> QED BY <2>1, <2>2
<1>2. Follows(r)
  BY <1>1, RequestFollows
<1>3. UNCHANGED <<isManual, startedManual, startedServer, saved, left, due>>
  BY DEF PersonAsks, partialUpdate, BackdoorUpdate, partialUpdateByVersion, Ask, ServerOrders, mode
<1>4. AllHonour' /\ AllPlain'
  BY <1>1, <1>2, <1>3, FollowsHonours DEF Plain, ModeTypes
<1> QED BY <1>3, <1>4 DEF PinInv, ManualMode, SettingsHonour

\* The installation carries its request into the settings.
LEMMA InstallPin == TypeInv /\ PinInv /\ updateAndRestart => PinInv'
<1> SUFFICES ASSUME TypeInv, PinInv, updateAndRestart PROVE PinInv'
  OBVIOUS
<1> /\ ModeTypes /\ popup \in Announcements \union {Nothing}
    /\ AllHonour /\ AllPlain /\ ManualMode /\ SettingsHonour
  BY DEF TypeInv, RequestTypes, PinInv
<1>1. /\ due' = popup /\ popup' = Nothing /\ download' = download
      /\ isManual' = popup.manual /\ saved' = [manual |-> popup.manual, server |-> popup.server]
      /\ UNCHANGED <<startedManual, startedServer>>
      /\ left' = (left \/ (popup.by = "person" /\ ~popup.manual))
  BY DEF updateAndRestart, Flags
<1>2. popup.by \in Sources /\ popup.manual \in BOOLEAN /\ popup.server \in BOOLEAN
  BY AnnouncementFields
<1>3. AllHonour' /\ AllPlain'
  BY <1>1, StepHonours DEF ModeTypes
<1>4. ManualMode'
  BY <1>1, <1>2 DEF ManualMode, AllHonour, Honours, Sources
<1>5. SettingsHonour'
  <2>1. saved'.manual = popup.manual /\ saved'.server = popup.server
    BY <1>1
  <2> QED BY <1>1, <1>2, <2>1 DEF SettingsHonour, AllPlain, Plain, Marked
<1> QED BY <1>3, <1>4, <1>5 DEF PinInv

\* An application that starts finds in the settings a mode in which what is still to be
\* installed may be.
LEMMA RestartPin == TypeInv /\ PinInv /\ Restart => PinInv'
<1> SUFFICES ASSUME TypeInv, PinInv, Restart PROVE PinInv'
  OBVIOUS
<1> ModeTypes /\ AllPlain /\ SettingsHonour
  BY DEF TypeInv, PinInv
<1>1. /\ isManual' = saved.manual /\ startedManual' = saved.manual
      /\ startedServer' = saved.server /\ left' = FALSE
      /\ download' = NoRequest /\ popup' = Nothing /\ UNCHANGED saved
  BY DEF Restart, Replace, PowerLoss, Start
<1>2. due' \in {due, Nothing}
  BY DEF Restart, Replace, PowerLoss
<1>3. Honours(download)' /\ Honours(popup)' /\ Plain(download)' /\ Plain(popup)' /\ Marked(popup)'
  BY <1>1, NoneHonours DEF Honours, Plain, Marked
<1>4. Honours(due)' /\ Plain(due)' /\ Marked(due)'
  BY <1>1, <1>2, NoneHonours DEF Honours, AllPlain, Plain, Marked, SettingsHonour
<1>5. ManualMode'
  BY <1>1 DEF ManualMode
<1>6. SettingsHonour'
  BY <1>1, <1>2, NoneHonours DEF SettingsHonour
<1> QED BY <1>3, <1>4, <1>5, <1>6 DEF PinInv, AllHonour, AllPlain

\* Every step respects what is pinned.
LEMMA NextPin == TypeInv /\ PinInv /\ [Next]_vars => PinInv'
<1> SUFFICES ASSUME TypeInv, PinInv, [Next]_vars PROVE PinInv'
  OBVIOUS
<1> /\ ModeTypes /\ AllHonour /\ AllPlain /\ ManualMode /\ SettingsHonour
  BY DEF TypeInv, PinInv
<1>1. CASE OwnRequest
  BY <1>1, OwnRequestPin
<1>2. CASE PersonAsks \/ ServerOrders
  BY <1>2, AskPin
<1>3. CASE updateAndRestart
  BY <1>3, InstallPin
<1>4. CASE Restart
  BY <1>4, RestartPin
<1>5. CASE DownloadFinished \/ DownloadFailed \/ WriteFailed \/ NoRoomToInstall
  <2>1. UNCHANGED <<isManual, startedManual, startedServer, saved, left, due>>
    BY <1>5 DEF DownloadFinished, DownloadFailed, WriteFailed, NoRoomToInstall, mode, history
  <2>2. /\ download' \in {download, NoRequest}
        /\ popup' \in {popup, Nothing, Announce(download, download.by = "server")}
    BY <1>5 DEF DownloadFinished, DownloadFailed, WriteFailed, NoRoomToInstall, Finish, Ready
  <2>3. AllHonour' /\ AllPlain'
    BY <2>1, <2>2, StepHonours DEF ModeTypes
  <2> QED BY <2>1, <2>3 DEF PinInv, ManualMode, SettingsHonour
<1>6. CASE ignoreManualUpdateMode
  <2>1. UNCHANGED <<startedManual, startedServer, saved, download, popup, due>> /\ left' = TRUE
    BY <1>6 DEF ignoreManualUpdateMode
  <2>2. AllHonour' /\ AllPlain'
    BY <2>1, StepHonours DEF ModeTypes
  <2> QED BY <2>1, <2>2 DEF PinInv, ManualMode, SettingsHonour
<1>7. CASE UNCHANGED <<mode, left, download, popup, due>>
  BY <1>7 DEF mode, PinInv, AllHonour, Honours, AllPlain, Plain, Marked, ManualMode, SettingsHonour
<1> QED
  BY <1>1, <1>2, <1>3, <1>4, <1>5, <1>6, <1>7
  DEF Next, OwnRequest, PersonAsks, Restart, fetchUpdateInformation, ListFailed, ServerDecides,
      LowStorage, StartService, Unpack, vars, history

\* A version that was installed by hand, or that the server asked for, is replaced only by
\* those who may.
THEOREM PinnedIsKept == Spec => []PinnedKept
<1>1. Init => PinInv
  <2> SUFFICES ASSUME Init PROVE PinInv
    OBVIOUS
  <2>1. /\ download = NoRequest /\ popup = Nothing /\ due = Nothing
        /\ isManual = saved.manual /\ startedManual = saved.manual
    BY DEF Init
  <2> QED
    BY <2>1, NoneHonours
    DEF PinInv, AllHonour, Honours, AllPlain, Plain, Marked, ManualMode, SettingsHonour
<1>2. TypeInv /\ [Next]_vars => TypeInv'
  BY NextModeTypes, NextListTypes, NextRequestTypes, NextInstallTypes DEF TypeInv
<1>3. PinInv => PinnedKept
  BY DEF PinInv, AllHonour, Honours, PinnedKept
<1> QED BY <1>1, <1>2, <1>3, InitTypes, NextPin, PTL DEF Spec

-----------------------------------------------------------------------------
(***************************************************************************)
(* What is unpacked, and what the settings tell.                           *)
(***************************************************************************)

\* What a version that was asked for like p is, in the settings.
Told(p) == [manual |-> p.manual, server |-> p.by = "server"]

\* From the verification on, the file is the one the popup opens for, or it is gone.
PopupHolds == popup # Nothing => archive \in {popup.what, None} \/ overlap

\* So it is while the installation is under way.
InstallHolds == Installing => archive \in {due.what, None} \/ overlap \/ abandoned

\* A service that is enabled without an installation was left so by one that came to nothing.
EnabledHolds == enabled => Installing \/ abandoned

\* The server's requests are marked as such, unless the file was there before.
Says(p) == (p.server <=> p.by = "server") \/ recached

\* While the installation is under way, the settings are ahead of the version that runs.
SettingsHold == Installing => saved = Told(due) \/ overlap \/ abandoned \/ recached

FileInv ==
  /\ PopupHolds /\ InstallHolds /\ EnabledHolds /\ UnpacksWhatWasAsked
  /\ Says(popup) /\ Says(due) /\ SettingsHold /\ SettingsTell

\* What a request may do to the file and to the popup: it announces what it has found.
FileFollows ==
  /\ archive' \in {archive, None}
  /\ recached' \in BOOLEAN /\ (recached => recached')
  /\ \/ popup' = popup
     \/ popup'.what = archive' /\ Says(popup)'

\* A request overwrites nothing that was verified.
LEMMA RequestFile ==
  ASSUME RequestTypes, NEW r, checkAndDownloadPartialUpdate(r)
  PROVE  FileFollows
<1> recached \in BOOLEAN
  BY DEF RequestTypes
<1>1. CASE Cached(r) /\ Ready(r, FALSE) /\ archive' = archive
  <2>1. popup'.what = r.what /\ popup'.by = r.by /\ popup'.server = FALSE
    BY <1>1 DEF Ready, Announce
  <2>2. recached' = (recached \/ r.by = "server")
    BY <1>1 DEF Ready
  <2>3. popup'.what = archive'
    BY <1>1, <2>1 DEF Cached
  <2>4. Says(popup)'
    BY <2>1, <2>2 DEF Says
  <2> QED BY <1>1, <2>2, <2>3, <2>4 DEF FileFollows
<1>2. CASE archive' \in {archive, None} /\ UNCHANGED <<popup, recached>>
  BY <1>2 DEF FileFollows
<1> QED BY <1>1, <1>2 DEF checkAndDownloadPartialUpdate

\* Nor does a check.
LEMMA CheckFile ==
  ASSUME RequestTypes, NEW installLatest, NEW pinned, NEW readable,
         checkPartialUpdate(installLatest, pinned, readable)
  PROVE  FileFollows
<1>1. CASE NoDownload
  BY <1>1 DEF NoDownload, FileFollows, RequestTypes
<1>2. CASE ~NoDownload
  <2>1. PICK r : checkAndDownloadPartialUpdate(r)
    BY <1>2 DEF checkPartialUpdate
  <2> QED BY <2>1, RequestFile
<1> QED BY <1>1, <1>2

\* What a step leaves alone that does not belong to the installation.
Apart == UNCHANGED <<due, asked, service, enabled, unpacked, abandoned>>

\* A step that does no more than a request may do keeps the invariant.
LEMMA ApartFile ==
  ASSUME TypeInv, FileInv, Apart,
         FileFollows, UNCHANGED <<saved, came, overlap>>
  PROVE  FileInv'
<1> /\ overlap \in BOOLEAN /\ recached \in BOOLEAN /\ abandoned \in BOOLEAN
  BY DEF TypeInv, RequestTypes, InstallTypes
<1>1. Installing' = Installing /\ Told(due)' = Told(due)
  BY DEF Apart, Installing, Told
<1>2. PopupHolds'
  <2>1. CASE popup' = popup
    BY <2>1 DEF FileInv, PopupHolds, FileFollows
  <2>2. CASE popup'.what = archive'
    BY <2>2 DEF PopupHolds
  <2> QED BY <2>1, <2>2 DEF FileFollows
<1>3. InstallHolds'
  BY <1>1 DEF FileInv, InstallHolds, FileFollows, Apart
<1>4. EnabledHolds' /\ UnpacksWhatWasAsked'
  BY <1>1 DEF FileInv, EnabledHolds, UnpacksWhatWasAsked, Apart
<1>5. Says(popup)' /\ Says(due)'
  BY DEF FileInv, Says, FileFollows, Apart
<1>6. SettingsHold' /\ SettingsTell'
  BY <1>1 DEF FileInv, SettingsHold, SettingsTell, FileFollows, Apart
<1> QED BY <1>2, <1>3, <1>4, <1>5, <1>6 DEF FileInv

\* The end of the server's order changes the settings of the version that runs, and gets in the
\* way of an installation.
LEMMA ReleaseFile == TypeInv /\ FileInv /\ ServerReleases => FileInv'
<1> SUFFICES ASSUME TypeInv, FileInv, ServerReleases PROVE FileInv'
  OBVIOUS
<1> /\ overlap \in BOOLEAN /\ recached \in BOOLEAN /\ abandoned \in BOOLEAN
    /\ RequestTypes
  BY DEF TypeInv, RequestTypes, InstallTypes
<1>1. Apart /\ overlap' = (overlap \/ Installing) /\ Installing' = Installing
  BY DEF ServerReleases, Apart, installer, Installing
<1>2. FileFollows
  BY CheckFile DEF ServerReleases
<1>3. PopupHolds'
  <2>1. CASE popup' = popup
    BY <1>1, <1>2, <2>1 DEF FileInv, PopupHolds, FileFollows
  <2>2. CASE popup'.what = archive'
    BY <2>2 DEF PopupHolds
  <2> QED BY <1>2, <2>1, <2>2 DEF FileFollows
<1>4. InstallHolds' /\ EnabledHolds' /\ UnpacksWhatWasAsked' /\ SettingsHold'
  BY <1>1
  DEF FileInv, InstallHolds, EnabledHolds, UnpacksWhatWasAsked, SettingsHold, Apart, Installing
<1>5. Says(popup)' /\ Says(due)'
  BY <1>1, <1>2 DEF FileInv, Says, FileFollows, Apart
<1>6. SettingsTell'
  <2>1. saved' = [saved EXCEPT !.server = FALSE] /\ came' = [came EXCEPT !.server = FALSE]
    BY DEF ServerReleases
  <2>2. saved = came => saved' = came'
    BY <2>1
  <2> QED BY <1>1, <1>2, <2>2 DEF FileInv, SettingsTell, FileFollows, Apart
<1> QED BY <1>3, <1>4, <1>5, <1>6 DEF FileInv

\* A download that ends in a file is announced, or what is announced and installed is disturbed.
LEMMA DownloadFile == TypeInv /\ FileInv /\ (DownloadFinished \/ WriteFailed) => FileInv'
<1> SUFFICES ASSUME TypeInv, FileInv, DownloadFinished \/ WriteFailed PROVE FileInv'
  OBVIOUS
<1> /\ overlap \in BOOLEAN /\ recached \in BOOLEAN /\ abandoned \in BOOLEAN
  BY DEF TypeInv, RequestTypes, InstallTypes
<1>1. Apart /\ UNCHANGED <<saved, came>> /\ Installing' = Installing
  BY DEF DownloadFinished, WriteFailed, Apart, installer, mode, Installing
<1>2. \/ UNCHANGED <<archive, popup, overlap, recached>>
      \/ /\ archive' = download.what /\ popup' = Announce(download, download.by = "server")
         /\ overlap' = (overlap \/ Installing) /\ recached' = recached
      \/ /\ archive' = Corrupt /\ UNCHANGED <<popup, recached>>
         /\ overlap' = (overlap \/ popup # Nothing \/ Installing)
  BY DEF DownloadFinished, WriteFailed, Ready
<1>3. CASE UNCHANGED <<archive, popup, overlap, recached>>
  BY <1>1, <1>3
  DEF FileInv, PopupHolds, InstallHolds, EnabledHolds, UnpacksWhatWasAsked, Says, SettingsHold,
      SettingsTell, Told, Apart
<1>4. CASE /\ archive' = download.what /\ popup' = Announce(download, download.by = "server")
           /\ overlap' = (overlap \/ Installing) /\ recached' = recached
  <2>1. /\ popup'.what = archive' /\ popup'.by = download.by
        /\ popup'.server <=> popup'.by = "server"
    <3>1. popup'.what = archive'
      BY <1>4 DEF Announce
    <3> QED BY <1>4, <3>1, NoneHonours, Zenon
  <2>2. PopupHolds' /\ Says(popup)'
    BY <2>1 DEF PopupHolds, Says
  <2>3. Says(due)'
    BY <1>1, <1>4 DEF FileInv, Says, Apart
  <2>4. InstallHolds' /\ EnabledHolds' /\ UnpacksWhatWasAsked' /\ SettingsHold' /\ SettingsTell'
    BY <1>1, <1>4
    DEF FileInv, InstallHolds, EnabledHolds, UnpacksWhatWasAsked, SettingsHold, SettingsTell,
        Apart, Installing
  <2> QED BY <2>2, <2>3, <2>4 DEF FileInv
<1>5. CASE /\ archive' = Corrupt /\ UNCHANGED <<popup, recached>>
           /\ overlap' = (overlap \/ popup # Nothing \/ Installing)
  <2>1. PopupHolds' /\ Says(popup)' /\ Says(due)'
    BY <1>1, <1>5 DEF FileInv, PopupHolds, Says, Apart
  <2>2. InstallHolds' /\ EnabledHolds' /\ UnpacksWhatWasAsked' /\ SettingsHold' /\ SettingsTell'
    BY <1>1, <1>5
    DEF FileInv, InstallHolds, EnabledHolds, UnpacksWhatWasAsked, SettingsHold, SettingsTell,
        Apart, Installing
  <2> QED BY <2>1, <2>2 DEF FileInv
<1> QED BY <1>2, <1>3, <1>4, <1>5

\* The installation of what is announced saves what is to come.
LEMMA InstallFile == TypeInv /\ FileInv /\ updateAndRestart => FileInv'
<1> SUFFICES ASSUME TypeInv, FileInv, updateAndRestart PROVE FileInv'
  OBVIOUS
<1> /\ overlap \in BOOLEAN /\ recached \in BOOLEAN /\ abandoned \in BOOLEAN
    /\ popup \in Announcements \union {Nothing}
  BY DEF TypeInv, RequestTypes, InstallTypes
<1>1. /\ popup # Nothing /\ popup' = Nothing /\ due' = popup /\ saved' = Flags(popup)
      /\ asked' = TRUE /\ enabled' = FALSE /\ overlap' = (overlap \/ Installing)
      /\ UNCHANGED <<archive, service, unpacked, came, recached, abandoned>>
  BY DEF updateAndRestart
<1>2. popup.server \in BOOLEAN
  BY AnnouncementFields
<1>3. PopupHolds' /\ EnabledHolds' /\ Says(popup)' /\ Says(due)'
  BY <1>1, NoneHonours DEF FileInv, PopupHolds, EnabledHolds, Says
<1>4. InstallHolds' /\ UnpacksWhatWasAsked'
  BY <1>1 DEF FileInv, PopupHolds, InstallHolds, UnpacksWhatWasAsked, Installing
<1>5. SettingsHold'
  <2>1. CASE popup.server <=> popup.by = "server"
    <3>1. popup.server = (popup.by = "server")
      BY <1>2, <2>1
    <3>2. Flags(popup) = Told(popup)
      BY <3>1, Zenon DEF Flags, Told
    <3>3. Told(due)' = Told(popup)
      BY <1>1, Zenon DEF Told
    <3> QED BY <1>1, <3>2, <3>3 DEF SettingsHold
  <2>2. CASE recached
    BY <1>1, <2>2 DEF SettingsHold
  <2> QED BY <2>1, <2>2 DEF FileInv, Says
<1>6. SettingsTell'
  BY <1>1 DEF SettingsTell, Installing
<1> QED BY <1>3, <1>4, <1>5, <1>6 DEF FileInv

\* The service starts with the file as it is, or there is nothing to install.
LEMMA ServiceFile == TypeInv /\ FileInv /\ (StartService \/ Unpack) => FileInv'
<1> SUFFICES ASSUME TypeInv, FileInv, StartService \/ Unpack PROVE FileInv'
  OBVIOUS
<1> /\ overlap \in BOOLEAN /\ recached \in BOOLEAN /\ abandoned \in BOOLEAN
    /\ service \in {"idle", "running", "unpacked"}
  BY DEF TypeInv, RequestTypes, InstallTypes
<1>1. UNCHANGED <<archive, popup, due, saved, came, overlap, recached>>
  BY DEF StartService, Unpack, mode, history
<1>2. PopupHolds' /\ Says(popup)' /\ Says(due)'
  BY <1>1 DEF FileInv, PopupHolds, Says
<1>3. CASE StartService
  <2>1. /\ asked /\ asked' = FALSE /\ enabled' = TRUE /\ unpacked' = unpacked
        /\ service' = IF service = "idle" /\ archive # None THEN "running" ELSE service
        /\ abandoned' = (abandoned \/ (service = "idle" /\ archive = None))
    BY <1>3 DEF StartService
  <2>2. Installing /\ (Installing' \/ abandoned')
    BY <2>1 DEF Installing
  <2>3. InstallHolds' /\ EnabledHolds' /\ UnpacksWhatWasAsked'
    BY <1>1, <2>1, <2>2 DEF FileInv, InstallHolds, EnabledHolds, UnpacksWhatWasAsked
  <2>4. SettingsHold' /\ SettingsTell'
    BY <1>1, <2>1, <2>2 DEF FileInv, SettingsHold, SettingsTell, Told
  <2> QED BY <1>2, <2>3, <2>4 DEF FileInv
<1>4. CASE Unpack
  <2>1. /\ service = "running" /\ service' = "unpacked" /\ unpacked' = archive
        /\ UNCHANGED <<asked, enabled, abandoned>>
    BY <1>4 DEF Unpack, history
  <2>2. Installing /\ Installing'
    BY <2>1 DEF Installing
  <2>3. InstallHolds' /\ EnabledHolds' /\ UnpacksWhatWasAsked'
    BY <1>1, <2>1, <2>2 DEF FileInv, InstallHolds, EnabledHolds, UnpacksWhatWasAsked
  <2>4. SettingsHold' /\ SettingsTell'
    BY <1>1, <2>1, <2>2 DEF FileInv, SettingsHold, SettingsTell, Told
  <2> QED BY <1>2, <2>3, <2>4 DEF FileInv
<1> QED BY <1>3, <1>4

\* The application starts with the version that was installed, or with an installation that goes
\* on or has come to nothing.
LEMMA RestartFile == TypeInv /\ FileInv /\ Restart => FileInv'
<1> SUFFICES ASSUME TypeInv, FileInv, Restart PROVE FileInv'
  OBVIOUS
<1> /\ overlap \in BOOLEAN /\ recached \in BOOLEAN /\ abandoned \in BOOLEAN
    /\ service \in {"idle", "running", "unpacked"}
  BY DEF TypeInv, RequestTypes, InstallTypes
<1>1. /\ popup' = Nothing /\ asked' = FALSE /\ enabled' = FALSE
      /\ UNCHANGED <<saved, overlap, recached>>
  BY DEF Restart, Replace, PowerLoss, Start
<1>2. PopupHolds' /\ EnabledHolds' /\ Says(popup)'
  BY <1>1, NoneHonours DEF PopupHolds, EnabledHolds, Says
<1>3. CASE Replace
  <2>1. service = "unpacked" /\ service' = "idle" /\ due' = Nothing
    BY <1>3 DEF Replace
  <2>2. Installing /\ ~Installing'
    BY <1>1, <2>1 DEF Installing
  <2>3. InstallHolds' /\ UnpacksWhatWasAsked' /\ SettingsHold' /\ Says(due)'
    BY <1>1, <2>1, <2>2, NoneHonours
    DEF InstallHolds, UnpacksWhatWasAsked, SettingsHold, Says
  <2>4. SettingsTell'
    <3>1. CASE unpacked \in Installable
      <4>1. came' = Told(due) /\ abandoned' = abandoned
        BY <1>3, <3>1 DEF Replace, Told
      <4> QED BY <1>1, <2>2, <4>1 DEF FileInv, SettingsHold, SettingsTell
    <3>2. CASE unpacked \notin Installable
      BY <1>3, <3>2 DEF Replace, SettingsTell
    <3> QED BY <3>1, <3>2
  <2> QED BY <1>2, <2>3, <2>4 DEF FileInv
<1>4. CASE PowerLoss
  <2>1. /\ service' = IF enabled /\ archive # None THEN "running" ELSE "idle"
        /\ abandoned' = (abandoned \/ (Installing /\ service' = "idle"))
        /\ UNCHANGED <<archive, due, came>>
    BY <1>4 DEF PowerLoss
  <2>2. Installing' => Installing \/ abandoned
    BY <1>1, <2>1 DEF FileInv, EnabledHolds, Installing
  <2>3. Installing => Installing' \/ abandoned'
    BY <1>1, <2>1 DEF Installing
  <2>4. InstallHolds' /\ UnpacksWhatWasAsked' /\ Says(due)'
    BY <1>1, <2>1, <2>2 DEF FileInv, InstallHolds, UnpacksWhatWasAsked, Says
  <2>5. SettingsHold' /\ SettingsTell'
    BY <1>1, <2>1, <2>2, <2>3 DEF FileInv, SettingsHold, SettingsTell, Told
  <2> QED BY <1>2, <2>4, <2>5 DEF FileInv
<1> QED BY <1>3, <1>4 DEF Restart

\* Every step keeps file and settings in line with what was asked for.
LEMMA NextFile == TypeInv /\ FileInv /\ [Next]_vars => FileInv'
<1> SUFFICES ASSUME TypeInv, FileInv, [Next]_vars PROVE FileInv'
  OBVIOUS
<1> RequestTypes /\ ListTypes /\ recached \in BOOLEAN
  BY DEF TypeInv, RequestTypes
<1>1. CASE ListFetched \/ exitManualMode \/ PersonAsks \/ ServerOrders
  <2>1. FileFollows
    <3>1. CASE ListFetched \/ exitManualMode
      BY <3>1, CheckFile DEF ListFetched, exitManualMode
    <3>2. CASE PersonAsks
      BY <3>2, PersonFollows, RequestFile DEF Ask
    <3>3. CASE ServerOrders
      BY <3>3, RequestFile DEF ServerOrders
    <3> QED BY <1>1, <3>1, <3>2, <3>3
  <2>2. Apart /\ UNCHANGED <<saved, came, overlap>>
    BY <1>1
    DEF ListFetched, exitManualMode, PersonAsks, partialUpdate, BackdoorUpdate,
        partialUpdateByVersion, Ask, ServerOrders, Apart, installer, mode
  <2> QED BY <2>1, <2>2, ApartFile
<1>2. CASE ServerReleases
  BY <1>2, ReleaseFile
<1>3. CASE DownloadFinished \/ WriteFailed
  BY <1>3, DownloadFile
<1>4. CASE updateAndRestart
  BY <1>4, InstallFile
<1>5. CASE StartService \/ Unpack
  BY <1>5, ServiceFile
<1>6. CASE Restart
  BY <1>6, RestartFile
<1>7. CASE NoRoomToInstall
  <2>1. /\ popup' = Nothing
        /\ UNCHANGED <<archive, due, asked, service, enabled, unpacked, abandoned, saved, came,
                       overlap, recached>>
    BY <1>7 DEF NoRoomToInstall, installer, mode, history
  <2> QED
    BY <2>1, NoneHonours
    DEF FileInv, PopupHolds, InstallHolds, EnabledHolds, UnpacksWhatWasAsked, Says, SettingsHold,
        SettingsTell, Told, Installing
<1>8. CASE /\ archive' \in {archive, None}
           /\ UNCHANGED <<popup, recached, saved, came, overlap>> /\ Apart
  <2>1. FileFollows
    BY <1>8 DEF FileFollows
  <2> QED BY <1>8, <2>1, ApartFile
<1> QED
  BY <1>1, <1>2, <1>3, <1>4, <1>5, <1>6, <1>7, <1>8
  DEF Next, PersonAsks, Restart, fetchUpdateInformation, ListFailed, ignoreManualUpdateMode,
      ServerDecides, DownloadFailed, LowStorage, Apart, installer, mode, vars, history

\* The invariant holds from the start on, with the types.
LEMMA FileAlways == Spec => []FileInv
<1>1. Init => FileInv
  <2> SUFFICES ASSUME Init PROVE FileInv
    OBVIOUS
  <2>1. /\ popup = Nothing /\ due = Nothing /\ asked = FALSE /\ service = "idle"
        /\ enabled = FALSE /\ came = saved
    BY DEF Init
  <2> QED
    BY <2>1, NoneHonours
    DEF FileInv, PopupHolds, InstallHolds, EnabledHolds, UnpacksWhatWasAsked, Says, SettingsHold,
        SettingsTell, Installing
<1>2. TypeInv /\ [Next]_vars => TypeInv'
  BY NextModeTypes, NextListTypes, NextRequestTypes, NextInstallTypes DEF TypeInv
<1> QED BY <1>1, <1>2, InitTypes, NextFile, PTL DEF Spec

\* The service unpacks the archive that was verified for the installation it runs for, whatever
\* is downloaded, deleted or requested meanwhile, except for what the property names.
THEOREM UnpacksTheVerified == Spec => []UnpacksWhatWasAsked
<1>1. FileInv => UnpacksWhatWasAsked
  BY DEF FileInv
<1> QED BY <1>1, FileAlways, PTL

\* After every start the settings say how the version that runs was asked for, except for what
\* the property names.
THEOREM SettingsAreTrue == Spec => []SettingsTell
<1>1. FileInv => SettingsTell
  BY DEF FileInv
<1> QED BY <1>1, FileAlways, PTL

=============================================================================
