---------------------------- MODULE SystemUpdate ----------------------------
(***************************************************************************)
(* The software update of System: the list of versions is fetched, an      *)
(* archive is downloaded, verified and written to the update directory, a  *)
(* popup asks for its installation at once, and a service of the operating *)
(* system unpacks it, replaces the application and starts it again.        *)
(*                                                                         *)
(* Four sources ask for an archive: the check that finds a forced version, *)
(* a person (the update page, the version chosen on the test page, the     *)
(* back door), and the server.  All of them share one expected checksum,   *)
(* one download and one file.  Two settings say how the running version    *)
(* came about and decide after a restart whose requests are honoured.      *)
(*                                                                         *)
(* An archive stands for its checksum, and a version for its archive.      *)
(***************************************************************************)
EXTENDS Integers

CONSTANTS
  LatestVersion,   \* the versions of the list are 1..LatestVersion
  Forced,          \* those that are installed unasked
  MaxAsks,         \* how many times a person asks
  MaxOrders,       \* how many times the server changes its mind
  MaxFaults        \* how many things go wrong

ASSUME BoundsAssumption ==
  /\ LatestVersion \in Nat \ {0} /\ Forced \subseteq 1..LatestVersion
  /\ MaxAsks \in Nat /\ MaxOrders \in Nat /\ MaxFaults \in Nat

None == -2
Corrupt == -1
BackdoorFile == 0     \* its version counts as older than those of the list
Versions == 1..LatestVersion
Installable == Versions \union {BackdoorFile}
Archives == Installable \union {Corrupt, None}

Sources == {"person", "force", "server"}

VARIABLES
  current,         \* the version that runs
  isManual,        \* mIsManualUpdate
  startedManual,   \* mStartedWithManualUpdate
  startedServer,   \* mStartedWithFWServerUpdate
  saved,           \* the two settings
  info,            \* the list is on the disk
  listed,          \* mUpdateJsonObject is filled
  fetching,        \* the reply with the list is open
  latest,          \* mLatestVersionKey
  expected,        \* m_expectedUpdateChecksum
  busy,            \* mIsBusyDownloader
  download,        \* the request whose reply is open
  archive,         \* update.zip
  popup,           \* what the popup will install, with which flags
  restarting,      \* mRestarting
  asked,           \* the service is started 200 ms after updateAndRestart()
  service,         \* appStherm-update
  enabled,         \* it is run at the next boot
  unpacked,        \* what it has unpacked
  order,           \* the version the server wants
  asks, orders, faults,   \* counters, for the bounds
  due,             \* history: what updateAndRestart() was called for last
  came,            \* history: how the version that runs was asked for
  overlap,         \* history: a request got in the way of an installation
  recached,        \* history: the server's version was found in the update directory
  abandoned,       \* history: settings were saved for an installation that was not begun
  left             \* history: a person has left the manual mode since the start

mode == <<isManual, startedManual, startedServer, saved>>
list == <<info, listed, fetching, latest>>
installer == <<restarting, asked, service, enabled, unpacked>>
history == <<due, came, overlap, recached, abandoned, left>>
counters == <<asks, orders, faults>>

vars == <<current, mode, list, expected, busy, download, archive, popup, installer, order,
          counters, history>>

\* A request: the archive, whether it makes the version a manual one, and who asks.
Requests == [what : Installable, manual : BOOLEAN, by : Sources]
NoRequest == [what |-> None, manual |-> FALSE, by |-> "person"]

\* What partialUpdateReady() announces: a request, and the flag that the server asked.
Announcements == [what : Installable, manual : BOOLEAN, by : Sources, server : BOOLEAN]
Announce(r, server) == [what |-> r.what, manual |-> r.manual, by |-> r.by, server |-> server]
Nothing == Announce(NoRequest, FALSE)

Request(what, manual, by) == [what |-> what, manual |-> manual, by |-> by]

TypeOK ==
  /\ current \in Installable
  /\ isManual \in BOOLEAN /\ startedManual \in BOOLEAN /\ startedServer \in BOOLEAN
  /\ saved \in [manual : BOOLEAN, server : BOOLEAN]
  /\ info \in BOOLEAN /\ listed \in BOOLEAN /\ fetching \in BOOLEAN
  /\ latest \in Versions \union {None} /\ expected \in Versions \union {None}
  /\ busy \in BOOLEAN
  /\ download \in Requests \union {NoRequest}
  /\ archive \in Archives /\ unpacked \in Archives
  /\ popup \in Announcements \union {Nothing} /\ due \in Announcements \union {Nothing}
  /\ restarting \in BOOLEAN /\ asked \in BOOLEAN /\ enabled \in BOOLEAN
  /\ service \in {"idle", "running", "unpacked"}
  /\ order \in Versions \union {None}
  /\ asks \in 0..MaxAsks /\ orders \in 0..MaxOrders /\ faults \in 0..MaxFaults
  /\ came \in [manual : BOOLEAN, server : BOOLEAN]
  /\ overlap \in BOOLEAN /\ recached \in BOOLEAN /\ abandoned \in BOOLEAN /\ left \in BOOLEAN

\* Any of the three modes that a version may have been started in.
Init ==
  /\ saved \in [manual : BOOLEAN, server : BOOLEAN] /\ ~(saved.manual /\ saved.server)
  /\ current = IF saved.manual THEN BackdoorFile ELSE 1
  /\ order = IF saved.server THEN current ELSE None
  /\ isManual = saved.manual /\ startedManual = saved.manual /\ startedServer = saved.server
  /\ info = FALSE /\ listed = FALSE /\ fetching = FALSE /\ latest = None
  /\ expected = None /\ busy = FALSE /\ download = NoRequest /\ archive = None
  /\ popup = Nothing
  /\ restarting = FALSE /\ asked = FALSE /\ service = "idle" /\ enabled = FALSE /\ unpacked = None
  /\ asks = 0 /\ orders = 0 /\ faults = 0
  /\ due = Nothing /\ came = saved
  /\ overlap = FALSE /\ recached = FALSE /\ abandoned = FALSE /\ left = FALSE

\* updateAndRestart() has been called, and the application is still to be replaced.
Installing == asked \/ service # "idle"

Fault == faults < MaxFaults /\ faults' = faults + 1

-----------------------------------------------------------------------------
(***************************************************************************)
(* checkAndDownloadPartialUpdate().                                        *)
(***************************************************************************)

\* Mutant of Cached: the file of an earlier download is not verified.
CachedUnverified(r) == archive # None

\* The file of an earlier download is the one that is wanted.
Cached(r) == archive = r.what

\* partialUpdateReady(): the flags of the popup are overwritten.
Ready(r, server) ==
  /\ popup' = Announce(r, server)
  /\ recached' = (recached \/ (r.by = "server" /\ ~server))

StartDownload(r) ==
  IF busy THEN UNCHANGED <<busy, download>> ELSE busy' = TRUE /\ download' = r

\* All but two of the callers go through partialUpdate(), which looks for the directory first.
ThroughPartialUpdate(r) == r.by # "server" /\ (r.manual => r.what = BackdoorFile)

\* The update directory is not there (absent), or has room for the archive: at once (enough),
\* after it was cleared (cleared), or not even then (full).
Places == {"absent", "enough", "cleared", "full"}

checkAndDownloadPartialUpdate(r) == \E place \in Places :
  /\ IF place = "enough" THEN UNCHANGED faults ELSE Fault
  /\ expected' = IF r.what = BackdoorFile \/ (place = "absent" /\ ThroughPartialUpdate(r))
                 THEN expected ELSE r.what
  /\ \/ /\ place # "absent" /\ Cached(r)
        /\ Ready(r, FALSE)
        /\ UNCHANGED <<archive, busy, download>>
     \/ /\ place \in {"enough", "cleared"} /\ ~Cached(r)
        /\ archive' = IF place = "cleared" THEN None ELSE archive
        /\ StartDownload(r)
        /\ UNCHANGED <<popup, recached>>
     \/ /\ place = "full" /\ ~Cached(r)
        /\ archive' = None
        /\ UNCHANGED <<busy, download, popup, recached>>
     \/ /\ place = "absent"
        /\ UNCHANGED <<archive, busy, download, popup, recached>>

\* It returns early.
NoDownload == UNCHANGED <<expected, busy, download, archive, popup, recached, faults>>

-----------------------------------------------------------------------------
(***************************************************************************)
(* checkPartialUpdate() and its callers.                                   *)
(***************************************************************************)

Newer(S) == {v \in S : v > current}

\* findForceUpdate(): the first of the forced versions to come.
FirstForced == CHOOSE v \in Newer(Forced) : \A w \in Newer(Forced) : v <= w

\* Mutant of Pinned: a version the server asked for is not pinned.
PinnedManual == isManual

\* manualUpdateInstalled
Pinned == isManual \/ startedServer

\* For the modes and the list as `pinned' and `readable' give them.
checkPartialUpdate(installLatest, pinned, readable) ==
  LET forced == ~installLatest /\ Newer(Forced) # {}
      installable == IF forced THEN FirstForced ELSE LatestVersion
      by == IF installLatest THEN "person" ELSE "force"
  IN IF readable
     THEN /\ listed' = TRUE
          /\ latest' = installable
          /\ IF installLatest \/ (forced /\ ~pinned)
             THEN checkAndDownloadPartialUpdate(Request(installable, FALSE, by))
             ELSE NoDownload
     ELSE UNCHANGED <<listed, latest>> /\ NoDownload

\* fetchUpdateInformation(), every six hours, and on other occasions.
fetchUpdateInformation ==
  /\ ~fetching
  /\ fetching' = TRUE
  /\ UNCHANGED <<current, mode, info, listed, latest, expected, busy, download, archive, popup,
                 installer, order, counters, history>>

\* The list comes and is saved.
ListFetched ==
  /\ fetching
  /\ fetching' = FALSE
  /\ info' = TRUE
  /\ checkPartialUpdate(FALSE, Pinned, TRUE)
  /\ UNCHANGED <<current, mode, installer, order, asks, orders, due, came, overlap, abandoned, left>>

\* It does not come.
ListFailed ==
  /\ Fault
  /\ fetching
  /\ fetching' = FALSE
  /\ UNCHANGED <<current, mode, info, listed, latest, expected, busy, download, archive, popup,
                 installer, order, asks, orders, history>>

\* partialUpdate() and partialUpdateByVersion(), of a person.
Ask(r) ==
  /\ asks < MaxAsks
  /\ asks' = asks + 1
  /\ checkAndDownloadPartialUpdate(r)
  /\ UNCHANGED <<current, mode, list, installer, order, orders, due, came, overlap, abandoned, left>>

partialUpdate == listed /\ Ask(Request(latest, FALSE, "person"))
BackdoorUpdate == Ask(Request(BackdoorFile, TRUE, "person"))
partialUpdateByVersion == listed /\ \E v \in Versions : Ask(Request(v, TRUE, "person"))

exitManualMode ==
  /\ asks < MaxAsks /\ startedManual
  /\ asks' = asks + 1
  /\ isManual' = FALSE /\ left' = TRUE
  /\ checkPartialUpdate(TRUE, startedServer, info)
  /\ UNCHANGED <<current, startedManual, startedServer, saved, info, fetching, installer,
                 order, orders, due, came, overlap, abandoned>>

ignoreManualUpdateMode ==
  /\ asks < MaxAsks /\ isManual
  /\ asks' = asks + 1
  /\ isManual' = FALSE /\ left' = TRUE
  /\ UNCHANGED <<current, startedManual, startedServer, saved, list, expected, busy, download,
                 archive, popup, installer, order, orders, faults, due, came, overlap,
                 recached, abandoned>>

ServerDecides ==
  /\ orders < MaxOrders
  /\ orders' = orders + 1
  /\ order' \in (Versions \union {None}) \ {order}
  /\ UNCHANGED <<current, mode, list, expected, busy, download, archive, popup, installer,
                 asks, faults, history>>

\* Mutant of HonoursServer: the server replaces a manual version.
HonoursServerAlways == download = NoRequest /\ ~restarting

\* The conditions of the slot of updateFirmwareFromServer: no download, no restart; and a
\* manual version is kept.
HonoursServer == download = NoRequest /\ ~restarting /\ ~startedManual

\* The settings come from the server, and with them the version it wants.
ServerOrders ==
  /\ HonoursServer
  /\ order # None /\ order # current /\ listed
  /\ checkAndDownloadPartialUpdate(Request(order, FALSE, "server"))
  /\ UNCHANGED <<current, mode, list, installer, order, asks, orders, due, came, overlap, abandoned, left>>

\* It wants none any more.
ServerReleases ==
  /\ download = NoRequest /\ ~restarting
  /\ order = None /\ startedServer
  /\ startedServer' = FALSE
  /\ saved' = [saved EXCEPT !.server = FALSE]
  /\ came' = [came EXCEPT !.server = FALSE]
  /\ overlap' = (overlap \/ Installing)
  /\ checkPartialUpdate(FALSE, isManual, info)
  /\ UNCHANGED <<current, isManual, startedManual, info, fetching, installer, order,
                 asks, orders, due, abandoned, left>>

-----------------------------------------------------------------------------
(***************************************************************************)
(* The end of a download, and the disk.                                    *)
(***************************************************************************)

\* verifyDownloadedFiles(): the checksum that is expected by now is that of what was asked for.
Accepted(r) == r.what = BackdoorFile \/ r.what = expected

\* Mutant of Finish: mIsBusyDownloader is not cleared.
FinishBusy == download' = NoRequest /\ UNCHANGED busy

\* The callback clears the flag first.
Finish == download' = NoRequest /\ busy' = FALSE

DownloadFinished ==
  /\ download # NoRequest
  /\ Finish
  /\ IF Accepted(download)
     THEN /\ archive' = download.what /\ Ready(download, download.by = "server")
          /\ overlap' = (overlap \/ Installing)
     ELSE UNCHANGED <<archive, popup, overlap, recached>>
  /\ UNCHANGED <<current, mode, list, expected, installer, order, counters,
                 due, came, abandoned, left>>

\* The reply is an error (a transfer that stalls is aborted), or what came is not what was asked
\* for, or the file cannot be opened.
DownloadFailed ==
  /\ Fault
  /\ download # NoRequest
  /\ Finish
  /\ UNCHANGED <<current, mode, list, expected, archive, popup, installer, order, asks, orders,
                 history>>

\* Less than the archive is written.
WriteFailed ==
  /\ Fault
  /\ download # NoRequest /\ Accepted(download)
  /\ Finish
  /\ archive' = Corrupt
  /\ overlap' = (overlap \/ popup # Nothing \/ Installing)
  /\ UNCHANGED <<current, mode, list, expected, popup, installer, order, asks, orders,
                 due, came, recached, abandoned, left>>

\* lowStorageDetected: the update directory is emptied.
LowStorage ==
  /\ Fault
  /\ archive' = None
  /\ UNCHANGED <<current, mode, list, expected, busy, download, popup, installer, order,
                 asks, orders, history>>

-----------------------------------------------------------------------------
(***************************************************************************)
(* The installation.                                                       *)
(***************************************************************************)

\* Mutant of Flags: the flag of the server is not saved.
FlagsUnserved(p) == [manual |-> p.manual, server |-> FALSE]

\* What is saved.
Flags(p) == [manual |-> p.manual, server |-> p.server]

\* updateAndRestart(), once the popup is open.
updateAndRestart ==
  /\ popup # Nothing
  /\ popup' = Nothing
  /\ isManual' = popup.manual
  /\ saved' = Flags(popup)
  /\ restarting' = TRUE
  /\ enabled' = FALSE
  /\ asked' = TRUE
  /\ due' = popup
  /\ left' = (left \/ (popup.by = "person" /\ ~popup.manual))
  /\ overlap' = (overlap \/ Installing)
  /\ UNCHANGED <<current, startedManual, startedServer, list, expected, busy, download, archive,
                 service, unpacked, order, counters, came, recached, abandoned>>

\* There is no room to unpack or to install it.
NoRoomToInstall ==
  /\ Fault
  /\ popup # Nothing
  /\ popup' = Nothing
  /\ UNCHANGED <<current, mode, list, expected, busy, download, archive, installer, order,
                 asks, orders, history>>

\* systemctl enable and start; update.sh ends at once when there is no archive.
StartService ==
  /\ asked
  /\ asked' = FALSE
  /\ enabled' = TRUE
  /\ service' = IF service = "idle" /\ archive # None THEN "running" ELSE service
  /\ abandoned' = (abandoned \/ (service = "idle" /\ archive = None))
  /\ UNCHANGED <<current, mode, list, expected, busy, download, archive, popup, restarting,
                 unpacked, order, counters, due, came, overlap, recached, left>>

Unpack ==
  /\ service = "running"
  /\ service' = "unpacked"
  /\ unpacked' = archive
  /\ UNCHANGED <<current, mode, list, expected, busy, download, archive, popup, restarting,
                 asked, enabled, order, counters, history>>

\* The application starts: nothing but the settings and the disk is left, and
\* installUpdateService() disables the service.
Start ==
  /\ isManual' = saved.manual /\ startedManual' = saved.manual
  /\ startedServer' = saved.server
  /\ listed' = FALSE /\ fetching' = FALSE /\ latest' = None
  /\ expected' = None /\ busy' = FALSE /\ download' = NoRequest /\ popup' = Nothing
  /\ restarting' = FALSE /\ asked' = FALSE /\ enabled' = FALSE /\ unpacked' = None
  /\ left' = FALSE
  /\ UNCHANGED <<saved, info, order, asks, orders, overlap, recached>>

\* The application is stopped, replaced, the directory emptied, and the application started.
Replace ==
  /\ service = "unpacked"
  /\ IF unpacked \in Installable
     THEN /\ current' = unpacked
          /\ came' = [manual |-> due.manual, server |-> due.by = "server"]
          /\ UNCHANGED abandoned
     ELSE /\ UNCHANGED <<current, came>>
          /\ abandoned' = TRUE
  /\ service' = "idle"
  /\ archive' = None
  /\ due' = Nothing
  /\ Start
  /\ UNCHANGED faults

\* The device boots, and runs the service if it finds it enabled.
PowerLoss ==
  /\ Fault
  /\ service' = IF enabled /\ archive # None THEN "running" ELSE "idle"
  /\ abandoned' = (abandoned \/ (Installing /\ service' = "idle"))
  /\ Start
  /\ UNCHANGED <<current, archive, due, came>>

Next ==
  \/ fetchUpdateInformation \/ ListFetched \/ ListFailed
  \/ partialUpdate \/ BackdoorUpdate \/ partialUpdateByVersion
  \/ exitManualMode \/ ignoreManualUpdateMode
  \/ ServerDecides \/ ServerOrders \/ ServerReleases
  \/ DownloadFinished \/ DownloadFailed \/ WriteFailed
  \/ LowStorage
  \/ updateAndRestart \/ NoRoomToInstall
  \/ StartService \/ Unpack \/ Replace
  \/ PowerLoss

Spec == Init /\ [][Next]_vars

\* The six hours pass, replies end, the settings keep coming, the popup opens, the service runs.
\* A check every six hours does not fall into every download, and make it unacceptable.
Fairness ==
  /\ WF_vars(fetchUpdateInformation) /\ WF_vars(ListFetched)
  /\ WF_vars(ServerOrders)
  /\ WF_vars(DownloadFinished) /\ SF_vars(DownloadFinished /\ Accepted(download))
  /\ WF_vars(updateAndRestart)
  /\ WF_vars(StartService) /\ WF_vars(Unpack) /\ WF_vars(Replace)

FairSpec == Spec /\ Fairness

-----------------------------------------------------------------------------
(***************************************************************************)
(* Properties.                                                             *)
(***************************************************************************)

\* The service unpacks what updateAndRestart() was called for, which was verified, although the
\* file lies open to other requests from the verification on: unless one did get in the way, or
\* the service was left enabled by an installation that came to nothing, and runs at a boot.
UnpacksWhatWasAsked ==
  service = "unpacked" => unpacked \in {due.what, None} \/ overlap \/ abandoned

\* A version that was installed by hand is not replaced by one of the server's, nor by a forced
\* one before the manual mode is left; one of the server's is not replaced by a forced one.
PinnedKept == service = "unpacked" =>
  /\ due.by = "server" => ~startedManual
  /\ due.by = "force" => ~startedServer /\ (startedManual => left)

\* The settings tell how the version that runs came about, unless an installation is under way
\* or came to nothing, or the server's version was taken from the update directory.
SettingsTell ==
  saved = came \/ Installing \/ abandoned \/ overlap \/ recached

ForcePending == Newer(Forced) # {} /\ ~Pinned

\* A forced version is installed, however the downloads went: nothing stays busy for good.
ForcedInstalled == ForcePending ~> ~ForcePending

ServerUnserved == order # None /\ order # current /\ ~startedManual

\* The server gets the version it wants, unless an installation that came to nothing left the
\* application believing that it is about to be restarted.
ServerObeyed == ServerUnserved ~> (~ServerUnserved \/ abandoned)

=============================================================================
