------------------------------ MODULE FileBrowser ------------------------------
(***************************************************************************)
(* The explorer of the flight controller's SD card (FlightLogsPage and     *)
(* fileExplorerStore): where the user is, which rows are shown, what is    *)
(* selected, confirmed, downloaded and deleted.  Listings are asked for by *)
(* effects and answered later, by a Worker with one FTP operation at a     *)
(* time and a vehicle that changes; the page can be left at any moment,    *)
(* the store stays.                                                        *)
(*   The user: Browse, SelectRow, Download, OpenDialog, Commit, ...        *)
(*   The page: Hear (events), with the effects each of them sets off.      *)
(*   The Worker: ServeFs (commands), FtpEnds, VehicleChanges.              *)
(* Effects run before the next event.  History, sorting and the context    *)
(* menu only offer the same operations again.                              *)
(***************************************************************************)
EXTENDS Naturals, Sequences

CONSTANTS
    Vehicles,     \* targets
    Dirs,         \* paths that can be browsed
    Names,        \* names of files
    Home,         \* PX4_ULOG_LOG_DIRECTORY
    OnCard,       \* [Vehicles -> [Dirs -> SUBSET Names]]: the cards at first
    MaxSteps,     \* bound: clicks of the user
    MaxSwitches,  \* bound: changes of the vehicle
    MaxRefusals   \* bound: commands refused by a gate of the Worker

ASSUME BrowserAssumption ==
    /\ Vehicles # {} /\ Home \in Dirs /\ OnCard \in [Vehicles -> [Dirs -> SUBSET Names]]
    /\ MaxSteps \in Nat /\ MaxSwitches \in Nat /\ MaxRefusals \in Nat

VARIABLES
    onCard,     \* the files on the vehicles
    vehicle,    \* Worker: [ready, target, epoch]
    ftp,        \* Worker: the FTP operation that runs, or FtpIdle
    artifacts,  \* Worker: the downloaded files, [file, kept], kept until they are fetched
    commands,   \* page -> Worker
    events,     \* Worker -> page
    seen,       \* page: connectionStore, what it heard of vehicle
    shown,      \* page: the route is mounted
    explorer,   \* page: [path, rows, listed, from, loading, picked], from the vehicle of rows
    dialog,     \* page: [open, tick], tick the key the user committed to, or NoKey
    download,   \* page: [status, file], status "none", "active", "done", "error"
    deletion,   \* page: "none", "active", "done", "error"
    reading,    \* page: the artifact being read, or 0
    handed,     \* files given to the user or the analysis page: [asked, got]
    steps, switches, refusals

browserVars == <<onCard, vehicle, ftp, artifacts, commands, events, seen, shown, explorer, dialog,
                 download, deletion, reading, handed, steps, switches, refusals>>
browserWorker == <<onCard, vehicle, ftp, artifacts>>
browserTasks == <<download, deletion, reading, handed>>
browserBounds == <<steps, switches, refusals>>

Nowhere == "nowhere"
NoFile == <<>>                       \* a file is <<vehicle, dir, name>>
NoKey == [target |-> Nowhere]
FtpIdle == [op |-> "idle"]
NoTask == [status |-> "none", file |-> NoFile]

BrowserInit ==
    /\ onCard = OnCard
    /\ vehicle = [ready |-> TRUE, target |-> CHOOSE v \in Vehicles : TRUE, epoch |-> 0]
    /\ ftp = FtpIdle /\ artifacts = <<>> /\ commands = <<>> /\ events = <<>>
    /\ seen = vehicle /\ shown = FALSE
    /\ explorer = [path |-> Home, rows |-> {}, listed |-> Nowhere, from |-> Nowhere,
                   loading |-> FALSE, picked |-> {}]
    /\ dialog = [open |-> FALSE, tick |-> NoKey]
    /\ download = NoTask /\ deletion = "none" /\ reading = 0 /\ handed = {}
    /\ steps = 0 /\ switches = 0 /\ refusals = 0
-----------------------------------------------------------------------------
(* The page.                                                                 *)
List(dir) == [type |-> "fs_list", dir |-> dir]
Asks(cs) == commands' = commands \o cs
Clicks == shown /\ seen.ready /\ steps < MaxSteps /\ steps' = steps + 1
          /\ UNCHANGED <<switches, refusals, events, seen>>
DialogClosed == [dialog EXCEPT !.open = FALSE]
BrowserBusy == ~seen.ready \/ download.status = "active" \/ deletion = "active"

(* The rows the table shows: none while a directory is read for the first    *)
(* time.                                                                     *)
Rows == IF explorer.loading /\ explorer.listed # explorer.path THEN {} ELSE explorer.rows

(* Wrong on purpose: the page trusts what the store kept while it was away.  *)
EmptiedNot == explorer

(* The effect on the target, when the page is mounted and on every change of *)
(* the target or its readiness: the store is emptied, but for its path.      *)
Emptied == [explorer EXCEPT !.rows = {}, !.listed = Nowhere, !.from = Nowhere,
                              !.loading = FALSE, !.picked = {}]

(* The route is mounted: the effects on the target and on the path run.      *)
Mount ==
    /\ ~shown /\ steps < MaxSteps /\ steps' = steps + 1 /\ shown' = TRUE
    /\ explorer' = [Emptied EXCEPT !.loading = seen.ready]
    /\ Asks(IF seen.ready THEN <<List(explorer.path)>> ELSE <<>>)
    /\ dialog' = DialogClosed /\ download' = NoTask /\ deletion' = "none"
    /\ UNCHANGED <<browserWorker, events, seen, reading, handed, switches, refusals>>

(* It is left: a read in flight is cancelled, that is, its answer is ignored.*)
Unmount ==
    /\ shown /\ steps < MaxSteps /\ steps' = steps + 1 /\ shown' = FALSE
    /\ reading' = 0 /\ dialog' = [open |-> FALSE, tick |-> NoKey]
    /\ UNCHANGED <<browserWorker, commands, events, seen, explorer, download, deletion, handed,
                   switches, refusals>>

(* navigateTo, goBack, goForward: the rows stay until the listing comes.     *)
Browse(dir) ==
    /\ Clicks /\ ~dialog.open /\ dir # explorer.path
    /\ explorer' = [explorer EXCEPT !.path = dir, !.picked = {}, !.loading = TRUE]
    /\ Asks(<<List(dir)>>)
    /\ UNCHANGED <<browserWorker, shown, dialog, browserTasks>>

RefreshListing ==
    /\ Clicks /\ ~dialog.open
    /\ explorer' = [explorer EXCEPT !.loading = TRUE] /\ Asks(<<List(explorer.path)>>)
    /\ UNCHANGED <<browserWorker, shown, dialog, browserTasks>>

SelectRow(name) ==
    /\ Clicks /\ ~dialog.open /\ name \in Rows
    /\ explorer' = [explorer EXCEPT !.picked = IF name \in @ THEN @ \ {name} ELSE @ \cup {name}]
    /\ UNCHANGED <<browserWorker, commands, shown, dialog, browserTasks>>

(* startDownload: save or analyze; a read in flight is cancelled with the    *)
(* task it belongs to.                                                       *)
StartDownload(name) ==
    /\ Clicks /\ ~dialog.open /\ ~BrowserBusy /\ name \in Rows
    /\ download' = [status |-> "active", file |-> <<seen.target, explorer.path, name>>]
    /\ reading' = 0
    /\ Asks(<<[type |-> "fs_download", dir |-> explorer.path, name |-> name]>>)
    /\ UNCHANGED <<browserWorker, shown, explorer, dialog, deletion, handed>>

CancelTransfer ==
    /\ Clicks /\ download.status = "active"
    /\ Asks(<<[type |-> "fs_download_cancel"]>>)
    /\ UNCHANGED <<browserWorker, shown, explorer, dialog, browserTasks>>

(* fileDeleteConfirmationKey: target, safety epoch, path and the objects.    *)
DeleteKey == [target |-> seen.target, epoch |-> seen.epoch, dir |-> explorer.path,
              names |-> explorer.picked \cap explorer.rows]

OpenDialog ==
    /\ Clicks /\ ~dialog.open /\ ~BrowserBusy /\ explorer.picked \cap explorer.rows # {}
    /\ dialog' = [open |-> TRUE, tick |-> NoKey]
    /\ UNCHANGED <<browserWorker, commands, shown, explorer, browserTasks>>

(* The commitment: for the key the dialog has now.                           *)
Tick ==
    /\ Clicks /\ dialog.open /\ deletion # "active" /\ dialog' = [dialog EXCEPT !.tick = DeleteKey]
    /\ UNCHANGED <<browserWorker, commands, shown, explorer, browserTasks>>

CancelDialog ==
    /\ Clicks /\ dialog.open /\ dialog' = [open |-> FALSE, tick |-> NoKey]
    /\ UNCHANGED <<browserWorker, commands, shown, explorer, browserTasks>>

Committed == dialog.tick = DeleteKey

(* confirm and confirmDelete.                                                *)
ConfirmDelete ==
    /\ Clicks /\ dialog.open /\ Committed /\ deletion # "active" /\ DeleteKey.names # {}
    /\ dialog' = [open |-> FALSE, tick |-> NoKey] /\ deletion' = "active"
    /\ Asks(<<[type |-> "fs_delete", epoch |-> seen.epoch, dir |-> explorer.path,
               names |-> DeleteKey.names, tick |-> dialog.tick]>>)
    /\ UNCHANGED <<browserWorker, shown, explorer, download, reading, handed>>
-----------------------------------------------------------------------------
(* What the page hears.                                                      *)
(* A change of the vehicle: every selection and commitment is void; the      *)
(* store is emptied and listed anew when the target or its readiness changed.*)
HearVehicle(v) ==
    /\ seen' = v
    /\ LET moved == v.target # seen.target \/ v.ready # seen.ready
       IN  IF ~shown THEN UNCHANGED <<commands, explorer, dialog, download, deletion, reading>>
           ELSE /\ dialog' = DialogClosed
                /\ explorer' = [(IF moved THEN Emptied ELSE explorer)
                                EXCEPT !.picked = {}, !.loading = IF moved THEN v.ready ELSE @]
                /\ Asks(IF moved /\ v.ready THEN <<List(explorer.path)>> ELSE <<>>)
                /\ IF moved THEN download' = NoTask /\ deletion' = "none" /\ reading' = 0
                   ELSE UNCHANGED <<download, deletion, reading>>
    /\ UNCHANGED <<shown, handed>>

(* setListing: of another directory than the one browsed it is ignored.      *)
HearListing(e) ==
    /\ explorer' = IF e.dir # explorer.path THEN explorer
                   ELSE [explorer EXCEPT !.rows = e.names, !.listed = e.dir, !.from = e.target,
                                         !.loading = FALSE]
    /\ UNCHANGED <<commands, seen, shown, dialog, browserTasks>>

(* completeDownload by path, then the effect that fetches the artifact.      *)
HearDownloaded(file, id) ==
    /\ IF download.file # NoFile /\ <<download.file[2], download.file[3]>> = <<file[2], file[3]>>
       THEN /\ download' = [download EXCEPT !.status = "done"]
            /\ IF shown THEN reading' = id /\ Asks(<<[type |-> "artifact_read", id |-> id]>>)
               ELSE UNCHANGED <<reading, commands>>
       ELSE UNCHANGED <<download, reading, commands>>
    /\ UNCHANGED <<seen, shown, explorer, dialog, deletion, handed>>

(* The artifact: saved, or stashed for the analysis page; an answer to a     *)
(* cancelled read is dropped.                                                *)
HearArtifact(e) ==
    /\ IF reading # e.id THEN UNCHANGED <<download, reading, handed>>
       ELSE /\ reading' = 0
            /\ IF e.found
               THEN /\ handed' = handed \cup {[asked |-> download.file, got |-> e.file]}
                    /\ download' = NoTask
               ELSE /\ download' = [download EXCEPT !.status = "error"] /\ UNCHANGED handed
    /\ UNCHANGED <<commands, seen, shown, explorer, dialog, deletion>>

(* completeDeletion, and the effect that lists the directory again.          *)
HearDeleted ==
    /\ deletion' = IF deletion = "none" THEN "none" ELSE "done"
    /\ LET again == shown /\ deletion = "active"
       IN  /\ explorer' = [explorer EXCEPT !.picked = {}, !.loading = again \/ @]
           /\ Asks(IF again THEN <<List(explorer.path)>> ELSE <<>>)
    /\ UNCHANGED <<seen, shown, dialog, download, reading, handed>>

(* fs_op_error: of a listing, the current download whichever it is, or the   *)
(* deletion that runs.                                                       *)
HearFsError(op) ==
    /\ CASE op = "list" ->
              explorer' = [explorer EXCEPT !.loading = FALSE] /\ UNCHANGED <<download, deletion, reading>>
         [] op = "download" ->
              /\ download' = IF download = NoTask THEN NoTask ELSE [download EXCEPT !.status = "error"]
              /\ reading' = 0 /\ UNCHANGED <<explorer, deletion>>
         [] op = "delete" ->
              /\ deletion' = IF deletion = "active" THEN "error" ELSE deletion
              /\ UNCHANGED <<explorer, download, reading>>
    /\ UNCHANGED <<commands, seen, shown, dialog, handed>>

HearFs ==
    /\ events # <<>> /\ events' = Tail(events)
    /\ LET e == Head(events)
       IN  CASE e.type = "vehicle" -> HearVehicle(e.vehicle)
             [] e.type = "fs_list" -> HearListing(e)
             [] e.type = "fs_download_complete" -> HearDownloaded(e.file, e.id)
             [] e.type = "artifact" -> HearArtifact(e)
             [] e.type = "fs_delete_done" -> HearDeleted
             [] e.type = "fs_op_error" -> HearFsError(e.op)
    /\ UNCHANGED <<browserWorker, browserBounds>>

(* The task bar's buttons and the timer that clears what is over.            *)
Dismiss ==
    /\ shown /\ \/ deletion \in {"done", "error"} /\ deletion' = "none" /\ UNCHANGED download
                \/ download.status = "error" /\ download' = NoTask /\ UNCHANGED deletion
    /\ UNCHANGED <<browserWorker, commands, events, seen, shown, explorer, dialog, reading, handed,
                   browserBounds>>
-----------------------------------------------------------------------------
(* The Worker.                                                               *)
FsError(op) == [type |-> "fs_op_error", op |-> op]
OpOf(command) == CASE command.type = "fs_list" -> "list"
                   [] command.type = "fs_delete" -> "delete"
                   [] OTHER -> "download"
TellsPage(es) == events' = events \o es

(* Wrong on purpose: the confirmation is not compared with the vehicle.      *)
RefusedUnheardByReady(c) == ~vehicle.ready

(* handleCommand and the bridge: a target that is not ready or a stale       *)
(* safety epoch is refused with a client_error the store does not hear of.   *)
RefusedUnheard(c) == ~vehicle.ready \/ (c.type = "fs_delete" /\ c.epoch # vehicle.epoch)

FtpStarts(c) ==
    CASE c.type = "fs_list" -> [op |-> "list", target |-> vehicle.target, dir |-> c.dir]
      [] c.type = "fs_download" ->
           [op |-> "download", target |-> vehicle.target, dir |-> c.dir, name |-> c.name]
      [] c.type = "fs_delete" ->
           [op |-> "delete", target |-> vehicle.target, dir |-> c.dir, names |-> c.names,
            tick |-> c.tick]

(* A command: refused by another operation of the vehicle (shell,            *)
(* calibration: unheard; parameter sync: heard), by a busy client, or begun. *)
ServeFs ==
    /\ commands # <<>> /\ commands' = Tail(commands)
    /\ LET c == Head(commands)
       IN  CASE c.type = "artifact_read" ->
                  /\ TellsPage(<<[type |-> "artifact", id |-> c.id, file |-> artifacts[c.id].file,
                                  found |-> artifacts[c.id].kept]>>)
                  /\ artifacts' = [artifacts EXCEPT ![c.id].kept = FALSE]
                  /\ UNCHANGED <<ftp, refusals>>
             [] c.type = "fs_download_cancel" ->
                  /\ TellsPage(IF RefusedUnheard(c) THEN <<>> ELSE <<FsError("download")>>)
                  /\ ftp' = IF ftp.op = "download" /\ ~RefusedUnheard(c) THEN FtpIdle ELSE ftp
                  /\ UNCHANGED <<artifacts, refusals>>
             [] OTHER ->
                  /\ UNCHANGED artifacts
                  /\ \/ /\ refusals < MaxRefusals /\ refusals' = refusals + 1 /\ UNCHANGED ftp
                        /\ \E heard \in BOOLEAN :
                              TellsPage(IF heard THEN <<FsError(OpOf(c))>> ELSE <<>>)
                     \/ /\ UNCHANGED refusals
                        /\ IF RefusedUnheard(c) THEN UNCHANGED <<ftp, events>>
                           ELSE IF ftp # FtpIdle THEN TellsPage(<<FsError(OpOf(c))>>) /\ UNCHANGED ftp
                           ELSE ftp' = FtpStarts(c) /\ UNCHANGED events
    /\ UNCHANGED <<onCard, vehicle, seen, shown, explorer, dialog, browserTasks, steps, switches>>

(* The operation ends, well or not; a deletion may fail half way.            *)
FtpEnds ==
    /\ ftp # FtpIdle /\ ftp' = FtpIdle
    /\ \/ /\ ftp.op = "list" /\ UNCHANGED <<onCard, artifacts>>
          /\ TellsPage(<<[type |-> "fs_list", dir |-> ftp.dir, target |-> ftp.target,
                         names |-> onCard[ftp.target][ftp.dir]]>>)
       \/ /\ ftp.op = "download" /\ ftp.name \in onCard[ftp.target][ftp.dir] /\ UNCHANGED onCard
          /\ LET file == <<ftp.target, ftp.dir, ftp.name>>
             IN  /\ artifacts' = Append(artifacts, [file |-> file, kept |-> TRUE])
                 /\ TellsPage(<<[type |-> "fs_download_complete", file |-> file,
                                 id |-> Len(artifacts')]>>)
       \/ /\ ftp.op = "delete" /\ UNCHANGED artifacts
          /\ onCard' = [onCard EXCEPT ![ftp.target][ftp.dir] = @ \ ftp.names]
          /\ TellsPage(<<[type |-> "fs_delete_done"]>>)
       \/ UNCHANGED <<onCard, artifacts>> /\ TellsPage(<<FsError(ftp.op)>>)
    /\ UNCHANGED <<vehicle, commands, seen, shown, explorer, dialog, browserTasks, browserBounds>>

(* Another target, lost or regained readiness, or only another safety epoch; *)
(* losing the vehicle cancels the operation.                                 *)
VehicleChanges ==
    /\ switches < MaxSwitches /\ switches' = switches + 1
    /\ \E ready \in BOOLEAN, target \in Vehicles :
          vehicle' = [ready |-> ready, target |-> target, epoch |-> vehicle.epoch + 1]
    /\ LET lost == vehicle'.target # vehicle.target \/ ~vehicle'.ready
       IN  /\ ftp' = IF lost THEN FtpIdle ELSE ftp
           /\ TellsPage((IF lost /\ ftp # FtpIdle THEN <<FsError(ftp.op)>> ELSE <<>>)
                        \o <<[type |-> "vehicle", vehicle |-> vehicle']>>)
    /\ UNCHANGED <<onCard, artifacts, commands, seen, shown, explorer, dialog, browserTasks, steps,
                   refusals>>
-----------------------------------------------------------------------------
BrowserNext ==
    \/ Mount \/ Unmount \/ RefreshListing \/ CancelTransfer \/ OpenDialog \/ Tick \/ CancelDialog
    \/ ConfirmDelete \/ HearFs \/ Dismiss \/ ServeFs \/ FtpEnds \/ VehicleChanges
    \/ \E dir \in Dirs : Browse(dir)
    \/ \E name \in Names : SelectRow(name) \/ StartDownload(name)

BrowserSpec == BrowserInit /\ [][BrowserNext]_browserVars
-----------------------------------------------------------------------------
(* The rows on the screen are those of the vehicle on the screen, also when  *)
(* the page was left and opened again or a listing came late                 *)
(* (FlightLogsPage.tsx:131-133).                                             *)
RowsOfThisVehicle ==
    (shown /\ seen.ready /\ explorer.rows # {}) => explorer.from = seen.target

(* A deletion that runs removes the files, of the vehicle, that the user     *)
(* ticked the commitment for.                                                *)
DeletesWhatWasTicked ==
    ftp.op = "delete" =>
        /\ ftp.tick.target = ftp.target /\ ftp.target = vehicle.target
        /\ ftp.tick.dir = ftp.dir /\ ftp.tick.names = ftp.names

(* What a user gets is the file asked for.                                   *)
HandedIsAsked == \A h \in handed : h.asked = h.got

(* The explorer acts for one vehicle, on files its user saw and chose.       *)
BrowserSound == RowsOfThisVehicle /\ DeletesWhatWasTicked /\ HandedIsAsked

(* "Path the currently displayed entries belong to." (fileExplorerStore.ts:35)*)
(* and "a request for the current directory is still in flight" (:104): what *)
(* a deletion is about to remove was listed in the directory it is in.       *)
DeletesWhatIsListed ==
    (dialog.open /\ Committed /\ DeleteKey.names # {}) => explorer.listed = explorer.path

(* A download that was completed for a page on the screen is handed out or   *)
(* still at the Worker.                                                      *)
DownloadsSurvive ==
    \A i \in 1..Len(artifacts) :
        \/ artifacts[i].kept \/ reading = i
        \/ \E h \in handed : h.got = artifacts[i].file
=============================================================================
