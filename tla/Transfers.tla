------------------------------ MODULE Transfers ------------------------------
(***************************************************************************)
(* The file transfer, the log transfer and the parameter download behind   *)
(* the gates of MavlinkBridge, with what ends them from outside: the page, *)
(* another target, a lost link, an ESC session that borrows the link, the  *)
(* destruction of the bridge.                                              *)
(***************************************************************************)
EXTENDS FtpTransfer, LogTransfer

CONSTANTS
    Selections,   \* deletions the page may ask for
    Offers        \* the sets of commands a page may confine itself to

ASSUME SelectionAssumption == Selections \subseteq Seq(Files \cup Dirs) \ {<<>>}

VARIABLES
    loading,      \* paramDownloadActive
    page          \* external: the commands the page uses in this behaviour

bridgeVars == <<linkVars, loading>>
vars == <<bridgeVars, page, sent, said, ftpVars, logVars>>

TransferInit ==
    /\ link = "up" /\ target = Server /\ destroyed = FALSE /\ loading = FALSE
    /\ page \in Offers
    /\ sent = NoFrame /\ said = Quiet
    /\ FtpInit /\ LogInit
-----------------------------------------------------------------------------
ReadyTarget == link = "up" /\ target # Nobody

(* Wrong on purpose: a log transfer does not keep files from the link.       *)
FtpAvailableAlways == ~loading

(* requireFtpAvailable and requireLogTransferAvailable.                      *)
FtpAvailable == ~logBusy /\ ~loading
LogAvailable == ~loading /\ ~ftpBusy

(* fs_list, fs_download, fs_delete, log_list, log_download, log_erase.       *)
PageStarts ==
    /\ ReadyTarget /\ UNCHANGED loading
    /\ \/ /\ FtpAvailable /\ UNCHANGED logVars
          /\ \/ "fs_list" \in page /\ \E d \in Dirs : StartList(d)
             \/ "fs_download" \in page /\ \E p \in Files : StartDownload(p)
             \/ "fs_delete" \in page /\ \E s \in Selections : StartDelete(s)
       \/ /\ LogAvailable /\ UNCHANGED ftpVars
          /\ \/ "log_list" \in page /\ StartLogList
             \/ "log_download" \in page /\ \E id \in Ids : StartLogDownload(id)
             \/ "log_erase" \in page /\ StartErase

(* fs_download_cancel and log_download_cancel.                               *)
PageCancels ==
    /\ said' = Quiet /\ UNCHANGED bridgeVars
    /\ \/ /\ ftp.op = "download" /\ FtpCancel /\ sent' = NoFrame
          /\ UNCHANGED <<transferVars, server, air, logVars>>
       \/ /\ logOp.op = "download" /\ LogCancel
          /\ UNCHANGED <<ftpVars, roll, fetch, rounds, logFiles, logAir>>

(* param_request_list.                                                       *)
ParamStarts ==
    /\ ReadyTarget /\ ~ftpBusy /\ ~logBusy /\ ~loading /\ ~destroyed /\ loading' = TRUE
    /\ sent' = NoFrame /\ said' = Quiet /\ UNCHANGED <<linkVars, ftpVars, logVars>>

ParamEnds ==
    /\ loading /\ loading' = FALSE
    /\ sent' = NoFrame /\ said' = Quiet /\ UNCHANGED <<linkVars, ftpVars, logVars>>

(* cancelProtocolOperations: the parameter download ends at once, the        *)
(* transfers when they come to their next await.                             *)
CancelProtocolOperations ==
    /\ FtpCancel /\ LogCancel /\ loading' = FALSE /\ said' = Quiet
    /\ UNCHANGED <<transferVars, server, roll, fetch, rounds>>

(* activateTarget.  A page that does not use target_select finds one vehicle. *)
Found == IF "target_select" \in page THEN Vehicles ELSE {Server}
ActivateTarget ==
    /\ link = "up" /\ ~destroyed /\ target' \in Found \ {target}
    /\ CancelProtocolOperations /\ UNCHANGED <<link, destroyed, air, logAir, logFiles>>

(* onStatusChange: the link is lost or back, no target is selected.          *)
LinkChanges ==
    /\ ~destroyed /\ link' = IF link = "down" THEN "up" ELSE "down"
    /\ target' = Nobody /\ CancelProtocolOperations
    /\ air' = <<>> /\ logAir' = <<>> /\ UNCHANGED <<destroyed, logFiles>>

(* pauseProtocol and resumeProtocol.                                         *)
PauseProtocol ==
    /\ ReadyTarget /\ ~destroyed /\ link' = "raw" /\ target' = Nobody
    /\ CancelProtocolOperations /\ air' = <<>> /\ logAir' = <<>>
    /\ UNCHANGED <<destroyed, logFiles>>

ResumeProtocol ==
    /\ link = "raw" /\ ~destroyed /\ link' = "up" /\ target' = Nobody
    /\ sent' = NoFrame /\ said' = Quiet
    /\ UNCHANGED <<destroyed, loading, ftpVars, logVars>>

(* destroy() of the bridge: the registered downloads go with it, and neither *)
(* data nor the state of the link reach it any more.                         *)
Destroy ==
    /\ ~destroyed /\ destroyed' = TRUE
    /\ FtpCancel /\ LogCancel /\ loading' = FALSE /\ said' = Quiet
    /\ downloads' = <<>> /\ logFiles' = <<>> /\ air' = <<>> /\ logAir' = <<>>
    /\ UNCHANGED <<link, target, get, scan, del, server, roll, fetch, rounds>>
-----------------------------------------------------------------------------
BridgeStep ==
    \/ PageStarts \/ PageCancels \/ ParamStarts \/ ParamEnds
    \/ ActivateTarget \/ LinkChanges \/ PauseProtocol \/ ResumeProtocol \/ Destroy

Next ==
    /\ UNCHANGED page
    /\ \/ BridgeStep
       \/ FtpStep /\ UNCHANGED <<loading, logVars>>
       \/ LogStep /\ UNCHANGED <<loading, ftpVars>>

Spec == TransferInit /\ [][Next]_vars

(* Timers fire and what is awaited is settled.  The timer of a list is armed *)
(* again by each entry it takes, not by one that nobody listens to.          *)
FairSpec ==
    /\ Spec
    /\ WF_vars(FtpResumes /\ UNCHANGED <<page, loading, logVars>>)
    /\ WF_vars(RequestTimeout /\ UNCHANGED <<page, loading, logVars>>)
    /\ WF_vars(BurstEnds /\ UNCHANGED <<page, loading, logVars>>)
    /\ WF_vars(LogResumes /\ UNCHANGED <<page, loading, ftpVars>>)
    /\ WF_vars((ListQuiet \/ (HandleLogEntry /\ Heard /\ roll.state = "waiting"))
               /\ UNCHANGED <<page, loading, ftpVars>>)
    /\ WF_vars(DataPassEnds /\ UNCHANGED <<page, loading, ftpVars>>)
    /\ WF_vars(EraseDelayEnds /\ UNCHANGED <<page, loading, ftpVars>>)
-----------------------------------------------------------------------------
(* Properties.                                                               *)

(* The state has its types, and the limits of the source hold: items of a    *)
(* deletion, pages and entries of a listing, passes, rounds, kept downloads. *)
TransferTypeOK ==
    /\ link \in {"up", "down", "raw"} /\ target \in Vehicles \cup {Nobody}
    /\ destroyed \in BOOLEAN /\ loading \in BOOLEAN /\ page \in Offers
    /\ FtpTypeOK /\ LogTypeOK

(* Only a file that is on the server byte for byte is kept as a download,    *)
(* whatever was lost, repeated or damaged on the way; a log that is kept has *)
(* the true length, or the advertised one if that is shorter, and every byte *)
(* below it (runDownload, writeChunk, CalcFileCRC32, dataPass, truncateTo).  *)
KeptIsWhole ==
    /\ \A i \in DOMAIN downloads :
          downloads[i].part = [u \in Units |-> downloads[i].path]
    /\ \A i \in DOMAIN logFiles :
          /\ logFiles[i].total = Lesser(Size, RealLen)
          /\ logFiles[i].got = 0..(logFiles[i].total - 1)

(* What the tracker of a download holds for missing is just what no chunk    *)
(* has been written to: no byte is asked for in vain and none is passed      *)
(* over (subtractInterval, truncateTo).                                      *)
GapsExact ==
    /\ ftp.step \in {"burst", "read", "flush", "crc", "verify"} =>
         Covered(get.missing) = {u \in Units : get.part[u] = Hole}
    /\ Covered(fetch.missing) \cap fetch.got = {}

(* A listing that is reported has each usable record once and in order, and  *)
(* a deletion that is reported done has removed all that was selected        *)
(* (collectDirectory, expandDeleteTarget, runDelete).                        *)
FilesReportedTrue ==
    /\ said.type = "fs_list" /\ said.clean =>
         said.entries = Usable(Alive(said.path, server.gone))
    /\ said.type = "fs_delete_done" => ToSet(said.entries) \subseteq server.gone

(* A list of logs that is reported lacks none the vehicle has, and an        *)
(* erasure that is reported done has left none (collectList, runErase).      *)
LogsReportedTrue ==
    /\ said.type = "log_list" =>
         vehicle.logs = 0 \/ ToSet(said.entries) = 1..vehicle.logs
    /\ said.type = "log_erase_done" => vehicle.logs = 0

(* What is reported as listed, deleted or erased is so.                      *)
ReportedTrue == FilesReportedTrue /\ LogsReportedTrue

(* An answer is taken only for the request it answers, and however often a   *)
(* request is written the server executes it once, as it recognizes its      *)
(* number (expectedSeq, transact).                                           *)
AnswersMatch ==
    /\ ask # NoAsk /\ ask.got.arg # <<>> => ask.got.arg = ask.arg
    /\ ask.ran <= 1

(* Files, logs and the parameter download have the link one at a time        *)
(* (requireFtpAvailable, requireLogTransferAvailable, param_request_list).   *)
OneTransfer == ~(ftpBusy /\ logBusy) /\ ~(ftpBusy /\ loading) /\ ~(logBusy /\ loading)

(* The transfers are within their limits and one at a time.                  *)
TransfersConsistent == TransferTypeOK /\ OneTransfer

(* A request that reads or changes anything goes to the vehicle the          *)
(* operation was started on, and not onto a borrowed link, however late the  *)
(* target changes; only the ones that end something and a list may stray     *)
(* (cancelAll).                                                              *)
Strays == {"none", "terminate", "log end", "log list"}
OwnVehicleOnly == sent.kind \notin Strays => sent.to = sent.home /\ sent.on = "up"

(* One transfer at a time, its requests where they belong, and their answers.*)
RequestsSound == TransfersConsistent /\ AnswersMatch /\ OwnVehicleOnly

(* The outcomes of a transfer: files, gaps and reports are true.             *)
OutcomesTrue == KeptIsWhole /\ GapsExact /\ ReportedTrue

(* Every transfer comes to an end, whatever the vehicle sends or withholds:  *)
(* nobody waits for an answer for ever, passes that bring nothing are        *)
(* counted, and so are those that bring a byte; also when the vehicle never  *)
(* stops to announce logs (runDownload, collectList, dataPass, runErase).    *)
TransfersEnd == (ftpBusy ~> ~ftpBusy) /\ (logBusy ~> ~logBusy)

(* pauseProtocol: nothing writes to the raw ESC stream.                      *)
QuietWhilePaused == sent.on # "raw"
=============================================================================
