----------------------------- MODULE RuntimeGate -----------------------------
(***************************************************************************)
(* LocalRuntimeCoordinator: the gates every command of the page passes,    *)
(* the safety epoch a confirmation is bound to, and the long operations    *)
(* that exclude each other on the link: ESC session, sensor calibration,   *)
(* radio calibration, parameter synchronisation.  With it goes what the    *)
(* gates read of MavlinkBridge (selected target, readiness, armed state,   *)
(* vehicle safety generation, parameter download, the PARAM_SET chain of   *)
(* a radio calibration) and of BrowserConnectionManager (vehicleReady,     *)
(* the reboot grace).                                                      *)
(*                                                                         *)
(* A step is one macrotask of the Worker with every event it causes.  An   *)
(* ESC session is what EscSession describes, seen here only by whether it  *)
(* exists; a sensor calibration is seen by whether it runs.  Time is not   *)
(* measured: a timer that is armed may fire.                               *)
(***************************************************************************)
EXTENDS Integers

CONSTANTS
    Targets,      \* autopilots that may be heard on the link
    Identities,   \* vehicle identities a heartbeat may carry
    EscModes,     \* ESC transports a session may ask for: "raw", "px4"
    NWrites,      \* PARAM_SETs of one radio calibration
    MaxOpens,     \* bound: links opened
    MaxEpoch,     \* bound: safetyEpoch
    MaxVgen,      \* bound: vehicleSafetyGeneration
    MaxRadio,     \* bound: radio calibrations
    MaxGens,      \* bound: parameter generations
    Transfers     \* TRUE: the page may also run FTP and log transfers

NoTarget == "no target"
NoIdentity == "no identity"
NoRun == -1

ASSUME GateAssumption ==
    /\ NoTarget \notin Targets /\ NoIdentity \notin Identities
    /\ EscModes \subseteq {"raw", "px4"}
    /\ NWrites \in Nat \ {0}
    /\ MaxOpens \in Nat /\ MaxEpoch \in Nat \ {0} /\ MaxVgen \in Nat
    /\ MaxRadio \in Nat /\ MaxGens \in Nat
    /\ Transfers \in BOOLEAN

VARIABLES
    link,         \* transportOpen and the services of one open()
    authority,    \* safetyAuthorityId: the open() it was drawn for
    epoch,        \* safetyEpoch
    lastPrint,    \* lastTargetFingerprint
    conf,         \* the confirmation the page holds
    target,       \* targetSysId, targetCompId of the bridge
    identity,     \* selectedIdentity
    selReady,     \* selectedHeartbeatReady
    vready,       \* BrowserConnectionManager.vehicleReady
    armed,        \* lastArmedState
    conflict,     \* targetConflict is not null
    vgen,         \* vehicleSafetyGeneration, from the opening on
    rebooting,    \* expectedRebootUntil lies ahead
    esc,          \* the transport of the ESC session, "none" without one
    escDestroyed, \* EscSessionManager.destroyed, by prepareDisconnect
    cal,          \* CalibrationSessionManager.sessionActive
    radio,        \* the active radio calibration
    chains,       \* the PARAM_SET chain each radio calibration has started
    radios,       \* radio calibrations so far
    sync,         \* activeParameterGeneration, 0 when null
    gens,         \* parameterGeneration
    syncRun,      \* activeParameterRunId
    run,          \* paramRunId of the bridge
    loading,      \* paramDownloadActive of the bridge
    transfer,     \* ftp.busy or logTransfer.busy
    ownRun        \* history: the run that was started for the generation

safetyVars  == <<authority, epoch, lastPrint>>
vehicleVars == <<target, identity, selReady, vready, armed, conflict, vgen, rebooting>>
escVars     == <<esc, escDestroyed>>
radioVars   == <<radio, chains, radios>>
syncVars    == <<sync, gens, syncRun, run, loading, ownRun>>
vars == <<link, safetyVars, conf, vehicleVars, escVars, cal, radioVars, syncVars, transfer>>

Sessions == 1..MaxRadio
NoRadio == [phase |-> "none", id |-> 0, print |-> 0]
NoChain == [phase |-> "none", print |-> 0, at |-> 0]
NoConf == [epoch |-> 0, authority |-> 0, intact |-> FALSE, calm |-> FALSE]
NoPrint == <<NoTarget, FALSE, NoIdentity>>
-----------------------------------------------------------------------------
(* hasReadyTarget of the bridge, and ready() of the coordinator: the second  *)
(* one does not look at the selected target.                                 *)
HasReady == target # NoTarget /\ selReady /\ vready
Ready == link = "up" /\ vready

(* The context of a radio calibration is unchanged and safe.  Whatever else  *)
(* vehicleMutationFingerprint contains changes only together with the        *)
(* vehicle safety generation.                                                *)
ContextSafe(print) == HasReady /\ armed = "no" /\ print = vgen

(* What the page sees of the vehicle when the user confirms.                 *)
Seen == <<link, authority, target, identity, HasReady>>

(* Wrong on purpose: the authority of another open() is accepted.            *)
ConfirmedByEpoch == conf # NoConf /\ conf.epoch = epoch

(* safetyExpectation of a command equals the live boundary.                  *)
Confirmed == conf # NoConf /\ conf.epoch = epoch /\ conf.authority = authority

(* blocksMavlinkMutations of the session managers.                           *)
EscBusy == esc # "none"
CalBusy == cal
RadioBusy == radio.phase # "none"

(* Wrong on purpose: the gate of the radio calibration is missing.           *)
AdmittedDuringRadio == ~EscBusy /\ ~CalBusy /\ Ready

(* The gates of handleCommand for a command that is none of the session      *)
(* commands.                                                                 *)
Admitted == ~EscBusy /\ ~CalBusy /\ ~RadioBusy /\ Ready
-----------------------------------------------------------------------------
Init ==
    /\ link = "down" /\ authority = 0 /\ epoch = 1 /\ lastPrint = NoPrint /\ conf = NoConf
    /\ target = NoTarget /\ identity = NoIdentity /\ selReady = FALSE /\ vready = FALSE
    /\ armed = "unknown" /\ conflict = FALSE /\ vgen = 0 /\ rebooting = FALSE
    /\ esc = "none" /\ escDestroyed = FALSE /\ cal = FALSE
    /\ radio = NoRadio /\ chains = [s \in Sessions |-> NoChain] /\ radios = 0
    /\ sync = 0 /\ gens = 0 /\ syncRun = NoRun /\ run = 0 /\ loading = FALSE
    /\ ownRun = NoRun /\ transfer = FALSE
-----------------------------------------------------------------------------
(* The parts of a step that several handlers share.                          *)
One(b) == IF b THEN 1 ELSE 0

(* Wrong on purpose: the radio calibration does not hear of boundaries.      *)
RadioBoundaryUnheard(hit) == radio' = radio

(* handleVehicleSafetyBoundary of the radio calibration: the session fails,  *)
(* whatever it has started is not called back.                               *)
RadioBoundary(hit) == radio' = IF hit THEN NoRadio ELSE radio

(* cancelProtocolOperations as seen by the PARAM_SET chains: each pending    *)
(* write is failed, with it the rollback that answers, and the table is      *)
(* cleared, so no chain goes on.                                             *)
ChainsDropped == chains' = [s \in Sessions |-> NoChain]

(* A target event: a changed fingerprint advances the safety epoch and is a  *)
(* boundary of the radio calibration.                                        *)
TargetEvent(print) ==
    /\ lastPrint' = print
    /\ epoch' = epoch + One(print # lastPrint)
    /\ RadioBoundary(print # lastPrint)

(* finishParameterSync, for whatever reason.                                 *)
SyncOver == sync' = 0 /\ syncRun' = NoRun

(* An event of the running download reaches the coordinator; one of another  *)
(* run than the awaited one is dropped.                                      *)
RunReported ==
    IF loading /\ (syncRun = NoRun \/ run = syncRun) THEN SyncOver
    ELSE UNCHANGED <<sync, syncRun>>

(* Wrong on purpose: the cancelled download is not reported.                 *)
DownloadDropped == loading' = FALSE /\ UNCHANGED <<sync, syncRun, gens, run, ownRun>>

(* Wrong on purpose: the download is reported but goes on.                   *)
DownloadReported == RunReported /\ UNCHANGED <<loading, gens, run, ownRun>>

(* cancelParamDownload with a reason.                                        *)
DownloadCancelled == loading' = FALSE /\ RunReported /\ UNCHANGED <<gens, run, ownRun>>
-----------------------------------------------------------------------------
(* The link.                                                                 *)

(* open(): fresh services and authority, and three advances of the epoch     *)
(* while the connection is attached.                                         *)
Open ==
    /\ link = "down" /\ authority < MaxOpens
    /\ link' = "up" /\ authority' = authority + 1 /\ epoch' = 4 /\ lastPrint' = NoPrint
    /\ target' = NoTarget /\ identity' = NoIdentity /\ selReady' = FALSE /\ vready' = FALSE
    /\ armed' = "unknown" /\ conflict' = FALSE /\ vgen' = 0
    /\ escDestroyed' = FALSE /\ run' = 0
    /\ UNCHANGED <<rebooting, esc, cal, radioVars, sync, gens, syncRun, loading, ownRun, transfer>>

(* close(): every service is destroyed, the connection detached.             *)
Close ==
    /\ link = "up"
    /\ link' = "down" /\ vready' = FALSE
    /\ epoch' = epoch + (IF esc = "raw" THEN 4 ELSE 3)
    /\ target' = NoTarget /\ identity' = NoIdentity /\ selReady' = FALSE
    /\ armed' = "unknown" /\ conflict' = FALSE
    /\ esc' = "none" /\ cal' = FALSE /\ radio' = NoRadio /\ ChainsDropped
    /\ SyncOver /\ loading' = FALSE /\ transfer' = FALSE
    /\ UNCHANGED <<authority, lastPrint, vgen, rebooting, escDestroyed, radios, gens, run, ownRun>>

(* prepareDisconnect(): the calibrations are over, an ESC session is on its  *)
(* way to EscEnds, the rest is left for close().                             *)
PrepareDisconnect ==
    /\ link = "up"
    /\ cal' = FALSE /\ radio' = NoRadio /\ escDestroyed' = TRUE
    /\ UNCHANGED <<link, safetyVars, vehicleVars, esc, chains, radios, syncVars, transfer>>
-----------------------------------------------------------------------------
(* The vehicle.                                                              *)

(* handleHeartbeat() of the selected autopilot t, or of the first one, which *)
(* it selects.  While a reboot is expected the frame is not believed.        *)
Heartbeat(t, a, id) ==
    LET first       == target = NoTarget
        old         == IF first THEN NoIdentity ELSE identity
        idChanged   == id # old
        becameArmed == a = "yes" /\ (first \/ armed # "yes")
        news        == (first \/ ~selReady \/ idChanged) /\ ~rebooting
        chosen      == IF first THEN <<t, FALSE, NoIdentity>> ELSE lastPrint
        print       == IF news THEN <<t, TRUE, id>> ELSE chosen
        rise        == IF ~vready /\ ~rebooting THEN 2 ELSE 0
        changes     == One(chosen # lastPrint) + One(print # chosen)
    IN
    /\ link = "up" /\ esc # "raw"
    /\ IF first THEN ~conflict ELSE t = target
    /\ target' = t /\ identity' = id
    /\ vgen' = vgen + One(first) + One(idChanged)
    /\ selReady' = ~rebooting
    /\ vready' = (vready \/ ~rebooting)
    /\ armed' = IF ~rebooting THEN a ELSE IF first THEN "unknown" ELSE armed
    /\ lastPrint' = print
    /\ epoch' = epoch + changes + rise
    /\ cal' = (cal /\ ~idChanged /\ ~becameArmed)
    /\ RadioBoundary(changes > 0 \/ (a = "yes" /\ ~rebooting))
    /\ esc' = IF a = "yes" /\ ~rebooting THEN "none" ELSE esc
    /\ IF first THEN ChainsDropped /\ DownloadCancelled ELSE UNCHANGED <<chains, syncVars>>
    /\ UNCHANGED <<link, authority, conflict, rebooting, escDestroyed, radios, transfer>>

(* No heartbeat for HEARTBEAT_TIMEOUT_MS.  The generation ends here, the     *)
(* download of the bridge goes on.                                           *)
HeartbeatTimeout ==
    /\ vready
    /\ vready' = FALSE /\ epoch' = epoch + 2
    /\ radio' = NoRadio /\ SyncOver
    /\ UNCHANGED <<link, authority, lastPrint, target, identity, selReady, armed, conflict,
                   vgen, rebooting, escVars, cal, chains, radios, gens, run, loading,
                   ownRun, transfer>>

(* 45 s after a reboot command.                                              *)
RebootGraceEnds ==
    /\ rebooting /\ rebooting' = FALSE
    /\ UNCHANGED <<link, safetyVars, target, identity, selReady, vready, armed, conflict, vgen,
                   escVars, cal, radioVars, syncVars, transfer>>

(* refreshTargetConflict() after a heartbeat of another autopilot: a second  *)
(* stable one makes a conflict, a silent one ends it, a new one is news.     *)
TargetNews(c) ==
    LET print == <<target, HasReady, identity>> IN
    /\ link = "up" /\ esc # "raw" /\ target # NoTarget
    /\ c # conflict \/ (~c /\ print # lastPrint)
    /\ conflict' = c
    /\ vgen' = vgen + One(c # conflict)
    /\ TargetEvent(print)
    /\ UNCHANGED <<link, authority, target, identity, selReady, vready, armed, rebooting,
                   escVars, cal, chains, radios, syncVars, transfer>>

(* select_target of another discovered autopilot, which settles a conflict   *)
(* of several systems (c FALSE) but not one of a shared system id.           *)
SelectTarget(t, c) ==
    /\ Admitted /\ t # target /\ (c => conflict)
    /\ target' = t /\ identity' = NoIdentity /\ selReady' = FALSE /\ armed' = "unknown"
    /\ conflict' = c
    /\ vgen' = vgen + 1 + One(c # conflict)
    /\ LET before == <<target, HasReady, identity>>
           after  == <<t, FALSE, NoIdentity>>
       IN /\ lastPrint' = after
          /\ epoch' = epoch + 1 + One(c # conflict /\ before # lastPrint)
    /\ ChainsDropped /\ DownloadCancelled
    /\ UNCHANGED <<link, authority, vready, rebooting, escVars, cal, radio, radios, transfer>>

(* reboot_vehicle: the confirmation, the gates and the bridge accept it; the *)
(* connection expects the vehicle to vanish.  A running calibration does not *)
(* refuse it.                                                                *)
Reboot ==
    /\ Confirmed /\ ~EscBusy /\ Ready /\ HasReady /\ ~conflict /\ armed = "no"
    /\ selReady' = FALSE /\ vready' = FALSE /\ rebooting' = TRUE /\ epoch' = epoch + 2
    /\ cal' = FALSE /\ radio' = NoRadio /\ SyncOver
    /\ UNCHANGED <<link, authority, lastPrint, target, identity, armed, conflict, vgen,
                   escVars, chains, radios, gens, run, loading, ownRun, transfer>>
-----------------------------------------------------------------------------
(* The ESC session.                                                          *)

(* esc_session_start.  The raw transport asks whether the link is busy, the  *)
(* one over SERIAL_CONTROL does not.  The raw one pauses MAVLink, which      *)
(* resets the target, and takes the link.                                    *)
StartEsc(mode) ==
    /\ Confirmed /\ ~CalBusy /\ ~RadioBusy /\ Ready
    /\ esc = "none" /\ ~escDestroyed /\ HasReady /\ armed = "no"
    /\ mode = "raw" => sync = 0
    /\ esc' = mode
    /\ IF mode = "raw"
       THEN /\ target' = NoTarget /\ identity' = NoIdentity /\ selReady' = FALSE
            /\ vready' = FALSE /\ armed' = "unknown" /\ conflict' = FALSE
            /\ vgen' = vgen + 1
            /\ lastPrint' = NoPrint /\ epoch' = epoch + 3 + One(lastPrint # NoPrint)
            /\ ChainsDropped /\ DownloadCancelled
            /\ UNCHANGED rebooting
       ELSE UNCHANGED <<epoch, lastPrint, vehicleVars, chains, syncVars>>
    /\ UNCHANGED <<link, authority, escDestroyed, cal, radio, radios, transfer>>

(* The session ends, for any of the reasons EscSession gives; the raw link   *)
(* goes back to a bridge without a target.                                   *)
EscEnds ==
    /\ EscBusy /\ esc' = "none"
    /\ vgen' = vgen + One(esc = "raw") /\ epoch' = epoch + One(esc = "raw")
    /\ UNCHANGED <<link, authority, lastPrint, target, identity, selReady, vready, armed,
                   conflict, rebooting, escDestroyed, cal, radioVars, syncVars, transfer>>
-----------------------------------------------------------------------------
(* Parameter generations.                                                    *)

(* beginParameterSync(): a generation that is still open is superseded and   *)
(* the bridge told to stop loading, which it does not report.                *)
BeginSync ==
    /\ gens < MaxGens /\ gens' = gens + 1 /\ sync' = gens + 1

(* param_request_list.  The generation is opened before the bridge decides   *)
(* whether it sends the request.                                             *)
RequestParams ==
    /\ Admitted /\ BeginSync
    /\ LET still  == loading /\ sync = 0
           sent   == HasReady /\ ~conflict /\ ~transfer
       IN /\ loading' = (sent \/ still)
          /\ run' = run + One(sent)
          /\ syncRun' = run'
          /\ ownRun' = IF sent THEN run' ELSE NoRun
    /\ UNCHANGED <<link, safetyVars, vehicleVars, escVars, cal, radioVars, transfer>>

(* The download is complete or has failed: the list is there, the retries    *)
(* are used up, the deadline has passed.                                     *)
ParamRunEnds ==
    /\ loading /\ DownloadCancelled
    /\ UNCHANGED <<link, safetyVars, vehicleVars, escVars, cal, radioVars, transfer>>

(* Wrong on purpose: only a generation that is downloaded times out.         *)
ParamTimeoutOfRun ==
    /\ sync # 0 /\ loading /\ SyncOver /\ loading' = FALSE
    /\ UNCHANGED <<link, safetyVars, vehicleVars, escVars, cal, radioVars,
                   gens, run, ownRun, transfer>>

(* PARAM_SYNC_TIMEOUT_MS after the generation was opened.                    *)
ParamTimeout ==
    /\ sync # 0 /\ SyncOver /\ loading' = FALSE
    /\ UNCHANGED <<link, safetyVars, vehicleVars, escVars, cal, radioVars,
                   gens, run, ownRun, transfer>>

(* An FTP or log transfer of the page.  One that is cancelled goes on to its *)
(* next await.                                                               *)
TransferStarts ==
    /\ Transfers /\ Admitted /\ HasReady /\ ~conflict /\ ~loading /\ ~transfer
    /\ transfer' = TRUE
    /\ UNCHANGED <<link, safetyVars, vehicleVars, escVars, cal, radioVars, syncVars>>

TransferEnds ==
    /\ transfer /\ transfer' = FALSE
    /\ UNCHANGED <<link, safetyVars, vehicleVars, escVars, cal, radioVars, syncVars>>
-----------------------------------------------------------------------------
(* The sensor calibration.                                                   *)

(* start_calibration: the gates, isLinkBusy, createCalibrationSession.       *)
StartCalibration ==
    /\ Admitted /\ sync = 0 /\ HasReady /\ armed # "yes"
    /\ cal' = TRUE
    /\ UNCHANGED <<link, safetyVars, vehicleVars, escVars, radioVars, syncVars, transfer>>

(* The session is over.  A successful one opens a parameter generation, for  *)
(* which nothing is requested.                                               *)
CalibrationEnds(ok) ==
    /\ cal /\ cal' = FALSE
    /\ IF ok THEN /\ BeginSync /\ syncRun' = NoRun /\ ownRun' = NoRun
                  /\ UNCHANGED <<run, loading>>
             ELSE UNCHANGED syncVars
    /\ UNCHANGED <<link, safetyVars, vehicleVars, escVars, radioVars, transfer>>
-----------------------------------------------------------------------------
(* The radio calibration.                                                    *)

(* radio_calibration_start.                                                  *)
StartRadio ==
    /\ Confirmed /\ Admitted /\ HasReady /\ armed = "no" /\ sync = 0
    /\ radios < MaxRadio /\ radios' = radios + 1
    /\ radio' = [phase |-> "sampling", id |-> radios + 1, print |-> vgen]
    /\ UNCHANGED <<link, safetyVars, vehicleVars, escVars, cal, chains, syncVars, transfer>>

(* Wrong on purpose: no parameter is ever busy.                              *)
BusyNever(s, i) == FALSE

(* sendParamSet refuses a parameter another chain has pending.               *)
Busy(s, i) == \E other \in Sessions \ {s} : chains[other].at = i

(* The chain of s after its rollback is asked for the confirmed parameters   *)
(* 1..i: the last one that is not refused is pending.                        *)
Rollback(s, print, i) ==
    LET open == {j \in 1..i : ~Busy(s, j)} IN
    IF open = {} THEN NoChain
    ELSE [phase |-> "rollback", print |-> print,
          at |-> CHOOSE j \in open : \A k \in open : k <= j]

(* Wrong on purpose: one write too many.                                     *)
WriteBeyond(s, print, i) ==
    IF i > NWrites + 1 THEN NoChain
    ELSE IF Busy(s, i) THEN Rollback(s, print, i - 1)
    ELSE [phase |-> "write", print |-> print, at |-> i]

(* writeNext(i): a refused write starts the rollback.                        *)
Write(s, print, i) ==
    IF i > NWrites THEN NoChain
    ELSE IF Busy(s, i) THEN Rollback(s, print, i - 1)
    ELSE [phase |-> "write", print |-> print, at |-> i]

(* Wrong on purpose: the completion is not called.                           *)
ChainGoesSilently(s, next, waiting) ==
    chains' = [chains EXCEPT ![s] = next] /\ radio' = waiting

(* The chain of s is next; without one, its completion ends the session that *)
(* started it, if that is still the active one.                              *)
ChainGoes(s, next, waiting) ==
    /\ chains' = [chains EXCEPT ![s] = next]
    /\ radio' = IF next = NoChain /\ waiting.id = s THEN NoRadio ELSE waiting

(* radio_calibration_advance: a changed context ends the session, a step of  *)
(* the sampling may be the last one, the review starts the writes unless a   *)
(* parameter is missing.                                                     *)
AdvanceRadio(missing) ==
    /\ RadioBusy /\ ~EscBusy /\ ~CalBusy /\ Ready
    /\ \/ ~ContextSafe(radio.print) /\ radio' = NoRadio /\ UNCHANGED chains
       \/ /\ ContextSafe(radio.print) /\ radio.phase = "sampling"
          /\ radio' = [radio EXCEPT !.phase = "review"] /\ UNCHANGED chains
       \/ /\ ContextSafe(radio.print) /\ radio.phase = "review"
          /\ ChainGoes(radio.id,
                       IF missing THEN NoChain ELSE Write(radio.id, radio.print, 1),
                       [radio EXCEPT !.phase = "writing"])
    /\ UNCHANGED <<link, safetyVars, vehicleVars, escVars, cal, radios, syncVars, transfer>>

(* radio_calibration_cancel, refused while parameters are written.           *)
CancelRadio ==
    /\ RadioBusy /\ radio.phase # "writing" /\ ~EscBusy /\ ~CalBusy /\ Ready
    /\ radio' = NoRadio
    /\ UNCHANGED <<link, safetyVars, vehicleVars, escVars, cal, chains, radios, syncVars, transfer>>

(* Wrong on purpose: the context is not asked again before the next write.   *)
EchoUnchecked(s, ok) ==
    LET c == chains[s]
        next == IF c.phase = "write" /\ ok THEN Write(s, c.print, c.at + 1)
                ELSE Rollback(s, c.print, c.at - 1)
    IN
    /\ c # NoChain /\ ChainGoes(s, next, radio)
    /\ UNCHANGED <<link, safetyVars, vehicleVars, escVars, cal, radios, syncVars, transfer>>

(* The pending write of s is answered, or given up after its retries.        *)
Echo(s, ok) ==
    LET c == chains[s]
        next == IF ~ContextSafe(c.print) THEN NoChain
                ELSE IF c.phase = "write" /\ ok THEN Write(s, c.print, c.at + 1)
                ELSE Rollback(s, c.print, c.at - 1)
    IN
    /\ c # NoChain /\ ChainGoes(s, next, radio)
    /\ UNCHANGED <<link, safetyVars, vehicleVars, escVars, cal, radios, syncVars, transfer>>
-----------------------------------------------------------------------------
(* The user is shown the vehicle and confirms what it is asked.              *)
Confirm ==
    /\ link = "up"
    /\ conf' = [epoch |-> epoch, authority |-> authority, intact |-> TRUE, calm |-> TRUE]
    /\ conf' # conf
    /\ UNCHANGED <<link, safetyVars, vehicleVars, escVars, cal, radioVars, syncVars, transfer>>

(* What has happened since the confirmation (history), and the bounds.       *)
KeepConf ==
    conf' = IF conf = NoConf THEN conf
            ELSE [conf EXCEPT !.intact = @ /\ Seen' = Seen, !.calm = @ /\ conflict' = conflict]

Kept == KeepConf /\ epoch' <= MaxEpoch /\ vgen' <= MaxVgen

LinkStep == (Open /\ Kept) \/ (Close /\ Kept) \/ (PrepareDisconnect /\ Kept)

VehicleStep ==
    \/ \E t \in Targets, a \in {"yes", "no"}, id \in Identities : Heartbeat(t, a, id) /\ Kept
    \/ \E t \in Targets, c \in BOOLEAN : SelectTarget(t, c) /\ Kept
    \/ \E c \in BOOLEAN : TargetNews(c) /\ Kept
    \/ (HeartbeatTimeout /\ Kept) \/ (RebootGraceEnds /\ Kept) \/ (Reboot /\ Kept)

EscStep == (\E mode \in EscModes : StartEsc(mode) /\ Kept) \/ (EscEnds /\ Kept)

SyncStep ==
    \/ (RequestParams /\ Kept) \/ (ParamRunEnds /\ Kept) \/ (ParamTimeout /\ Kept)
    \/ (TransferStarts /\ Kept) \/ (TransferEnds /\ Kept)

CalibrationStep ==
    (StartCalibration /\ Kept) \/ \E ok \in BOOLEAN : CalibrationEnds(ok) /\ Kept

RadioStep ==
    \/ (StartRadio /\ Kept) \/ (CancelRadio /\ Kept)
    \/ \E missing \in BOOLEAN : AdvanceRadio(missing) /\ Kept
    \/ \E s \in Sessions, ok \in BOOLEAN : Echo(s, ok) /\ Kept

Next ==
    \/ LinkStep \/ VehicleStep \/ EscStep \/ SyncStep \/ CalibrationStep \/ RadioStep
    \/ Confirm

Spec == Init /\ [][Next]_vars

(* Every PARAM_SET is answered or given up (three attempts of                *)
(* paramSetTimeoutMs), the timer of a generation fires.                      *)
FairSpec ==
    /\ Spec
    /\ \A s \in Sessions : WF_vars(\E ok \in BOOLEAN : Echo(s, ok) /\ Kept)
    /\ WF_vars(ParamTimeout /\ Kept)
-----------------------------------------------------------------------------
(* Properties.                                                               *)

Prints == (Targets \cup {NoTarget}) \X BOOLEAN \X (Identities \cup {NoIdentity})

(* The type of the state.                                                    *)
TypeOK ==
    /\ link \in {"up", "down"} /\ authority \in 0..MaxOpens /\ epoch \in 1..MaxEpoch
    /\ lastPrint \in Prints
    /\ conf \in [epoch : 0..MaxEpoch, authority : 0..MaxOpens, intact : BOOLEAN, calm : BOOLEAN]
    /\ target \in Targets \cup {NoTarget} /\ identity \in Identities \cup {NoIdentity}
    /\ selReady \in BOOLEAN /\ vready \in BOOLEAN /\ armed \in {"unknown", "yes", "no"}
    /\ conflict \in BOOLEAN /\ vgen \in 0..MaxVgen /\ rebooting \in BOOLEAN
    /\ esc \in EscModes \cup {"none"} /\ escDestroyed \in BOOLEAN /\ cal \in BOOLEAN
    /\ radio \in [phase : {"none", "sampling", "review", "writing"}, id : 0..MaxRadio,
                  print : 0..MaxVgen]
    /\ chains \in [Sessions -> [phase : {"none", "write", "rollback"}, print : 0..MaxVgen,
                                at : 0..NWrites]]
    /\ radios \in 0..MaxRadio
    /\ sync \in 0..MaxGens /\ gens \in 0..MaxGens /\ syncRun \in Int /\ run \in Int
    /\ loading \in BOOLEAN /\ transfer \in BOOLEAN /\ ownRun \in Int

(* The operations that hold the link, for LinkShare.                         *)
Holders ==
    (IF EscBusy THEN {"esc"} ELSE {}) \cup (IF CalBusy THEN {"calibration"} ELSE {})
    \cup (IF RadioBusy THEN {"radio"} ELSE {}) \cup (IF sync # 0 THEN {"sync"} ELSE {})

Share == INSTANCE LinkShare WITH
    Operations <- {"esc", "calibration", "radio", "sync"}, holders <- Holders

(* isLinkBusy of the three managers and the gates of handleCommand together  *)
(* give the link to one long operation at a time, and none of them takes it  *)
(* over from another one, except the refresh after a calibration.            *)
ShareSpec == Share!Spec

(* A command that was confirmed by the user.                                 *)
SafetyCommand == (\E mode \in EscModes : StartEsc(mode)) \/ StartRadio \/ Reboot

(* A confirmation counts only while the vehicle is the one the user was      *)
(* shown: link, target, identity, readiness (safetyEpoch and                 *)
(* safetyAuthorityId of handleCommand).                                      *)
ConfirmationFresh == [][SafetyCommand => conf.intact]_vars

(* A calibration never runs on an armed vehicle, one of the radio only on    *)
(* the ready and disarmed one, an ESC session over MAVLink only on the       *)
(* disarmed one, whatever heartbeats, target changes, reboots and silence    *)
(* come in between (handleHeartbeat, onBridgeEvent, onVehicleReady).         *)
SessionsOnSafeVehicle ==
    /\ cal => target # NoTarget /\ armed # "yes"
    /\ esc = "px4" => target # NoTarget /\ armed = "no"
    /\ RadioBusy => HasReady /\ armed = "no"

(* A PARAM_SET chain of a radio calibration never goes on to another write   *)
(* when the vehicle is another one than at the start of the calibration, or  *)
(* is not ready or not disarmed (contextIsSafe of applyRadioCalibration).    *)
ChainsOnSafeVehicle ==
    [][\A s \in Sessions :
         chains'[s] # NoChain /\ chains'[s] # chains[s] => ContextSafe(chains'[s].print)]_vars

(* Two radio calibrations never have the same parameter pending, in          *)
(* whatever order their writes and rollbacks are answered (sendParamSet).    *)
OnePending ==
    \A s, r \in Sessions : s # r /\ chains[s].at = chains[r].at => chains[s].at = 0

(* A radio calibration in its last phase has the chain that will end it.     *)
WriterHasChain == radio.phase = "writing" => chains[radio.id] # NoChain

(* Sessions and chains of radio calibrations fit together, and the state has *)
(* its type (sendParamSet, advance).                                         *)
ChainsConsistent == TypeOK /\ OnePending /\ WriterHasChain

(* Calibrations and ESC sessions have their vehicle, and those of the radio  *)
(* their chains (onBridgeEvent, sendParamSet).                               *)
SessionsConsistent == SessionsOnSafeVehicle /\ ChainsConsistent

(* While a raw ESC session has the link no download runs and no PARAM_SET is *)
(* pending: their timers would write MAVLink frames into the session         *)
(* (pauseProtocol).  A cancelled transfer may still be coming to its end.    *)
WireQuietUnderRaw ==
    esc = "raw" => ~loading /\ \A s \in Sessions : chains[s] = NoChain

(* A parameter generation with a download has that download: neither a       *)
(* target change nor a late event leaves it without (cancelParamDownload,    *)
(* onBridgeEvent).                                                           *)
SyncIsAlive == sync # 0 /\ ownRun # NoRun => loading /\ run = ownRun

(* A download is the one of the open generation, and none outlives a pause   *)
(* (cancelParamDownload, pauseProtocol).                                     *)
DownloadsAccounted == SyncIsAlive /\ WireQuietUnderRaw

(* Every radio calibration that has begun to write comes to an end.          *)
RadioWriteEnds == \A s \in Sessions :
    (radio.phase = "writing" /\ radio.id = s) ~> ~(radio.phase = "writing" /\ radio.id = s)

(* Every parameter generation comes to an end, also one nobody downloads for *)
(* (beginParameterSync).                                                     *)
SyncEnds == \A g \in 1..MaxGens : sync = g ~> sync # g

(* EscServiceOptions.isLinkBusy: the reason when the link is busy with a     *)
(* parameter synchronisation, else null.                                     *)
EscExcludesSync == ~(EscBusy /\ sync # 0)

(* ArduPilotRawTransport: the link is not borrowed while the bridge is busy  *)
(* with parameters, FTP or a log transfer.                                   *)
EscExcludesTransfer == [][esc = "none" /\ esc' = "raw" => ~transfer]_vars

(* The message of handleVehicleSafetyBoundary: the radio calibration is      *)
(* over, so its chain goes no further.                                       *)
RadioWritesOwned ==
    [][\A s \in Sessions :
         chains'[s] # NoChain /\ chains'[s] # chains[s] =>
             radio'.id = s /\ radio'.phase = "writing"]_vars

(* hasTargetConflict: conflicting stable targets force writes to fail        *)
(* closed.                                                                   *)
ConflictFailsClosed ==
    [][\A s \in Sessions :
         chains'[s] # NoChain /\ chains'[s] # chains[s] => ~conflict]_vars

(* refreshTargetConflict: a transition invalidates outstanding safety        *)
(* confirmations.                                                            *)
ConflictInvalidatesConfirmations == [][SafetyCommand => conf.calm]_vars

(* paramRunId: late events of a superseded or cancelled run are dropped, so  *)
(* a generation is ended by its own run only.                                *)
LateRunDropped == [][ParamRunEnds /\ sync # 0 /\ sync' = 0 => run = ownRun]_vars

(* onTerminalSuccess triggers the parameter refresh after a calibration.     *)
RefreshRequested == [][cal /\ ~cal' /\ sync' # 0 => loading' /\ run' # run]_vars
=============================================================================
