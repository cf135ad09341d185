-------------------------------- MODULE LogPanel --------------------------------
(***************************************************************************)
(* The list of an ArduPilot's DataFlash logs (DataflashLogPanel and        *)
(* logTransferStore): asked for once per target, after the parameter sync, *)
(* shown, and erased as a whole after a commitment to exactly the logs on  *)
(* the screen.  The Worker has one log operation at a time; LOG_ERASE has  *)
(* no answer, so it lists until the vehicle reports no log.                *)
(* Downloads are handed out as in FileBrowser and left out here.           *)
(***************************************************************************)
EXTENDS Naturals, Sequences

CONSTANTS
    Crafts,      \* targets
    MaxLogs,     \* bound: logs a vehicle records
    MaxPanel,    \* bound: clicks of the user
    MaxCraft     \* bound: changes of the vehicle and parameter syncs

ASSUME LogPanelAssumption == Crafts # {} /\ MaxLogs \in Nat /\ MaxPanel \in Nat /\ MaxCraft \in Nat

VARIABLES
    logs,       \* vehicles: number of the logs on each, named 1, 2, ... from the last erasure
    craft,      \* Worker: [ready, target, epoch]
    logSync,    \* Worker: a parameter download runs
    logOp,      \* Worker: [op, target, tick], op "idle", "list", "erase"
    panelSends, \* page -> Worker
    panelHears, \* Worker -> page
    heard,      \* page: what it knows of craft and of the sync: [craft, sync]
    panel,      \* page: [shown, asked, rows, from, loading, error]; asked: listedTargetRef
    eraser,     \* page: the dialog [open, tick]
    erase,      \* page: the erase task
    panelClicks, craftChanges

logPanelVars == <<logs, craft, logSync, logOp, panelSends, panelHears, heard, panel, eraser, erase,
                  panelClicks, craftChanges>>
panelWorker == <<logs, craft, logSync, logOp>>

NoCraft == "none"
Unticked == [target |-> NoCraft]
LogIdle == [op |-> "idle", target |-> NoCraft, tick |-> Unticked]
NoRows == [shown |-> TRUE, asked |-> NoCraft, rows |-> 0, from |-> NoCraft, loading |-> FALSE,
           error |-> FALSE]

LogPanelInit ==
    /\ logs = [c \in Crafts |-> 1]
    /\ craft = [ready |-> TRUE, target |-> CHOOSE c \in Crafts : TRUE, epoch |-> 0]
    /\ logSync = TRUE /\ logOp = LogIdle /\ panelSends = <<>> /\ panelHears = <<>>
    /\ heard = [craft |-> craft, sync |-> TRUE]
    /\ panel = [NoRows EXCEPT !.shown = FALSE]
    /\ eraser = [open |-> FALSE, tick |-> Unticked] /\ erase = "none"
    /\ panelClicks = 0 /\ craftChanges = 0
-----------------------------------------------------------------------------
(* The page.                                                                 *)
PanelClick == panelClicks < MaxPanel /\ panelClicks' = panelClicks + 1 /\ UNCHANGED craftChanges
PanelBusy == ~heard.craft.ready \/ erase = "active"

(* The effect that lists: when the vehicle is ready, its sync is over, and   *)
(* this target was not asked before.                                         *)
MustList(p, h) == p.shown /\ h.craft.ready /\ ~h.sync /\ p.asked # h.craft.target

WithList(p, h) ==
    /\ panel' = IF MustList(p, h) THEN [p EXCEPT !.asked = h.craft.target, !.loading = TRUE] ELSE p
    /\ panelSends' = panelSends \o (IF MustList(p, h) THEN <<[type |-> "log_list"]>>
                                    ELSE <<>>)

(* Mounted: the store is emptied, then the list effect runs.                 *)
ShowPanel ==
    /\ ~panel.shown /\ PanelClick /\ WithList(NoRows, heard)
    /\ eraser' = [eraser EXCEPT !.open = FALSE] /\ erase' = "none"
    /\ UNCHANGED <<panelWorker, panelHears, heard>>

LeavePanel ==
    /\ panel.shown /\ PanelClick /\ panel' = [panel EXCEPT !.shown = FALSE]
    /\ eraser' = [open |-> FALSE, tick |-> Unticked]
    /\ UNCHANGED <<panelWorker, panelSends, panelHears, heard, erase>>

RequestList ==
    /\ panel.shown /\ ~eraser.open /\ ~PanelBusy /\ PanelClick
    /\ panel' = [panel EXCEPT !.loading = TRUE]
    /\ panelSends' = Append(panelSends, [type |-> "log_list"])
    /\ UNCHANGED <<panelWorker, panelHears, heard, eraser, erase>>

(* eraseConfirmationKey: the vehicle, its safety epoch and every log listed. *)
EraseKey == [target |-> heard.craft.target, epoch |-> heard.craft.epoch, rows |-> panel.rows]

(* The dialog: opened, committed to the key it has, and confirmed as long as *)
(* the key is the same; confirmErase asks again for a list that is not empty.*)
OpenEraser ==
    /\ panel.shown /\ ~eraser.open /\ ~PanelBusy /\ panel.rows > 0 /\ PanelClick
    /\ eraser' = [open |-> TRUE, tick |-> Unticked]
    /\ UNCHANGED <<panelWorker, panelSends, panelHears, heard, panel, erase>>

CommitErase ==
    /\ eraser.open /\ PanelClick /\ eraser' = [eraser EXCEPT !.tick = EraseKey]
    /\ UNCHANGED <<panelWorker, panelSends, panelHears, heard, panel, erase>>

(* Wrong on purpose: any commitment of this dialog counts.                   *)
EraseCommittedOnce == eraser.tick # Unticked

EraseCommitted == eraser.tick = EraseKey

ConfirmErase ==
    /\ eraser.open /\ EraseCommitted /\ PanelClick /\ eraser' = [open |-> FALSE, tick |-> Unticked]
    /\ IF ~heard.craft.ready \/ panel.rows = 0 THEN UNCHANGED <<erase, panelSends>>
       ELSE /\ erase' = "active"
            /\ panelSends' = Append(panelSends,
                   [type |-> "log_erase", epoch |-> heard.craft.epoch, rows |-> panel.rows,
                    tick |-> eraser.tick])
    /\ UNCHANGED <<panelWorker, panelHears, heard, panel>>

(* A change of the vehicle: the store is emptied and listed anew when its    *)
(* target or readiness changed, the dialog is closed in any case.            *)
HearCraft(c) ==
    /\ heard' = [heard EXCEPT !.craft = c]
    /\ LET moved == c.target # heard.craft.target \/ c.ready # heard.craft.ready
       IN  /\ WithList(IF ~panel.shown \/ ~moved THEN panel ELSE NoRows, heard')
           /\ eraser' = [eraser EXCEPT !.open = FALSE]
           /\ erase' = IF panel.shown /\ moved THEN "none" ELSE erase

HearPanel ==
    /\ panelHears # <<>> /\ panelHears' = Tail(panelHears)
    /\ LET e == Head(panelHears)
       IN  CASE e.type = "craft" -> HearCraft(e.craft)
             [] e.type = "sync" ->
                  /\ heard' = [heard EXCEPT !.sync = e.on] /\ WithList(panel, heard')
                  /\ UNCHANGED <<eraser, erase>>
             [] e.type = "log_list" ->
                  /\ panel' = [panel EXCEPT !.rows = e.rows, !.from = e.target,
                                            !.loading = FALSE, !.error = FALSE]
                  /\ UNCHANGED <<heard, panelSends, eraser, erase>>
             [] e.type = "log_erase_done" ->
                  /\ erase' = IF erase = "none" THEN "none" ELSE "done"
                  /\ UNCHANGED <<heard, panelSends, eraser, panel>>
             [] e.type = "log_op_error" /\ e.op = "list" ->
                  /\ panel' = [panel EXCEPT !.loading = FALSE, !.error = TRUE]
                  /\ UNCHANGED <<heard, panelSends, eraser, erase>>
             [] e.type = "log_op_error" /\ e.op = "erase" ->
                  /\ erase' = IF erase = "active" THEN "error" ELSE erase
                  /\ UNCHANGED <<heard, panelSends, eraser, panel>>
    /\ UNCHANGED <<panelWorker, panelClicks, craftChanges>>

(* The timer and the button that end the task.                               *)
ClearErase ==
    /\ panel.shown /\ erase \in {"done", "error"} /\ erase' = "none"
    /\ UNCHANGED <<panelWorker, panelSends, panelHears, heard, panel, eraser, panelClicks,
                   craftChanges>>
-----------------------------------------------------------------------------
(* The Worker.                                                               *)
TellsPanel(es) == panelHears' = panelHears \o es
LogError(op) == [type |-> "log_op_error", op |-> op]

(* handleCommand: not heard of by the panel.                                 *)
LogRefused(c) == ~craft.ready \/ (c.type = "log_erase" /\ c.epoch # craft.epoch)

ServeLog ==
    /\ panelSends # <<>> /\ panelSends' = Tail(panelSends)
    /\ LET c == Head(panelSends)
           op == IF c.type = "log_list" THEN "list" ELSE "erase"
       IN  IF LogRefused(c) THEN UNCHANGED <<logOp, panelHears>>
           ELSE IF logSync \/ logOp # LogIdle THEN TellsPanel(<<LogError(op)>>) /\ UNCHANGED logOp
           ELSE /\ logOp' = [op |-> op, target |-> craft.target,
                             tick |-> IF op = "erase" THEN c.tick ELSE Unticked]
                /\ UNCHANGED panelHears
    /\ UNCHANGED <<logs, craft, logSync, heard, panel, eraser, erase, panelClicks, craftChanges>>

(* The list arrives; the erasure is verified, or given up while the vehicle  *)
(* still formats.                                                            *)
LogOpEnds ==
    /\ logOp # LogIdle /\ logOp' = LogIdle
    /\ \/ logOp.op = "list" /\ UNCHANGED logs
          /\ TellsPanel(<<[type |-> "log_list", target |-> logOp.target, rows |-> logs[logOp.target]]>>)
       \/ /\ logOp.op = "erase" /\ logs' = [logs EXCEPT ![logOp.target] = 0]
          /\ TellsPanel(<<[type |-> "log_list", target |-> logOp.target, rows |-> 0],
                          [type |-> "log_erase_done"]>>)
       \/ UNCHANGED logs /\ TellsPanel(<<LogError(logOp.op)>>)
    /\ UNCHANGED <<craft, logSync, panelSends, heard, panel, eraser, erase, panelClicks, craftChanges>>

(* The vehicle changes; a new one, or one that is ready again, is synced.    *)
CraftChanges ==
    /\ craftChanges < MaxCraft /\ craftChanges' = craftChanges + 1
    /\ \E ready \in BOOLEAN, target \in Crafts :
          craft' = [ready |-> ready, target |-> target, epoch |-> craft.epoch + 1]
    /\ LET lost == craft'.target # craft.target \/ ~craft'.ready
       IN  /\ logOp' = IF lost THEN LogIdle ELSE logOp
           /\ logSync' = (logSync /\ ~lost)
           /\ TellsPanel((IF lost /\ logOp # LogIdle THEN <<LogError(logOp.op)>> ELSE <<>>)
                         \o (IF lost /\ logSync THEN <<[type |-> "sync", on |-> FALSE]>> ELSE <<>>)
                         \o <<[type |-> "craft", craft |-> craft']>>)
    /\ UNCHANGED <<logs, panelSends, heard, panel, eraser, erase, panelClicks>>

(* A parameter sync ends; the page asks for one, which the Worker refuses    *)
(* while logs are transferred.                                               *)
LogSyncChanges ==
    /\ \/ logSync /\ logSync' = FALSE /\ UNCHANGED craftChanges
       \/ /\ ~logSync /\ craft.ready /\ logOp = LogIdle /\ logSync' = TRUE
          /\ craftChanges < MaxCraft /\ craftChanges' = craftChanges + 1
    /\ TellsPanel(<<[type |-> "sync", on |-> logSync']>>)
    /\ UNCHANGED <<logs, craft, logOp, panelSends, heard, panel, eraser, erase, panelClicks>>

Records ==
    /\ craft.ready /\ logs[craft.target] < MaxLogs
    /\ logs' = [logs EXCEPT ![craft.target] = @ + 1]
    /\ UNCHANGED <<craft, logSync, logOp, panelSends, panelHears, heard, panel, eraser, erase,
                   panelClicks, craftChanges>>
-----------------------------------------------------------------------------
LogPanelNext ==
    \/ ShowPanel \/ LeavePanel \/ RequestList \/ OpenEraser \/ CommitErase \/ ConfirmErase
    \/ HearPanel \/ ClearErase \/ ServeLog \/ LogOpEnds \/ CraftChanges \/ LogSyncChanges \/ Records

LogPanelSpec == LogPanelInit /\ [][LogPanelNext]_logPanelVars
-----------------------------------------------------------------------------
(* What is shown and erased: the rows are those of the vehicle on the screen,*)
(* and an erasure runs on the vehicle, and was confirmed for the list, that  *)
(* the user had on the screen when ticking the commitment.                   *)
ErasesWhatWasTicked ==
    /\ (panel.shown /\ heard.craft.ready /\ panel.rows > 0) => panel.from = heard.craft.target
    /\ logOp.op = "erase" => logOp.tick.target = logOp.target /\ logOp.target = craft.target
    /\ \A i \in 1..Len(panelSends) :
          panelSends[i].type = "log_erase" => panelSends[i].tick.rows = panelSends[i].rows

=============================================================================
