----------------------------- MODULE ShellSession -----------------------------
(***************************************************************************)
(* The PX4 shell tunnelled through SERIAL_CONTROL: the terminal of the     *)
(* page, which opens the shell as long as it is shown on a vehicle that    *)
(* allows it, and the bridge, which probes the vehicle, keeps the one      *)
(* shell and refuses every other command while it is open.  The page knows *)
(* the vehicle by events and the bridge the page by commands, both queued; *)
(* LocalRuntimeCoordinator stands before the bridge and refuses commands,  *)
(* the close of the shell too, with an error the terminal never hears.     *)
(***************************************************************************)
EXTENDS Integers, Sequences

CONSTANTS
    MaxChanges,   \* bound: changes of the vehicle and of who uses it
    MaxClicks,    \* bound: clicks on "reconnect" and lines typed
    MaxFailures,  \* bound: SERIAL_CONTROL writes the link refuses
    MaxVisits     \* bound: times the terminal is shown

ASSUME ShellAssumption ==
    MaxChanges \in Nat /\ MaxClicks \in Nat /\ MaxFailures \in Nat /\ MaxVisits \in Nat

VARIABLES
    flight,    \* Worker: [ready (vehicleReady), target (selected), armed (lastArmedState)]
    owned,     \* Worker: an ESC, calibration or radio session owns the link
    transfer,  \* Worker: a parameter, file or log transfer runs
    shell,     \* bridge: "closed", shellPending or shellActive
    claimed,   \* vehicle: the device is claimed exclusively
    left,      \* history: a close of this open shell was refused
    toPage,    \* events on their way
    toWorker,  \* commands on their way
    known,     \* page: what it knows of flight
    visible,   \* page: the terminal is mounted
    opened,    \* page: the effect on "available" has run
    terminal,  \* page: shellStore [active, reason]
    changes, clicks, failures, visits

shellVars == <<flight, owned, transfer, shell, claimed, left, toPage, toWorker, known, visible,
               opened, terminal, changes, clicks, failures, visits>>
shellWorker == <<flight, owned, transfer, shell, claimed, left>>
shellPage == <<known, visible, opened, terminal>>
shellBounds == <<changes, clicks, failures, visits>>

Off(reason) == [active |-> FALSE, reason |-> reason]
On == [active |-> TRUE, reason |-> "none"]

ShellInit ==
    /\ flight = [ready |-> FALSE, target |-> FALSE, armed |-> "unknown"] /\ owned = FALSE
    /\ transfer = FALSE /\ shell = "closed" /\ claimed = FALSE /\ left = FALSE /\ toPage = <<>> /\ toWorker = <<>>
    /\ known = flight /\ visible = FALSE /\ opened = FALSE /\ terminal = Off("none")
    /\ changes = 0 /\ clicks = 0 /\ failures = 0 /\ visits = 0
-----------------------------------------------------------------------------
Status(s) == [kind |-> "status", shown |-> s]
Flight(f) == [kind |-> "flight", flight |-> f]
Tells(es) == toPage' = toPage \o es

(* A heartbeat of the selected vehicle, or none for HEARTBEAT_TIMEOUT_MS.    *)
FlightChanges ==
    /\ changes < MaxChanges /\ changes' = changes + 1
    /\ \/ \E armed \in {"no", "yes"} : flight' = [ready |-> TRUE, target |-> TRUE, armed |-> armed]
       \/ flight' = [flight EXCEPT !.ready = FALSE]
    /\ flight' # flight /\ Tells(<<Flight(flight')>>)
    /\ UNCHANGED <<owned, transfer, shell, claimed, left, toWorker, shellPage, clicks, failures, visits>>

(* Wrong on purpose: nobody is told of the end.                              *)
TargetEndsUnheard ==
    /\ changes < MaxChanges /\ changes' = changes + 1
    /\ \E ready \in {FALSE, flight.ready} :
          flight' = [ready |-> ready, target |-> FALSE, armed |-> "unknown"]
    /\ shell' = "closed" /\ left' = FALSE
    /\ Tells(<<Flight(flight')>>)
    /\ UNCHANGED <<owned, transfer, claimed, toWorker, shellPage, clicks, failures, visits>>

(* The link is lost, MAVLink is paused or another target is activated: the   *)
(* shell ends with the target, no byte is sent.                              *)
TargetEnds ==
    /\ changes < MaxChanges /\ changes' = changes + 1
    /\ \E ready \in {FALSE, flight.ready} :
          flight' = [ready |-> ready, target |-> FALSE, armed |-> "unknown"]
    /\ shell' = "closed" /\ left' = FALSE
    /\ Tells((IF shell = "closed" THEN <<>> ELSE <<Status(Off("reset"))>>) \o <<Flight(flight')>>)
    /\ UNCHANGED <<owned, transfer, claimed, toWorker, shellPage, clicks, failures, visits>>

(* Other commands start transfers, but not past an open shell.               *)
TransferChanges ==
    /\ changes < MaxChanges /\ changes' = changes + 1
    /\ (shell = "closed" \/ transfer) /\ transfer' = ~transfer
    /\ UNCHANGED <<flight, owned, shell, claimed, left, toPage, toWorker, shellPage, clicks, failures,
                   visits>>

(* The session that owns the link ends, for whatever reason.                 *)
SessionEnds ==
    /\ owned /\ owned' = FALSE
    /\ UNCHANGED <<flight, transfer, shell, claimed, left, toPage, toWorker, shellPage, shellBounds>>

(* A SERIAL_CONTROL write is put on the link, or refused by it.              *)
Written(claim) == claimed' = claim /\ UNCHANGED failures
WriteFails == failures < MaxFailures /\ failures' = failures + 1 /\ UNCHANGED claimed

(* An operation_error of the shell says nothing of the shell itself.         *)
Error(code) == [kind |-> "error", code |-> code]
Nothing == UNCHANGED <<shell, claimed, failures>>

(* openShell, by the only client of the local runtime, which names no owner. *)
OpenShell ==
    IF ~flight.target THEN Nothing /\ Tells(<<Error("target_not_ready")>>)
    ELSE IF shell # "closed" THEN Nothing /\ Tells(<<Error("shell_busy")>>)
    ELSE IF flight.armed # "no"
    THEN Nothing /\ Tells(<<Error("armed"), Status(Off("unsafe_arming_state"))>>)
    ELSE IF transfer THEN Nothing /\ Tells(<<Error("busy"), Status(Off("transfer_busy"))>>)
    ELSE \/ Written(TRUE) /\ shell' = "pending" /\ Tells(<<Status(Off("probing"))>>)
         \/ /\ WriteFails /\ UNCHANGED shell
            /\ Tells(<<Status(Off("probing")), Error("write"), Status(Off("write_failed"))>>)

(* writeShell.                                                               *)
WriteShell ==
    IF ~flight.target THEN Nothing /\ Tells(<<Error("target_not_ready")>>)
    ELSE IF shell # "active" THEN Nothing /\ Tells(<<Error("shell_not_open")>>)
    ELSE \/ Nothing /\ UNCHANGED toPage
         \/ WriteFails /\ UNCHANGED shell /\ Tells(<<Error("write")>>)

(* Wrong on purpose: a shell that is still probing is not closed.            *)
CloseShellActive(reason) ==
    /\ Tells(<<Status(Off(reason))>>)
    /\ IF shell # "active" THEN Nothing
       ELSE shell' = "closed" /\ (Written(FALSE) \/ WriteFails)

(* closeShell: the claim is returned if the link takes the write.            *)
CloseShell(reason) ==
    /\ Tells(<<Status(Off(reason))>>)
    /\ IF shell = "closed" THEN Nothing
       ELSE shell' = "closed" /\ (Written(FALSE) \/ WriteFails)

(* LocalRuntimeCoordinator refuses every command of the shell then, with a   *)
(* client_error, of which shellStore hears nothing.                          *)
Barred == owned \/ ~flight.ready
RefuseCommand ==
    /\ left' = (left \/ (Head(toWorker) = "close" /\ shell # "closed"))
    /\ Nothing /\ UNCHANGED <<owned, toPage>>

(* Another page starts a session; its own guards may refuse it.              *)
StartSession == owned' \in {owned, TRUE} /\ Nothing /\ UNCHANGED <<left, toPage>>

HandleShellCommand ==
    /\ toWorker # <<>> /\ toWorker' = Tail(toWorker)
    /\ IF Head(toWorker) = "session" THEN StartSession
       ELSE IF Barred THEN RefuseCommand
       ELSE /\ \/ Head(toWorker) = "open" /\ OpenShell
               \/ Head(toWorker) = "write" /\ WriteShell
               \/ Head(toWorker) = "close" /\ CloseShell("closed")
            /\ left' = (left /\ shell' # "closed") /\ UNCHANGED owned
    /\ UNCHANGED <<flight, transfer, shellPage, changes, clicks, visits>>

(* prepareDisconnect asks the bridge itself and destroys the sessions (that  *)
(* of the ESCs later); it waits, so the end of the link is a step of its own. *)
PrepareDisconnect ==
    /\ changes < MaxChanges /\ changes' = changes + 1
    /\ CloseShell("closed") /\ left' = FALSE /\ owned' \in {owned, FALSE}
    /\ UNCHANGED <<flight, transfer, toWorker, shellPage, clicks, visits>>

(* handleSerialControl: output of the vehicle.                               *)
ShellOutput ==
    /\ claimed /\ shell = "pending" /\ shell' = "active" /\ Tells(<<Status(On)>>)
    /\ UNCHANGED <<flight, owned, transfer, claimed, left, toWorker, shellPage, shellBounds>>

(* SHELL_PROBE_TIMEOUT_MS without output.                                    *)
ProbeTimesOut ==
    /\ shell = "pending" /\ shell' = "closed" /\ left' = FALSE /\ (Written(FALSE) \/ WriteFails)
    /\ Tells(<<Status(Off("shell_probe_timeout")), Error("shell_probe_timeout")>>)
    /\ UNCHANGED <<flight, owned, transfer, toWorker, shellPage, changes, clicks, visits>>
-----------------------------------------------------------------------------
Available(f, shown) == shown /\ f.ready /\ f.target /\ f.armed = "no"

(* Wrong on purpose: the cleanup of the effect closes only what is shown     *)
(* open.                                                                     *)
EffectIfActive(available) ==
    /\ opened' = available
    /\ toWorker' = IF available /\ ~opened THEN Append(toWorker, "open")
                   ELSE IF ~available /\ opened /\ terminal.active THEN Append(toWorker, "close")
                   ELSE toWorker

(* The effect of the terminal: open while available, close when it is over.  *)
Effect(available) ==
    /\ opened' = available
    /\ toWorker' = IF available /\ ~opened THEN Append(toWorker, "open")
                   ELSE IF ~available /\ opened THEN Append(toWorker, "close")
                   ELSE toWorker

(* handleMessage: shell_status, operation_error and the vehicle's state.     *)
HearShell ==
    /\ toPage # <<>> /\ toPage' = Tail(toPage)
    /\ LET e == Head(toPage) IN
       \/ /\ e.kind = "flight" /\ known' = e.flight /\ Effect(Available(e.flight, visible))
          /\ UNCHANGED terminal
       \/ e.kind = "status" /\ terminal' = e.shown /\ UNCHANGED <<known, opened, toWorker>>
       \/ e.kind = "error" /\ terminal' = Off(e.code) /\ UNCHANGED <<known, opened, toWorker>>
    /\ UNCHANGED <<shellWorker, visible, shellBounds>>

ShowTerminal ==
    /\ ~visible /\ visits < MaxVisits /\ visits' = visits + 1
    /\ visible' = TRUE /\ Effect(Available(known, TRUE))
    /\ UNCHANGED <<shellWorker, toPage, known, terminal, changes, clicks, failures>>
HideTerminal ==
    /\ visible /\ visible' = FALSE /\ Effect(FALSE)
    /\ UNCHANGED <<shellWorker, toPage, known, terminal, shellBounds>>

(* The button, shown while the terminal is neither connected nor connecting. *)
Reconnect ==
    /\ opened /\ ~terminal.active /\ terminal.reason # "probing"
    /\ clicks < MaxClicks /\ clicks' = clicks + 1
    /\ toWorker' = Append(toWorker, "open")
    /\ UNCHANGED <<shellWorker, toPage, shellPage, changes, failures, visits>>
Types ==
    /\ visible /\ terminal.active /\ clicks < MaxClicks /\ clicks' = clicks + 1
    /\ toWorker' = Append(toWorker, "write")
    /\ UNCHANGED <<shellWorker, toPage, shellPage, changes, failures, visits>>

(* A page without the terminal asks for a session.                           *)
AskSession ==
    /\ ~visible /\ changes < MaxChanges /\ changes' = changes + 1
    /\ toWorker' = Append(toWorker, "session")
    /\ UNCHANGED <<shellWorker, toPage, shellPage, clicks, failures, visits>>

ShellNext ==
    \/ FlightChanges \/ TargetEnds \/ TransferChanges \/ SessionEnds \/ HandleShellCommand
    \/ PrepareDisconnect \/ ShellOutput \/ ProbeTimesOut
    \/ HearShell \/ ShowTerminal \/ HideTerminal \/ Reconnect \/ Types \/ AskSession
ShellSpec == ShellInit /\ [][ShellNext]_shellVars
-----------------------------------------------------------------------------
ShellTypeOK ==
    /\ flight \in [ready : BOOLEAN, target : BOOLEAN, armed : {"unknown", "no", "yes"}]
    /\ owned \in BOOLEAN /\ transfer \in BOOLEAN /\ left \in BOOLEAN
    /\ shell \in {"closed", "pending", "active"} /\ claimed \in BOOLEAN
    /\ terminal.active \in BOOLEAN /\ visible \in BOOLEAN /\ opened \in BOOLEAN

Closing == \E i \in DOMAIN toWorker : toWorker[i] = "close"

(* An open shell refuses every other command.  The bridge holds one only for *)
(* a terminal that wants it, whose close is on its way, or whose close was   *)
(* refused since this shell was opened; no shell runs without its claim; and *)
(* the page shows no shell connected that the bridge has closed, once it has *)
(* heard everything.                                                         *)
ShellHeld ==
    /\ ShellTypeOK
    /\ shell # "closed" => claimed
    /\ left => shell # "closed"
    /\ shell # "closed" /\ ~opened => Closing \/ left
    /\ toPage = <<>> /\ terminal.active => shell = "active"

(* Who leaves the terminal gives the shell back: not so while the vehicle is *)
(* silent or a session owns the link (requiresReadyTarget names no           *)
(* shell_close), and nothing asks for the close again.                       *)
ShellReturned == shell # "closed" /\ ~opened => Closing

(* And the other way round: a page at rest shows the shell that is open.     *)
ShownWhenOpen == toPage = <<>> /\ shell = "active" => terminal.active
=============================================================================
