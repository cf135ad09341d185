# Verification of the OpenConfigurator runtime

TLA+ modules, TLC configurations and TLAPS proofs for the concurrent core of
OpenConfigurator: a browser ground station for PX4 and ArduPilot that talks to a
flight controller over Web Serial. Paths below are relative to the repository.

## 1. The system

| Part | Files | State it keeps | Operations |
|---|---|---|---|
| Serial transport (main thread) | `src/web/runtime/WebSerialTransport.ts`, `LocalRuntimeClient.ts` | port, streams, write queue, `draining`, `closing`, `reconnecting` | open, write, cancelQueued, close, fail and reconnect, connect, disconnect |
| Worker boundary | `src/local-runtime/worker.ts` | `pendingWrites`, `writeFailureActive` | transport_open / _bytes / _closed, write_result, prepare_disconnect, shutdown |
| Coordinator | `src/local-runtime/LocalRuntimeCoordinator.ts` | services, safety epoch, ESC safety snapshot, parameter-sync generation | open, close, handleCommand (gates), onBridgeEvent, beginParameterSync |
| Connection manager | `src/local-runtime/connection/BrowserConnectionManager.ts` | transportOpen, vehicleReady with a 15 s watchdog, raw session | attach, detach, beginRawSession, notifyAutopilotHeartbeat |
| MAVLink bridge | `src/local-runtime/mavlink/MavlinkBridge.ts` | target, command transactions, parameter download, `protocolPaused` | handleRuntimeCommand, pause/resumeProtocol, resetTargetState |
| ESC stack | `src/local-runtime/esc/` | owned session, job, in-flight slot, timers | start, exit, reclaim, client disconnect, scan, settings read and write |
| Sensor calibration | `CalibrationSession.ts`, `CalibrationSessionManager.ts`, `calProtocol.ts` | phase, watchdogs, evidence, owner, retained snapshot | start, cancel, confirm a position, accept, reclaim |
| Radio calibration | `RadioCalibrationSessionManager.ts` | step, review, parameter writes | start, advance, cancel |
| Transfers | `MavlinkFtp.ts`, `MavlinkLogTransfer.ts`, `transfer.ts` | the request in flight, received ranges, retries, registered downloads | list, download, delete, erase, cancel, pause, destroy |
| Codec and ESC framing | `codec.ts`, `fourWay.ts`, `msp.ts`, `crc.ts`, `am32.ts` | parser buffer, signing keys, watermarks, the request in flight | parse, encode, verify, read and write a layout |
| Page runtime | `useLocalRuntime.ts` and `src/web/stores/` | projections of Worker events, the automatic parameter request, the lists on the screen | event handlers, commands, deferred batches |
| Screens | `src/web/pages/`, `src/web/components/` | dialogs with what the user ticked | open, list, download, delete, erase |

Two threads, connected by `postMessage`: the main thread owns the serial port, the
Worker owns every protocol. Inside a thread everything is single-threaded
JavaScript, so the hard behaviours are what happens *between* macrotasks:

- a promise that is awaited (closing streams, a quiet interval, one transaction, a
  retry delay) while a timer, a message, another command or a lost device arrives;
- messages in both directions that cross (a refused write against a new link);
- timers that race the work they guard (idle and orphan watchdogs against jobs);
- evidence about the vehicle that is frozen while the link is lent to an ESC
  session, and must not be used afterwards.

What makes each part correct: **serial** - bytes of one link generation never reach
the next, a disconnect is final, a lost link is reported and (Bluetooth) retried a
bounded number of times, no write is counted for ever; **ESC stack** - the link has
one user and always comes back, no request leaves without current evidence of a
disarmed vehicle, no write goes on after its owner left, an atomic unit is not cut
into; **coordinator** - at most one of ESC session, calibrations and parameter
sync owns the vehicle, a stale confirmation is refused; **transfers** - every byte
of a file exactly once, retries idempotent; **sensor calibration** - a session ends
once whatever the vehicle sends, claims no more evidence than it was given, and asks
the vehicle only for what the owner confirmed; **codec** - resynchronisation, replay.

`PROJECT.json` lists every component with its status, and under `hazards` the places
in the code where these behaviours bite.

## 2. Modules

| Module | Models |
|---|---|
| `EscSession` | the ESC session stack (`EscSessionManager`, `EscService`, both transports, `EscDetector`, the job side of `Am32SettingsService`), the raw-session half of the connection manager, pause and resume of the bridge, the coordinator's ESC safety snapshot |
| `LinkLease` | abstract: what the ESC stack promises about the link; `EscSession` implements it (`LeaseSpec`) |
| `SerialLink` | `WebSerialTransport`, `LocalRuntimeClient`, the write accounting of `worker.ts`, the two message channels between the threads |
| `RuntimeGate` | `LocalRuntimeCoordinator` (gates, safety epoch, parameter generations), with what it reads and causes in `MavlinkBridge` (target, conflict, heartbeats, parameter download, the PARAM_SET chain of a radio calibration), `BrowserConnectionManager` and both calibration managers |
| `LinkShare` | abstract: long operations take the link one at a time; `RuntimeGate` implements it with the raw ESC transport (`ShareSpec`) |
| `CalibrationSession` | one sensor calibration after the other: the session, its manager, and the messages `MavlinkBridge` hands to it |
| `TaskLedger` | abstract: one calibration at a time, a final end, one parameter refresh per success; `CalibrationSession` implements it (`LedgerSpec`) |
| `Transfers` with `TransferLink`, `Intervals`, `FtpTransfer`, `LogTransfer` | MAVLink FTP and the log transfer, and what starts, pauses and ends them in `MavlinkBridge` |
| `BridgeLink` with `BridgeBase`, `CommandLink`, `ParamLink` | COMMAND_LONG transactions, motor tests, PARAM_SETs, the airframe transaction and the parameter download of `MavlinkBridge`, over a vehicle that loses, delays and refuses |
| `PageRuntime` | the parameter list of the page: generations, snapshots, batches, the automatic request with its retries |
| `FrameCodec`, `FrameTrust` | the frame parser with its resynchronisation; signing, watermarks and the tables of known signers |
| `EscSettings`, `Am32Layout` | a settings batch over 4-way requests that may be answered late; the AM32 EEPROM layout and its conversions |
| `TargetDiscovery` | which autopilot is bound when several are heard |
| `ShellSession`, `FileBrowser`, `LogPanel` | three screens with the commands and events between page and Worker |
| `SensorFeed`, `BatteryFeed` | two stores that choose between competing telemetry streams |
| `..._proofs` | the theorems, one module for each module or group of scenes they are about |
| `MC...` | the instances for TLC, which declare model values; `MCRuntime` and `MCScreens` also join independent modules as *scenes* |

`EscSession` and `RuntimeGate` describe the same coordinator at two distances: the
first looks at one ESC session step by step and lets the vehicle do anything the
gates could see, the second sees an ESC session only by whether it exists and looks at
everything else that wants the vehicle. `SerialLink` lies under both: what it
delivers or loses appears in them as `LinkUp`, `LinkDown`, `Open` and `Close`.
`CalibrationSession` is the inside of what `RuntimeGate` keeps in `cal`, `Transfers` of
what it keeps in `transfer`, `BridgeLink` of the transactions it takes for single
steps: the gates decide whether one may start and what ends it from outside, which in
those modules are the actions of their environment (`Interrupted`, `LinkChange`,
`SelectTarget`). The page modules stand at the other end of the two message channels,
and see of the Worker what it posts and what makes it refuse.

### 2.1 Conventions

- A step is one JavaScript macrotask (a message, a timer, received bytes) with all
  promise continuations it releases. Where the code awaits something that another
  macrotask must settle, the state says what is suspended and an action resumes it.
- Time is not measured, with four exceptions that count ticks because a comparison of
  ages decides: `FrameTrust`, `TargetDiscovery`, `SensorFeed` and `BatteryFeed`.
  Elsewhere a timer that is armed may fire at once or never (except where fairness says
  otherwise), which covers every race between a timer and the work it guards.
- Definitions marked "Wrong on purpose" are plausible bugs of the definition that
  follows. They are used by no specification; each shows that a property notices it.
- Variables commented *history* are not in the code. They remember something a
  property speaks about. Those commented *external* are the vehicle or the radio link.
- Message channels are sequences, in order; the air loses, repeats (where the protocol
  has to cope) and delays.

### 2.2 EscSession

| State | Code |
|---|---|
| `state`, `mode`, `owner`, `confirmed`, `base` | `InternalSession` |
| `job` (kind, target, step, tries) | `activeJob` and the local variables of `runScan`, `runSettingsRead`, `runSettingsWrite`, `detectEscs` |
| `wire`, `fourWay` | the in-flight slot of the raw transport, `fourWayActive` |
| `raw`, `paused`, `gcsTimer`, `ready`, `claimed` | raw session, `protocolPaused`, heartbeat interval, `vehicleReady`, what the flight controller holds for us |
| `snap`, `targetGen` | `escSafetySnapshot`, the live fingerprint of the bridge |
| `idleTimer`, `orphanTimer` | the two watchdogs |

Suspended between macrotasks are: `transport.open` in its quiet interval
(`OpenSettled`), one transaction (`Reply`, `Fails`), the retry delay of a probe
(`DelayFires`), and the `InterfaceExit` of a teardown (`ExitDone`). A teardown
follows `finalizeSession`: timers, protocol exit if the in-flight slot is free,
release of the raw handle, `resumeProtocol`, evidence forgotten. `ReadyGate` = FALSE
drives `EscService` directly, as its tests do; TRUE puts `ready()` of the coordinator
before it, as the product does.

Left out: direct mode (its own entry rule, no scan); the refusal of a start because
the link is busy (that is in `RuntimeGate`); the content of requests and of the
EEPROM. Sessions over PX4's `SERIAL_CONTROL` open, time out and close, but the code
runs no job on them. `handleClientDisconnected` and `reclaim` are reached only
through the API of `EscService`.

### 2.3 SerialLink

| State | Code |
|---|---|
| `os` | the port as the browser sees it: closed, opening, open, closing (a close waits for the write in flight) |
| streams, `queue`, `draining`, `closing`, `reconnecting` | fields of `WebSerialTransport` |
| `loops[h]` | attempts left in `fail()`, run by `drain` (host 0) or by the read loop of link generation `h` |
| `settling` | who waits in `closeStreams` |
| channels to and from the Worker | `postMessage` in both directions, in order |
| pending counters, `writeFailureActive` | `worker.ts` |
| `gen`, `wanted`, `due`, `workerGen` | history |

`closeStreams` suspends only when it holds stream locks; a `fail()` without them runs
through in its step. All write results of one macrotask travel as one message.
Priorities are left out, a write has size one, and `MaxQueued` stands for both limits
of 512 KiB. Left out: a second port, port discovery, artifacts, and the shutdown of
the Worker.

### 2.4 RuntimeGate

| State | Code |
|---|---|
| `authority`, `epoch`, `lastPrint` | `safetyAuthorityId` (by the number of its `open()`), `safetyEpoch`, `lastTargetFingerprint` |
| `target`, `identity`, `selReady`, `armed`, `conflict`, `vgen` | `targetSysId`/`CompId`, `selectedIdentity`, `selectedHeartbeatReady`, `lastArmedState`, `targetConflict`, `vehicleSafetyGeneration` |
| `vready`, `rebooting` | `vehicleReady`, `expectedRebootUntil` |
| `esc`, `cal`, `radio` | `blocksMavlinkMutations()` of the three managers; `radio` also has the phase and the fingerprint of the session |
| `chains` | the closures of `applyRadioCalibration`: writing or rolling back, and the parameter that is pending in `pendingParamSets` |
| `sync`, `gens`, `syncRun` | `activeParameterGeneration`, `parameterGeneration`, `activeParameterRunId` |
| `run`, `loading` | `paramRunId`, `paramDownloadActive` |
| `transfer` | `ftp.busy` or `logTransfer.busy` |
| `conf` | the epoch and authority the page saved when the user confirmed; `intact` and `calm` are history |
| `ownRun` | history: the run started for the open generation |

The epoch counts as the code counts: 4 after `open()`, +3 for a close (+1 with a raw
session), +2 for a readiness edge (one from `vehicleReadyChange`, one from
`connectionStateDetail`), +3 when a raw session begins and +1 when it ends, +1 for
every target event whose fingerprint is new. `vehicleMutationFingerprint` is
represented by the vehicle safety generation alone, because its other parts change
only together with it. `radio` and `chains` are separate because the code keeps them
apart: ending a session does not stop its chain, and a chain finds out at its next
echo. `Echo(s, FALSE)` is any refusal: three timeouts, a rejected write, a full table.

Heartbeats of the selected autopilot are `Heartbeat`; those of others matter only
through `refreshTargetConflict` and are `TargetNews`. Both may happen at any moment
the parser is attached. A conflict arises only while a target is selected.

Left out: sample freshness and the capture of the steps of a radio calibration
(one step stands for all of them), vehicle capabilities, the shell and pending
commands as reasons for refusal, the airframe transaction, motor tests, autotune and
the emergency disarm.

### 2.5 CalibrationSession

| State | Code |
|---|---|
| `s` | the fields of `CalibrationSession`: flow (family and kind), owner, phase, verification, sides, requested position, compass mask and states, acceptance, `cancelRequested` |
| `s.timers` | the armed slots; the slot `accept` is two timers here, `accept` (waiting for the ACK) and `settle` (approved, waiting for a stored report) |
| `active`, `orphanTimer`, `recover`, `retained` | `active`, `orphanTimer`, `recoverUntil` and the retained snapshot of the manager |
| `fed` | `activeCalibration` of the bridge |
| `s.shown`, `s.told`, `s.acked`, `s.open`, `sessions`, `refreshes`, `sent` | history: what pages were sent, what the vehicle has said, what the step sent |

The handlers are functions from session to session, composed in the order of the
code (`markEvidence`, the change, `emit`), and `Settled` is what a terminal snapshot
does to manager and bridge in the same macrotask. There are four flows, because the
code distinguishes no more: PX4 (text lines), the six positions of ArduPilot, its
compasses, and one-shots with nothing but an ACK. The vehicle is free: any message
of a flow may come in any state, repeated or never.

Abstracted: a percentage is one of two values, the aggregation over compasses is any of
them; the sides a PX4 kind shows are any set (none for an unknown protocol version); a
compass report is a success, a stored success or a failure, as ArduPilot sends it
only at the end of a compass; failure codes and texts. The grace of an owner and the
window of a cancellation are both 30 s, so a cancellation sent before the owner left is over
when the grace is: the guard of `OrphanExpires` says so. Disconnecting and reclaiming are
reached only through the API of the manager; the local runtime has one page.

### 2.6 Transfers

| State | Code |
|---|---|
| `link`, `target`, `destroyed` | what the bridge knows of the link, `targetSysId`, and `destroy()` |
| `ftp` | `state`, `cancelRequested` and `sequence` of `MavlinkFtp`, and where its `async` operation waits |
| `ask` | `pending` of `transact`: the request in flight with its number and tries, or how it was settled |
| `get`, `scan`, `del` | the local variables of `download`, `collectDirectory` and the recursive deletion |
| `logOp`, `roll`, `fetch`, `rounds` | the same for `MavlinkLogTransfer`: list, download, erasure |
| `downloads`, `logFiles` | the registered downloads, bounded and evicted oldest first |
| `server`, `air`, `vehicle`, `logAir` | external: the FTP server with its last answer and its burst, the logs on the vehicle, the frames on their way |
| `sent`, `said` | the frame written and the result reported in the last step |
| `page` | external: the commands the page uses in this behaviour |

The operations are `async` functions whose promise is settled by a received frame, a
timer or a cancellation. Each `await` is a value of `step`; the continuation runs in the
step that settles it. `Intervals` has the interval arithmetic of `MavlinkFtp.ts` as
functions on sequences of pairs. The server executes a request once and repeats its
last answer for a repeated number, which is what the sequence numbers of the protocol
are for; in the air a frame may be lost, repeated, damaged or late. Chunks have length
1, sequence numbers count modulo `SeqCycle` (65,536 in the code). Late has a limit: when more than
`MaxAge` numbers have been taken since, a frame is gone, a burst that stood still has ended and the
server repeats its answer no more. The module assumes that this lateness and the
length of a burst together fill less than half the cycle. `advanceSeqFromReply` assumes the same when it
tells ahead from behind by half of it. The page may use one of a
few sets of commands (`Offers`), so that TLC meets the pairs that interfere and not the
product of all. Left out: payload encoding, file names and times of logs, progress reports.

### 2.7 BridgeLink

| State | Code |
|---|---|
| `target`, `ready`, `armed` | `targetSysId`, `requireReadyTarget`, `lastArmedState` |
| `pending`, `fence` | `pendingCommands`, and the quarantine that follows a command whose outcome is not known: `settling` for `COMMAND_UNCERTAIN_QUARANTINE_MS`, `uncertain` after it |
| `line`, `queue` | messages of the Worker the main thread has not handled, and the frames waiting in `WebSerialTransport`, which withdraws by tag and lets critical ones pass |
| `working`, `air` | external: orders a vehicle has and has not answered, COMMAND_ACKs on their way |
| `cache`, `pset`, `frame`, `load` | `parameterValues`, `pendingParamSets`, `activeAirframeTransaction` with the closure of `applyAirframe`, the parameter download |
| `down`, `up`, `actual` | external: frames to and from the vehicle, and its parameters |
| `told`, `stolen`, `unfenced`, `left`, `known`, `report`, `baseless` | history |

An ACK names only the command it answers, not the request: which request it is
credited to is decided by what waits and what is fenced, and this is what
`CommandsAnswered` is about. The quarantine assumes that no answer is later than its
window; the model makes the same assumption (`WindowEnds` and `Drained`: a window
closes only when nothing answered to it is left).
Motor orders pass through two queues: a stop withdraws what waits in the second, and
what is still in the first arrives behind the stop's withdrawal.
Left out: message streams and their intervals, manual control, the parameter files,
status texts, and the reboot command's own answer.

### 2.8 The page runtime and the codec

`MCRuntime` has six scenes. A scene is chosen at first and only its module moves, so the
state spaces add up; nothing is shared between them.

| Scene | State | Code |
|---|---|---|
| `PageRuntime` | `wire`, `gen`, `gens`, `told`, `left`, `loading` | the Worker: connection state, `activeParameterGeneration`, `pendingParams`, the bridge's download |
| | `events`, `commands` | the two message channels |
| | `seen`, `last`, `preserve`, `pageGen`, `auto`, `batch`, `list`, `show` | the page: `connectionStore`, `lastVehicleReady`, `preserveParamsOnReadyRecovery`, `activeParamGeneration`, the automatic request, `paramBatch`, `parameterStore` |
| `FrameCodec` | `stream`, `placed`, `arrived`, `ingress`, `delivered` | the bytes of the link with the items they are, and the parser's buffer |
| `FrameTrust` | `watermarks`, `signers`, `now` | `replayTimestamps`, `signedSources`, `Date.now()` |
| `EscSettings` | `asks`, `replies`, `waiting`, `selected` | 4-way requests and answers on their way, the transport's request in flight, the channel the interface has selected |
| | `escJob`, `devices`, `raws`, `chip` | the running job, `EscService.devices` and `rawSettings`, the EEPROM of each ESC |
| `Am32Layout` | `revision`, `memory` | an EEPROM image, edited field by field |
| `TargetDiscovery` | `known`, `target`, `chosen`, `source`, `conflict`, `identity`, `beatReady` | `discoveredTargets`, `targetSysId`, `explicitTargetSelected`, `targetSelectionSource`, `targetConflict`, `selectedIdentity`, `selectedHeartbeatReady` |
| | `bus`, `kind` | external: when each autopilot was last heard, and what it says it is |

`InTurn` in `PageRuntime` says that a link is opened, closed and lent by messages of the
page, which are handled behind the requests it sent before; and `Open` that the page opens a link
once it has heard that the last one is closed (the dialog and the delay of a reconnect see to that). In `FrameCodec` a byte is a small number: a magic, a length, a payload or a checksum that
fits or does not. Frames that contain frames, lengths that promise more than there is and
false magics are among the items, since the parser must find its way back from each.
`EscSettings` lets the answer to a request that timed out arrive while the next one
is in flight: an answer is matched by its command and address only. Every request is
answered, if late: none is lost. The history variable `crossed` says that a request timed out while an earlier one was still
to be answered; a job that starts with nothing on its way clears it.

### 2.9 The screens

| Scene | Worker and vehicle | Page |
|---|---|---|
| `ShellSession` | `flight`, `owned`, `transfer`, `shell`, `claimed`, `left` | `known`, `visible`, `opened`, `terminal` |
| `FileBrowser` | `onCard`, `vehicle`, `ftp`, `artifacts` | `seen`, `shown`, `explorer`, `dialog`, `download`, `deletion`, `reading`, `handed` |
| `LogPanel` | `logs`, `craft`, `logSync`, `logOp` | `heard`, `panel`, `eraser`, `erase` |
| `SensorFeed` | ages of the streams | `imuWinner`, `tempWinner`, `magUnit`, `magState`, `baroSlot` |
| `BatteryFeed` | `craftNow`, `fitted`, `statusAge` | `packs`, `packShown`, `packSource`, `packStamp`, `sysStamp` |

In `ShellSession` the gates of `LocalRuntimeCoordinator` stand before the bridge (`Barred`): while the
vehicle is not ready, or an ESC, calibration or radio session owns the link (`owned`), every
command of the shell is refused, `shell_close` too, by a `client_error` that `shellStore` does not
hear. Only `PrepareDisconnect` asks the bridge itself. The history variable `left` remembers that a close of
the open shell was refused.

The first three have a channel in each direction, so that the page acts on what it has
heard and the Worker on what it knows. A dialog keeps what the user ticked, as the
component does (a key made of what was on the screen); a change of vehicle or list makes
the tick stale. The two feeds have the age of every slot, because which stream is shown
depends on which others are still live.

## 3. What is checked

Runs named here are in `PROJECT.json`; each has a `.cfg` of the same subject. Every
property of a passing run has mutants that violate it.

| Run | Properties | Distinct states |
|---|---|---|
| `esc_session` | `SessionConsistent`, `NoNewTargetAfterOwnerLoss`, `SafetyBoundaries`, `LeaseSpec`, `SessionsResolve` | 46,110 |
| `serial` | `LinkSound`, `LossSettlesInTime` | 1,410,848 |
| `gate_share` | `DownloadsAccounted`, `ConfirmationFresh`, `ShareSpec`, `SyncEnds` | 492,517 |
| `gate_radio` | `SessionsConsistent`, `ChainsOnSafeVehicle`, `RadioWriteEnds` | 68,007 |
| `calibration` | `CalibrationConsistent`, `OutcomesShown`, `OperatorBounds`, `LedgerSpec`, `SessionEnds` | 175,369 |
| `transfers` | `RequestsSound`, `OutcomesTrue` | 868,927 |
| `transfer_ends` | `TransfersEnd` | 284,189 |
| `bridge` | `CommandsAnswered`, `ConfirmedIsApplied`, `MotorsHeld`, `OutcomesReported`, `RequestsEnd` | 438,643 |
| `runtime` | `PageConsistent`, `FramesDelivered`, `LayoutSound`, `TargetUnambiguous`, `TrustHolds`, `SettingsOwn`, `UserSyncUndisturbed`, `AutomaticEnds` | 1,094,244 |
| `screens` | `ShellHeld`, `BrowserSound`, `ErasesWhatWasTicked`, `BestStreamShown`, `BatteryTrue` | 1,543,200 |

A property that has several parts is the conjunction of named ones, each stated with
its own comment; the parts were separate definitions because they fail separately.

| Property | Parts |
|---|---|
| `SessionConsistent` | types, link ownership, the in-flight slot, watchdogs |
| `SafetyBoundaries` | `RequestsOnlyWhileSafe` (only on the evidence of the authorization), `AtomicUnitUndisturbed` (stores) |
| `LinkSound` | `LinkConsistent` (one link, the drain released), `QueueFenced`, `PendingTraceable` |
| `SessionsConsistent` | types, sessions on a safe vehicle, one pending PARAM_SET per parameter, a writer has its chain |
| `OutcomesShown`, `OperatorBounds` | verdicts have evidence and are published; what the owner confirms was asked for |
| `RequestsSound` | `TransfersConsistent`, `AnswersMatch`, `OwnVehicleOnly` |
| `OutcomesTrue` | `KeptIsWhole`, `GapsExact`, `ReportedTrue` |
| `CommandsAnswered` | `TransactionsConsistent`, `AckAnswersRequest` |
| `MotorsHeld` | `ArmedNoStart` always, and `MotorsInOrder` |
| `OutcomesReported` | `AirframeAsReported`, `LoadedIsCurrent` |
| `PageConsistent` | types, `WantedIsComing`, `NothingOfLostLink`, `RequestedIsWhole` |
| `TrustHolds` | `TrustKept` always, and `NoReplayNoDowngrade` |
| `BrowserSound` | `RowsOfThisVehicle`, `DeletesWhatWasTicked`, `HandedIsAsked` |

**Bounds.** *ESC*: two clients (an owner and one who reclaims), two sessions (a new
one after every way to end the first), three targets (a first, a middle and a last
one for `NoNewTargetAfterOwnerLoss`), two tries, two jobs, one target change. *Serial*: two link
generations and two connects, so that a stale loop, message or abort meets a link
it does not belong to. Three scenes divide the rest. `crowded` has three writes on one
connect: one in flight, one queued (`MaxQueued` is 1) and one the main thread refuses for want of room, a
drain that takes the next entry, and the Worker's own limit. `reopened` has two writes over two
connects, so that one is queued when the link is lost. `settling` has one write and two
reconnect attempts, so that there is one that is not the last; it alone has fairness. *Gate*: two
autopilots where target changes matter and two identities where identity changes
matter; two radio calibrations with two writes each, so that a chain which has
outlived its session meets the next one in both directions; two parameter
generations, so that one supersedes the other; two links where the confirmation is
the subject, since the epoch restarts with the link. The bounds on the epoch and the
vehicle generation end a behaviour after a few boundaries; every action is enabled
several times below them, and the proofs need no bound. One configuration with
everything at once is beyond TLC; the two gate runs divide the questions, not the
actions, and together they fire every action. *Calibration*: two sessions, so that one
starts after every way to end the other; two clients (an owner and one who reclaims);
two positions, so that a request can replace another; two compasses, so that one can be
missing. *Transfers*: two vehicles (a transfer outlives the selection of its vehicle),
files of two chunks and logs of three bytes advertised as four, so that there is a gap to fill, an end
before the advertised one and a last chunk that is short; two tries; a directory in a directory, so that a
deletion has to return to what it left. *Bridge*: three requests of one command (the one that
is fenced, the one that must not take its answer, and one after the fence), two motors, two
parameters with two values, two frames in the air in each direction. *Runtime*: two links and
three generations (one superseded, one silent, one automatic), the page up to two events behind before the Worker
tells more, so that what it hears is older than what it may ask for; streams of three items,
which is a broken frame between two whole ones, and payloads of eight bytes, so that a
false claim can be longer than a frame that holds another; two tracked signers among three, so that one is evicted;
three ESCs, two time-outs (also with both answers late together, where `SettingsOwn` is silent until a job starts afresh), two ESCs exchanged once between jobs, one job after the scan; three autopilots of which two share a system id.
The table of targets has room for all three (`MaxKnown`), for `TargetUnambiguous` says nothing once it is too small; its eviction is not exercised.
*Screens*: two vehicles, one change between them, and so many clicks that every dialog can be
opened, ticked, outdated and confirmed. Two batteries, of which a vehicle has any or none (`fitted`): the part of `BatteryTrue` about
old readings speaks of those that have number 0 at most. Three changes of the vehicle or its use for the shell, so that it
opens, falls silent while the terminal is left, and comes back.

**Scenes and views.** `MCRuntime` and `MCScreens` choose a scene in `Init` and move only its
module (`MCSerialLink` chooses between instances of one), so their runs check independent modules at the price of the sum of their states.
The scene `layout` checks every value of every field before its first edit; the other scenes start
from one fixed image (`LayoutIdle`). The run `transfers` has the VIEW `Rotated`: sequence
numbers are only compared by their distance, so two states that differ by adding
a number to all of them have the same futures, and no property reads an absolute one. A frame may be four numbers
late in a cycle of 15, which is two requests and a burst; the run `transfer_ends` has one in a cycle of 6.

`EscSession` never deadlocks. All other systems may stop (disconnected, with the connects
or sessions used up; a bound reached; the screen closed), so their runs say
`CHECK_DEADLOCK FALSE`.

**Fairness.** Weak fairness is assumed of what the program or the browser does by
itself, never of users, vehicles or devices. *ESC*: the quiet interval, the outcome of
a transaction (every one has a timeout), the exit request, the two watchdogs.
*Serial* (the scene `settling`): the browser finishes what it was asked (open, close, write), each reconnect
loop goes on, messages are delivered; strong fairness for the once-a-second GCS
heartbeat, which is enabled again and again while the Worker believes in a link.
*Gate*: a pending PARAM_SET is answered or given up (three attempts of
`paramSetTimeoutMs`), and the 120 s timer of a generation fires. *Calibration*: the overall
limit and the window of a cancellation fire. Nothing arms them again, so weak
fairness is just a clock that goes on; the start, idle and acceptance timers can be moved by
the vehicle for ever and get none. One-shots have no overall limit: every IN_PROGRESS
extends their deadline, so `SessionEnds` does not speak of them. *Transfers*: continuations run,
and the timers of a request, a burst, a list, a data pass and an erasure fire. A list that
hears entries for ever is ended by its count of them, so the fair step of a list is silence or
the next entry that is heard. *Bridge*: a command's overall deadline passes (progress
reports extend the retry timer and not the deadline) and, once it has, its timer fires; the retry timers of
PARAM_SETs and of the download fire. *Page*: messages are heard, the timer of the
automatic request and the deferred flushes fire, a posted request is served or refused, the
timer of a generation fires.

## 4. What is proved

TLAPS checks these for every value of the constants that satisfies the `ASSUME` of the
module (finite bounds are natural numbers, distinguished values are no members, and
what a comment at the constant says). The theorems to know of are in `PROJECT.json`; the
lemmas they rest on are beside them. The inductive invariants named
here are definitions of the proof modules.

**EscSession_proofs.** The inductive invariant `IInv` is `TypeOK`, `LinkOwnership`,
`TransactionOwner` and `WatchdogArmed` together: none is inductive alone, since a
teardown decides by the in-flight slot, the slot belongs to a job of the session,
and which timer must be armed depends on both. `JobShape` adds what a running
job says of its session, which the action properties need. Proved: `SessionConsistent`,
`NoNewTargetAfterOwnerLoss`, `SafetyBoundaries` and its parts, and that the stack implements `LinkLease`: every step
either leaves holder and evidence alone (the *Quiet* lemmas) or is one of the lease.
The settings of several ESCs (`SettingsOwn`) are proved for any number of time-outs. The property itself is silent while
`crossed`, which it has to be: an answer names no channel and no attempt, and with two answers that are late together the
settings of one ESC are shown for another (section 5). Otherwise (`Straight`) at most one answer is left behind, and the
invariant `SettingsInv` says where it can be: whatever stands before the
request in flight is that of an init, unless the request is an init itself, and a request that is no init
finds its own channel selected. So a late answer is either refused, or it is taken for that of the init just
sent, which then still selects the channel before the next request is served.
`LayoutSound` follows from two facts about each of the 40 entries of the AM32 table, `FieldOK` (the range, the steps and
"off" are exactly values of the byte) and `Apart` (no other entry of its revision has the byte).

**SerialLink_proofs.** `LinkSound` joins what five kinds of actors believe: the port, the drain, the
opener, the reconnect loops and the Worker. The invariant `LinkInv` adds what they have
in common: whose generation the streams are, that a drain which runs holds a
write of that generation, that at most one opener or closer is suspended, and how many
refusals are on their way to the Worker for every write it still counts. A loop of an old generation is
harmless because each of its steps first compares with what only a newer link sets.

**RuntimeGate_proofs.** `GateInvariant` rests on one fact, `Forward`: a step either opens
a new link (a larger authority) or does not lower the epoch, and if the epoch stays,
a vehicle that answers is seen as before. `Forward` is not true of every state. A
target event with an unchanged fingerprint moves nothing, so one has to know that
the last event told the truth; `VehicleKnown` says so, with the one exception the
code has: while no heartbeat is believed the events may lag, and then the next believed
heartbeat is itself a boundary. `ConfirmationBound` follows: a saved epoch is never ahead,
and a confirmation whose epoch and authority are the current ones is intact unless
the vehicle is silent. `FreshConfirmation` uses it at the three commands that check a
confirmation, each of which demands a vehicle that is not silent.
`SessionsAreConsistent` and `ChainsAreSafe` follow the chains of radio writes: a chain
waits for the echo of a parameter nobody else waits for, and a session that writes has
the chain that will end it. `DownloadsAreAccounted` needs the history variable `ownRun`, which says
which download belongs to the open generation.
`LinkIsShared` is the refinement of `LinkShare`, proved for `EscModes = {"raw"}`: it is
false with the SERIAL_CONTROL transport (`EscExcludesSync` in section 5).

**CalibrationSession_proofs.** `Good` says when a session is in order: typed, watched by the
timers its phase and flow need, with the evidence its verdict claims, and published or
about to be. Each handler is a function, so each has one lemma: from a good session
that runs it makes a good one (`...Good`) and keeps flow, owner and a pending
cancellation (`Keeps`). Two facts carry them. `FlowFits` says what a phase
promises (awaiting acceptance means every compass has reported; an approved acceptance
is what arms `settle`), and `Watched` that no timer is cleared without its successor. The
inductive `IInv` joins `Good(s)` with the agreement of manager and bridge, and with
`Grace`: a session that may still be reclaimed has its grace running. `Steps` sorts every step
into four shapes (a session settles, changes hands, ends, begins), from which the
theorems follow, `LedgerImplemented` among them.

**BridgeLink_proofs.** The four safety properties have an invariant each, because the
frames on their way are what connects a request with its outcome, and each property looks at
others. `ParamInv` (`WritesConfirmed`, `OutcomesAreTrue`) lays out the values of one parameter in
the order in which the vehicle has them: what is on its way down, what it is, what is on its way up. A
written value that once shows in this line stays to its end until another is written; an
echo that confirms is in the line, so the vehicle has the value. `CommandInv`
(`AnswersCredited`) traces every order and every answer, wherever it is, to a request that waits,
to a raised fence, or to a request that ended with the fence left open. `MotorInv`
(`MotorsAreHeld`) says that between two orders of one motor there is a withdrawal, that nothing stands
behind a start in the queue, and that an armed vehicle has every start covered by a withdrawal that precedes it.

**Screens_proofs.** One invariant for each of five scenes. For the battery and the sensor feed it says what age
and source of each slot imply for those of the others; the comparison of ages is then
arithmetic. On a vehicle that has battery 0 at most (`fitted`), the reading shown is never
older than the one stamp of the store. For `LogPanel` and `ShellSession` it says that lists and changes of the
vehicle are heard in the order they happened: the page's knowledge is a state the Worker was in, and
what is in between is what is still in the queue. `FileBrowser` is of the same kind: `InStep` says that a listing or a file
is heard while the page sees the vehicle it came from, `NotAhead` that a tick was given for a vehicle and epoch there
were, so that the one that passes the Worker's check was given for the vehicle there is.

**Runtime_proofs.** Four scenes of `MCRuntime`. *TargetDiscovery*: the conflict check sees only the table of discovered
targets, which is bounded and purged by age. `Mirrors` says that while the table has room for every autopilot it is what
the air is: an entry for each that was heard and is not stale, with the beats it sent. The verdict is recomputed in
every handler that changes the table, so what was judged last holds now, and an automatic choice was made of the only steady
autopilot. *FrameTrust*: `Recent` says that a bounded table is the youngest part of the history it stands for.
Renewing a key in both keeps that (lemma `Renewed`, over any sequence), whether the key is in the table, was
evicted, or is new. With each key once in the history, a stamp that passes the check against the
table is newer than the one last believed of that key (`TrustIsKept`).
*FrameCodec*: `drain` is a loop that shortens a buffer, so it is a sequence of turns with a last one (`Drained`), and
the invariant is kept turn by turn. `Skipped` says why a turn may leave bytes: none of them is a magic, or what they claim
covers it. `KeptWith` says of every frame that has begun to arrive, not only of whole ones, that it is taken, buffered or
covered; `CleanWith` that without disturbance the buffer begins where a frame does. The CRC is any function of the
bytes it covers: all the proof needs is that the same bytes give the same one (`Alike`).
*PageRuntime*: `QueueInv` is an invariant of what the Worker has told and the page has not heard, whatever its length.
`SyncsInOrder` orders the generations in it, `InLink` says that values and completions stand behind the
snapshot of the link they are of, `LinksInTurn` that links follow each other with a closing between, and `AllCome` that of a
generation that completes every parameter is in the queue, in the batch of the page or in its list. The Worker's steps append one
telling or two after each other, each of which fits the state it is told from; hearing takes the head off, and what was true of the whole
queue is then true of its rest and of what the page made of the head. With an empty queue nothing but `PageConsistent`
is left. `UserIsUndisturbed` adds that a page which follows a generation its user asked for has no automatic request, and
no snapshot on its way that would make one.

**Transfers_proofs.** `WholeInv` joins an invariant of each transfer with what the gates keep apart.
`FtpInv` types every step of a listing, a deletion and a download; its core is `GetOk` (the tracker of
missing ranges is exactly what no chunk was written to) with `BodyOk` (a chunk in the air has an offset of
the file), from which a file that passed its CRC is whole (`KeptAreWhole`). For a deletion it follows the
depth-first list `todo`: depths decrease towards its end, so the work list cannot outgrow its limits.
`LogInv` rests on `Edge`: every gap begins and ends at a multiple of the chunk size or behind the true end of the
log, so a short chunk below the requested end really marks the end (`TruncateTo`). For the list it says that all entries of one
window tell the same number of logs, which makes `IsComplete` true (`LogReportsTrue`). `FtpMove` and `LogMove`
say of every step whom it writes to: with `FtpHome` and `LogHome` (an operation that may still write has its own
vehicle selected) they give `RequestsGoHome`. The sequence numbers play no part in these five theorems.
`SoundInv` adds what they are for, and makes `RequestsSound` and `OutcomesTrue` theorems as a whole. `Window` says that the next
number, every frame in the air and the rest of a burst have their places in a stretch of the cycle, seen from one
number in it, which is less than half as long as the cycle: there places are ordered as the numbers were taken, different
numbers stay different, and only frames of a burst are ahead of the next request. So a frame with the awaited
number is an answer to the request that waits, and so is the answer the server remembers (`LastInv`, `AskTrue`), which it
therefore repeats instead of executing again. An answer that is taken tells the truth (`Truth`: the records of
the page asked for, the end of the directory, a path that is gone). `ScanTrue` follows a listing page by
page: what it has collected are the usable ones of the records up to its offset. `DelTrue` says of a deletion that
whatever was selected is gone, on the work list, or yet to be visited.

Nothing is assumed beyond the `ASSUME`s. The proofs need no bound on queues, attempts, generations
or time: the constants that bound TLC's instances are arbitrary there.

**Only model-checked.** Liveness (`SessionsResolve`, `LossSettlesInTime`, `RadioWriteEnds`, `SyncEnds`,
`SessionEnds`, `TransfersEnd`, `RequestsEnd`, `AutomaticEnds`) is out of the prover's reach. Every other property
of a passing run is stated by a theorem. That one FTP or log operation ends as it should is proved; that it ends at all is not.

## 5. Where the code and its documents disagree

Two are runs whose property states what the quoted line says and which TLC
violates; the other two are findings without a run. `PROJECT.json` has the quotes of all.

| Run or definition | What happens |
|---|---|
| run `esc_owner_refused` | in passthrough the readiness gate refuses every command of the session's own owner, even its exit |
| run `arm_after_disarm` | an arm order that waits in the write queue leaves after the emergency disarm that was reported to supersede it |
| `SerialLink!DisconnectIsFinal` | a reconnect that sleeps through an explicit disconnect opens the port again |
| `RuntimeGate!RadioWritesOwned` | parameters of a radio calibration are written after it was reported as terminated |

The modules state more of what documents, comments or the shape of the code promise and TLC
violates. Naming one as the only PROPERTY (or INVARIANT) of a copy of the module's
configuration shows the behaviour.

| Definition | Module | What happens |
|---|---|---|
| `InterfaceExitFirst` | `EscSession` | a shutdown while a 4-way request is in flight returns the link without InterfaceExit |
| `BatchStopsAtTimeout` | `EscSession` | a settings batch continues with the next ESC after one timed out |
| `AbortOnlyItsOwnLink` | `SerialLink` | an abort for a refused write closes the link opened since |
| `ReconnectAttempted` | `SerialLink` | a heartbeat refused while a lost Bluetooth link is closing cancels its reconnect |
| `LateRunDropped` | `RuntimeGate` | the end of an abandoned download ends the generation of a later calibration |
| `EscExcludesSync` | `RuntimeGate` | an ESC session over SERIAL_CONTROL starts during a parameter synchronisation |
| `EscExcludesTransfer` | `RuntimeGate` | a raw ESC session starts during an FTP or log transfer and cancels it |
| `ConflictFailsClosed` | `RuntimeGate` | a radio calibration starts and writes during a conflict of two stable autopilots |
| `ConflictInvalidatesConfirmations` | `RuntimeGate` | a confirmation given before a conflict of two autopilots counts after it |
| `RefreshRequested` | `RuntimeGate` | the refresh after a sensor calibration opens a generation but requests nothing |
| `CancelDecides` | `CalibrationSession` | a cancelled compass calibration ends as accepted, because an acceptance survives or follows the cancellation |
| `QuietWhilePaused` | `Transfers` | a frame of a transfer leaves while the link is lent to an ESC session |
| `NeverMislabelled` | `CommandLink` | an answer is credited to a newer request of the same command: after a new selection of the target, or a retry the Worker refused, no fence is up |
| `WrittenDisarmed` | `ParamLink` | retransmissions of a PARAM_SET go on after the vehicle was armed |
| `AbandonedForCause` | `ParamLink` | an airframe transaction is abandoned as unsafe although its context was safe |
| `ListBatchesStamped`, `CompleteIsWhole`, `PreservedOrDownloaded` | `PageRuntime` | a batch tells no generation; a list is shown complete though nothing was downloaded in its generation; a page at rest on a ready vehicle shows a list that is loading |
| `SettingsOwnAlways`, `ProbedOwn` | `EscSettings` | two answers that are late together shift every answer by one request, so the identity or settings of one ESC are shown for another, or stored in it |
| `SelectedIsKnown` | `TargetDiscovery` | the entry of the selected target is purged in the handler that selects it |
| `ShellReturned` | `ShellSession` | leaving the terminal while the vehicle is silent (or a session owns the link) leaves the shell open: the coordinator refuses the close (`LocalRuntimeCoordinator.ts:258-281`) and nothing asks again, so the bridge refuses every other command with `shell_active`; a terminal shown again is told `shell_busy`, and leaving it while the vehicle is ready closes the shell, as the end of the target or a disconnect does |
| `ShownWhenOpen` | `ShellSession` | the bridge holds an open shell while the page shows none |
| `DeletesWhatIsListed` | `FileBrowser` | a deletion can be committed to while the rows are those of another directory than the path shown |
| `DownloadsSurvive` | `FileBrowser` | a finished download is handed to nobody because the page was left meanwhile |
| `BatteryAuthoritative` | `BatteryFeed` | with several batteries one stamp renews them all, and a fallback stored as number 0 stays the primary one |

Smaller divergences met while modelling, with no definition of their own: the motor stop that
`conflictAllowsMessage` lets through (`MavlinkBridge.ts:672`) is refused by `requireNoTargetConflict` (2734,
2783); an emergency disarm is refused while a shell is open (2578) though the comment at 2584 says it must
stay available; selecting the target again clears all fences; a PARAM_SET of the raw parameter page is
not blocked during an airframe transaction; its reboot lowers `selectedHeartbeatReady` without
`expectVehicleReboot` (3526); the codec drops a complete frame of an unknown message with whatever it
contains, and a frame of a known message that an unfinished claim of an unknown one covers, as soon as a frame inside
its payload is complete (`Covers`); `reset()` forgets `lastSigningTimestampMs`; the magnetometer and IMU fields freeze when only
the second instance is live; a VFR_HUD with one field that is no number is dropped whole; a conflict of targets is
cleared by a heartbeat only.

## 6. Not modelled, and the plan

- **Autotune**: nothing in the runtime constructs its manager, and `MavlinkBridge.ts:2650` refuses its messages.
- **Rendering, plotting, log analysis, translations, styles**: no protocol state.
- **Message tables, profiles, the log schema**: generated or constant data.
- **Command validation** (`validation.ts`) and the platform helpers: stateless.
- **Artifacts (OPFS)**: file-system calls; `FileBrowser` has what the page sees of them.
- **Of the bridge**: manual control, message streams and their intervals, status texts in chunks, parameter
  files, the emergency disarm during a calibration. **Of the ESC stack**: direct mode, MSP framing.

Next is more of the code: the stream set-up and status texts of the bridge, manual control, parameter files,
and command validation.
