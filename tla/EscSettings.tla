------------------------------ MODULE EscSettings ------------------------------
(***************************************************************************)
(* Scanning, reading and writing the settings of several ESCs through the  *)
(* 4-way interface of the flight controller: FourWayClient, detectEscs,    *)
(* Am32SettingsService and the loops of EscService over their targets.     *)
(*                                                                         *)
(* The interface answers its requests in the order they were sent.  A      *)
(* reply names the command and the address of its request, and nothing     *)
(* else: not the channel, which only DeviceInitFlash selects, and not the  *)
(* attempt.  A request that has timed out may still be answered.           *)
(***************************************************************************)
EXTENDS Integers, Sequences, FiniteSets

CONSTANTS
    EscCount,     \* channels, addressed 0..EscCount - 1
    Mcus,         \* MCU signature of each ESC
    Supported,    \* AM32_MCU_PROFILES and AM32_SUPPORTED_LAYOUTS
    Layouts,      \* layout revision in the EEPROM of each ESC
    InitAttempts, \* ESC_INIT_MAX_ATTEMPTS
    MaxTimeouts,  \* bound: requests that time out
    MaxOrders,    \* bound: jobs after the scan
    MaxSwaps      \* bound: ESCs exchanged between two jobs

Escs == 0..EscCount - 1

ASSUME SettingsAssumption ==
    /\ EscCount \in Nat \ {0} /\ DOMAIN Mcus = Escs /\ DOMAIN Layouts = Escs
    /\ InitAttempts \in Nat \ {0} /\ MaxTimeouts \in Nat /\ MaxOrders \in Nat /\ MaxSwaps \in Nat

VARIABLES
    chip,      \* the ESC at each channel: [mcu, eeprom]
    selected,  \* interface: the channel initialised last
    asks,      \* requests the interface has not served
    replies,   \* replies on their way
    waiting,   \* transport: the request in flight
    escJob,    \* EscService: the job
    devices,   \* EscService.devices
    raws,      \* EscService.rawSettings
    crossed,   \* history: a request timed out before an earlier reply was in
    timeouts, jobs, swaps

settingsVars == <<chip, selected, asks, replies, waiting, escJob, devices, raws,
                  crossed, timeouts, jobs, swaps>>

(* An EEPROM: its layout revision, the byte a patch names, all other bytes.  *)
Eeprom(layout, patched, rest) == [layout |-> layout, patched |-> patched, rest |-> rest]

NoRequest == [cmd |-> "none"]
NoEscJob == [op |-> "none"]
NoDevice == [mcu |-> 0, layout |-> 0, writable |-> FALSE]
NoRaw == [from |-> -1]

SettingsInit ==
    /\ chip = [e \in Escs |-> [mcu |-> Mcus[e], eeprom |-> Eeprom(Layouts[e], FALSE, e)]]
    /\ selected = -1 /\ asks = <<>> /\ replies = <<>> /\ waiting = NoRequest
    /\ escJob = NoEscJob
    /\ devices = [e \in Escs |-> NoDevice] /\ raws = [e \in Escs |-> NoRaw]
    /\ crossed = FALSE /\ timeouts = 0 /\ jobs = 0 /\ swaps = 0
-----------------------------------------------------------------------------
(* FourWayClient.  "to" is the channel the client means, which only an init  *)
(* puts on the wire; a write carries an EEPROM.                              *)
Init4(e) == [cmd |-> "init", addr |-> "none", to |-> e]
Read(addr, e) == [cmd |-> "read", addr |-> addr, to |-> e]
Write(data, e) == [cmd |-> "write", addr |-> "eeprom", to |-> e, data |-> data]

Send(r) == waiting' = r /\ asks' = Append(asks, r)
AsksNothing == waiting' = NoRequest /\ UNCHANGED asks

TargetEsc == escJob.esc

(* A scan goes through the channels in turn, a command through its targets   *)
(* in the order they were ticked.                                            *)
FirstOf(op, targets) ==
    IF op \in {"scan", "load"} THEN {e \in targets : \A d \in targets : e <= d} ELSE targets

(* The next target, or the end of the job.  A scan goes on to read what it   *)
(* has found to be an AM32.                                                  *)
Am32Found(found) == {e \in Escs : found[e].mcu \in Supported.mcus}
NextEsc(found) ==
    LET more == IF escJob.op = "scan" THEN Am32Found(found) ELSE {} IN
    \/ \E e \in FirstOf(escJob.op, escJob.todo) :
          /\ escJob' = [escJob EXCEPT !.esc = e, !.todo = escJob.todo \ {e}, !.step = "init", !.tries = 1]
          /\ Send(Init4(e))
    \/ /\ escJob.todo = {}
       /\ \E e \in FirstOf("load", more) :
             /\ escJob' = [escJob EXCEPT !.op = "load", !.esc = e, !.todo = more \ {e}, !.step = "init"]
             /\ Send(Init4(e))
    \/ escJob.todo = {} /\ more = {} /\ escJob' = NoEscJob /\ AsksNothing

Starts(op, targets) == \E e \in FirstOf(op, targets) :
    /\ escJob' = [op |-> op, esc |-> e, todo |-> targets \ {e}, step |-> "init", tries |-> 1, mcu |-> 0,
                  encoded |-> Eeprom(0, FALSE, -1)]
    /\ Send(Init4(e))

(* The scan of handleStart, and the commands of the owner.                   *)
StartScan ==
    /\ escJob = NoEscJob /\ jobs = 0 /\ jobs' = 1
    /\ Starts("scan", Escs)
    /\ UNCHANGED <<chip, selected, replies, devices, raws, crossed, timeouts, swaps>>
StartJob ==
    /\ escJob = NoEscJob /\ jobs \in 1..MaxOrders /\ jobs' = jobs + 1
    /\ \E op \in {"read", "write"}, targets \in SUBSET Escs : Starts(op, targets)
    /\ crossed' = (crossed /\ Len(asks) + Len(replies) > 0)
    /\ UNCHANGED <<chip, selected, replies, devices, raws, timeouts, swaps>>

(* Two ESCs change places while nothing runs.                                *)
Swap ==
    /\ escJob = NoEscJob /\ asks = <<>> /\ swaps < MaxSwaps /\ swaps' = swaps + 1
    /\ \E d, e \in Escs : d < e /\ chip' = [chip EXCEPT ![d] = chip[e], ![e] = chip[d]]
    /\ UNCHANGED <<selected, asks, replies, waiting, escJob, devices, raws, crossed, timeouts, jobs>>
-----------------------------------------------------------------------------
(* The interface serves a request.  An ESC may not answer, which is a        *)
(* negative acknowledgement.                                                 *)
Replied(r, ok, body) == [cmd |-> r.cmd, addr |-> r.addr, ok |-> ok, body |-> body]

Serve ==
    /\ asks # <<>> /\ asks' = Tail(asks)
    /\ LET r == Head(asks) IN
       /\ selected' = IF r.cmd = "init" THEN r.to ELSE selected
       /\ chip' = IF r.cmd = "write" THEN [chip EXCEPT ![selected].eeprom = r.data] ELSE chip
       /\ replies' = Append(replies,
            IF r.cmd = "init" THEN Replied(r, TRUE, chip[r.to].mcu)
            ELSE IF r.cmd = "read" THEN Replied(r, TRUE, [of |-> selected, eeprom |-> chip[selected].eeprom])
            ELSE Replied(r, TRUE, 0))
    /\ UNCHANGED <<waiting, escJob, devices, raws, crossed, timeouts, jobs, swaps>>

ServeNot ==
    /\ asks # <<>> /\ asks' = Tail(asks)
    /\ LET r == Head(asks) IN
       /\ r.cmd = "init" /\ selected' = r.to
       /\ replies' = Append(replies, Replied(r, FALSE, 0))
    /\ UNCHANGED <<chip, waiting, escJob, devices, raws, crossed, timeouts, jobs, swaps>>
-----------------------------------------------------------------------------
(* A target fails; the probe of a scan is retried if the error allows it.    *)
Failed(retryable) ==
    IF escJob.op = "scan" /\ retryable /\ escJob.tries < InitAttempts
    THEN /\ escJob' = [escJob EXCEPT !.step = "delay", !.tries = escJob.tries + 1]
         /\ AsksNothing /\ UNCHANGED <<devices, raws>>
    ELSE LET forgotten == IF escJob.op = "scan" THEN [devices EXCEPT ![TargetEsc] = NoDevice] ELSE devices
         IN devices' = forgotten /\ NextEsc(forgotten) /\ UNCHANGED raws

(* ESC_INIT_RETRY_DELAY_MS is over.                                          *)
RetryInit ==
    /\ escJob.op = "scan" /\ escJob.step = "delay"
    /\ escJob' = [escJob EXCEPT !.step = "init"] /\ Send(Init4(TargetEsc))
    /\ UNCHANGED <<chip, selected, replies, devices, raws, crossed, timeouts, jobs, swaps>>

(* transact: the deadline passes.                                            *)
TimesOut ==
    /\ waiting # NoRequest /\ timeouts < MaxTimeouts /\ timeouts' = timeouts + 1
    /\ crossed' = (crossed \/ Len(asks) + Len(replies) > 1)
    /\ Failed(TRUE)
    /\ UNCHANGED <<chip, selected, replies, jobs, swaps>>

(* The identity of a probed channel.                                         *)
Probed(mcu) ==
    LET found == [devices EXCEPT ![TargetEsc] = [mcu |-> mcu, layout |-> 0, writable |-> FALSE]]
    IN devices' = found /\ NextEsc(found) /\ UNCHANGED raws

Goes(step, r) ==
    escJob' = [escJob EXCEPT !.step = step] /\ Send(r) /\ UNCHANGED <<devices, raws>>

(* Am32SettingsService.read and write keep what they have read.              *)
Keeps(mcu, got) ==
    LET known == got.eeprom.layout \in Supported.layouts
        found == [devices EXCEPT ![TargetEsc] =
                    [mcu |-> mcu, layout |-> got.eeprom.layout, writable |-> known]]
    IN /\ devices' = found
       /\ raws' = [raws EXCEPT ![TargetEsc] = [from |-> got.of]]
       /\ NextEsc(found)

(* A write needs the settings of its target, and finds the same MCU.         *)
MayProgram(mcu) == devices[TargetEsc].writable /\ raws[TargetEsc] # NoRaw /\ mcu = devices[TargetEsc].mcu

(* Wrong on purpose: the bytes come from where the settings were read.       *)
EncodedStale(fresh) == [fresh EXCEPT !.patched = TRUE, !.rest = raws[TargetEsc].from]

(* encodeAm32Eeprom: the patch on the bytes that are there now.              *)
Encoded(fresh) == [fresh EXCEPT !.patched = TRUE]

OnInit(mcu) ==
    IF escJob.op = "scan" THEN Probed(mcu)
    ELSE IF escJob.op \in {"read", "load"}
    THEN IF mcu \notin Supported.mcus THEN Failed(FALSE)
         ELSE /\ escJob' = [escJob EXCEPT !.step = "name", !.mcu = mcu]
              /\ Send(Read("name", TargetEsc)) /\ UNCHANGED <<devices, raws>>
    ELSE IF ~MayProgram(mcu) THEN Failed(FALSE)
    ELSE Goes("fresh", Read("eeprom", TargetEsc))

OnFresh(fresh) ==
    IF fresh.layout \notin Supported.layouts \/ fresh.layout # devices[TargetEsc].layout
    THEN Failed(FALSE)
    ELSE /\ escJob' = [escJob EXCEPT !.step = "store", !.encoded = Encoded(fresh)]
         /\ Send(Write(Encoded(fresh), TargetEsc)) /\ UNCHANGED <<devices, raws>>

Continues(body) ==
    \/ escJob.step = "init" /\ OnInit(body)
    \/ escJob.step = "name" /\ Goes("eeprom", Read("eeprom", TargetEsc))
    \/ escJob.step = "eeprom" /\ Keeps(escJob.mcu, body)
    \/ escJob.step = "fresh" /\ OnFresh(body.eeprom)
    \/ escJob.step = "store" /\ Goes("verify", Read("eeprom", TargetEsc))
    \/ /\ escJob.step = "verify"
       /\ IF body.eeprom = escJob.encoded THEN Keeps(devices[TargetEsc].mcu, body) ELSE Failed(FALSE)

(* FourWayClient.command: all it can compare.                                *)
Answers(r) == r.cmd = waiting.cmd /\ r.addr = waiting.addr

(* A reply arrives; without a request in flight it is dropped.               *)
Arrives ==
    /\ replies # <<>> /\ replies' = Tail(replies)
    /\ LET r == Head(replies) IN
       IF waiting = NoRequest THEN UNCHANGED <<waiting, asks, escJob, devices, raws>>
       ELSE IF ~Answers(r) THEN Failed(FALSE)
       ELSE IF ~r.ok THEN Failed(TRUE)
       ELSE Continues(r.body)
    /\ UNCHANGED <<chip, selected, crossed, timeouts, jobs, swaps>>

SettingsNext ==
    \/ StartScan \/ StartJob \/ Swap \/ Serve \/ ServeNot \/ RetryInit \/ TimesOut \/ Arrives
SettingsSpec == SettingsInit /\ [][SettingsNext]_settingsVars
-----------------------------------------------------------------------------
OwnStep ==
    /\ \A e \in Escs : raws[e]' # raws[e] => raws'[e].from = e
    /\ \A e \in Escs : chip'[e].eeprom # chip[e].eeprom /\ swaps' = swaps =>
         /\ Head(asks).to = e
         /\ chip'[e].eeprom = [chip[e].eeprom EXCEPT !.patched = TRUE]

(* Settings shown for a channel were read there, and a store reaches the ESC *)
(* that was meant and changes nothing but what was patched; in every job in  *)
(* which no request timed out before an earlier one was answered.            *)
SettingsOwn == [][~crossed => OwnStep]_settingsVars

(* In every job.  NOT true: with two late answers at a time the bytes of one *)
(* ESC are stored in another.                                                *)
SettingsOwnAlways == [][OwnStep]_settingsVars

(* Every channel shows its own ESC.                                          *)
ProbedOwn ==
    \A e \in Escs : devices[e].mcu # 0 /\ swaps = 0 => devices[e].mcu = Mcus[e]
=============================================================================
