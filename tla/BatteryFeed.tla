------------------------------ MODULE BatteryFeed ------------------------------
(***************************************************************************)
(* The battery the page shows.  BATTERY_STATUS tells of each battery by    *)
(* number, SYS_STATUS of an unnamed one and only as a fallback; the bridge *)
(* makes absent what the wire marks as unknown, the page keeps each        *)
(* battery, the one it shows and when that was last renewed, and greys it  *)
(* when nothing renewed it for BatteryStale ticks or the link is down.     *)
(***************************************************************************)
EXTENDS Naturals, FiniteSetsExt

CONSTANTS Packs,        \* battery ids of BATTERY_STATUS, of any vehicle
          BatteryStale, \* STALE_THRESHOLDS.battery, in ticks
          MaxFeedResets \* bound: link drops and new vehicles

ASSUME BatteryAssumption == Packs \subseteq Nat /\ BatteryStale \in Nat \ {0} /\ MaxFeedResets \in Nat

VARIABLES
    packs,      \* batteries and batteryLastUpdate: per id [known, volts, of, vehicle, age]
    packShown,  \* battery: "none" or [id, volts, of, vehicle, age]; age of the reading itself
    packSource, \* batterySource
    packStamp,  \* lastUpdate.battery: its age, BatteryStale + 1 for 0
    sysStamp,   \* lastUpdate.sysStatus
    craftNow,   \* vehicle: which one answers
    fitted,     \* vehicle: the batteries it reports by number, none on some
    feedReady,  \* page: vehicleReady
    statusAge,  \* history: per id, ticks since its last BATTERY_STATUS on this link
    feedResets

batteryVars == <<packs, packShown, packSource, packStamp, sysStamp, craftNow, fitted,
                 feedReady, statusAge, feedResets>>

Ids == Packs \cup {0}
Expired == BatteryStale + 1
NoPack == [known |-> FALSE, volts |-> "none", of |-> "none", vehicle |-> 0, age |-> Expired]
NoneShown == [id |-> 0, pack |-> NoPack]

BatteryInit ==
    /\ packs = [i \in Ids |-> NoPack] /\ packShown = NoneShown /\ packSource = "none"
    /\ packStamp = Expired /\ sysStamp = Expired /\ craftNow = 1 /\ fitted \in SUBSET Packs
    /\ feedReady = TRUE /\ statusAge = [i \in Ids |-> Expired] /\ feedResets = 0

(* 0xffff and 0 both mean that there is no valid source; so for each cell.   *)
VoltageOf(raw) == IF raw \in {"unknown", "zero"} THEN "none" ELSE "volts"
-----------------------------------------------------------------------------
Reading(raw, message) == [known |-> TRUE, volts |-> VoltageOf(raw), of |-> message,
                          vehicle |-> craftNow, age |-> 0]
Primary(known) == IF 0 \in known THEN 0 ELSE Min(known)

(* setBattery: the one shown is number 0 or the lowest known, whichever      *)
(* number this reading has.                                                  *)
BatteryStatus(i, raw) ==
    LET now == [packs EXCEPT ![i] = Reading(raw, "BATTERY_STATUS")]
        first == Primary({k \in Ids : now[k].known})
    IN  /\ packs' = now /\ packShown' = [id |-> first, pack |-> now[first]]
        /\ packSource' = "battery_status" /\ packStamp' = 0 /\ statusAge' = [statusAge EXCEPT ![i] = 0]
        /\ UNCHANGED <<sysStamp, craftNow, fitted, feedReady, feedResets>>

(* Wrong on purpose: any valid voltage of SYS_STATUS is taken.               *)
StatusFreshNever == FALSE

StatusFresh == packSource = "battery_status" /\ packStamp <= BatteryStale

(* Wrong on purpose: SYS_STATUS renews the battery it does not replace.      *)
SysStatusRenews(raw) ==
    LET fallback == ~StatusFresh /\ VoltageOf(raw) = "volts"
        sample == Reading(raw, "SYS_STATUS")
    IN  /\ packShown' = CASE StatusFresh -> packShown
                          [] fallback -> [id |-> 0, pack |-> sample]
                          [] OTHER -> NoneShown
        /\ packs' = IF fallback THEN [packs EXCEPT ![0] = sample] ELSE packs
        /\ packSource' = IF fallback THEN "sys_status" ELSE packSource
        /\ packStamp' = 0 /\ sysStamp' = 0
        /\ UNCHANGED <<craftNow, fitted, feedReady, statusAge, feedResets>>

(* setSysStatus: a fallback while BATTERY_STATUS is not fresh; without a     *)
(* valid voltage nothing is shown then.                                      *)
SysStatus(raw) ==
    LET fallback == ~StatusFresh /\ VoltageOf(raw) = "volts"
        sample == Reading(raw, "SYS_STATUS")
    IN  /\ packShown' = CASE StatusFresh -> packShown
                          [] fallback -> [id |-> 0, pack |-> sample]
                          [] OTHER -> NoneShown
        /\ packs' = IF fallback THEN [packs EXCEPT ![0] = sample] ELSE packs
        /\ packSource' = IF fallback THEN "sys_status" ELSE packSource
        /\ packStamp' = IF fallback THEN 0 ELSE packStamp
        /\ sysStamp' = 0
        /\ UNCHANGED <<craftNow, fitted, feedReady, statusAge, feedResets>>

Aged1(n) == IF n < Expired THEN n + 1 ELSE n
PassBattery ==
    /\ packs' = [i \in Ids |-> [packs[i] EXCEPT !.age = Aged1(@)]]
    /\ packShown' = [packShown EXCEPT !.pack.age = Aged1(@)]
    /\ packStamp' = Aged1(packStamp) /\ sysStamp' = Aged1(sysStamp)
    /\ statusAge' = [i \in Ids |-> Aged1(statusAge[i])]
    /\ UNCHANGED <<packSource, craftNow, fitted, feedReady, feedResets>>

(* markAllStale when the vehicle stops answering; what is shown stays.       *)
VehicleGone ==
    /\ feedReady /\ feedResets < MaxFeedResets /\ feedReady' = FALSE /\ feedResets' = feedResets + 1
    /\ packStamp' = Expired /\ sysStamp' = Expired /\ statusAge' = [i \in Ids |-> Expired]
    /\ UNCHANGED <<packs, packShown, packSource, craftNow, fitted>>
VehicleBack == ~feedReady /\ feedReady' = TRUE
               /\ UNCHANGED <<packs, packShown, packSource, packStamp, sysStamp, craftNow, fitted,
                              statusAge, feedResets>>

(* Wrong on purpose: only the identity of the vehicle is forgotten.          *)
ClearIdentityOnly == UNCHANGED <<packs, packShown, packSource>>

(* setVehicleIdentity(null).                                                 *)
ClearIdentity == packs' = [i \in Ids |-> NoPack] /\ packShown' = NoneShown /\ packSource' = "none"

(* The link itself is lost.                                                  *)
LinkGone ==
    /\ feedReady /\ feedResets < MaxFeedResets /\ feedReady' = FALSE /\ feedResets' = feedResets + 1
    /\ packStamp' = Expired /\ sysStamp' = Expired /\ statusAge' = [i \in Ids |-> Expired]
    /\ ClearIdentity /\ UNCHANGED <<craftNow, fitted>>

(* Another vehicle is selected: its target event has no identity yet.        *)
OtherVehicle ==
    /\ feedResets < MaxFeedResets /\ feedResets' = feedResets + 1 /\ craftNow' = craftNow + 1
    /\ fitted' \in SUBSET Packs /\ ClearIdentity /\ statusAge' = [i \in Ids |-> Expired]
    /\ UNCHANGED <<packStamp, sysStamp, feedReady>>

BatteryNext ==
    \/ \E raw \in {"unknown", "zero", "valid"} :
           SysStatus(raw) \/ \E i \in fitted : BatteryStatus(i, raw)
    \/ PassBattery \/ VehicleGone \/ LinkGone \/ VehicleBack \/ OtherVehicle

BatterySpec == BatteryInit /\ [][BatteryNext]_batteryVars
-----------------------------------------------------------------------------
(* What the charts take for live (isStale("battery")).                      *)
Vivid == feedReady /\ packShown.pack.known /\ packStamp <= BatteryStale

(* The battery shown is one of the selected vehicle; as long as its own      *)
(* BATTERY_STATUS is heard it is what that message told last, never the      *)
(* fallback; and a vehicle that reports battery 0 at most is never shown an  *)
(* old reading as live (setBattery, setSysStatus, setVehicleIdentity).       *)
BatteryTrue ==
    /\ packShown.pack.known => packShown.pack.vehicle = craftNow
    /\ statusAge[packShown.id] <= BatteryStale =>
         packShown.pack.of = "BATTERY_STATUS" /\ packShown.pack.age = statusAge[packShown.id]
    /\ (fitted \subseteq {0} /\ Vivid) => packShown.pack.age <= BatteryStale

(* The same with several batteries.  NOT true: one stamp renews them all, and*)
(* a fallback once stored as number 0 stays the primary battery.             *)
BatteryAuthoritative == (Vivid /\ \E i \in fitted : statusAge[i] <= BatteryStale) =>
    packShown.pack.age <= BatteryStale /\ packShown.pack.of = "BATTERY_STATUS"
=============================================================================
