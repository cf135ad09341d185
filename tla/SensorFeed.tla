------------------------------- MODULE SensorFeed -------------------------------
(***************************************************************************)
(* Several MAVLink streams tell of one IMU and one barometer.  The bridge  *)
(* turns each frame into a sample, with what a frame marks as unknown made *)
(* absent; the page's sensorStore lets one stream win the motion fields    *)
(* and one the temperature, until the winner is silent for StaleAfter      *)
(* ticks, and classifies the magnetic field, debounced by Debounce ticks.  *)
(***************************************************************************)
EXTENDS Naturals, FiniteSets

CONSTANTS ImuInstances, \* IMUs; 0 is the primary one
          StaleAfter,  \* IMU_SOURCE_STALE_MS and BARO_SOURCE_STALE_MS, in ticks
          Debounce,    \* MAG_STATE_DEBOUNCE_MS, in ticks
          MaxOffline     \* bound: link offline

ASSUME SensorAssumption == StaleAfter \in Nat \ {0} /\ Debounce \in Nat /\ MaxOffline \in Nat

ImuStreams == {"HIGHRES", "SCALED", "RAW"}

VARIABLES
    imuWinner,   \* imuSources: per instance [source, age]
    tempWinner,  \* imuTempSources: per instance [source, age]
    imuShown,    \* imus: per instance, the streams its motion and temperature are from
    magKnown,    \* magData # null
    magUnit,     \* magSource: "none", "mgauss", "raw"
    detector,    \* createMagInterferenceDetector: [stable, pending, since]
    magState,    \* magInterference: "none", "good", "high"
    baroSlot,    \* baroSource: [source, age]
    baroTemp,    \* the stream the barometer's temperature is from
    heardImu,    \* history: per instance and stream, age of its last frame and of its last temperature
    offline

sensorVars == <<imuWinner, tempWinner, imuShown, magKnown, magUnit, detector, magState, baroSlot,
                baroTemp, heardImu, offline>>

Nobody == [source |-> "none", age |-> StaleAfter]
NoDetector == [stable |-> "none", pending |-> "none", since |-> 0]
Never == [frame |-> StaleAfter, temp |-> StaleAfter]

SensorInit ==
    /\ imuWinner = [i \in ImuInstances |-> Nobody] /\ tempWinner = [i \in ImuInstances |-> Nobody]
    /\ imuShown = [i \in ImuInstances |-> [motion |-> "none", temp |-> "none"]]
    /\ magKnown = FALSE /\ magUnit = "none" /\ detector = NoDetector /\ magState = "none"
    /\ baroSlot = Nobody /\ baroTemp = "none"
    /\ heardImu = [i \in ImuInstances |-> [s \in ImuStreams |-> Never]] /\ offline = 0
-----------------------------------------------------------------------------
(* The bridge: HIGHRES_IMU tells whether its temperature was updated, the    *)
(* others write 0 for none; only SCALED_PRESSURE has a trusted temperature   *)
(* of the barometer.                                                         *)
HasTemp(flag) == flag
UnitOf(s) == IF s = "RAW" THEN "raw" ELSE "mgauss"

Motion == [HIGHRES |-> 2, SCALED |-> 1, RAW |-> 0]
Warmth == [SCALED |-> 2, RAW |-> 1, HIGHRES |-> 0]

Fresh(w) == w.source # "none" /\ w.age < StaleAfter

(* Wrong on purpose: a lower stream wins the temperature as soon as it has   *)
(* one.                                                                      *)
TempAcceptedAlways(i, s, hasTemp) == hasTemp

(* A frame without a temperature never claims the slot.                      *)
TempAccepted(i, s, hasTemp) ==
    hasTemp /\ (~Fresh(tempWinner[i]) \/ Warmth[s] >= Warmth[tempWinner[i].source])

(* Wrong on purpose: the last frame wins.                                    *)
MotionDroppedNever(i, s) == FALSE

MotionDropped(i, s) == Fresh(imuWinner[i]) /\ Motion[imuWinner[i].source] > Motion[s]

(* The debounced class of the field: the first counts at once, a change has  *)
(* to last.  "edge" is inside the band by less than the hysteresis.          *)
Class(d, field) == IF field = "bad" \/ (field = "edge" /\ d.stable = "high") THEN "high" ELSE "good"
Detected(d, field) ==
    LET next == Class(d, field)
    IN  CASE d.stable = "none" -> [d EXCEPT !.stable = next]
          [] d.stable # "none" /\ next = d.stable -> [d EXCEPT !.pending = "none", !.since = 0]
          [] d.stable # "none" /\ next # d.stable /\ d.pending # next ->
               [d EXCEPT !.pending = next, !.since = 0]
          [] OTHER -> IF d.since >= Debounce THEN [stable |-> next, pending |-> "none", since |-> 0]
                      ELSE d

(* Wrong on purpose: what was classified stays when raw counts follow.       *)
WithMagKept(s, field) ==
    LET d == IF magUnit \notin {"none", UnitOf(s)} THEN NoDetector ELSE detector
    IN  /\ magKnown' = TRUE /\ magUnit' = UnitOf(s)
        /\ detector' = IF s = "RAW" THEN d ELSE Detected(d, field)
        /\ magState' = IF s = "RAW" THEN magState ELSE detector'.stable

(* The primary compass, or the first at all: a change of unit empties the    *)
(* detector; raw counts are not classified, and what was is dropped.         *)
WithMag(s, field) ==
    LET d == IF magUnit \notin {"none", UnitOf(s)} THEN NoDetector ELSE detector
    IN  /\ magKnown' = TRUE /\ magUnit' = UnitOf(s)
        /\ detector' = IF s = "RAW" THEN d ELSE Detected(d, field)
        /\ magState' = IF s = "RAW" THEN "none" ELSE detector'.stable

(* setImu: the temperature and the motion fields are won separately.         *)
SetImu(i, s, hasTemp, field) ==
    LET takesTemp == TempAccepted(i, s, HasTemp(hasTemp))
        dropped == MotionDropped(i, s)
    IN  /\ tempWinner' = IF takesTemp THEN [tempWinner EXCEPT ![i] = [source |-> s, age |-> 0]]
                         ELSE tempWinner
        /\ imuWinner' = IF dropped THEN imuWinner
                        ELSE [imuWinner EXCEPT ![i] = [source |-> s, age |-> 0]]
        /\ imuShown' = [imuShown EXCEPT ![i] =
               [motion |-> IF dropped THEN @.motion ELSE s, temp |-> IF takesTemp THEN s ELSE @.temp]]
        /\ IF dropped \/ (i # 0 /\ magKnown) THEN UNCHANGED <<magKnown, magUnit, detector, magState>>
           ELSE WithMag(s, field)
        /\ heardImu' = [heardImu EXCEPT ![i][s] =
               [frame |-> 0, temp |-> IF hasTemp THEN 0 ELSE @.temp]]
        /\ UNCHANGED <<baroSlot, baroTemp, offline>>

(* setBaro: SCALED_PRESSURE wins as long as it is fresh; the last trusted    *)
(* temperature stays when HIGHRES_IMU takes over.                            *)
SetBaro(s) ==
    /\ s = "SCALED" \/ baroSlot.source # "SCALED" \/ ~Fresh(baroSlot)
    /\ baroSlot' = [source |-> s, age |-> 0]
    /\ baroTemp' = IF s = "SCALED" THEN s ELSE baroTemp
    /\ UNCHANGED <<imuWinner, tempWinner, imuShown, magKnown, magUnit, detector, magState, heardImu,
                   offline>>

Aged(n) == IF n < StaleAfter THEN n + 1 ELSE n
Pass ==
    /\ imuWinner' = [i \in ImuInstances |-> [imuWinner[i] EXCEPT !.age = Aged(@)]]
    /\ tempWinner' = [i \in ImuInstances |-> [tempWinner[i] EXCEPT !.age = Aged(@)]]
    /\ detector' = IF detector.pending = "none" \/ detector.since >= Debounce THEN detector
                   ELSE [detector EXCEPT !.since = @ + 1]
    /\ baroSlot' = [baroSlot EXCEPT !.age = Aged(@)]
    /\ heardImu' = [i \in ImuInstances |-> [s \in ImuStreams |->
           [frame |-> Aged(heardImu[i][s].frame), temp |-> Aged(heardImu[i][s].temp)]]]
    /\ UNCHANGED <<imuShown, magKnown, magUnit, magState, baroTemp, offline>>

(* markAllOffline: nobody has won, nothing is classified; values stay shown. *)
MarkAllOffline ==
    /\ offline < MaxOffline /\ offline' = offline + 1
    /\ imuWinner' = [i \in ImuInstances |-> Nobody] /\ tempWinner' = [i \in ImuInstances |-> Nobody]
    /\ baroSlot' = Nobody /\ magUnit' = "none" /\ magState' = "none" /\ detector' = NoDetector
    /\ heardImu' = [i \in ImuInstances |-> [s \in ImuStreams |-> Never]]
    /\ UNCHANGED <<imuShown, magKnown, baroTemp>>

SensorNext ==
    \/ \E i \in ImuInstances, s \in ImuStreams, t \in BOOLEAN, f \in {"good", "edge", "bad"} :
           (i = 0 \/ f = "good") /\ SetImu(i, s, t, f)
    \/ \E s \in {"SCALED", "HIGHRES"} : SetBaro(s)
    \/ Pass \/ MarkAllOffline

SensorSpec == SensorInit /\ [][SensorNext]_sensorVars
-----------------------------------------------------------------------------
Live(i, s) == heardImu[i][s].frame < StaleAfter
LiveTemp(i, s) == heardImu[i][s].temp < StaleAfter

(* No flicker between streams (sensorStore.ts, setImu): while the most       *)
(* trusted stream of the motion fields is live they are its own, whatever    *)
(* the others send; the same for the temperature, whose order is another,    *)
(* though one sample may feed both; and the field is classified from         *)
(* milligauss only.  (When the best falls silent the first other takes over, *)
(* until the next frame of a better one.)                                    *)
BestStreamShown ==
    /\ \A i \in ImuInstances :
         /\ Live(i, "HIGHRES") => imuShown[i].motion = "HIGHRES"
         /\ LiveTemp(i, "SCALED") => imuShown[i].temp = "SCALED"
    /\ magState # "none" => magUnit = "mgauss"
=============================================================================
