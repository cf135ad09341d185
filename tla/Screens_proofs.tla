----------------------------- MODULE Screens_proofs -----------------------------
(***************************************************************************)
(* Proofs about what the page shows and asks for: the battery, the motion  *)
(* sensors, the log panel, the PX4 shell and the explorer of the SD card,  *)
(* each for its own specification and for every value of its constants.    *)
(***************************************************************************)
EXTENDS BatteryFeed, SensorFeed, LogPanel, ShellSession, FileBrowser,
        FiniteSetTheorems, SequenceTheorems, TLAPS

-----------------------------------------------------------------------------
(* The battery.  A non-empty set of numbers has a least one: the intervals   *)
(* below its members are well-founded under inclusion.                       *)
LEMMA Least ==
    ASSUME NEW S \in SUBSET Nat, S # {}
    PROVE  \E m \in S : \A k \in S : m <= k
<1> DEFINE Below == {0..m : m \in S}
<1>1. Below \subseteq FiniteSubsetsOf(Nat) /\ Below # {}
  <2>1. \A m \in S : 0..m \in SUBSET Nat /\ IsFiniteSet(0..m)
    <3>1. TAKE m \in S
    <3>2. m \in Int /\ 0..m \subseteq Nat
      OBVIOUS
    <3>3. IsFiniteSet(0..m)
      BY <3>2, FS_Interval
    <3>4. QED BY <3>2, <3>3
  <2>2. \A B \in Below : B \in SUBSET Nat /\ IsFiniteSet(B)
    BY <2>1, Zenon
  <2>3. PICK m \in S : TRUE
    OBVIOUS
  <2>4. 0..m \in Below
    OBVIOUS
  <2>5. QED BY <2>2, <2>4, Zenon DEF FiniteSubsetsOf
<1>2. PICK x \in Below : \A y \in Below : ~(<<y, x>> \in StrictSubsetOrdering(Nat))
  <2>1. IsWellFoundedOn(StrictSubsetOrdering(Nat), FiniteSubsetsOf(Nat))
    BY FS_StrictSubsetOrderingWellFounded
  <2> HIDE DEF Below
  <2>2. QED BY <1>1, <2>1, WFMin
<1>3. PICK m \in S : x = 0..m
  BY <1>2
<1>4. ASSUME NEW k \in S, k < m PROVE FALSE
  <2>1. (0..k) \in Below /\ 0..k \subseteq Nat /\ x \subseteq Nat
    BY <1>3
  <2>2. 0..k \subseteq x /\ m \in x /\ m \notin 0..k
    BY <1>3, <1>4
  <2>3. QED BY <1>2, <2>1, <2>2 DEF StrictSubsetOrdering
<1>5. QED BY <1>4

(* The battery shown is one of those known.                                  *)
LEMMA PrimaryKnown ==
    ASSUME NEW S \in SUBSET Nat, S # {}
    PROVE  Primary(S) \in S
<1>1. PICK m \in S : \A k \in S : m <= k
  BY Least
<1>2. Min(S) \in S
  BY <1>1, Zenon DEF Min
<1>3. QED BY <1>2 DEF Primary

Readings == [known : BOOLEAN, volts : {"none", "volts"}, of : {"none", "BATTERY_STATUS", "SYS_STATUS"},
             vehicle : Nat, age : 0..Expired]

BatteryTypes ==
    /\ packs \in [Ids -> Readings] /\ packShown \in [id : Ids, pack : Readings]
    /\ packSource \in {"none", "battery_status", "sys_status"}
    /\ packStamp \in 0..Expired /\ sysStamp \in 0..Expired /\ craftNow \in Nat
    /\ fitted \in SUBSET Packs /\ statusAge \in [Ids -> 0..Expired]

(* Nothing of another vehicle is kept; while a battery's own message is      *)
(* fresh the fallback is not taken and what is kept of it is what that       *)
(* message told; a single battery was read when the stamp was set.           *)
BatteryInv ==
    /\ BatteryTypes
    /\ \A i \in Ids : packs[i].known => packs[i].vehicle = craftNow
    /\ packShown.pack.known => packShown.pack.vehicle = craftNow
    /\ \A i \in Ids : statusAge[i] <= BatteryStale =>
         /\ packs[i].of = "BATTERY_STATUS" /\ packs[i].age = statusAge[i]
         /\ packSource = "battery_status" /\ packStamp <= statusAge[i]
    /\ statusAge[packShown.id] <= BatteryStale => packShown.pack = packs[packShown.id]
    /\ fitted \subseteq {0} /\ packShown.pack.known => packShown.pack.age <= packStamp

LEMMA BatteryConstants ==
    /\ Expired \in Nat /\ Expired > BatteryStale /\ BatteryStale \in Nat /\ Ids \subseteq Nat /\ 0 \in Ids
    /\ NoPack \in Readings /\ NoneShown \in [id : Ids, pack : Readings]
    /\ ~NoPack.known /\ NoneShown.id = 0 /\ NoneShown.pack = NoPack
BY BatteryAssumption DEF Expired, Ids, NoPack, NoneShown, Readings

LEMMA BatteryStart == BatteryInit => BatteryInv
BY BatteryConstants DEF BatteryInit, BatteryInv, BatteryTypes

LEMMA BatteryStatusStep ==
    ASSUME BatteryInv, NEW i \in fitted, NEW raw \in {"unknown", "zero", "valid"}, BatteryStatus(i, raw)
    PROVE  BatteryInv'
<1> DEFINE new == Reading(raw, "BATTERY_STATUS")
           now == [packs EXCEPT ![i] = new]
           met == {k \in Ids : now[k].known}
           first == Primary(met)
<1>1. /\ packs' = now /\ packShown' = [id |-> first, pack |-> now[first]]
      /\ packSource' = "battery_status" /\ packStamp' = 0 /\ statusAge' = [statusAge EXCEPT ![i] = 0]
      /\ UNCHANGED <<sysStamp, craftNow, fitted>>
  BY Zenon DEF BatteryStatus
<1>2. i \in Ids /\ new \in Readings /\ new.known /\ new.vehicle = craftNow /\ new.age = 0
      /\ new.of = "BATTERY_STATUS"
  BY BatteryConstants DEF Ids, Reading, VoltageOf, Readings, BatteryInv, BatteryTypes
<1> HIDE DEF new
<1>3. now \in [Ids -> Readings] /\ now[i] = new /\ \A k \in Ids : k # i => now[k] = packs[k]
  BY <1>2 DEF BatteryInv, BatteryTypes
<1> HIDE DEF now
<1>4. first \in met /\ (fitted \subseteq {0} => first = i)
  <2>1. i \in met /\ met \subseteq Nat
    BY <1>2, <1>3, BatteryConstants
  <2> HIDE DEF met
  <2>2. fitted \subseteq {0} => i = 0
    OBVIOUS
  <2>3. QED BY <2>1, <2>2, PrimaryKnown DEF Primary
<1>5. first \in Ids /\ now[first].known
  BY <1>4
<1> HIDE DEF first, met
<1>6. BatteryTypes'
  <2>1. /\ packs' \in [Ids -> Readings] /\ packShown' \in [id : Ids, pack : Readings]
        /\ packSource' \in {"none", "battery_status", "sys_status"}
    BY <1>1, <1>3, <1>5
  <2>2. /\ packStamp' \in 0..Expired /\ sysStamp' \in 0..Expired /\ craftNow' \in Nat
        /\ fitted' \in SUBSET Packs /\ statusAge' \in [Ids -> 0..Expired]
    BY <1>1, <1>2, BatteryConstants DEF BatteryInv, BatteryTypes
  <2>3. QED BY <2>1, <2>2 DEF BatteryTypes
<1>7. \A k \in Ids : now[k].known => now[k].vehicle = craftNow
  BY <1>2, <1>3 DEF BatteryInv
<1>8. \A k \in Ids : statusAge'[k] <= BatteryStale => now[k].of = "BATTERY_STATUS" /\ now[k].age = statusAge'[k]
  BY <1>1, <1>2, <1>3 DEF BatteryInv, BatteryTypes
<1>9. fitted \subseteq {0} => now[first].age = 0
  BY <1>2, <1>3, <1>4
<1>10. QED BY <1>1, <1>5, <1>6, <1>7, <1>8, <1>9 DEF BatteryInv, BatteryTypes

LEMMA SysStatusStep ==
    ASSUME BatteryInv, NEW raw \in {"unknown", "zero", "valid"}, SysStatus(raw)
    PROVE  BatteryInv'
<1> DEFINE sample == Reading(raw, "SYS_STATUS")
<1>1. sample \in Readings /\ sample.known /\ sample.vehicle = craftNow /\ sample.age = 0
  BY BatteryConstants DEF Reading, VoltageOf, Readings, BatteryInv, BatteryTypes
<1> HIDE DEF sample
<1>2. sysStamp' = 0 /\ UNCHANGED <<craftNow, fitted, feedReady, statusAge, feedResets>>
  BY Zenon DEF SysStatus
<1>3. CASE StatusFresh
  <2>1. packShown' = packShown /\ packs' = packs /\ packSource' = packSource /\ packStamp' = packStamp
    BY <1>3 DEF SysStatus
  <2>2. QED BY <1>2, <2>1, BatteryConstants DEF BatteryInv, BatteryTypes
<1>4. CASE ~StatusFresh
  <2>1. \A i \in Ids : ~(statusAge[i] <= BatteryStale)
    BY <1>4, BatteryConstants DEF StatusFresh, BatteryInv, BatteryTypes
  <2>2. CASE VoltageOf(raw) = "volts"
    <3>1. /\ packShown' = [id |-> 0, pack |-> sample] /\ packs' = [packs EXCEPT ![0] = sample]
          /\ packSource' = "sys_status" /\ packStamp' = 0
      BY <1>4, <2>2 DEF SysStatus, sample
    <3>2. QED BY <1>1, <1>2, <2>1, <3>1, BatteryConstants DEF BatteryInv, BatteryTypes
  <2>3. CASE VoltageOf(raw) # "volts"
    <3>1. packShown' = NoneShown /\ packs' = packs /\ packSource' = packSource /\ packStamp' = packStamp
      BY <1>4, <2>3 DEF SysStatus
    <3>2. QED BY <1>2, <2>1, <3>1, BatteryConstants DEF BatteryInv, BatteryTypes
  <2>4. QED BY <2>2, <2>3
<1>5. QED BY <1>3, <1>4

LEMMA PassBatteryStep ==
    ASSUME BatteryInv, PassBattery
    PROVE  BatteryInv'
<1>1. /\ packs' = [i \in Ids |-> [packs[i] EXCEPT !.age = Aged1(@)]]
      /\ packShown' = [packShown EXCEPT !.pack.age = Aged1(@)]
      /\ packStamp' = Aged1(packStamp) /\ sysStamp' = Aged1(sysStamp)
      /\ statusAge' = [i \in Ids |-> Aged1(statusAge[i])]
      /\ UNCHANGED <<packSource, craftNow, fitted>>
  BY Zenon DEF PassBattery
<1>2. \A n \in 0..Expired : Aged1(n) \in 0..Expired /\ n <= Aged1(n)
                            /\ (Aged1(n) <= BatteryStale => Aged1(n) = n + 1)
  BY BatteryConstants, BatteryAssumption DEF Aged1, Expired
<1>3. \A n, m \in 0..Expired : n <= m => Aged1(n) <= Aged1(m)
  BY BatteryConstants DEF Aged1
<1>4. \A r \in Readings : LET q == [r EXCEPT !.age = Aged1(@)]
                          IN  q \in Readings /\ q.known = r.known /\ q.vehicle = r.vehicle
                              /\ q.of = r.of /\ q.age = Aged1(r.age)
  BY <1>2 DEF Readings
<1>5. packShown' = [id |-> packShown.id, pack |-> [packShown.pack EXCEPT !.age = Aged1(@)]]
  BY <1>1 DEF BatteryInv, BatteryTypes, Readings
<1>6. BatteryTypes'
  BY <1>1, <1>2, <1>4, <1>5 DEF BatteryInv, BatteryTypes
<1>7. \A i \in Ids : statusAge'[i] <= BatteryStale => statusAge[i] <= BatteryStale
  BY <1>1, <1>2, BatteryConstants DEF BatteryInv, BatteryTypes
<1>8. /\ \A i \in Ids : packs'[i].known = packs[i].known /\ packs'[i].vehicle = packs[i].vehicle
                        /\ packs'[i].of = packs[i].of /\ packs'[i].age = Aged1(packs[i].age)
      /\ packShown'.pack.known = packShown.pack.known /\ packShown'.pack.vehicle = packShown.pack.vehicle
      /\ packShown'.pack.age = Aged1(packShown.pack.age) /\ packShown'.id = packShown.id
  BY <1>1, <1>4, <1>5 DEF BatteryInv, BatteryTypes
<1>9. packShown.pack = packs[packShown.id] => packShown'.pack = packs'[packShown'.id]
  BY <1>1, <1>5 DEF BatteryInv, BatteryTypes
<1>10. \A i \in Ids : statusAge[i] \in 0..Expired /\ packs[i].age \in 0..Expired
                      /\ statusAge'[i] = Aged1(statusAge[i])
  BY <1>1 DEF BatteryInv, BatteryTypes, Readings
<1>11. packShown.pack.age \in 0..Expired /\ packStamp \in 0..Expired /\ packShown.id \in Ids
  BY DEF BatteryInv, BatteryTypes, Readings
<1>12. \A i \in Ids : statusAge'[i] <= BatteryStale =>
         /\ packs'[i].of = "BATTERY_STATUS" /\ packs'[i].age = statusAge'[i]
         /\ packSource' = "battery_status" /\ packStamp' <= statusAge'[i]
  BY <1>1, <1>3, <1>7, <1>8, <1>10, <1>11 DEF BatteryInv
<1>13. statusAge'[packShown'.id] <= BatteryStale => packShown'.pack = packs'[packShown'.id]
  BY <1>7, <1>8, <1>9, <1>11 DEF BatteryInv
<1>14. fitted \subseteq {0} /\ packShown'.pack.known => packShown'.pack.age <= packStamp'
  BY <1>1, <1>3, <1>8, <1>11 DEF BatteryInv
<1>15. /\ \A i \in Ids : packs'[i].known => packs'[i].vehicle = craftNow'
       /\ packShown'.pack.known => packShown'.pack.vehicle = craftNow'
  BY <1>1, <1>8 DEF BatteryInv
<1>16. QED BY <1>1, <1>6, <1>12, <1>13, <1>14, <1>15 DEF BatteryInv

LEMMA BatteryStep == BatteryInv /\ [BatteryNext]_batteryVars => BatteryInv'
<1> SUFFICES ASSUME BatteryInv, [BatteryNext]_batteryVars PROVE BatteryInv'
  OBVIOUS
<1>1. CASE VehicleGone
  <2>1. /\ packStamp' = Expired /\ statusAge' = [i \in Ids |-> Expired] /\ sysStamp' = Expired
        /\ UNCHANGED <<packs, packShown, packSource, craftNow, fitted>>
    BY <1>1 DEF VehicleGone
  <2>2. BatteryTypes'
    BY <2>1, BatteryConstants DEF BatteryInv, BatteryTypes
  <2>3. \A i \in Ids : ~(statusAge'[i] <= BatteryStale)
    BY <2>1, BatteryConstants
  <2>4. packShown'.id \in Ids /\ packShown'.pack.age \in 0..Expired
    BY <2>2 DEF BatteryTypes, Readings
  <2>5. QED BY <2>1, <2>2, <2>3, <2>4 DEF BatteryInv
<1>2. CASE LinkGone
  BY <1>2, BatteryConstants DEF LinkGone, ClearIdentity, BatteryInv, BatteryTypes
<1>3. CASE VehicleBack
  BY <1>3 DEF VehicleBack, BatteryInv, BatteryTypes
<1>4. CASE OtherVehicle
  BY <1>4, BatteryConstants DEF OtherVehicle, ClearIdentity, BatteryInv, BatteryTypes
<1>5. CASE UNCHANGED batteryVars
  BY <1>5 DEF batteryVars, BatteryInv, BatteryTypes
<1>6. QED
  BY <1>1, <1>2, <1>3, <1>4, <1>5, BatteryStatusStep, SysStatusStep, PassBatteryStep DEF BatteryNext

(* The battery shown is one of the selected vehicle, what its own message    *)
(* told while that is heard, and nobody who reports battery 0 at most is     *)
(* shown an old reading as live (setBattery, setSysStatus).                  *)
THEOREM BatteryIsTrue == BatterySpec => []BatteryTrue
<1>1. ASSUME BatteryInv PROVE BatteryTrue
  <2>1. /\ packShown.id \in Ids /\ packShown.pack.age \in 0..Expired /\ packStamp \in 0..Expired
        /\ BatteryStale \in Nat
    BY <1>1, BatteryConstants DEF BatteryInv, BatteryTypes, Readings
  <2>2. statusAge[packShown.id] <= BatteryStale =>
          packShown.pack.of = "BATTERY_STATUS" /\ packShown.pack.age = statusAge[packShown.id]
    BY <1>1, <2>1 DEF BatteryInv
  <2>3. (fitted \subseteq {0} /\ Vivid) => packShown.pack.age <= BatteryStale
    BY <1>1, <2>1 DEF BatteryInv, Vivid, Expired
  <2>4. QED BY <1>1, <2>2, <2>3 DEF BatteryInv, BatteryTrue
<1>2. QED BY <1>1, BatteryStart, BatteryStep, PTL DEF BatterySpec
-----------------------------------------------------------------------------
(* The motion sensors.                                                       *)
Winners == [source : {"none"} \cup ImuStreams, age : 0..StaleAfter]

SensorTypes ==
    /\ imuWinner \in [ImuInstances -> Winners] /\ tempWinner \in [ImuInstances -> Winners]
    /\ imuShown \in [ImuInstances -> [motion : {"none"} \cup ImuStreams, temp : {"none"} \cup ImuStreams]]
    /\ heardImu \in [ImuInstances -> [ImuStreams -> [frame : 0..StaleAfter, temp : 0..StaleAfter]]]

(* While the best stream is live it has won, since its last frame, and is    *)
(* what is shown.                                                            *)
SensorInv ==
    /\ SensorTypes
    /\ \A i \in ImuInstances :
         /\ Live(i, "HIGHRES") =>
              imuWinner[i].source = "HIGHRES" /\ imuWinner[i].age = heardImu[i]["HIGHRES"].frame
              /\ imuShown[i].motion = "HIGHRES"
         /\ LiveTemp(i, "SCALED") =>
              tempWinner[i].source = "SCALED" /\ tempWinner[i].age = heardImu[i]["SCALED"].temp
              /\ imuShown[i].temp = "SCALED"
    /\ magState # "none" => magUnit = "mgauss"

LEMMA SensorStart == SensorInit => SensorInv
<1> SUFFICES ASSUME SensorInit PROVE SensorInv
  OBVIOUS
<1>1. Nobody \in Winners /\ Never \in [frame : 0..StaleAfter, temp : 0..StaleAfter]
      /\ ~(Never.frame < StaleAfter) /\ ~(Never.temp < StaleAfter)
  BY SensorAssumption DEF Nobody, Never, Winners
<1>2. SensorTypes
  BY <1>1 DEF SensorInit, SensorTypes
<1>3. QED BY <1>1, <1>2 DEF SensorInit, SensorInv, Live, LiveTemp, ImuStreams

LEMMA SetImuStep ==
    ASSUME SensorInv, NEW i \in ImuInstances, NEW s \in ImuStreams, NEW t \in BOOLEAN,
           NEW field \in {"good", "edge", "bad"}, SetImu(i, s, t, field)
    PROVE  SensorInv'
<1> DEFINE takes == TempAccepted(i, s, HasTemp(t))
           dropped == MotionDropped(i, s)
           won == [source |-> s, age |-> 0]
           sight == [motion |-> IF dropped THEN imuShown[i].motion ELSE s,
                    temp |-> IF takes THEN s ELSE imuShown[i].temp]
           told == [frame |-> 0, temp |-> IF t THEN 0 ELSE heardImu[i][s].temp]
<1>1. /\ tempWinner' = IF takes THEN [tempWinner EXCEPT ![i] = won] ELSE tempWinner
      /\ imuWinner' = IF dropped THEN imuWinner ELSE [imuWinner EXCEPT ![i] = won]
      /\ imuShown' = [imuShown EXCEPT ![i] = sight]
      /\ heardImu' = [heardImu EXCEPT ![i] = [heardImu[i] EXCEPT ![s] = told]]
  BY DEF SetImu
<1>2. won \in Winners /\ won.source = s /\ won.age = 0
  BY SensorAssumption DEF Winners
<1>3. sight \in [motion : {"none"} \cup ImuStreams, temp : {"none"} \cup ImuStreams]
  BY DEF SensorInv, SensorTypes
<1>4. told \in [frame : 0..StaleAfter, temp : 0..StaleAfter] /\ told.frame = 0
      /\ told.temp = IF t THEN 0 ELSE heardImu[i][s].temp
  BY SensorAssumption DEF SensorInv, SensorTypes
<1>5. SensorTypes'
  <2> HIDE DEF takes, dropped, won, sight, told
  <2>1. QED BY <1>1, <1>2, <1>3, <1>4 DEF SensorInv, SensorTypes
<1>6. \A k \in ImuInstances : Live(k, "HIGHRES")' =>
        imuWinner'[k].source = "HIGHRES" /\ imuWinner'[k].age = heardImu'[k]["HIGHRES"].frame
        /\ imuShown'[k].motion = "HIGHRES"
  <2>1. CASE s = "HIGHRES"
    <3>1. ~dropped
      BY <2>1 DEF MotionDropped, Motion, Fresh, SensorInv, SensorTypes, Winners, ImuStreams
    <3>2. QED BY <1>1, <1>2, <1>4, <2>1, <3>1 DEF Live, SensorInv, SensorTypes, ImuStreams
  <2>2. CASE s # "HIGHRES"
    <3>1. \A k \in ImuInstances : heardImu'[k]["HIGHRES"] = heardImu[k]["HIGHRES"]
      BY <1>1, <2>2 DEF SensorInv, SensorTypes, ImuStreams
    <3>2. Live(i, "HIGHRES") => dropped
      <4>1. Motion["HIGHRES"] = 2 /\ Motion[s] \in 0..1
        BY <2>2 DEF Motion, ImuStreams
      <4>2. Motion["HIGHRES"] > Motion[s]
        BY <4>1
      <4>3. Live(i, "HIGHRES") => imuWinner[i].source = "HIGHRES" /\ imuWinner[i].age < StaleAfter
        BY DEF SensorInv, Live
      <4>4. QED BY <4>2, <4>3 DEF MotionDropped, Fresh
    <3>3. QED BY <1>1, <3>1, <3>2 DEF Live, SensorInv, SensorTypes
  <2>3. QED BY <2>1, <2>2
<1>7. \A k \in ImuInstances : LiveTemp(k, "SCALED")' =>
        tempWinner'[k].source = "SCALED" /\ tempWinner'[k].age = heardImu'[k]["SCALED"].temp
        /\ imuShown'[k].temp = "SCALED"
  <2>1. CASE s = "SCALED" /\ t
    <3>1. takes
      BY <2>1 DEF TempAccepted, HasTemp, Warmth, Fresh, SensorInv, SensorTypes, Winners, ImuStreams
    <3>2. QED BY <1>1, <1>2, <1>4, <2>1, <3>1 DEF LiveTemp, SensorInv, SensorTypes, ImuStreams
  <2>2. CASE ~(s = "SCALED" /\ t)
    <3>1. \A k \in ImuInstances : heardImu'[k]["SCALED"].temp = heardImu[k]["SCALED"].temp
      BY <1>1, <1>4, <2>2 DEF SensorInv, SensorTypes, ImuStreams
    <3>2. LiveTemp(i, "SCALED") => ~takes
      <4>1. s # "SCALED" => Warmth["SCALED"] = 2 /\ Warmth[s] \in 0..1
        BY DEF Warmth, ImuStreams
      <4>2. s # "SCALED" => ~(Warmth[s] >= Warmth["SCALED"])
        BY <4>1
      <4>3. LiveTemp(i, "SCALED") => tempWinner[i].source = "SCALED" /\ tempWinner[i].age < StaleAfter
        BY DEF SensorInv, LiveTemp
      <4>4. QED BY <2>2, <4>2, <4>3 DEF TempAccepted, HasTemp, Fresh
    <3>3. QED BY <1>1, <3>1, <3>2 DEF LiveTemp, SensorInv, SensorTypes
  <2>3. QED BY <2>1, <2>2
<1>8. magState' # "none" => magUnit' = "mgauss"
  <2>1. \/ UNCHANGED <<magUnit, magState>>
        \/ WithMag(s, field)
    BY Zenon DEF SetImu
  <2>2. WithMag(s, field) => magState' = "none" \/ magUnit' = "mgauss"
    BY DEF WithMag, UnitOf
  <2>3. QED BY <2>1, <2>2 DEF SensorInv
<1>9. QED BY <1>5, <1>6, <1>7, <1>8 DEF SensorInv

LEMMA SensorPassStep ==
    ASSUME SensorInv, Pass
    PROVE  SensorInv'
<1>1. /\ imuWinner' = [i \in ImuInstances |-> [imuWinner[i] EXCEPT !.age = Aged(@)]]
      /\ tempWinner' = [i \in ImuInstances |-> [tempWinner[i] EXCEPT !.age = Aged(@)]]
      /\ heardImu' = [i \in ImuInstances |-> [s \in ImuStreams |->
             [frame |-> Aged(heardImu[i][s].frame), temp |-> Aged(heardImu[i][s].temp)]]]
      /\ UNCHANGED <<imuShown, magUnit, magState>>
  BY Zenon DEF Pass
<1>2. \A n \in 0..StaleAfter : Aged(n) \in 0..StaleAfter /\ (Aged(n) < StaleAfter => n < StaleAfter)
  BY SensorAssumption DEF Aged
<1>3. \A w \in Winners : LET q == [w EXCEPT !.age = Aged(@)]
                         IN  q \in Winners /\ q.source = w.source /\ q.age = Aged(w.age)
  BY <1>2 DEF Winners
<1>4. \A i \in ImuInstances :
        /\ imuWinner'[i].source = imuWinner[i].source /\ imuWinner'[i].age = Aged(imuWinner[i].age)
        /\ tempWinner'[i].source = tempWinner[i].source /\ tempWinner'[i].age = Aged(tempWinner[i].age)
        /\ imuWinner'[i] \in Winners /\ tempWinner'[i] \in Winners
  BY <1>1, <1>3 DEF SensorInv, SensorTypes
<1>5. \A i \in ImuInstances, s \in ImuStreams :
        /\ heardImu'[i][s].frame = Aged(heardImu[i][s].frame)
        /\ heardImu'[i][s].temp = Aged(heardImu[i][s].temp)
        /\ heardImu[i][s].frame \in 0..StaleAfter /\ heardImu[i][s].temp \in 0..StaleAfter
  BY <1>1 DEF SensorInv, SensorTypes
<1>6. SensorTypes'
  <2>1. imuWinner' \in [ImuInstances -> Winners] /\ tempWinner' \in [ImuInstances -> Winners]
    BY <1>1, <1>4
  <2>2. heardImu' \in [ImuInstances -> [ImuStreams -> [frame : 0..StaleAfter, temp : 0..StaleAfter]]]
    BY <1>1, <1>2 DEF SensorInv, SensorTypes
  <2>3. QED BY <1>1, <2>1, <2>2 DEF SensorInv, SensorTypes
<1>7. "HIGHRES" \in ImuStreams /\ "SCALED" \in ImuStreams
  BY DEF ImuStreams
<1>8. \A i \in ImuInstances : (Live(i, "HIGHRES")' => Live(i, "HIGHRES"))
                              /\ (LiveTemp(i, "SCALED")' => LiveTemp(i, "SCALED"))
  BY <1>2, <1>5, <1>7 DEF Live, LiveTemp
<1>9. ASSUME NEW i \in ImuInstances
      PROVE  /\ Live(i, "HIGHRES")' =>
                  imuWinner'[i].source = "HIGHRES" /\ imuWinner'[i].age = heardImu'[i]["HIGHRES"].frame
                  /\ imuShown'[i].motion = "HIGHRES"
             /\ LiveTemp(i, "SCALED")' =>
                  tempWinner'[i].source = "SCALED" /\ tempWinner'[i].age = heardImu'[i]["SCALED"].temp
                  /\ imuShown'[i].temp = "SCALED"
  <2>1. /\ heardImu'[i]["HIGHRES"].frame = Aged(heardImu[i]["HIGHRES"].frame)
        /\ heardImu'[i]["SCALED"].temp = Aged(heardImu[i]["SCALED"].temp)
        /\ imuShown' = imuShown
    BY <1>1, <1>5, <1>7
  <2>2. Live(i, "HIGHRES") => imuWinner[i].source = "HIGHRES" /\ imuShown[i].motion = "HIGHRES"
                              /\ imuWinner[i].age = heardImu[i]["HIGHRES"].frame
    BY DEF SensorInv
  <2>3. LiveTemp(i, "SCALED") => tempWinner[i].source = "SCALED" /\ imuShown[i].temp = "SCALED"
                                 /\ tempWinner[i].age = heardImu[i]["SCALED"].temp
    BY DEF SensorInv
  <2>4. /\ imuWinner'[i].source = imuWinner[i].source /\ imuWinner'[i].age = Aged(imuWinner[i].age)
        /\ tempWinner'[i].source = tempWinner[i].source /\ tempWinner'[i].age = Aged(tempWinner[i].age)
    BY <1>4
  <2>5. Live(i, "HIGHRES")' => Live(i, "HIGHRES")
    BY <1>8
  <2>6. LiveTemp(i, "SCALED")' => LiveTemp(i, "SCALED")
    BY <1>8
  <2>7. Live(i, "HIGHRES")' =>
          imuWinner'[i].source = "HIGHRES" /\ imuWinner'[i].age = heardImu'[i]["HIGHRES"].frame
          /\ imuShown'[i].motion = "HIGHRES"
    BY <2>1, <2>2, <2>4, <2>5, Zenon
  <2>8. LiveTemp(i, "SCALED")' =>
          tempWinner'[i].source = "SCALED" /\ tempWinner'[i].age = heardImu'[i]["SCALED"].temp
          /\ imuShown'[i].temp = "SCALED"
    BY <2>1, <2>3, <2>4, <2>6, Zenon
  <2>9. QED BY <2>7, <2>8
<1>10. magState' # "none" => magUnit' = "mgauss"
  BY <1>1 DEF SensorInv
<1>11. QED BY <1>6, <1>9, <1>10 DEF SensorInv

LEMMA SensorStep == SensorInv /\ [SensorNext]_sensorVars => SensorInv'
<1> SUFFICES ASSUME SensorInv, [SensorNext]_sensorVars PROVE SensorInv'
  OBVIOUS
<1>1. CASE MarkAllOffline
  <2>1. Nobody \in Winners /\ Never \in [frame : 0..StaleAfter, temp : 0..StaleAfter]
        /\ ~(Never.frame < StaleAfter) /\ ~(Never.temp < StaleAfter)
    BY SensorAssumption DEF Nobody, Never, Winners
  <2>2. SensorTypes'
    BY <1>1, <2>1 DEF MarkAllOffline, SensorInv, SensorTypes
  <2>3. QED BY <1>1, <2>1, <2>2 DEF MarkAllOffline, SensorInv, Live, LiveTemp, ImuStreams
<1>2. ASSUME NEW s \in {"SCALED", "HIGHRES"}, SetBaro(s) PROVE SensorInv'
  BY <1>2 DEF SetBaro, SensorInv, SensorTypes, Live, LiveTemp
<1>3. CASE UNCHANGED sensorVars
  BY <1>3 DEF sensorVars, SensorInv, SensorTypes, Live, LiveTemp
<1>4. QED BY <1>1, <1>2, <1>3, SetImuStep, SensorPassStep DEF SensorNext

(* While the most trusted stream is live the fields are its own, whatever    *)
(* the others send, and the magnetic field is classified from milligauss     *)
(* only (setImu).                                                            *)
THEOREM BestStreamIsShown == SensorSpec => []BestStreamShown
<1>1. SensorInv => BestStreamShown
  BY DEF SensorInv, BestStreamShown
<1>2. QED BY <1>1, SensorStart, SensorStep, PTL DEF SensorSpec
-----------------------------------------------------------------------------
(* The log panel.  What is on its way between the page and the Worker.       *)
CraftStates == [ready : BOOLEAN, target : Crafts, epoch : Nat]
Ticks == {Unticked} \cup [target : Crafts, epoch : Nat, rows : Nat]
PanelAsks == [type : {"log_list"}] \cup [type : {"log_erase"}, epoch : Nat, rows : Nat, tick : Ticks]
News == [type : {"craft"}, craft : CraftStates] \cup [type : {"sync"}, on : BOOLEAN]
        \cup [type : {"log_list"}, target : Crafts, rows : Nat] \cup [type : {"log_erase_done"}]
        \cup [type : {"log_op_error"}, op : {"list", "erase"}]
Operations == {LogIdle} \cup [op : {"list", "erase"}, target : Crafts, tick : Ticks]

LogTypes ==
    /\ logs \in [Crafts -> Nat] /\ craft \in CraftStates /\ logSync \in BOOLEAN
    /\ logOp \in Operations
    /\ panelSends \in Seq(PanelAsks) /\ panelHears \in Seq(News)
    /\ heard \in [craft : CraftStates, sync : BOOLEAN]
    /\ panel \in [shown : BOOLEAN, asked : Crafts \cup {NoCraft}, rows : Nat,
                  from : Crafts \cup {NoCraft}, loading : BOOLEAN, error : BOOLEAN]
    /\ eraser \in [open : BOOLEAN, tick : Ticks]

(* The vehicle the page knows of when it has heard news 1 to j of q, and     *)
(* that j is the latest that tells of it before news i.                      *)
KnownAt(q, known0, j) == IF j = 0 THEN known0 ELSE q[j].craft
Latest(q, j, i) ==
    /\ j < i /\ (j # 0 => q[j].type = "craft")
    /\ \A k \in 1..Len(q) : j < k /\ k < i => q[k].type # "craft"

(* Lists arrive while the page knows of the vehicle they are of; at the end  *)
(* it knows of the vehicle there is.                                         *)
InOrder(q, known0, c) ==
    /\ \A j \in 0..Len(q) : Latest(q, j, Len(q) + 1) => KnownAt(q, known0, j) = c
    /\ \A j \in 0..Len(q), i \in 1..Len(q) :
         Latest(q, j, i) /\ q[i].type = "log_list" => KnownAt(q, known0, j).target = q[i].target

LEMMA InOrderAppend ==
    ASSUME NEW q \in Seq(News), NEW known0 \in CraftStates, NEW c \in CraftStates, NEW e \in News,
           e.type = "log_list" => e.target = c.target,
           InOrder(q, known0, c)
    PROVE  InOrder(q \o <<e>>, known0, IF e.type = "craft" THEN e.craft ELSE c)
<1> DEFINE r == q \o <<e>>
           d == IF e.type = "craft" THEN e.craft ELSE c
           n == Len(q)
<1>1. /\ n \in Nat /\ Len(r) = n + 1 /\ r[n + 1] = e
      /\ \A k \in 1..n : r[k] = q[k]
  BY LenProperties, ConcatProperties
<1> HIDE DEF r
<1>2. \A j \in 0..n : KnownAt(r, known0, j) = KnownAt(q, known0, j)
  BY <1>1 DEF KnownAt
<1>3. \A j \in 0..n, i \in 1..(n + 1) : Latest(r, j, i) => Latest(q, j, i)
  BY <1>1 DEF Latest
<1>4. ASSUME NEW j \in 0..(n + 1), Latest(r, j, n + 2) PROVE KnownAt(r, known0, j) = d
  <2>1. CASE j = n + 1
    BY <1>1, <1>4, <2>1 DEF Latest, KnownAt
  <2>2. CASE j # n + 1
    <3>1. j \in 0..n /\ e.type # "craft"
      BY <1>1, <1>4, <2>2 DEF Latest
    <3>2. Latest(q, j, n + 1)
      BY <1>1, <1>4, <3>1 DEF Latest
    <3>3. QED BY <1>2, <3>1, <3>2 DEF InOrder
  <2>3. QED BY <2>1, <2>2
<1>5. ASSUME NEW j \in 0..(n + 1), NEW i \in 1..(n + 1), Latest(r, j, i), r[i].type = "log_list"
      PROVE  KnownAt(r, known0, j).target = r[i].target
  <2>1. j \in 0..n
    BY <1>1, <1>5 DEF Latest
  <2>2. Latest(q, j, i) /\ KnownAt(r, known0, j) = KnownAt(q, known0, j)
    BY <1>2, <1>3, <1>5, <2>1
  <2>3. CASE i = n + 1
    BY <1>1, <1>5, <2>1, <2>2, <2>3 DEF InOrder
  <2>4. CASE i # n + 1
    <3>1. i \in 1..n /\ r[i] = q[i]
      BY <1>1, <2>4
    <3>2. QED BY <1>5, <2>1, <2>2, <3>1 DEF InOrder
  <2>5. QED BY <2>3, <2>4
<1> HIDE DEF d
<1>6. InOrder(r, known0, d)
  <2>1. Len(r) = n + 1 /\ Len(r) + 1 = n + 2
    BY <1>1
  <2> HIDE DEF n
  <2>2. QED BY <1>4, <1>5, <2>1 DEF InOrder
<1>7. QED BY <1>6 DEF r, d

LEMMA InOrderTail ==
    ASSUME NEW q \in Seq(News), q # <<>>, NEW known0 \in CraftStates, NEW c \in CraftStates,
           InOrder(q, known0, c)
    PROVE  /\ InOrder(Tail(q), IF Head(q).type = "craft" THEN Head(q).craft ELSE known0, c)
           /\ Head(q).type = "log_list" => known0.target = Head(q).target
<1> DEFINE r == Tail(q)
           first == IF Head(q).type = "craft" THEN Head(q).craft ELSE known0
           n == Len(q)
<1>1. /\ n \in Nat \ {0} /\ Len(r) = n - 1 /\ Head(q) = q[1]
      /\ \A k \in 1..(n - 1) : r[k] = q[k + 1]
  BY EmptySeq, HeadTailProperties, LenProperties
<1> HIDE DEF r
<1> DEFINE before(j) == IF j = 0 /\ q[1].type # "craft" THEN 0 ELSE j + 1
<1>2. ASSUME NEW j \in 0..(n - 1), NEW i \in 1..n, Latest(r, j, i)
      PROVE  /\ before(j) \in 0..n /\ Latest(q, before(j), i + 1)
             /\ KnownAt(q, known0, before(j)) = KnownAt(r, first, j)
  <2>1. before(j) \in 0..n
    BY <1>1
  <2>2. KnownAt(q, known0, before(j)) = KnownAt(r, first, j)
    BY <1>1 DEF KnownAt
  <2>3. before(j) < i + 1 /\ (before(j) # 0 => q[before(j)].type = "craft")
    BY <1>1, <1>2 DEF Latest
  <2>4. ASSUME NEW k \in 1..n, before(j) < k, k < i + 1 PROVE q[k].type # "craft"
    <3>1. CASE k = 1
      BY <1>1, <2>4, <3>1
    <3>2. CASE k # 1
      <4>1. k - 1 \in 1..(n - 1) /\ j < k - 1 /\ k - 1 < i /\ q[k] = r[k - 1]
        BY <1>1, <2>4, <3>2
      <4>2. QED BY <1>1, <1>2, <4>1 DEF Latest
    <3>3. QED BY <3>1, <3>2
  <2>5. QED BY <2>1, <2>2, <2>3, <2>4 DEF Latest
<1> HIDE DEF before
<1>3. ASSUME NEW j \in 0..(n - 1), Latest(r, j, n) PROVE KnownAt(r, first, j) = c
  BY <1>1, <1>2, <1>3 DEF InOrder
<1>4. ASSUME NEW j \in 0..(n - 1), NEW i \in 1..(n - 1), Latest(r, j, i), r[i].type = "log_list"
      PROVE  KnownAt(r, first, j).target = r[i].target
  <2>1. i + 1 \in 1..n /\ q[i + 1] = r[i] /\ i \in 1..n
    BY <1>1
  <2>2. QED BY <1>2, <1>4, <2>1 DEF InOrder
<1>5. Head(q).type = "log_list" => known0.target = Head(q).target
  <2>1. Latest(q, 0, 1) /\ 0 \in 0..n /\ 1 \in 1..n /\ KnownAt(q, known0, 0) = known0
    BY <1>1 DEF Latest, KnownAt
  <2>2. QED BY <1>1, <2>1 DEF InOrder
<1> HIDE DEF first
<1>6. InOrder(r, first, c)
  <2>1. Len(r) = n - 1 /\ Len(r) + 1 = n
    BY <1>1
  <2> HIDE DEF n
  <2>2. QED BY <1>3, <1>4, <2>1 DEF InOrder
<1>7. QED BY <1>5, <1>6 DEF r, first

(* The page never knows of a later safety epoch than there is, and of this   *)
(* one only with its vehicle.                                                *)
NotAhead(c, now) == c.epoch <= now.epoch /\ (c.epoch = now.epoch => c.target = now.target)

(* The page's view of the vehicle and of the logs follows the Worker's in    *)
(* order; an operation is for the selected vehicle; an erasure on its way    *)
(* was committed to the list, the vehicle and the epoch it names.            *)
LogInv ==
    /\ LogTypes
    /\ InOrder(panelHears, heard.craft, craft)
    /\ NotAhead(heard.craft, craft)
    /\ \A k \in 1..Len(panelHears) : panelHears[k].type = "craft" => NotAhead(panelHears[k].craft, craft)
    /\ logOp # LogIdle => craft.ready /\ logOp.target = craft.target
    /\ logOp.op = "erase" => logOp.tick.target = craft.target
    /\ \A k \in 1..Len(panelSends) : panelSends[k].type = "log_erase" =>
         /\ panelSends[k].tick.rows = panelSends[k].rows /\ panelSends[k].epoch <= craft.epoch
         /\ panelSends[k].epoch = craft.epoch => panelSends[k].tick.target = craft.target
    /\ panel.shown /\ panel.rows > 0 => panel.from = heard.craft.target

LEMMA LogStart == LogPanelInit => LogInv
<1> SUFFICES ASSUME LogPanelInit PROVE LogInv
  OBVIOUS
<1>1. craft \in CraftStates /\ heard = [craft |-> craft, sync |-> TRUE] /\ craft.epoch = 0
  BY LogPanelAssumption DEF LogPanelInit, CraftStates
<1>2. panel = [shown |-> FALSE, asked |-> NoCraft, rows |-> 0, from |-> NoCraft, loading |-> FALSE,
               error |-> FALSE]
  BY DEF LogPanelInit, NoRows
<1>3. eraser = [open |-> FALSE, tick |-> Unticked] /\ Unticked \in Ticks
  BY DEF LogPanelInit, Ticks
<1>4. logOp = LogIdle /\ logOp.op = "idle"
  BY DEF LogPanelInit, LogIdle
<1>5. panelSends = <<>> /\ panelHears = <<>> /\ logs = [c \in Crafts |-> 1] /\ logSync = TRUE
  BY DEF LogPanelInit
<1>6. LogTypes
  BY <1>1, <1>2, <1>3, <1>4, <1>5 DEF LogTypes, Operations
<1>7. InOrder(<<>>, craft, craft)
  BY DEF InOrder, Latest, KnownAt
<1>8. QED BY <1>1, <1>2, <1>4, <1>5, <1>6, <1>7 DEF LogInv, NotAhead, CraftStates

(* Asking for a list adds nothing that erases.                               *)
LEMMA ListAsked ==
    ASSUME LogInv, NEW p, NEW h, WithList(p, h),
           p \in [shown : BOOLEAN, asked : Crafts \cup {NoCraft}, rows : Nat,
                  from : Crafts \cup {NoCraft}, loading : BOOLEAN, error : BOOLEAN],
           h \in [craft : CraftStates, sync : BOOLEAN]
    PROVE  /\ panel' \in [shown : BOOLEAN, asked : Crafts \cup {NoCraft}, rows : Nat,
                          from : Crafts \cup {NoCraft}, loading : BOOLEAN, error : BOOLEAN]
           /\ panel'.shown = p.shown /\ panel'.rows = p.rows /\ panel'.from = p.from
           /\ panelSends' \in Seq(PanelAsks)
           /\ \A k \in 1..Len(panelSends') : panelSends'[k].type = "log_erase" =>
                k \in 1..Len(panelSends) /\ panelSends'[k] = panelSends[k]
<1>1. h.craft.target \in Crafts
  BY DEF CraftStates
<1>2. panel' \in [shown : BOOLEAN, asked : Crafts \cup {NoCraft}, rows : Nat,
                  from : Crafts \cup {NoCraft}, loading : BOOLEAN, error : BOOLEAN]
      /\ panel'.shown = p.shown /\ panel'.rows = p.rows /\ panel'.from = p.from
  BY <1>1 DEF WithList
<1>3. PICK es \in {<<>>, <<[type |-> "log_list"]>>} : panelSends' = panelSends \o es
  BY DEF WithList
<1>4. panelSends \in Seq(PanelAsks) /\ es \in Seq(PanelAsks) /\ \A k \in 1..Len(es) : es[k].type # "log_erase"
  <2>1. CASE es = <<>>
    BY <2>1 DEF LogInv, LogTypes
  <2>2. CASE es = <<[type |-> "log_list"]>>
    <3>1. [type |-> "log_list"] \in PanelAsks
      BY DEF PanelAsks
    <3>2. es \in Seq(PanelAsks) /\ Len(es) = 1 /\ es[1] = [type |-> "log_list"]
      BY <2>2, <3>1
    <3>3. QED BY <3>2 DEF LogInv, LogTypes
  <2>3. QED BY <1>3, <2>1, <2>2
<1>5. /\ panelSends' \in Seq(PanelAsks) /\ Len(panelSends') = Len(panelSends) + Len(es)
      /\ \A k \in 1..(Len(panelSends) + Len(es)) : panelSends'[k] =
           IF k <= Len(panelSends) THEN panelSends[k] ELSE es[k - Len(panelSends)]
      /\ Len(panelSends) \in Nat /\ Len(es) \in Nat
  BY <1>3, <1>4, ConcatProperties, LenProperties
<1>6. QED BY <1>2, <1>4, <1>5

LEMMA PageLogStep ==
    ASSUME LogInv,
           \/ ShowPanel \/ LeavePanel \/ RequestList \/ OpenEraser \/ CommitErase \/ ConfirmErase
           \/ ClearErase
    PROVE  LogInv'
<1>1. NoRows \in [shown : BOOLEAN, asked : Crafts \cup {NoCraft}, rows : Nat,
                  from : Crafts \cup {NoCraft}, loading : BOOLEAN, error : BOOLEAN]
      /\ NoRows.rows = 0 /\ Unticked \in Ticks
  BY DEF NoRows, Ticks
<1>2. UNCHANGED <<panelWorker, panelHears, heard>>
  BY Zenon DEF ShowPanel, LeavePanel, RequestList, OpenEraser, CommitErase, ConfirmErase, ClearErase
<1>3. EraseKey \in Ticks /\ EraseKey.rows = panel.rows /\ EraseKey.target = heard.craft.target
  BY DEF EraseKey, Ticks, LogInv, LogTypes, CraftStates
<1>4. /\ panelSends' \in Seq(PanelAsks)
      /\ \A k \in 1..Len(panelSends') : panelSends'[k].type = "log_erase" =>
           \/ k \in 1..Len(panelSends) /\ panelSends'[k] = panelSends[k]
           \/ /\ panelSends'[k].tick = EraseKey /\ panelSends'[k].rows = panel.rows
              /\ panelSends'[k].epoch = heard.craft.epoch
  <2>1. CASE panelSends' = panelSends
    BY <2>1 DEF LogInv, LogTypes
  <2>2. CASE ShowPanel
    <3>1. WithList(NoRows, heard)
      BY <2>2, Zenon DEF ShowPanel
    <3>2. QED BY <1>1, <3>1, ListAsked DEF LogInv, LogTypes
  <2>3. ASSUME NEW e \in PanelAsks, panelSends' = Append(panelSends, e),
               e.type = "log_erase" => e.tick = EraseKey /\ e.rows = panel.rows /\ e.epoch = heard.craft.epoch
        PROVE  <1>4!1 /\ <1>4!2
    BY <2>3, AppendProperties, LenProperties DEF LogInv, LogTypes
  <2>4. CASE RequestList
    BY <2>3, <2>4 DEF RequestList, PanelAsks
  <2>5. CASE ConfirmErase
    <3>1. \/ panelSends' = panelSends
          \/ panelSends' = Append(panelSends, [type |-> "log_erase", epoch |-> heard.craft.epoch,
                                               rows |-> panel.rows, tick |-> EraseKey])
      BY <2>5 DEF ConfirmErase, EraseCommitted
    <3>2. [type |-> "log_erase", epoch |-> heard.craft.epoch, rows |-> panel.rows, tick |-> EraseKey] \in PanelAsks
      BY <1>3 DEF PanelAsks, LogInv, LogTypes, CraftStates
    <3>3. QED BY <2>1, <2>3, <3>1, <3>2
  <2>6. CASE LeavePanel \/ OpenEraser \/ CommitErase \/ ClearErase
    BY <2>1, <2>6 DEF LeavePanel, OpenEraser, CommitErase, ClearErase
  <2>7. QED BY <2>2, <2>4, <2>5, <2>6
<1>5. /\ panel' \in [shown : BOOLEAN, asked : Crafts \cup {NoCraft}, rows : Nat,
                     from : Crafts \cup {NoCraft}, loading : BOOLEAN, error : BOOLEAN]
      /\ panel'.shown /\ panel'.rows > 0 => panel'.from = heard.craft.target
  <2>1. CASE ShowPanel
    <3>1. WithList(NoRows, heard)
      BY <2>1, Zenon DEF ShowPanel
    <3>2. QED BY <1>1, <3>1, ListAsked DEF LogInv, LogTypes
  <2>2. CASE LeavePanel
    BY <2>2 DEF LeavePanel, LogInv, LogTypes
  <2>3. CASE RequestList
    BY <2>3 DEF RequestList, LogInv, LogTypes
  <2>4. CASE panel' = panel
    BY <2>4 DEF LogInv, LogTypes
  <2>5. QED BY <2>1, <2>2, <2>3, <2>4 DEF OpenEraser, CommitErase, ConfirmErase, ClearErase
<1>6. eraser' \in [open : BOOLEAN, tick : Ticks]
  <2>1. \/ eraser' = eraser \/ eraser' = [eraser EXCEPT !.open = FALSE]
        \/ eraser' = [eraser EXCEPT !.tick = EraseKey]
        \/ \E on \in BOOLEAN : eraser' = [open |-> on, tick |-> Unticked]
    BY Zenon DEF ShowPanel, LeavePanel, RequestList, OpenEraser, CommitErase, ConfirmErase, ClearErase
  <2>2. eraser \in [open : BOOLEAN, tick : Ticks]
    BY DEF LogInv, LogTypes
  <2>3. /\ [eraser EXCEPT !.open = FALSE] \in [open : BOOLEAN, tick : Ticks]
        /\ [eraser EXCEPT !.tick = EraseKey] \in [open : BOOLEAN, tick : Ticks]
        /\ \A on \in BOOLEAN : [open |-> on, tick |-> Unticked] \in [open : BOOLEAN, tick : Ticks]
    BY <1>1, <1>3, <2>2
  <2>4. QED BY <2>1, <2>2, <2>3, Zenon
<1>7. LogTypes'
  BY <1>2, <1>4, <1>5, <1>6 DEF LogInv, LogTypes, panelWorker
<1>8. \A k \in 1..Len(panelSends') : panelSends'[k].type = "log_erase" =>
        /\ panelSends'[k].tick.rows = panelSends'[k].rows /\ panelSends'[k].epoch <= craft.epoch
        /\ panelSends'[k].epoch = craft.epoch => panelSends'[k].tick.target = craft.target
  BY <1>3, <1>4 DEF LogInv, NotAhead
<1>9. QED BY <1>2, <1>5, <1>7, <1>8 DEF LogInv, NotAhead, panelWorker

(* The next news are heard.                                                  *)
LEMMA HearPanelStep ==
    ASSUME LogInv, HearPanel
    PROVE  LogInv'
<1> DEFINE e == Head(panelHears)
<1>1. /\ panelHears # <<>> /\ panelHears' = Tail(panelHears)
      /\ UNCHANGED panelWorker
  BY Zenon DEF HearPanel
<1>2. /\ e \in News /\ panelHears' \in Seq(News) /\ 1 \in 1..Len(panelHears) /\ e = panelHears[1]
      /\ \A k \in 1..Len(panelHears') : k + 1 \in 1..Len(panelHears) /\ panelHears'[k] = panelHears[k + 1]
  BY <1>1, EmptySeq, HeadTailProperties, LenProperties DEF LogInv, LogTypes
<1>3. /\ InOrder(panelHears', IF e.type = "craft" THEN e.craft ELSE heard.craft, craft)
      /\ e.type = "log_list" => heard.craft.target = e.target
  BY <1>1, InOrderTail DEF LogInv, LogTypes
<1>4. \A k \in 1..Len(panelHears') : panelHears'[k].type = "craft" => NotAhead(panelHears'[k].craft, craft)
  BY <1>2 DEF LogInv
<1>5. /\ e.type = "craft" => e.craft \in CraftStates /\ NotAhead(e.craft, craft)
      /\ e.type = "sync" => e.on \in BOOLEAN
      /\ e.type = "log_list" => e.target \in Crafts /\ e.rows \in Nat
  BY <1>2 DEF News, LogInv
<1> HIDE DEF e
<1> DEFINE same == panelSends' = panelSends
           kept == \A k \in 1..Len(panelSends') : panelSends'[k].type = "log_erase" =>
                       k \in 1..Len(panelSends) /\ panelSends'[k] = panelSends[k]
           sends == panelSends' \in Seq(PanelAsks) /\ kept
           shows == /\ panel' \in [shown : BOOLEAN, asked : Crafts \cup {NoCraft}, rows : Nat,
                                   from : Crafts \cup {NoCraft}, loading : BOOLEAN, error : BOOLEAN]
                    /\ panel'.shown /\ panel'.rows > 0 => panel'.from = heard'.craft.target
           knows == /\ heard' \in [craft : CraftStates, sync : BOOLEAN]
                    /\ heard'.craft = IF e.type = "craft" THEN e.craft ELSE heard.craft
           asking == eraser' \in [open : BOOLEAN, tick : Ticks]
<1>6. sends /\ shows /\ knows /\ asking
  <2>1. same => sends
    BY DEF LogInv, LogTypes
  <2>2. CASE e.type = "craft"
    <3>1. HearCraft(e.craft)
      BY <2>2 DEF HearPanel, e
    <3>2. knows
      BY <1>5, <2>2, <3>1 DEF HearCraft, LogInv, LogTypes
    <3>3. asking
      BY <3>1 DEF HearCraft, LogInv, LogTypes
    <3> DEFINE moved == e.craft.target # heard.craft.target \/ e.craft.ready # heard.craft.ready
               p == IF ~panel.shown \/ ~moved THEN panel ELSE NoRows
    <3>4. WithList(p, heard')
      BY <3>1 DEF HearCraft
    <3>5. p \in [shown : BOOLEAN, asked : Crafts \cup {NoCraft}, rows : Nat,
                 from : Crafts \cup {NoCraft}, loading : BOOLEAN, error : BOOLEAN]
          /\ (p.shown /\ p.rows > 0 => p.from = e.craft.target)
      BY DEF NoRows, LogInv, LogTypes
    <3> HIDE DEF p
    <3>6. QED BY <2>2, <3>2, <3>3, <3>4, <3>5, ListAsked
  <2>3. CASE e.type = "sync"
    <3>1. heard' = [heard EXCEPT !.sync = e.on] /\ WithList(panel, heard') /\ UNCHANGED eraser
      BY <2>3 DEF HearPanel, e
    <3>2. knows /\ asking /\ heard'.craft = heard.craft
      BY <1>5, <2>3, <3>1 DEF LogInv, LogTypes
    <3>3. QED BY <3>1, <3>2, ListAsked DEF LogInv, LogTypes
  <2>4. CASE e.type = "log_list"
    <3>1. panel' = [panel EXCEPT !.rows = e.rows, !.from = e.target, !.loading = FALSE, !.error = FALSE]
          /\ UNCHANGED <<heard, panelSends, eraser>>
      BY <2>4 DEF HearPanel, e
    <3>2. QED BY <1>3, <1>5, <2>1, <2>4, <3>1 DEF LogInv, LogTypes
  <2>5. CASE e.type \in {"log_erase_done", "log_op_error"}
    <3>1. /\ panel' = panel \/ panel' = [panel EXCEPT !.loading = FALSE, !.error = TRUE]
          /\ UNCHANGED <<heard, panelSends, eraser>>
      <4>1. CASE e.type = "log_erase_done"
        BY <4>1 DEF HearPanel, e
      <4>2. CASE e.type = "log_op_error"
        <5>1. e.op = "list" \/ e.op = "erase"
          BY <1>2, <4>2 DEF News
        <5>2. QED BY <4>2, <5>1 DEF HearPanel, e
      <4>3. QED BY <2>5, <4>1, <4>2
    <3>2. QED BY <2>1, <2>5, <3>1 DEF LogInv, LogTypes
  <2>6. QED BY <1>2, <2>2, <2>3, <2>4, <2>5 DEF News
<1>7. LogTypes'
  BY <1>1, <1>2, <1>6 DEF LogInv, LogTypes, panelWorker
<1>8. \A k \in 1..Len(panelSends') : panelSends'[k].type = "log_erase" =>
        /\ panelSends'[k].tick.rows = panelSends'[k].rows /\ panelSends'[k].epoch <= craft.epoch
        /\ panelSends'[k].epoch = craft.epoch => panelSends'[k].tick.target = craft.target
  BY <1>6 DEF LogInv
<1> HIDE DEF sends
<1>9. NotAhead(heard'.craft, craft) /\ InOrder(panelHears', heard'.craft, craft)
  BY <1>3, <1>5, <1>6 DEF LogInv
<1>10. QED BY <1>1, <1>4, <1>6, <1>7, <1>8, <1>9 DEF LogInv, NotAhead, panelWorker

(* News that do not tell of the vehicle.                                     *)
LEMMA QuietNews ==
    ASSUME NEW q \in Seq(News), NEW known0 \in CraftStates, NEW c \in CraftStates,
           NEW e \in News, e.type # "craft", e.type = "log_list" => e.target = c.target,
           NEW on \in BOOLEAN, NEW es, es = IF on THEN <<e>> ELSE <<>>, InOrder(q, known0, c),
           NEW C \in SUBSET CraftStates,
           \A k \in 1..Len(q) : q[k].type = "craft" => q[k].craft \in C
    PROVE  /\ q \o es \in Seq(News) /\ InOrder(q \o es, known0, c)
           /\ \A k \in 1..Len(q \o es) : (q \o es)[k].type = "craft" => (q \o es)[k].craft \in C
<1>1. CASE on
  <2>1. es = <<e>> /\ es \in Seq(News) /\ Len(es) = 1 /\ es[1] = e
    BY <1>1
  <2>2. InOrder(q \o es, known0, c)
    BY <2>1, InOrderAppend
  <2>3. QED BY <2>1, <2>2, ConcatProperties, LenProperties
<1>2. CASE ~on
  BY <1>2, ConcatEmptySeq
<1>3. QED BY <1>1, <1>2

LEMMA WorkerLogStep ==
    ASSUME LogInv, ServeLog \/ LogOpEnds \/ LogSyncChanges \/ Records
    PROVE  LogInv'
<1> DEFINE C == {c \in CraftStates : NotAhead(c, craft)}
<1>1. UNCHANGED <<craft, heard, panel, eraser>>
  BY Zenon DEF ServeLog, LogOpEnds, LogSyncChanges, Records
<1>2. /\ panelHears \in Seq(News) /\ heard.craft \in CraftStates /\ craft \in CraftStates
      /\ InOrder(panelHears, heard.craft, craft)
      /\ \A k \in 1..Len(panelHears) : panelHears[k].type = "craft" => panelHears[k].craft \in C
  <2>1. \A k \in 1..Len(panelHears) : panelHears[k] \in News
    BY ElementOfSeq DEF LogInv, LogTypes
  <2>2. QED BY <2>1 DEF LogInv, LogTypes, News
<1>3. /\ logOp \in Operations /\ logs \in [Crafts -> Nat] /\ panelSends \in Seq(PanelAsks) /\ logSync \in BOOLEAN
      /\ craft.target \in Crafts /\ Unticked \in Ticks
  BY DEF LogInv, LogTypes, CraftStates, Ticks
<1> DEFINE hears == /\ panelHears' \in Seq(News) /\ InOrder(panelHears', heard.craft, craft)
                    /\ \A k \in 1..Len(panelHears') : panelHears'[k].type = "craft" => panelHears'[k].craft \in C
           does == /\ logOp' \in Operations
                   /\ logOp' # LogIdle => craft.ready /\ logOp'.target = craft.target
                   /\ logOp'.op = "erase" => logOp'.tick.target = craft.target
           keeps == logs' \in [Crafts -> Nat] /\ logSync' \in BOOLEAN
           sends == /\ panelSends' \in Seq(PanelAsks)
                    /\ \A k \in 1..Len(panelSends') : panelSends'[k].type = "log_erase" =>
                         /\ panelSends'[k].tick.rows = panelSends'[k].rows /\ panelSends'[k].epoch <= craft.epoch
                         /\ panelSends'[k].epoch = craft.epoch => panelSends'[k].tick.target = craft.target
<1>4. /\ panelHears' = panelHears => hears
      /\ logOp' = logOp => does
      /\ panelSends' = panelSends => sends
  BY <1>2, <1>3 DEF LogInv
<1>5. ASSUME NEW e \in News, e.type # "craft", e.type = "log_list" => e.target = craft.target,
             TellsPanel(<<e>>)
      PROVE  hears
  <2>1. panelHears' = panelHears \o <<e>>
    BY <1>5 DEF TellsPanel
  <2> HIDE DEF C
  <2>2. C \in SUBSET CraftStates
    BY DEF C
  <2>3. <<e>> = IF TRUE THEN <<e>> ELSE <<>>
    OBVIOUS
  <2>4. QED BY <1>2, <1>5, <2>1, <2>2, <2>3, QuietNews
<1>6. CASE ServeLog
  <2> DEFINE c == Head(panelSends)
             op == IF c.type = "log_list" THEN "list" ELSE "erase"
  <2>1. panelSends # <<>> /\ panelSends' = Tail(panelSends) /\ UNCHANGED <<logs, logSync>>
    BY <1>6, Zenon DEF ServeLog
  <2>2. /\ c \in PanelAsks /\ 1 \in 1..Len(panelSends) /\ c = panelSends[1] /\ panelSends' \in Seq(PanelAsks)
        /\ \A k \in 1..Len(panelSends') : k + 1 \in 1..Len(panelSends) /\ panelSends'[k] = panelSends[k + 1]
    BY <1>3, <2>1, EmptySeq, HeadTailProperties, LenProperties
  <2>3. sends
    BY <2>2, SMTT(30) DEF LogInv
  <2>4. \/ UNCHANGED <<logOp, panelHears>>
        \/ TellsPanel(<<LogError(op)>>) /\ UNCHANGED logOp
        \/ /\ ~LogRefused(c) /\ panelHears' = panelHears
           /\ logOp' = [op |-> op, target |-> craft.target, tick |-> IF op = "erase" THEN c.tick ELSE Unticked]
    BY <1>6, Zenon DEF ServeLog
  <2>5. op \in {"list", "erase"} /\ LogError(op) \in News /\ LogError(op).type = "log_op_error"
    BY DEF News, LogError
  <2>6. hears
    BY <1>4, <1>5, <2>4, <2>5
  <2>7. does
    <3>1. CASE logOp' = logOp
      BY <1>4, <3>1
    <3>2. CASE /\ ~LogRefused(c)
               /\ logOp' = [op |-> op, target |-> craft.target, tick |-> IF op = "erase" THEN c.tick ELSE Unticked]
      <4>1. craft.ready /\ (c.type = "log_erase" => c.epoch = craft.epoch)
        BY <3>2 DEF LogRefused
      <4>2. op = "erase" => c.type = "log_erase" /\ c.tick \in Ticks /\ c.tick.target = craft.target
        BY <2>2, <4>1 DEF PanelAsks, LogInv
      <4> HIDE DEF op, c
      <4>3. logOp' \in Operations /\ logOp'.op = op /\ logOp'.target = craft.target
            /\ (op = "erase" => logOp'.tick = c.tick)
        BY <1>3, <2>5, <3>2, <4>2 DEF Operations
      <4>4. QED BY <4>1, <4>2, <4>3
    <3>3. QED BY <2>4, <3>1, <3>2
  <2>8. QED BY <1>1, <1>3, <2>1, <2>3, <2>6, <2>7 DEF LogInv, LogTypes, NotAhead
<1>7. CASE LogOpEnds
  <2>1. logOp # LogIdle /\ logOp' = LogIdle /\ UNCHANGED <<logSync, panelSends>>
    BY <1>7, Zenon DEF LogOpEnds
  <2>2. logOp.op \in {"list", "erase"} /\ logOp.target = craft.target /\ LogIdle \in Operations /\ LogIdle.op = "idle"
    BY <1>3, <2>1 DEF Operations, LogInv, LogIdle
  <2>3. does
    BY <2>1, <2>2
  <2>4. keeps
    BY <1>3, <1>7, <2>1 DEF LogOpEnds
  <2>5. hears
    <3>1. CASE TellsPanel(<<[type |-> "log_list", target |-> logOp.target, rows |-> logs[logOp.target]]>>)
      BY <1>3, <1>5, <2>2, <3>1 DEF News
    <3>2. CASE TellsPanel(<<LogError(logOp.op)>>)
      BY <1>5, <2>2, <3>2 DEF News, LogError
    <3>3. CASE TellsPanel(<<[type |-> "log_list", target |-> logOp.target, rows |-> 0],
                            [type |-> "log_erase_done"]>>)
      <4> DEFINE e == [type |-> "log_list", target |-> logOp.target, rows |-> 0]
                 f == [type |-> "log_erase_done"]
                 q == panelHears \o <<e>>
      <4>1. e \in News /\ f \in News /\ e.type = "log_list" /\ e.target = craft.target /\ f.type = "log_erase_done"
        BY <1>3, <2>2 DEF News
      <4> HIDE DEF e, f
      <4>2. panelHears' = q \o <<f>>
        <5>2. <<e>> \in Seq(News) /\ <<f>> \in Seq(News) /\ <<e, f>> \in Seq(News)
          BY <4>1
        <5>1. <<e, f>> = <<e>> \o <<f>>
          <6>1. Len(<<e>>) = 1 /\ Len(<<f>>) = 1 /\ Len(<<e, f>>) = 2
            OBVIOUS
          <6>2. /\ <<e>> \o <<f>> \in Seq(News) /\ Len(<<e>> \o <<f>>) = 2
                /\ (<<e>> \o <<f>>)[1] = e /\ (<<e>> \o <<f>>)[2] = f
            BY <5>2, <6>1, ConcatProperties
          <6>3. \A k \in 1..2 : <<e, f>>[k] = (<<e>> \o <<f>>)[k]
            BY <6>2
          <6>4. QED BY <5>2, <6>1, <6>2, <6>3, SeqEqual
        <5>3. panelHears \o (<<e>> \o <<f>>) = q \o <<f>>
          BY <1>2, <5>2, ConcatAssociative
        <5>4. QED BY <3>3, <5>1, <5>3 DEF TellsPanel, e, f
      <4> HIDE DEF C
      <4>3. C \in SUBSET CraftStates /\ <<e>> = (IF TRUE THEN <<e>> ELSE <<>>) /\ <<f>> = (IF TRUE THEN <<f>> ELSE <<>>)
        BY DEF C
      <4>4. /\ q \in Seq(News) /\ InOrder(q, heard.craft, craft)
            /\ \A k \in 1..Len(q) : q[k].type = "craft" => q[k].craft \in C
        BY <1>2, <4>1, <4>3, QuietNews
      <4> HIDE DEF q
      <4>5. QED BY <1>2, <4>1, <4>2, <4>3, <4>4, QuietNews
    <3>4. QED BY <1>7, <3>1, <3>2, <3>3 DEF LogOpEnds
  <2>6. QED BY <1>1, <1>3, <1>4, <2>1, <2>3, <2>4, <2>5 DEF LogInv, LogTypes, NotAhead
<1>8. CASE LogSyncChanges
  <2>1. TellsPanel(<<[type |-> "sync", on |-> logSync']>>) /\ UNCHANGED <<logs, logOp, panelSends>>
    BY <1>8, Zenon DEF LogSyncChanges
  <2>2. logSync' \in BOOLEAN
    BY <1>8 DEF LogSyncChanges
  <2>3. hears
    BY <1>5, <2>1, <2>2 DEF News
  <2>4. QED BY <1>1, <1>3, <1>4, <2>1, <2>2, <2>3 DEF LogInv, LogTypes, NotAhead
<1>9. CASE Records
  <2>1. UNCHANGED <<logSync, logOp, panelSends, panelHears>> /\ logs' = [logs EXCEPT ![craft.target] = @ + 1]
    BY <1>9, Zenon DEF Records
  <2>2. QED BY <1>1, <1>3, <1>4, <2>1 DEF LogInv, LogTypes, NotAhead
<1>10. QED BY <1>6, <1>7, <1>8, <1>9

LEMMA CraftChangesStep ==
    ASSUME LogInv, CraftChanges
    PROVE  LogInv'
<1> DEFINE lost == craft'.target # craft.target \/ ~craft'.ready
           fails == lost /\ logOp # LogIdle
           ends == lost /\ logSync
           error == LogError(logOp.op)
           off == [type |-> "sync", on |-> FALSE]
           last == [type |-> "craft", craft |-> craft']
           es == IF fails THEN <<error>> ELSE <<>>
           fs == IF ends THEN <<off>> ELSE <<>>
           q == panelHears \o es
           r == q \o fs
           Old == {c \in CraftStates : NotAhead(c, craft)}
<1>1. /\ craft' \in CraftStates /\ craft'.epoch = craft.epoch + 1 /\ craft \in CraftStates
      /\ craft.epoch \in Nat
  BY DEF CraftChanges, CraftStates, LogInv, LogTypes
<1>2. /\ logOp' = (IF lost THEN LogIdle ELSE logOp) /\ logSync' = (logSync /\ ~lost)
      /\ TellsPanel((es \o fs) \o <<last>>)
      /\ UNCHANGED <<logs, panelSends, heard, panel, eraser>>
  BY Zenon DEF CraftChanges
<1>3. \A c \in Old : c \in CraftStates /\ c.epoch < craft'.epoch
  BY <1>1 DEF NotAhead, CraftStates
<1>4. /\ panelHears \in Seq(News) /\ heard.craft \in Old /\ heard.craft \in CraftStates
      /\ InOrder(panelHears, heard.craft, craft)
      /\ \A k \in 1..Len(panelHears) : panelHears[k].type = "craft" => panelHears[k].craft \in Old
      /\ logSync \in BOOLEAN /\ logOp \in Operations
  <2>1. \A k \in 1..Len(panelHears) : panelHears[k] \in News
    BY ElementOfSeq DEF LogInv, LogTypes
  <2>2. QED BY <2>1 DEF LogInv, LogTypes, News
<1>5. /\ fails => error \in News /\ error.type = "log_op_error"
      /\ off \in News /\ off.type = "sync"
      /\ last \in News /\ last.type = "craft" /\ last.craft = craft'
  BY <1>1, <1>4 DEF News, LogError, Operations
<1> HIDE DEF Old, lost
<1>6. /\ q \in Seq(News) /\ InOrder(q, heard.craft, craft) /\ es \in Seq(News)
      /\ \A k \in 1..Len(q) : q[k].type = "craft" => q[k].craft \in Old
  <2>1. Old \in SUBSET CraftStates
    BY <1>3
  <2>2. CASE fails
    <3>1. es = IF TRUE THEN <<error>> ELSE <<>>
      BY <2>2
    <3>2. es \in Seq(News)
      BY <1>5, <2>2
    <3> HIDE DEF es, error
    <3>3. QED BY <1>1, <1>4, <1>5, <2>1, <2>2, <3>1, <3>2, QuietNews
  <2>3. CASE ~fails
    <3>1. es = <<>>
      BY <2>3
    <3>2. q = panelHears /\ es \in Seq(News)
      BY <1>4, <3>1, ConcatEmptySeq
    <3> HIDE DEF q, es
    <3>3. QED BY <1>4, <3>2
  <2>4. QED BY <2>2, <2>3
<1> HIDE DEF es, q
<1>7. /\ r \in Seq(News) /\ InOrder(r, heard.craft, craft) /\ fs \in Seq(News)
      /\ \A k \in 1..Len(r) : r[k].type = "craft" => r[k].craft \in Old
  <2>1. Old \in SUBSET CraftStates /\ ends \in BOOLEAN
    BY <1>3
  <2>2. fs \in Seq(News)
    BY <1>5
  <2>3. fs = IF ends THEN <<off>> ELSE <<>>
    OBVIOUS
  <2> HIDE DEF fs, off, ends
  <2>4. QED BY <1>1, <1>4, <1>5, <1>6, <2>1, <2>2, <2>3, QuietNews
<1> HIDE DEF fs, r
<1>8. panelHears' = r \o <<last>>
  <2>1. <<last>> \in Seq(News)
    BY <1>5
  <2>2. panelHears \o ((es \o fs) \o <<last>>) = (panelHears \o (es \o fs)) \o <<last>>
    BY <1>4, <1>6, <1>7, <2>1, ConcatProperties, ConcatAssociative, SMTT(30)
  <2>3. panelHears \o (es \o fs) = (panelHears \o es) \o fs
    <3>1. panelHears \in Seq(News) /\ es \in Seq(News) /\ fs \in Seq(News)
      BY <1>4, <1>6, <1>7
    <3>2. QED BY <3>1, ConcatAssociative
  <2>4. QED BY <1>2, <2>2, <2>3 DEF TellsPanel, r, q
<1>9. InOrder(panelHears', heard.craft, craft')
  BY <1>1, <1>4, <1>5, <1>7, <1>8, InOrderAppend
<1>10. /\ panelHears' \in Seq(News)
       /\ \A k \in 1..Len(panelHears') : panelHears'[k].type = "craft" =>
            panelHears'[k].craft \in Old \/ panelHears'[k].craft = craft'
  <2>1. <<last>> \in Seq(News) /\ Len(<<last>>) = 1 /\ <<last>>[1] = last
    BY <1>5
  <2> HIDE DEF last
  <2>2. /\ panelHears' \in Seq(News) /\ Len(panelHears') = Len(r) + 1 /\ Len(r) \in Nat
        /\ \A k \in 1..(Len(r) + 1) : panelHears'[k] = IF k <= Len(r) THEN r[k] ELSE <<last>>[k - Len(r)]
    BY <1>7, <1>8, <2>1, ConcatProperties, LenProperties
  <2>3. \A k \in 1..(Len(r) + 1) : k \in 1..Len(r) \/ (k = Len(r) + 1 /\ panelHears'[k] = last)
    BY <2>1, <2>2
  <2>4. QED BY <1>5, <1>7, <2>2, <2>3
<1>11. \A c \in Old : NotAhead(c, craft')
  BY <1>1, <1>3 DEF NotAhead, CraftStates
<1>12. \A k \in 1..Len(panelHears') : panelHears'[k].type = "craft" => NotAhead(panelHears'[k].craft, craft')
  <2>1. NotAhead(craft', craft')
    BY <1>1 DEF NotAhead
  <2>2. QED BY <1>10, <1>11, <2>1 DEF NotAhead
<1>13. /\ logOp' \in Operations
       /\ logOp' # LogIdle => craft'.ready /\ logOp'.target = craft'.target
       /\ logOp'.op = "erase" => logOp'.tick.target = craft'.target
  <2>1. CASE lost
    BY <1>2, <2>1 DEF Operations, LogIdle
  <2>2. CASE ~lost
    BY <1>2, <1>4, <2>2 DEF lost, LogInv
  <2>3. QED BY <2>1, <2>2
<1>14. \A k \in 1..Len(panelSends) : panelSends[k] \in PanelAsks
  BY ElementOfSeq DEF LogInv, LogTypes
<1>15. \A k \in 1..Len(panelSends) : panelSends[k].type = "log_erase" =>
        /\ panelSends[k].tick.rows = panelSends[k].rows /\ panelSends[k].epoch <= craft'.epoch
        /\ panelSends[k].epoch # craft'.epoch
  BY <1>1, <1>14 DEF LogInv, PanelAsks
<1>16. LogTypes'
  BY <1>1, <1>2, <1>4, <1>10, <1>13 DEF LogInv, LogTypes
<1>17. NotAhead(heard.craft, craft')
  BY <1>2, <1>4, <1>11 DEF NotAhead
<1>18. panelSends' = panelSends /\ panel' = panel /\ heard' = heard
  BY <1>2
<1>19. \A k \in 1..Len(panelSends') : panelSends'[k].type = "log_erase" =>
         /\ panelSends'[k].tick.rows = panelSends'[k].rows /\ panelSends'[k].epoch <= craft'.epoch
         /\ panelSends'[k].epoch = craft'.epoch => panelSends'[k].tick.target = craft'.target
  BY <1>15, <1>18
<1>20. panel'.shown /\ panel'.rows > 0 => panel'.from = heard'.craft.target
  BY <1>18 DEF LogInv
<1>21. QED BY <1>9, <1>12, <1>13, <1>16, <1>17, <1>18, <1>19, <1>20 DEF LogInv

LEMMA LogStep == LogInv /\ [LogPanelNext]_logPanelVars => LogInv'
<1> SUFFICES ASSUME LogInv, [LogPanelNext]_logPanelVars PROVE LogInv'
  OBVIOUS
<1>1. CASE UNCHANGED logPanelVars
  BY <1>1 DEF logPanelVars, LogInv, LogTypes, NotAhead
<1>2. QED BY <1>1, PageLogStep, HearPanelStep, WorkerLogStep, CraftChangesStep DEF LogPanelNext

(* The rows shown are those of the vehicle on the screen; an erasure runs on *)
(* the vehicle, and was confirmed for the list, that the user had on the     *)
(* screen when ticking the commitment, however the vehicle, its safety epoch *)
(* and the list change meanwhile (eraseConfirmationKey, confirmErase).       *)
THEOREM ErasureIsTicked == LogPanelSpec => []ErasesWhatWasTicked
<1>1. ASSUME LogInv PROVE ErasesWhatWasTicked
  <2>1. logOp.op = "erase" => logOp # LogIdle
    BY DEF LogIdle
  <2>2. QED BY <1>1, <2>1 DEF LogInv, ErasesWhatWasTicked
<1>2. QED BY <1>1, LogStart, LogStep, PTL DEF LogPanelSpec
-----------------------------------------------------------------------------
(* The PX4 shell.  What is on its way between the terminal and the bridge.   *)
Flights == [ready : BOOLEAN, target : BOOLEAN, armed : {"unknown", "no", "yes"}]
Reasons == {"none", "closed", "reset", "target_not_ready", "shell_busy", "armed", "unsafe_arming_state",
            "busy", "transfer_busy", "probing", "write", "write_failed", "shell_not_open",
            "shell_probe_timeout"}
Terminals == [active : BOOLEAN, reason : Reasons]
Told == [kind : {"status"}, shown : Terminals] \cup [kind : {"flight"}, flight : Flights]
        \cup [kind : {"error"}, code : Reasons]
Asked == {"open", "write", "close", "session"}

ShellTypes ==
    /\ flight \in Flights /\ owned \in BOOLEAN /\ transfer \in BOOLEAN /\ left \in BOOLEAN
    /\ shell \in {"closed", "pending", "active"} /\ claimed \in BOOLEAN /\ toPage \in Seq(Told) /\ toWorker \in Seq(Asked) /\ known \in Flights
    /\ visible \in BOOLEAN /\ opened \in BOOLEAN /\ terminal \in Terminals

TurnsOn(e) == e.kind = "status" /\ e.shown.active
TurnsOff(e) == e.kind = "error" \/ (e.kind = "status" /\ ~e.shown.active)

(* Whatever turns the terminal on, what is on now included, is followed by   *)
(* what turns it off.                                                        *)
Settles(q, on) ==
    /\ on => \E j \in 1..Len(q) : TurnsOff(q[j])
    /\ \A i \in 1..Len(q) : TurnsOn(q[i]) => \E j \in 1..Len(q) : i < j /\ TurnsOff(q[j])

(* Every opening on its way is followed by a closing.                        *)
CloseFollows(q) ==
    \A i \in 1..Len(q) : q[i] = "open" => \E j \in 1..Len(q) : i < j /\ q[j] = "close"
ClosesIn(q) == \E j \in 1..Len(q) : q[j] = "close"

ShellInv ==
    /\ ShellTypes
    /\ shell # "closed" => claimed
    /\ left => shell # "closed"
    /\ ~opened => CloseFollows(toWorker) /\ (shell # "closed" => ClosesIn(toWorker) \/ left)
    /\ shell # "active" => Settles(toPage, terminal.active)

LEMMA ShellStart == ShellInit => ShellInv
<1> SUFFICES ASSUME ShellInit PROVE ShellInv
  OBVIOUS
<1>1. /\ flight = [ready |-> FALSE, target |-> FALSE, armed |-> "unknown"] /\ known = flight
      /\ terminal = [active |-> FALSE, reason |-> "none"] /\ owned = FALSE /\ left = FALSE
      /\ transfer = FALSE /\ shell = "closed" /\ claimed = FALSE /\ toPage = <<>> /\ toWorker = <<>>
      /\ visible = FALSE /\ opened = FALSE
  BY DEF ShellInit, Off
<1>2. ShellTypes
  <2>1. flight \in Flights /\ known \in Flights /\ terminal \in Terminals
    BY <1>1 DEF Flights, Terminals, Reasons
  <2>2. <<>> \in Seq(Told) /\ <<>> \in Seq(Asked)
    OBVIOUS
  <2>3. QED BY <1>1, <2>1, <2>2 DEF ShellTypes
<1>3. Settles(<<>>, FALSE) /\ CloseFollows(<<>>)
  BY DEF Settles, CloseFollows
<1>4. QED BY <1>1, <1>2, <1>3 DEF ShellInv

LEMMA SettlesConcat ==
    ASSUME NEW q \in Seq(Told), NEW es \in Seq(Told), NEW on \in BOOLEAN,
           \A k \in 1..Len(es) : ~TurnsOn(es[k]),
           Settles(q, on) \/ \E k \in 1..Len(es) : TurnsOff(es[k])
    PROVE  q \o es \in Seq(Told) /\ Settles(q \o es, on)
<1>1. /\ q \o es \in Seq(Told) /\ Len(q \o es) = Len(q) + Len(es) /\ Len(q) \in Nat /\ Len(es) \in Nat
      /\ \A i \in 1..(Len(q) + Len(es)) : (q \o es)[i] = IF i <= Len(q) THEN q[i] ELSE es[i - Len(q)]
  BY ConcatProperties, LenProperties
<1> DEFINE r == q \o es
<1>2. r \in Seq(Told) /\ Len(r) = Len(q) + Len(es)
      /\ (\A i \in 1..Len(q) : i \in 1..Len(r) /\ r[i] = q[i])
      /\ (\A k \in 1..Len(es) : Len(q) + k \in 1..Len(r) /\ r[Len(q) + k] = es[k] /\ Len(q) + k > Len(q))
      /\ (\A i \in 1..Len(r) : i \in 1..Len(q) \/ (i - Len(q) \in 1..Len(es) /\ r[i] = es[i - Len(q)]))
  BY <1>1
<1> HIDE DEF r
<1>3. \A i \in 1..Len(r) : TurnsOn(r[i]) => i \in 1..Len(q) /\ TurnsOn(q[i])
  BY <1>2
<1>4. ASSUME Settles(q, on) PROVE Settles(r, on)
  <2>1. on => \E j \in 1..Len(r) : TurnsOff(r[j])
    BY <1>2, <1>4 DEF Settles
  <2>2. ASSUME NEW i \in 1..Len(r), TurnsOn(r[i]) PROVE \E j \in 1..Len(r) : i < j /\ TurnsOff(r[j])
    <3>1. i \in 1..Len(q) /\ TurnsOn(q[i])
      BY <1>3, <2>2
    <3>2. PICK j \in 1..Len(q) : i < j /\ TurnsOff(q[j])
      BY <1>4, <3>1 DEF Settles
    <3>3. j \in 1..Len(r) /\ TurnsOff(r[j])
      BY <1>2, <3>2
    <3>4. QED BY <3>2, <3>3
  <2>3. QED BY <2>1, <2>2 DEF Settles
<1>5. ASSUME NEW k \in 1..Len(es), TurnsOff(es[k]) PROVE Settles(r, on)
  <2>1. Len(q) + k \in 1..Len(r) /\ TurnsOff(r[Len(q) + k]) /\ \A i \in 1..Len(q) : i < Len(q) + k
    BY <1>1, <1>2, <1>5
  <2>2. QED BY <1>3, <2>1 DEF Settles
<1>6. QED BY <1>2, <1>4, <1>5 DEF r

LEMMA SettlesTail ==
    ASSUME NEW q \in Seq(Told), q # <<>>, NEW on \in BOOLEAN, NEW now \in BOOLEAN, Settles(q, on),
           now => TurnsOn(Head(q)) \/ (on /\ ~TurnsOff(Head(q)))
    PROVE  Settles(Tail(q), now)
<1> DEFINE r == Tail(q)
<1>1. /\ Len(q) \in Nat \ {0} /\ Len(r) = Len(q) - 1 /\ Head(q) = q[1]
      /\ \A k \in 1..Len(r) : r[k] = q[k + 1]
  BY EmptySeq, HeadTailProperties, LenProperties
<1> HIDE DEF r
<1>2. \A j \in 1..Len(q) : j # 1 => j - 1 \in 1..Len(r) /\ r[j - 1] = q[j]
  BY <1>1
<1>3. now => \E j \in 1..Len(r) : TurnsOff(r[j])
  <2>1. ASSUME now PROVE \E j \in 1..Len(q) : j # 1 /\ TurnsOff(q[j])
    <3>1. CASE TurnsOn(q[1])
      <4>1. PICK j \in 1..Len(q) : 1 < j /\ TurnsOff(q[j])
        BY <1>1, <3>1 DEF Settles
      <4>2. QED BY <4>1
    <3>2. CASE on /\ ~TurnsOff(q[1])
      BY <3>2 DEF Settles
    <3>3. QED BY <1>1, <2>1, <3>1, <3>2
  <2>2. QED BY <1>2, <2>1
<1>4. ASSUME NEW i \in 1..Len(r), TurnsOn(r[i])
      PROVE  \E j \in 1..Len(r) : i < j /\ TurnsOff(r[j])
  <2>1. i + 1 \in 1..Len(q) /\ TurnsOn(q[i + 1])
    BY <1>1, <1>4
  <2>2. PICK j \in 1..Len(q) : i + 1 < j /\ TurnsOff(q[j])
    BY <2>1 DEF Settles
  <2>3. j - 1 \in 1..Len(r) /\ i < j - 1 /\ TurnsOff(r[j - 1])
    BY <1>2, <2>2
  <2>4. QED BY <2>3
<1>5. QED BY <1>3, <1>4 DEF Settles, r

LEMMA AskedTail ==
    ASSUME NEW q \in Seq(Asked), q # <<>>
    PROVE  /\ Tail(q) \in Seq(Asked)
           /\ CloseFollows(q) => CloseFollows(Tail(q)) /\ (Head(q) = "open" => ClosesIn(Tail(q)))
           /\ ClosesIn(q) /\ Head(q) # "close" => ClosesIn(Tail(q))
<1> DEFINE r == Tail(q)
<1>1. /\ Len(q) \in Nat \ {0} /\ Len(r) = Len(q) - 1 /\ Head(q) = q[1] /\ r \in Seq(Asked)
      /\ \A k \in 1..Len(r) : r[k] = q[k + 1]
  BY EmptySeq, HeadTailProperties, LenProperties
<1> HIDE DEF r
<1>2. \A j \in 1..Len(q) : j # 1 => j - 1 \in 1..Len(r) /\ r[j - 1] = q[j]
  BY <1>1
<1>3. ClosesIn(q) /\ q[1] # "close" => ClosesIn(r)
  BY <1>2 DEF ClosesIn
<1>4. ASSUME CloseFollows(q), q[1] = "open" PROVE ClosesIn(r)
  <2>1. PICK j \in 1..Len(q) : 1 < j /\ q[j] = "close"
    BY <1>1, <1>4 DEF CloseFollows
  <2>2. QED BY <1>2, <2>1 DEF ClosesIn
<1>5. ASSUME CloseFollows(q), NEW i \in 1..Len(r), r[i] = "open"
      PROVE  \E j \in 1..Len(r) : i < j /\ r[j] = "close"
  <2>1. i + 1 \in 1..Len(q) /\ q[i + 1] = "open"
    BY <1>1, <1>5
  <2>2. PICK j \in 1..Len(q) : i + 1 < j /\ q[j] = "close"
    BY <1>5, <2>1 DEF CloseFollows
  <2>3. j - 1 \in 1..Len(r) /\ i < j - 1 /\ r[j - 1] = "close"
    BY <1>2, <2>2
  <2>4. QED BY <2>3
<1>6. QED BY <1>1, <1>3, <1>4, <1>5 DEF CloseFollows, r

LEMMA AskedAppend ==
    ASSUME NEW q \in Seq(Asked), NEW a \in Asked
    PROVE  /\ Append(q, a) \in Seq(Asked)
           /\ a = "close" => ClosesIn(Append(q, a)) /\ CloseFollows(Append(q, a))
           /\ a \in {"write", "session"} /\ CloseFollows(q) => CloseFollows(Append(q, a))
           /\ a \in {"write", "session"} /\ ClosesIn(q) => ClosesIn(Append(q, a))
<1> DEFINE r == Append(q, a)
<1>1. /\ r \in Seq(Asked) /\ Len(q) \in Nat /\ Len(r) = Len(q) + 1 /\ r[Len(q) + 1] = a
      /\ \A k \in 1..Len(q) : k \in 1..Len(r) /\ r[k] = q[k]
  BY AppendProperties, LenProperties
<1> HIDE DEF r
<1>2. \A k \in 1..Len(r) : k \in 1..Len(q) \/ k = Len(q) + 1
  BY <1>1
<1>3. ASSUME a = "close" PROVE ClosesIn(r) /\ CloseFollows(r)
  <2>1. Len(q) + 1 \in 1..Len(r) /\ \A k \in 1..Len(q) : k < Len(q) + 1
    BY <1>1
  <2>2. QED BY <1>1, <1>2, <1>3, <2>1 DEF ClosesIn, CloseFollows
<1>4. ASSUME a \in {"write", "session"} PROVE (CloseFollows(q) => CloseFollows(r)) /\ (ClosesIn(q) => ClosesIn(r))
  BY <1>1, <1>2, <1>4 DEF ClosesIn, CloseFollows
<1>5. QED BY <1>1, <1>3, <1>4 DEF r

(* What the bridge tells never turns the terminal on unless the shell is     *)
(* active, and turns it off whenever the shell ceases to be.                 *)
Speaks ==
    \E es \in Seq(Told) :
       /\ toPage' = toPage \o es
       /\ shell' # "active" =>
            /\ \A k \in 1..Len(es) : ~TurnsOn(es[k])
            /\ shell = "active" => \E k \in 1..Len(es) : TurnsOff(es[k])

LEMMA Saying ==
    /\ \A r \in Reasons : Status(Off(r)) \in Told /\ TurnsOff(Status(Off(r))) /\ ~TurnsOn(Status(Off(r)))
    /\ \A c \in Reasons : Error(c) \in Told /\ TurnsOff(Error(c)) /\ ~TurnsOn(Error(c))
    /\ \A f \in Flights : Flight(f) \in Told /\ ~TurnsOn(Flight(f))
    /\ Status(On) \in Told
<1>1. \A r \in Reasons : Status(Off(r)) \in Told /\ TurnsOff(Status(Off(r))) /\ ~TurnsOn(Status(Off(r)))
  BY DEF Status, Off, Told, Terminals, TurnsOn, TurnsOff
<1>2. \A c \in Reasons : Error(c) \in Told /\ TurnsOff(Error(c)) /\ ~TurnsOn(Error(c))
  BY DEF Error, Told, TurnsOn, TurnsOff
<1>3. \A f \in Flights : Flight(f) \in Told /\ ~TurnsOn(Flight(f))
  BY DEF Flight, Told, TurnsOn
<1>4. Status(On) \in Told
  BY DEF Status, On, Told, Terminals, Reasons
<1>5. QED BY <1>1, <1>2, <1>3, <1>4

LEMMA Sentences ==
    /\ \A a \in Told : Tells(<<a>>) /\ (shell' # "active" => ~TurnsOn(a))
         /\ (shell' # "active" /\ shell = "active" => TurnsOff(a)) => Speaks
    /\ \A a, b \in Told : Tells(<<a, b>>) /\ ~TurnsOn(a) /\ ~TurnsOn(b) /\ (TurnsOff(a) \/ TurnsOff(b)) => Speaks
    /\ \A a, b, c \in Told : Tells(<<a, b, c>>) /\ ~TurnsOn(a) /\ ~TurnsOn(b) /\ ~TurnsOn(c) /\ TurnsOff(a) => Speaks
<1>1. ASSUME NEW a \in Told, Tells(<<a>>), shell' # "active" => ~TurnsOn(a),
             shell' # "active" /\ shell = "active" => TurnsOff(a)
      PROVE  Speaks
  <2>1. <<a>> \in Seq(Told) /\ Len(<<a>>) = 1 /\ <<a>>[1] = a
    OBVIOUS
  <2> DEFINE es == <<a>>
  <2>2. toPage' = toPage \o es
    BY <1>1 DEF Tells
  <2> HIDE DEF es
  <2>3. es \in Seq(Told) /\ Len(es) = 1 /\ es[1] = a
    BY <2>1 DEF es
  <2>4. QED BY <1>1, <2>2, <2>3, SMTT(30) DEF Speaks
<1>2. ASSUME NEW a \in Told, NEW b \in Told, Tells(<<a, b>>), ~TurnsOn(a), ~TurnsOn(b), TurnsOff(a) \/ TurnsOff(b)
      PROVE  Speaks
  <2> DEFINE es == <<a, b>>
  <2>1. es \in Seq(Told) /\ Len(es) = 2 /\ es[1] = a /\ es[2] = b
    OBVIOUS
  <2>2. toPage' = toPage \o es
    BY <1>2 DEF Tells
  <2> HIDE DEF es
  <2>3. 1 \in 1..Len(es) /\ 2 \in 1..Len(es) /\ \A k \in 1..Len(es) : k = 1 \/ k = 2
    BY <2>1
  <2>4. QED BY <1>2, <2>1, <2>2, <2>3 DEF Speaks
<1>3. ASSUME NEW a \in Told, NEW b \in Told, NEW c \in Told, Tells(<<a, b, c>>),
             ~TurnsOn(a), ~TurnsOn(b), ~TurnsOn(c), TurnsOff(a)
      PROVE  Speaks
  <2> DEFINE es == <<a, b, c>>
  <2>1. es \in Seq(Told) /\ Len(es) = 3 /\ es[1] = a /\ es[2] = b /\ es[3] = c
    OBVIOUS
  <2>2. toPage' = toPage \o es
    BY <1>3 DEF Tells
  <2> HIDE DEF es
  <2>3. 1 \in 1..Len(es) /\ \A k \in 1..Len(es) : k = 1 \/ k = 2 \/ k = 3
    BY <2>1
  <2>4. QED BY <1>3, <2>1, <2>2, <2>3 DEF Speaks
<1>4. QED BY <1>1, <1>2, <1>3

(* The bridge's side, whatever it does: it speaks, and the shell has its     *)
(* claim.                                                                    *)
LEMMA BridgeSpeaks ==
    ASSUME ShellInv, FlightChanges \/ TargetEnds \/ TransferChanges \/ SessionEnds \/ HandleShellCommand
                     \/ PrepareDisconnect \/ ShellOutput \/ ProbeTimesOut
    PROVE  /\ Speaks
           /\ flight' \in Flights /\ transfer' \in BOOLEAN /\ shell' \in {"closed", "pending", "active"}
           /\ claimed' \in BOOLEAN /\ (shell' # "closed" => claimed') /\ owned' \in BOOLEAN
<1>1. /\ flight \in Flights /\ transfer \in BOOLEAN /\ owned \in BOOLEAN /\ shell \in {"closed", "pending", "active"}
      /\ claimed \in BOOLEAN /\ (shell # "closed" => claimed) /\ toPage \in Seq(Told)
  BY SMTT(30) DEF ShellInv, ShellTypes
<1>2. ASSUME toPage' = toPage, shell' = shell PROVE Speaks
  <2> DEFINE es == <<>>
  <2>1. es \in Seq(Told) /\ Len(es) = 0 /\ toPage \o es = toPage
    BY <1>1, ConcatEmptySeq
  <2> HIDE DEF es
  <2>2. shell' # "active" => ~(shell = "active") /\ \A k \in 1..Len(es) : FALSE
    BY <1>2, <2>1
  <2>3. QED BY <1>2, <2>1, <2>2 DEF Speaks
<1>3. ASSUME CloseShell("closed")
      PROVE  /\ Speaks /\ shell' \in {"closed", "pending", "active"} /\ claimed' \in BOOLEAN
             /\ shell' # "closed" => claimed'
  <2>1. Tells(<<Status(Off("closed"))>>) /\ "closed" \in Reasons
    BY <1>3 DEF CloseShell, Reasons
  <2>2. \/ shell = "closed" /\ shell' = shell /\ claimed' = claimed
        \/ shell' = "closed" /\ (claimed' = FALSE \/ claimed' = claimed)
    BY <1>3, Zenon DEF CloseShell, Nothing, Written, WriteFails
  <2>3. QED BY <1>1, <2>1, <2>2, Saying, Sentences
<1>4. CASE FlightChanges
  <2>1. flight' \in Flights /\ Tells(<<Flight(flight')>>) /\ UNCHANGED <<owned, transfer, shell, claimed>>
    <3>1. /\ \/ \E armed \in {"no", "yes"} : flight' = [ready |-> TRUE, target |-> TRUE, armed |-> armed]
             \/ flight' = [flight EXCEPT !.ready = FALSE]
          /\ Tells(<<Flight(flight')>>) /\ UNCHANGED <<owned, transfer, shell, claimed>>
      BY <1>4, Zenon DEF FlightChanges
    <3>2. flight' \in Flights
      <4>1. CASE \E armed \in {"no", "yes"} : flight' = [ready |-> TRUE, target |-> TRUE, armed |-> armed]
        BY <4>1 DEF Flights
      <4>2. CASE flight' = [flight EXCEPT !.ready = FALSE]
        <5>1. flight \in Flights
          BY <1>1
        <5>2. QED BY ONLY <4>2, <5>1 DEF Flights
      <4>3. QED BY <3>1, <4>1, <4>2
    <3>3. QED BY <3>1, <3>2, Zenon
  <2>2. QED BY <1>1, <2>1, Saying, Sentences
<1>5. CASE TargetEnds
  <2>1. /\ flight' \in Flights /\ shell' = "closed" /\ UNCHANGED <<owned, transfer, claimed>>
        /\ Tells((IF shell = "closed" THEN <<>> ELSE <<Status(Off("reset"))>>) \o <<Flight(flight')>>)
    <3>1. PICK ready \in {FALSE, flight.ready} : flight' = [ready |-> ready, target |-> FALSE, armed |-> "unknown"]
      BY <1>5, Zenon DEF TargetEnds
    <3>2. flight' \in Flights
      BY <1>1, <3>1 DEF Flights
    <3>3. QED BY <1>5, <3>2, Zenon DEF TargetEnds
  <2> DEFINE a == Status(Off("reset"))
             b == Flight(flight')
             es == (IF shell = "closed" THEN <<>> ELSE <<a>>) \o <<b>>
  <2>2. a \in Told /\ b \in Told /\ TurnsOff(a) /\ ~TurnsOn(a) /\ ~TurnsOn(b)
    BY <2>1, Saying DEF Reasons
  <2>3. toPage' = toPage \o es
    BY <2>1 DEF Tells
  <2> HIDE DEF a, b
  <2>4. /\ es \in Seq(Told) /\ \A k \in 1..Len(es) : ~TurnsOn(es[k])
        /\ shell # "closed" => \E k \in 1..Len(es) : TurnsOff(es[k])
    <3>1. <<b>> \in Seq(Told) /\ Len(<<b>>) = 1 /\ <<b>>[1] = b
      BY <2>2
    <3>2. CASE shell = "closed"
      <4>1. es = <<b>>
        BY <3>1, <3>2, ConcatEmptySeq
      <4> HIDE DEF es
      <4>2. es \in Seq(Told) /\ Len(es) = 1 /\ es[1] = b
        BY <3>1, <4>1
      <4>3. QED BY <2>2, <3>2, <4>2
    <3>3. CASE shell # "closed"
      <4>1. es = <<a>> \o <<b>>
        BY <3>3
      <4>2. <<a>> \in Seq(Told) /\ Len(<<a>>) = 1 /\ <<a>>[1] = a
        BY <2>2
      <4>3. es \in Seq(Told) /\ Len(es) = 2 /\ es[1] = a /\ es[2] = b
        BY <3>1, <4>1, <4>2, ConcatProperties
      <4> HIDE DEF es
      <4>4. QED BY <2>2, <4>3
    <3>4. QED BY <3>2, <3>3
  <2> HIDE DEF es
  <2>5. QED BY <1>1, <2>1, <2>3, <2>4 DEF Speaks
<1>6. CASE TransferChanges
  <2>1. transfer' = ~transfer /\ UNCHANGED <<flight, owned, shell, claimed, toPage>>
    BY <1>6, Zenon DEF TransferChanges
  <2>2. QED BY <1>1, <1>2, <2>1
<1>7. CASE ShellOutput
  <2>1. claimed /\ shell' = "active" /\ Tells(<<Status(On)>>) /\ UNCHANGED <<flight, owned, transfer, claimed>>
    BY <1>7, Zenon DEF ShellOutput
  <2>2. QED BY <1>1, <2>1, Saying, Sentences
<1>8. CASE ProbeTimesOut
  <2>1. /\ shell' = "closed" /\ Tells(<<Status(Off("shell_probe_timeout")), Error("shell_probe_timeout")>>)
        /\ UNCHANGED <<flight, owned, transfer>> /\ (claimed' = FALSE \/ claimed' = claimed)
    BY <1>8, Zenon DEF ProbeTimesOut, Written, WriteFails
  <2>2. "shell_probe_timeout" \in Reasons
    BY DEF Reasons
  <2>3. QED BY <1>1, <2>1, <2>2, Saying, Sentences
<1>9. CASE HandleShellCommand
  <2>1. /\ UNCHANGED <<flight, transfer>>
        /\ \/ StartSession \/ RefuseCommand
           \/ UNCHANGED owned /\ (OpenShell \/ WriteShell \/ CloseShell("closed"))
    BY <1>9, Zenon DEF HandleShellCommand
  <2>2. CASE UNCHANGED owned /\ CloseShell("closed")
    BY <1>1, <1>3, <2>1, <2>2
  <2>3. CASE StartSession \/ RefuseCommand
    <3>1. owned' \in {owned, TRUE} /\ UNCHANGED <<shell, claimed, toPage>>
      BY <2>3 DEF StartSession, RefuseCommand, Nothing
    <3>2. QED BY <1>1, <1>2, <2>1, <3>1
  <2>4. CASE UNCHANGED owned /\ WriteShell
    <3>1. /\ shell' = shell /\ claimed' = claimed
          /\ \/ toPage' = toPage \/ \E c \in {"target_not_ready", "shell_not_open", "write"} : Tells(<<Error(c)>>)
      BY <2>4, Zenon DEF WriteShell, Nothing, WriteFails
    <3>2. \A c \in {"target_not_ready", "shell_not_open", "write"} : c \in Reasons
      BY DEF Reasons
    <3>3. QED BY <1>1, <1>2, <2>1, <2>4, <3>1, <3>2, Saying, Sentences
  <2>5. CASE UNCHANGED owned /\ OpenShell
    <3>1. {"target_not_ready", "shell_busy", "armed", "unsafe_arming_state", "busy", "transfer_busy",
           "probing", "write", "write_failed"} \subseteq Reasons
      BY DEF Reasons
    <3>2. CASE shell' = shell /\ claimed' = claimed /\ \E c \in {"target_not_ready", "shell_busy"} : Tells(<<Error(c)>>)
      BY <1>1, <2>1, <2>5, <3>1, <3>2, Saying, Sentences
    <3>3. CASE shell' = shell /\ claimed' = claimed
               /\ \/ Tells(<<Error("armed"), Status(Off("unsafe_arming_state"))>>)
                  \/ Tells(<<Error("busy"), Status(Off("transfer_busy"))>>)
      BY <1>1, <2>1, <2>5, <3>1, <3>3, Saying, Sentences
    <3>4. CASE claimed' = TRUE /\ shell' = "pending" /\ Tells(<<Status(Off("probing"))>>)
      BY <1>1, <2>1, <2>5, <3>1, <3>4, Saying, Sentences
    <3>5. CASE shell' = shell /\ claimed' = claimed
               /\ Tells(<<Status(Off("probing")), Error("write"), Status(Off("write_failed"))>>)
      BY <1>1, <2>1, <2>5, <3>1, <3>5, Saying, Sentences
    <3>6. QED BY <2>5, <3>2, <3>3, <3>4, <3>5, Zenon DEF OpenShell, Nothing, Written, WriteFails
  <2>6. QED BY <2>1, <2>2, <2>4, <2>5, <2>3
<1>10. CASE PrepareDisconnect
  <2>1. owned' \in {owned, FALSE} /\ UNCHANGED <<flight, transfer>> /\ CloseShell("closed")
    BY <1>10, Zenon DEF PrepareDisconnect
  <2>2. QED BY <1>1, <1>3, <2>1
<1>11. CASE SessionEnds
  <2>1. owned' = FALSE /\ UNCHANGED <<flight, transfer, shell, claimed, toPage>>
    BY <1>11, Zenon DEF SessionEnds
  <2>2. QED BY <1>1, <1>2, <2>1
<1>12. QED BY <1>4, <1>5, <1>6, <1>7, <1>8, <1>9, <1>10, <1>11

LEMMA BridgeShellStep ==
    ASSUME ShellInv, FlightChanges \/ TargetEnds \/ TransferChanges \/ SessionEnds \/ HandleShellCommand
                     \/ PrepareDisconnect \/ ShellOutput \/ ProbeTimesOut
    PROVE  ShellInv'
<1>1. /\ Speaks
      /\ flight' \in Flights /\ transfer' \in BOOLEAN /\ shell' \in {"closed", "pending", "active"}
      /\ claimed' \in BOOLEAN /\ (shell' # "closed" => claimed') /\ owned' \in BOOLEAN
  BY BridgeSpeaks
<1>2. UNCHANGED shellPage
  BY Zenon DEF FlightChanges, TargetEnds, TransferChanges, SessionEnds, HandleShellCommand, PrepareDisconnect,
               ShellOutput, ProbeTimesOut
<1>3. toPage' \in Seq(Told) /\ (shell' # "active" => Settles(toPage', terminal.active))
  <2>1. PICK es \in Seq(Told) :
          /\ toPage' = toPage \o es
          /\ shell' # "active" =>
               /\ \A k \in 1..Len(es) : ~TurnsOn(es[k])
               /\ shell = "active" => \E k \in 1..Len(es) : TurnsOff(es[k])
    BY <1>1 DEF Speaks
  <2>2. toPage \in Seq(Told) /\ terminal.active \in BOOLEAN /\ (shell # "active" => Settles(toPage, terminal.active))
    BY DEF ShellInv, ShellTypes, Terminals
  <2>3. toPage' \in Seq(Told)
    BY <2>1, <2>2, ConcatProperties
  <2>4. ASSUME shell' # "active" PROVE Settles(toPage', terminal.active)
    BY <2>1, <2>2, <2>4, SettlesConcat
  <2>5. QED BY <2>3, <2>4
<1>4. /\ toWorker' \in Seq(Asked) /\ left' \in BOOLEAN /\ (left' => shell' # "closed")
      /\ ~opened => CloseFollows(toWorker') /\ (shell' # "closed" => ClosesIn(toWorker') \/ left')
  <2>1. /\ toWorker \in Seq(Asked) /\ left \in BOOLEAN /\ (left => shell # "closed")
        /\ ~opened => CloseFollows(toWorker) /\ (shell # "closed" => ClosesIn(toWorker) \/ left)
    BY DEF ShellInv, ShellTypes
  <2>2. CASE HandleShellCommand
    <3>1. /\ toWorker # <<>> /\ toWorker' = Tail(toWorker)
          /\ \/ Head(toWorker) # "close" /\ left' = left /\ shell' = shell
             \/ Head(toWorker) = "close" /\ shell' = shell /\ left' = (left \/ shell # "closed")
             \/ Head(toWorker) = "open" /\ left' = (left /\ shell' # "closed") /\ OpenShell
             \/ Head(toWorker) = "close" /\ shell' = "closed" /\ left' = FALSE
      <4>1. toWorker # <<>> /\ toWorker' = Tail(toWorker)
        BY <2>2 DEF HandleShellCommand
      <4>2. CASE Head(toWorker) = "session"
        BY <2>2, <4>1, <4>2 DEF HandleShellCommand, StartSession, Nothing
      <4>3. CASE Head(toWorker) # "session" /\ Barred
        <5>1. RefuseCommand
          BY <2>2, <4>3 DEF HandleShellCommand
        <5>2. shell' = shell /\ left' = (left \/ (Head(toWorker) = "close" /\ shell # "closed"))
          BY <5>1, Zenon DEF RefuseCommand, Nothing
        <5>3. CASE Head(toWorker) = "close"
          BY <2>1, <4>1, <5>2, <5>3
        <5>4. CASE Head(toWorker) # "close"
          BY <2>1, <4>1, <5>2, <5>4
        <5>5. QED BY <5>3, <5>4
      <4>4. CASE Head(toWorker) # "session" /\ ~Barred
        <5>1. /\ left' = (left /\ shell' # "closed")
              /\ \/ Head(toWorker) = "open" /\ OpenShell
                 \/ Head(toWorker) = "write" /\ WriteShell
                 \/ Head(toWorker) = "close" /\ CloseShell("closed")
          BY <2>2, <4>4 DEF HandleShellCommand
        <5>2. WriteShell => shell' = shell
          BY Zenon DEF WriteShell, Nothing
        <5>3. CloseShell("closed") => shell' = "closed"
          BY DEF CloseShell, Nothing
        <5>4. QED BY <2>1, <4>1, <5>1, <5>2, <5>3
      <4>5. QED BY <4>2, <4>3, <4>4
    <3>2. OpenShell => (shell' = shell \/ shell' # "closed")
      BY Zenon DEF OpenShell, Nothing
    <3>3. /\ Tail(toWorker) \in Seq(Asked)
          /\ ~opened => CloseFollows(Tail(toWorker))
          /\ ~opened /\ Head(toWorker) = "open" => ClosesIn(Tail(toWorker))
          /\ ~opened /\ shell # "closed" /\ Head(toWorker) # "close" => ClosesIn(Tail(toWorker)) \/ left
      BY <2>1, <3>1, AskedTail
    <3>4. CASE Head(toWorker) # "close" /\ left' = left /\ shell' = shell
      BY <2>1, <3>1, <3>3, <3>4, Zenon
    <3>5. CASE Head(toWorker) = "close" /\ shell' = shell /\ left' = (left \/ shell # "closed")
      BY <2>1, <3>1, <3>3, <3>5
    <3>6. CASE Head(toWorker) = "open" /\ left' = (left /\ shell' # "closed") /\ OpenShell
      BY <2>1, <3>1, <3>2, <3>3, <3>6
    <3>7. CASE Head(toWorker) = "close" /\ shell' = "closed" /\ left' = FALSE
      BY <2>1, <3>1, <3>3, <3>7, Zenon
    <3>8. QED BY <3>1, <3>4, <3>5, <3>6, <3>7, Zenon
  <2>3. CASE ~HandleShellCommand
    <3>1. /\ toWorker' = toWorker
          /\ \/ left' = left /\ shell' = shell
             \/ left' = FALSE /\ shell' = "closed"
             \/ left' = left /\ shell # "closed" /\ shell' # "closed"
      BY <2>3, Zenon DEF FlightChanges, TargetEnds, TransferChanges, SessionEnds, PrepareDisconnect, CloseShell,
         Nothing, ShellOutput, ProbeTimesOut
    <3>2. CASE left' = left /\ shell' = shell
      BY <2>1, <3>1, <3>2, Zenon
    <3>3. CASE left' = FALSE /\ shell' = "closed"
      BY <2>1, <3>1, <3>3, Zenon
    <3>4. CASE left' = left /\ shell # "closed" /\ shell' # "closed"
      BY <2>1, <3>1, <3>4, Zenon
    <3>5. QED BY <3>1, <3>2, <3>3, <3>4
  <2>4. QED BY <2>2, <2>3
<1>5. QED BY <1>1, <1>2, <1>3, <1>4 DEF ShellInv, ShellTypes, shellPage

(* The effect of the terminal: whoever leaves closes after all that opens.   *)
LEMMA EffectCloses ==
    ASSUME ShellInv, NEW available \in BOOLEAN, Effect(available)
    PROVE  /\ opened' \in BOOLEAN /\ toWorker' \in Seq(Asked)
           /\ ~opened' => CloseFollows(toWorker') /\ (shell # "closed" => ClosesIn(toWorker') \/ left)
<1>1. opened' = available /\ toWorker \in Seq(Asked) /\ "open" \in Asked /\ "close" \in Asked
  BY DEF Effect, ShellInv, ShellTypes, Asked
<1>2. CASE available
  <2>1. toWorker' = toWorker \/ toWorker' = Append(toWorker, "open")
    BY <1>2 DEF Effect
  <2>2. QED BY <1>1, <1>2, <2>1, AskedAppend
<1>3. CASE ~available
  <2>1. (opened /\ toWorker' = Append(toWorker, "close")) \/ (~opened /\ toWorker' = toWorker)
    BY <1>3 DEF Effect
  <2>2. QED BY <1>1, <1>3, <2>1, AskedAppend DEF ShellInv
<1>4. QED BY <1>2, <1>3

LEMMA PageShellStep ==
    ASSUME ShellInv, HearShell \/ ShowTerminal \/ HideTerminal \/ Reconnect \/ Types
                     \/ AskSession
    PROVE  ShellInv'
<1>1. UNCHANGED <<flight, owned, transfer, shell, claimed, left>>
  BY Zenon DEF HearShell, ShowTerminal, HideTerminal, Reconnect, Types, AskSession, shellWorker
<1>2. /\ flight \in Flights /\ owned \in BOOLEAN /\ transfer \in BOOLEAN /\ left \in BOOLEAN
      /\ shell \in {"closed", "pending", "active"} /\ (left => shell # "closed")
      /\ claimed \in BOOLEAN /\ (shell # "closed" => claimed)
      /\ toPage \in Seq(Told) /\ toWorker \in Seq(Asked) /\ known \in Flights /\ visible \in BOOLEAN
      /\ opened \in BOOLEAN /\ terminal \in Terminals /\ terminal.active \in BOOLEAN
  BY DEF ShellInv, ShellTypes, Terminals
<1> DEFINE asks == /\ opened' \in BOOLEAN /\ toWorker' \in Seq(Asked)
                   /\ ~opened' => CloseFollows(toWorker') /\ (shell # "closed" => ClosesIn(toWorker') \/ left)
           hears == /\ toPage' \in Seq(Told) /\ terminal' \in Terminals
                    /\ shell # "active" => Settles(toPage', terminal'.active)
           knows == known' \in Flights /\ visible' \in BOOLEAN
<1>3. asks /\ hears /\ knows
  <2>1. UNCHANGED <<opened, toWorker>> => asks
    BY <1>2 DEF ShellInv
  <2>2. UNCHANGED <<toPage, terminal>> => hears
    BY <1>2 DEF ShellInv
  <2>3. \A f \in Flights, on \in BOOLEAN : Available(f, on) \in BOOLEAN
    BY DEF Available, Flights
  <2>4. CASE HearShell
    <3> DEFINE e == Head(toPage)
    <3>1. toPage # <<>> /\ toPage' = Tail(toPage) /\ visible' = visible
      BY <2>4, Zenon DEF HearShell
    <3>2. e \in Told /\ toPage' \in Seq(Told)
      BY <1>2, <3>1, HeadTailProperties
    <3>3. CASE e.kind = "flight"
      <4>1. known' = e.flight /\ Effect(Available(e.flight, visible)) /\ UNCHANGED terminal
        BY <2>4, <3>3 DEF HearShell
      <4>2. e.flight \in Flights /\ ~TurnsOff(e)
        BY <3>2, <3>3 DEF Told, TurnsOff
      <4>3. asks
        BY <1>2, <2>3, <4>1, <4>2, EffectCloses
      <4>4. hears
        <5>1. shell # "active" => Settles(toPage, terminal.active)
          BY DEF ShellInv
        <5> HIDE DEF e
        <5>2. ASSUME shell # "active" PROVE Settles(toPage', terminal.active)
          BY <1>2, <3>1, <4>2, <5>1, <5>2, SettlesTail DEF e
        <5>3. QED BY <1>2, <3>2, <4>1, <5>2
      <4>5. QED BY <1>2, <3>1, <4>1, <4>2, <4>3, <4>4
    <3>4. CASE e.kind \in {"status", "error"}
      <4>1. UNCHANGED <<known, opened, toWorker>>
        BY <2>4, <3>4 DEF HearShell
      <4>2. terminal' \in Terminals /\ terminal'.active \in BOOLEAN
            /\ (terminal'.active => TurnsOn(e))
        <5>1. CASE e.kind = "status"
          <6>1. terminal' = e.shown /\ e.shown \in Terminals
            BY <2>4, <3>2, <5>1 DEF HearShell, Told
          <6>2. QED BY <5>1, <6>1 DEF TurnsOn, Terminals
        <5>2. CASE e.kind = "error"
          <6>1. terminal' = Off(e.code) /\ e.code \in Reasons
            BY <2>4, <3>2, <5>2 DEF HearShell, Told
          <6>2. QED BY <6>1 DEF Off, Terminals
        <5>3. QED BY <3>4, <5>1, <5>2
      <4>3. hears
        <5>1. shell # "active" => Settles(toPage, terminal.active)
          BY DEF ShellInv
        <5>2. ASSUME shell # "active" PROVE Settles(toPage', terminal'.active)
          BY <1>2, <3>1, <4>2, <5>1, <5>2, SettlesTail
        <5>3. QED BY <3>2, <4>2, <5>2
      <4>4. QED BY <1>2, <2>1, <3>1, <4>1, <4>3
    <3>5. QED BY <3>2, <3>3, <3>4 DEF Told
  <2>5. CASE ShowTerminal
    <3>1. visible' = TRUE /\ Effect(Available(known, TRUE)) /\ UNCHANGED <<toPage, known, terminal>>
      BY <2>5, Zenon DEF ShowTerminal
    <3>2. QED BY <1>2, <2>2, <2>3, <3>1, EffectCloses
  <2>6. CASE HideTerminal
    <3>1. visible' = FALSE /\ Effect(FALSE) /\ UNCHANGED <<toPage, known, terminal>>
      BY <2>6, Zenon DEF HideTerminal
    <3>2. QED BY <1>2, <2>2, <3>1, EffectCloses
  <2>7. CASE Reconnect
    <3>1. opened /\ toWorker' = Append(toWorker, "open") /\ UNCHANGED <<toPage, known, visible, opened, terminal>>
      BY <2>7, Zenon DEF Reconnect, shellPage
    <3>2. "open" \in Asked
      BY DEF Asked
    <3>3. QED BY <1>2, <2>2, <3>1, <3>2, AskedAppend
  <2>8. CASE Types
    <3>1. toWorker' = Append(toWorker, "write") /\ UNCHANGED <<toPage, known, visible, opened, terminal>>
      BY <2>8, Zenon DEF Types, shellPage
    <3>2. "write" \in Asked
      BY DEF Asked
    <3>3. asks
      BY <1>2, <3>1, <3>2, AskedAppend DEF ShellInv
    <3>4. QED BY <1>2, <2>2, <3>1, <3>3
  <2>9. CASE AskSession
    <3>1. toWorker' = Append(toWorker, "session") /\ UNCHANGED <<toPage, known, visible, opened, terminal>>
      BY <2>9, Zenon DEF AskSession, shellPage
    <3>2. "session" \in Asked
      BY DEF Asked
    <3>3. asks
      BY <1>2, <3>1, <3>2, AskedAppend DEF ShellInv
    <3>4. QED BY <1>2, <2>2, <3>1, <3>3
  <2>10. QED BY <2>4, <2>5, <2>6, <2>7, <2>8, <2>9
<1>4. QED BY <1>1, <1>2, <1>3 DEF ShellInv, ShellTypes

LEMMA ShellStep == ShellInv /\ [ShellNext]_shellVars => ShellInv'
<1> SUFFICES ASSUME ShellInv, [ShellNext]_shellVars PROVE ShellInv'
  OBVIOUS
<1>1. CASE UNCHANGED shellVars
  BY <1>1 DEF shellVars, ShellInv, ShellTypes
<1>2. QED BY <1>1, BridgeShellStep, PageShellStep DEF ShellNext

(* The bridge holds the shell, which blocks every other command, only for a  *)
(* terminal that wants it, whose closing is on its way or was refused by the *)
(* coordinator since it was opened; it never runs without its claim; and a   *)
(* page that has heard everything shows no shell connected that is closed    *)
(* (openShell, closeShell, requiresReadyTarget, handleMessage).              *)
THEOREM ShellIsHeld == ShellSpec => []ShellHeld
<1>1. ASSUME ShellInv PROVE ShellHeld
  <2>1. ShellTypeOK
    BY <1>1 DEF ShellInv, ShellTypes, ShellTypeOK, Flights, Terminals
  <2>2. shell # "closed" /\ ~opened => Closing \/ left
    BY <1>1, LenProperties DEF ShellInv, ShellTypes, ClosesIn, Closing
  <2>3. toPage = <<>> /\ terminal.active => shell = "active"
    BY <1>1 DEF ShellInv, Settles
  <2>4. QED BY <1>1, <2>1, <2>2, <2>3 DEF ShellInv, ShellHeld
<1>2. QED BY <1>1, ShellStart, ShellStep, PTL DEF ShellSpec
-----------------------------------------------------------------------------
(* The explorer of the SD card.  What is on its way between the page and the *)
(* Worker: a deletion was ticked for what it names, by a user who saw a      *)
(* vehicle and an epoch there were; a downloaded file is the artifact named  *)
(* with it.                                                                  *)
Seens == [ready : BOOLEAN, target : Vehicles, epoch : Nat]
Keys == [target : Vehicles, epoch : Nat, dir : Dirs, names : SUBSET Names]
CardFiles == Vehicles \X Dirs \X Names
Kept == [file : CardFiles, kept : BOOLEAN]
Artifacts == 1..Len(artifacts)
Deletions ==
    {c \in [type : {"fs_delete"}, epoch : Nat, dir : Dirs, names : SUBSET Names, tick : Keys] :
         /\ c.tick.dir = c.dir /\ c.tick.names = c.names /\ c.tick.epoch = c.epoch
         /\ NotAhead(c.tick, vehicle)}
Orders ==
    [type : {"fs_list"}, dir : Dirs] \cup [type : {"fs_download"}, dir : Dirs, name : Names]
    \cup [type : {"fs_download_cancel"}] \cup [type : {"artifact_read"}, id : Artifacts] \cup Deletions
Signals ==
    [type : {"vehicle"}, vehicle : {v \in Seens : NotAhead(v, vehicle)}]
    \cup [type : {"fs_list"}, dir : Dirs, target : Vehicles, names : SUBSET Names]
    \cup {e \in [type : {"fs_download_complete"}, file : CardFiles, id : Artifacts] :
              artifacts[e.id].file = e.file}
    \cup {e \in [type : {"artifact"}, id : Artifacts, file : CardFiles, found : BOOLEAN] :
              artifacts[e.id].file = e.file}
    \cup [type : {"fs_delete_done"}] \cup [type : {"fs_op_error"}, op : {"list", "download", "delete"}]
FtpRuns ==
    {FtpIdle} \cup [op : {"list"}, target : {vehicle.target}, dir : Dirs]
    \cup [op : {"download"}, target : {vehicle.target}, dir : Dirs, name : Names]
    \cup {f \in [op : {"delete"}, target : {vehicle.target}, dir : Dirs, names : SUBSET Names, tick : Keys] :
              f.tick.target = f.target /\ f.tick.dir = f.dir /\ f.tick.names = f.names}

BrowserTypes ==
    /\ onCard \in [Vehicles -> [Dirs -> SUBSET Names]] /\ vehicle \in Seens /\ ftp \in FtpRuns
    /\ artifacts \in Seq(Kept) /\ commands \in Seq(Orders) /\ events \in Seq(Signals)
    /\ seen \in {v \in Seens : NotAhead(v, vehicle)} /\ shown \in BOOLEAN
    /\ explorer \in [path : Dirs, rows : SUBSET Names, listed : Dirs \cup {Nowhere},
                     from : Vehicles \cup {Nowhere}, loading : BOOLEAN, picked : SUBSET Names]
    /\ dialog \in [open : BOOLEAN, tick : Keys \cup {NoKey}]
    /\ download \in [status : {"none", "active", "done", "error"}, file : CardFiles \cup {NoFile}]
    /\ deletion \in {"none", "active", "done", "error"} /\ reading \in Nat

(* The vehicle a listing or a downloaded file came from.                     *)
CameFrom(e) == IF e.type = "fs_list" THEN {e.target}
               ELSE IF e.type = "fs_download_complete" THEN {e.file[1]} ELSE {}

(* The vehicle the page has seen when events 1 to j of q are heard, and that *)
(* j is the latest that tells of it before event i.                          *)
SeenAt(q, seen0, j) == IF j = 0 THEN seen0 ELSE q[j].vehicle
LatestSeen(q, j, i) ==
    /\ j < i /\ (j # 0 => q[j].type = "vehicle")
    /\ \A k \in 1..Len(q) : j < k /\ k < i => q[k].type # "vehicle"

(* Listings and files arrive while the page sees the vehicle they are of; at *)
(* the end it sees the vehicle there is.                                     *)
InStep(q, seen0, v) ==
    /\ \A j \in 0..Len(q) : LatestSeen(q, j, Len(q) + 1) => SeenAt(q, seen0, j) = v
    /\ \A j \in 0..Len(q), i \in 1..Len(q) :
         LatestSeen(q, j, i) => CameFrom(q[i]) \subseteq {SeenAt(q, seen0, j).target}

(* The page sees the vehicle in step with the Worker; the rows and the       *)
(* download on the screen are of the vehicle on the screen; what is read is  *)
(* the file of the finished download there.                                  *)
BrowserInv ==
    /\ BrowserTypes /\ InStep(events, seen, vehicle)
    /\ shown /\ explorer.rows # {} => explorer.from = seen.target
    /\ shown /\ download.file # NoFile => download.file[1] = seen.target
    /\ reading # 0 => /\ shown /\ reading \in Artifacts /\ download.status = "done"
                      /\ artifacts[reading].file = download.file
    /\ HandedIsAsked

LEMMA InStepAppend ==
    ASSUME NEW S, NEW q \in Seq(S), NEW seen0, NEW v, NEW e \in S,
           CameFrom(e) \subseteq {v.target}, InStep(q, seen0, v)
    PROVE  InStep(q \o <<e>>, seen0, IF e.type = "vehicle" THEN e.vehicle ELSE v)
<1> DEFINE r == q \o <<e>>
           w == IF e.type = "vehicle" THEN e.vehicle ELSE v
           n == Len(q)
<1>1. /\ n \in Nat /\ Len(r) = n + 1 /\ r[n + 1] = e
      /\ \A k \in 1..n : r[k] = q[k]
  BY LenProperties, ConcatProperties
<1> HIDE DEF r
<1>2. \A j \in 0..n : SeenAt(r, seen0, j) = SeenAt(q, seen0, j)
  BY <1>1 DEF SeenAt
<1>3. \A j \in 0..n, i \in 1..(n + 1) : LatestSeen(r, j, i) => LatestSeen(q, j, i)
  BY <1>1 DEF LatestSeen
<1>4. ASSUME NEW j \in 0..(n + 1), LatestSeen(r, j, n + 2) PROVE SeenAt(r, seen0, j) = w
  <2>1. CASE j = n + 1
    BY <1>1, <1>4, <2>1 DEF LatestSeen, SeenAt
  <2>2. CASE j # n + 1
    <3>1. j \in 0..n /\ e.type # "vehicle"
      BY <1>1, <1>4, <2>2 DEF LatestSeen
    <3>2. LatestSeen(q, j, n + 1)
      BY <1>1, <1>4, <3>1 DEF LatestSeen
    <3>3. QED BY <1>2, <3>1, <3>2 DEF InStep
  <2>3. QED BY <2>1, <2>2
<1>5. ASSUME NEW j \in 0..(n + 1), NEW i \in 1..(n + 1), LatestSeen(r, j, i)
      PROVE  CameFrom(r[i]) \subseteq {SeenAt(r, seen0, j).target}
  <2>1. j \in 0..n
    BY <1>1, <1>5 DEF LatestSeen
  <2>2. LatestSeen(q, j, i) /\ SeenAt(r, seen0, j) = SeenAt(q, seen0, j)
    BY <1>2, <1>3, <1>5, <2>1
  <2>3. CASE i = n + 1
    <3>1. SeenAt(q, seen0, j) = v
      BY <2>1, <2>2, <2>3 DEF InStep
    <3>2. QED BY <1>1, <2>2, <2>3, <3>1
  <2>4. CASE i # n + 1
    <3>1. i \in 1..n /\ r[i] = q[i]
      BY <1>1, <2>4
    <3>2. QED BY <2>1, <2>2, <3>1 DEF InStep
  <2>5. QED BY <2>3, <2>4
<1> HIDE DEF w
<1>6. InStep(r, seen0, w)
  <2>1. Len(r) = n + 1 /\ Len(r) + 1 = n + 2
    BY <1>1
  <2> HIDE DEF n
  <2>2. QED BY <1>4, <1>5, <2>1 DEF InStep
<1>7. QED BY <1>6 DEF r, w

LEMMA InStepTail ==
    ASSUME NEW S, NEW q \in Seq(S), q # <<>>, NEW seen0, NEW v, InStep(q, seen0, v)
    PROVE  /\ InStep(Tail(q), IF Head(q).type = "vehicle" THEN Head(q).vehicle ELSE seen0, v)
           /\ CameFrom(Head(q)) \subseteq {seen0.target}
<1> DEFINE r == Tail(q)
           first == IF Head(q).type = "vehicle" THEN Head(q).vehicle ELSE seen0
           n == Len(q)
<1>1. /\ n \in Nat \ {0} /\ Len(r) = n - 1 /\ Head(q) = q[1]
      /\ \A k \in 1..(n - 1) : r[k] = q[k + 1]
  BY EmptySeq, HeadTailProperties, LenProperties
<1> HIDE DEF r
<1> DEFINE before(j) == IF j = 0 /\ q[1].type # "vehicle" THEN 0 ELSE j + 1
<1>2. ASSUME NEW j \in 0..(n - 1), NEW i \in 1..n, LatestSeen(r, j, i)
      PROVE  /\ before(j) \in 0..n /\ LatestSeen(q, before(j), i + 1)
             /\ SeenAt(q, seen0, before(j)) = SeenAt(r, first, j)
  <2>1. before(j) \in 0..n
    BY <1>1
  <2>2. SeenAt(q, seen0, before(j)) = SeenAt(r, first, j)
    BY <1>1 DEF SeenAt
  <2>3. before(j) < i + 1 /\ (before(j) # 0 => q[before(j)].type = "vehicle")
    BY <1>1, <1>2 DEF LatestSeen
  <2>4. ASSUME NEW k \in 1..n, before(j) < k, k < i + 1 PROVE q[k].type # "vehicle"
    <3>1. CASE k = 1
      BY <1>1, <2>4, <3>1
    <3>2. CASE k # 1
      <4>1. k - 1 \in 1..(n - 1) /\ j < k - 1 /\ k - 1 < i /\ q[k] = r[k - 1]
        BY <1>1, <2>4, <3>2
      <4>2. QED BY <1>1, <1>2, <4>1 DEF LatestSeen
    <3>3. QED BY <3>1, <3>2
  <2>5. QED BY <2>1, <2>2, <2>3, <2>4 DEF LatestSeen
<1> HIDE DEF before
<1>3. ASSUME NEW j \in 0..(n - 1), LatestSeen(r, j, n) PROVE SeenAt(r, first, j) = v
  BY <1>1, <1>2, <1>3 DEF InStep
<1>4. ASSUME NEW j \in 0..(n - 1), NEW i \in 1..(n - 1), LatestSeen(r, j, i)
      PROVE  CameFrom(r[i]) \subseteq {SeenAt(r, first, j).target}
  <2>1. i + 1 \in 1..n /\ q[i + 1] = r[i] /\ i \in 1..n
    BY <1>1
  <2>2. /\ before(j) \in 0..n /\ LatestSeen(q, before(j), i + 1)
        /\ SeenAt(q, seen0, before(j)) = SeenAt(r, first, j)
    BY <1>2, <1>4, <2>1
  <2>3. CameFrom(q[i + 1]) \subseteq {SeenAt(q, seen0, before(j)).target}
    BY <2>1, <2>2 DEF InStep
  <2>4. QED BY <2>1, <2>2, <2>3
<1>5. CameFrom(Head(q)) \subseteq {seen0.target}
  <2>1. LatestSeen(q, 0, 1) /\ 0 \in 0..n /\ 1 \in 1..n /\ SeenAt(q, seen0, 0) = seen0
    BY <1>1 DEF LatestSeen, SeenAt
  <2>2. QED BY <1>1, <2>1 DEF InStep
<1> HIDE DEF first
<1>6. InStep(r, first, v)
  <2>1. Len(r) = n - 1 /\ Len(r) + 1 = n
    BY <1>1
  <2> HIDE DEF n
  <2>2. QED BY <1>3, <1>4, <2>1 DEF InStep
<1>7. QED BY <1>5, <1>6 DEF r, first

LEMMA Wider == ASSUME NEW S, NEW T, S \subseteq T, NEW q \in Seq(S) PROVE q \in Seq(T)
<1>1. Len(q) \in Nat /\ \A i \in 1..Len(q) : q[i] \in T
  BY ElementOfSeq, LenProperties
<1>2. q \in [1..Len(q) -> T]
  <2>1. q \in [1..Len(q) -> S]
    BY LenProperties
  <2>2. QED BY <1>1, <2>1
<1>3. QED BY <1>1, <1>2, SeqDef

LEMMA BrowserStart == BrowserInit => BrowserInv
<1> SUFFICES ASSUME BrowserInit PROVE BrowserInv
  OBVIOUS
<1>1. vehicle = [ready |-> TRUE, target |-> CHOOSE v \in Vehicles : TRUE, epoch |-> 0] /\ seen = vehicle
  BY DEF BrowserInit
<1>2. (CHOOSE v \in Vehicles : TRUE) \in Vehicles
  BY BrowserAssumption
<1>3. vehicle \in Seens /\ NotAhead(vehicle, vehicle)
  BY <1>1, <1>2 DEF Seens, NotAhead
<1>4. /\ explorer \in [path : Dirs, rows : SUBSET Names, listed : Dirs \cup {Nowhere},
                       from : Vehicles \cup {Nowhere}, loading : BOOLEAN, picked : SUBSET Names]
      /\ explorer.rows = {}
  BY BrowserAssumption DEF BrowserInit
<1>5. /\ dialog \in [open : BOOLEAN, tick : Keys \cup {NoKey}]
      /\ download \in [status : {"none", "active", "done", "error"}, file : CardFiles \cup {NoFile}]
      /\ download.file = NoFile /\ deletion = "none" /\ reading = 0 /\ handed = {} /\ shown = FALSE
  BY DEF BrowserInit, NoTask
<1>6. /\ artifacts \in Seq(Kept) /\ commands \in Seq(Orders) /\ events \in Seq(Signals) /\ events = <<>>
      /\ ftp \in FtpRuns /\ onCard \in [Vehicles -> [Dirs -> SUBSET Names]]
  BY BrowserAssumption DEF BrowserInit, FtpRuns
<1>7. InStep(<<>>, vehicle, vehicle)
  BY DEF InStep, LatestSeen, SeenAt
<1>8. BrowserTypes
  BY <1>1, <1>3, <1>4, <1>5, <1>6 DEF BrowserTypes
<1>9. QED BY <1>1, <1>4, <1>5, <1>6, <1>7, <1>8 DEF BrowserInv, HandedIsAsked

(* What the page asks for, with what it asked for before.                    *)
LEMMA AskedFor ==
    ASSUME BrowserTypes, NEW cs \in Seq(Orders), Asks(cs)
    PROVE  commands' \in Seq(Orders)
BY ConcatProperties DEF Asks, BrowserTypes

LEMMA SameOrders ==
    ASSUME UNCHANGED <<vehicle, artifacts>>
    PROVE  Orders' = Orders /\ Signals' = Signals /\ Artifacts' = Artifacts
BY DEF Orders, Signals, Artifacts, Deletions, NotAhead

LEMMA PlainOrders ==
    /\ \A d \in Dirs : List(d) \in Orders /\ <<List(d)>> \in Seq(Orders)
    /\ \A d \in Dirs, f \in Names :
         <<[type |-> "fs_download", dir |-> d, name |-> f]>> \in Seq(Orders)
    /\ <<[type |-> "fs_download_cancel"]>> \in Seq(Orders) /\ <<>> \in Seq(Orders)
    /\ \A i \in Artifacts : <<[type |-> "artifact_read", id |-> i]>> \in Seq(Orders)
<1>1. ASSUME NEW o \in Orders PROVE <<o>> \in Seq(Orders)
  OBVIOUS
<1>2. \A d \in Dirs : List(d) \in Orders
  BY DEF Orders, List
<1>3. \A d \in Dirs, f \in Names : [type |-> "fs_download", dir |-> d, name |-> f] \in Orders
  BY DEF Orders
<1>4. [type |-> "fs_download_cancel"] \in Orders
  BY DEF Orders
<1>5. \A i \in Artifacts : [type |-> "artifact_read", id |-> i] \in Orders
  BY DEF Orders
<1> HIDE DEF Orders
<1>6. <<>> \in Seq(Orders)
  OBVIOUS
<1>7. QED BY <1>1, <1>2, <1>3, <1>4, <1>5, <1>6

(* The user's clicks.                                                        *)
LEMMA UserStep ==
    ASSUME BrowserInv,
           \/ Mount \/ Unmount \/ RefreshListing \/ CancelTransfer \/ OpenDialog \/ Tick \/ CancelDialog
           \/ ConfirmDelete \/ Dismiss
           \/ \E dir \in Dirs : Browse(dir)
           \/ \E name \in Names : SelectRow(name) \/ StartDownload(name)
    PROVE  BrowserInv'
<1> DEFINE Shapes == [path : Dirs, rows : SUBSET Names, listed : Dirs \cup {Nowhere},
                      from : Vehicles \cup {Nowhere}, loading : BOOLEAN, picked : SUBSET Names]
           Dialogs == [open : BOOLEAN, tick : Keys \cup {NoKey}]
           Downloads == [status : {"none", "active", "done", "error"}, file : CardFiles \cup {NoFile}]
<1>1. UNCHANGED <<onCard, vehicle, ftp, artifacts, events, seen, handed>>
  BY Zenon DEF Mount, Unmount, RefreshListing, CancelTransfer, OpenDialog, Tick, CancelDialog, ConfirmDelete,
     Dismiss, Browse, SelectRow, StartDownload, Clicks, browserWorker, browserTasks
<1>2. Orders' = Orders /\ Signals' = Signals /\ Artifacts' = Artifacts /\ FtpRuns' = FtpRuns
  BY <1>1, SameOrders DEF FtpRuns
<1>3. /\ explorer \in Shapes /\ dialog \in Dialogs /\ download \in Downloads /\ commands \in Seq(Orders)
      /\ explorer.path \in Dirs /\ seen.target \in Vehicles /\ seen.epoch \in Nat /\ seen.ready \in BOOLEAN
      /\ NotAhead(seen, vehicle) /\ Nowhere \in Vehicles \cup {Nowhere} /\ Nowhere \in Dirs \cup {Nowhere}
  BY DEF BrowserInv, BrowserTypes, Seens
<1>4. DeleteKey \in Keys /\ DeleteKey.dir = explorer.path /\ DeleteKey.epoch = seen.epoch
      /\ DeleteKey.names = DeleteKey.names \cap explorer.rows /\ NotAhead(DeleteKey, vehicle)
  BY <1>3 DEF DeleteKey, Keys, NotAhead
<1> DEFINE asked == commands' \in Seq(Orders)
           screen == explorer' \in Shapes /\ shown' \in BOOLEAN
                     /\ (shown' /\ explorer'.rows # {} => explorer'.from = seen.target)
           asks == dialog' \in Dialogs
           tasks == /\ download' \in Downloads /\ deletion' \in {"none", "active", "done", "error"}
                    /\ reading' \in Nat
                    /\ shown' /\ download'.file # NoFile => download'.file[1] = seen.target
                    /\ reading' # 0 => /\ shown' /\ reading' \in Artifacts /\ download'.status = "done"
                                       /\ artifacts[reading'].file = download'.file
<1>5. ASSUME asked, screen, asks, tasks PROVE BrowserInv'
  <2>1. BrowserTypes'
    BY <1>1, <1>2, <1>5 DEF BrowserInv, BrowserTypes, NotAhead
  <2>2. InStep(events, seen, vehicle)'
    BY <1>1 DEF BrowserInv
  <2>3. HandedIsAsked'
    BY <1>1 DEF BrowserInv, HandedIsAsked
  <2>4. QED BY <1>1, <1>2, <1>5, <2>1, <2>2, <2>3 DEF BrowserInv
<1>6. /\ UNCHANGED commands => asked
      /\ UNCHANGED <<explorer, shown>> => screen
      /\ UNCHANGED dialog => asks
      /\ UNCHANGED <<download, deletion, reading, shown>> => tasks
  BY <1>1, <1>2 DEF BrowserInv, BrowserTypes
<1>7. CASE Mount
  <2>1. shown' = TRUE /\ ~shown /\ explorer' = [Emptied EXCEPT !.loading = seen.ready]
        /\ Asks(IF seen.ready THEN <<List(explorer.path)>> ELSE <<>>)
        /\ dialog' = DialogClosed /\ download' = NoTask /\ deletion' = "none" /\ reading' = reading
    BY <1>7 DEF Mount
  <2>2. asked
    BY <1>3, <2>1, PlainOrders, AskedFor DEF BrowserInv
  <2>3. screen
    BY <1>3, <2>1 DEF Emptied
  <2>4. asks
    BY <1>3, <2>1 DEF DialogClosed
  <2>5. reading = 0
    BY <2>1 DEF BrowserInv
  <2>6. tasks
    BY <2>1, <2>5 DEF NoTask
  <2>7. QED BY <1>5, <2>2, <2>3, <2>4, <2>6
<1>8. CASE Unmount
  <2>1. shown' = FALSE /\ reading' = 0 /\ dialog' = [open |-> FALSE, tick |-> NoKey]
        /\ UNCHANGED <<commands, explorer, download, deletion>>
    BY <1>8 DEF Unmount
  <2>2. screen /\ asks
    BY <1>3, <2>1
  <2>3. tasks
    BY <2>1 DEF BrowserInv, BrowserTypes
  <2>4. QED BY <1>5, <1>6, <2>1, <2>2, <2>3
<1>9. ASSUME NEW dir \in Dirs, Browse(dir) PROVE BrowserInv'
  <2>1. explorer' = [explorer EXCEPT !.path = dir, !.picked = {}, !.loading = TRUE] /\ Asks(<<List(dir)>>)
        /\ UNCHANGED <<shown, dialog, download, deletion, reading>>
    BY <1>9 DEF Browse, browserTasks
  <2>2. asked
    BY <2>1, PlainOrders, AskedFor DEF BrowserInv
  <2>3. screen
    BY <1>3, <2>1 DEF BrowserInv, BrowserTypes
  <2>4. QED BY <1>5, <1>6, <2>1, <2>2, <2>3
<1>10. CASE RefreshListing
  <2>1. explorer' = [explorer EXCEPT !.loading = TRUE] /\ Asks(<<List(explorer.path)>>)
        /\ UNCHANGED <<shown, dialog, download, deletion, reading>>
    BY <1>10 DEF RefreshListing, browserTasks
  <2>2. asked
    BY <1>3, <2>1, PlainOrders, AskedFor DEF BrowserInv
  <2>3. screen
    BY <1>3, <2>1 DEF BrowserInv, BrowserTypes
  <2>4. QED BY <1>5, <1>6, <2>1, <2>2, <2>3
<1>11. ASSUME NEW name \in Names, SelectRow(name) PROVE BrowserInv'
  <2>1. explorer' = [explorer EXCEPT !.picked = IF name \in @ THEN @ \ {name} ELSE @ \cup {name}]
        /\ UNCHANGED <<commands, shown, dialog, download, deletion, reading>>
    BY <1>11 DEF SelectRow, browserTasks
  <2>2. screen
    BY <1>3, <2>1 DEF BrowserInv, BrowserTypes
  <2>3. QED BY <1>5, <1>6, <2>1, <2>2
<1>12. ASSUME NEW name \in Names, StartDownload(name) PROVE BrowserInv'
  <2>1. download' = [status |-> "active", file |-> <<seen.target, explorer.path, name>>] /\ reading' = 0
        /\ Asks(<<[type |-> "fs_download", dir |-> explorer.path, name |-> name]>>)
        /\ UNCHANGED <<shown, explorer, dialog, deletion>>
    BY <1>12 DEF StartDownload
  <2>2. asked
    BY <1>3, <2>1, PlainOrders, AskedFor DEF BrowserInv
  <2>3. tasks
    BY <1>3, <2>1 DEF CardFiles, BrowserInv, BrowserTypes
  <2>4. QED BY <1>5, <1>6, <2>1, <2>2, <2>3
<1>13. CASE CancelTransfer
  <2>1. Asks(<<[type |-> "fs_download_cancel"]>>)
        /\ UNCHANGED <<shown, explorer, dialog, download, deletion, reading>>
    BY <1>13 DEF CancelTransfer, browserTasks
  <2>2. asked
    BY <2>1, PlainOrders, AskedFor DEF BrowserInv
  <2>3. QED BY <1>5, <1>6, <2>1, <2>2
<1>14. CASE OpenDialog \/ Tick \/ CancelDialog
  <2>1. /\ UNCHANGED <<commands, shown, explorer, download, deletion, reading>>
        /\ \/ dialog' = [dialog EXCEPT !.tick = DeleteKey]
           \/ \E on \in BOOLEAN : dialog' = [open |-> on, tick |-> NoKey]
    BY <1>14 DEF OpenDialog, Tick, CancelDialog, browserTasks
  <2>2. asks
    BY <1>3, <1>4, <2>1
  <2>3. QED BY <1>5, <1>6, <2>1, <2>2
<1>15. CASE ConfirmDelete
  <2> DEFINE order == [type |-> "fs_delete", epoch |-> seen.epoch, dir |-> explorer.path,
                       names |-> DeleteKey.names, tick |-> DeleteKey]
  <2>1. /\ dialog' = [open |-> FALSE, tick |-> NoKey] /\ deletion' = "active" /\ Asks(<<order>>)
        /\ UNCHANGED <<shown, explorer, download, reading>>
    BY <1>15 DEF ConfirmDelete, Committed
  <2>2. order \in Deletions
    BY <1>3, <1>4 DEF Deletions, Keys
  <2>3. <<order>> \in Seq(Orders)
    <3>1. order \in Orders
      BY <2>2 DEF Orders
    <3> HIDE DEF order
    <3>2. QED BY <3>1
  <2>4. asked
    BY <2>1, <2>3, AskedFor DEF BrowserInv
  <2>5. asks
    BY <2>1
  <2>6. tasks
    BY <2>1 DEF BrowserInv, BrowserTypes
  <2>7. QED BY <1>5, <1>6, <2>1, <2>4, <2>5, <2>6
<1>16. CASE Dismiss
  <2>1. /\ UNCHANGED <<commands, shown, explorer, dialog, reading>>
        /\ \/ deletion' = "none" /\ download' = download
           \/ download.status = "error" /\ download' = NoTask /\ deletion' = deletion
    BY <1>16 DEF Dismiss
  <2>2. tasks
    <3>1. CASE deletion' = "none" /\ download' = download
      BY <2>1, <3>1 DEF BrowserInv, BrowserTypes
    <3>2. CASE download.status = "error" /\ download' = NoTask /\ deletion' = deletion
      <4>1. reading = 0
        BY <3>2 DEF BrowserInv
      <4>2. QED BY <2>1, <3>2, <4>1 DEF NoTask, BrowserInv, BrowserTypes
    <3>3. QED BY <2>1, <3>1, <3>2
  <2>3. QED BY <1>5, <1>6, <2>1, <2>2
<1>17. QED BY <1>7, <1>8, <1>9, <1>10, <1>11, <1>12, <1>13, <1>14, <1>15, <1>16

(* The page hears the next event.                                            *)
LEMMA HearFsStep ==
    ASSUME BrowserInv, HearFs
    PROVE  BrowserInv'
<1> DEFINE Shapes == [path : Dirs, rows : SUBSET Names, listed : Dirs \cup {Nowhere},
                      from : Vehicles \cup {Nowhere}, loading : BOOLEAN, picked : SUBSET Names]
           Dialogs == [open : BOOLEAN, tick : Keys \cup {NoKey}]
           Downloads == [status : {"none", "active", "done", "error"}, file : CardFiles \cup {NoFile}]
           e == Head(events)
           now == IF e.type = "vehicle" THEN e.vehicle ELSE seen
<1>1. /\ events # <<>> /\ events' = Tail(events) /\ UNCHANGED <<onCard, vehicle, ftp, artifacts>>
  BY Zenon DEF HearFs, browserWorker
<1>2. Orders' = Orders /\ Signals' = Signals /\ Artifacts' = Artifacts /\ FtpRuns' = FtpRuns
  BY <1>1, SameOrders DEF FtpRuns
<1>3. /\ explorer \in Shapes /\ dialog \in Dialogs /\ download \in Downloads /\ commands \in Seq(Orders)
      /\ explorer.path \in Dirs /\ seen.target \in Vehicles /\ seen.ready \in BOOLEAN
      /\ events \in Seq(Signals) /\ shown \in BOOLEAN /\ seen \in {v \in Seens : NotAhead(v, vehicle)}
      /\ deletion \in {"none", "active", "done", "error"} /\ reading \in Nat
  BY DEF BrowserInv, BrowserTypes, Seens
<1>4. e \in Signals /\ events' \in Seq(Signals)
  BY <1>1, <1>3, HeadTailProperties, EmptySeq
<1>5. InStep(events', now, vehicle) /\ CameFrom(e) \subseteq {seen.target}
  BY <1>1, <1>3, InStepTail DEF BrowserInv
<1> DEFINE asked == commands' \in Seq(Orders)
           screen == explorer' \in Shapes /\ shown' = shown
                     /\ (shown /\ explorer'.rows # {} => explorer'.from = now.target)
           asks == dialog' \in Dialogs
           tasks == /\ download' \in Downloads /\ deletion' \in {"none", "active", "done", "error"}
                    /\ reading' \in Nat
                    /\ shown /\ download'.file # NoFile => download'.file[1] = now.target
                    /\ reading' # 0 => /\ shown /\ reading' \in Artifacts /\ download'.status = "done"
                                       /\ artifacts[reading'].file = download'.file
           gives == \A h \in handed' : h.asked = h.got
<1>6. /\ UNCHANGED commands => asked
      /\ UNCHANGED <<explorer, shown>> /\ now = seen => screen
      /\ UNCHANGED dialog => asks
      /\ UNCHANGED <<download, deletion, reading>> /\ now = seen => tasks
      /\ UNCHANGED handed => gives
  BY <1>3 DEF BrowserInv, HandedIsAsked
<1> HIDE DEF e
<1>7. ASSUME asked, screen, asks, tasks, gives, seen' = now PROVE BrowserInv'
  <2>1. now \in {v \in Seens : NotAhead(v, vehicle)}
    <3>1. e.type = "vehicle" => e.vehicle \in {v \in Seens : NotAhead(v, vehicle)}
      BY <1>4 DEF Signals
    <3>2. QED BY <1>3, <3>1
  <2> HIDE DEF now
  <2>2. BrowserTypes'
    BY <1>1, <1>2, <1>3, <1>4, <1>7, <2>1 DEF BrowserInv, BrowserTypes, NotAhead
  <2>3. InStep(events, seen, vehicle)'
    BY <1>1, <1>5, <1>7
  <2>4. HandedIsAsked'
    BY <1>7 DEF HandedIsAsked
  <2>5. QED BY <1>1, <1>2, <1>3, <1>7, <2>2, <2>3, <2>4 DEF BrowserInv
<1>8. CASE e.type = "vehicle"
  <2> DEFINE moved == now.target # seen.target \/ now.ready # seen.ready
  <2>1. HearVehicle(e.vehicle) /\ now = e.vehicle
    BY <1>8 DEF HearFs, e
  <2>2. now.ready \in BOOLEAN /\ now.target \in Vehicles
    BY <1>4, <1>8 DEF Signals, Seens
  <2> HIDE DEF now
  <2>3. seen' = now /\ shown' = shown /\ handed' = handed
    BY <2>1 DEF HearVehicle
  <2>4. CASE ~shown
    <3>1. UNCHANGED <<commands, explorer, dialog, download, deletion, reading>>
      BY <2>1, <2>4 DEF HearVehicle
    <3>2. reading = 0
      BY <2>4 DEF BrowserInv
    <3>3. asked /\ screen /\ asks /\ tasks /\ gives
      BY <1>3, <1>6, <2>3, <2>4, <3>1, <3>2
    <3>4. QED BY <1>7, <2>3, <3>3
  <2>5. CASE shown
    <3>1. /\ dialog' = DialogClosed
          /\ explorer' = [(IF moved THEN Emptied ELSE explorer)
                          EXCEPT !.picked = {}, !.loading = IF moved THEN now.ready ELSE @]
          /\ Asks(IF moved /\ now.ready THEN <<List(explorer.path)>> ELSE <<>>)
          /\ IF moved THEN download' = NoTask /\ deletion' = "none" /\ reading' = 0
             ELSE UNCHANGED <<download, deletion, reading>>
      BY <2>1, <2>5 DEF HearVehicle
    <3>2. asked
      BY <1>3, <3>1, PlainOrders, AskedFor DEF BrowserInv
    <3>3. asks
      BY <1>3, <3>1 DEF DialogClosed
    <3>4. CASE moved
      <4>1. screen
        BY <1>3, <2>2, <2>3, <3>1, <3>4 DEF Emptied
      <4>2. tasks
        BY <3>1, <3>4 DEF NoTask
      <4>3. QED BY <1>6, <1>7, <2>3, <3>2, <3>3, <4>1, <4>2
    <3>5. CASE ~moved
      <4>1. explorer' = [explorer EXCEPT !.picked = {}] /\ UNCHANGED <<download, deletion, reading>>
            /\ now.target = seen.target
        BY <1>3, <3>1, <3>5
      <4>2. screen
        BY <1>3, <2>3, <4>1 DEF BrowserInv
      <4>3. tasks
        BY <1>3, <4>1 DEF BrowserInv
      <4>4. QED BY <1>6, <1>7, <2>3, <3>2, <3>3, <4>2, <4>3
    <3>6. QED BY <3>4, <3>5
  <2>6. QED BY <1>3, <2>4, <2>5
<1>9. CASE e.type = "fs_list"
  <2>1. HearListing(e) /\ now = seen
    BY <1>9 DEF HearFs, e
  <2>2. /\ UNCHANGED <<commands, seen, shown, dialog, download, deletion, reading, handed>>
        /\ explorer' = IF e.dir # explorer.path THEN explorer
                       ELSE [explorer EXCEPT !.rows = e.names, !.listed = e.dir, !.from = e.target,
                                             !.loading = FALSE]
    BY <2>1 DEF HearListing, browserTasks
  <2>3. e.dir \in Dirs /\ e.target \in Vehicles /\ e.names \in SUBSET Names
    BY <1>4, <1>9 DEF Signals
  <2>4. e.target = seen.target
    BY <1>5, <1>9 DEF CameFrom
  <2>5. screen
    BY <1>3, <2>1, <2>2, <2>3, <2>4 DEF BrowserInv
  <2>6. QED BY <1>6, <1>7, <2>1, <2>2, <2>5
<1>10. CASE e.type = "fs_download_complete"
  <2>1. HearDownloaded(e.file, e.id) /\ now = seen
    BY <1>10 DEF HearFs, e
  <2>2. e.file \in CardFiles /\ e.id \in Artifacts /\ artifacts[e.id].file = e.file
    BY <1>4, <1>10 DEF Signals
  <2>3. e.file[1] = seen.target
    BY <1>5, <1>10 DEF CameFrom
  <2>4. UNCHANGED <<seen, shown, explorer, dialog, deletion, handed>>
    BY <2>1 DEF HearDownloaded
  <2>5. CASE download.file # NoFile /\ <<download.file[2], download.file[3]>> = <<e.file[2], e.file[3]>>
    <3>1. download' = [download EXCEPT !.status = "done"]
      BY <2>1, <2>5 DEF HearDownloaded
    <3>2. CASE shown
      <4>1. reading' = e.id /\ Asks(<<[type |-> "artifact_read", id |-> e.id]>>)
        BY <2>1, <2>5, <3>2 DEF HearDownloaded
      <4>2. download.file = e.file
        <5>1. download.file \in CardFiles /\ download.file[1] = e.file[1] /\ download.file[2] = e.file[2]
              /\ download.file[3] = e.file[3]
          BY <1>3, <2>3, <2>5, <3>2 DEF BrowserInv
        <5>2. QED BY <2>2, <5>1 DEF CardFiles
      <4>3. asked
        BY <2>2, <4>1, PlainOrders, AskedFor DEF BrowserInv
      <4>4. tasks
        <5>1. e.id \in Nat /\ download' \in Downloads /\ download'.file = e.file /\ download'.status = "done"
          <6>1. e.id \in Nat
            BY <2>2 DEF Artifacts
          <6>2. download \in Downloads
            BY <1>3
          <6>3. QED BY ONLY <3>1, <4>2, <6>1, <6>2
        <5>2. QED BY <1>3, <2>1, <2>2, <2>3, <2>4, <3>2, <4>1, <5>1
      <4>5. QED BY <1>6, <1>7, <2>1, <2>4, <4>3, <4>4
    <3>3. CASE ~shown
      <4>1. UNCHANGED <<reading, commands>>
        BY <2>1, <2>5, <3>3 DEF HearDownloaded
      <4>2. reading = 0
        BY <3>3 DEF BrowserInv
      <4>3. tasks
        BY <1>3, <2>4, <3>1, <3>3, <4>1, <4>2
      <4>4. QED BY <1>6, <1>7, <2>1, <2>4, <4>1, <4>3
    <3>4. QED BY <1>3, <3>2, <3>3
  <2>6. CASE ~(download.file # NoFile /\ <<download.file[2], download.file[3]>> = <<e.file[2], e.file[3]>>)
    <3>1. UNCHANGED <<download, reading, commands>>
      BY <2>1, <2>6, Zenon DEF HearDownloaded
    <3>2. QED BY <1>6, <1>7, <2>1, <2>4, <3>1
  <2>7. QED BY <2>5, <2>6
<1>11. CASE e.type = "artifact"
  <2>1. HearArtifact(e) /\ now = seen
    BY <1>11 DEF HearFs, e
  <2>2. e.file \in CardFiles /\ e.id \in Artifacts /\ artifacts[e.id].file = e.file /\ e.found \in BOOLEAN
    BY <1>4, <1>11 DEF Signals
  <2>3. UNCHANGED <<commands, seen, shown, explorer, dialog, deletion>>
    BY <2>1 DEF HearArtifact
  <2>4. CASE reading # e.id
    <3>1. UNCHANGED <<download, reading, handed>>
      BY <2>1, <2>4 DEF HearArtifact
    <3>2. QED BY <1>6, <1>7, <2>1, <2>3, <3>1
  <2>5. CASE reading = e.id
    <3>1. reading' = 0 /\ download.file = e.file
      BY <2>1, <2>2, <2>5 DEF HearArtifact, BrowserInv, Artifacts
    <3>2. CASE e.found
      <4>1. handed' = handed \cup {[asked |-> download.file, got |-> e.file]} /\ download' = NoTask
        BY <2>1, <2>5, <3>2 DEF HearArtifact
      <4>2. gives
        BY <3>1, <4>1 DEF BrowserInv, HandedIsAsked
      <4>3. tasks
        BY <1>3, <2>3, <3>1, <4>1 DEF NoTask
      <4>4. QED BY <1>6, <1>7, <2>1, <2>3, <4>2, <4>3
    <3>3. CASE ~e.found
      <4>1. handed' = handed /\ download' = [download EXCEPT !.status = "error"]
        BY <2>1, <2>5, <3>3 DEF HearArtifact
      <4>2. tasks
        BY <1>3, <2>1, <2>3, <3>1, <4>1 DEF BrowserInv
      <4>3. QED BY <1>6, <1>7, <2>1, <2>3, <4>1, <4>2
    <3>4. QED BY <2>2, <3>2, <3>3
  <2>6. QED BY <2>4, <2>5
<1>12. CASE e.type = "fs_delete_done"
  <2> DEFINE again == shown /\ deletion = "active"
  <2>1. HearDeleted /\ now = seen
    BY <1>12 DEF HearFs, e
  <2>2. /\ UNCHANGED <<seen, shown, dialog, download, reading, handed>>
        /\ deletion' = IF deletion = "none" THEN "none" ELSE "done"
        /\ explorer' = [explorer EXCEPT !.picked = {}, !.loading = again \/ @]
        /\ Asks(IF again THEN <<List(explorer.path)>> ELSE <<>>)
    BY <2>1 DEF HearDeleted
  <2>3. asked
    BY <1>3, <2>2, PlainOrders, AskedFor DEF BrowserInv
  <2>4. screen
    <3>1. again \in BOOLEAN /\ explorer.loading \in BOOLEAN
      BY <1>3
    <3> HIDE DEF again
    <3>2. QED BY <1>3, <2>1, <2>2, <3>1 DEF BrowserInv
  <2>5. tasks
    BY <1>3, <2>1, <2>2 DEF BrowserInv
  <2>6. QED BY <1>6, <1>7, <2>1, <2>2, <2>3, <2>4, <2>5
<1>13. CASE e.type = "fs_op_error"
  <2>1. HearFsError(e.op) /\ now = seen
    BY <1>13 DEF HearFs, e
  <2>2. e.op \in {"list", "download", "delete"}
    BY <1>4, <1>13 DEF Signals
  <2>3. UNCHANGED <<commands, seen, shown, dialog, handed>>
    BY <2>1 DEF HearFsError
  <2>4. CASE e.op = "list"
    <3>1. explorer' = [explorer EXCEPT !.loading = FALSE] /\ UNCHANGED <<download, deletion, reading>>
      BY <2>1, <2>4 DEF HearFsError
    <3>2. screen
      BY <1>3, <2>1, <2>3, <3>1 DEF BrowserInv
    <3>3. QED BY <1>6, <1>7, <2>1, <2>3, <3>1, <3>2
  <2>5. CASE e.op = "download"
    <3>1. /\ download' = IF download = NoTask THEN NoTask ELSE [download EXCEPT !.status = "error"]
          /\ reading' = 0 /\ UNCHANGED <<explorer, deletion>>
      BY <2>1, <2>5 DEF HearFsError
    <3>2. tasks
      BY <1>3, <2>1, <2>3, <3>1 DEF BrowserInv, NoTask
    <3>3. QED BY <1>6, <1>7, <2>1, <2>3, <3>1, <3>2
  <2>6. CASE e.op = "delete"
    <3>1. deletion' = (IF deletion = "active" THEN "error" ELSE deletion)
          /\ UNCHANGED <<explorer, download, reading>>
      BY <2>1, <2>6 DEF HearFsError
    <3>2. tasks
      BY <1>3, <2>1, <2>3, <3>1 DEF BrowserInv
    <3>3. QED BY <1>6, <1>7, <2>1, <2>3, <3>1, <3>2
  <2>7. QED BY <2>2, <2>4, <2>5, <2>6
<1>14. e.type \in {"vehicle", "fs_list", "fs_download_complete", "artifact", "fs_delete_done", "fs_op_error"}
  BY <1>4 DEF Signals
<1>15. QED BY <1>8, <1>9, <1>10, <1>11, <1>12, <1>13, <1>14

(* What was honest stays so when the vehicle changes and when more is        *)
(* downloaded.                                                               *)
LEMMA StaysHonest ==
    ASSUME Artifacts \subseteq Artifacts', \A i \in Artifacts : artifacts'[i].file = artifacts[i].file,
           vehicle' = vehicle \/ (vehicle.epoch \in Nat /\ vehicle'.epoch = vehicle.epoch + 1)
    PROVE  Orders \subseteq Orders' /\ Signals \subseteq Signals'
<1>1. \A c : c.epoch \in Nat /\ NotAhead(c, vehicle) => NotAhead(c, vehicle')
  BY DEF NotAhead
<1>2. Deletions \subseteq Deletions'
  <2>1. \A c \in Deletions : c.tick.epoch \in Nat
    BY DEF Deletions, Keys
  <2>2. \A c \in Deletions : NotAhead(c.tick, vehicle) => NotAhead(c.tick, vehicle')
    BY <1>1, <2>1
  <2>3. QED BY <2>2 DEF Deletions, NotAhead
<1>3. {v \in Seens : NotAhead(v, vehicle)} \subseteq {v \in Seens : NotAhead(v, vehicle')}
  BY <1>1 DEF Seens
<1>4. Orders \subseteq Orders'
  BY <1>2 DEF Orders
<1>5. ASSUME NEW e \in Signals PROVE e \in Signals'
  <2>1. CASE e \in [type : {"vehicle"}, vehicle : {v \in Seens : NotAhead(v, vehicle)}]
    BY <1>3, <2>1 DEF Signals, NotAhead
  <2>2. CASE /\ e \in [type : {"fs_download_complete"}, file : CardFiles, id : Artifacts]
             /\ artifacts[e.id].file = e.file
    BY <2>2 DEF Signals
  <2>3. CASE /\ e \in [type : {"artifact"}, id : Artifacts, file : CardFiles, found : BOOLEAN]
             /\ artifacts[e.id].file = e.file
    BY <2>3 DEF Signals
  <2>4. CASE e \in [type : {"fs_list"}, dir : Dirs, target : Vehicles, names : SUBSET Names]
                   \cup [type : {"fs_delete_done"}] \cup [type : {"fs_op_error"}, op : {"list", "download", "delete"}]
    BY <2>4 DEF Signals
  <2>5. QED BY <2>1, <2>2, <2>3, <2>4 DEF Signals
<1>6. QED BY <1>4, <1>5

(* The Worker tells the page one more thing.                                 *)
LEMMA TellsOne ==
    ASSUME BrowserInv, NEW e, TellsPage(<<e>>), e \in Signals', e.type # "vehicle",
           Signals \subseteq Signals', CameFrom(e) \subseteq {vehicle.target}
    PROVE  events' \in Seq(Signals') /\ InStep(events', seen, vehicle)
<1> DEFINE T == Signals'
<1>1. events \in Seq(Signals) /\ Signals \subseteq T /\ e \in T
  BY DEF BrowserInv, BrowserTypes
<1> HIDE DEF T
<1>2. events \in Seq(T) /\ <<e>> \in Seq(T) /\ events' = events \o <<e>>
  BY <1>1, Wider DEF TellsPage
<1>3. events' \in Seq(T)
  BY <1>2, ConcatProperties
<1>4. InStep(events \o <<e>>, seen, vehicle)
  BY <1>1, <1>2, InStepAppend DEF BrowserInv
<1>5. QED BY <1>2, <1>3, <1>4 DEF T

LEMMA WorkerFsStep ==
    ASSUME BrowserInv, ServeFs \/ FtpEnds
    PROVE  BrowserInv'
<1> DEFINE tells == events' \in Seq(Signals') /\ InStep(events', seen, vehicle)
           asked == commands' \in Seq(Orders')
           runs == ftp' \in FtpRuns
           card == onCard' \in [Vehicles -> [Dirs -> SUBSET Names]]
           keeps == /\ artifacts' \in Seq(Kept) /\ Artifacts \subseteq Artifacts'
                    /\ \A i \in Artifacts : artifacts'[i].file = artifacts[i].file
<1>1. UNCHANGED <<vehicle, seen, shown, explorer, dialog, download, deletion, reading, handed>>
  BY Zenon DEF ServeFs, FtpEnds, browserTasks
<1>2. /\ vehicle \in Seens /\ vehicle.target \in Vehicles /\ artifacts \in Seq(Kept) /\ ftp \in FtpRuns
      /\ commands \in Seq(Orders) /\ onCard \in [Vehicles -> [Dirs -> SUBSET Names]] /\ FtpIdle \in FtpRuns
      /\ events \in Seq(Signals)
  BY DEF BrowserInv, BrowserTypes, Seens, FtpRuns
<1>3. FtpRuns' = FtpRuns
  BY <1>1 DEF FtpRuns
<1>4. ASSUME keeps PROVE Orders \subseteq Orders' /\ Signals \subseteq Signals'
  BY <1>1, <1>4, StaysHonest
<1>5. ASSUME tells, asked, runs, card, keeps PROVE BrowserInv'
  <2>1. BrowserTypes'
    BY <1>1, <1>3, <1>5 DEF BrowserInv, BrowserTypes, NotAhead
  <2>2. InStep(events, seen, vehicle)'
    BY <1>1, <1>5
  <2>3. HandedIsAsked'
    BY <1>1 DEF BrowserInv, HandedIsAsked
  <2>4. reading # 0 => reading \in Artifacts' /\ artifacts'[reading].file = artifacts[reading].file
    BY <1>5 DEF BrowserInv
  <2>5. QED BY <1>1, <2>1, <2>2, <2>3, <2>4 DEF BrowserInv
<1>6. /\ UNCHANGED artifacts => keeps
      /\ UNCHANGED ftp => runs
      /\ UNCHANGED onCard => card
      /\ keeps /\ UNCHANGED commands => asked
      /\ keeps /\ UNCHANGED events => tells
  <2>1. UNCHANGED artifacts => keeps
    BY <1>2 DEF Artifacts
  <2>2. keeps /\ UNCHANGED commands => asked
    <3>1. SUFFICES ASSUME keeps, UNCHANGED commands PROVE asked
      OBVIOUS
    <3>2. Orders \subseteq Orders'
      BY <1>4, <3>1
    <3>3. QED BY <1>2, <3>1, <3>2, Wider
  <2>3. keeps /\ UNCHANGED events => tells
    <3>1. SUFFICES ASSUME keeps, UNCHANGED events PROVE tells
      OBVIOUS
    <3>2. Signals \subseteq Signals'
      BY <1>4, <3>1
    <3>3. events' \in Seq(Signals')
      BY <1>2, <3>1, <3>2, Wider
    <3>4. QED BY <3>1, <3>3 DEF BrowserInv
  <2>4. QED BY <1>2, <2>1, <2>2, <2>3
<1>7. \A o \in {"list", "download", "delete"} :
        FsError(o) \in Signals' /\ FsError(o).type = "fs_op_error" /\ CameFrom(FsError(o)) = {}
  BY DEF Signals, FsError, CameFrom
<1>8. ASSUME keeps, NEW o \in {"list", "download", "delete"}, TellsPage(<<FsError(o)>>) PROVE tells
  <2>1. Signals \subseteq Signals'
    BY <1>4, <1>8
  <2>2. FsError(o).type # "vehicle" /\ CameFrom(FsError(o)) \subseteq {vehicle.target} /\ FsError(o) \in Signals'
    BY <1>7
  <2>3. QED BY <1>8, <2>1, <2>2, TellsOne
<1>9. ASSUME keeps, TellsPage(<<>>) PROVE tells
  <2>1. events' = events
    BY <1>2, <1>9, ConcatEmptySeq DEF TellsPage
  <2>2. QED BY <1>6, <1>9, <2>1
<1>10. CASE ServeFs
  <2> DEFINE c == Head(commands)
  <2>1. commands # <<>> /\ commands' = Tail(commands) /\ onCard' = onCard
    BY <1>10, Zenon DEF ServeFs
  <2>2. c \in Orders /\ commands' \in Seq(Orders)
    BY <1>2, <2>1, HeadTailProperties, EmptySeq
  <2>3. ASSUME keeps PROVE asked
    <3>1. Orders \subseteq Orders'
      BY <1>4, <2>3
    <3>2. QED BY <2>2, <3>1, Wider
  <2>4. CASE c.type = "artifact_read"
    <3> DEFINE file == artifacts[c.id].file
               e == [type |-> "artifact", id |-> c.id, file |-> file, found |-> artifacts[c.id].kept]
    <3>1. /\ TellsPage(<<e>>) /\ artifacts' = [artifacts EXCEPT ![c.id].kept = FALSE] /\ ftp' = ftp
      BY <1>10, <2>4 DEF ServeFs
    <3>2. c.id \in Artifacts
      BY <2>2, <2>4 DEF Orders, Deletions
    <3>3. /\ Len(artifacts) \in Nat /\ artifacts \in [1..Len(artifacts) -> Kept] /\ artifacts[c.id] \in Kept
      BY <1>2, <3>2, LenProperties, ElementOfSeq DEF Artifacts
    <3>4. /\ artifacts' \in [1..Len(artifacts) -> Kept]
          /\ \A i \in Artifacts : artifacts'[i].file = artifacts[i].file
      BY <3>1, <3>2, <3>3 DEF Kept, Artifacts
    <3>5. artifacts' \in Seq(Kept) /\ Len(artifacts') = Len(artifacts)
      BY <3>3, <3>4, SeqDef, LenProperties
    <3>6. Artifacts' = Artifacts
      BY <3>5 DEF Artifacts
    <3>7. keeps
      BY <3>4, <3>5, <3>6
    <3>8. e \in Signals' /\ e.type # "vehicle" /\ CameFrom(e) \subseteq {vehicle.target}
      <4>1. file \in CardFiles /\ artifacts[c.id].kept \in BOOLEAN /\ c.id \in Artifacts' /\ artifacts'[c.id].file = file
        BY <3>2, <3>3, <3>4, <3>6 DEF Kept
      <4> HIDE DEF file, c
      <4>2. QED BY <4>1 DEF Signals, CameFrom
    <3> HIDE DEF e
    <3>9. Signals \subseteq Signals'
      BY <1>4, <3>7
    <3>10. tells
      BY <3>1, <3>8, <3>9, TellsOne
    <3>11. QED BY <1>5, <1>6, <2>1, <2>3, <3>1, <3>7, <3>10
  <2>5. CASE c.type # "artifact_read"
    <3>1. UNCHANGED artifacts /\ keeps /\ asked
      BY <1>6, <1>10, <2>3, <2>5 DEF ServeFs
    <3>2. tells
      <4>1. \/ events' = events \/ TellsPage(<<>>) \/ TellsPage(<<FsError("download")>>)
            \/ TellsPage(<<FsError(OpOf(c))>>)
        BY <1>10, <2>5 DEF ServeFs
      <4>2. OpOf(c) \in {"list", "download", "delete"}
        BY DEF OpOf
      <4>3. QED BY <1>6, <1>8, <1>9, <3>1, <4>1, <4>2
    <3>3. runs
      <4>1. ftp' = ftp \/ ftp' = FtpIdle
            \/ (c.type # "fs_download_cancel" /\ ~RefusedUnheard(c) /\ ftp' = FtpStarts(c))
        BY <1>10, <2>5 DEF ServeFs
      <4>2. ASSUME c.type # "fs_download_cancel", ~RefusedUnheard(c), ftp' = FtpStarts(c) PROVE runs
        <5>1. CASE c.type = "fs_list"
          <6>1. c.dir \in Dirs
            BY <2>2, <5>1 DEF Orders, Deletions
          <6>2. QED BY <4>2, <5>1, <6>1 DEF FtpStarts, FtpRuns
        <5>2. CASE c.type = "fs_download"
          <6>1. c.dir \in Dirs /\ c.name \in Names
            BY <2>2, <5>2 DEF Orders, Deletions
          <6>2. QED BY <4>2, <5>2, <6>1 DEF FtpStarts, FtpRuns
        <5>3. CASE c.type = "fs_delete"
          <6>1. c \in Deletions
            BY <2>2, <5>3 DEF Orders
          <6>2. c.dir \in Dirs /\ c.names \in SUBSET Names /\ c.tick \in Keys /\ c.tick.dir = c.dir
                /\ c.tick.names = c.names /\ c.tick.epoch = c.epoch /\ NotAhead(c.tick, vehicle)
            BY <6>1 DEF Deletions
          <6>3. c.tick.target = vehicle.target
            BY <4>2, <5>3, <6>2 DEF RefusedUnheard, NotAhead
          <6>4. ftp' = [op |-> "delete", target |-> vehicle.target, dir |-> c.dir, names |-> c.names,
                        tick |-> c.tick]
            BY <4>2, <5>3 DEF FtpStarts
          <6> HIDE DEF c
          <6>5. QED BY <6>2, <6>3, <6>4 DEF FtpRuns
        <5>4. QED BY <2>2, <2>5, <4>2, <5>1, <5>2, <5>3 DEF Orders, Deletions
      <4>3. QED BY <1>2, <1>6, <4>1, <4>2
    <3>4. QED BY <1>5, <1>6, <2>1, <3>1, <3>2, <3>3
  <2>6. QED BY <2>4, <2>5
<1>11. CASE FtpEnds
  <2>1. ftp # FtpIdle /\ ftp' = FtpIdle /\ commands' = commands
    BY <1>11, Zenon DEF FtpEnds
  <2>2. runs
    BY <1>2, <2>1
  <2>3. ftp.target = vehicle.target /\ ftp.dir \in Dirs /\ ftp.op \in {"list", "download", "delete"}
        /\ (ftp.op = "download" => ftp.name \in Names) /\ (ftp.op = "delete" => ftp.names \in SUBSET Names)
    BY <1>2, <2>1 DEF FtpRuns
  <2>4. CASE /\ UNCHANGED <<onCard, artifacts>>
             /\ TellsPage(<<[type |-> "fs_list", dir |-> ftp.dir, target |-> ftp.target,
                             names |-> onCard[ftp.target][ftp.dir]]>>)
    <3> DEFINE e == [type |-> "fs_list", dir |-> ftp.dir, target |-> ftp.target,
                     names |-> onCard[ftp.target][ftp.dir]]
    <3>1. onCard[ftp.target][ftp.dir] \in SUBSET Names
      BY <1>2, <2>3
    <3>2. e \in Signals' /\ e.type # "vehicle" /\ CameFrom(e) \subseteq {vehicle.target}
      BY <1>2, <2>3, <3>1 DEF Signals, CameFrom
    <3> HIDE DEF e
    <3>3. keeps
      BY <1>6, <2>4
    <3>4. Signals \subseteq Signals'
      BY <1>4, <3>3
    <3>5. TellsPage(<<e>>)
      BY <2>4 DEF e
    <3>6. tells
      BY <3>2, <3>4, <3>5, TellsOne
    <3>7. QED BY <1>5, <1>6, <2>1, <2>2, <2>4, <3>3, <3>6
  <2>5. CASE LET file == <<ftp.target, ftp.dir, ftp.name>>
             IN  /\ ftp.op = "download" /\ UNCHANGED onCard
                 /\ artifacts' = Append(artifacts, [file |-> file, kept |-> TRUE])
                 /\ TellsPage(<<[type |-> "fs_download_complete", file |-> file, id |-> Len(artifacts')]>>)
    <3> DEFINE file == <<ftp.target, ftp.dir, ftp.name>>
               a == [file |-> file, kept |-> TRUE]
               e == [type |-> "fs_download_complete", file |-> file, id |-> Len(artifacts')]
    <3>1. artifacts' = Append(artifacts, a) /\ TellsPage(<<e>>) /\ UNCHANGED onCard
      BY <2>5
    <3>2. file \in CardFiles /\ a \in Kept /\ a.file = file /\ file[1] = vehicle.target
      BY <1>2, <2>3, <2>5 DEF CardFiles, Kept
    <3> HIDE DEF a, file
    <3>3. /\ artifacts' \in Seq(Kept) /\ Len(artifacts') = Len(artifacts) + 1 /\ Len(artifacts) \in Nat
          /\ artifacts'[Len(artifacts) + 1] = a
          /\ \A i \in 1..Len(artifacts) : artifacts'[i] = artifacts[i]
      BY <1>2, <3>1, <3>2, AppendProperties, LenProperties
    <3>4. keeps
      BY <3>3 DEF Artifacts
    <3>5. Len(artifacts') \in Artifacts' /\ artifacts'[Len(artifacts')].file = file
      BY <3>2, <3>3 DEF Artifacts
    <3>6. e \in Signals' /\ e.type # "vehicle" /\ CameFrom(e) \subseteq {vehicle.target}
      BY <3>2, <3>5 DEF Signals, CameFrom
    <3> HIDE DEF e
    <3>7. Signals \subseteq Signals'
      BY <1>4, <3>4
    <3>8. tells
      BY <3>1, <3>6, <3>7, TellsOne
    <3>9. QED BY <1>5, <1>6, <2>1, <2>2, <3>1, <3>4, <3>8
  <2>6. CASE /\ ftp.op = "delete" /\ UNCHANGED artifacts
             /\ onCard' = [onCard EXCEPT ![ftp.target][ftp.dir] = @ \ ftp.names]
             /\ TellsPage(<<[type |-> "fs_delete_done"]>>)
    <3> DEFINE e == [type |-> "fs_delete_done"]
    <3>1. keeps
      BY <1>6, <2>6
    <3>2. e \in Signals' /\ e.type # "vehicle" /\ CameFrom(e) \subseteq {vehicle.target}
      BY DEF Signals, CameFrom
    <3>3. Signals \subseteq Signals'
      BY <1>4, <3>1
    <3>4. TellsPage(<<e>>)
      BY <2>6
    <3> HIDE DEF e
    <3>5. tells
      BY <3>2, <3>3, <3>4, TellsOne
    <3>6. card
      BY <1>2, <2>3, <2>6
    <3>7. QED BY <1>5, <1>6, <2>1, <2>2, <3>1, <3>5, <3>6
  <2>7. CASE UNCHANGED <<onCard, artifacts>> /\ TellsPage(<<FsError(ftp.op)>>)
    <3>1. keeps
      BY <1>6, <2>7
    <3>2. tells
      BY <1>8, <2>3, <2>7, <3>1
    <3>3. QED BY <1>5, <1>6, <2>1, <2>2, <2>7, <3>1, <3>2
  <2>8. QED BY <1>11, <2>4, <2>5, <2>6, <2>7, Zenon DEF FtpEnds
<1>12. QED BY <1>10, <1>11

LEMMA VehicleChangesStep ==
    ASSUME BrowserInv, VehicleChanges
    PROVE  BrowserInv'
<1> DEFINE lost == vehicle'.target # vehicle.target \/ ~vehicle'.ready
           fails == lost /\ ftp # FtpIdle
           error == FsError(ftp.op)
           last == [type |-> "vehicle", vehicle |-> vehicle']
           es == IF fails THEN <<error>> ELSE <<>>
           q == events \o es
           T == Signals'
<1>1. /\ ftp' = (IF lost THEN FtpIdle ELSE ftp) /\ TellsPage(es \o <<last>>)
      /\ UNCHANGED <<onCard, artifacts, commands, seen, shown, explorer, dialog, download, deletion, reading, handed>>
  BY Zenon DEF VehicleChanges, browserTasks
<1>2. /\ vehicle \in Seens /\ vehicle.epoch \in Nat /\ seen \in Seens /\ NotAhead(seen, vehicle)
      /\ events \in Seq(Signals) /\ commands \in Seq(Orders) /\ InStep(events, seen, vehicle) /\ ftp \in FtpRuns
  BY DEF BrowserInv, BrowserTypes, Seens
<1>3. vehicle' \in Seens /\ vehicle'.epoch = vehicle.epoch + 1
  BY <1>2 DEF VehicleChanges, Seens
<1>4. Orders \subseteq Orders' /\ Signals \subseteq T /\ Artifacts' = Artifacts
  <2>1. Artifacts' = Artifacts
    BY <1>1 DEF Artifacts
  <2>2. QED BY <1>1, <1>2, <1>3, <2>1, StaysHonest
<1>5. /\ fails => error \in T /\ error.type # "vehicle" /\ CameFrom(error) = {}
      /\ last \in T /\ last.type = "vehicle" /\ last.vehicle = vehicle' /\ CameFrom(last) = {}
  BY <1>2, <1>3 DEF Signals, FsError, FtpRuns, CameFrom, NotAhead
<1> HIDE DEF T, error, last, fails
<1>6. events \in Seq(T) /\ es \in Seq(T) /\ <<last>> \in Seq(T)
  <2>1. events \in Seq(T)
    BY <1>2, <1>4, Wider
  <2>2. QED BY <1>5, <2>1
<1>7. q \in Seq(T) /\ InStep(q, seen, vehicle)
  <2>1. q \in Seq(T)
    BY <1>6, ConcatProperties
  <2>2. CASE fails
    <3>1. q = events \o <<error>> /\ error \in T /\ error.type # "vehicle" /\ CameFrom(error) \subseteq {vehicle.target}
      BY <1>5, <2>2
    <3>2. InStep(events \o <<error>>, seen, vehicle)
      BY <1>2, <1>6, <3>1, InStepAppend
    <3>3. QED BY <2>1, <3>1, <3>2
  <2>3. CASE ~fails
    <3>1. q = events
      BY <1>6, <2>3, ConcatEmptySeq
    <3>2. QED BY <1>2, <2>1, <3>1
  <2>4. QED BY <2>2, <2>3
<1>8. events' = q \o <<last>>
  BY <1>1, <1>6, ConcatAssociative DEF TellsPage
<1> HIDE DEF q, es
<1>9. events' \in Seq(T) /\ InStep(events', seen, vehicle')
  <2>1. CameFrom(last) \subseteq {vehicle.target}
    BY <1>5
  <2>2. InStep(q \o <<last>>, seen, IF last.type = "vehicle" THEN last.vehicle ELSE vehicle)
    BY <1>5, <1>7, <2>1, InStepAppend
  <2>3. QED BY <1>5, <1>6, <1>7, <1>8, <2>2, ConcatProperties
<1>10. commands' \in Seq(Orders')
  BY <1>1, <1>2, <1>4, Wider
<1>11. ftp' \in FtpRuns'
  <2>1. CASE lost
    BY <1>1, <2>1 DEF FtpRuns
  <2>2. CASE ~lost
    BY <1>1, <1>2, <2>2 DEF FtpRuns
  <2>3. QED BY <2>1, <2>2
<1>12. NotAhead(seen, vehicle')
  BY <1>2, <1>3 DEF NotAhead, Seens
<1>13. BrowserTypes'
  BY <1>1, <1>2, <1>3, <1>9, <1>10, <1>11, <1>12 DEF BrowserInv, BrowserTypes, T, NotAhead
<1>14. InStep(events, seen, vehicle)' /\ HandedIsAsked'
  BY <1>1, <1>9 DEF BrowserInv, HandedIsAsked
<1>15. QED BY <1>1, <1>4, <1>13, <1>14 DEF BrowserInv

LEMMA BrowserStep == BrowserInv /\ [BrowserNext]_browserVars => BrowserInv'
<1> SUFFICES ASSUME BrowserInv, [BrowserNext]_browserVars PROVE BrowserInv'
  OBVIOUS
<1>1. CASE UNCHANGED browserVars
  <2>1. /\ UNCHANGED <<onCard, vehicle, ftp, artifacts, commands, events, seen, shown, explorer, dialog,
                       download, deletion, reading, handed>>
    BY <1>1 DEF browserVars
  <2>2. Orders' = Orders /\ Signals' = Signals /\ Artifacts' = Artifacts /\ FtpRuns' = FtpRuns
    BY <2>1, SameOrders DEF FtpRuns
  <2>3. QED BY <2>1, <2>2 DEF BrowserInv, BrowserTypes, HandedIsAsked, NotAhead
<1>2. CASE BrowserNext
  BY <1>2, UserStep, HearFsStep, WorkerFsStep, VehicleChangesStep DEF BrowserNext
<1>3. QED BY <1>1, <1>2

(* The rows on the screen are those of the vehicle on the screen; a deletion *)
(* runs on the vehicle, the directory and the files its user ticked; what a  *)
(* user gets is the file asked for: whatever listings, downloads and changes *)
(* of the vehicle are on their way when the page is left, opened again or    *)
(* clicked on (FlightLogsPage, fileExplorerStore, the Worker's FTP commands).*)
THEOREM BrowserIsSound == BrowserSpec => []BrowserSound
<1>1. ASSUME BrowserInv PROVE BrowserSound
  <2>1. RowsOfThisVehicle /\ HandedIsAsked
    BY <1>1 DEF BrowserInv, RowsOfThisVehicle
  <2>2. ftp.op = "delete" => ftp # FtpIdle /\ ftp \in FtpRuns
    BY <1>1 DEF BrowserInv, BrowserTypes, FtpIdle
  <2>3. DeletesWhatWasTicked
    BY <2>2 DEF DeletesWhatWasTicked, FtpRuns
  <2>4. QED BY <2>1, <2>3 DEF BrowserSound
<1>2. QED BY <1>1, BrowserStart, BrowserStep, PTL DEF BrowserSpec
=============================================================================
