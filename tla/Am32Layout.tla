------------------------------ MODULE Am32Layout ------------------------------
(***************************************************************************)
(* The EEPROM layout of AM32: which byte holds which setting in which      *)
(* revision, how a byte is shown and how an edited value is stored.        *)
(* Values are in ten-thousandths of their unit; the unknown bytes are      *)
(* those no field names.                                                   *)
(***************************************************************************)
EXTENDS Integers, FiniteSets

CONSTANTS
    Revisions,  \* AM32_SUPPORTED_LAYOUTS
    MaxEdits    \* bound: patches of one EEPROM

ASSUME LayoutAssumption == Revisions \subseteq 1..3 /\ MaxEdits \in Nat

Never == -1
F(key, offset, min, max, step, scale, add, disabled, from, to) ==
    [key |-> key, offset |-> offset, min |-> min, max |-> max, step |-> step, scale |-> scale,
     add |-> add, disabled |-> disabled, from |-> from, to |-> to]

(* AM32_SETTINGS_FIELDS.  The options of an enumeration and the two values   *)
(* of a boolean are a range of step 1.                                       *)
Fields == {
    F("disableStickCalibration", 7, 0, 10000, 10000, 10000, 0, Never, 3, 3),
    F("protocol", 46, 0, 40000, 10000, 10000, 0, Never, 1, 3),
    F("motorDirection", 17, 0, 10000, 10000, 10000, 0, Never, 1, 3),
    F("bidirectional", 18, 0, 10000, 10000, 10000, 0, Never, 1, 3),
    F("stuckRotorProtection", 22, 0, 10000, 10000, 10000, 0, Never, 1, 3),
    F("stallProtection", 29, 0, 10000, 10000, 10000, 0, Never, 1, 3),
    F("hallSensors", 39, 0, 10000, 10000, 10000, 0, Never, 1, 3),
    F("intervalTelemetry", 31, 0, 10000, 10000, 10000, 0, Never, 1, 3),
    F("complementaryPwm", 20, 0, 10000, 10000, 10000, 0, Never, 1, 3),
    F("autoTimingAdvance", 47, 0, 10000, 10000, 10000, 0, Never, 1, 3),
    F("pwmType", 21, 0, 20000, 10000, 10000, 0, Never, 1, 3),
    F("timingAdvance", 23, 0, 225000, 75000, 75000, 0, Never, 1, 2),
    F("timingAdvance", 23, 0, 225000, 9375, 9375, -93750, Never, 3, 3),
    F("startupPower", 25, 500000, 1500000, 10000, 10000, 0, Never, 1, 3),
    F("motorKv", 26, 200000, 102200000, 400000, 400000, 200000, Never, 1, 3),
    F("motorPoles", 27, 20000, 360000, 10000, 10000, 0, Never, 1, 3),
    F("beeperVolume", 30, 0, 110000, 10000, 10000, 0, Never, 1, 3),
    F("pwmFrequency", 24, 80000, 1440000, 10000, 10000, 0, Never, 1, 3),
    F("rampRate", 5, 1000, 255000, 1000, 1000, 0, Never, 3, 3),
    F("minimumDutyCycle", 6, 5000, 1000000, 5000, 5000, 0, Never, 3, 3),
    F("lowVoltageCutoff", 36, 0, 20000, 10000, 10000, 0, Never, 1, 3),
    F("temperatureLimit", 43, 700000, 1400000, 10000, 10000, 0, 2550000, 1, 3),
    F("currentLimit", 44, 0, 2000000, 20000, 20000, 0, 4040000, 1, 3),
    F("lowVoltageThreshold", 37, 25000, 35000, 100, 100, 25000, Never, 1, 3),
    F("absoluteVoltageThreshold", 8, 5000, 500000, 5000, 5000, 0, Never, 3, 3),
    F("currentP", 9, 0, 2550000, 10000, 10000, 0, Never, 3, 3),
    F("currentI", 10, 0, 2550000, 10000, 10000, 0, Never, 3, 3),
    F("currentD", 11, 0, 2550000, 10000, 10000, 0, Never, 3, 3),
    F("sinusoidalStartup", 19, 0, 10000, 10000, 10000, 0, Never, 1, 3),
    F("sineModeRange", 40, 50000, 250000, 10000, 10000, 0, Never, 1, 3),
    F("sineModePower", 45, 10000, 100000, 10000, 10000, 0, Never, 1, 3),
    F("carReverseBraking", 38, 0, 10000, 10000, 10000, 0, Never, 1, 3),
    F("brakeOnStop", 28, 0, 20000, 10000, 10000, 0, Never, 1, 3),
    F("brakeStrength", 41, 0, 100000, 10000, 10000, 0, Never, 1, 3),
    F("runningBrakeLevel", 42, 0, 100000, 10000, 10000, 0, Never, 1, 3),
    F("activeBrakePower", 12, 0, 100000, 10000, 10000, 0, 0, 3, 3),
    F("servoLowThreshold", 32, 7500000, 12580000, 20000, 20000, 7500000, Never, 1, 3),
    F("servoHighThreshold", 33, 17500000, 22580000, 20000, 20000, 17500000, Never, 1, 3),
    F("servoNeutral", 34, 13740000, 16290000, 10000, 10000, 13740000, Never, 1, 3),
    F("servoDeadBand", 35, 0, 2550000, 10000, 10000, 0, Never, 1, 3)}

(* am32FieldsForRevision.                                                    *)
FieldsOf(rev) == {f \in Fields : f.from <= rev /\ rev <= f.to}

VARIABLES
    revision,  \* byte 1 of the EEPROM
    memory,    \* the other bytes
    shown,     \* history: what each field was last set to
    edits

layoutVars == <<revision, memory, shown, edits>>
-----------------------------------------------------------------------------
(* decodeAm32Eeprom, for one field.                                          *)
Decoded(f, byte) == byte * f.scale + f.add

(* Wrong on purpose: the offset of the unit is forgotten.                    *)
RawOfUnshifted(f, value) == value \div f.scale

(* Math.round((value - add) / scale).                                        *)
RawOf(f, value) == (2 * (value - f.add) + f.scale) \div (2 * f.scale)

(* encodeAm32Eeprom refuses what is out of range, but for the value that     *)
(* stands for "off", and what its byte cannot hold.                          *)
Allowed(f, value) == value = f.disabled \/ (f.min <= value /\ value <= f.max)
Fits(f, value) == RawOf(f, value) \in 0..255

(* What the page offers for a field: every step of its range, and "off".     *)
Steps(f) == {f.min + k * f.step : k \in 0..(f.max - f.min) \div f.step}
Offered(f) == Steps(f) \cup (IF f.disabled = Never THEN {} ELSE {f.disabled})
Tried(f) == {f.min, f.min + f.step, f.max} \cap Offered(f)

LayoutInit ==
    /\ revision \in Revisions /\ memory = [o \in 2..47 |-> 255]
    /\ shown = {} /\ edits = 0

(* A patch of one field is encoded into the bytes that are there.            *)
Patched ==
    /\ edits < MaxEdits /\ edits' = edits + 1
    /\ \E f \in FieldsOf(revision) : \E value \in Tried(f) :
          /\ Allowed(f, value) /\ Fits(f, value)
          /\ memory' = [memory EXCEPT ![f.offset] = RawOf(f, value)]
          /\ shown' = {s \in shown : s[1] # f} \cup {<<f, value>>}
    /\ UNCHANGED revision

LayoutNext == Patched
LayoutSpec == LayoutInit /\ [][LayoutNext]_layoutVars
-----------------------------------------------------------------------------
(* Whatever was set is shown again, to the last digit, after any later patch *)
(* of other fields; every value the page offers can be stored and reads back *)
(* as itself; and no byte changes that no patch named.                       *)
LayoutSound ==
    /\ \A s \in shown : Decoded(s[1], memory[s[1].offset]) = s[2]
    /\ \A o \in DOMAIN memory : memory[o] = 255 \/ \E s \in shown : s[1].offset = o
    /\ edits = 0 => \A f \in FieldsOf(revision) : \A value \in Offered(f) :
          Allowed(f, value) /\ Fits(f, value) /\ Decoded(f, RawOf(f, value)) = value
=============================================================================
