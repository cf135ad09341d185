------------------------ MODULE MCCalibrationSession ------------------------
(* Instances of CalibrationSession for TLC.                                  *)
EXTENDS CalibrationSession

CONSTANTS page, other, level, left, compass1, compass2
=============================================================================
