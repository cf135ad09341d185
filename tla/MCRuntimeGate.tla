---------------------------- MODULE MCRuntimeGate ----------------------------
(* Instances of RuntimeGate for TLC.                                         *)
EXTENDS RuntimeGate

CONSTANTS fc1, fc2, copter, plane
=============================================================================
