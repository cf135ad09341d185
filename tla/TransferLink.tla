---------------------------- MODULE TransferLink ----------------------------
(***************************************************************************)
(* What a file or log transfer sees of MavlinkBridge: the selected         *)
(* autopilot, whether the link takes frames, and whether an ESC session    *)
(* has borrowed it.  writeMessage asks for none of the first and the last: *)
(* a frame is written to whatever is selected at that moment.              *)
(***************************************************************************)
EXTENDS Integers, Sequences

CONSTANTS
    Vehicles,   \* autopilots that may be selected
    Server      \* the one that serves files and logs

Nobody == "nobody"

ASSUME LinkAssumption == Server \in Vehicles

VARIABLES
    link,        \* "up", "down", or "raw" while an ESC session has borrowed it
    target,      \* targetSysId of the bridge
    destroyed,   \* the bridge and its transfers are destroyed
    sent,        \* the frame written in the last step: kind, to whom, on which link
    said         \* the result reported to the page in the last step

linkVars == <<link, target, destroyed>>

NoFrame == [kind |-> "none", to |-> Nobody, home |-> Nobody, on |-> "up"]
Quiet == [type |-> "none", path |-> Nobody, entries |-> <<>>, clean |-> TRUE]

(* A frame of an operation that was started on the vehicle home.             *)
Frame(kind, home) == [kind |-> kind, to |-> target, home |-> home, on |-> link]

(* writeMessage: a link that is down takes nothing, another one may refuse.  *)
Takes == link # "down"

(* The entries of s at the given places, in their order.                     *)
Drawn(s, places) ==
    LET drawn[n \in 0..Len(s)] ==
            IF n = 0 THEN <<>>
            ELSE IF n \in places THEN Append(drawn[n - 1], s[n]) ELSE drawn[n - 1]
    IN drawn[Len(s)]

(* Frames of the server reach the transfers: it is the selected vehicle and  *)
(* the bytes are not those of an ESC session.                                *)
Heard == link = "up" /\ target = Server /\ ~destroyed
=============================================================================
