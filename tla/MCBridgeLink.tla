---------------------------- MODULE MCBridgeLink ----------------------------
EXTENDS BridgeLink

TriesOf == [c \in {"arming", "mode"} |-> IF c = "arming" THEN 1 ELSE 2]
NewFrame == {[p \in {0, 1} |-> "b"]}

OneSort == {[p \in {0, 1} |-> "a"]}
AnySort == [{0, 1} -> {"a", "b"}]
OneTarget(uses, asks, resets, has) ==
    [uses |-> uses, on |-> {"v"}, asks |-> asks, switches |-> resets, has |-> has]
AllPages ==
    {OneTarget({"arming"}, 3, 0, OneSort), OneTarget({"mode"}, 2, 1, OneSort),
     OneTarget({"m1", "m2"}, 3, 1, OneSort), OneTarget({"set"}, 2, 1, AnySort),
     OneTarget({"airframe"}, 1, 1, AnySort), OneTarget({"set", "load"}, 1, 0, AnySort)}
OrderPages == {OneTarget({"arming"}, 2, 0, OneSort)}
=============================================================================
