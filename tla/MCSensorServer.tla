--------------------------- MODULE MCSensorServer ---------------------------
(* Two trains, as MAX_NUM_ENGINEER, on a loop of three places.  Forward   *)
(* the sensors are 1, 3, 9 (two in one byte), backward 2, 10, 4.          *)
EXTENDS SensorServer

MCSensors == {1, 3, 9, 2, 10, 4}

MCReverseOf == [s \in MCSensors |-> IF s % 2 = 1 THEN s + 1 ELSE s - 1]

MCNextSensor ==
    [s \in MCSensors |-> CASE s = 1 -> 3 [] s = 3 -> 9 [] s = 9 -> 1
                           [] s = 2 -> 10 [] s = 10 -> 4 [] s = 4 -> 2]

MCSecondary == [s \in MCSensors |-> MCNextSensor[MCNextSensor[s]]]
=============================================================================
