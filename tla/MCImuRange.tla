----------------------------- MODULE MCImuRange -----------------------------
(* Instances of ImuRange: readings of 5 bits, so that the thresholds of 0.9 *)
(* and 0.4 lie at 14.4 and 6.4; the largest range ends at 128.  The ranges  *)
(* give the gyroscope the program's multipliers, 133, 266, 532 and 1065,   *)
(* and the accelerometer 3, 7, 14 and 28, which lose more than a step at    *)
(* high readings, as the program's 598, 1197, 2394 and 4788 do.            *)
EXTENDS ImuRange

MCMinRange == [accel |-> 57, gyro |-> 2130]

MCLevels == {-29, -13, 15, 58, 127}
=============================================================================
