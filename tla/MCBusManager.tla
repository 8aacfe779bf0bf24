---------------------------- MODULE MCBusManager ----------------------------
(* Instances of BusManager for TLC. *)
EXTENDS BusManager

CONSTANTS e1, e2, i1, i2, eeprom, imu, null

FirstIsEeprom == [r \in Request |-> IF r \in {e1, e2} THEN eeprom ELSE imu]

(* The program's bus: the EEPROM is left busy, the IMU is not *)
OneSlowDevice == [d \in Device |-> IF d = eeprom THEN {EepromWrite(1), FlashErase(1)}
                                    ELSE {ImuTransfer}]
(* The EEPROM beside the magnetometer, both left busy by a write *)
TwoSlowDevices == [d \in Device |-> IF d = eeprom THEN {EepromWrite(1)} ELSE {MagWrite}]
=============================================================================
