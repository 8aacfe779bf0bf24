------------------------------ MODULE ImuRange ------------------------------
(***************************************************************************)
(* The inertial sensor: its set-up (imu_icm20948.c), the processor of its  *)
(* bus requests (dma_imu_icm20948.c) and the navigation process, which     *)
(* reads it every 5 ms and adjusts its ranges (global_imu.c,               *)
(* navigation.c).                                                          *)
(*                                                                         *)
(* The sensor's registers lie in banks.  The program may be restarted at   *)
(* any moment, by the debugger's reset or a fault, while the sensor stays   *)
(* powered and keeps its registers.  Readings are those of an int16_t;     *)
(* motion is counted in steps of the smallest range, and stored in         *)
(* micrometres per square second or microradians per second.               *)
(***************************************************************************)
EXTENDS Integers, FiniteSets, Sequences

CONSTANTS
  Axis,         \* x, y, z
  Level,        \* the motions of an axis
  RAW_RANGE,    \* 32768, the range of an int16_t
  MinRange,     \* the smallest range of each sensor, in the unit that is stored
  MaxRestart    \* bound: restarts

Sensor == {"accel", "gyro"}

ASSUME ImuAssumption ==
  /\ Axis # {} /\ Level \subseteq Int
  /\ RAW_RANGE \in Nat \ {0} /\ RAW_RANGE % 8 = 0
  /\ MinRange \in [Sensor -> Nat \ {0}]
  /\ MaxRestart \in Nat

Order == <<"accel", "gyro">>
FS_SEL_MIN == 0
FS_SEL_MAX == 3
FsSel == FS_SEL_MIN .. FS_SEL_MAX

Byte == 0 .. 255
REG_BANK_SEL == 127
USER_CTRL == 3
PWR_MGMT_1 == 6
ACCEL_CONFIG == 20
GYRO_CONFIG_1 == 1
I2C_MST_CTRL == 1
I2C_MST_DELAY_CTRL == 2
I2C_SLV0_ADDR == 3
I2C_SLV0_REG == 4
I2C_SLV0_CTRL == 5
I2C_SLV0_DO == 6
MAG_CNTL2 == 49
MAG_CNTL3 == 50
MAG_WAI1 == 0

(* The registers, by bank and address, that something writes, meant or not: *)
(* those at 3 and 6 in bank 2 are gyroscope offsets.                       *)
Register == {<<0, USER_CTRL>>, <<0, PWR_MGMT_1>>,
             <<2, ACCEL_CONFIG>>, <<2, GYRO_CONFIG_1>>, <<2, 3>>, <<2, 6>>}
            \cup ({3} \X (I2C_MST_CTRL .. I2C_SLV0_DO))
ConfigOf == [accel |-> ACCEL_CONFIG, gyro |-> GYRO_CONFIG_1]

VARIABLES
  bank, registers,  \* of the sensor
  motion,       \* what it measures, at its last sample
  output,       \* the range of that sample
  steady,       \* the motion will not change any more
  pc, k,        \* where the program is, and in which step of a sequence
  request,      \* data_request, accel_range_request or gyro_range_request
  fs_sel,       \* accel_fs_sel, gyro_fs_sel
  raw_data,
  measured,     \* the raw values of the globals
  sampled,      \* a sample was taken during this delay
  missed,       \* history: the sensors whose range is left from before a restart
  restarts

device == <<bank, registers, motion, output, steady>>
program == <<pc, k, request, fs_sel, raw_data, measured>>
starts == <<missed, restarts>>
vars == <<device, program, sampled, starts>>

Reading == [Sensor -> [Axis -> -RAW_RANGE .. RAW_RANGE - 1]]
Zero == [s \in Sensor |-> [a \in Axis |-> 0]]
NoRequest == [type |-> "none", bank |-> 0, address |-> 0, value |-> 0]

(* Ranges are those the sensor has, readings fit their width, and every     *)
(* request of the bus names a bank and a register.                         *)
TypeOK ==
  /\ bank \in 0 .. 3
  /\ registers \in [Register -> Byte]
  /\ motion \in [Sensor -> [Axis -> Level]]
  /\ output \in [Sensor -> FsSel] /\ steady \in BOOLEAN
  /\ pc \in {"setup", "gate", "bus", "transfer", "store", "adjust", "delay"}
  /\ k \in Nat
  /\ request \in [type : {"none", "read", "write"}, bank : 0 .. 3, address : Byte, value : Byte]
  /\ fs_sel \in [Sensor -> FsSel]
  /\ raw_data \in Reading
  /\ measured \in [Sensor -> [Axis -> Int]]
  /\ sampled \in BOOLEAN /\ missed \subseteq Sensor
  /\ restarts \in 0 .. MaxRestart

(* Power-up: bank 0, the smallest ranges, asleep. *)
PowerUp == [r \in Register |->
              CASE r = <<0, PWR_MGMT_1>> -> 65
                [] r \in {<<2, ACCEL_CONFIG>>, <<2, GYRO_CONFIG_1>>} -> 1
                [] OTHER -> 0]

Init ==
  /\ bank = 0 /\ registers = PowerUp
  /\ motion \in [Sensor -> [Axis -> Level]]
  /\ output = [s \in Sensor |-> 0] /\ steady = FALSE
  /\ pc = "setup" /\ k = 1 /\ request = NoRequest
  /\ fs_sel = [s \in Sensor |-> FS_SEL_MIN]
  /\ raw_data = Zero /\ measured = Zero
  /\ sampled = FALSE /\ missed = {} /\ restarts = 0

-----------------------------------------------------------------------------
(* The sensor *)

(* A byte written: it selects the bank, resets the sensor, or is stored. *)
WriteByte(address, value) ==
  IF address = REG_BANK_SEL
  THEN bank' = value /\ UNCHANGED registers
  ELSE IF <<bank, address>> = <<0, PWR_MGMT_1>> /\ value >= 128
  THEN bank' = 0 /\ registers' = PowerUp
  ELSE /\ registers' = [r \in Register |-> IF r = <<bank, address>> THEN value ELSE registers[r]]
       /\ UNCHANGED bank

Configured(s) == (registers[<<2, ConfigOf[s]>>] \div 2) % 4

Clamp(x) == IF x < -RAW_RANGE THEN -RAW_RANGE
            ELSE IF x > RAW_RANGE - 1 THEN RAW_RANGE - 1 ELSE x

(* The output registers, in bank 0. *)
Output == [s \in Sensor |-> [a \in Axis |-> Clamp(motion[s][a] \div 2 ^ output[s])]]

Sample ==
  /\ pc = "delay" /\ ~sampled
  /\ sampled' = TRUE
  /\ \/ steady' \in {steady, TRUE} /\ UNCHANGED motion
     \/ ~steady /\ motion' \in [Sensor -> [Axis -> Level]] /\ UNCHANGED steady
  /\ output' = [s \in Sensor |-> Configured(s)]
  /\ UNCHANGED <<bank, registers, program, starts>>

-----------------------------------------------------------------------------
(* imu_icm20948_init, mag_icm20948_init and the self test *)

UserBank(b) == << <<REG_BANK_SEL, b>> >>

(* Mutant: the bank is not selected. *)
MagBankUnselected == << >>

MagBank == UserBank(3)

(* mag_icm20948_write_byte *)
MagWrite(address, data) ==
  MagBank \o << <<I2C_SLV0_ADDR, 12>>, <<I2C_SLV0_REG, address>>,
                <<I2C_SLV0_DO, data>>, <<I2C_SLV0_CTRL, 129>> >>

(* mag_icm20948_read: the answer is then taken from bank 0. *)
MagRead(address, count) ==
  MagBank \o << <<I2C_SLV0_ADDR, 140>>, <<I2C_SLV0_REG, address>>,
                <<I2C_SLV0_CTRL, 128 + count>> >> \o UserBank(0)

ImuInit == << <<PWR_MGMT_1, 128>>, <<USER_CTRL, 16>>, <<PWR_MGMT_1, 1>> >>

MagInit ==
  UserBank(0) \o << <<USER_CTRL, 32>> >>
  \o MagBank \o << <<I2C_MST_CTRL, 7>>, <<I2C_MST_DELAY_CTRL, 1>> >>
  \o MagWrite(MAG_CNTL3, 1) \o MagWrite(MAG_CNTL2, 8)

CheckImu == UserBank(0) \o MagRead(MAG_WAI1, 2)

Setup == ImuInit \o MagInit \o CheckImu

(* A reset that is written while another bank is selected is none, and the *)
(* ranges stay as they are.                                                *)
LeftBehind == IF bank = 0 THEN {} ELSE {s \in Sensor : Configured(s) # FS_SEL_MIN}

(* The delays add up to more than 30 ms: a sample was taken when it ends. *)
SetupStep ==
  /\ pc = "setup"
  /\ WriteByte(Setup[k][1], Setup[k][2])
  /\ missed' = IF k = 1 THEN LeftBehind ELSE missed
  /\ IF k = Len(Setup)
     THEN pc' = "gate" /\ k' = 1 /\ output' = [s \in Sensor |-> Configured(s)]
     ELSE pc' = pc /\ k' = k + 1 /\ UNCHANGED output
  /\ UNCHANGED <<motion, steady, request, fs_sel, raw_data, measured, sampled, restarts>>

-----------------------------------------------------------------------------
(* The bus: the request's bank is selected, then its data are transferred *)

Request(type, b, address, value) ==
  /\ request' = [type |-> type, bank |-> b, address |-> address, value |-> value]
  /\ pc' = "bus"

SelectBank ==
  /\ pc = "bus"
  /\ WriteByte(REG_BANK_SEL, request.bank)
  /\ pc' = "transfer"
  /\ UNCHANGED <<motion, output, steady, k, request, fs_sel, raw_data, measured, sampled, starts>>

TransferRead ==
  /\ pc = "transfer" /\ request.type = "read"
  /\ raw_data' = IF bank = 0 THEN Output ELSE Zero
  /\ request' = NoRequest /\ pc' = "store"
  /\ UNCHANGED <<device, k, fs_sel, measured, sampled, starts>>

(* The range is written; the next sensor is looked at, or the process waits. *)
TransferWrite ==
  /\ pc = "transfer" /\ request.type = "write"
  /\ WriteByte(request.address, request.value)
  /\ request' = NoRequest /\ missed' = missed \ {Order[k]}
  /\ IF k = Len(Order) THEN pc' = "delay" /\ k' = 1 ELSE pc' = "adjust" /\ k' = k + 1
  /\ UNCHANGED <<motion, output, steady, fs_sel, raw_data, measured, sampled, restarts>>

-----------------------------------------------------------------------------
(* The navigation process *)

(* RunNavProcess may be false for any time. *)
RequestImuData ==
  /\ pc = "gate"
  /\ Request("read", 0, 45, 0)
  /\ sampled' = FALSE
  /\ UNCHANGED <<device, k, fs_sel, raw_data, measured, starts>>

(* accel_multiplier, gyro_multiplier: the range shifted by 15 - fs_sel bits, *)
(* which cuts off what is behind the point.                                *)
Multiplier(s) == MinRange[s] \div (RAW_RANGE \div 2 ^ fs_sel[s])

(* wait_for_imu_data *)
Store ==
  /\ pc = "store"
  /\ measured' = [s \in Sensor |-> [a \in Axis |-> raw_data[s][a] * Multiplier(s)]]
  /\ pc' = "adjust" /\ k' = 1
  /\ UNCHANGED <<device, request, fs_sel, raw_data, sampled, starts>>

ABS(x) == IF x < 0 THEN -x ELSE x

(* The conversion to int16_t. *)
Int16(x) == ((x + RAW_RANGE) % (2 * RAW_RANGE)) - RAW_RANGE

(* UMAX_3, kept in an int16_t. *)
RawMax(s) ==
  Int16(CHOOSE m \in {ABS(raw_data[s][a]) : a \in Axis} :
          \A a \in Axis : ABS(raw_data[s][a]) <= m)

(* Mutant: the ranges begin to go down where a range twice as large begins. *)
BelowLowHalf(m) == 10 * m < 5 * RAW_RANGE

AboveHigh(m) == 10 * m > 9 * RAW_RANGE
BelowLow(m) == 10 * m < 4 * RAW_RANGE

(* accel_config_1, gyro_config_1 *)
Config(sel) == (sel * 2) % 8

SetRange(s, sel) ==
  /\ fs_sel' = [fs_sel EXCEPT ![s] = sel]
  /\ Request("write", 2, ConfigOf[s], Config(sel))
  /\ k' = k

Highest(s) == fs_sel[s] = FS_SEL_MAX
Lowest(s) == fs_sel[s] = FS_SEL_MIN

Raises(s) == ~Highest(s) /\ AboveHigh(RawMax(s))

Lowers(s) == ~Lowest(s) /\ BelowLow(RawMax(s))

Adjust ==
  /\ pc = "adjust"
  /\ LET s == Order[k] IN
       \/ Raises(s) /\ SetRange(s, fs_sel[s] + 1)
       \/ ~Raises(s) /\ Lowers(s) /\ SetRange(s, fs_sel[s] - 1)
       \/ /\ ~Raises(s) /\ ~Lowers(s)
          /\ IF k = Len(Order) THEN pc' = "delay" /\ k' = 1 ELSE pc' = pc /\ k' = k + 1
          /\ UNCHANGED <<fs_sel, request>>
  /\ UNCHANGED <<device, raw_data, measured, sampled, starts>>

(* Mutant: the process does not wait for a sample with the new range. *)
DelayOverAtOnce == TRUE

(* rtos_delay_ms(5): longer than the sensor's sample time. *)
DelayOver == sampled

Delay ==
  /\ pc = "delay" /\ DelayOver
  /\ pc' = "gate" /\ raw_data' = Zero
  /\ UNCHANGED <<device, k, request, fs_sel, measured, sampled, starts>>

(* The program starts again; the sensor does not notice. *)
Restart ==
  /\ restarts < MaxRestart
  /\ restarts' = restarts + 1
  /\ pc' = "setup" /\ k' = 1 /\ request' = NoRequest
  /\ fs_sel' = [s \in Sensor |-> FS_SEL_MIN]
  /\ raw_data' = Zero /\ measured' = Zero /\ sampled' = FALSE
  /\ UNCHANGED <<device, missed>>

Bus == SelectBank \/ TransferRead \/ TransferWrite
Navigation == RequestImuData \/ Store \/ Adjust \/ Delay

Next == SetupStep \/ Sample \/ Bus \/ Navigation \/ Restart

(* The processes are scheduled, the sensor samples, RunNavProcess comes on. *)
Spec == Init /\ [][Next]_vars /\ WF_vars(SetupStep \/ Sample \/ Bus \/ Navigation)

-----------------------------------------------------------------------------
(* Properties *)

AtLimit(x) == x \in {-RAW_RANGE, RAW_RANGE - 1}

(* A reading that is not at the limit of its range is stored as the motion  *)
(* it was taken of, to one step of its range, and to one micrometre or     *)
(* microradian for each count of the reading, which the multiplier leaves  *)
(* out (global_imu.c:61-74): it is scaled with the range it was taken at,  *)
(* also after a range was changed, and after a restart.  Left out are the  *)
(* sensors whose larger range a reset has missed (imu_icm20948.c:70), until *)
(* the program changes it: their readings are scaled with the wrong one.   *)
TrueUnlessSaturated ==
  [][pc = "store" /\ pc' = "adjust" =>
       \A s \in Sensor \ missed, a \in Axis :
         ~AtLimit(raw_data[s][a]) =>
           ABS(measured'[s][a] * RAW_RANGE - motion[s][a] * MinRange[s])
             < 2 ^ fs_sel[s] * MinRange[s] + ABS(raw_data[s][a]) * RAW_RANGE]_vars

(* The largest reading of a steady motion stays between the thresholds, or  *)
(* the range is at its end; readings of -RAW_RANGE, which have no absolute  *)
(* value in an int16_t, are left out.                                      *)
MaxReading(s) == CHOOSE m \in {ABS(Output[s][a]) : a \in Axis} :
                   \A a \in Axis : ABS(Output[s][a]) <= m
Adapted(s) ==
  \/ \E a \in Axis : Output[s][a] = -RAW_RANGE
  \/ /\ Highest(s) \/ 10 * MaxReading(s) <= 9 * RAW_RANGE
     /\ Lowest(s) \/ 10 * MaxReading(s) >= 4 * RAW_RANGE

(* The ranges follow a motion that stays as it is, and then stay themselves: *)
(* the thresholds are so far apart that a range does not go up and down for  *)
(* ever (global_imu.c:6-7, 78-89).                                          *)
Adapts ==
  <>steady =>
    <>[](pc = "gate" => \A s \in Sensor : Adapted(s)) /\ <>[][UNCHANGED fs_sel]_vars

(* After every start, wherever the one before was interrupted, the sensor's *)
(* bus master is on and runs as after power-up, with slave 0 addressed      *)
(* (imu_icm20948.c:95-175), although the bank that the writes go to is      *)
(* that of the interrupted one until it is selected.                        *)
MagReady ==
  pc # "setup" =>
    /\ (registers[<<0, USER_CTRL>>] \div 32) % 2 = 1
    /\ registers[<<3, I2C_MST_CTRL>>] = 7 /\ registers[<<3, I2C_MST_DELAY_CTRL>>] = 1
    /\ registers[<<3, I2C_SLV0_ADDR>>] = 140
=============================================================================
