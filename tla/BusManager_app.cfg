CONSTANTS
  e1 = e1
  e2 = e2
  i1 = i1
  i2 = i2
  eeprom = eeprom
  imu = imu
  null = null
  Request = {e1, e2, i1, i2}
  NoRequest = null
  Device = {eeprom, imu}
  DeviceOf <- FirstIsEeprom
  Operation <- OneSlowDevice
  QueueLength = 3
  BusyTime = {1}
SPECIFICATION FairSpec
INVARIANT NoTransferWhileBusy
PROPERTY TransfersFinished
PROPERTY MarksOnlyQueued
PROPERTY ServiceSpec
PROPERTY RequestCompletes
