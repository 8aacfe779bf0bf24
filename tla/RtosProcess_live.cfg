CONSTANTS
  main = main
  usbproc = usbproc
  spiproc = spiproc
  null = null
  usb_interrupt = usb_interrupt
  busy = busy
  Main = main
  NoProc = null
  Proc = {main, usbproc}
  MaxProcessCount = 3
  TimeMod = 6
  Variable = {usb_interrupt}
  InterruptVariable = {usb_interrupt}
  Value = {0, 1}
  Wait <- OrderWait
  Ticks = {1, 2}
  MaxSlice = 1
  MaxLate = 6
SPECIFICATION FairSpec
INVARIANT NoEarlyResume
PROPERTY DelayReturns
PROPERTY WaitReturns
CHECK_DEADLOCK FALSE
