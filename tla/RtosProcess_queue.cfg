CONSTANTS
  main = main
  usbproc = usbproc
  spiproc = spiproc
  null = null
  usb_interrupt = usb_interrupt
  busy = busy
  Main = main
  NoProc = null
  Proc = {main, usbproc, spiproc}
  MaxProcessCount = 4
  TimeMod = 8
  Variable = {}
  InterruptVariable = {}
  Value = {0, 1}
  Wait <- QueueWait
  Ticks = {1, 2}
  MaxSlice = 1
  MaxLate = 1
SPECIFICATION Spec
INVARIANT RingConsistent
INVARIANT JoinAfterReturn
PROPERTY PoolSpec
CHECK_DEADLOCK FALSE
 
PROPERTY InterruptsComeBack
