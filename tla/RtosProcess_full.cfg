CONSTANTS
  main = main
  usbproc = usbproc
  spiproc = spiproc
  null = null
  usb_interrupt = usb_interrupt
  busy = busy
  Main = main
  NoProc = null
  Proc = {main, usbproc, spiproc}
  MaxProcessCount = 3
  TimeMod = 4
  Variable = {usb_interrupt}
  InterruptVariable = {usb_interrupt}
  Value = {0, 1}
  Wait <- OrderWait
  Ticks = {}
  MaxSlice = 0
  MaxLate = 0
SPECIFICATION Spec
PROPERTY NoProcessLost
CHECK_DEADLOCK FALSE
