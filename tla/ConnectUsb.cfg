SPECIFICATION Spec
CONSTANTS
  p1 = p1
  p2 = p2
  a = a
  b = b
  Procs <- TwoProcs
  Phones <- TwoPhones
  Scenarios <- UsbTwice
  Ports <- TwoPorts
  UsbInterfaces <- Gadget
  QueueCap = 1
  MaxChunks = 3
  MaxKeys = 2
  MaxFaults = 1
INVARIANTS
  UsbNoGap
CHECK_DEADLOCK FALSE
