SPECIFICATION Spec
CONSTANTS
  p1 = p1
  p2 = p2
  a = a
  b = b
  Procs <- TwoProcs
  Phones <- TwoPhones
  Scenarios <- AllScenarios
  Ports <- TwoPorts
  UsbInterfaces <- Gadget
  QueueCap = 1
  MaxChunks = 2
  MaxKeys = 2
  MaxFaults = 1
INVARIANTS
    ForwardsOwned
    UsbInOrder
    SweepComplete
PROPERTIES
    
    WaitsBounded
CHECK_DEADLOCK FALSE
