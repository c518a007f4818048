CONSTANTS
  port1 = port1
  port2 = port2
  port3 = port3
  pkt1 = pkt1
  pkt2 = pkt2
  pkt3 = pkt3
  Ports = {port1, port2, port3}
  Pkts = {pkt1, pkt2, pkt3}
  NCopies = 2
  MaxBurst = 2
  Shallow = TRUE
SPECIFICATION Spec
INVARIANTS NotFreedEarly CopiesConserved
PROPERTIES ImplementsCell
CHECK_DEADLOCK FALSE
