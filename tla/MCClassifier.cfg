SPECIFICATION Spec
CONSTANTS
  port1 = port1
  port2 = port2
  pkt1 = pkt1
  pkt2 = pkt2
  Ports = {port1, port2}
  Vids = {10, 4095}
  Untagged = 4095
  Macs <- MCMacs
  Dummy = "default"
  Multicast <- MCMulticast
  Attrs <- MCAttrs
  Pkts = {pkt1, pkt2}
  MaxBurst = 2
  MaxFailures = 1
INVARIANTS ClassifiesAsAccepted 
PROPERTIES FreedSideUnused ImplementsCell
SYMMETRY Symm
