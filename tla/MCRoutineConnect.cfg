SPECIFICATION Spec
CONSTANTS
  c1 = c1
  c2 = c2
  Main = main
  Co <- MCCo
  Tcp <- MCTcp
  Udp <- MCUdp
  Cofd <- MCCofd
  MaxTimer = 2
SYMMETRY Exchanges
CHECK_DEADLOCK FALSE
INVARIANT ConnectBlocksWhileConnecting
