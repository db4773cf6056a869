SPECIFICATION FairSpec
CONSTANTS
  Tcp = Tcp
  Ssh = Ssh
  c1 = c1
  c2 = c2
  c3 = c3
  ip1 = ip1
  ip2 = ip2
  NoConn = NoConn
  Endpoints = {Tcp, Ssh}
  SSH = {Ssh}
  Conns = {c1, c2}
  IpOf <- MCIpOf2
  PortOf <- MCPortOf2
  MaxConnections = 1
  PerIP = 1
INVARIANT
  AdmissionExact
PROPERTIES
  StopReturns
  SlotReturned
