SPECIFICATION Spec
CONSTANTS
  Tcp = Tcp
  Ssh = Ssh
  c1 = c1
  c2 = c2
  c3 = c3
  ip1 = ip1
  ip2 = ip2
  NoConn = NoConn
  Endpoints = {Tcp, Ssh}
  SSH = {Ssh}
  Conns = {c1, c2, c3}
  IpOf <- MCIpOf3
  PortOf <- MCPortOf3
  MaxConnections = 2
  PerIP = 1
INVARIANTS
  TypeOK
  AdmissionExact
  SocketsAccounted
  ClosedAdmitsNone
  ReturnedDrained
  WaitGroupExact
PROPERTY
  NilWhenAsked
