SPECIFICATION Spec
CONSTANTS
  Callers = {c1,c2}
  Pins = {p1, p2}
  BadPin = BadPin
  Forwarders = {}
  Ports = {1, 2}
  BusyPorts = {2}
  MaxGen = 2
  NoOne = NoOne  NoPin = NoPin
CHECK_DEADLOCK FALSE
INVARIANT RedialsAfterFailure
