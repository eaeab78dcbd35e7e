CONSTANTS
  Nobody = Nobody
  NoOne = NoOne
  Peers = {a1, o1}
  AgentPeers = {a1}
  LeaseTTL = 1
  Gap = 1
  SafeCap = 8
  Channel = 1
  MaxEpoch = 2
  MaxGen = 2
  MqttSessions = {q1}
  DataSessions = {w1}
  ActiveTTL = 2
  MotorTimeout = 2
  MaxGrants = 3
  MaxFaults = 2
SPECIFICATION Spec
PROPERTY LeaseEndRequestsSafe
CHECK_DEADLOCK FALSE
