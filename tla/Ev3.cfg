CONSTANTS
  SocketSize = 1
  PipeSize = 1
  Clients = 2
  Readers = {2}
  Plans <- ServerPlans
  MotorPorts = {"A", "B"}
  SensorPorts = {"1", "2"}
  Durations <- SomeDurations
  Uses <- PortUses
SPECIFICATION Ev3Spec
INVARIANTS
  InOrder
  RightPort
  Finds
  StartsAsAsked
PROPERTY GetsThrough
CHECK_DEADLOCK FALSE
