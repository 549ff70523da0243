CONSTANTS
  MaxFibers = 3
  MaxChans = 1
  Capacities = {0}
  Handles = {1}
  MaxTime = 1
  Ops = {"spawn", "join", "yield", "sleep", "select", "channel", "send", "receive", "close",
         "trap", "await", "socket"}
  Selects <- AllSelects
SPECIFICATION Spec
INVARIANTS
  TypeOK ReadyIsSound ListsMatchWaits IoCountExact NoLostWakeup
  DeadlockIsReal NoImpossibleArm ChannelsBounded
PROPERTIES SleepsItsSpan
