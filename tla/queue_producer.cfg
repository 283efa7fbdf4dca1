CONSTANTS
  t1 = t1
  t2 = t2
  c1 = c1
  Brokers <- MCBrokers
  Tasks <- MCTasks
  Calls <- MCCalls
  Size <- MCSize
  MaxClients = 2
SPECIFICATION PluginSpec
INVARIANTS PluginTypeOK LiveClientIsKnown ReadyCanPublish StoppedLeavesNoClient LostDuringBatch
PROPERTIES ImplementsOutbox StoppingEnds
CHECK_DEADLOCK FALSE
