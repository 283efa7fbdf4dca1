CONSTANTS
  t1 = t1
  t2 = t2
  c1 = c1
  Brokers <- MCBrokers
  Tasks <- MCTasks
  Calls <- MCCalls
  Size <- MCSize
  MaxClients = 2
SPECIFICATION PluginSpec
PROPERTY NoClientLost
CHECK_DEADLOCK FALSE
