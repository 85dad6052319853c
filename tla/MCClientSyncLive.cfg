SPECIFICATION LiveSpec
CONSTANTS
  c1 = c1
  c2 = c2
  Clients <- MCClients
  Idlers <- MCIdlers
  Topics <- MCTopics
  HubCapacity = 1
  MaxVersion = 1
CHECK_DEADLOCK FALSE
PROPERTIES
  EveryoneIsTold
  HubEnds
