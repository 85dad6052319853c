SPECIFICATION Spec
CONSTANTS
  c1 = c1
  c2 = c2
  Clients <- MCClients
  Idlers <- MCIdlers
  Topics <- MCTopics
  HubCapacity = 2
  MaxVersion = 2
CHECK_DEADLOCK FALSE
INVARIANT
  PageIsUpToDate
