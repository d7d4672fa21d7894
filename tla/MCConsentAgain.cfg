CONSTANTS
  c1 = c1
  r1 = r1
  k1 = k1
  NoEvent = NoEvent
  Clients <- MCClients
  Requests <- MCRequests
  Consents <- MCConsents
  Events <- RunEvents
  Capacity = 3
  MaxEvents = 3
  MaxConnects = 1
  VoiceRun = FALSE
CHECK_DEADLOCK FALSE
SPECIFICATION StreamSpec
INVARIANT AnsweredStaysClosed
