CONSTANTS
  c1 = c1
  r1 = r1
  k1 = k1
  NoEvent = NoEvent
  Clients <- MCClients
  Requests <- MCRequests
  Consents <- MCConsents
  Events <- RunEvents
  Capacity = 2
  MaxEvents = 4
  MaxConnects = 2
  VoiceRun = TRUE
CHECK_DEADLOCK FALSE
SPECIFICATION FairStreamSpec
INVARIANTS
  TypeOK
  RingInv
  SinceComplete
  DeliveryIncreasing
  NoSilentGap
  FormsConsistent
PROPERTIES
  LogSpec
  EventuallyCloses
  StreamsUnlessOvertaken
