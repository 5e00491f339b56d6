CONSTANTS
  Users = {ann, bob}
  General = General
  Nobody = Nobody
  MaxQueue = 3
  Me = Me
  Peers = {here, abroad}
  Messages = {m1, m2, m3, m4}
  from <- MCfrom
  peer <- MCpeer
  Zone <- MCZone
  here = here
  abroad = abroad
  m1 = m1
  m2 = m2
  m3 = m3
  m4 = m4
  NotYet = NotYet
  Hours = 3
  PerHour = 2
  MaxTime = 6
SPECIFICATION MCSpec
INVARIANTS
  OnIsOn
  OffIsOff
  UnreadIsCounted
