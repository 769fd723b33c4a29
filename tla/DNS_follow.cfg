\* Two changes of the printer's capabilities and two faults at any point.
SPECIFICATION Spec
CONSTANTS
  Snapshots <- Offers
  Unfit = {9}
  MaxAttempts = 2
  MaxChanges = 2
  MaxFaults = 2
INVARIANTS
  TypeOK
  CurrentIsAnnounced
  ClosedIsSilent
PROPERTIES
  AnnouncementFollows
  CloseReturns
CHECK_DEADLOCK FALSE
