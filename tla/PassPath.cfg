CONSTANTS
  Messages = {a, b}
  NoMessage = none
  Slots = 2
  MaxDatagrams = 1
SPECIFICATION FairSpecOfPath
INVARIANTS IntactUnlessLapped DeliveredUnlessLapped
PROPERTIES ReportedIsThere MessageEndsWait
