CONSTANTS
  MaxLogs = 3
  MaxRequests = 2
  None = None
SPECIFICATION FairSpec
INVARIANTS TypeOK InOrder Flushed ResultDelivered ClosedByOne PanicsLate EventsInv
PROPERTIES Exits ImplementsReport
