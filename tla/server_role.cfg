SPECIFICATION Spec
CONSTANTS
  Servers = {1, 2}
  Requests <- MCRequests
  Closers = {t2}
  Acceptors = {t1}
  MaxIds = 3
  MaxTickets = 2
  Polled = {1}
  NoThread = NoThread
INVARIANTS TicketKeepsId ClosedLeavesNothing PolicyErrorsRaised
PROPERTIES CallsReturn
CHECK_DEADLOCK FALSE
