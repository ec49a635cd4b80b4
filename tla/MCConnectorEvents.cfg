SPECIFICATION FairSpec
CONSTANTS
  Issues = {"issue"}
  Pages = {"page"}
  Cycles = {"loop"}
  Singles = {"request"}
  Permits = 1
  None = None
  MaxVersion = 2
  MaxEdits = 2
  MaxFaults = 1
CHECK_DEADLOCK FALSE
INVARIANTS
  EventsApplyOnce
  StampCoversItems

  
