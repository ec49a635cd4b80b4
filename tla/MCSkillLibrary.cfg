SPECIFICATION Spec
CONSTANTS
  Callers = {"c1", "c2"}
  Names = {"file"}
  Texts <- MCTexts
  Says <- MCSays
  Disk = {"nested"}
  Processes = {"p", "q"}
  Slug <- MCSlug
  None = None
  MaxRequests = 4
CHECK_DEADLOCK FALSE
INVARIANTS
  PromotionsKeepOrder
  StepsAreReceipted
  ApprovalEndsRun
