SPECIFICATION FairSpec
CONSTANTS
  e1 = e1
  e2 = e2
  Escrow = {e1, e2}
  Kinds = {"escrow.created", "escrow.funded", "escrow.released"}
  MailFails = TRUE
  MaxAmount = 3000
  MaxMilestones = 3
  Inputs <- MCInputs
  Code = {"c1"}
  MaxDraws = 2
  Invited = {}
  Followed = {e1}
  MaxCrashes = 2
INVARIANTS TypeOK RowsAreSound MailsInOrder
PROPERTIES ExpiredIsCancelled
CHECK_DEADLOCK FALSE
