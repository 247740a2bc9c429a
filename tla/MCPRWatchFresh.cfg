SPECIFICATION FairSpec
CONSTANTS
  Comments = {1}
  Decisions = {"approved"}
  Undecided = Undecided
  Nil = Nil
  BudgetTiers <- FullOnly
  REST = FALSE
  MaxHandoffs = 0
PROPERTY CommentsHeard
CHECK_DEADLOCK FALSE
