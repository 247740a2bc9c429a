SPECIFICATION FairSpec
CONSTANTS
  Comments = {1}
  Decisions = {"approved"}
  Undecided = Undecided
  Nil = Nil
  BudgetTiers <- AllTiers
  REST = TRUE
  MaxHandoffs = 1
INVARIANTS NoFalseDismissal
PROPERTIES NoRepeatedComment CommentsArrive
CHECK_DEADLOCK FALSE
