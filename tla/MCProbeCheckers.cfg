SPECIFICATION FairSpec
CONSTANTS
  Timeouts = {0, 1, 3}
  MaxAge = 9
INVARIANTS TypeOK HealthyEarned NothingLeftOpen WithinBudget PromptWhenCancelled
PROPERTY CallEnds
