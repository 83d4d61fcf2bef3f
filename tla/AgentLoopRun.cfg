SPECIFICATION FairSpec
CONSTANTS
  bash = bash
  edit = edit
  Tools <- MCTools
  Bash <- MCBash
  Rules <- MCRules
  MaxIter = 2
  MaxBatch = 2
  MaxAnswers = 2
INVARIANTS
  BudgetExact
PROPERTIES
  GateKept
  
CHECK_DEADLOCK FALSE
