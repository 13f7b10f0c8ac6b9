SPECIFICATION SdkSpec
CONSTANTS
    Totals <- MCTotals
    Policies <- MCPolicies
    Ratios = {1, 3, 10}
    Dust = 10
    N = 3
INVARIANTS
    SplitsAboveDust
    SplitsAddUp
    ResultsAreExecuted
PROPERTY BatchCompletes
\* A plan is drawn, and a batch comes to an end.
CHECK_DEADLOCK FALSE
