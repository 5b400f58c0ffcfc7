SPECIFICATION FairSpec
CONSTANTS
  Configs <- Rulesets
  MaxFlows <- Flows
INVARIANTS
  TypeOK
  NoPanic
  RunsAsRuled
  Converged
PROPERTIES
  FlowsEnd
CHECK_DEADLOCK FALSE
