SPECIFICATION FairSpec
CONSTANTS
  None = None
  NoValue = NoValue
  Sources = {"r1", "r2", "r3", "l1", "l2"}
  Plans = {"n1", "n2", "n3", "o1", "o2", "whole", "other", "missing"}
  Plan <- MCPlan
  Legacy <- MCLegacy
  Publishers = {"w1", "w2"}
  ShardRows = 3
  PageRows = 1
  Deployments <- MCDeployments
INVARIANTS V3Invariant HistoryIsTheBranch
PROPERTIES PlanIsPublished
CHECK_DEADLOCK FALSE
