SPECIFICATION Spec
CONSTANTS
  Bindings = {"create", "modify", "describe"}
  Resources = {"instance", "disk"}
  frameworkHandled = {}
  Parameters <- MCParameters
  PlanOrder <- MCPlanOrder
  Leaves <- MCLeaves
  ResourceOf <- MCResourceOf
  UsedBy <- MCUsedBy
  FirstLive <- MCFirstLive
  FirstFields <- MCFirstFields
  snakeCase <- MCSnakeCase
  pluralize <- MCPluralize
  Traits <- MCTraits
  MaxChanges = 2
INVARIANTS RunsAreWhole SyncIsEffective
