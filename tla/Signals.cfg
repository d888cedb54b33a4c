\* Three ticks, one or two units of time apart, with and without data.
SPECIFICATION Spec
CONSTANTS
  Order <- MCOrder
  Op <- MCOp
  Inputs <- MCInputs
  Driving <- MCDriving
  Policies <- MCPolicies
  Gaps = {1, 2}
  Ticks = 3
INVARIANTS
  TypeOK
  FireBudget
  CooldownKept
  RefireNeedsFailure
  FirstHoldFires
  GapsDecideNothing
