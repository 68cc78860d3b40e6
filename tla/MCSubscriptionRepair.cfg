SPECIFICATION SafeSpec
CONSTANTS
  Orgs = {o1}
  Reconcilers = {r1}
  Supported = {"trialing", "active", "past_due"}
  Unsupported = {}
  MaxTime = 8
  MaxEvents = 3
  MaxOverrides = 0
  MaxFaults = 0
INVARIANT CycleRepairs
