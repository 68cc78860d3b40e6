SPECIFICATION SafeSpec
CONSTANTS
  Orgs = {o1}
  Reconcilers = {r1}
  Supported = {"trialing", "past_due", "canceled"}
  Unsupported = {"incomplete"}
  MaxTime = 4
  MaxEvents = 2
  MaxOverrides = 1
  MaxFaults = 1
INVARIANTS TypeOK AppliedOnce TablesAgree NewestWins DeliveryOrderIrrelevant
