SPECIFICATION Spec
CONSTANTS
  Orgs = {o1, o2}
  Reconcilers = {r1}
  Supported = {"trialing", "active"}
  Unsupported = {"incomplete"}
  MaxTime = 1
  MaxEvents = 2
  MaxOverrides = 0
  MaxFaults = 0
PROPERTY EverySubscriptionOffered
