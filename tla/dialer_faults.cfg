SPECIFICATION Spec
CONSTANTS
  c1 = c1  c2 = c2  l1 = l1  l2 = l2  l3 = l3  p1 = p1  p2 = p2  p3 = p3  None = None
  Campaigns = {c1}
  Leads = {l1, l2}
  Phones = {p1, p2}
  Calls = {"k1"}
  CampaignOf <- OneCampaign
  PhoneOf <- OwnPhone
  Reachable = {l1}
  MaxAttempts <- Once
  Concurrency <- Once
  PlatformConcurrency = 2
  Operations = {"shutdown"}
  Faults = {"crash", "overlapping_tools", "db", "refuse", "lost_response", "lost_hangup", "outlives_process", "outlives_horizon"}
  RequeueBound = 1
INVARIANTS AtMostOneLateRing
