SPECIFICATION Spec
CONSTANTS
  c1 = c1  c2 = c2  l1 = l1  l2 = l2  l3 = l3  p1 = p1  p2 = p2  p3 = p3  None = None
  Campaigns = {c1}
  Leads = {l1}
  Phones = {p1}
  Calls = {"k1"}
  CampaignOf <- OneCampaign
  PhoneOf <- OwnPhone
  Reachable = {l1}
  MaxAttempts <- Once
  Concurrency <- Once
  PlatformConcurrency = 2
  Operations = {"skip", "requeue", "outcome", "import", "list", "unlist"}
  Faults = {}
  RequeueBound = 1
INVARIANTS AtMostOneLateRing
