SPECIFICATION RestartSpec
CONSTANTS
  c1 = c1  c2 = c2  l1 = l1  l2 = l2  l3 = l3  p1 = p1  p2 = p2  p3 = p3  None = None
  Campaigns = {c1}
  Leads = {l1, l2}
  Phones = {p1, p2}
  Calls = {k1, k2}
  CampaignOf <- OneCampaign
  PhoneOf <- OwnPhone
  Reachable = {l1, l2}
  MaxAttempts <- Once
  Concurrency <- Once
  PlatformConcurrency = 2
  Operations = {}
  Faults = {"refuse"}
  RequeueBound = 1
PROPERTIES ClaimsResolve CampaignsFinish
