CONSTANTS
  c1 = c1
  c2 = c2
  form1 = form1
  form2 = form2
  Clients <- OneClient
  Requests <- LimitRequests
  Limits <- MCLimits
  Default = default
  QueueCap = 1
  Started = {"dh_mon"}
  Broken = {}
  Spurious = {}
SPECIFICATION FairSpec
PROPERTY LimitsReachMonitor
