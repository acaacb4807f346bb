CONSTANTS
  c1 = c1
  c2 = c2
  form1 = form1
  form2 = form2
  Clients <- OneClient
  Requests <- LedRequests
  Limits <- NoLimits
  Default = default
  QueueCap = 1
  Started = {"led"}
  Broken = {}
  Spurious = {}
SPECIFICATION Spec
INVARIANT NoLostWakeup
