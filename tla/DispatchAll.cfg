CONSTANTS
  c1 = c1
  c2 = c2
  form1 = form1
  form2 = form2
  Clients <- MCClients
  Requests <- MixedRequests
  Limits <- NoLimits
  Default = default
  QueueCap = 2
  Started = {"led", "buzzer", "fan"}
  Broken = {"buzzer", "fan"}
  Spurious = {"led"}
SPECIFICATION Spec
SYMMETRY ClientSymmetry
INVARIANTS TypeOK MutexInv CurrentByte RoundMissesNothing
PROPERTY MailboxSpec
CHECK_DEADLOCK FALSE
