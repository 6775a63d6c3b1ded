SPECIFICATION FairSpec
CONSTANTS
  c1 = c1  c2 = c2  old = old  new = new  site = site  wild = wild
  None = None
  Conn = {c1, c2}
  Listener = {old, new}
  Name = {site, wild}
  NameOf <- MCNameOf
  Candidates <- MCCandidates
  MuxKinds = {"tls", "http"}
INVARIANTS
  TypeOK
  RegisteredWhileOpen
  OwnerKeepsConnection
  DeadlineCleared
PROPERTIES
  EveryConnectionSettles
CHECK_DEADLOCK FALSE
