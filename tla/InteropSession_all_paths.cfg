SPECIFICATION FairSpec
CONSTANTS
  forum = forum
  shop = shop
  bank = bank
  news = news
  None = None
  Upstream = Upstream
  Exchange = {forum, bank, news}
  Source <- AllPaths
  Verdict <- MCVerdict
  Id = {1, 2}
  Port = {1, 2}
  Forum = {forum}
  BlockPage = {}
  BadBody = {}
INVARIANTS
  TypeOK
  NoDanglingSession
  HandleDenotesOwnSession
PROPERTIES
  FilterTerminates
