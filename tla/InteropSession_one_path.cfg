SPECIFICATION Spec
CONSTANTS
  forum = forum
  shop = shop
  bank = bank
  news = news
  None = None
  Upstream = Upstream
  Exchange = {forum, shop, bank, news}
  Source <- OnePath
  Verdict <- MCVerdict
  Id = {1, 2, 3, 4}
  Port = {}
  Forum = {forum}
  BlockPage = {shop}
  BadBody = {news}
INVARIANTS
  PagesReachTheirExchange
  ResponseReplacedIffBad
PROPERTIES
  ImplementsPolicy
