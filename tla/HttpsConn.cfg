SPECIFICATION FairSpec
CONSTANTS
  web = web  proxy = proxy  inner = inner
  site = site  named = named  localhost = localhost
  None = None
  Conn = {web, proxy, inner}
  Port = {1, 2}
  PortOf <- MCPortOf
  Inner <- MCInner
  Dest = {site, named, localhost}
  Want <- MCWant
  Private = {localhost}
  Unparsable = {named}
  Local = localhost
  Traffics <- MCTraffics
  Whitelisted = {web}
  Paged = {inner}
  ToPrivate = {}
  MaxPolls = 2
INVARIANTS
  TypeOK
  
PROPERTIES
  TunnelEndsWithEither
CHECK_DEADLOCK FALSE
