SPECIFICATION Spec
CONSTANTS
  page = page  early = early  local = local
  ads = ads  adsSite = adsSite  adsNot = adsNot  good = good  other = other  garbage = garbage
  site = site
  NoDomain = NoDomain
  Nil = Nil
  Request <- MCRequest
  Early <- MCEarly
  Localhost = {local}
  Rule <- MCRule
  Broken = {garbage}
  Exception = {adsNot}
  Domain = {site}
  DomainOf <- MCDomainOf
  Accepts <- MCAccepts
  HostSuffixes <- MCHostSuffixes
  File <- MCFile
  Lines <- MCLines
  IdOf <- MCIdOf
  CategoryId <- MCFile
  ListOf <- MCListOf
  MaxRulesPerMatcher = 2
  MaxLists = 2
  MaxFiles = 2
  MaxAsked = 1
INVARIANTS
  TypeOK
  MatchersBounded
  ImportFaithful
  BypassKept
  OnlyFailedLoadCrashes
  DecisionHasItsMoment
PROPERTIES
  PublishedIsFrozen
CHECK_DEADLOCK FALSE
