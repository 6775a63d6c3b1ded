SPECIFICATION Spec
CONSTANTS
  q = q  u = u  h = h  huge = huge  text = text  early = early  trailer = trailer
  d = d  e = e  f = f  m = m  b = b  p = p
  None = None
  Stream = {1, 2}
  Item <- MCItem
  Exchanges <- MCExchanges
  Html = {h, huge}
  Huge = {huge}
  Bad = {b}
  Length <- MCLength
  MinLength = 1
  MaxLength = 6
  ConnectionWindow = 10
  Page <- MCPage
INVARIANTS
  SettingsComeFirst
CHECK_DEADLOCK FALSE
