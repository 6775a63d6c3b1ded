SPECIFICATION FairSpec
CONSTANTS
  None = None
  MaxStarts = 2
  Embedders = {"hasty", "orderly", "patient"}
INVARIANTS
  TypeOK
  PatientServerIsStoppable
  PatientRestIsConsistent
PROPERTIES
  OnlyTheEmbedderSwitches
  StopFreesHttpPort
  NextConnectionClosesListener
