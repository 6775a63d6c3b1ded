SPECIFICATION Spec
CONSTANTS
  None = None
  MaxStarts = 2
  Embedders = {"orderly"}
INVARIANTS
  ServingIsStoppable
