\* An LLMBackend, an ImageGenerationBackend and a route, up to three user operations.  Once users stop
\* and every object is reconciled nothing is enabled: the bound, not the
\* controller, ends the behaviour.
CONSTANTS
  b1 = b1
  b2 = b2
  r1 = r1
  m1 = m1
  m2 = m2
  Backends <- MCBackends
  ImageBackends = {b2}
  Routes <- MCRoutes
  Models <- MCModels
  ObjName <- MCObjName
  MaxOps <- MCMaxOps
SPECIFICATION Spec
CHECK_DEADLOCK FALSE
PROPERTIES
  DeletionCompletes
  InvalidReportedFailed
