\* Two backends that may share a model name and a route: do the
\* registries settle on what the objects declare?
CONSTANTS
  b1 = b1
  b2 = b2
  r1 = r1
  m1 = m1
  m2 = m2
  Backends <- MCBackends
  ImageBackends = {}
  Routes <- MCRoutes
  Models <- MCModels
  ObjName <- MCObjName
  MaxOps <- MCMaxOps
SPECIFICATION Spec
CHECK_DEADLOCK FALSE
PROPERTIES
  RegistryFollowsObjects
