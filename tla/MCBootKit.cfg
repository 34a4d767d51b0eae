\* Two runnables of any behaviour, a Stop caller and two signals.
\* Start returning ends the process, so a final state is expected.
CONSTANTS
  ra = ra
  rb = rb
  Runnables <- MCRunnables
  Behaviours <- AllBehaviours
  StopCaller = TRUE
  MaxSignals = 2
SPECIFICATION Spec
CHECK_DEADLOCK FALSE
INVARIANTS
  HooksStartOnlyAfterRunnables
  StartedHooksStopped
PROPERTIES
  ShutdownOnSignal
