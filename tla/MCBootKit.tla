------------------------------ MODULE MCBootKit ------------------------------
(* Two runnables with every combination of behaviours, a Stop caller and   *)
(* up to two signals.                                                       *)
EXTENDS BootKit

CONSTANTS ra, rb

MCRunnables == {ra, rb}

\* Every behaviour a runnable and its hook can have.
AllBehaviours == BehaviourType

\* Runnables that succeed and append a hook whose OnStart serves until
\* Shutdown: the gateway and the controller manager.  One stop hook
\* fails at once.
ServingBehaviours ==
  {[outcome |-> "ok", registers |-> TRUE, start |-> "serves", stop |-> s] : s \in {"ok", "fails"}}
==============================================================================
