-------------------------- MODULE MCDependencyMonitor --------------------------
(* Small instances of DependencyMonitor for TLC. *)
EXTENDS DependencyMonitor

===============================================================================
