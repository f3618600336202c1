--------------------------- MODULE MCSupervisor ---------------------------
(* Instances of Supervisor for TLC. *)
EXTENDS Supervisor, Naturals

AllFaults == {"stdout_held", "unkillable", "logdir"}

\* Bound: a host has one fault at most.
OneFault == Cardinality(faults) <= 1
=============================================================================
