----------------------------- MODULE MCRegistry -----------------------------
(* Instances of Registry for TLC. *)
EXTENDS Registry, FiniteSets, TLC

Faults == Cardinality(cut) + Cardinality(unsaved) + Cardinality(strays)

\* Bound: one directory left behind, one save lost or one server that outlived
\* its manager at a time, and then at most one copy under way.
OneFault == Faults <= 1 /\ Faults + Cardinality(Copying) <= 2

\* Bound: what there is before the bot has started for the first time.
FirstStart == legacy # Absent => Copying \cup cut \cup Running = {}

\* Bound: what follows once two instances may have overlapping ports is left
\* out.
SomeSure == Cardinality(raced) <= 1

\* Ids are interchangeable.
Symmetric == Permutations(Ids)
=============================================================================
