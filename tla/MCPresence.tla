----------------------------- MODULE MCPresence -----------------------------
(* Instances of Presence for TLC. *)
EXTENDS Presence, TLC

\* Bound: one player at least was always told apart.
SomeClear == crowd # Accounts

\* Bound: no answer of the query is on its way during a save.
SaveApart == Saving => answer = Absent

\* Names, and players of whom nothing else is said, are interchangeable.
Symmetric == Permutations(Names) \cup Permutations(Accounts \ (Crossplay \cup Recorded))
=============================================================================
