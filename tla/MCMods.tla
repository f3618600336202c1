------------------------------- MODULE MCMods -------------------------------
(* Instances of Mods for TLC. *)
EXTENDS Mods, TLC

CONSTANTS lib, mod

MCNewest == (Core :> 1) @@ (lib :> 1) @@ (mod :> 2)

\* The second version of mod needs lib, of which nobody had heard before.
MCNeeds ==
  [p \in Packages |-> [v \in 1..2 |-> IF p = mod /\ v = 2 THEN {lib} ELSE {}]]

\* mod in its first version, switched off, and nothing else.
MCExports == {[None EXCEPT ![mod] = [version |-> 1, enabled |-> FALSE, dep |-> FALSE]]}

\* Bound: what follows once a package is in doubt or a profile was imported is
\* left to one request, and to one such package; what follows both is left out.
\* While two requests are under way, at most two packages are changed behind the
\* back of each.
Bounded ==
  /\ Cardinality(doubt) <= (IF imported THEN 0 ELSE 1)
  /\ doubt # {} \/ imported => Cardinality({r \in Requests : requests[r].pc # "idle"}) <= 1
  /\ \A r \in Requests : Cardinality(requests[r].stale) <= 2

Symmetric == Permutations(Requests)
=============================================================================
