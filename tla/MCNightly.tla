----------------------------- MODULE MCNightly -----------------------------
(* Instances of Nightly for TLC. *)
EXTENDS Nightly, TLC

\* Instances are interchangeable.
Symmetric == Permutations(Instances)

\* Bound: what happens beside a download, and two at once, and on a second day.
FewAtOnce ==
  /\ (\E f \in Fetchers : fetch[f].pc # "idle") => lock \notin {"page", "button"}
  /\ (\A f \in Fetchers : fetch[f].pc # "idle") => upsets <= 1 /\ lock = None /\ off = {}
  /\ clock.day > 1 =>
       upsets <= 1 /\ check["hand"].pc = "idle" /\ fetch["hand"].pc = "idle" /\ lock \notin {"page", "button"}
=============================================================================
