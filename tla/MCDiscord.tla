----------------------------- MODULE MCDiscord -----------------------------
(* Instances of Discord for TLC. *)
EXTENDS Discord

\* Two saves at once are explored with one event, and while the bot is on.
FewWhenOverlapped == overlapped => Len(events) <= 1 /\ enabled /\ ~down
=============================================================================
