----------------------------- MODULE Moderation -----------------------------
(***************************************************************************)
(* Kicks, bans and the whitelist of one instance: PlayerList, TempBans and *)
(* PlayerLists of vhsm/playerlists.py, and the two web handlers that write *)
(* them, mutate_list (the list page) and moderate_player (the roster).     *)
(*                                                                         *)
(* A stock server can only be made to drop a player by banning them, so a  *)
(* kick is two writes, bannedlist.txt and then tempbans.json, and two more *)
(* when the sampler lifts it.  Handlers do not await between their writes, *)
(* so they never interleave, but each may be cut short after any of them,  *)
(* by the death of the manager or an OSError.  Everything is read back     *)
(* from the files every time: a restart of the manager changes nothing.    *)
(***************************************************************************)
EXTENDS Naturals, FiniteSets

CONSTANT Players   \* player ids

VARIABLES
  banned,      \* bannedlist.txt
  tempBans,    \* tempbans.json: "none", "running" or "due" for each player
  enabled,     \* permittedlist.txt, the name Valheim reads, exists
  active,      \* the entries in it
  parked,      \* the entries in permittedlist.txt.disabled, if it exists
  asked,       \* history: what the last request made of each player
  doubt,       \* history: players whose last request was cut short, see below
  fleeting,    \* history: players the list page banned in the midst of a kick
  switchedOn   \* history: the operator's last word on the whitelist

banVars == <<banned, tempBans, asked, doubt, fleeting>>
whitelistVars == <<enabled, active, parked, switchedOn>>
vars == <<banVars, whitelistVars>>

TypeOK ==
  /\ banned \subseteq Players
  /\ tempBans \in [Players -> {"none", "running", "due"}]
  /\ enabled \in BOOLEAN
  /\ active \subseteq Players
  /\ parked \subseteq Players
  /\ asked \in [Players -> {"free", "kicked", "banned"}]
  /\ doubt \subseteq Players
  /\ fleeting \subseteq Players
  /\ switchedOn \in BOOLEAN

Init ==
  /\ banned = {}
  /\ tempBans = [p \in Players |-> "none"]
  /\ enabled = FALSE
  /\ active = {}
  /\ parked = {}
  /\ asked = [p \in Players |-> "free"]
  /\ doubt = {}
  /\ fleeting = {}
  /\ switchedOn = FALSE

-----------------------------------------------------------------------------
(***************************************************************************)
(* Kicks and bans                                                          *)
(***************************************************************************)

Cancelled(p) == [tempBans EXCEPT ![p] = "none"]

\* The handler came to its end.
Answered(p, what) ==
  /\ asked' = [asked EXCEPT ![p] = what]
  /\ doubt' = doubt \ {p}
  /\ fleeting' = fleeting \ {p}

\* It did not: nobody was told what became of p.
CutShort(p) == doubt' = doubt \cup {p} /\ UNCHANGED <<asked, fleeting>>

\* Faulty variant: the failure to note the expiry is swallowed.
KickUnnoted(p) ==
  /\ p \notin banned
  /\ banned' = banned \cup {p}
  /\ UNCHANGED tempBans
  /\ Answered(p, "kicked")

Kick(p) ==
  /\ p \notin banned
  /\ \/ /\ banned' = banned \cup {p}
        /\ tempBans' = [tempBans EXCEPT ![p] = "running"]
        /\ Answered(p, "kicked")
     \/ banned' = banned \cup {p} /\ UNCHANGED tempBans /\ CutShort(p)

\* Faulty variant: the roster's ban leaves a pending kick to expire.
BanUncancelled(p) ==
  /\ banned' = banned \cup {p}
  /\ UNCHANGED tempBans
  /\ Answered(p, "banned")

Ban(p) ==
  \/ tempBans' = Cancelled(p) /\ banned' = banned \cup {p} /\ Answered(p, "banned")
  \/ tempBans' = Cancelled(p) /\ UNCHANGED banned /\ CutShort(p)

Unban(p) ==
  \/ tempBans' = Cancelled(p) /\ banned' = banned \ {p} /\ Answered(p, "free")
  \/ tempBans' = Cancelled(p) /\ UNCHANGED banned /\ CutShort(p)

\* The list page adds without a look at tempbans.json: a ban of somebody who is
\* just being kicked is answered like any other, and lifted with the kick.
ListBan(p) ==
  /\ banned' = banned \cup {p}
  /\ asked' = [asked EXCEPT ![p] = "banned"]
  /\ doubt' = doubt \ {p}
  /\ fleeting' = IF tempBans[p] = "none" THEN fleeting \ {p} ELSE fleeting \cup {p}
  /\ UNCHANGED tempBans

ListUnban(p) ==
  /\ banned' = banned \ {p}
  /\ \/ tempBans' = Cancelled(p) /\ Answered(p, "free")
     \/ UNCHANGED tempBans /\ CutShort(p)

\* PlayerList.write is not atomic: a write of the banned list that is cut short
\* leaves the beginning of what was to be written.
Torn(p) ==
  /\ banned' \in SUBSET (banned \cup {p})
  /\ doubt' = Players
  /\ UNCHANGED <<tempBans, asked, fleeting>>

-----------------------------------------------------------------------------
(***************************************************************************)
(* The twenty seconds of a kick                                            *)
(***************************************************************************)

Expire(p) ==
  /\ tempBans[p] = "running"
  /\ tempBans' = [tempBans EXCEPT ![p] = "due"]
  /\ UNCHANGED <<banned, asked, doubt, fleeting>>

Due == {p \in Players : tempBans[p] = "due"}

\* Faulty variant: the expiry is forgotten before the ban is lifted.
LiftedBackwards(done, half) ==
  /\ tempBans' = [p \in Players |-> IF p \in done \cup half THEN "none" ELSE tempBans[p]]
  /\ banned' = banned \ done

\* The sampler lifts the due players of `done' completely and the one of
\* `half' only from the banned list.
Lifted(done, half) ==
  /\ banned' = banned \ (done \cup half)
  /\ tempBans' = [p \in Players |-> IF p \in done THEN "none" ELSE tempBans[p]]

Reconcile(done, half) ==
  /\ Due # {}
  /\ done \subseteq Due
  /\ half \subseteq Due \ done /\ Cardinality(half) <= 1
  /\ Lifted(done, half)
  /\ UNCHANGED <<asked, doubt, fleeting>>

ReconcileAll == Reconcile(Due, {})

-----------------------------------------------------------------------------
(***************************************************************************)
(* The whitelist: off by parking the file                                  *)
(***************************************************************************)

\* PlayerList.path: whichever file holds the entries.
WritePermitted(entries) ==
  /\ IF enabled
       THEN active' = entries /\ UNCHANGED parked
       ELSE parked' = entries /\ UNCHANGED active
  /\ UNCHANGED enabled

Permitted == IF enabled THEN active ELSE parked

Permit(p) == p \notin Permitted /\ WritePermitted(Permitted \cup {p}) /\ UNCHANGED switchedOn
Unpermit(p) == p \in Permitted /\ WritePermitted(Permitted \ {p}) /\ UNCHANGED switchedOn

\* set_enabled renames one file to the other name.
SwitchOn ==
  /\ ~enabled
  /\ enabled' = TRUE
  /\ active' = parked
  /\ parked' = {}
  /\ switchedOn' = TRUE

SwitchOff ==
  /\ enabled
  /\ enabled' = FALSE
  /\ parked' = active
  /\ active' = {}
  /\ switchedOn' = FALSE

\* The checkbox on the page.
Toggle == SwitchOn \/ SwitchOff

-----------------------------------------------------------------------------
Moderate(p) ==
  Kick(p) \/ Ban(p) \/ Unban(p) \/ ListBan(p) \/ ListUnban(p) \/ Torn(p) \/ Expire(p)

Whitelist == Toggle \/ \E p \in Players : Permit(p) \/ Unpermit(p)

Next ==
  \/ /\ \/ \E p \in Players : Moderate(p)
        \/ \E done, half \in SUBSET Players : Reconcile(done, half)
     /\ UNCHANGED whitelistVars
  \/ Whitelist /\ UNCHANGED banVars

Spec == Init /\ [][Next]_vars

\* Time passes, and the sampler goes on until a tick is not cut short.
Fairness ==
  /\ \A p \in Players : WF_vars(Expire(p) /\ UNCHANGED whitelistVars)
  /\ SF_vars(ReconcileAll /\ UNCHANGED whitelistVars)

FairSpec == Spec /\ Fairness

-----------------------------------------------------------------------------
(***************************************************************************)
(* Properties                                                              *)
(***************************************************************************)

\* A ban stands until it is lifted by hand: the expiry of a kick, before or
\* after it, and whatever failed in between, does not lift it.  The exception is
\* the code's: a ban from the list page of somebody who is just being kicked
\* leaves the kick's expiry, and ends with it.
BanStands ==
  \A p \in Players \ doubt : asked[p] = "banned" => p \in banned \/ p \in fleeting

\* Nobody who was only kicked is stranded on the banned list: whoever is on it
\* without an expiry was banned, whatever restarts and failures came between.
NobodyStranded ==
  \A p \in banned \ doubt : tempBans[p] = "none" => asked[p] = "banned"

\* A kick ends by itself.
KickLifts ==
  \A p \in Players :
    asked[p] = "kicked" /\ p \in banned
      ~> p \notin banned \/ p \in doubt \/ asked[p] = "banned"

\* The whitelist is enforced exactly when the operator switched it on (to
\* permit somebody never does), and then nothing is left in the parked file.
WhitelistByHand == (enabled <=> switchedOn) /\ (enabled => parked = {})

\* Turning the whitelist on or off never loses who is on it.
WhitelistKept == [][Toggle => Permitted' = Permitted]_vars

=============================================================================
