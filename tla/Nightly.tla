------------------------------ MODULE Nightly ------------------------------
(***************************************************************************)
(* The scheduled check of the mods of each instance (vhsm/manager.py:      *)
(* _scheduler_loop, _auto_mod_updates, run_mod_update), the catalogue that *)
(* it compares with (vhsm/mods/thunderstore.py, ThunderstoreIndex) and the *)
(* packages that it downloads (PackageCache), beside a check by hand, the  *)
(* pages that load the catalogue, the requests on the cache, changes of an *)
(* instance's settings and crashes of the manager.                         *)
(*                                                                         *)
(* Every instance has one mod with one new release, and all have the same  *)
(* time of day; a day is before it, within the hour after it, or later.    *)
(* What a check does to the files of the instance is in module Mods, and   *)
(* its restart in Maintenance.  The server's own update has the schedule   *)
(* of one instance more whose check never has to be tried again.           *)
(***************************************************************************)
EXTENDS PackageCache

CONSTANTS
  Instances,  \* the instances whose mods are checked
  None,       \* no instance, and nobody
  MaxDays,    \* bound: days
  MaxUpsets   \* bound: failures, crashes and changes of settings

ASSUME CheckersAssumption == {"schedule", "hand"} \subseteq Fetchers
ASSUME NoneAssumption == None \notin Instances
ASSUME BoundsAssumption == MaxDays \in Nat \ {0} /\ MaxUpsets \in Nat

VARIABLES
  clock,      \* the day, and where in it
  off,        \* the instances whose mod_update_check is off
  last,       \* mod_update_last_run of each instance
  pass,       \* the scheduler's pass over the instances
  check,      \* the checks under way: ModUpdateRun
  installed,  \* the instances that have the new release
  released,   \* at Thunderstore: the new release is out
  catalogue,  \* ThunderstoreIndex._packages: "none", "old" or "new"
  disk,       \* thunderstore_index.json
  lock,       \* who holds ThunderstoreIndex._lock
  upsets,     \* how much has gone wrong or changed
  reports,    \* history: the scheduled checks that were reported, on each day
  lost,       \* history: those that were not made, and why is said below
  outdated    \* history: a check reported as current what was not

schedule == <<clock, off, last, pass, reports, lost>>
index == <<released, catalogue, disk, lock>>
vars == <<schedule, check, installed, index, upsets, outdated, cacheVars>>

Checkers == {"schedule", "hand"}
Days == 1..MaxDays
NoPass == [todo |-> {}, now |-> 0, previous |-> 0, replaced |-> FALSE]
NoCheck == [pc |-> "idle", of |-> None, stale |-> FALSE, began |-> FALSE]

NightlyTypeOK ==
  /\ clock \in [day : Days, at : {"before", "due", "after"}]
  /\ off \subseteq Instances
  /\ last \in [Instances -> 0..MaxDays]
  /\ pass \in [todo : SUBSET Instances, now : 0..MaxDays, previous : 0..MaxDays,
               replaced : BOOLEAN]
  /\ check \in [Checkers -> [pc : {"idle", "index", "fetching", "installing", "reporting"},
                             of : Instances \cup {None}, stale : BOOLEAN, began : BOOLEAN]]
  /\ installed \subseteq Instances
  /\ {catalogue, disk} \subseteq {"none", "old", "new"}
  /\ lock \in Checkers \cup {"page", "button", None}
  /\ upsets \in 0..MaxUpsets
  /\ reports \in [Instances -> [Days -> 0..2]]
  /\ lost \subseteq Instances \X Days
  /\ {released, outdated} \subseteq BOOLEAN

TypeOK == CacheTypeOK /\ NightlyTypeOK

Init ==
  /\ CacheInit
  /\ clock = [day |-> 1, at |-> "before"]
  /\ off = {}
  /\ last = [i \in Instances |-> 0]
  /\ pass = NoPass
  /\ check = [c \in Checkers |-> NoCheck]
  /\ installed = {}
  /\ released = FALSE
  /\ catalogue = "none" /\ disk \in {"none", "old"} /\ lock = None
  /\ upsets = 0
  /\ reports = [i \in Instances |-> [d \in Days |-> 0]]
  /\ lost = {} /\ outdated = FALSE

Upset == upsets < MaxUpsets /\ upsets' = upsets + 1

-----------------------------------------------------------------------------
(***************************************************************************)
(* The catalogue: ThunderstoreIndex.ensure                                 *)
(***************************************************************************)
Offered == IF released THEN "new" ELSE "old"

Fetched == catalogue' = Offered /\ disk' = Offered /\ lock' = None /\ UNCHANGED released

\* A page wants the catalogue: from memory, from disk if there is none in
\* memory, and from Thunderstore if that is too old.
PageAsks ==
  /\ lock = None
  /\ catalogue' = IF catalogue = "none" THEN disk ELSE catalogue
  /\ lock' = "page"
  /\ UNCHANGED <<schedule, check, installed, released, disk, upsets, outdated, cacheVars>>

PageAnswered ==
  /\ lock = "page"
  /\ Fetched \/ (catalogue # "none" /\ lock' = None /\ UNCHANGED <<released, catalogue, disk>>)
  /\ UNCHANGED <<schedule, check, installed, upsets, outdated, cacheVars>>

PageUnanswered ==
  /\ lock = "page" /\ catalogue = "none"
  /\ Upset
  /\ lock' = None
  /\ UNCHANGED <<schedule, check, installed, released, catalogue, disk, outdated, cacheVars>>

\* Pages never wait for it: one task loads it for all of them, and its failure
\* is noted.
BackgroundLoad == PageAsks \/ PageAnswered \/ PageUnanswered

\* The button wants it from Thunderstore, and says so if that failed.
Refresh ==
  /\ \/ lock = None /\ lock' = "button" /\ UNCHANGED <<released, catalogue, disk, upsets>>
     \/ lock = "button" /\ Fetched /\ UNCHANGED upsets
     \/ lock = "button" /\ Upset /\ lock' = None /\ UNCHANGED <<released, catalogue, disk>>
  /\ UNCHANGED <<schedule, check, installed, outdated, cacheVars>>

-----------------------------------------------------------------------------
(***************************************************************************)
(* run_mod_update                                                          *)
(***************************************************************************)
Busy(i) == \E c \in Checkers : check[c].of = i

Begins(c, i) ==
  check' = [check EXCEPT ![c] = [NoCheck EXCEPT !.pc = "index", !.of = i, !.began = released]]

\* Faulty variant: a catalogue that is loaded will do.
AsksUnforced(c) ==
  /\ check[c].pc = "index" /\ lock = None
  /\ IF catalogue = "none"
       THEN check' = [check EXCEPT ![c].pc = "fetching"] /\ lock' = c
       ELSE check' = [check EXCEPT ![c].pc = "reporting"] /\ UNCHANGED lock
  /\ outdated' = (outdated \/ (catalogue = "old" /\ check[c].began))
  /\ UNCHANGED <<schedule, installed, released, catalogue, disk, upsets, cacheVars>>

\* A check wants it from Thunderstore in any case.
Asks(c) ==
  /\ check[c].pc = "index" /\ lock = None
  /\ check' = [check EXCEPT ![c].pc = "fetching"]
  /\ lock' = c
  /\ UNCHANGED <<schedule, installed, released, catalogue, disk, upsets, outdated, cacheVars>>

\* The mods are compared with the catalogue, and what is newer is installed
\* if that is wanted.
Compares(c, stale) ==
  LET i == check[c].of
      newer == catalogue' = "new" /\ i \notin installed
  IN /\ outdated' = (outdated \/ (~stale /\ check[c].began /\ catalogue' = "old"))
     /\ \E pc \in {"reporting"} \cup IF newer THEN {"installing"} ELSE {} :
          check' = [check EXCEPT ![c] = [@ EXCEPT !.pc = pc, !.stale = stale]]

Answered(c) ==
  /\ check[c].pc = "fetching"
  /\ Fetched
  /\ Compares(c, FALSE)
  /\ UNCHANGED <<schedule, installed, upsets, cacheVars>>

\* The old catalogue serves, and the report says so.
AnsweredStale(c) ==
  /\ check[c].pc = "fetching" /\ catalogue # "none"
  /\ Upset
  /\ lock' = None /\ UNCHANGED <<released, catalogue, disk>>
  /\ Compares(c, TRUE)
  /\ UNCHANGED <<schedule, installed, cacheVars>>

\* The check c is over.
Over(c) == check' = [check EXCEPT ![c] = NoCheck]

\* The pass goes on with the next instance, whose day is lost or not.
Done(c) == pass' = IF c = "schedule"
                   THEN [pass EXCEPT !.todo = @ \ {check[c].of}, !.previous = 0, !.replaced = FALSE]
                   ELSE pass
Loses(c) == lost' = IF c = "schedule" THEN lost \cup {<<check[c].of, pass.now>>} ELSE lost

\* Faulty variant: the day stays marked.
Unchecked(c) ==
  /\ check[c].pc = "fetching" /\ catalogue = "none"
  /\ Upset
  /\ lock' = None /\ UNCHANGED <<released, catalogue, disk>>
  /\ Over(c) /\ Done(c)
  /\ UNCHANGED <<clock, off, last, reports, lost, installed, outdated, cacheVars>>

\* There is no catalogue in memory; the one on disk is not looked at.  The
\* scheduler puts the day back, in settings that may not be the instance's
\* any more.
Retries(c) ==
  LET i == check[c].of
      back == c = "schedule" /\ ~pass.replaced
  IN /\ check[c].pc = "fetching" /\ catalogue = "none"
     /\ Upset
     /\ lock' = None /\ UNCHANGED <<released, catalogue, disk>>
     /\ last' = IF back THEN [last EXCEPT ![i] = pass.previous] ELSE last
     /\ IF back THEN UNCHANGED lost ELSE Loses(c)
     /\ Over(c) /\ Done(c)
     /\ UNCHANGED <<clock, off, reports, installed, outdated, cacheVars>>

\* install_by_name takes the package from the cache.
Downloads(c) ==
  /\ check[c].pc = "installing"
  /\ Fetch(c)
  /\ UNCHANGED <<schedule, check, installed, index, upsets, outdated>>

Takes(c) == fetch' = [fetch EXCEPT ![c] = Idle] /\ UNCHANGED <<part, staging, entry, doubted, spoilt>>

Installed(c) ==
  /\ check[c].pc = "installing" /\ fetch[c].pc = "done"
  /\ Takes(c)
  /\ installed' = installed \cup {check[c].of}
  /\ check' = [check EXCEPT ![c].pc = "reporting"]
  /\ UNCHANGED <<schedule, index, upsets, outdated>>

\* An error that is reported.
NotInstalled(c) ==
  /\ check[c].pc = "installing" /\ fetch[c].pc = "broken"
  /\ Takes(c)
  /\ check' = [check EXCEPT ![c].pc = "reporting"]
  /\ UNCHANGED <<schedule, installed, index, upsets, outdated>>

\* An error that nobody expects, CacheError first of all, ends the check
\* without a report, and the scheduler's pass with it.
Escapes(c) ==
  /\ check[c].pc = "installing" /\ fetch[c].pc \in {"refused", "broken"}
  /\ Takes(c)
  /\ Over(c) /\ Loses(c)
  /\ pass' = IF c = "schedule" THEN NoPass ELSE pass
  /\ UNCHANGED <<clock, off, last, reports, installed, index, upsets, outdated>>

Reports(c) ==
  /\ check[c].pc = "reporting"
  /\ reports' = IF c = "schedule"
                THEN [reports EXCEPT ![check[c].of][pass.now] = IF @ < 2 THEN @ + 1 ELSE @]
                ELSE reports
  /\ Over(c) /\ Done(c)
  /\ UNCHANGED <<clock, off, last, lost, installed, index, upsets, outdated, cacheVars>>

-----------------------------------------------------------------------------
(***************************************************************************)
(* _auto_mod_updates                                                       *)
(***************************************************************************)

\* The time of the whole pass is read here.
PassBegins ==
  /\ pass.todo = {} /\ clock.at = "due"
  /\ \E i \in Instances \ off : last[i] # clock.day
  /\ pass' = [NoPass EXCEPT !.todo = Instances, !.now = clock.day]
  /\ UNCHANGED <<clock, off, last, reports, lost, check, installed, index, upsets, outdated, cacheVars>>

\* Without a check by now.
Due(i) == i \notin off /\ last[i] # pass.now

NotDue(i) ==
  /\ i \in pass.todo /\ check["schedule"].pc = "idle"
  /\ ~Due(i)
  /\ pass' = [pass EXCEPT !.todo = @ \ {i}]
  /\ UNCHANGED <<clock, off, last, reports, lost, check, installed, index, upsets, outdated, cacheVars>>

\* The day is marked before the check.
CheckBegins(i) ==
  /\ i \in pass.todo /\ check["schedule"].pc = "idle"
  /\ Due(i) /\ ~Busy(i)
  /\ last' = [last EXCEPT ![i] = pass.now]
  /\ pass' = [pass EXCEPT !.previous = last[i], !.replaced = FALSE]
  /\ Begins("schedule", i)
  /\ UNCHANGED <<clock, off, reports, lost, installed, index, upsets, outdated, cacheVars>>

\* A check by hand is running: there is no other that day.
CheckSkipped(i) ==
  /\ i \in pass.todo /\ check["schedule"].pc = "idle"
  /\ Due(i) /\ Busy(i)
  /\ last' = [last EXCEPT ![i] = pass.now]
  /\ pass' = [pass EXCEPT !.todo = @ \ {i}]
  /\ lost' = lost \cup {<<i, pass.now>>}
  /\ UNCHANGED <<clock, off, reports, check, installed, index, upsets, outdated, cacheVars>>

-----------------------------------------------------------------------------
(***************************************************************************)
(* Everybody else                                                          *)
(***************************************************************************)
ByHand(i) ==
  /\ check["hand"].pc = "idle" /\ fetch["hand"].pc = "idle"
  /\ ~Busy(i)
  /\ Begins("hand", i)
  /\ UNCHANGED <<schedule, installed, index, upsets, outdated, cacheVars>>

\* Another request that installs the mod, and has what it wanted or not.
Wants(f) ==
  /\ f # "schedule" /\ (f = "hand" => check["hand"].pc = "idle")
  /\ \/ Fetch(f)
     \/ fetch[f].pc \in {"done", "refused", "broken"} /\ Takes(f)
  /\ UNCHANGED <<schedule, check, installed, index, upsets, outdated>>

CacheSteps ==
  /\ \E f \in Fetchers :
       \/ Opens(f) \/ Writes(f) \/ Unpacks(f) \/ NothingToUnpack(f)
       \/ \E m \in Members : Member(f, m)
       \/ Marked(f) \/ Replaces(f) \/ ReplaceFails(f)
  /\ UNCHANGED <<schedule, check, installed, index, upsets, outdated>>

CacheUpsets ==
  /\ Upset
  /\ (\E f \in Fetchers : DownloadFails(f) \/ MemberFails(f)) \/ Upload \/ Clear
  /\ UNCHANGED <<schedule, check, installed, index, outdated>>

\* InstanceManager.update puts new settings in the place of those that the
\* scheduler has in hand, with the day as it is marked.
Replaced(i) ==
  pass' = IF check["schedule"].of = i THEN [pass EXCEPT !.replaced = TRUE] ELSE pass

\* The form: the check is switched on or off.
SavesSchedule(i) ==
  /\ Upset
  /\ off' \in {off \ {i}, off \cup {i}}
  /\ Replaced(i)
  /\ UNCHANGED <<clock, last, reports, lost, check, installed, index, outdated, cacheVars>>

Release ==
  /\ ~released
  /\ released' = TRUE
  /\ UNCHANGED <<schedule, check, installed, catalogue, disk, lock, upsets, outdated, cacheVars>>

TimePasses ==
  /\ \/ clock.at = "before" /\ clock' = [clock EXCEPT !.at = "due"]
     \/ clock.at = "due" /\ clock' = [clock EXCEPT !.at = "after"]
     \/ /\ clock.at = "after" /\ clock.day < MaxDays
        /\ clock' = [day |-> clock.day + 1, at |-> "before"]
  /\ UNCHANGED <<off, last, pass, reports, lost, check, installed, index, upsets, outdated, cacheVars>>

Crash ==
  /\ Upset
  /\ CacheCrash
  /\ pass' = NoPass
  /\ check' = [c \in Checkers |-> NoCheck]
  /\ catalogue' = "none" /\ lock' = None
  /\ lost' = lost \cup ({<<check["schedule"].of, pass.now>>} \cap (Instances \X Days))
  /\ UNCHANGED <<clock, off, last, reports, installed, released, disk, outdated>>

-----------------------------------------------------------------------------
Next ==
  \/ BackgroundLoad \/ Refresh
  \/ \E c \in Checkers :
       \/ Asks(c) \/ Answered(c) \/ AnsweredStale(c) \/ Retries(c) \/ Downloads(c)
       \/ Installed(c) \/ NotInstalled(c) \/ Escapes(c) \/ Reports(c)
  \/ PassBegins
  \/ \E i \in Instances :
       NotDue(i) \/ CheckBegins(i) \/ CheckSkipped(i) \/ ByHand(i) \/ SavesSchedule(i)
  \/ \E f \in Fetchers : Wants(f)
  \/ CacheSteps \/ CacheUpsets \/ Release \/ TimePasses \/ Crash

Spec == Init /\ [][Next]_vars

-----------------------------------------------------------------------------
(***************************************************************************)
(* Properties                                                              *)
(***************************************************************************)

\* What ensure_cached hands out is the whole package, whoever downloads the
\* same file at the same time, empties or unlinks it, and wherever the manager
\* has died; unless threads that unpack, or one of them and a request on the
\* cache, were mixed up, or the death left the marker of an entry that was
\* being removed.
ServedWhole == ~spoilt

\* The check of a day that is marked has been made and reported, once, when
\* the scheduler is done with it, through restarts, passes that begin again
\* and a Thunderstore that is away; but for one that the manager died in, that
\* raised, that ran into one by hand, or that found no catalogue when the
\* settings had been changed.
OncePerDay ==
  \A i \in Instances, d \in Days :
    /\ reports[i][d] <= 1
    /\ last[i] = d /\ check["schedule"].of # i /\ <<i, d>> \notin lost => reports[i][d] = 1

\* A check that does not say that its catalogue is an old one has seen every
\* release that was out when it began.
CurrentOrSaid == ~outdated
=============================================================================
