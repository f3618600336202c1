-------------------------------- MODULE Mods --------------------------------
(***************************************************************************)
(* The mods of one instance (vhsm/mods/profile.py, ModProfile), and the    *)
(* requests that change them: installing one with what it needs, updating  *)
(* all, the scheduled check, importing a profile, and the switch, the      *)
(* removal and the clean-up, which do not await anything                   *)
(* (vhsm/web/api.py; InstanceManager.run_mod_update).                      *)
(*                                                                         *)
(* Every request makes a ModProfile of its own, which reads mods.json when *)
(* it is made and writes it at the end.  In between it awaits the          *)
(* catalogue and downloads, while others change the files, or mods.json,   *)
(* or both.  An action is the code between two such awaits.                *)
(*                                                                         *)
(* The files of a package are taken together, and have the same names in   *)
(* every version; those of a mod that is switched off have the suffix      *)
(* ".old".  Which of two dependencies comes first is left open, and so is  *)
(* whether a package is in the cache: it is always awaited, and the wait   *)
(* may fail.  So may the removal and the renaming of a file, which leave   *)
(* the package in doubt.                                                   *)
(***************************************************************************)
EXTENDS Integers, FiniteSets

CONSTANTS
  Requests,    \* requests that may be under way at once
  Packages,    \* names of packages
  Core,        \* BEPINEX_PACKAGE
  Newest,      \* bound: the newest version of each package there will be
  Needs,       \* the dependencies of each version of each package
  Asked,       \* bound: the packages that are asked for by name
  Exports      \* the profiles that are uploaded

Versions == UNION {1..Newest[p] : p \in Packages}
Version0 == Versions \cup {0}

Entry == [version : Version0, enabled : BOOLEAN, dep : BOOLEAN]
Absent == [version |-> 0, enabled |-> FALSE, dep |-> FALSE]
Mods == [Packages -> Entry]
None == [p \in Packages |-> Absent]

ASSUME CoreAssumption == Core \in Packages
ASSUME NewestAssumption == Newest \in [Packages -> Nat \ {0}]
ASSUME NeedsAssumption == Needs \in [Packages -> [Versions -> SUBSET Packages]]

\* _resolve_chain adds BepInEx without looking at what it needs: nothing.
ASSUME CoreNeedsNothing == \A v \in Versions : Needs[Core][v] = {}
\* No package needs itself, directly or not.
ASSUME AcyclicAssumption ==
  \E rank \in [Packages -> 1..Cardinality(Packages)] :
    \A p \in Packages, v \in Versions : \A d \in Needs[p][v] : rank[d] < rank[p]

ASSUME AskedAssumption == Asked \subseteq Packages
ASSUME ExportsAssumption == Exports \subseteq Mods

VARIABLES
  latest,    \* ThunderstoreIndex: the latest version of each package
  manifest,  \* mods.json
  files,     \* the version of the files under their names, and of those with .old
  requests,  \* the requests under way, each with its ModProfile._mods
  doubt,     \* history: packages whose files and entry were changed separately
  imported   \* history: a profile has been imported

vars == <<latest, manifest, files, requests, doubt, imported>>

Files == [active : Version0, parked : Version0]
NoFiles == [active |-> 0, parked |-> 0]

Candidate == [package : Packages, version : Versions, dep : BOOLEAN]
Request ==
  [pc : {"idle", "index", "install", "import"},
   kind : {"none", "install", "update all", "check", "import"},
   copy : Mods,
   wishes : SUBSET (Packages \X Versions),  \* still to be given to install_by_name
   left : SUBSET Candidate,                 \* the rest of the chain
   wanted : Mods,                           \* the export
   touched : SUBSET Packages,               \* history: installed since the last save
   stale : SUBSET Packages]                 \* history: changed by others since the copy

Idle == [pc |-> "idle", kind |-> "none", copy |-> None, wishes |-> {}, left |-> {},
         wanted |-> None, touched |-> {}, stale |-> {}]

TypeOK ==
  /\ latest \in [Packages -> Versions]
  /\ manifest \in Mods
  /\ files \in [Packages -> Files]
  /\ requests \in [Requests -> Request]
  /\ doubt \subseteq Packages /\ imported \in BOOLEAN

Init ==
  /\ latest = [p \in Packages |-> 1]
  /\ manifest = None
  /\ files = [p \in Packages |-> NoFiles]
  /\ requests = [r \in Requests |-> Idle]
  /\ doubt = {} /\ imported = FALSE

-----------------------------------------------------------------------------
Has(mods, p) == mods[p].version # 0
Touched == UNION {requests[r].touched : r \in Requests}

\* What a step changes becomes stale in the other requests that are under way.
Changed ==
  {p \in Packages : manifest'[p] # manifest[p] \/ files'[p] # files[p]}
Stale(q) == IF q.pc = "idle" THEN q ELSE [q EXCEPT !.stale = @ \cup Changed]

\* The request r becomes q.
Becomes(r, q) ==
  requests' = [x \in Requests |-> IF x = r THEN q ELSE Stale(requests[x])]

\* save(): the whole copy replaces what is there; `failed' are packages of which
\* files could not be removed or renamed.
Saves(r, mods, failed) ==
  /\ manifest' = mods
  /\ doubt' = doubt \cup requests[r].stale \cup failed

-----------------------------------------------------------------------------
(***************************************************************************)
(* Files                                                                   *)
(***************************************************************************)

Enable(f) == IF f.parked # 0 THEN [active |-> f.parked, parked |-> 0] ELSE f
Disable(f) == IF f.active # 0 THEN [active |-> 0, parked |-> f.active] ELSE f

\* set_enabled has renamed some of the files, and not the others.
Split(f) ==
  [active |-> IF f.active # 0 THEN f.active ELSE f.parked,
   parked |-> IF f.parked # 0 THEN f.parked ELSE f.active]

\* A mod that is not in the copy is switched on.
On(e) == e.version = 0 \/ e.enabled

\* Faulty variant: a new version is switched on.
PlacedActive(f, e, v) ==
  [(IF e.version # 0 THEN NoFiles ELSE f) EXCEPT !.active = v]

\* _install_version: what the copy knows of is removed, the new version comes
\* under its active name and is parked again if the mod was switched off.
Placed(f, e, v) ==
  LET new == [(IF e.version # 0 THEN NoFiles ELSE f) EXCEPT !.active = v]
  IN IF On(e) THEN new ELSE Disable(new)

Installed(e, v, dep) ==
  [version |-> v, enabled |-> On(e), dep |-> dep /\ e.version = 0]

\* dependents_of
Dependents(mods, p) == {d \in Packages : Has(mods, d) /\ p \in Needs[d][mods[d].version]}

-----------------------------------------------------------------------------
(***************************************************************************)
(* The switch, the removal, the clean-up: one step each                    *)
(***************************************************************************)

Apart == /\ requests' = [x \in Requests |-> Stale(requests[x])]
         /\ UNCHANGED <<latest, imported>>

Toggle(p) ==
  LET on == ~manifest[p].enabled
  IN /\ Has(manifest, p)
     /\ manifest' = [manifest EXCEPT ![p].enabled = on]
     /\ files' = [files EXCEPT ![p] = IF on THEN Enable(@) ELSE Disable(@)]
     /\ UNCHANGED doubt
     /\ Apart

\* _remove_files passes over what it cannot remove; the entry goes in any case.
Remove(ps) ==
  /\ manifest' = [p \in Packages |-> IF p \in ps THEN Absent ELSE manifest[p]]
  /\ \E stuck \in SUBSET ps :
       /\ files' = [p \in Packages |-> IF p \in ps \ stuck THEN NoFiles ELSE files[p]]
       /\ doubt' = doubt \cup stuck
  /\ Apart

\* A file cannot be renamed, or mods.json cannot be written after a switch or a
\* removal, or the manager dies before that.
StopsHalfWay(p) ==
  /\ Has(manifest, p)
  /\ \E f \in {NoFiles, Enable(files[p]), Disable(files[p]), Split(files[p])} :
       files' = [files EXCEPT ![p] = f]
  /\ doubt' = doubt \cup {p}
  /\ UNCHANGED manifest
  /\ Apart

\* Faulty variant: what depends on it is not asked for.
UninstallAnyway(p) == Has(manifest, p) /\ Remove({p})

Uninstall(p) ==
  /\ Has(manifest, p)
  /\ Dependents(manifest, p) = {}
  /\ Remove({p})

Orphans ==
  {p \in Packages \ {Core} :
     Has(manifest, p) /\ manifest[p].dep /\ Dependents(manifest, p) = {}}

Prune == Orphans # {} /\ Remove(Orphans)

-----------------------------------------------------------------------------
(***************************************************************************)
(* A request begins: it reads mods.json and asks for the catalogue         *)
(***************************************************************************)

Begins(r, kind, wishes, wanted) ==
  /\ requests[r].pc = "idle"
  /\ requests' = [requests EXCEPT ![r] =
       [Idle EXCEPT !.pc = "index", !.kind = kind, !.copy = manifest, !.wishes = wishes,
                    !.wanted = wanted, !.stale = Touched]]
  /\ UNCHANGED <<latest, manifest, files, doubt, imported>>

Install(r, p, v) == Begins(r, "install", {<<p, v>>}, None)
UpdateAll(r) == Begins(r, "update all", {}, None)
Import(r, export) == Begins(r, "import", {}, export)

\* mod_check_busy: one check at a time.
Check(r) ==
  /\ \A x \in Requests : requests[x].kind # "check"
  /\ Begins(r, "check", {}, None)

\* The catalogue has been fetched again, by whomever.
Refreshed(p) ==
  /\ latest[p] < Newest[p]
  /\ latest' = [latest EXCEPT ![p] = @ + 1]
  /\ UNCHANGED <<manifest, files, requests, doubt, imported>>

-----------------------------------------------------------------------------
(***************************************************************************)
(* _resolve_chain and install                                              *)
(***************************************************************************)

\* What is missing for p in version v, directly or not: a dependency that is
\* there stays as it is, one that is missing comes in its latest version.
Missing(mods, p, v) ==
  LET lacks(q, w) == {d \in Needs[q][w] : ~Has(mods, d)}
      closed(S) == lacks(p, v) \subseteq S /\ \A q \in S : lacks(q, latest[q]) \subseteq S
  IN {q \in Packages \ {p} : \A S \in SUBSET Packages : closed(S) => q \in S}

\* What is to be installed for p in version v, with BepInEx in any case.
Chain(mods, p, v) ==
  LET deps == Missing(mods, p, v) \cup {q \in {Core} \ {p} : ~Has(mods, q)}
      target == IF mods[p].version = v THEN {} ELSE {[package |-> p, version |-> v, dep |-> FALSE]}
  IN {[package |-> q, version |-> latest[q], dep |-> TRUE] : q \in deps} \cup target

\* updates_available
Updates(mods, enabledOnly) ==
  {<<p, latest[p]>> : p \in {q \in Packages :
     Has(mods, q) /\ latest[q] > mods[q].version /\ (enabledOnly => mods[q].enabled)}}

\* The request goes on with one of its wishes, or is over.
NextWish(r, q, wishes) ==
  IF wishes = {}
  THEN Becomes(r, Idle)
  ELSE \E w \in wishes :
         Becomes(r, [q EXCEPT !.pc = "install", !.wishes = wishes \ {w},
                              !.kind = IF @ = "check" THEN @ ELSE "install",
                              !.left = Chain(q.copy, w[1], w[2])])

\* The catalogue is there, and what is wanted is in it.
Resolves(r) ==
  LET q == requests[r]
      updates == Updates(q.copy, q.kind = "check")
  IN /\ q.pc = "index" /\ q.kind # "import"
     /\ IF q.kind = "install"
        THEN \E w \in q.wishes : w[2] <= latest[w[1]] /\ Chain(q.copy, w[1], w[2]) # {}
        ELSE TRUE
     /\ UNCHANGED <<latest, manifest, files, doubt, imported>>
     /\ NextWish(r, q, IF q.kind = "install" THEN q.wishes ELSE updates)

\* Everything is installed already, and saved again.
SavesAgain(r) ==
  LET q == requests[r]
  IN /\ q.pc = "index" /\ q.kind = "install"
     /\ \E w \in q.wishes : w[2] <= latest[w[1]] /\ Chain(q.copy, w[1], w[2]) = {}
     /\ Saves(r, q.copy, {})
     /\ UNCHANGED <<latest, files, imported>>
     /\ Becomes(r, Idle)

\* Dependencies come first.
Ready(r) ==
  {c \in requests[r].left :
     \A d \in requests[r].left : d.package \notin Needs[c.package][c.version]}

\* A package of the chain is in the cache.  mods.json is written after the
\* last, or when a mod that was switched off is parked again.  What cannot be
\* removed of the version before stays beside the new one.
InstallsOne(r) ==
  LET q == requests[r]
  IN /\ q.pc = "install"
     /\ \E c \in Ready(r) : \E stuck \in SUBSET {p \in {c.package} : Has(q.copy, p)} :
          LET e == q.copy[c.package]
              mods == [q.copy EXCEPT ![c.package] = Installed(e, c.version, c.dep)]
              left == q.left \ {c}
              saves == left = {} \/ ~On(e)
              touched == IF saves THEN {} ELSE q.touched \cup {c.package}
              done == [q EXCEPT !.copy = mods, !.left = left, !.touched = touched]
          IN /\ files' = [files EXCEPT ![c.package] = Placed(@, e, c.version)]
             /\ IF saves THEN Saves(r, mods, stuck)
                ELSE UNCHANGED manifest /\ doubt' = doubt \cup stuck
             /\ IF left = {} THEN NextWish(r, done, q.wishes) ELSE Becomes(r, done)
     /\ UNCHANGED <<latest, imported>>

-----------------------------------------------------------------------------
(***************************************************************************)
(* replace_from_export                                                     *)
(***************************************************************************)

\* What can be had of the export.
Found(q) ==
  [p \in Packages |->
     IF q.wanted[p].version \in 1..latest[p] \cup {q.copy[p].version}
     THEN q.wanted[p] ELSE Absent]

\* The catalogue is there; downloads begin.
ImportResolves(r) ==
  LET q == requests[r]
  IN /\ q.pc = "index" /\ q.kind = "import"
     /\ q.wanted # None => Found(q) # None
     /\ UNCHANGED <<latest, manifest, files, doubt, imported>>
     /\ Becomes(r, [q EXCEPT !.pc = "import", !.wanted = Found(q)])

\* A mod of the export is installed unless it is here, then switched.
Landed(f, e, w) ==
  LET new == IF w.version = e.version THEN f ELSE Placed(f, e, w.version)
      active == IF On(e) THEN new ELSE Enable(new)
  IN IF w.enabled THEN active ELSE Disable(active)

Replaced(copy, wanted) ==
  [p \in Packages |->
     [wanted[p] EXCEPT !.dep =
        IF Has(copy, p) THEN copy[p].dep ELSE Has(wanted, p) /\ Dependents(wanted, p) # {}]]

Listed(q) == {p \in Packages : Has(q.wanted, p)}
Unlisted(q) == {p \in Packages : Has(q.copy, p) /\ ~Has(q.wanted, p)}

\* The mods `on' are switched on at the end; of those that are `stuck' there are
\* files that could not be removed, of those that are `split' some that could
\* not be renamed.
ImportEnds(r, on, stuck, split) ==
  LET q == requests[r]
      wanted == [p \in Packages |-> [q.wanted[p] EXCEPT !.enabled = p \in on]]
      landed(p) == Landed(files[p], q.copy[p], wanted[p])
  IN /\ q.pc = "import"
     /\ files' = [p \in Packages |->
          CASE p \in Listed(q) -> IF p \in split THEN Split(landed(p)) ELSE landed(p)
            [] p \in Unlisted(q) \ stuck -> NoFiles
            [] OTHER -> files[p]]
     /\ Saves(r, Replaced(q.copy, wanted), stuck \cup split)
     /\ imported' = TRUE
     /\ UNCHANGED latest
     /\ Becomes(r, Idle)

Replaceable(r) == {p \in Packages : Has(requests[r].copy, p)}

\* Everything is in the cache.  If unpacking the files of the export fails,
\* everything stays switched on.
ImportReplaces(r) ==
  LET q == requests[r]
  IN \E stuck \in SUBSET Replaceable(r), on \in {{p \in Listed(q) : q.wanted[p].enabled}, Listed(q)} :
       ImportEnds(r, on, stuck, {})

\* A file of p cannot be renamed: some of the mods have been switched.
ImportStops(r) ==
  \E p \in Listed(requests[r]), on \in SUBSET Listed(requests[r]) : ImportEnds(r, on, {}, {p})

\* Copying or parking the files of p fails, when some mods are installed.
ImportBreaks(r) ==
  LET q == requests[r]
      new == {p \in Listed(q) : q.wanted[p].version # q.copy[p].version}
  IN /\ q.pc = "import"
     /\ \E p \in new : \E done \in SUBSET (new \ {p}), v, w \in {0, q.wanted[p].version} :
          LET gone == {d \in Packages : Has(q.copy, d) /\ (d = p \/ ~Has(q.wanted, d))}
          IN /\ w # 0 => ~On(q.copy[p])
             /\ files' = [d \in Packages |->
                  IF d \in done THEN Placed(files[d], q.copy[d], q.wanted[d].version)
                  ELSE IF d = p THEN [active |-> v, parked |-> w]
                  ELSE IF d \in gone THEN NoFiles ELSE files[d]]
             /\ manifest' = [d \in Packages |->
                  IF d \in done THEN Installed(q.copy[d], q.wanted[d].version, FALSE)
                  ELSE IF d = p /\ w # 0 THEN [version |-> w, enabled |-> TRUE, dep |-> FALSE]
                  ELSE IF d \in gone THEN Absent ELSE q.copy[d]]
             /\ doubt' = doubt \cup q.stale \cup {p}
     /\ imported' = TRUE
     /\ UNCHANGED latest
     /\ Becomes(r, Idle)

\* mods.json cannot be written in the end, or the manager dies before that.
ImportUnsaved(r) ==
  LET q == requests[r]
  IN /\ q.pc = "import"
     /\ \E gone \in SUBSET Replaceable(r), done \in SUBSET Listed(q) :
          /\ files' = [p \in Packages |->
               CASE p \in done -> Landed(files[p], q.copy[p], q.wanted[p])
                 [] p \in gone \ done -> NoFiles
                 [] OTHER -> files[p]]
          /\ doubt' = doubt \cup gone \cup done
     /\ UNCHANGED <<latest, manifest, imported>>
     /\ Becomes(r, Idle)

-----------------------------------------------------------------------------
(***************************************************************************)
(* What fails                                                              *)
(***************************************************************************)

\* The catalogue or a package cannot be had: what was installed since the last
\* save is not recorded.
Fails(r) ==
  LET q == requests[r]
  IN /\ q.pc # "idle"
     /\ doubt' = doubt \cup q.touched
     /\ UNCHANGED <<latest, manifest, files, imported>>
     /\ Becomes(r, Idle)

\* Copying or parking the files of a package fails, or the save after that.
Breaks(r) ==
  LET q == requests[r]
  IN /\ q.pc = "install"
     /\ \E c \in Ready(r) :
          LET p == c.package
              bare == IF Has(q.copy, p) THEN NoFiles ELSE files[p]
              copied == [bare EXCEPT !.active = c.version]
          IN /\ \E f \in {bare, copied, Split(copied), Placed(files[p], q.copy[p], c.version)} :
                  files' = [files EXCEPT ![p] = f]
             /\ doubt' = doubt \cup q.touched \cup {p}
     /\ UNCHANGED <<latest, manifest, imported>>
     /\ Becomes(r, Idle)

\* The manager dies; StopsHalfWay and Breaks say what it may have been about.
Crash ==
  /\ doubt' = doubt \cup Touched
  /\ requests' = [r \in Requests |-> Idle]
  /\ UNCHANGED <<latest, manifest, files, imported>>

-----------------------------------------------------------------------------
RequestStep(r) ==
  \/ \E p \in Asked : \E v \in 1..Newest[p] : Install(r, p, v)
  \/ UpdateAll(r) \/ Check(r)
  \/ \E export \in Exports : Import(r, export)
  \/ Resolves(r) \/ SavesAgain(r) \/ InstallsOne(r)
  \/ ImportResolves(r) \/ ImportReplaces(r) \/ ImportStops(r) \/ ImportBreaks(r)
  \/ ImportUnsaved(r)
  \/ Fails(r) \/ Breaks(r)

Next ==
  \/ \E r \in Requests : RequestStep(r)
  \/ \E p \in Packages : Toggle(p) \/ Uninstall(p) \/ StopsHalfWay(p) \/ Refreshed(p)
  \/ Prune \/ Crash

Spec == Init /\ [][Next]_vars

-----------------------------------------------------------------------------
(***************************************************************************)
(* Properties                                                              *)
(***************************************************************************)

\* The files of a mod are as its entry says.
Agree(e, f) ==
  f = IF e.version = 0 THEN NoFiles
      ELSE IF e.enabled THEN [active |-> e.version, parked |-> 0]
      ELSE [active |-> 0, parked |-> e.version]

\* "Recorded in mods.json with the exact list of files each one owns": what is
\* on disk is what is recorded, in its version and switched on or off, but for
\* what a request is just installing, and for the packages that were changed by
\* another request while one was under way, or by one that failed before it
\* saved, or of which a file could not be removed or renamed.  No other package
\* suffers from any of these.
AsRecorded == \A p \in Packages \ (doubt \cup Touched) : Agree(manifest[p], files[p])

\* No mod is recorded without what it needs, whatever requests overlap, fail or
\* overwrite each other's entries; an imported profile is taken as it is.
DependenciesKept ==
  imported \/ \A p \in Packages : Has(manifest, p) =>
                \A d \in Needs[p][manifest[p].version] : Has(manifest, d)
=============================================================================
