------------------------------- MODULE Worlds -------------------------------
(***************************************************************************)
(* The worlds of one instance and the ways back to them                    *)
(* (vhsm/worlds.py, vhsm/backups.py; InstanceManager.restore_world,        *)
(* install_world, _auto_snapshot).                                         *)
(*                                                                         *)
(* A snapshot, a restore, a deletion and an import are sequences of file   *)
(* operations.  Who works on files is a worker: "loop" is a web handler    *)
(* that runs on the event loop, where nothing else runs until it returns;  *)
(* "scheduler" is the thread of _auto_snapshot; each upload has a thread   *)
(* of its own.  The server is a process that writes its world when it      *)
(* likes.  It has a session of its own, and where nothing takes it down    *)
(* with the manager it goes on when that is killed: a stray, of which no   *)
(* manager knows.  Any of them may be cut short, and any copy may fail.    *)
(*                                                                         *)
(* What a file holds is the number of the save or upload it comes from, 0  *)
(* where there is none.  A world is what its files hold: whole if that is  *)
(* one number.  Snapshots are numbered in the order in which they are      *)
(* begun.                                                                  *)
(***************************************************************************)
EXTENDS Naturals, FiniteSets

CONSTANTS
  Names,       \* names of worlds
  First,       \* the name the instance is created with
  Files,       \* the files of a world
  Uploads,     \* threads of world uploads
  Keep,        \* config.snapshot_keep
  Pairs,       \* TRUE: Valheim's own backups are .db and .fwl, as before 1.0
  MaxSaves,    \* bound: saves and uploads
  MaxSnaps     \* bound: snapshots

ASSUME FirstAssumption == First \in Names
ASSUME FilesAssumption == IsFiniteSet(Files) /\ Files # {}
ASSUME KeepAssumption == Keep \in Nat \ {0}
ASSUME PairsAssumption == Pairs \in BOOLEAN
ASSUME BoundsAssumption == MaxSaves \in Nat \ {0} /\ MaxSnaps \in Nat
ASSUME WorkersAssumption == {"loop", "scheduler"} \cap Uploads = {}

VARIABLES
  world,     \* what is under each name in worlds_local
  config,    \* record.config.world
  server,    \* record.busy and the supervisor's status
  loaded,    \* the name the process was started with
  number,    \* the save it writes, or wrote last
  writing,   \* the files it has still to write of it
  strays,    \* servers that outlived the manager: the same of each
  snaps,     \* <instance>/backups, and Valheim's own backups
  made,      \* how many of them there have been
  saves,     \* how many saves and uploads there have been
  workers,   \* who works on the files
  owed,      \* history: whole worlds that were replaced, by name
  torn,      \* history: names whose files were left in disorder
  mixed,     \* history: names that two changed at once
  cut,       \* history: snapshots whose removal has begun
  byHand     \* history: those deleted by hand

disk == <<world, snaps, made>>
process == <<server, loaded, number, writing, strays>>
history == <<owed, torn, mixed, cut, byHand>>
vars == <<disk, config, process, saves, workers, history>>

Worker == {"loop", "scheduler"} \cup Uploads
Ids == 1..MaxSnaps
Numbers == 1..MaxSaves
Content == [Files -> {0} \cup Numbers]
Nothing == [f \in Files |-> 0]
Save(s) == [f \in Files |-> s]
Present(c) == {f \in Files : c[f] # 0}
Whole(c) == \E s \in Numbers : c = Save(s)

Kinds == {"auto", "manual", "pre-import", "valheim"}
Snap == [kind : Kinds \cup {"none"}, name : Names, payload : Content, listed : BOOLEAN]
NoSnap == [kind |-> "none", name |-> First, payload |-> Nothing, listed |-> FALSE]

Work ==
  [pc : {"idle", "copy", "list", "ready", "replace", "remove", "place", "placed", "purge"},
   job : {"none", "snapshot", "restore", "delete", "auto", "prune", "import"},
   name : Names,           \* the world it is about
   snap : 0..MaxSnaps,     \* the snapshot it writes
   keys : SUBSET Ids,      \* the snapshots it restores or removes
   todo : SUBSET Files,    \* the files it has still to copy or remove
   source : Content,       \* what it puts in the world's place
   asked : Content]        \* history: what the snapshot to restore held

Stray == [name : Names, number : Numbers, writing : SUBSET Files]

Idle == [pc |-> "idle", job |-> "none", name |-> First, snap |-> 0, keys |-> {},
         todo |-> {}, source |-> Nothing, asked |-> Nothing]

TypeOK ==
  /\ world \in [Names -> Content]
  /\ config \in Names /\ loaded \in Names
  /\ server \in {"off", "pending", "on"}
  /\ number \in Numbers /\ writing \subseteq Files /\ strays \subseteq Stray
  /\ snaps \in [Ids -> Snap] /\ made \in 0..MaxSnaps
  /\ saves \in 1..MaxSaves
  /\ workers \in [Worker -> Work]
  /\ owed \subseteq Names \X Numbers
  /\ torn \subseteq Names /\ mixed \subseteq Names
  /\ cut \subseteq Ids /\ byHand \subseteq Ids

Init ==
  /\ world = [n \in Names |-> IF n = First THEN Save(1) ELSE Nothing]
  /\ config = First /\ loaded = First
  /\ server = "off" /\ number = 1 /\ writing = {} /\ strays = {}
  /\ snaps = [i \in Ids |-> NoSnap] /\ made = 0
  /\ saves = 1
  /\ workers = [w \in Worker |-> Idle]
  /\ owed = {} /\ torn = {} /\ mixed = {} /\ cut = {} /\ byHand = {}

-----------------------------------------------------------------------------

\* Faulty variant: the handlers leave their work to threads.
LoopGoesOn == TRUE

LoopFree == workers["loop"].pc = "idle"
Becomes(w, work) == workers' = [workers EXCEPT ![w] = work]
Done(w) == Becomes(w, Idle)

\* Under way in another worker: a restore or an import.
Replacing(w) ==
  {x \in Worker \ {w} : workers[x].pc # "idle" /\ workers[x].job \in {"restore", "import"}}
\* The files under this name are just being removed or put in place.
Changing(n) ==
  {w \in Worker : workers[w].name = n /\ workers[w].pc \in {"remove", "place"}}

\* Listed by _vhsm_snapshots or _valheim_backups.
Listed(n) == {i \in Ids : snaps[i].listed /\ snaps[i].name = n}
Autos(n) == {i \in Listed(n) : snaps[i].kind = "auto"}

\* Copies without a manifest are as good as none.
Unread(ws) ==
  LET copies == {workers[w].snap : w \in {x \in ws : workers[x].pc \in {"copy", "list"}}} IN
  [i \in Ids |-> IF i \in copies THEN NoSnap ELSE snaps[i]]

\* A server that outlived the manager has this world.
Haunted(n) == \E s \in strays : s.name = n

Overlaps(w, work) ==
  \/ Replacing(w) # {} \/ Changing(work.name) # {}
  \/ work.job \in {"restore", "import"} /\ Haunted(work.name)
Mixes(overlaps, n) == mixed' = IF overlaps THEN mixed \cup {n} ELSE mixed

-----------------------------------------------------------------------------
(***************************************************************************)
(* backups.snapshot: the copy first, then the manifest that lists it.      *)
(***************************************************************************)

\* Faulty variant: the manifest is written first.
SnapshotListedFirst(w, work, kind) ==
  LET n == work.name IN
  /\ world[n] # Nothing /\ made < MaxSnaps
  /\ made' = made + 1
  /\ snaps' = [snaps EXCEPT ![made + 1] =
       [NoSnap EXCEPT !.kind = kind, !.name = n, !.listed = TRUE]]
  /\ Becomes(w, [work EXCEPT !.pc = "copy", !.snap = made + 1, !.todo = Present(world[n])])
  /\ Mixes(Overlaps(w, work), n)
  /\ UNCHANGED <<world, config, process, owed, torn, cut, byHand>>

SnapshotBegins(w, work, kind) ==
  LET n == work.name IN
  /\ world[n] # Nothing /\ made < MaxSnaps
  /\ made' = made + 1
  /\ snaps' = [snaps EXCEPT ![made + 1] = [NoSnap EXCEPT !.kind = kind, !.name = n]]
  /\ Becomes(w, [work EXCEPT !.pc = "copy", !.snap = made + 1, !.todo = Present(world[n])])
  /\ Mixes(Overlaps(w, work), n)
  /\ UNCHANGED <<world, config, process, owed, torn, cut, byHand>>

Copies(w, f) ==
  LET work == workers[w] IN
  /\ work.pc = "copy" /\ f \in work.todo
  /\ world[work.name][f] # 0
  /\ snaps' = [snaps EXCEPT ![work.snap].payload[f] = world[work.name][f]]
  /\ Becomes(w, [work EXCEPT !.todo = @ \ {f}, !.pc = IF work.todo = {f} THEN "list" ELSE "copy"])
  /\ UNCHANGED <<world, made, config, process, saves, history>>

\* Faulty variant: a restore or an import goes on without its snapshot.
CopyFailsUnheeded(w) ==
  /\ workers[w].pc = "copy"
  /\ snaps' = Unread({w})
  /\ Becomes(w, IF workers[w].job \in {"restore", "import"}
                  THEN [workers[w] EXCEPT !.pc = "replace"] ELSE Idle)
  /\ UNCHANGED <<world, made, config, process, saves, history>>

\* A file is gone, or the disk is full: what was copied is removed.
CopyFails(w) ==
  /\ workers[w].pc = "copy"
  /\ snaps' = Unread({w})
  /\ Done(w)
  /\ UNCHANGED <<world, made, config, process, saves, history>>

Lists(w) ==
  LET work == workers[w] IN
  /\ work.pc = "list"
  /\ snaps' = [snaps EXCEPT ![work.snap].listed = TRUE]
  /\ Becomes(w, CASE work.job = "snapshot" -> Idle
                  [] work.job = "auto" -> [work EXCEPT !.pc = "ready"]
                  [] OTHER -> [work EXCEPT !.pc = "replace"])
  /\ UNCHANGED <<world, made, config, process, saves, history>>

\* The manifest cannot be written.  The copy stays, and nothing ever reads it.
ListFails(w) ==
  /\ workers[w].pc = "list"
  /\ snaps' = Unread({w})
  /\ Done(w)
  /\ UNCHANGED <<world, made, config, process, saves, history>>

\* InstanceManager.snapshot_world, at any time; _auto_snapshot, of a server
\* that is active.
SnapshotByHand ==
  /\ LoopFree
  /\ SnapshotBegins("loop", [Idle EXCEPT !.job = "snapshot", !.name = config], "manual")
  /\ UNCHANGED saves

AutoSnapshot ==
  /\ LoopFree /\ server = "on" /\ workers["scheduler"].pc = "idle"
  /\ SnapshotBegins("scheduler", [Idle EXCEPT !.job = "auto", !.name = config], "auto")
  /\ UNCHANGED saves

-----------------------------------------------------------------------------
(***************************************************************************)
(* backups.prune and backups.delete.                                       *)
(***************************************************************************)

\* Faulty variant: snapshots of every kind count.
OldOfAnyKind(n) == {i \in Listed(n) : Cardinality({j \in Listed(n) : j > i}) >= Keep}
Old(n) == {i \in Autos(n) : Cardinality({j \in Autos(n) : j > i}) >= Keep}

\* The scheduler goes on with the name the configuration has by now.
PruneBegins ==
  LET work == workers["scheduler"] IN
  /\ LoopFree /\ work.pc = "ready"
  /\ Becomes("scheduler",
       IF Old(config) = {} THEN Idle
       ELSE [Idle EXCEPT !.pc = "purge", !.job = "prune", !.keys = Old(config)])
  /\ UNCHANGED <<disk, config, process, saves, history>>

\* What the snapshot holds is given up.
Delete(i) ==
  /\ LoopFree /\ i \in Listed(config)
  /\ Becomes("loop", [Idle EXCEPT !.pc = "purge", !.job = "delete", !.keys = {i}])
  /\ byHand' = byHand \cup {i}
  /\ owed' = {o \in owed : o[1] # config \/ snaps[i].payload # Save(o[2])}
  /\ UNCHANGED <<disk, config, process, saves, torn, mixed, cut>>

\* rmtree, of one snapshot after the other: its files and its manifest in any
\* order.
Purges(w) ==
  LET work == workers[w] IN
  /\ work.pc = "purge"
  /\ \E i \in work.keys :
       LET left == [snaps[i] EXCEPT !.listed = FALSE]
           emptied == Present(snaps[i].payload) = {} /\ ~snaps[i].listed
       IN
       /\ \A j \in work.keys : j <= i
       /\ \/ /\ emptied
             /\ Becomes(w, IF work.keys = {i} THEN Idle ELSE [work EXCEPT !.keys = @ \ {i}])
             /\ UNCHANGED <<snaps, cut>>
          \/ /\ snaps[i].listed /\ snaps' = [snaps EXCEPT ![i] = left]
             /\ cut' = cut \cup {i} /\ UNCHANGED workers
          \/ /\ \E f \in Present(snaps[i].payload) : snaps' = [snaps EXCEPT ![i].payload[f] = 0]
             /\ cut' = cut \cup {i} /\ UNCHANGED workers
  /\ UNCHANGED <<world, made, config, process, saves, owed, torn, mixed, byHand>>

-----------------------------------------------------------------------------
(***************************************************************************)
(* backups.restore, on the event loop, and install_world, in a thread: a   *)
(* snapshot of what is there, its removal, the copy.                       *)
(***************************************************************************)
Restore(i) ==
  LET work == [Idle EXCEPT !.job = "restore", !.name = config, !.keys = {i},
                           !.asked = snaps[i].payload]
  IN
  /\ LoopFree /\ server = "off" /\ i \in Listed(config)
  /\ IF world[config] # Nothing
       THEN SnapshotBegins("loop", work, "manual")
       ELSE Becomes("loop", [work EXCEPT !.pc = "replace"])
            /\ Mixes(Overlaps("loop", work), config)
            /\ UNCHANGED <<disk, config, process, owed, torn, cut, byHand>>
  /\ UNCHANGED saves

\* What an upload unpacks to, in a directory of its own: a world that is whole.
Unpacked == Save(saves + 1)

\* install_world, of a world that is called n or is to be called n.
Import(u, n, confirm) ==
  LET work == [Idle EXCEPT !.job = "import", !.name = config, !.source = Unpacked] IN
  /\ workers[u].pc = "idle" /\ server = "off" /\ saves < MaxSaves
  /\ saves' = saves + 1
  /\ IF world[config] # Nothing
       THEN confirm /\ SnapshotBegins(u, work, "pre-import")
       ELSE /\ world[n] = Nothing \/ confirm
            /\ Becomes(u, [work EXCEPT !.pc = "replace", !.name = n])
            /\ Mixes(Overlaps(u, [work EXCEPT !.name = n]), n)
            /\ UNCHANGED <<disk, config, process, owed, torn, cut, byHand>>

\* worlds.remove_world begins.  An import that replaces the instance's world
\* reads its name again.
Replaces(w) ==
  LET work == workers[w]
      n == IF work.job = "import" /\ work.snap # 0 THEN config ELSE work.name
  IN
  /\ work.pc = "replace"
  /\ Becomes(w, [work EXCEPT !.pc = "remove", !.name = n, !.todo = Present(world[n])])
  /\ Mixes(Replacing(w) # {} \/ n # work.name, n)
  /\ owed' = owed \cup {o \in {config} \X Numbers :
                           o[1] = n /\ world[n] = Save(o[2]) /\ work.snap \notin byHand}
  /\ UNCHANGED <<disk, config, process, saves, torn, cut, byHand>>

Removes(w, f) ==
  LET work == workers[w] IN
  /\ work.pc = "remove" /\ f \in work.todo
  /\ world' = [world EXCEPT ![work.name][f] = 0]
  /\ Becomes(w, [work EXCEPT !.todo = @ \ {f}])
  /\ UNCHANGED <<snaps, made, config, process, saves, history>>

\* Faulty variant: the newest there is by now.
SourcesNewest(work) ==
  LET candidates == {i \in Listed(work.name) : work.keys # {}} IN
  IF candidates = {} THEN {work.source}
  ELSE {snaps[CHOOSE i \in candidates : \A j \in candidates : j <= i].payload}

\* A restore of one of Valheim's own pairs copies the first .db it finds beside
\* the worlds, whichever that is.
AnyPair(work) == Pairs /\ \E i \in work.keys : snaps[i].kind = "valheim"

\* A restore copies what is left of the snapshot by now.
Sources(work) ==
  IF AnyPair(work)
    THEN {snaps[i].payload : i \in {j \in Ids : snaps[j].kind = "valheim" /\ snaps[j].listed}}
         \cup {world[m] : m \in Names \ {work.name}}
    ELSE IF work.keys = {} THEN {work.source}
    ELSE {snaps[i].payload : i \in work.keys}

\* What is left is removed again, and the copy begins, if there is anything to copy.
PlaceBegins(w) ==
  LET work == workers[w] IN
  /\ work.pc = "remove" /\ work.todo = {}
  /\ \E source \in Sources(work) :
       /\ world' = [world EXCEPT ![work.name] = Nothing]
       /\ Becomes(w, IF source = Nothing THEN Idle
                     ELSE [work EXCEPT !.pc = "place", !.source = source, !.todo = Present(source)])
       /\ torn' = IF Whole(source) THEN torn ELSE torn \cup {work.name}
  /\ UNCHANGED <<snaps, made, config, process, saves, owed, mixed, cut, byHand>>

\* What the copy finds of a file when it comes to it: a prune may have removed
\* it, a stray may have written it.
Finds(work, f) ==
  IF AnyPair(work) THEN {work.source[f]} \cup {world[s.name][f] : s \in strays}
  ELSE IF \E i \in work.keys : snaps[i].payload[f] = 0 THEN {0}
  ELSE {work.source[f]}

\* Of a pair, a .fwl that is not there is passed over.
Places(w, f) ==
  LET work == workers[w] IN
  /\ work.pc = "place" /\ f \in work.todo
  /\ \E found \in Finds(work, f) :
       /\ world' = [world EXCEPT ![work.name][f] = found]
       /\ torn' = IF found = work.source[f] THEN torn ELSE torn \cup {work.name}
  /\ Becomes(w, [work EXCEPT !.todo = @ \ {f}, !.pc = IF work.todo = {f} THEN "placed" ELSE "place"])
  /\ UNCHANGED <<snaps, made, config, process, saves, owed, mixed, cut, byHand>>

\* The disk is full, a file is gone, or one could not be removed; or what is left
\* of the snapshot is not taken for a world.
PlaceFails(w) ==
  LET work == workers[w] IN
  /\ work.pc \in {"remove", "place"}
  /\ Done(w)
  /\ torn' = torn \cup {work.name}
  /\ UNCHANGED <<disk, config, process, saves, owed, mixed, cut, byHand>>

Restored ==
  /\ workers["loop"].pc = "placed"
  /\ Done("loop")
  /\ UNCHANGED <<disk, config, process, saves, history>>

\* Where there was no world the instance takes the name of the upload, unless
\* it was told not to.
Imported(u) ==
  LET work == workers[u] IN
  /\ work.pc = "placed"
  /\ Done(u)
  /\ config' \in IF work.snap = 0 THEN {config, work.name} ELSE {config}
  /\ UNCHANGED <<disk, process, saves, history>>

-----------------------------------------------------------------------------
(***************************************************************************)
(* The server, its operator, and the end of the manager.                   *)
(***************************************************************************)
Importing == \E u \in Uploads : workers[u].pc # "idle"

Edit(n) ==
  /\ LoopFree /\ n # config
  /\ config' = n
  /\ Mixes(Importing, n)
  /\ UNCHANGED <<disk, process, saves, workers, owed, torn, cut, byHand>>

Submit ==
  /\ LoopFree /\ server = "off"
  /\ server' = "pending"
  /\ UNCHANGED <<disk, config, loaded, number, writing, strays, saves, workers, history>>

\* It may come up while an import that found it stopped is still at work.
Launch ==
  /\ LoopFree /\ server = "pending"
  /\ server' = "on" /\ loaded' = config
  /\ Mixes(Importing \/ Haunted(config), config)
  /\ UNCHANGED <<disk, config, number, writing, strays, saves, workers, owed, torn, cut, byHand>>

\* A save, file by file; until the first one is done, a new world is not
\* complete.
Disorders(n) == torn' = IF Present(world[n]) = Files THEN torn ELSE torn \cup {n}

SaveBegins ==
  /\ server = "on" /\ writing = {} /\ saves < MaxSaves
  /\ saves' = saves + 1 /\ number' = saves + 1
  /\ writing' = Files
  /\ Disorders(loaded)
  /\ UNCHANGED <<disk, config, server, loaded, strays, workers, owed, mixed, cut, byHand>>

Writes(f) ==
  /\ f \in writing
  /\ writing' = writing \ {f}
  /\ world' = [world EXCEPT ![loaded][f] = number]
  /\ UNCHANGED <<snaps, made, config, server, loaded, number, strays, saves, workers, history>>

\* Valheim makes a backup of its own.
Rotates ==
  /\ made < MaxSnaps
  /\ \E n \in Names :
       /\ \/ server = "on" /\ writing = {} /\ n = loaded
          \/ \E s \in strays : s.writing = {} /\ n = s.name
       /\ Whole(world[n])
       /\ snaps' = [snaps EXCEPT ![made + 1] =
            [kind |-> "valheim", name |-> n, payload |-> world[n], listed |-> TRUE]]
  /\ made' = made + 1
  /\ UNCHANGED <<world, config, process, saves, workers, history>>

Stops ==
  /\ LoopFree /\ server # "off" /\ writing = {}
  /\ server' = "off"
  /\ UNCHANGED <<disk, config, loaded, number, writing, strays, saves, workers, history>>

Dies ==
  /\ server = "on"
  /\ server' = "off" /\ writing' = {}
  /\ torn' = IF writing = {} THEN torn ELSE torn \cup {loaded}
  /\ UNCHANGED <<disk, config, loaded, number, strays, saves, workers, owed, mixed, cut, byHand>>

\* The manager is killed; the server goes with it, or goes on.
Kill ==
  /\ server' = "off" /\ writing' = {}
  /\ workers' = [w \in Worker |-> Idle]
  /\ snaps' = Unread(Worker)
  /\ LET broken == {n \in Names : Changing(n) # {}} IN
     \/ /\ torn' = torn \cup broken \cup {n \in {loaded} : writing # {}}
        /\ UNCHANGED strays
     \/ /\ server = "on"
        /\ strays' = strays \cup {[name |-> loaded, number |-> number, writing |-> writing]}
        /\ torn' = torn \cup broken
  /\ UNCHANGED <<world, made, config, loaded, number, saves, owed, mixed, cut, byHand>>

\* What a stray does is what it did as the manager's server.
Wanders(s, t) == strays' = (strays \ {s}) \cup {t}

StraySaves(s) ==
  /\ s.writing = {} /\ saves < MaxSaves
  /\ saves' = saves + 1
  /\ Wanders(s, [s EXCEPT !.number = saves + 1, !.writing = Files])
  /\ Disorders(s.name)
  /\ UNCHANGED <<disk, config, server, loaded, number, writing, workers, owed, mixed, cut, byHand>>

StrayWrites(s, f) ==
  /\ f \in s.writing
  /\ Wanders(s, [s EXCEPT !.writing = @ \ {f}])
  /\ world' = [world EXCEPT ![s.name][f] = s.number]
  /\ UNCHANGED <<snaps, made, config, server, loaded, number, writing, saves, workers, history>>

StrayDies(s) ==
  /\ strays' = strays \ {s}
  /\ torn' = IF s.writing = {} THEN torn ELSE torn \cup {s.name}
  /\ UNCHANGED <<disk, config, server, loaded, number, writing, saves, workers, owed, mixed, cut, byHand>>

-----------------------------------------------------------------------------
Snapshots(w) ==
  \/ \E f \in Files : Copies(w, f)
  \/ CopyFails(w) \/ Lists(w) \/ ListFails(w)

Changes(w) ==
  \/ Replaces(w) \/ PlaceBegins(w) \/ PlaceFails(w)
  \/ \E f \in Files : Removes(w, f) \/ Places(w, f)

Next ==
  \/ SnapshotByHand \/ AutoSnapshot \/ PruneBegins
  \/ \E i \in Ids : Delete(i) \/ Restore(i)
  \/ \E u \in Uploads, n \in Names, confirm \in BOOLEAN : Import(u, n, confirm)
  \/ \E w \in Worker : Snapshots(w) \/ Purges(w) \/ Changes(w)
  \/ Restored \/ \E u \in Uploads : Imported(u)
  \/ \E n \in Names : Edit(n)
  \/ Submit \/ Launch \/ SaveBegins \/ Rotates \/ Stops \/ Dies \/ Kill
  \/ \E f \in Files : Writes(f)
  \/ \E s \in strays : StraySaves(s) \/ StrayDies(s) \/ \E f \in Files : StrayWrites(s, f)

Spec == Init /\ [][Next]_vars

-----------------------------------------------------------------------------
(***************************************************************************)
(* Properties                                                              *)
(***************************************************************************)

\* "A rollback that cannot be undone is a trap", and "replacing it destroys
\* hours of play": wherever a restore or an import of the instance's world is
\* broken off, and whatever the schedule prunes, the whole world it replaced is
\* in its place or in a snapshot that is listed, until somebody deletes that.
\* Not if two replace it at once, a server was started or the name edited
\* while an import was at work, or a server has the world that outlived an
\* earlier manager: nothing looks for one.
WayBack ==
  \A o \in owed :
    \/ o[1] \in mixed
    \/ world[o[1]] = Save(o[2])
    \/ \E i \in Listed(o[1]) : snaps[i].payload = Save(o[2])

\* "Written once it finished": a snapshot that is offered has been copied to
\* the last file, whenever the manager was killed, unless its removal was
\* broken off, or the world was in disorder itself.
ListedIsComplete ==
  \A i \in Ids :
    snaps[i].listed /\ i \notin cut /\ snaps[i].name \notin torn \cup mixed
      => Present(snaps[i].payload) = Files

\* "An automatic schedule must never delete a snapshot someone took by hand",
\* nor its own newest: what it removes is automatic and has Keep newer ones
\* beside it, which only a hand can take away.
PruneSpares ==
  \A i \in cut \ byHand :
    /\ snaps[i].kind = "auto"
    /\ byHand = {} => Cardinality({j \in Autos(snaps[i].name) : j > i}) >= Keep

\* A restore that says so has put what was asked for in place, whatever else
\* was under way; of a snapshot that was pruned meanwhile, no more than a part.
\* Not for Valheim's own pairs, where it takes any, and not beside an import
\* into the same world or under a server that outlived its manager.
RestoredAsAsked ==
  [][Restored => LET work == workers["loop"] IN
       \/ work.name \in mixed \/ AnyPair(work)
       \/ \A f \in Files :
            \/ world[work.name][f] = work.asked[f]
            \/ world[work.name][f] = 0 /\ work.keys \subseteq cut]_vars

\* No server is ever started on a world that is half removed or half copied,
\* although neither the restore nor the start looks at the other.  The
\* exceptions: an import is at work, or another server that outlived the
\* manager; something was broken off before; what was restored was not whole,
\* or was being pruned.
LoadsWhole ==
  [][Launch => \/ config \in torn \cup mixed'
               \/ world[config] = Nothing
               \/ Whole(world[config])]_vars
=============================================================================
