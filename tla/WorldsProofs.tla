---------------------------- MODULE WorldsProofs ----------------------------
(***************************************************************************)
(* What is proved of module Worlds, for any names, files, uploads and      *)
(* bounds.                                                                 *)
(***************************************************************************)
EXTENDS Worlds, FiniteSetTheorems, TLAPS

LEMMA Constants ==
  /\ MaxSaves \in Nat \ {0} /\ MaxSnaps \in Nat
  /\ First \in Names /\ Files # {} /\ Pairs \in BOOLEAN
  /\ "loop" \notin Uploads /\ "scheduler" \notin Uploads
BY FirstAssumption, FilesAssumption, PairsAssumption, BoundsAssumption, WorkersAssumption

LEMMA Contents ==
  /\ Nothing \in Content
  /\ \A s \in Numbers : Save(s) \in Content /\ Save(s) # Nothing /\ s # 0 /\ s \in Nat
  /\ \A c \in Content : Whole(c) => Present(c) = Files /\ c # Nothing
BY Constants DEF Nothing, Content, Save, Whole, Present, Numbers

LEMMA IdleType == Idle \in Work /\ NoSnap \in Snap
BY Contents, Constants DEF Idle, Work, NoSnap, Snap, Ids

LEMMA CopyType ==
  \A work \in Work, i \in 0..MaxSnaps, todo \in SUBSET Files :
    [work EXCEPT !.pc = "copy", !.snap = i, !.todo = todo] \in Work
BY DEF Work

LEMMA RemoveType ==
  \A work \in Work, n \in Names, todo \in SUBSET Files :
    [work EXCEPT !.pc = "remove", !.name = n, !.todo = todo] \in Work
BY DEF Work

LEMMA PlaceType ==
  \A work \in Work, source \in Content, todo \in SUBSET Files :
    [work EXCEPT !.pc = "place", !.source = source, !.todo = todo] \in Work
BY DEF Work

\* The next file, and what follows the last one.
LEMMA TodoType ==
  \A work \in Work, f \in Files, this \in {"copy", "place"}, next \in {"list", "placed"} :
    [work EXCEPT !.todo = @ \ {f}, !.pc = IF work.todo = {f} THEN next ELSE this] \in Work
<1> TAKE work \in Work, f \in Files, this \in {"copy", "place"}, next \in {"list", "placed"}
<1> DEFINE pc == IF work.todo = {f} THEN next ELSE this
<1>1. pc \in {"copy", "list", "place", "placed"}
  OBVIOUS
<1> HIDE DEF pc
<1>2. [work EXCEPT !.todo = @ \ {f}, !.pc = pc] \in Work
  BY <1>1 DEF Work
<1> QED BY <1>2 DEF pc

-----------------------------------------------------------------------------
(***************************************************************************)
(* Types                                                                   *)
(***************************************************************************)
LEMMA InitType == Init => TypeOK
BY Contents, IdleType, Constants DEF Init, TypeOK, Ids, Numbers, Snap

\* What the beginning of a snapshot does to the types.
LEMMA SnapshotType ==
  ASSUME TypeOK, NEW w \in Worker, NEW work \in Work, NEW kind \in Kinds,
         SnapshotBegins(w, work, kind)
  PROVE  /\ snaps' \in [Ids -> Snap] /\ made' \in 0..MaxSnaps
         /\ workers' \in [Worker -> Work] /\ mixed' \subseteq Names
         /\ UNCHANGED <<world, config, process, owed, torn, cut, byHand>>
<1>1. work.name \in Names /\ made + 1 \in Ids /\ made + 1 \in 0..MaxSnaps
  BY Constants DEF SnapshotBegins, TypeOK, Work, Ids
<1>2. [NoSnap EXCEPT !.kind = kind, !.name = work.name] \in Snap
  BY <1>1, Contents DEF NoSnap, Snap
<1>3. [work EXCEPT !.pc = "copy", !.snap = made + 1, !.todo = Present(world[work.name])] \in Work
  <2>1. Present(world[work.name]) \in SUBSET Files
    BY DEF Present
  <2> QED BY <1>1, <2>1, CopyType, Zenon
<1> QED BY <1>1, <1>2, <1>3 DEF SnapshotBegins, TypeOK, Becomes, Mixes

LEMMA UnreadType == TypeOK => \A ws : Unread(ws) \in [Ids -> Snap]
BY IdleType DEF TypeOK, Unread

\* A server that outlived the manager takes a step.
StrayStep ==
  \E s \in strays : StraySaves(s) \/ StrayDies(s) \/ \E f \in Files : StrayWrites(s, f)

LEMMA TypeStep == TypeOK /\ [Next]_vars => TypeOK'
<1> SUFFICES ASSUME TypeOK, [Next]_vars PROVE TypeOK'
  OBVIOUS
<1> USE Constants
<1> DEFINE Rest == <<world, config, process, saves, history>>
<1>0. ASSUME NEW w \in Worker, NEW work \in Work, Becomes(w, work)
      PROVE  workers' \in [Worker -> Work]
  BY <1>0 DEF Becomes, TypeOK
<1>a. \A w \in Worker : workers[w] \in Work
  BY DEF TypeOK
<1>b. {"loop", "scheduler"} \cup Uploads = Worker
  BY DEF Worker
<1>1. CASE SnapshotByHand
  <2> DEFINE work == [Idle EXCEPT !.job = "snapshot", !.name = config]
  <2>1. work \in Work
    BY IdleType DEF Work, Idle, TypeOK
  <2> HIDE DEF work
  <2>2. SnapshotBegins("loop", work, "manual") /\ UNCHANGED saves
    BY <1>1 DEF SnapshotByHand, work
  <2> QED BY <2>1, <2>2, <1>b, SnapshotType DEF TypeOK, Kinds, process
<1>2. CASE AutoSnapshot
  <2> DEFINE work == [Idle EXCEPT !.job = "auto", !.name = config]
  <2>1. work \in Work
    BY IdleType DEF Work, Idle, TypeOK
  <2> HIDE DEF work
  <2>2. SnapshotBegins("scheduler", work, "auto") /\ UNCHANGED saves
    BY <1>2 DEF AutoSnapshot, work
  <2> QED BY <2>1, <2>2, <1>b, SnapshotType DEF TypeOK, Kinds, process
<1>3. CASE PruneBegins
  <2>1. Old(config) \subseteq Ids
    BY DEF Old, Autos, Listed
  <2>2. Idle \in Work /\ [Idle EXCEPT !.pc = "purge", !.job = "prune", !.keys = Old(config)] \in Work
    BY <2>1, IdleType DEF Work, Idle
  <2> QED BY <1>3, <1>b, <2>2 DEF PruneBegins, TypeOK, Becomes, disk, process, history
<1>4. ASSUME NEW i \in Ids, Delete(i) PROVE TypeOK'
  <2>1. [Idle EXCEPT !.pc = "purge", !.job = "delete", !.keys = {i}] \in Work
    BY IdleType DEF Work, Idle
  <2> QED BY <1>4, <1>b, <2>1 DEF Delete, TypeOK, Becomes, disk, process
<1>5. ASSUME NEW i \in Ids, Restore(i) PROVE TypeOK'
  <2> DEFINE work == [Idle EXCEPT !.job = "restore", !.name = config, !.keys = {i},
                                  !.asked = snaps[i].payload]
  <2>1. work \in Work /\ [work EXCEPT !.pc = "replace"] \in Work
    BY IdleType DEF Work, Idle, TypeOK, Snap
  <2> HIDE DEF work
  <2>2. CASE SnapshotBegins("loop", work, "manual") /\ UNCHANGED saves
    BY <2>1, <2>2, <1>b, SnapshotType DEF TypeOK, Kinds, process
  <2>3. CASE /\ Becomes("loop", [work EXCEPT !.pc = "replace"])
             /\ Mixes(Overlaps("loop", work), config)
             /\ UNCHANGED <<disk, config, process, owed, torn, cut, byHand, saves>>
    BY <2>1, <2>3, <1>b DEF TypeOK, Becomes, Mixes, disk, process
  <2> QED BY <1>5, <2>2, <2>3 DEF Restore, work
<1>6. ASSUME NEW u \in Uploads, NEW n \in Names, NEW confirm \in BOOLEAN, Import(u, n, confirm)
      PROVE  TypeOK'
  <2> DEFINE work == [Idle EXCEPT !.job = "import", !.name = config, !.source = Unpacked]
  <2>1. saves + 1 \in Numbers /\ saves' = saves + 1 /\ saves' \in 1..MaxSaves
    BY <1>6 DEF Import, TypeOK, Numbers
  <2>2. work \in Work /\ [work EXCEPT !.pc = "replace", !.name = n] \in Work
    BY <2>1, Contents, IdleType DEF Work, Idle, TypeOK, Unpacked
  <2> HIDE DEF work
  <2>3. CASE SnapshotBegins(u, work, "pre-import")
    BY <2>1, <2>2, <2>3, <1>b, SnapshotType DEF TypeOK, Kinds, process
  <2>4. CASE /\ Becomes(u, [work EXCEPT !.pc = "replace", !.name = n])
             /\ Mixes(Overlaps(u, [work EXCEPT !.name = n]), n)
             /\ UNCHANGED <<disk, config, process, owed, torn, cut, byHand>>
    BY <2>1, <2>2, <2>4, <1>b DEF TypeOK, Becomes, Mixes, disk, process
  <2> QED BY <1>6, <2>3, <2>4 DEF Import, work
<1>7. ASSUME NEW w \in Worker, Snapshots(w) PROVE TypeOK'
  <2>1. ASSUME NEW f \in Files, Copies(w, f) PROVE TypeOK'
    <3> DEFINE work == workers[w]
    <3>1. [work EXCEPT !.todo = @ \ {f}, !.pc = IF work.todo = {f} THEN "list" ELSE "copy"] \in Work
      BY <1>a, TodoType, Zenon
    <3>2. \A i \in Ids : [snaps[i] EXCEPT !.payload[f] = world[work.name][f]] \in Snap
      <4>1. world[work.name][f] \in {0} \cup Numbers
        BY <1>a DEF TypeOK, Content, Work
      <4>2. \A c \in Content : [c EXCEPT ![f] = world[work.name][f]] \in Content
        BY <4>1 DEF Content
      <4> HIDE DEF work
      <4> QED BY <4>2 DEF TypeOK, Snap
    <3>3. snaps' \in [Ids -> Snap]
      BY <2>1, <3>2 DEF Copies, TypeOK
    <3> HIDE DEF work
    <3> QED BY <2>1, <3>1, <3>3 DEF Copies, TypeOK, Becomes, process, history, work
  <2>2. ASSUME CopyFails(w) \/ ListFails(w) PROVE TypeOK'
    BY <2>2, UnreadType, IdleType DEF CopyFails, ListFails, TypeOK, Done, Becomes, process, history
  <2>3. ASSUME Lists(w) PROVE TypeOK'
    <3>1. [workers[w] EXCEPT !.pc = "ready"] \in Work /\ [workers[w] EXCEPT !.pc = "replace"] \in Work
      BY <1>a DEF Work
    <3>2. workers' \in [Worker -> Work]
      BY <2>3, <3>1, IdleType DEF Lists, Becomes, TypeOK
    <3>3. \A i \in Ids : [snaps[i] EXCEPT !.listed = TRUE] \in Snap
      BY DEF TypeOK, Snap
    <3>4. snaps' \in [Ids -> Snap]
      BY <2>3, <3>3 DEF Lists, TypeOK
    <3> QED BY <2>3, <3>2, <3>4 DEF Lists, TypeOK, process, history
  <2> QED BY <1>7, <2>1, <2>2, <2>3 DEF Snapshots
<1>8. ASSUME NEW w \in Worker, Purges(w) PROVE TypeOK'
  <2>1. PICK i \in workers[w].keys :
          \/ /\ Becomes(w, IF workers[w].keys = {i} THEN Idle ELSE [workers[w] EXCEPT !.keys = @ \ {i}])
             /\ UNCHANGED <<snaps, cut>>
          \/ /\ snaps' = [snaps EXCEPT ![i] = [snaps[i] EXCEPT !.listed = FALSE]]
             /\ cut' = cut \cup {i} /\ UNCHANGED workers
          \/ /\ \E f \in Present(snaps[i].payload) : snaps' = [snaps EXCEPT ![i].payload[f] = 0]
             /\ cut' = cut \cup {i} /\ UNCHANGED workers
    BY <1>8 DEF Purges
  <2>2. i \in Ids
    BY <1>a DEF Work
  <2>3. [workers[w] EXCEPT !.keys = @ \ {i}] \in Work
    BY <1>a DEF Work
  <2>4. [snaps[i] EXCEPT !.listed = FALSE] \in Snap
    BY <2>2 DEF TypeOK, Snap
  <2>5. \A f \in Present(snaps[i].payload) : [snaps[i] EXCEPT !.payload[f] = 0] \in Snap
    BY <2>2 DEF TypeOK, Snap, Content
  <2>6. workers' \in [Worker -> Work] /\ snaps' \in [Ids -> Snap] /\ cut' \subseteq Ids
    BY <2>1, <2>2, <2>3, <2>4, <2>5, IdleType DEF TypeOK, Becomes
  <2> QED BY <1>8, <2>6 DEF Purges, TypeOK, process
<1>9. ASSUME NEW w \in Worker, Changes(w) PROVE TypeOK'
  <2>1. CASE Replaces(w)
    <3> DEFINE n == IF workers[w].job = "import" /\ workers[w].snap # 0 THEN config ELSE workers[w].name
    <3>1. n \in Names
      BY <1>a DEF TypeOK, Work
    <3>2. [workers[w] EXCEPT !.pc = "remove", !.name = n, !.todo = Present(world[n])] \in Work
      <4>1. Present(world[n]) \in SUBSET Files
        BY DEF Present
      <4> QED BY <1>a, <3>1, <4>1, RemoveType, Zenon
    <3>3. owed' \subseteq Names \X Numbers
      BY <2>1 DEF Replaces, TypeOK
    <3> HIDE DEF n
    <3> QED BY <2>1, <3>1, <3>2, <3>3 DEF Replaces, TypeOK, Becomes, Mixes, disk, process, n
  <2>2. CASE PlaceBegins(w)
    <3>1. Sources(workers[w]) \subseteq Content
      BY <1>a DEF Sources, AnyPair, TypeOK, Snap, Work
    <3>2. \A source \in Content :
            [workers[w] EXCEPT !.pc = "place", !.source = source, !.todo = Present(source)] \in Work
      <4>1. \A source \in Content : Present(source) \in SUBSET Files
        BY DEF Present
      <4> QED BY <1>a, <4>1, PlaceType, Zenon
    <3>3. workers[w].name \in Names
      BY <1>a DEF Work
    <3>4. workers' \in [Worker -> Work]
      <4>1. PICK source \in Sources(workers[w]) :
              Becomes(w, IF source = Nothing THEN Idle
                ELSE [workers[w] EXCEPT !.pc = "place", !.source = source, !.todo = Present(source)])
        BY <2>2, Zenon DEF PlaceBegins
      <4>2. [workers[w] EXCEPT !.pc = "place", !.source = source, !.todo = Present(source)] \in Work
        BY <3>1, <3>2, Zenon
      <4>3. \/ Becomes(w, Idle)
            \/ Becomes(w, [workers[w] EXCEPT !.pc = "place", !.source = source, !.todo = Present(source)])
        BY <4>1
      <4> QED BY <4>2, <4>3, <1>0, IdleType, Zenon
    <3> QED BY <2>2, <3>3, <3>4, Contents DEF PlaceBegins, TypeOK, process
  <2>3. CASE PlaceFails(w)
    <3>3. workers[w].name \in Names
      BY <1>a DEF Work
    <3> QED BY <2>3, <3>3, IdleType DEF PlaceFails, TypeOK, Done, Becomes, disk, process
  <2>4. ASSUME NEW f \in Files, Removes(w, f) PROVE TypeOK'
    <3>1. [workers[w] EXCEPT !.todo = @ \ {f}] \in Work /\ workers[w].name \in Names
      BY <1>a DEF Work
    <3>2. world' \in [Names -> Content]
      BY <2>4, <3>1 DEF Removes, TypeOK, Content
    <3> QED BY <2>4, <3>1, <3>2 DEF Removes, TypeOK, Becomes, process, history
  <2>5. ASSUME NEW f \in Files, Places(w, f) PROVE TypeOK'
    <3> DEFINE work == workers[w]
    <3>1. [work EXCEPT !.todo = @ \ {f}, !.pc = IF work.todo = {f} THEN "placed" ELSE "place"] \in Work
      BY <1>a, TodoType, Zenon
    <3>2. Finds(work, f) \subseteq {0} \cup Numbers
      <4>1. \A t \in strays : world[t.name] \in Content
        BY DEF TypeOK, Stray
      <4>2. work.source \in Content
        BY <1>a DEF Work
      <4> QED BY <4>1, <4>2 DEF Finds, Content
    <3>3. work.name \in Names
      BY <1>a DEF Work
    <3>4. PICK found \in {0} \cup Numbers :
            /\ world' = [world EXCEPT ![work.name][f] = found]
            /\ torn' = IF found = work.source[f] THEN torn ELSE torn \cup {work.name}
      BY <2>5, <3>2 DEF Places
    <3>5. world' \in [Names -> Content] /\ torn' \subseteq Names
      BY <3>3, <3>4 DEF TypeOK, Content
    <3>6. Becomes(w, [work EXCEPT !.todo = @ \ {f}, !.pc = IF work.todo = {f} THEN "placed" ELSE "place"])
      BY <2>5 DEF Places
    <3> HIDE DEF work
    <3>7. workers' \in [Worker -> Work]
      BY <3>1, <3>6, <1>0
    <3> QED BY <2>5, <3>5, <3>7 DEF Places, TypeOK, process
  <2> QED BY <1>9, <2>1, <2>2, <2>3, <2>4, <2>5 DEF Changes
<1>10. CASE Restored
  BY <1>10, <1>b, IdleType DEF Restored, TypeOK, Done, Becomes, disk, process, history
<1>11. ASSUME NEW u \in Uploads, Imported(u) PROVE TypeOK'
  <2>1. workers[u].name \in Names
    BY <1>a, <1>b DEF Work
  <2> QED BY <1>11, <1>b, <2>1, IdleType DEF Imported, TypeOK, Done, Becomes, disk, process, history
<1>12. ASSUME NEW n \in Names, Edit(n) PROVE TypeOK'
  BY <1>12 DEF Edit, TypeOK, Mixes, disk, process
<1>13. CASE Submit \/ Launch \/ Stops
  BY <1>13 DEF Submit, Launch, Stops, TypeOK, Mixes, disk, history
<1>14. CASE SaveBegins
  BY <1>14 DEF SaveBegins, Disorders, TypeOK, Numbers, disk
<1>15. CASE Rotates
  <2>1. \A n \in Names :
          [kind |-> "valheim", name |-> n, payload |-> world[n], listed |-> TRUE] \in Snap
    BY DEF TypeOK, Snap, Kinds
  <2>2. snaps' \in [Ids -> Snap]
    BY <1>15, <2>1 DEF Rotates, TypeOK
  <2> QED BY <1>15, <2>2 DEF Rotates, TypeOK, Ids, process, history
<1>16. CASE Dies
  BY <1>16 DEF Dies, TypeOK, disk
<1>17. CASE Kill
  <2>1. [name |-> loaded, number |-> number, writing |-> writing] \in Stray
    BY DEF TypeOK, Stray
  <2>2. strays' \subseteq Stray /\ torn' \subseteq Names
    BY <1>17, <2>1 DEF Kill, TypeOK
  <2>3. snaps' \in [Ids -> Snap] /\ workers' \in [Worker -> Work]
    BY <1>17, UnreadType, IdleType DEF Kill
  <2> QED BY <1>17, <2>2, <2>3 DEF Kill, TypeOK
<1>18. ASSUME NEW f \in Files, Writes(f) PROVE TypeOK'
  <2>1. world' \in [Names -> Content]
    BY <1>18 DEF Writes, TypeOK, Content
  <2> QED BY <1>18, <2>1 DEF Writes, TypeOK, history
<1>20. CASE StrayStep
  <2>1. PICK s \in strays : StraySaves(s) \/ StrayDies(s) \/ \E f \in Files : StrayWrites(s, f)
    BY <1>20 DEF StrayStep
  <2>2. s \in Stray /\ s.name \in Names /\ s.number \in Numbers /\ s.writing \subseteq Files
    BY DEF TypeOK, Stray
  <2>3. CASE StraySaves(s)
    <3>1. saves + 1 \in Numbers /\ saves' \in 1..MaxSaves
      BY <2>3 DEF StraySaves, TypeOK, Numbers
    <3>2. [s EXCEPT !.number = saves + 1, !.writing = Files] \in Stray
      BY <2>2, <3>1 DEF Stray
    <3>3. strays' \subseteq Stray /\ torn' \subseteq Names
      BY <2>2, <2>3, <3>2 DEF StraySaves, Wanders, Disorders, TypeOK
    <3> QED BY <2>3, <3>1, <3>3 DEF StraySaves, TypeOK, disk
  <2>4. CASE StrayDies(s)
    BY <2>2, <2>4 DEF StrayDies, TypeOK, disk
  <2>5. ASSUME NEW f \in Files, StrayWrites(s, f) PROVE TypeOK'
    <3>1. [s EXCEPT !.writing = @ \ {f}] \in Stray
      BY <2>2 DEF Stray
    <3>2. strays' \subseteq Stray
      BY <2>5, <3>1 DEF StrayWrites, Wanders, TypeOK
    <3>3. world' \in [Names -> Content]
      BY <2>2, <2>5 DEF StrayWrites, TypeOK, Content
    <3> QED BY <2>5, <3>2, <3>3 DEF StrayWrites, TypeOK, history
  <2> QED BY <2>1, <2>3, <2>4, <2>5
<1>19. CASE UNCHANGED vars
  BY <1>19 DEF vars, disk, process, history, TypeOK
<1> QED
  BY <1>1, <1>2, <1>3, <1>4, <1>5, <1>6, <1>7, <1>8, <1>9, <1>10, <1>11, <1>12, <1>13, <1>14,
     <1>15, <1>16, <1>17, <1>18, <1>19, <1>20 DEF Next, StrayStep

\* Every variable keeps its type.
THEOREM TypeCorrect == Spec => []TypeOK
<1>1. Init => TypeOK
  BY InitType
<1>2. TypeOK /\ [Next]_vars => TypeOK'
  BY TypeStep
<1> QED BY <1>1, <1>2, PTL DEF Spec

-----------------------------------------------------------------------------
(***************************************************************************)
(* The steps, the beginnings of snapshots, restores and imports brought to *)
(* one form                                                                *)
(***************************************************************************)

\* A snapshot begins, for its own sake or for a restore or an import.
Begun(w, work, kind) ==
  /\ workers[w].pc = "idle" /\ work.name = config
  /\ SnapshotBegins(w, work, kind)
  /\ \/ /\ w = "loop" /\ work.job = "snapshot" /\ kind = "manual" /\ work.keys = {}
        /\ saves' = saves
     \/ /\ w = "scheduler" /\ work.job = "auto" /\ kind = "auto" /\ work.keys = {}
        /\ saves' = saves
     \/ /\ w = "loop" /\ work.job = "restore" /\ kind = "manual" /\ server = "off"
        /\ saves' = saves
        /\ \E i \in Listed(config) : work.keys = {i} /\ work.asked = snaps[i].payload
     \/ /\ w \in Uploads /\ work.job = "import" /\ kind = "pre-import" /\ server = "off"
        /\ work.keys = {}

\* A restore or an import begins where there is no world.
Straight(w, work) ==
  /\ workers[w].pc = "idle" /\ server = "off" /\ world[config] = Nothing
  /\ Becomes(w, work)
  /\ work.pc = "replace" /\ work.snap = 0 /\ work.todo = {}
  /\ Mixes(Overlaps(w, work), work.name)
  /\ UNCHANGED <<disk, config, process, owed, torn, cut, byHand>>
  /\ \/ /\ w = "loop" /\ work.job = "restore" /\ work.name = config
        /\ saves' = saves
        /\ \E i \in Listed(config) : work.keys = {i} /\ work.asked = snaps[i].payload
     \/ w \in Uploads /\ work.job = "import" /\ work.keys = {}

LEMMA Steps ==
  ASSUME TypeOK, [Next]_vars
  PROVE  \/ \E w \in Worker, work \in Work, kind \in Kinds : Begun(w, work, kind)
         \/ \E w \in Worker, work \in Work : Straight(w, work)
         \/ PruneBegins
         \/ \E i \in Ids : Delete(i)
         \/ \E w \in Worker : Purges(w)
         \/ \E w \in Worker, f \in Files : Copies(w, f)
         \/ \E w \in Worker : CopyFails(w) \/ ListFails(w)
         \/ \E w \in Worker : Lists(w)
         \/ \E w \in Worker : Replaces(w)
         \/ \E w \in Worker, f \in Files : Removes(w, f)
         \/ \E w \in Worker : PlaceBegins(w)
         \/ \E w \in Worker, f \in Files : Places(w, f)
         \/ \E w \in Worker : PlaceFails(w)
         \/ Restored \/ \E u \in Uploads : Imported(u)
         \/ \E n \in Names : Edit(n)
         \/ Submit \/ Stops \/ Launch \/ SaveBegins \/ Rotates \/ Dies \/ Kill
         \/ \E f \in Files : Writes(f)
         \/ StrayStep
         \/ UNCHANGED vars
<1> USE Constants
<1>b. {"loop", "scheduler"} \cup Uploads = Worker
  BY DEF Worker
<1>1. CASE SnapshotByHand
  <2> DEFINE work == [Idle EXCEPT !.job = "snapshot", !.name = config]
  <2>1. work \in Work
    BY IdleType DEF Work, Idle, TypeOK
  <2>2. work.name = config /\ work.job = "snapshot" /\ work.keys = {}
    BY DEF Idle
  <2> HIDE DEF work
  <2>3. Begun("loop", work, "manual")
    BY <1>1, <2>2 DEF SnapshotByHand, LoopFree, Begun, work
  <2> QED BY <2>1, <2>3, <1>b DEF Kinds
<1>2. CASE AutoSnapshot
  <2> DEFINE work == [Idle EXCEPT !.job = "auto", !.name = config]
  <2>1. work \in Work
    BY IdleType DEF Work, Idle, TypeOK
  <2>2. work.name = config /\ work.job = "auto" /\ work.keys = {}
    BY DEF Idle
  <2> HIDE DEF work
  <2>3. Begun("scheduler", work, "auto")
    BY <1>2, <2>2 DEF AutoSnapshot, Begun, work
  <2> QED BY <2>1, <2>3, <1>b DEF Kinds
<1>3. ASSUME NEW i \in Ids, Restore(i)
      PROVE  \/ \E w \in Worker, work \in Work, kind \in Kinds : Begun(w, work, kind)
             \/ \E w \in Worker, work \in Work : Straight(w, work)
  <2> DEFINE work == [Idle EXCEPT !.job = "restore", !.name = config, !.keys = {i},
                                  !.asked = snaps[i].payload]
             straight == [work EXCEPT !.pc = "replace"]
  <2>1. work \in Work /\ straight \in Work
    BY IdleType DEF Work, Idle, TypeOK, Snap
  <2>2. /\ work.name = config /\ work.job = "restore" /\ work.keys = {i}
        /\ work.asked = snaps[i].payload
    BY DEF Idle
  <2>3. /\ straight.name = config /\ straight.job = "restore" /\ straight.keys = {i}
        /\ straight.asked = snaps[i].payload
        /\ straight.pc = "replace" /\ straight.snap = 0 /\ straight.todo = {}
    BY DEF Idle
  <2>4. LoopFree /\ server = "off" /\ i \in Listed(config) /\ saves' = saves
    BY <1>3 DEF Restore
  <2>5. \/ SnapshotBegins("loop", work, "manual")
        \/ /\ world[config] = Nothing /\ Becomes("loop", straight)
           /\ Mixes(Overlaps("loop", straight), config)
           /\ UNCHANGED <<disk, config, process, owed, torn, cut, byHand>>
    <3>1. Overlaps("loop", straight) = Overlaps("loop", work)
      BY IdleType DEF Overlaps, Idle
    <3> QED BY <1>3, <3>1 DEF Restore
  <2> HIDE DEF work, straight
  <2>6. CASE SnapshotBegins("loop", work, "manual")
    <3>1. Begun("loop", work, "manual")
      BY <2>6, <2>2, <2>4 DEF Begun, LoopFree
    <3> QED BY <3>1, <2>1, <1>b DEF Kinds
  <2>7. CASE /\ world[config] = Nothing /\ Becomes("loop", straight)
             /\ Mixes(Overlaps("loop", straight), config)
             /\ UNCHANGED <<disk, config, process, owed, torn, cut, byHand>>
    <3>1. Straight("loop", straight)
      BY <2>7, <2>3, <2>4 DEF Straight, LoopFree
    <3> QED BY <3>1, <2>1, <1>b
  <2> QED BY <2>5, <2>6, <2>7
<1>4. ASSUME NEW u \in Uploads, NEW n \in Names, NEW confirm \in BOOLEAN, Import(u, n, confirm)
      PROVE  \/ \E w \in Worker, work \in Work, kind \in Kinds : Begun(w, work, kind)
             \/ \E w \in Worker, work \in Work : Straight(w, work)
  <2> DEFINE work == [Idle EXCEPT !.job = "import", !.name = config, !.source = Unpacked]
             straight == [work EXCEPT !.pc = "replace", !.name = n]
  <2>0. saves + 1 \in Numbers
    BY <1>4 DEF Import, TypeOK, Numbers
  <2>1. work \in Work /\ straight \in Work
    BY <2>0, Contents, IdleType DEF Work, Idle, TypeOK, Unpacked
  <2>2. work.name = config /\ work.job = "import" /\ work.keys = {}
    BY DEF Idle
  <2>3. /\ straight.name = n /\ straight.job = "import" /\ straight.keys = {}
        /\ straight.pc = "replace" /\ straight.snap = 0 /\ straight.todo = {}
    BY DEF Idle
  <2>4. workers[u].pc = "idle" /\ server = "off"
    BY <1>4 DEF Import
  <2>5. \/ SnapshotBegins(u, work, "pre-import")
        \/ /\ world[config] = Nothing /\ Becomes(u, straight)
           /\ Mixes(Overlaps(u, straight), n)
           /\ UNCHANGED <<disk, config, process, owed, torn, cut, byHand>>
    <3>1. Overlaps(u, straight) = Overlaps(u, [work EXCEPT !.name = n])
      BY IdleType DEF Overlaps, Idle
    <3> QED BY <1>4, <3>1 DEF Import
  <2> HIDE DEF work, straight
  <2>6. CASE SnapshotBegins(u, work, "pre-import")
    <3>1. Begun(u, work, "pre-import")
      BY <2>6, <2>2, <2>4 DEF Begun
    <3> QED BY <3>1, <2>1, <1>b DEF Kinds
  <2>7. CASE /\ world[config] = Nothing /\ Becomes(u, straight)
             /\ Mixes(Overlaps(u, straight), n)
             /\ UNCHANGED <<disk, config, process, owed, torn, cut, byHand>>
    <3>1. Straight(u, straight)
      BY <2>7, <2>3, <2>4 DEF Straight
    <3> QED BY <3>1, <2>1, <1>b
  <2> QED BY <2>5, <2>6, <2>7
<1> QED BY <1>1, <1>2, <1>3, <1>4 DEF Next, Snapshots, Changes, StrayStep

LEMMA BegunEffect ==
  ASSUME TypeOK, NEW w \in Worker, NEW work \in Work, NEW kind \in Kinds, Begun(w, work, kind)
  PROVE  /\ made + 1 \in Ids /\ made' = made + 1
         /\ \A x \in Worker : x # w => workers'[x] = workers[x]
         /\ workers'[w].pc = "copy" /\ workers'[w].job = work.job /\ workers'[w].name = config
         /\ workers'[w].snap = made + 1 /\ workers'[w].keys = work.keys
         /\ workers'[w].todo = Present(world[config]) /\ workers'[w].asked = work.asked
         /\ snaps'[made + 1].kind = kind /\ snaps'[made + 1].name = config
         /\ snaps'[made + 1].payload = Nothing /\ snaps'[made + 1].listed = FALSE
         /\ \A i \in Ids : i # made + 1 => snaps'[i] = snaps[i]
         /\ mixed \subseteq mixed'
         /\ Overlaps(w, work) => config \in mixed'
         /\ UNCHANGED <<world, config, process, owed, torn, cut, byHand>>
<1>1. made + 1 \in Ids /\ work.name = config
  BY Constants DEF Begun, SnapshotBegins, TypeOK, Ids
<1> DEFINE new == [NoSnap EXCEPT !.kind = kind, !.name = config]
<1>2. new.kind = kind /\ new.name = config /\ new.payload = Nothing /\ new.listed = FALSE
  BY DEF NoSnap
<1>3. workers' = [workers EXCEPT ![w] =
        [work EXCEPT !.pc = "copy", !.snap = made + 1, !.todo = Present(world[config])]]
  BY <1>1 DEF Begun, SnapshotBegins, Becomes
<1>4. snaps' = [snaps EXCEPT ![made + 1] = new]
  BY <1>1 DEF Begun, SnapshotBegins
<1> HIDE DEF new
<1>5. mixed \subseteq mixed' /\ (Overlaps(w, work) => config \in mixed')
  BY <1>1 DEF Begun, SnapshotBegins, Mixes
<1>6. made' = made + 1 /\ UNCHANGED <<world, config, process, owed, torn, cut, byHand>>
  BY DEF Begun, SnapshotBegins
<1>7. /\ \A x \in Worker : x # w => workers'[x] = workers[x]
      /\ workers'[w].pc = "copy" /\ workers'[w].job = work.job /\ workers'[w].name = config
      /\ workers'[w].snap = made + 1 /\ workers'[w].keys = work.keys
      /\ workers'[w].todo = Present(world[config]) /\ workers'[w].asked = work.asked
  BY <1>1, <1>3 DEF TypeOK, Work
<1>8. /\ snaps'[made + 1] = new
      /\ \A i \in Ids : i # made + 1 => snaps'[i] = snaps[i]
  BY <1>1, <1>4 DEF TypeOK
<1> QED BY <1>1, <1>2, <1>5, <1>6, <1>7, <1>8

\* rmtree touches one snapshot, and only its files and its manifest.
Thinned(i) ==
  /\ \A j \in Ids : j # i => snaps'[j] = snaps[j]
  /\ snaps'[i].kind = snaps[i].kind /\ snaps'[i].name = snaps[i].name
  /\ snaps'[i].listed => snaps[i].listed
  /\ \A f \in Files : snaps'[i].payload[f] \in {0, snaps[i].payload[f]}

Proceeds(w) ==
  \/ workers'[w] = Idle
  \/ \E keys \in SUBSET workers[w].keys : workers'[w] = [workers[w] EXCEPT !.keys = keys]

LEMMA PurgesEffect ==
  ASSUME TypeOK, NEW w \in Worker, Purges(w)
  PROVE  /\ workers[w].pc = "purge"
         /\ \A x \in Worker : x # w => workers'[x] = workers[x]
         /\ Proceeds(w)
         /\ \E i \in workers[w].keys :
              /\ \A j \in workers[w].keys : j <= i
              /\ Thinned(i)
              /\ \/ snaps' = snaps /\ cut' = cut
                 \/ cut' = cut \cup {i}
         /\ UNCHANGED <<world, made, config, process, saves, owed, torn, mixed, byHand>>
<1>1. PICK i \in workers[w].keys : (\A j \in workers[w].keys : j <= i) /\
        \/ /\ Becomes(w, IF workers[w].keys = {i} THEN Idle ELSE [workers[w] EXCEPT !.keys = @ \ {i}])
           /\ UNCHANGED <<snaps, cut>>
        \/ /\ snaps' = [snaps EXCEPT ![i] = [snaps[i] EXCEPT !.listed = FALSE]]
           /\ cut' = cut \cup {i} /\ UNCHANGED workers
        \/ /\ \E f \in Present(snaps[i].payload) : snaps' = [snaps EXCEPT ![i].payload[f] = 0]
           /\ cut' = cut \cup {i} /\ UNCHANGED workers
  BY DEF Purges
<1>2. i \in Ids /\ workers[w] \in Work /\ snaps[i] \in Snap
  BY DEF TypeOK, Work
<1>3. UNCHANGED <<world, made, config, process, saves, owed, torn, mixed, byHand>>
      /\ workers[w].pc = "purge"
  BY DEF Purges
<1>s. workers' = workers => Proceeds(w) /\ \A x \in Worker : x # w => workers'[x] = workers[x]
  <2>1. workers[w] = [workers[w] EXCEPT !.keys = workers[w].keys]
    BY <1>2 DEF Work
  <2> QED BY <2>1, Zenon DEF Proceeds
<1> DEFINE Effect == /\ Thinned(i) /\ Proceeds(w)
                     /\ \A x \in Worker : x # w => workers'[x] = workers[x]
                     /\ \/ snaps' = snaps /\ cut' = cut
                        \/ cut' = cut \cup {i}
<1>4. ASSUME Becomes(w, IF workers[w].keys = {i} THEN Idle ELSE [workers[w] EXCEPT !.keys = @ \ {i}]),
             UNCHANGED <<snaps, cut>>
      PROVE  Effect
  <2>1. \A x \in Worker : x # w => workers'[x] = workers[x]
    BY <1>4 DEF Becomes, TypeOK
  <2>2. \/ workers'[w] = Idle
        \/ workers'[w] = [workers[w] EXCEPT !.keys = workers[w].keys \ {i}]
    BY <1>4 DEF Becomes, TypeOK
  <2>3. workers[w].keys \ {i} \in SUBSET workers[w].keys
    OBVIOUS
  <2>4. Proceeds(w)
    BY <2>2, <2>3, Zenon DEF Proceeds
  <2>5. Thinned(i)
    BY <1>4 DEF Thinned
  <2> QED BY <1>4, <2>1, <2>4, <2>5
<1>5. ASSUME snaps' = [snaps EXCEPT ![i] = [snaps[i] EXCEPT !.listed = FALSE]],
             cut' = cut \cup {i}, UNCHANGED workers
      PROVE  Effect
  <2>1. /\ \A j \in Ids : j # i => snaps'[j] = snaps[j]
        /\ snaps'[i].kind = snaps[i].kind /\ snaps'[i].name = snaps[i].name /\ ~snaps'[i].listed
        /\ snaps'[i].payload = snaps[i].payload
    BY <1>2, <1>5 DEF TypeOK, Snap
  <2>2. Thinned(i)
    BY <2>1 DEF Thinned
  <2> QED BY <1>5, <1>s, <2>2
<1>6. ASSUME NEW f \in Present(snaps[i].payload), snaps' = [snaps EXCEPT ![i].payload[f] = 0],
             cut' = cut \cup {i}, UNCHANGED workers
      PROVE  Effect
  <2>1. /\ \A j \in Ids : j # i => snaps'[j] = snaps[j]
        /\ snaps'[i].kind = snaps[i].kind /\ snaps'[i].name = snaps[i].name
        /\ snaps'[i].listed = snaps[i].listed
        /\ snaps'[i].payload = [snaps[i].payload EXCEPT ![f] = 0]
    BY <1>2, <1>6 DEF TypeOK, Snap
  <2>2. \A g \in Files : snaps'[i].payload[g] \in {0, snaps[i].payload[g]}
    BY <1>2, <2>1 DEF Snap, Content
  <2>3. Thinned(i)
    BY <2>1, <2>2 DEF Thinned
  <2> QED BY <1>6, <1>s, <2>3
<1> HIDE DEF Effect
<1>7. Effect
  BY <1>1, <1>4, <1>5, <1>6
<1> QED BY <1>1, <1>3, <1>7 DEF Effect

\* A stray touches no more than its own world.
LEMMA StrayEffect ==
  ASSUME StrayStep
  PROVE  /\ UNCHANGED <<snaps, made, config, server, loaded, number, writing, workers, owed, mixed,
                         cut, byHand>>
         /\ torn \subseteq torn'
BY DEF StrayStep, StraySaves, StrayDies, StrayWrites, Disorders, disk, history

\* Nor do these do anything to the rest.
LEMMA PlaceFrame ==
  ASSUME NEW w, PlaceBegins(w) \/ \E f \in Files : Places(w, f)
  PROVE  /\ UNCHANGED <<snaps, made, config, process, saves, owed, mixed, cut, byHand>>
         /\ torn \subseteq torn'
<1>1. CASE PlaceBegins(w)
  <2>1. UNCHANGED <<snaps, made, config, process, saves, owed, mixed, cut, byHand>>
    BY <1>1, Zenon DEF PlaceBegins
  <2>2. PICK source \in Sources(workers[w]) :
          torn' = IF Whole(source) THEN torn ELSE torn \cup {workers[w].name}
    BY <1>1, Zenon DEF PlaceBegins
  <2> QED BY <2>1, <2>2
<1>2. ASSUME NEW f \in Files, Places(w, f)
      PROVE  /\ UNCHANGED <<snaps, made, config, process, saves, owed, mixed, cut, byHand>>
             /\ torn \subseteq torn'
  <2>1. UNCHANGED <<snaps, made, config, process, saves, owed, mixed, cut, byHand>>
    BY <1>2, Zenon DEF Places
  <2>2. PICK found \in Finds(workers[w], f) :
          torn' = IF found = workers[w].source[f] THEN torn ELSE torn \cup {workers[w].name}
    BY <1>2, Zenon DEF Places
  <2> QED BY <2>1, <2>2
<1> QED BY <1>1, <1>2

LEMMA PruneFrame ==
  ASSUME PruneBegins
  PROVE  UNCHANGED <<disk, config, process, saves, history>>
BY Zenon DEF PruneBegins

LEMMA DeleteFrame ==
  ASSUME NEW i, Delete(i)
  PROVE  UNCHANGED <<disk, config, process, saves, torn, mixed, cut>> /\ byHand' = byHand \cup {i}
BY Zenon DEF Delete

LEMMA KillFrame ==
  ASSUME Kill
  PROVE  /\ UNCHANGED <<world, made, config, loaded, number, saves, owed, mixed, cut, byHand>>
         /\ torn \subseteq torn'
BY DEF Kill

LEMMA RotatesFrame ==
  ASSUME Rotates
  PROVE  UNCHANGED <<world, config, process, saves, workers, history>>
BY Zenon DEF Rotates

-----------------------------------------------------------------------------
(***************************************************************************)
(* What a worker is at, and at what step of it                             *)
(***************************************************************************)
Replacer(w) == workers[w].job \in {"restore", "import"}
Copier(w) == workers[w].pc \in {"copy", "list"}
Before(w) == workers[w].pc \in {"copy", "list", "replace"}

Shape(w) ==
  LET work == workers[w] IN
  /\ work.pc = "idle" => work = Idle
  /\ work.job = "none" => work.pc = "idle"
  /\ work.job \in {"snapshot", "restore", "delete"} => w = "loop"
  /\ work.job \in {"auto", "prune"} => w = "scheduler"
  /\ work.job = "import" => w \in Uploads
  /\ work.job = "snapshot" => Copier(w)
  /\ work.job = "auto" => Copier(w) \/ work.pc = "ready"
  /\ work.job \in {"delete", "prune"} <=> work.pc = "purge"
  /\ work.pc \in {"list", "replace", "placed"} => work.todo = {}
  /\ Copier(w) => work.snap # 0

Shapes == \A w \in Worker : Shape(w)

LEMMA IdleFields ==
  /\ Idle.pc = "idle" /\ Idle.job = "none" /\ Idle.name = First /\ Idle.snap = 0 /\ Idle.keys = {}
  /\ Idle.todo = {} /\ Idle.source = Nothing /\ Idle.asked = Nothing
BY DEF Idle

LEMMA ShapesInit == Init => Shapes
BY IdleFields DEF Init, Shapes, Shape, Copier

LEMMA ShapesStep == TypeOK /\ Shapes /\ [Next]_vars => Shapes'
<1> SUFFICES ASSUME TypeOK, Shapes, [Next]_vars, NEW x \in Worker PROVE Shape(x)'
  BY DEF Shapes
<1> USE Constants, IdleFields
<1>t. workers \in [Worker -> Work] /\ workers[x] \in Work
  BY DEF TypeOK
<1>s. Shape(x)
  BY DEF Shapes
<1>i. ASSUME workers'[x] = Idle PROVE Shape(x)'
  BY <1>i DEF Shape, Copier
<1>0. ASSUME workers'[x] = workers[x] PROVE Shape(x)'
  BY <1>0, <1>s DEF Shape, Copier
<1>1. ASSUME NEW w \in Worker, NEW work \in Work, NEW kind \in Kinds, Begun(w, work, kind)
      PROVE  Shape(x)'
  <2>1. CASE x = w
    <3>1. /\ workers'[x].pc = "copy" /\ workers'[x].job = work.job /\ workers'[x].snap = made + 1
      BY <1>1, <2>1, BegunEffect
    <3>3. made + 1 # 0
      BY DEF TypeOK
    <3>2. \/ x = "loop" /\ work.job \in {"snapshot", "restore"}
          \/ x = "scheduler" /\ work.job = "auto"
          \/ x \in Uploads /\ work.job = "import"
      BY <1>1, <2>1 DEF Begun
    <3> QED BY <3>1, <3>2, <3>3 DEF Shape, Copier
  <2> QED BY <2>1, <1>0, <1>1, BegunEffect
<1>2. ASSUME NEW w \in Worker, NEW work \in Work, Straight(w, work) PROVE Shape(x)'
  <2>1. CASE x = w
    <3>1. workers'[x] = work
      BY <1>2, <2>1, <1>t DEF Straight, Becomes
    <3> QED BY <3>1, <2>1, <1>2 DEF Straight, Shape, Copier
  <2> QED BY <2>1, <1>0, <1>t, <1>2 DEF Straight, Becomes
<1>3. CASE PruneBegins
  <2>1. x # "scheduler" => workers'[x] = workers[x]
    BY <1>3, <1>t DEF PruneBegins, Becomes
  <2>2. x = "scheduler" => \/ workers'[x] = Idle
                           \/ workers'[x] = [Idle EXCEPT !.pc = "purge", !.job = "prune", !.keys = Old(config)]
    BY <1>3, <1>t DEF PruneBegins, Becomes
  <2> QED BY <2>1, <2>2, <1>0, <1>i DEF Shape, Copier, Idle
<1>4. ASSUME NEW i \in Ids, Delete(i) PROVE Shape(x)'
  <2>1. x # "loop" => workers'[x] = workers[x]
    BY <1>4, <1>t DEF Delete, Becomes
  <2>2. x = "loop" => workers'[x] = [Idle EXCEPT !.pc = "purge", !.job = "delete", !.keys = {i}]
    BY <1>4, <1>t DEF Delete, Becomes
  <2> QED BY <2>1, <2>2, <1>0 DEF Shape, Copier, Idle
<1>5. ASSUME NEW w \in Worker, Purges(w) PROVE Shape(x)'
  <2>1. ASSUME NEW keys, workers'[x] = [workers[x] EXCEPT !.keys = keys], workers[x].pc = "purge"
        PROVE  Shape(x)'
    <3>1. /\ workers'[x].pc = workers[x].pc /\ workers'[x].job = workers[x].job
          /\ workers'[x].todo = workers[x].todo /\ workers'[x].snap = workers[x].snap
      BY <2>1, <1>t DEF Work
    <3> QED BY <3>1, <2>1, <1>s DEF Shape, Copier
  <2>2. workers'[x] = workers[x] \/ (workers[x].pc = "purge" /\ Proceeds(x))
    BY <1>5, PurgesEffect
  <2> QED BY <2>1, <2>2, <1>0, <1>i DEF Proceeds
<1>6. ASSUME NEW w \in Worker, NEW f \in Files, Copies(w, f) \/ Removes(w, f) \/ Places(w, f)
      PROVE  Shape(x)'
  <2>1. x # w => workers'[x] = workers[x]
    BY <1>6, <1>t DEF Copies, Removes, Places, Becomes
  <2>2. CASE x = w
    <3>1. /\ workers'[x].job = workers[x].job /\ workers'[x].snap = workers[x].snap
          /\ workers'[x].todo = workers[x].todo \ {f}
          /\ \/ workers[x].pc = "remove" /\ workers'[x].pc = "remove"
             \/ /\ workers[x].pc = "copy"
                /\ workers'[x].pc = IF workers[x].todo = {f} THEN "list" ELSE "copy"
             \/ /\ workers[x].pc = "place"
                /\ workers'[x].pc = IF workers[x].todo = {f} THEN "placed" ELSE "place"
      <4>1. CASE Copies(w, f)
        BY <4>1, <1>t, <2>2 DEF Copies, Becomes, Work
      <4>2. CASE Removes(w, f)
        BY <4>2, <1>t, <2>2 DEF Removes, Becomes, Work
      <4>3. CASE Places(w, f)
        BY <4>3, <1>t, <2>2 DEF Places, Becomes, Work
      <4> QED BY <1>6, <4>1, <4>2, <4>3
    <3>2. workers'[x].pc \in {"list", "placed"} => workers'[x].todo = {}
      BY <3>1
    <3> QED BY <3>1, <3>2, <1>s DEF Shape, Copier
  <2> QED BY <2>1, <2>2, <1>0
<1>7. ASSUME NEW w \in Worker, CopyFails(w) \/ ListFails(w) \/ PlaceFails(w) PROVE Shape(x)'
  BY <1>7, <1>t, <1>0, <1>i DEF CopyFails, ListFails, PlaceFails, Done, Becomes
<1>8. ASSUME NEW w \in Worker, Lists(w) PROVE Shape(x)'
  <2>1. x # w => workers'[x] = workers[x]
    BY <1>8, <1>t DEF Lists, Becomes
  <2>2. CASE x = w
    <3>1. \/ workers'[x] = Idle
          \/ workers[x].job = "auto" /\ workers'[x] = [workers[x] EXCEPT !.pc = "ready"]
          \/ workers[x].job \notin {"auto", "snapshot"} /\ workers'[x] = [workers[x] EXCEPT !.pc = "replace"]
      BY <1>8, <1>t, <2>2 DEF Lists, Becomes
    <3>2. workers[x].pc = "list"
      BY <1>8, <2>2 DEF Lists
    <3>3. CASE workers[x].job = "auto" /\ workers'[x] = [workers[x] EXCEPT !.pc = "ready"]
      <4>1. /\ workers'[x].pc = "ready" /\ workers'[x].job = "auto"
            /\ workers'[x].todo = workers[x].todo /\ workers'[x].snap = workers[x].snap
        BY <3>3, <1>t DEF Work
      <4> QED BY <4>1, <3>2, <3>3, <1>s DEF Shape, Copier
    <3>4. CASE workers[x].job \notin {"auto", "snapshot"} /\ workers'[x] = [workers[x] EXCEPT !.pc = "replace"]
      <4>1. /\ workers'[x].pc = "replace" /\ workers'[x].job = workers[x].job
            /\ workers'[x].todo = workers[x].todo /\ workers'[x].snap = workers[x].snap
        BY <3>4, <1>t DEF Work
      <4> QED BY <4>1, <3>2, <3>4, <1>s DEF Shape, Copier
    <3> QED BY <3>1, <3>3, <3>4, <1>i
  <2> QED BY <2>1, <2>2, <1>0
<1>9. ASSUME NEW w \in Worker, Replaces(w) PROVE Shape(x)'
  <2>1. x # w => workers'[x] = workers[x]
    BY <1>9, <1>t DEF Replaces, Becomes
  <2>2. CASE x = w
    <3>1. workers[x].pc = "replace" /\ workers'[x].pc = "remove" /\ workers'[x].job = workers[x].job
      BY <1>9, <1>t, <2>2 DEF Replaces, Becomes, Work
    <3> QED BY <3>1, <1>s DEF Shape, Copier
  <2> QED BY <2>1, <2>2, <1>0
<1>10. ASSUME NEW w \in Worker, PlaceBegins(w) PROVE Shape(x)'
  <2>0. PICK source \in Sources(workers[w]) :
          Becomes(w, IF source = Nothing THEN Idle
                     ELSE [workers[w] EXCEPT !.pc = "place", !.source = source, !.todo = Present(source)])
    BY <1>10, Zenon DEF PlaceBegins
  <2>1. x # w => workers'[x] = workers[x]
    BY <2>0, <1>t DEF Becomes
  <2>2. CASE x = w
    <3>1. workers[x].pc = "remove"
      BY <1>10, <2>2 DEF PlaceBegins
    <3>2. \/ workers'[x] = Idle
          \/ workers'[x].pc = "place" /\ workers'[x].job = workers[x].job
      BY <2>0, <1>t, <2>2 DEF Becomes, Work
    <3> QED BY <3>1, <3>2, <1>s, <1>i DEF Shape, Copier
  <2> QED BY <2>1, <2>2, <1>0
<1>11. ASSUME NEW w \in Worker, Done(w) PROVE Shape(x)'
  BY <1>11, <1>t, <1>0, <1>i DEF Done, Becomes
<1>12. Restored \/ (\E u \in Uploads : Imported(u)) => \E w \in Worker : Done(w)
  BY DEF Restored, Imported, Worker
<1>13. (\E n \in Names : Edit(n)) \/ Submit \/ Stops \/ Launch \/ SaveBegins \/ Rotates \/ Dies
       \/ (\E f \in Files : Writes(f)) \/ UNCHANGED vars \/ StrayStep => workers' = workers
  BY StrayEffect DEF Edit, Submit, Stops, Launch, SaveBegins, Rotates, Dies, Writes, vars
<1>14. Kill => workers'[x] = Idle
  BY DEF Kill
<1> QED BY Steps, <1>0, <1>i, <1>1, <1>2, <1>3, <1>4, <1>5, <1>6, <1>7, <1>8, <1>9, <1>10, <1>11,
           <1>12, <1>13, <1>14

-----------------------------------------------------------------------------
(***************************************************************************)
(* What every other step leaves of a worker and of a snapshot              *)
(***************************************************************************)
\* One more file is copied into the snapshot, or it is listed.
Copying(w) ==
  LET i == workers[w].snap IN
  /\ workers[w].pc = "copy" /\ workers'[w].pc \in {"copy", "list"}
  /\ snaps'[i].kind = snaps[i].kind /\ snaps'[i].name = snaps[i].name
  /\ snaps'[i].listed = snaps[i].listed
  /\ \E f \in workers[w].todo :
       /\ workers'[w].todo = workers[w].todo \ {f}
       /\ world[workers[w].name][f] # 0
       /\ snaps'[i].payload = [snaps[i].payload EXCEPT ![f] = world[workers[w].name][f]]

Listing(w) ==
  /\ workers[w].pc = "list" /\ workers'[w].pc \in {"idle", "ready", "replace"}
  /\ workers'[w].pc = "replace" => workers'[w].todo = workers[w].todo
  /\ snaps'[workers[w].snap] = [snaps[workers[w].snap] EXCEPT !.listed = TRUE]

Goes(x) ==
  \/ workers'[x] = Idle
  \/ /\ workers'[x].job = workers[x].job /\ workers'[x].snap = workers[x].snap
     /\ workers'[x].keys \subseteq workers[x].keys
     /\ workers'[x].keys = workers[x].keys \/ workers[x].pc = "purge"
     /\ workers'[x].asked = workers[x].asked
     /\ Copier(x)' => Copier(x) /\ workers'[x].name = workers[x].name
     /\ Before(x)' => /\ Before(x) /\ workers'[x].name = workers[x].name
                      /\ workers'[x] = workers[x] \/ Copying(x) \/ Listing(x)

SnapGoes(i) ==
  \/ snaps'[i] = snaps[i]
  \/ i = made + 1 /\ made' = made + 1 /\ snaps'[i].kind = "valheim"
     /\ Whole(snaps'[i].payload)
  \/ /\ Thinned(i)
     /\ \E w \in Worker : /\ workers[w].pc = "purge" /\ i \in workers[w].keys
                         /\ \A j \in workers[w].keys : j <= i
     /\ i \in cut'
  \/ \E w \in Worker :
       /\ Copier(w) /\ workers[w].snap = i
       /\ Copying(w) \/ Listing(w) \/ (workers'[w] = Idle /\ snaps'[i] = NoSnap)

Rest ==
  /\ byHand' = byHand /\ made' \in {made, made + 1}
  /\ \A x \in Worker : Goes(x)
  /\ \A i \in cut' : i \in cut \/ \E w \in Worker : workers[w].pc = "purge" /\ i \in workers[w].keys
  /\ \A i \in Ids : SnapGoes(i)

LEMMA UnreadEffect ==
  ASSUME TypeOK, NEW ws \in SUBSET Worker, snaps' = Unread(ws), \A w \in ws : workers'[w] = Idle,
         NEW i \in Ids
  PROVE  SnapGoes(i)
<1>1. CASE \E w \in ws : Copier(w) /\ workers[w].snap = i
  <2>1. PICK w \in ws : Copier(w) /\ workers[w].snap = i
    BY <1>1
  <2>2. snaps'[i] = NoSnap
    BY <2>1 DEF Unread, Copier
  <2> QED BY <2>1, <2>2 DEF SnapGoes
<1>2. CASE ~ \E w \in ws : Copier(w) /\ workers[w].snap = i
  <2>1. snaps'[i] = snaps[i]
    BY <1>2 DEF Unread, Copier
  <2> QED BY <2>1 DEF SnapGoes
<1> QED BY <1>1, <1>2

LEMMA RestSteps ==
  ASSUME TypeOK, Shapes, [Next]_vars
  PROVE  \/ \E w \in Worker, work \in Work, kind \in Kinds : Begun(w, work, kind)
         \/ \E w \in Worker, work \in Work : Straight(w, work)
         \/ PruneBegins
         \/ \E i \in Ids : Delete(i)
         \/ Rest
<1> USE Constants, IdleFields
<1>t. workers \in [Worker -> Work] /\ snaps \in [Ids -> Snap] /\ \A x \in Worker : workers[x] \in Work
  BY DEF TypeOK
<1>x. /\ \A x \in Worker : workers'[x] = workers[x] => Goes(x)
      /\ \A x \in Worker : workers'[x] = Idle => Goes(x)
  BY DEF Goes, Copier, Before
<1>y. \A i \in Ids : snaps'[i] = snaps[i] => SnapGoes(i)
  BY DEF SnapGoes
<1>1. ASSUME NEW w \in Worker, Purges(w) PROVE Rest
  <2>1. \A x \in Worker : Goes(x)
    <3>1. ASSUME NEW keys \in SUBSET workers[w].keys, workers'[w] = [workers[w] EXCEPT !.keys = keys]
          PROVE  Goes(w)
      <4>1. /\ workers'[w].pc = workers[w].pc /\ workers'[w].job = workers[w].job
            /\ workers'[w].snap = workers[w].snap /\ workers'[w].keys = keys
            /\ workers'[w].name = workers[w].name /\ workers'[w].asked = workers[w].asked
        BY <3>1, <1>t DEF Work
      <4>2. workers[w].pc = "purge"
        BY <1>1, PurgesEffect
      <4> QED BY <4>1, <4>2 DEF Goes, Copier, Before
    <3>2. Proceeds(w) /\ \A x \in Worker : x # w => workers'[x] = workers[x]
      BY <1>1, PurgesEffect
    <3>3. Goes(w)
      BY <3>1, <3>2, <1>x DEF Proceeds
    <3> QED BY <3>2, <3>3, <1>x
  <2>2. PICK j \in workers[w].keys :
          /\ \A i \in workers[w].keys : i <= j
          /\ Thinned(j)
          /\ \/ snaps' = snaps /\ cut' = cut
             \/ cut' = cut \cup {j}
    BY <1>1, PurgesEffect
  <2>3. workers[w].pc = "purge" /\ byHand' = byHand /\ made' = made
    BY <1>1, PurgesEffect
  <2>4. \A i \in cut' : i \in cut \/ \E v \in Worker : workers[v].pc = "purge" /\ i \in workers[v].keys
    BY <2>2, <2>3
  <2>5. ASSUME NEW i \in Ids PROVE SnapGoes(i)
    <3>1. CASE snaps'[i] = snaps[i]
      BY <3>1, <1>y
    <3>2. CASE snaps'[i] # snaps[i]
      <4>1. i = j /\ cut' = cut \cup {j}
        BY <3>2, <2>2 DEF Thinned
      <4> QED BY <4>1, <2>2, <2>3 DEF SnapGoes
    <3> QED BY <3>1, <3>2
  <2> QED BY <2>1, <2>3, <2>4, <2>5 DEF Rest
<1>2. ASSUME NEW w \in Worker, NEW f \in Files, Copies(w, f) PROVE Rest
  <2>0. /\ workers[w].pc = "copy" /\ byHand' = byHand /\ made' = made /\ cut' = cut
        /\ snaps' = [snaps EXCEPT ![workers[w].snap].payload[f] = world[workers[w].name][f]]
        /\ workers[w].snap \in Ids
    BY <1>2, <1>t DEF Copies, history, Shapes, Shape, Copier, Work, Ids
  <2>1. /\ \A x \in Worker : x # w => workers'[x] = workers[x]
        /\ workers'[w].job = workers[w].job /\ workers'[w].snap = workers[w].snap
        /\ workers'[w].keys = workers[w].keys /\ workers'[w].name = workers[w].name
        /\ workers'[w].asked = workers[w].asked
        /\ workers'[w].pc \in {"copy", "list"} /\ workers'[w].todo = workers[w].todo \ {f}
        /\ f \in workers[w].todo /\ world[workers[w].name][f] # 0
    BY <1>2, <1>t DEF Copies, Becomes, Work
  <2>2. \A i \in Ids : i # workers[w].snap => snaps'[i] = snaps[i]
    BY <2>0, <1>t
  <2>3. Copying(w)
    <3> DEFINE i == workers[w].snap
    <3>1. /\ snaps'[i].kind = snaps[i].kind /\ snaps'[i].name = snaps[i].name
          /\ snaps'[i].listed = snaps[i].listed
          /\ snaps'[i].payload = [snaps[i].payload EXCEPT ![f] = world[workers[w].name][f]]
      BY <2>0, <1>t DEF Snap
    <3> QED BY <3>1, <2>0, <2>1 DEF Copying
  <2>4. \A x \in Worker : Goes(x)
    BY <2>0, <2>1, <2>3, <1>x DEF Goes, Copier, Before
  <2>5. \A i \in Ids : SnapGoes(i)
    BY <2>0, <2>2, <2>3, <1>y DEF SnapGoes, Copier
  <2> QED BY <2>0, <2>4, <2>5 DEF Rest
<1>3. ASSUME NEW w \in Worker, CopyFails(w) \/ ListFails(w) PROVE Rest
  <2>0. /\ byHand' = byHand /\ made' = made /\ cut' = cut /\ snaps' = Unread({w})
        /\ workers' = [workers EXCEPT ![w] = Idle]
    BY <1>3 DEF CopyFails, ListFails, history, Done, Becomes
  <2>1. workers'[w] = Idle /\ \A x \in Worker : x # w => workers'[x] = workers[x]
    BY <2>0, <1>t
  <2>2. \A i \in Ids : SnapGoes(i)
    BY <2>0, <2>1, UnreadEffect
  <2> QED BY <2>0, <2>1, <2>2, <1>x DEF Rest
<1>4. ASSUME NEW w \in Worker, Lists(w) PROVE Rest
  <2>0. /\ workers[w].pc = "list" /\ byHand' = byHand /\ made' = made /\ cut' = cut
        /\ snaps' = [snaps EXCEPT ![workers[w].snap].listed = TRUE]
        /\ workers[w].snap \in Ids
    BY <1>4, <1>t DEF Lists, history, Shapes, Shape, Copier, Work, Ids
  <2>1. /\ \A x \in Worker : x # w => workers'[x] = workers[x]
        /\ \/ workers'[w] = Idle
           \/ /\ workers'[w].job = workers[w].job /\ workers'[w].snap = workers[w].snap
              /\ workers'[w].keys = workers[w].keys /\ workers'[w].name = workers[w].name
              /\ workers'[w].asked = workers[w].asked
              /\ workers'[w].pc \in {"ready", "replace"} /\ workers'[w].todo = workers[w].todo
    BY <1>4, <1>t DEF Lists, Becomes, Work
  <2>2. /\ \A i \in Ids : i # workers[w].snap => snaps'[i] = snaps[i]
        /\ snaps'[workers[w].snap] = [snaps[workers[w].snap] EXCEPT !.listed = TRUE]
    BY <2>0, <1>t
  <2>3. Listing(w)
    BY <2>0, <2>1, <2>2 DEF Listing
  <2>4. \A x \in Worker : Goes(x)
    BY <2>0, <2>1, <2>3, <1>x DEF Goes, Copier, Before
  <2>5. \A i \in Ids : SnapGoes(i)
    BY <2>0, <2>2, <2>3, <1>y DEF SnapGoes, Copier
  <2> QED BY <2>0, <2>4, <2>5 DEF Rest
<1>5. ASSUME NEW w \in Worker,
             Replaces(w) \/ PlaceBegins(w) \/ PlaceFails(w) \/ \E f \in Files : Removes(w, f) \/ Places(w, f)
      PROVE  Rest
  <2>0. byHand' = byHand /\ made' = made /\ cut' = cut /\ snaps' = snaps
    BY <1>5 DEF Replaces, PlaceBegins, PlaceFails, Removes, Places, disk, history
  <2> DEFINE Moved ==
        /\ \A x \in Worker : x # w => workers'[x] = workers[x]
        /\ \/ workers'[w] = Idle
           \/ /\ workers'[w].job = workers[w].job /\ workers'[w].snap = workers[w].snap
              /\ workers'[w].keys = workers[w].keys
              /\ workers'[w].asked = workers[w].asked
              /\ workers'[w].pc \in {"remove", "place", "placed"}
  <2>1. Moved
    <3>1. CASE Replaces(w)
      BY <3>1, <1>t DEF Replaces, Becomes, Work
    <3>2. CASE PlaceBegins(w)
      <4>1. PICK source \in Sources(workers[w]) :
              Becomes(w, IF source = Nothing THEN Idle
                         ELSE [workers[w] EXCEPT !.pc = "place", !.source = source, !.todo = Present(source)])
        BY <3>2, Zenon DEF PlaceBegins
      <4> QED BY <4>1, <3>2, <1>t DEF Becomes, Work
    <3>3. CASE PlaceFails(w)
      BY <3>3, <1>t DEF PlaceFails, Done, Becomes
    <3>4. ASSUME NEW f \in Files, Removes(w, f) PROVE Moved
      BY <3>4, <1>t DEF Removes, Becomes, Work
    <3>5. ASSUME NEW f \in Files, Places(w, f) PROVE Moved
      BY <3>5, <1>t DEF Places, Becomes, Work
    <3> QED BY <1>5, <3>1, <3>2, <3>3, <3>4, <3>5
  <2>2. \A x \in Worker : Goes(x)
    BY <2>1, <1>x DEF Goes, Copier, Before
  <2> QED BY <2>0, <2>2, <1>y DEF Rest
<1>6. ASSUME NEW w \in Worker, Done(w), byHand' = byHand, made' = made, cut' = cut, snaps' = snaps
      PROVE  Rest
  <2>1. workers'[w] = Idle /\ \A x \in Worker : x # w => workers'[x] = workers[x]
    BY <1>6, <1>t DEF Done, Becomes
  <2> QED BY <1>6, <2>1, <1>x, <1>y DEF Rest
<1>7. ASSUME workers' = workers, byHand' = byHand, made' = made, cut' = cut, snaps' = snaps
      PROVE  Rest
  BY <1>7, <1>x, <1>y DEF Rest
<1>8. Restored => Rest
  BY <1>6 DEF Restored, disk, history, Worker
<1>9. (\E u \in Uploads : Imported(u)) => Rest
  BY <1>6 DEF Imported, disk, history, Worker
<1>10. (\E n \in Names : Edit(n)) \/ Submit \/ Stops \/ Launch \/ SaveBegins \/ Dies
       \/ (\E f \in Files : Writes(f)) \/ UNCHANGED vars \/ StrayStep => Rest
  BY <1>7, StrayEffect DEF Edit, Submit, Stops, Launch, SaveBegins, Dies, Writes, vars, disk, history
<1>11. CASE Rotates
  <2>0. PICK n \in Names :
          /\ made' = made + 1 /\ workers' = workers /\ byHand' = byHand /\ cut' = cut
          /\ Whole(world[n])
          /\ snaps' = [snaps EXCEPT ![made + 1] =
               [kind |-> "valheim", name |-> n, payload |-> world[n], listed |-> TRUE]]
    BY <1>11 DEF Rotates, history
  <2>1. ASSUME NEW i \in Ids PROVE SnapGoes(i)
    BY <2>0, <1>t, <1>y DEF SnapGoes
  <2> QED BY <2>0, <2>1, <1>x DEF Rest
<1>12. CASE Kill
  <2>0. /\ byHand' = byHand /\ made' = made /\ cut' = cut /\ snaps' = Unread(Worker)
        /\ \A w \in Worker : workers'[w] = Idle
    BY <1>12 DEF Kill
  <2>1. \A i \in Ids : SnapGoes(i)
    BY <2>0, UnreadEffect
  <2> QED BY <2>0, <2>1, <1>x DEF Rest
<1> QED BY Steps, <1>1, <1>2, <1>3, <1>4, <1>5, <1>8, <1>9, <1>10, <1>11, <1>12

-----------------------------------------------------------------------------
(***************************************************************************)
(* Snapshots are numbered as they are made, and one that is being written  *)
(* belongs to its writer                                                   *)
(***************************************************************************)
Numbered ==
  /\ \A w \in Worker : workers[w].snap <= made /\ \A i \in workers[w].keys : i <= made
  /\ \A i \in Ids : snaps[i].listed => i <= made
  /\ \A i \in byHand \cup cut : i <= made

Written(w) ==
  LET i == workers[w].snap IN
  /\ snaps[i].name = workers[w].name /\ ~snaps[i].listed
  /\ Replacer(w) => snaps[i].kind \in {"manual", "pre-import"}
  /\ i \notin byHand \cup cut
  /\ \A x \in Worker : i \notin workers[x].keys

OneWriter ==
  /\ \A w, x \in Worker : w # x /\ workers[w].snap # 0 => workers[x].snap # workers[w].snap
  /\ \A w \in Worker : Copier(w) => Written(w)

Purged ==
  \A w \in Worker :
    /\ workers[w].job = "delete" => workers[w].keys \subseteq byHand
    /\ workers[w].job = "prune" => \A i \in workers[w].keys : snaps[i].kind = "auto"

Taken == Numbered /\ OneWriter /\ Purged

LEMMA TakenInit == Init => Taken
<1> SUFFICES ASSUME Init PROVE Taken
  OBVIOUS
<1>1. \A w \in Worker : workers[w] = Idle
  BY DEF Init
<1>2. made = 0 /\ byHand = {} /\ cut = {} /\ \A i \in Ids : ~snaps[i].listed
  BY DEF Init, NoSnap
<1> QED BY <1>1, <1>2, IdleFields DEF Taken, Numbered, OneWriter, Purged, Copier

LEMMA Given ==
  ASSUME TypeOK
  PROVE  /\ workers \in [Worker -> Work] /\ snaps \in [Ids -> Snap] /\ made \in Nat
         /\ \A x \in Worker : /\ workers[x] \in Work /\ workers[x].snap \in Nat
                              /\ workers[x].keys \subseteq Ids
         /\ {"loop", "scheduler"} \cup Uploads = Worker
         /\ Ids \subseteq Nat /\ 0 \notin Ids
BY Constants DEF TypeOK, Work, Worker, Ids

LEMMA TakenRest ==
  ASSUME TypeOK, Shapes, Taken, Rest, TypeOK'
  PROVE  Taken'
<1> USE Constants, IdleFields, Given
<1>f. Numbered /\ OneWriter /\ Purged
  BY DEF Taken
<1>0. made' \in Nat /\ made <= made' /\ byHand' = byHand /\ made' \in {made, made + 1}
  BY DEF Rest
<1>g. \A x \in Worker : Goes(x)
  BY DEF Rest
<1>h. \A i \in Ids : SnapGoes(i)
  BY DEF Rest
<1>k. \A x \in Worker : workers'[x].keys \subseteq workers[x].keys /\ workers'[x].snap \in {0, workers[x].snap}
  BY <1>g DEF Goes
<1>c. \A x \in Worker : Copier(x)' => /\ Copier(x) /\ workers'[x].name = workers[x].name
                                      /\ workers'[x].snap = workers[x].snap /\ workers[x].snap \in Ids
                                      /\ workers'[x].job = workers[x].job
  BY <1>g DEF Goes, Copier, Shapes, Shape, Work, Ids
<1>d. \A x \in Worker : workers'[x].job \in {"none", workers[x].job}
  BY <1>g DEF Goes
<1>s. ASSUME NEW i \in Ids, NEW x \in Worker, Copier(x), workers[x].snap = i, snaps'[i] # snaps[i]
      PROVE  i <= made /\ (Copier(x)' => /\ snaps'[i].kind = snaps[i].kind /\ snaps'[i].name = snaps[i].name
                                         /\ snaps'[i].listed = snaps[i].listed)
  <2>1. i <= made /\ i # 0
    BY <1>s, <1>f DEF Numbered
  <2>2. \A w \in Worker : i \notin workers[w].keys
    BY <1>s, <1>f DEF OneWriter, Written
  <2>3. \A w \in Worker : Copier(w) /\ workers[w].snap = i => w = x
    BY <1>s, <1>f, <2>1 DEF OneWriter
  <2>4. i # made + 1
    BY <2>1
  <2>5. PICK w \in Worker :
               /\ Copier(w) /\ workers[w].snap = i
               /\ Copying(w) \/ Listing(w) \/ workers'[w] = Idle
    <3>1. SnapGoes(i)
      BY <1>h
    <3> QED BY ONLY <3>1, <1>s, <2>2, <2>4 DEF SnapGoes
  <2> QED BY <1>s, <2>1, <2>3, <2>5 DEF Copying, Listing, Copier
<1>1. Numbered'
  <2>1. \A w \in Worker : workers'[w].snap <= made' /\ \A i \in workers'[w].keys : i <= made'
    BY <1>k, <1>0, <1>f DEF Numbered
  <2>2. ASSUME NEW i \in Ids, snaps'[i].listed PROVE i <= made'
    <3>1. CASE snaps[i].listed
      BY <3>1, <1>f, <1>0 DEF Numbered
    <3>2. CASE i = made + 1 /\ made' = made + 1
      BY <3>2
    <3>3. CASE \E w \in Worker : Copier(w) /\ workers[w].snap = i
      BY <3>3, <1>f, <1>0 DEF Numbered
    <3> QED BY <2>2, <3>1, <3>2, <3>3, <1>h DEF SnapGoes, Thinned
  <2>3. \A i \in byHand' \cup cut' : i <= made'
    <3>1. \A i \in byHand \cup cut : i \in Nat /\ i <= made
      BY <1>f DEF Numbered, TypeOK
    <3>2. \A w \in Worker : \A i \in workers[w].keys : i \in Nat /\ i <= made
      BY <1>f DEF Numbered
    <3>3. \A i \in byHand' \cup cut' : i \in byHand \cup cut \/ \E w \in Worker : i \in workers[w].keys
      BY DEF Rest
    <3> QED BY <3>1, <3>2, <3>3, <1>0
  <2> QED BY <2>1, <2>2, <2>3 DEF Numbered
<1>2. OneWriter'
  <2>1. \A w, x \in Worker : w # x /\ workers'[w].snap # 0 => workers'[x].snap # workers'[w].snap
    BY <1>k, <1>f DEF OneWriter
  <2>2. ASSUME NEW x \in Worker, Copier(x)' PROVE Written(x)'
    <3> DEFINE i == workers[x].snap
    <3>1. Copier(x) /\ workers'[x].snap = i /\ i \in Ids /\ workers'[x].name = workers[x].name
          /\ workers'[x].job = workers[x].job
      BY <2>2, <1>c
    <3>2. Written(x)
      BY <3>1, <1>f DEF OneWriter
    <3>3. /\ snaps'[i].kind = snaps[i].kind /\ snaps'[i].name = snaps[i].name
          /\ snaps'[i].listed = snaps[i].listed
      BY <2>2, <3>1, <1>s
    <3>4. \A w \in Worker : i \notin workers[w].keys /\ i \notin workers'[w].keys
      BY <3>2, <1>k DEF Written
    <3>5. i \notin byHand' \cup cut'
      BY <3>2, <3>4, <1>0 DEF Written, Rest
    <3> QED BY <3>1, <3>2, <3>3, <3>4, <3>5 DEF Written, Replacer
  <2> QED BY <2>1, <2>2 DEF OneWriter
<1>3. Purged'
  <2>1. ASSUME NEW w \in Worker, workers'[w].job = "delete" PROVE workers'[w].keys \subseteq byHand'
    BY <2>1, <1>d, <1>k, <1>0, <1>f DEF Purged
  <2>2. ASSUME NEW w \in Worker, workers'[w].job = "prune", NEW i \in workers'[w].keys
        PROVE  snaps'[i].kind = "auto"
    <3>1. workers[w].job = "prune" /\ i \in workers[w].keys /\ i \in Ids /\ snaps[i].kind = "auto"
      BY <2>2, <1>d, <1>k, <1>f DEF Purged
    <3>2. i # made + 1
      BY <3>1, <1>f DEF Numbered
    <3>3. \A x \in Worker : Copier(x) => workers[x].snap # i
      BY <3>1, <1>f DEF OneWriter, Written
    <3> QED BY <3>1, <3>2, <3>3, <1>h DEF SnapGoes, Thinned
  <2> QED BY <2>1, <2>2 DEF Purged
<1> QED BY <1>1, <1>2, <1>3 DEF Taken

LEMMA TakenStep == TypeOK /\ Shapes /\ Taken /\ [Next]_vars => Taken'
<1> SUFFICES ASSUME TypeOK, Shapes, Taken, [Next]_vars PROVE Taken'
  OBVIOUS
<1> USE Constants, IdleFields, Given
<1>f. Numbered /\ OneWriter /\ Purged
  BY DEF Taken
<1>t. TypeOK'
  BY TypeStep
<1>1. ASSUME NEW w \in Worker, NEW work \in Work, NEW kind \in Kinds, Begun(w, work, kind)
      PROVE  Taken'
  <2>1. /\ made + 1 \in Ids /\ made' = made + 1
        /\ \A x \in Worker : x # w => workers'[x] = workers[x]
        /\ workers'[w].pc = "copy" /\ workers'[w].job = work.job /\ workers'[w].name = config
        /\ workers'[w].snap = made + 1 /\ workers'[w].keys = work.keys
        /\ snaps'[made + 1].kind = kind /\ snaps'[made + 1].name = config
        /\ snaps'[made + 1].listed = FALSE
        /\ \A i \in Ids : i # made + 1 => snaps'[i] = snaps[i]
        /\ byHand' = byHand /\ cut' = cut
    BY ONLY TypeOK, <1>1, BegunEffect
  <2>2. \A i \in work.keys : i \in Ids /\ snaps[i].listed /\ i <= made
    BY <1>1, <1>f DEF Begun, Listed, Numbered
  <2>3. /\ work.job \in {"snapshot", "auto", "restore", "import"}
        /\ work.job \in {"restore", "import"} => kind \in {"manual", "pre-import"}
    BY <1>1 DEF Begun
  <2>4. Numbered'
    <3>1. \A i \in byHand \cup cut : i \in Nat /\ i <= made
      BY <1>f DEF Numbered, TypeOK
    <3>2. \A x \in Worker : workers'[x].snap <= made' /\ \A i \in workers'[x].keys : i <= made'
      BY <2>1, <2>2, <1>f DEF Numbered
    <3>3. \A i \in Ids : snaps'[i].listed => i <= made'
      BY <2>1, <1>f DEF Numbered
    <3> QED BY <3>1, <3>2, <3>3, <2>1 DEF Numbered
  <2>5. OneWriter'
    <3>1. \A v, x \in Worker : v # x /\ workers'[v].snap # 0 => workers'[x].snap # workers'[v].snap
      BY <2>1, <1>f DEF OneWriter, Numbered
    <3>2. Written(w)'
      <4>1. \A x \in Worker : made + 1 \notin workers'[x].keys
        BY <2>1, <2>2, <1>f DEF Numbered
      <4>2. made + 1 \notin byHand \cup cut
        BY <1>f DEF Numbered
      <4> QED BY <4>1, <4>2, <2>1, <2>3 DEF Written, Replacer
    <3>3. ASSUME NEW x \in Worker, x # w, Copier(x)' PROVE Written(x)'
      <4>1. workers'[x] = workers[x] /\ Copier(x) /\ Written(x) /\ workers[x].snap <= made
        BY <3>3, <2>1, <1>f DEF Copier, OneWriter, Numbered
      <4>2. workers[x].snap \in Ids
        BY <4>1 DEF Shapes, Shape, Work, Ids
      <4>3. snaps'[workers[x].snap] = snaps[workers[x].snap]
        BY <4>1, <4>2, <2>1
      <4>4. \A v \in Worker : workers[x].snap \notin workers'[v].keys
        BY <4>1, <4>2, <2>1, <2>2 DEF Written
      <4> QED BY <4>1, <4>3, <4>4, <2>1 DEF Written, Replacer
    <3> QED BY <3>1, <3>2, <3>3 DEF OneWriter
  <2>6. Purged'
    <3>1. ASSUME NEW x \in Worker, workers'[x].job = "delete" PROVE workers'[x].keys \subseteq byHand'
      BY <3>1, <2>1, <2>3, <1>f DEF Purged
    <3>2. ASSUME NEW x \in Worker, workers'[x].job = "prune", NEW i \in workers'[x].keys
          PROVE  snaps'[i].kind = "auto"
      <4>1. x # w /\ workers'[x] = workers[x]
        BY <3>2, <2>1, <2>3
      <4> QED BY <3>2, <4>1, <2>1, <1>f DEF Purged, Numbered
    <3> QED BY <3>1, <3>2 DEF Purged
  <2> QED BY <2>4, <2>5, <2>6 DEF Taken
<1>2. ASSUME NEW w \in Worker, workers' = [workers EXCEPT ![w] = workers'[w]],
             workers'[w].snap = 0, workers'[w].pc \in {"idle", "replace", "purge"},
             \A i \in workers'[w].keys : i \in Ids /\ snaps[i].listed,
             workers'[w].job = "delete" => workers'[w].keys \subseteq byHand',
             workers'[w].job = "prune" => \A i \in workers'[w].keys : snaps[i].kind = "auto",
             snaps' = snaps, made' = made, cut' = cut,
             byHand \subseteq byHand', \A i \in byHand' : i \in byHand \/ (i \in Ids /\ snaps[i].listed)
      PROVE  Taken'
  <2>1. \A x \in Worker : x # w => workers'[x] = workers[x]
    BY <1>2
  <2>2. Numbered'
    BY <1>2, <2>1, <1>f DEF Numbered
  <2>3. OneWriter'
    <3>1. \A v, x \in Worker : v # x /\ workers'[v].snap # 0 => workers'[x].snap # workers'[v].snap
      BY <1>2, <2>1, <1>f DEF OneWriter
    <3>2. ASSUME NEW x \in Worker, Copier(x)' PROVE Written(x)'
      <4>1. x # w /\ workers'[x] = workers[x] /\ Copier(x) /\ Written(x)
        BY <3>2, <1>2, <2>1, <1>f DEF Copier, OneWriter
      <4>2. \A v \in Worker : workers[x].snap \notin workers'[v].keys
        BY <4>1, <1>2, <2>1 DEF Written
      <4>3. workers[x].snap \notin byHand'
        BY <4>1, <1>2 DEF Written
      <4> QED BY <4>1, <4>2, <4>3, <1>2 DEF Written, Replacer
    <3> QED BY <3>1, <3>2 DEF OneWriter
  <2>4. Purged'
    BY <1>2, <2>1, <1>f DEF Purged
  <2> QED BY <2>2, <2>3, <2>4 DEF Taken
<1>3. ASSUME NEW w \in Worker, NEW work \in Work, Straight(w, work) PROVE Taken'
  <2>1. /\ workers' = [workers EXCEPT ![w] = work] /\ workers'[w] = work
        /\ snaps' = snaps /\ made' = made /\ cut' = cut /\ byHand' = byHand
        /\ work.snap = 0 /\ work.pc = "replace" /\ work.job \in {"restore", "import"}
    BY <1>3 DEF Straight, Becomes, disk
  <2>2. \A i \in work.keys : i \in Ids /\ snaps[i].listed
    BY <1>3 DEF Straight, Listed
  <2> QED BY <2>1, <2>2, <1>2
<1>4. CASE PruneBegins
  <2> DEFINE work == IF Old(config) = {} THEN Idle
                     ELSE [Idle EXCEPT !.pc = "purge", !.job = "prune", !.keys = Old(config)]
  <2>1. /\ workers' = [workers EXCEPT !["scheduler"] = work] /\ workers'["scheduler"] = work
        /\ snaps' = snaps /\ made' = made /\ cut' = cut /\ byHand' = byHand
    BY <1>4 DEF PruneBegins, Becomes, disk, history
  <2>2. \A i \in Old(config) : i \in Ids /\ snaps[i].listed /\ snaps[i].kind = "auto"
    BY DEF Old, Autos, Listed
  <2>3. /\ work.snap = 0 /\ work.pc \in {"idle", "purge"} /\ work.job # "delete"
        /\ \A i \in work.keys : i \in Old(config)
    BY DEF Idle
  <2> HIDE DEF work
  <2> QED BY <2>1, <2>2, <2>3, <1>2
<1>5. ASSUME NEW i \in Ids, Delete(i) PROVE Taken'
  <2> DEFINE work == [Idle EXCEPT !.pc = "purge", !.job = "delete", !.keys = {i}]
  <2>1. /\ workers' = [workers EXCEPT !["loop"] = work] /\ workers'["loop"] = work
        /\ snaps' = snaps /\ made' = made /\ cut' = cut /\ byHand' = byHand \cup {i}
        /\ snaps[i].listed
    BY <1>5 DEF Delete, Becomes, disk, Listed
  <2>2. work.snap = 0 /\ work.pc = "purge" /\ work.job = "delete" /\ work.keys = {i}
    BY DEF Idle
  <2> HIDE DEF work
  <2> QED BY <2>1, <2>2, <1>2
<1> QED BY RestSteps, TakenRest, <1>t, <1>1, <1>3, <1>4, <1>5

-----------------------------------------------------------------------------
(***************************************************************************)
(* Two that replace one world at once are told apart from one that does:   *)
(* then nobody else touches its files                                      *)
(***************************************************************************)
Alone ==
  \A w, x \in Worker :
    w # x /\ Replacer(w) /\ Replacer(x) /\ workers[w].name = workers[x].name
      => workers[w].name \in mixed

Apart ==
  /\ Replacer("loop") => server = "off"
  /\ server = "on" /\ (\E u \in Uploads : Replacer(u)) => loaded \in mixed
  /\ writing # {} => server = "on"

\* So are a server and another one, or a restore or an import, beneath which it
\* has outlived an earlier manager.
Lone ==
  /\ \A w \in Worker : Replacer(w) /\ Haunted(workers[w].name) => workers[w].name \in mixed
  /\ server = "on" /\ Haunted(loaded) => loaded \in mixed
  /\ \A s, t \in strays : s # t /\ s.name = t.name => s.name \in mixed

LEMMA Monotone == TypeOK /\ [Next]_vars => mixed \subseteq mixed' /\ torn \subseteq torn' /\ cut \subseteq cut'
<1> SUFFICES ASSUME TypeOK, [Next]_vars PROVE mixed \subseteq mixed' /\ torn \subseteq torn' /\ cut \subseteq cut'
  OBVIOUS
<1>1. ASSUME NEW w \in Worker, NEW work \in Work, NEW kind \in Kinds, Begun(w, work, kind)
      PROVE  mixed \subseteq mixed' /\ torn \subseteq torn' /\ cut \subseteq cut'
  BY <1>1, BegunEffect
<1>2. ASSUME NEW w \in Worker, NEW work \in Work, Straight(w, work)
      PROVE  mixed \subseteq mixed' /\ torn \subseteq torn' /\ cut \subseteq cut'
  BY <1>2 DEF Straight, Mixes
<1>3. ASSUME NEW w \in Worker, Purges(w) \/ Replaces(w) \/ PlaceBegins(w) \/ PlaceFails(w)
                               \/ Lists(w) \/ CopyFails(w) \/ ListFails(w)
      PROVE  mixed \subseteq mixed' /\ torn \subseteq torn' /\ cut \subseteq cut'
  BY <1>3, PlaceFrame DEF Purges, Replaces, PlaceFails, Lists, CopyFails, ListFails, Mixes, history
<1>4. ASSUME NEW w \in Worker, NEW f \in Files, Copies(w, f) \/ Removes(w, f) \/ Places(w, f) \/ Writes(f)
      PROVE  mixed \subseteq mixed' /\ torn \subseteq torn' /\ cut \subseteq cut'
  BY <1>4, PlaceFrame DEF Copies, Removes, Writes, history
<1>5. PruneBegins \/ (\E i \in Ids : Delete(i)) \/ Restored \/ (\E u \in Uploads : Imported(u))
      \/ (\E n \in Names : Edit(n)) \/ Submit \/ Stops \/ Launch \/ SaveBegins \/ Rotates \/ Dies \/ Kill
      \/ UNCHANGED vars => mixed \subseteq mixed' /\ torn \subseteq torn' /\ cut \subseteq cut'
  BY KillFrame, RotatesFrame, PruneFrame, DeleteFrame DEF history, disk, Restored, Imported, Edit,
         Submit, Stops, Launch, SaveBegins, Dies, Mixes, Disorders, vars
<1> QED BY Steps, StrayEffect, Given, <1>1, <1>2, <1>3, <1>4, <1>5

\* The files of a world change in one of these ways.
LEMMA WorldGoes ==
  ASSUME TypeOK, [Next]_vars, NEW n \in Names, world'[n] # world[n]
  PROVE  \/ n = loaded /\ \E f \in Files : Writes(f)
         \/ \E s \in strays, f \in Files : s.name = n /\ StrayWrites(s, f)
         \/ \E w \in Worker :
              /\ workers[w].name = n /\ workers[w].pc \in {"remove", "place"}
              /\ PlaceBegins(w) \/ \E f \in Files : Removes(w, f) \/ Places(w, f)
<1>w. world \in [Names -> Content]
  BY DEF TypeOK
<1>1. ASSUME NEW w \in Worker, NEW work \in Work, NEW kind \in Kinds, Begun(w, work, kind)
      PROVE  FALSE
  BY <1>1, BegunEffect
<1>2. ASSUME NEW w \in Worker, NEW work \in Work, Straight(w, work) PROVE FALSE
  BY <1>2 DEF Straight, disk
<1>3. ASSUME NEW w \in Worker, Purges(w) \/ Replaces(w) \/ PlaceFails(w)
                               \/ Lists(w) \/ CopyFails(w) \/ ListFails(w)
      PROVE  FALSE
  BY <1>3 DEF Purges, Replaces, PlaceFails, Lists, CopyFails, ListFails, disk
<1>4. ASSUME NEW w \in Worker, NEW f \in Files, Copies(w, f) PROVE FALSE
  BY <1>4 DEF Copies
<1>5. PruneBegins \/ (\E i \in Ids : Delete(i)) \/ Restored \/ (\E u \in Uploads : Imported(u))
      \/ (\E m \in Names : Edit(m)) \/ Submit \/ Stops \/ Launch \/ SaveBegins \/ Rotates \/ Dies \/ Kill
      \/ UNCHANGED vars => FALSE
  BY KillFrame, RotatesFrame, PruneFrame, DeleteFrame DEF history, disk, Restored, Imported, Edit,
         Submit, Stops, Launch, SaveBegins, Dies, vars
<1>6. ASSUME NEW w \in Worker, PlaceBegins(w) \/ \E f \in Files : Removes(w, f) \/ Places(w, f)
      PROVE  workers[w].name = n /\ workers[w].pc \in {"remove", "place"}
  BY <1>6, <1>w DEF PlaceBegins, Removes, Places
<1>7. ASSUME NEW f \in Files, Writes(f) PROVE n = loaded
  BY <1>7, <1>w DEF Writes
<1>8. ASSUME StrayStep PROVE \E s \in strays, f \in Files : s.name = n /\ StrayWrites(s, f)
  <2>1. PICK s \in strays : StraySaves(s) \/ StrayDies(s) \/ \E f \in Files : StrayWrites(s, f)
    BY <1>8, Zenon DEF StrayStep
  <2>2. ~StraySaves(s) /\ ~StrayDies(s)
    BY DEF StraySaves, StrayDies, disk
  <2>3. PICK f \in Files : StrayWrites(s, f)
    BY <2>1, <2>2
  <2>4. s.name = n
    BY <2>3, <1>w DEF StrayWrites
  <2> QED BY <2>3, <2>4, Zenon
<1> QED BY Steps, <1>1, <1>2, <1>3, <1>4, <1>5, <1>6, <1>7, <1>8

LEMMA ProcessGoes ==
  ASSUME TypeOK, [Next]_vars
  PROVE  \/ UNCHANGED process
         \/ Submit \/ Stops \/ Launch \/ SaveBegins \/ Dies \/ Kill
         \/ (\E f \in Files : Writes(f)) \/ StrayStep
<1>1. ASSUME NEW w \in Worker, NEW work \in Work, NEW kind \in Kinds, Begun(w, work, kind)
      PROVE  UNCHANGED process
  BY <1>1, BegunEffect
<1>2. ASSUME NEW w \in Worker, NEW work \in Work, Straight(w, work)
      PROVE  UNCHANGED process
  BY <1>2 DEF Straight
<1>3. ASSUME NEW w \in Worker, Purges(w) \/ Replaces(w) \/ PlaceBegins(w) \/ PlaceFails(w)
                               \/ Lists(w) \/ CopyFails(w) \/ ListFails(w)
      PROVE  UNCHANGED process
  BY <1>3, PlaceFrame DEF Purges, Replaces, PlaceFails, Lists, CopyFails, ListFails
<1>4. ASSUME NEW w \in Worker, NEW f \in Files, Copies(w, f) \/ Removes(w, f) \/ Places(w, f)
      PROVE  UNCHANGED process
  BY <1>4, PlaceFrame DEF Copies, Removes
<1>5. PruneBegins \/ (\E i \in Ids : Delete(i)) \/ Restored \/ (\E u \in Uploads : Imported(u))
      \/ (\E n \in Names : Edit(n)) \/ Rotates \/ UNCHANGED vars => UNCHANGED process
  BY RotatesFrame, PruneFrame, DeleteFrame DEF history, disk, Restored, Imported, Edit, vars
<1> QED BY Steps, <1>1, <1>2, <1>3, <1>4, <1>5

\* A restore or an import is one that was under way, or has just begun.
LEMMA Replacers ==
  ASSUME TypeOK, Shapes, [Next]_vars, NEW x \in Worker, Replacer(x)'
  PROVE  \/ /\ Replacer(x) /\ workers[x].pc # "idle"
            /\ workers'[x].name = workers[x].name \/ workers'[x].name \in mixed'
         \/ /\ server = "off" /\ UNCHANGED <<world, process>>
            /\ workers[x].pc = "idle" /\ \A w \in Worker : w # x => workers'[w] = workers[w]
            /\ Overlaps(x, workers'[x]) => workers'[x].name \in mixed'
<1> USE Given, IdleFields
<1> DEFINE Old1 == /\ Replacer(x) /\ workers[x].pc # "idle"
                   /\ workers'[x].name = workers[x].name \/ workers'[x].name \in mixed'
           New1 == /\ server = "off" /\ UNCHANGED <<world, process>>
                   /\ workers[x].pc = "idle" /\ \A w \in Worker : w # x => workers'[w] = workers[w]
                   /\ Overlaps(x, workers'[x]) => workers'[x].name \in mixed'
<1>i. workers'[x] # Idle /\ (Replacer(x) => workers[x].pc # "idle")
  BY DEF Replacer, Shapes, Shape
<1>s. workers'[x].job = workers[x].job /\ workers'[x].name = workers[x].name => Old1
  BY <1>i DEF Replacer
<1>1. ASSUME NEW w \in Worker, NEW work \in Work, NEW kind \in Kinds, Begun(w, work, kind)
      PROVE  Old1 \/ New1
  <2>1. CASE x # w
    <3>1. workers'[x] = workers[x]
      BY ONLY <2>1, TypeOK, <1>1, BegunEffect, x \in Worker
    <3> QED BY <3>1, <1>s
  <2>2. CASE x = w
    <3>1. /\ \A v \in Worker : v # x => workers'[v] = workers[v]
          /\ workers'[x].job = work.job /\ workers'[x].name = config
          /\ Overlaps(x, work) => config \in mixed'
          /\ UNCHANGED <<world, process>>
      BY ONLY <2>2, TypeOK, <1>1, BegunEffect
    <3>2. server = "off" /\ workers[x].pc = "idle" /\ work.name = config
      BY <1>1, <2>2, <3>1 DEF Begun, Replacer
    <3>3. Overlaps(x, workers'[x]) <=> Overlaps(x, work)
      BY <3>1, <3>2 DEF Overlaps
    <3> QED BY <3>1, <3>2, <3>3
  <2> QED BY <2>1, <2>2
<1>2. ASSUME NEW w \in Worker, NEW work \in Work, Straight(w, work) PROVE Old1 \/ New1
  <2>0. workers' = [workers EXCEPT ![w] = work]
    BY <1>2 DEF Straight, Becomes
  <2>1. CASE x # w
    BY <2>0, <2>1, <1>s
  <2>2. CASE x = w
    <3>1. workers'[x] = work /\ \A v \in Worker : v # x => workers'[v] = workers[v]
      BY <2>0, <2>2
    <3>2. /\ workers[x].pc = "idle" /\ server = "off" /\ UNCHANGED <<world, process>>
          /\ Overlaps(x, work) => work.name \in mixed'
      BY <2>2, <1>2 DEF Straight, Mixes, disk
    <3> QED BY <3>1, <3>2
  <2> QED BY <2>1, <2>2
<1>3. ASSUME PruneBegins \/ (\E i \in Ids : Delete(i)) PROVE Old1
  <2>1. ASSUME PruneBegins
        PROVE  workers'[x] = workers[x] \/ workers'[x] = Idle \/ workers'[x].job \in {"prune", "delete"}
    BY <2>1 DEF PruneBegins, Becomes, Idle
  <2>2. ASSUME NEW i \in Ids, Delete(i)
        PROVE  workers'[x] = workers[x] \/ workers'[x] = Idle \/ workers'[x].job \in {"prune", "delete"}
    BY <2>2 DEF Delete, Becomes, Idle
  <2> QED BY <1>3, <2>1, <2>2, <1>i, <1>s DEF Replacer
<1>4. ASSUME NEW w \in Worker, Replaces(w) PROVE Old1
  <2>1. CASE x # w
    BY <2>1, <1>4, <1>s DEF Replaces, Becomes
  <2>2. CASE x = w
    <3> DEFINE n == IF workers[w].job = "import" /\ workers[w].snap # 0 THEN config ELSE workers[w].name
    <3>1. workers'[x].job = workers[x].job /\ workers'[x].name = n
      BY <1>4, <2>2 DEF Replaces, Becomes, Work
    <3>2. n # workers[x].name => n \in mixed'
      BY <1>4, <2>2 DEF Replaces, Mixes
    <3> QED BY <3>1, <3>2, <1>i DEF Replacer
  <2> QED BY <2>1, <2>2
<1>5. ASSUME NEW w \in Worker, PlaceBegins(w) PROVE Old1
  <2>1. PICK source \in Sources(workers[w]) :
          Becomes(w, IF source = Nothing THEN Idle
                     ELSE [workers[w] EXCEPT !.pc = "place", !.source = source, !.todo = Present(source)])
    BY <1>5, Zenon DEF PlaceBegins
  <2>2. \/ workers'[x] = Idle
        \/ workers'[x].job = workers[x].job /\ workers'[x].name = workers[x].name
    BY <2>1 DEF Becomes, Work
  <2> QED BY <2>2, <1>i, <1>s
<1>6. ASSUME NEW w \in Worker, Lists(w) \/ CopyFails(w) \/ ListFails(w) \/ PlaceFails(w) \/ Done(w)
      PROVE  Old1
  <2>1. \/ workers'[x] = Idle
        \/ workers'[x].job = workers[x].job /\ workers'[x].name = workers[x].name
    BY <1>6 DEF Lists, CopyFails, ListFails, PlaceFails, Done, Becomes, Work
  <2> QED BY <2>1, <1>i, <1>s
<1>7. ASSUME NEW w \in Worker, NEW f \in Files, Copies(w, f) \/ Removes(w, f) \/ Places(w, f) PROVE Old1
  <2>1. workers'[x].job = workers[x].job /\ workers'[x].name = workers[x].name
    <3>1. CASE Copies(w, f)
      BY <3>1 DEF Copies, Becomes, Work
    <3>2. CASE Removes(w, f)
      BY <3>2 DEF Removes, Becomes, Work
    <3>3. CASE Places(w, f)
      BY <3>3 DEF Places, Becomes, Work
    <3> QED BY <1>7, <3>1, <3>2, <3>3
  <2> QED BY <2>1, <1>s
<1>8. ASSUME NEW w \in Worker, Purges(w) PROVE Old1
  <2>1. \/ workers'[x] = Idle \/ workers'[x] = workers[x]
        \/ \E keys \in SUBSET workers[x].keys : workers'[x] = [workers[x] EXCEPT !.keys = keys]
    BY ONLY TypeOK, <1>8, PurgesEffect, x \in Worker DEF Proceeds
  <2>2. workers'[x] = Idle \/ (workers'[x].job = workers[x].job /\ workers'[x].name = workers[x].name)
    BY <2>1 DEF Work
  <2> QED BY <2>2, <1>i, <1>s
<1>9. Restored \/ (\E u \in Uploads : Imported(u)) => \E w \in Worker : Done(w)
  BY DEF Restored, Imported
<1>10. ASSUME \/ \E n \in Names : Edit(n)
              \/ Submit \/ Stops \/ Launch \/ SaveBegins \/ Rotates \/ Dies
              \/ \E f \in Files : Writes(f)
              \/ StrayStep \/ UNCHANGED vars
       PROVE  Old1
  <2>1. workers' = workers
    BY <1>10, StrayEffect DEF Edit, Submit, Stops, Launch, SaveBegins, Rotates, Dies, Writes, vars
  <2> QED BY <2>1, <1>s
<1>11. Kill => workers'[x] = Idle
  BY DEF Kill
<1> HIDE DEF Old1, New1
<1>12. Old1 \/ New1
  BY Steps, <1>i, <1>1, <1>2, <1>3, <1>4, <1>5, <1>6, <1>7, <1>8, <1>9, <1>10, <1>11
<1> QED BY <1>12 DEF Old1, New1

LEMMA AloneStep == TypeOK /\ Shapes /\ Alone /\ [Next]_vars => Alone'
<1> SUFFICES ASSUME TypeOK, Shapes, Alone, [Next]_vars, NEW w \in Worker, NEW x \in Worker,
                    w # x, Replacer(w)', Replacer(x)', workers'[w].name = workers'[x].name
             PROVE  workers'[w].name \in mixed'
  BY DEF Alone
<1>1. mixed \subseteq mixed'
  BY Monotone
<1>2. ASSUME NEW v \in Worker, NEW y \in Worker, v # y, Replacer(v)', Replacer(y)',
             workers'[v].name = workers'[y].name, workers[v].pc = "idle",
             \A z \in Worker : z # v => workers'[z] = workers[z],
             Overlaps(v, workers'[v]) => workers'[v].name \in mixed'
      PROVE  workers'[v].name \in mixed'
  <2>1. Replacer(y) /\ workers[y].pc # "idle"
    BY <1>2, IdleFields DEF Replacer, Shapes, Shape
  <2>2. y \in Replacing(v)
    BY <1>2, <2>1 DEF Replacing, Replacer
  <2> QED BY <1>2, <2>2 DEF Overlaps
<1>3. \/ /\ Replacer(w) /\ workers[w].pc # "idle"
         /\ workers'[w].name = workers[w].name \/ workers'[w].name \in mixed'
      \/ workers'[w].name \in mixed'
  BY <1>2, Replacers
<1>4. \/ /\ Replacer(x) /\ workers[x].pc # "idle"
         /\ workers'[x].name = workers[x].name \/ workers'[x].name \in mixed'
      \/ workers'[x].name \in mixed'
  BY <1>2, Replacers
<1> QED BY <1>1, <1>3, <1>4 DEF Alone

LEMMA ApartStep == TypeOK /\ Shapes /\ Apart /\ [Next]_vars => Apart'
<1> SUFFICES ASSUME TypeOK, Shapes, Apart, [Next]_vars PROVE Apart'
  OBVIOUS
<1> USE Given
<1>m. mixed \subseteq mixed'
  BY Monotone
<1>r. \A x \in Worker : Replacer(x)' => \/ Replacer(x) /\ workers[x].pc # "idle"
                                        \/ server = "off" /\ server' = "off" /\ workers[x].pc = "idle"
  BY Replacers DEF process
<1>l. LoopFree => ~Replacer("loop")
  BY IdleFields DEF LoopFree, Replacer, Shapes, Shape
<1>1. CASE UNCHANGED process
  BY <1>1, <1>m, <1>r DEF Apart, process
<1>2. CASE Launch
  <2>1. workers' = workers /\ writing' = writing /\ loaded' = config /\ server' = "on" /\ LoopFree
    BY <1>2 DEF Launch
  <2>2. ~Replacer("loop")' /\ writing = {}
    BY <1>l, <1>2, <2>1 DEF Replacer, Apart, Launch
  <2>3. ASSUME NEW u \in Uploads, Replacer(u)' PROVE loaded' \in mixed'
    <3>1. Importing
      BY <2>3, <2>1, IdleFields DEF Importing, Replacer, Shapes, Shape
    <3> QED BY <3>1, <2>1, <1>2 DEF Launch, Mixes
  <2> QED BY <2>1, <2>2, <2>3 DEF Apart
<1>3. CASE Submit \/ Stops
  BY <1>3, <1>l DEF Submit, Stops, Apart, Replacer
<1>4. CASE SaveBegins \/ \E f \in Files : Writes(f)
  BY <1>4, <1>m DEF SaveBegins, Writes, Apart, Replacer
<1>5. CASE Dies \/ Kill
  BY <1>5 DEF Dies, Kill, Apart
<1>6. CASE StrayStep
  <2>1. UNCHANGED <<server, loaded, writing, workers>>
    BY <1>6, StrayEffect
  <2> QED BY <2>1, <1>m DEF Apart, Replacer
<1> QED BY ProcessGoes, <1>1, <1>2, <1>3, <1>4, <1>5, <1>6

\* There is a new stray only where the manager is killed, and it was its server.
LEMMA StraysGo ==
  ASSUME TypeOK, [Next]_vars
  PROVE  \/ strays' = strays
         \/ /\ Kill /\ server = "on"
            /\ strays' = strays \cup {[name |-> loaded, number |-> number, writing |-> writing]}
         \/ \E s \in strays :
              \/ StrayDies(s) /\ strays' = strays \ {s}
              \/ /\ StraySaves(s)
                 /\ Wanders(s, [s EXCEPT !.number = saves + 1, !.writing = Files])
              \/ \E f \in Files : StrayWrites(s, f) /\ Wanders(s, [s EXCEPT !.writing = @ \ {f}])
<1>1. UNCHANGED process => strays' = strays
  BY DEF process
<1>2. Submit \/ Stops \/ Launch \/ SaveBegins \/ Dies \/ (\E f \in Files : Writes(f)) => strays' = strays
  BY DEF Submit, Stops, Launch, SaveBegins, Dies, Writes
<1>3. ASSUME Kill
      PROVE  \/ strays' = strays
             \/ /\ Kill /\ server = "on"
                /\ strays' = strays \cup {[name |-> loaded, number |-> number, writing |-> writing]}
  BY <1>3 DEF Kill
<1>4. ASSUME StrayStep
      PROVE  \E s \in strays :
               \/ StrayDies(s) /\ strays' = strays \ {s}
               \/ /\ StraySaves(s)
                  /\ Wanders(s, [s EXCEPT !.number = saves + 1, !.writing = Files])
               \/ \E f \in Files : StrayWrites(s, f) /\ Wanders(s, [s EXCEPT !.writing = @ \ {f}])
  BY <1>4, Zenon DEF StrayStep, StrayDies, StraySaves, StrayWrites
<1> QED BY ProcessGoes, <1>1, <1>2, <1>3, <1>4, Zenon

\* Their names are names there were.
LEMMA StrayNames ==
  ASSUME TypeOK, [Next]_vars, NEW t \in strays'
  PROVE  \/ t \in strays
         \/ Kill /\ server = "on" /\ t.name = loaded
         \/ \E s \in strays : t.name = s.name /\ strays' = (strays \ {s}) \cup {t}
<1>1. CASE strays' = strays
  BY <1>1
<1>2. CASE /\ Kill /\ server = "on"
           /\ strays' = strays \cup {[name |-> loaded, number |-> number, writing |-> writing]}
  BY <1>2
<1>3. ASSUME NEW s \in strays, NEW r, r.name = s.name, Wanders(s, r)
      PROVE  t \in strays \/ \E q \in strays : t.name = q.name /\ strays' = (strays \ {q}) \cup {t}
  <2>1. t \in strays \/ t = r
    BY <1>3 DEF Wanders
  <2> QED BY <2>1, <1>3, Zenon DEF Wanders
<1>4. \A s \in strays : s \in Stray
  BY DEF TypeOK
<1>5. ASSUME NEW s \in strays, NEW f, Wanders(s, [s EXCEPT !.writing = @ \ {f}])
      PROVE  t \in strays \/ \E q \in strays : t.name = q.name /\ strays' = (strays \ {q}) \cup {t}
  <2>1. [s EXCEPT !.writing = @ \ {f}].name = s.name
    BY <1>4 DEF Stray
  <2> QED BY <2>1, <1>5, <1>3, Zenon
<1>6. ASSUME NEW s \in strays, Wanders(s, [s EXCEPT !.number = saves + 1, !.writing = Files])
      PROVE  t \in strays \/ \E q \in strays : t.name = q.name /\ strays' = (strays \ {q}) \cup {t}
  <2>1. [s EXCEPT !.number = saves + 1, !.writing = Files].name = s.name
    BY <1>4 DEF Stray
  <2> QED BY <2>1, <1>6, <1>3, Zenon
<1>7. ASSUME NEW s \in strays, strays' = strays \ {s} PROVE t \in strays
  BY <1>7
<1> QED BY StraysGo, <1>1, <1>2, <1>5, <1>6, <1>7, Zenon

LEMMA LoneStep == TypeOK /\ Shapes /\ Lone /\ [Next]_vars => Lone'
<1> SUFFICES ASSUME TypeOK, Shapes, Lone, [Next]_vars PROVE Lone'
  OBVIOUS
<1> USE Given
<1>m. mixed \subseteq mixed'
  BY Monotone
<1>h. ASSUME NEW t \in strays', ~Haunted(t.name) PROVE Kill /\ server = "on" /\ t.name = loaded
  <2>1. t \notin strays /\ \A s \in strays : t.name # s.name
    BY <1>h DEF Haunted
  <2> QED BY <2>1, StrayNames
<1>k. Kill => server' = "off" /\ \A w \in Worker : workers'[w] = Idle
  BY DEF Kill
<1>1. ASSUME NEW w \in Worker, Replacer(w)', Haunted(workers[w].name)'
      PROVE  workers'[w].name \in mixed'
  <2>1. ~Kill
    BY <1>1, <1>k, IdleFields DEF Replacer
  <2>2. Haunted(workers'[w].name)
    <3>1. PICK t \in strays' : t.name = workers'[w].name
      BY <1>1 DEF Haunted
    <3> QED BY <3>1, <1>h, <2>1
  <2>3. CASE /\ Replacer(w)
             /\ workers'[w].name = workers[w].name \/ workers'[w].name \in mixed'
    BY <2>2, <2>3, <1>m DEF Lone
  <2>4. CASE Overlaps(w, workers'[w]) => workers'[w].name \in mixed'
    BY <2>2, <2>4, <1>1 DEF Overlaps, Replacer
  <2> QED BY <1>1, <2>3, <2>4, Replacers
<1>2. ASSUME server' = "on", Haunted(loaded)' PROVE loaded' \in mixed'
  <2>1. ~Kill
    BY <1>2, <1>k
  <2>2. Haunted(loaded')
    <3>1. PICK t \in strays' : t.name = loaded'
      BY <1>2 DEF Haunted
    <3> QED BY <3>1, <1>h, <2>1
  <2>3. CASE Launch
    BY <2>2, <2>3 DEF Launch, Mixes
  <2>4. CASE server = "on" /\ loaded' = loaded
    BY <2>2, <2>4, <1>m DEF Lone
  <2>5. \/ UNCHANGED process \/ SaveBegins \/ StrayStep \/ (\E f \in Files : Writes(f))
        => server' = server /\ loaded' = loaded
    BY StrayEffect DEF process, SaveBegins, Writes
  <2>6. Submit \/ Stops \/ Dies => server' # "on"
    BY DEF Submit, Stops, Dies
  <2> QED BY <1>2, <2>1, <2>3, <2>4, <2>5, <2>6, ProcessGoes
<1>3. ASSUME NEW s \in strays', NEW t \in strays', s # t, s.name = t.name PROVE s.name \in mixed'
  <2>1. ASSUME NEW a \in strays', NEW b \in strays', a # b, a.name = b.name,
               Kill, server = "on", a.name = loaded, b \in strays
        PROVE  a.name \in mixed'
    BY <2>1, <1>m DEF Lone, Haunted
  <2>2. ASSUME NEW a \in strays', NEW b \in strays', a # b, a.name = b.name,
               NEW q \in strays, a.name = q.name, strays' = (strays \ {q}) \cup {a}
        PROVE  a.name \in mixed'
    <3>1. b \in strays /\ b # q
      BY <2>2
    <3> QED BY <3>1, <2>2, <1>m DEF Lone
  <2>3. CASE s \in strays /\ t \in strays
    BY <1>3, <2>3, <1>m DEF Lone
  <2>4. ASSUME Kill, server = "on", s \notin strays, t \notin strays PROVE FALSE
    <3>1. strays' = strays \/ strays' = strays \cup {[name |-> loaded, number |-> number, writing |-> writing]}
      BY <2>4 DEF Kill
    <3> QED BY <3>1, <2>4, <1>3
  <2> QED BY <1>3, <2>1, <2>2, <2>3, <2>4, StrayNames
<1> QED BY <1>1, <1>2, <1>3 DEF Lone

\* Of a world that no two change at once, whoever replaces it has it alone.
LEMMA Exclusive ==
  ASSUME TypeOK, Shapes, Alone, Apart, Lone, NEW w \in Worker, Replacer(w), workers[w].name \notin mixed
  PROVE  /\ \A x \in Worker : workers[x].name = workers[w].name /\ workers[x].pc \in {"remove", "place"} => x = w
         /\ writing # {} => loaded # workers[w].name
         /\ \A s \in strays : s.name # workers[w].name
<1> USE Given
<1>1. ASSUME NEW x \in Worker, workers[x].pc \in {"remove", "place"} PROVE Replacer(x)
  <2>1. workers[x].job \in {"none", "snapshot", "restore", "delete", "auto", "prune", "import"}
    BY DEF Work
  <2>2. Shape(x)
    BY DEF Shapes
  <2> QED BY <1>1, <2>1, <2>2 DEF Shape, Copier, Replacer
<1>2. writing # {} => loaded # workers[w].name
  <2>1. w = "loop" \/ w \in Uploads
    BY DEF Shapes, Shape, Replacer
  <2> QED BY <2>1 DEF Apart
<1>3. \A s \in strays : s.name # workers[w].name
  BY DEF Lone, Haunted
<1> QED BY <1>1, <1>2, <1>3 DEF Alone

LEMMA Undisturbed ==
  ASSUME TypeOK, Shapes, Alone, Apart, Lone, [Next]_vars, NEW w \in Worker, Replacer(w),
         workers[w].name \notin mixed, workers[w].pc \notin {"remove", "place"}
  PROVE  world'[workers[w].name] = world[workers[w].name]
<1>1. workers[w].name \in Names
  BY Given DEF Work
<1>2. ASSUME NEW f \in Files, Writes(f) PROVE writing # {}
  BY <1>2 DEF Writes
<1> QED BY <1>1, <1>2, WorldGoes, Exclusive

-----------------------------------------------------------------------------
(***************************************************************************)
(* The way back                                                            *)
(***************************************************************************)

\* What a restore or an import has copied is what it is about to replace.
Copied ==
  \A w \in Worker :
    LET work == workers[w]
        taken == snaps[work.snap]
    IN
    Replacer(w) /\ Before(w) /\ work.snap # 0 /\ work.name \notin mixed /\ work.snap \notin byHand =>
      /\ \A f \in Files \ work.todo : taken.payload[f] = world[work.name][f]
      /\ work.pc = "replace" => taken.listed /\ taken.kind # "auto" /\ taken.name = work.name

\* One that took no snapshot replaces nothing, or no world of the instance.
Bare ==
  \A w \in Worker :
    LET work == workers[w] IN
    Replacer(w) /\ Before(w) /\ work.snap = 0 /\ work.name \notin mixed =>
      world[work.name] = Nothing \/ (work.job = "import" /\ work.name # config)

Kept ==
  \A o \in owed :
    \/ o[1] \in mixed
    \/ \E i \in Ids \ byHand : /\ snaps[i].listed /\ snaps[i].name = o[1]
                               /\ snaps[i].kind # "auto" /\ snaps[i].payload = Save(o[2])

Base == TypeOK /\ Shapes /\ Taken /\ Alone /\ Apart /\ Lone
KeptInv == Base /\ Copied /\ Bare /\ Kept

LEMMA BaseInit == Init => Base
<1> SUFFICES ASSUME Init PROVE Base
  OBVIOUS
<1>1. \A w \in Worker : ~Replacer(w)
  BY IdleFields DEF Init, Replacer
<1>2. Alone
  BY <1>1 DEF Alone
<1>3. Apart
  BY <1>1, Constants DEF Apart, Init, Worker
<1>4. Lone
  BY DEF Init, Lone, Haunted
<1> QED BY <1>2, <1>3, <1>4, InitType, ShapesInit, TakenInit DEF Base

LEMMA BaseStep == Base /\ [Next]_vars => Base'
BY TypeStep, ShapesStep, TakenStep, AloneStep, ApartStep, LoneStep DEF Base

\* A snapshot that is listed, neither automatic nor deleted by hand, stays.
LEMMA Stays ==
  ASSUME TypeOK, Shapes, Taken, Rest, NEW i \in Ids, snaps[i].listed, snaps[i].kind # "auto",
         i \notin byHand
  PROVE  snaps'[i] = snaps[i]
<1> USE Given
<1>1. i <= made /\ i # made + 1
  BY DEF Taken, Numbered
<1>2. ASSUME NEW w \in Worker, workers[w].pc = "purge" PROVE i \notin workers[w].keys
  <2>1. workers[w].job \in {"delete", "prune"}
    BY <1>2 DEF Shapes, Shape
  <2> QED BY <2>1 DEF Taken, Purged
<1>3. ASSUME NEW w \in Worker, Copier(w) PROVE workers[w].snap # i
  BY <1>3 DEF Taken, OneWriter, Written
<1> QED BY <1>1, <1>2, <1>3 DEF Rest, SnapGoes

\* As long as its writer stands still, a snapshot does.
LEMMA WriterStill ==
  ASSUME TypeOK, Shapes, Taken, Rest, NEW w \in Worker, Copier(w), workers'[w] = workers[w]
  PROVE  snaps'[workers[w].snap] = snaps[workers[w].snap]
<1> USE Given
<1> DEFINE i == workers[w].snap
<1>1. i \in Ids /\ i <= made /\ i # made + 1
  BY DEF Taken, Numbered, Shapes, Shape, Work, Ids
<1>2. \A x \in Worker : i \notin workers[x].keys
  BY DEF Taken, OneWriter, Written
<1>3. \A x \in Worker : Copier(x) /\ workers[x].snap = i => x = w
  BY <1>1 DEF Taken, OneWriter
<1>4. ~Copying(w) /\ ~Listing(w) /\ workers'[w] # Idle
  BY IdleFields DEF Copying, Listing, Copier
<1>5. SnapGoes(i)
  BY <1>1 DEF Rest
<1> QED BY <1>1, <1>2, <1>3, <1>4, <1>5 DEF SnapGoes

LEMMA CopiedStep == Base /\ Copied /\ [Next]_vars => Copied'
<1> SUFFICES ASSUME Base, Copied, [Next]_vars, NEW x \in Worker,
                    Replacer(x)', Before(x)', workers'[x].snap # 0,
                    workers'[x].name \notin mixed', workers'[x].snap \notin byHand'
             PROVE  LET work == workers'[x]
                        taken == snaps'[work.snap]
                    IN  /\ \A f \in Files \ work.todo : taken.payload[f] = world'[work.name][f]
                        /\ work.pc = "replace" => taken.listed /\ taken.kind # "auto" /\ taken.name = work.name
  BY DEF Copied
<1> DEFINE i == workers[x].snap
           n == workers[x].name
           Goal == /\ \A f \in Files \ workers'[x].todo :
                        snaps'[workers'[x].snap].payload[f] = world'[workers'[x].name][f]
                   /\ workers'[x].pc = "replace" =>
                        /\ snaps'[workers'[x].snap].listed /\ snaps'[workers'[x].snap].kind # "auto"
                        /\ snaps'[workers'[x].snap].name = workers'[x].name
<1>b. TypeOK /\ Shapes /\ Taken /\ Alone /\ Apart /\ Lone
  BY DEF Base
<1> USE <1>b, Given
<1>m. mixed \subseteq mixed'
  BY Monotone
<1>c. ASSUME Replacer(x), Before(x), i # 0, n \notin mixed, i \notin byHand
      PROVE  /\ \A f \in Files \ workers[x].todo : snaps[i].payload[f] = world[n][f]
             /\ workers[x].pc = "replace" => snaps[i].listed /\ snaps[i].kind # "auto" /\ snaps[i].name = n
  BY <1>c DEF Copied
<1>s. ASSUME workers'[x] = workers[x], world'[n] = world[n], byHand \subseteq byHand',
             i # 0 /\ i \notin byHand => snaps'[i] = snaps[i]
      PROVE  Goal
  BY <1>s, <1>c, <1>m DEF Replacer, Before
<1>1. ASSUME NEW w \in Worker, NEW work \in Work, NEW kind \in Kinds, Begun(w, work, kind)
      PROVE  Goal
  <2>1. /\ made + 1 \in Ids /\ made' = made + 1
        /\ \A v \in Worker : v # w => workers'[v] = workers[v]
        /\ workers'[w].pc = "copy" /\ workers'[w].name = config /\ workers'[w].snap = made + 1
        /\ workers'[w].todo = Present(world[config])
        /\ snaps'[made + 1].payload = Nothing
        /\ \A j \in Ids : j # made + 1 => snaps'[j] = snaps[j]
        /\ byHand' = byHand /\ world' = world
    BY ONLY TypeOK, <1>1, BegunEffect
  <2>2. CASE x = w
    <3>1. \A f \in Files \ Present(world[config]) : world[config][f] = 0 /\ Nothing[f] = 0
      BY DEF Present, Nothing
    <3> QED BY <2>1, <2>2, <3>1
  <2>3. CASE x # w
    <3>1. i # 0 => i \in Ids /\ i # made + 1
      BY DEF Taken, Numbered, Work, Ids
    <3> QED BY <2>1, <2>3, <3>1, <1>s
  <2> QED BY <2>2, <2>3
<1>2. ASSUME NEW w \in Worker, NEW work \in Work, Straight(w, work) PROVE Goal
  <2>1. workers' = [workers EXCEPT ![w] = work] /\ work.snap = 0
        /\ snaps' = snaps /\ world' = world /\ byHand' = byHand
    BY <1>2 DEF Straight, Becomes, disk
  <2>2. x # w
    BY <2>1
  <2> QED BY <2>1, <2>2, <1>s
<1>3. ASSUME PruneBegins \/ \E j \in Ids : Delete(j) PROVE Goal
  <2>1. snaps' = snaps /\ world' = world /\ byHand \subseteq byHand'
    BY <1>3, PruneFrame, DeleteFrame DEF disk, history
  <2>2. workers'[x] = workers[x]
    <3>1. ASSUME PruneBegins PROVE workers'[x] = workers[x]
      BY <3>1 DEF PruneBegins, Becomes, Replacer, Idle
    <3>2. ASSUME NEW j \in Ids, Delete(j) PROVE workers'[x] = workers[x]
      BY <3>2 DEF Delete, Becomes, Replacer, Idle
    <3> QED BY <1>3, <3>1, <3>2
  <2> QED BY <2>1, <2>2, <1>s
<1>4. ASSUME Rest PROVE Goal
  <2>1. /\ workers'[x].job = workers[x].job /\ workers'[x].snap = i
        /\ Before(x) /\ workers'[x].name = n
        /\ workers'[x] = workers[x] \/ Copying(x) \/ Listing(x)
    <3>1. Goes(x) /\ workers'[x] # Idle
      BY <1>4, IdleFields DEF Rest, Replacer
    <3> QED BY <3>1 DEF Goes
  <2>2. Replacer(x) /\ n \notin mixed /\ byHand' = byHand /\ i # 0 /\ i \notin byHand /\ i \in Ids
    BY <1>4, <2>1, <1>m DEF Replacer, Rest, Work, Ids
  <2>3. world'[n] = world[n]
    BY <2>1, <2>2, Undisturbed DEF Before
  <2>4. CASE workers'[x] = workers[x]
    <3>1. CASE Copier(x)
      BY <3>1, <2>2, <2>3, <2>4, <1>4, <1>s, WriterStill
    <3>2. CASE ~Copier(x)
      <4>1. snaps[i].listed /\ snaps[i].kind # "auto"
        BY <3>2, <2>1, <2>2, <1>c DEF Copier, Before
      <4> QED BY <4>1, <2>2, <2>3, <2>4, <1>4, <1>s, Stays
    <3> QED BY <3>1, <3>2
  <2>5. CASE Copying(x)
    <3>1. PICK f \in workers[x].todo :
            /\ workers'[x].todo = workers[x].todo \ {f}
            /\ snaps'[i].payload = [snaps[i].payload EXCEPT ![f] = world[n][f]]
      BY <2>5 DEF Copying
    <3>2. snaps[i].payload \in [Files -> {0} \cup Numbers] /\ f \in Files
      BY <2>2 DEF Snap, Content, Work
    <3>3. workers'[x].pc # "replace"
      BY <2>5 DEF Copying
    <3> QED BY <3>1, <3>2, <3>3, <2>1, <2>2, <2>3, <1>c
  <2>6. CASE Listing(x)
    <3>1. /\ workers[x].pc = "list" /\ workers'[x].pc = "replace" /\ workers'[x].todo = workers[x].todo
          /\ snaps'[i] = [snaps[i] EXCEPT !.listed = TRUE]
      BY <2>6 DEF Listing, Before
    <3>2. snaps[i].name = n /\ snaps[i].kind \in {"manual", "pre-import"}
      BY <3>1, <2>2 DEF Taken, OneWriter, Written, Copier
    <3>3. /\ snaps'[i].payload = snaps[i].payload /\ snaps'[i].kind = snaps[i].kind
          /\ snaps'[i].name = snaps[i].name /\ snaps'[i].listed
      BY <3>1, <2>2 DEF Snap
    <3>4. \A f \in Files \ workers[x].todo : snaps[i].payload[f] = world[n][f]
      BY <2>1, <2>2, <1>c
    <3>5. \A f \in Files \ workers'[x].todo :
            snaps'[workers'[x].snap].payload[f] = world'[workers'[x].name][f]
      <4>1. workers'[x].todo = workers[x].todo
        BY <3>1
      <4>2. workers'[x].snap = i /\ workers'[x].name = n
        BY <2>1
      <4>3. snaps'[i].payload = snaps[i].payload
        BY <3>3
      <4> HIDE DEF i, n
      <4> QED BY ONLY <4>1, <4>2, <4>3, <3>4, <2>3
    <3>6. /\ snaps'[workers'[x].snap].listed /\ snaps'[workers'[x].snap].kind # "auto"
          /\ snaps'[workers'[x].snap].name = workers'[x].name
      BY ONLY <3>2, <3>3, <2>1
    <3> QED BY <3>5, <3>6
  <2> QED BY <2>1, <2>4, <2>5, <2>6
<1> HIDE DEF Goal
<1>5. Goal
  BY RestSteps, <1>1, <1>2, <1>3, <1>4
<1> QED BY <1>5 DEF Goal

LEMMA ConfigGoes ==
  ASSUME TypeOK, [Next]_vars
  PROVE  \/ config' = config \/ (\E n \in Names : Edit(n)) \/ \E u \in Uploads : Imported(u)
<1>1. ASSUME NEW w \in Worker, NEW work \in Work, NEW kind \in Kinds, Begun(w, work, kind)
      PROVE  config' = config
  BY <1>1, BegunEffect
<1>2. ASSUME NEW w \in Worker, NEW work \in Work, Straight(w, work) PROVE config' = config
  BY <1>2 DEF Straight
<1>3. ASSUME NEW w \in Worker, Purges(w) \/ Replaces(w) \/ PlaceBegins(w) \/ PlaceFails(w)
                               \/ Lists(w) \/ CopyFails(w) \/ ListFails(w)
      PROVE  config' = config
  BY <1>3, PlaceFrame DEF Purges, Replaces, PlaceFails, Lists, CopyFails, ListFails
<1>4. ASSUME NEW w \in Worker, NEW f \in Files, Copies(w, f) \/ Removes(w, f) \/ Places(w, f) \/ Writes(f)
      PROVE  config' = config
  BY <1>4, PlaceFrame DEF Copies, Removes, Writes
<1>5. PruneBegins \/ (\E i \in Ids : Delete(i)) \/ Restored \/ Submit \/ Stops \/ Launch \/ SaveBegins
      \/ Rotates \/ Dies \/ Kill \/ UNCHANGED vars => config' = config
  BY KillFrame, RotatesFrame, PruneFrame, DeleteFrame DEF history, disk, Restored, Submit, Stops,
         Launch, SaveBegins, Dies, vars
<1> QED BY Steps, StrayEffect, Given, <1>1, <1>2, <1>3, <1>4, <1>5

LEMMA BareStep == Base /\ Bare /\ [Next]_vars => Bare'
<1> SUFFICES ASSUME Base, Bare, [Next]_vars, NEW x \in Worker,
                    Replacer(x)', Before(x)', workers'[x].snap = 0, workers'[x].name \notin mixed'
             PROVE  \/ world'[workers'[x].name] = Nothing
                    \/ workers'[x].job = "import" /\ workers'[x].name # config'
  BY DEF Bare
<1> DEFINE n == workers[x].name
           Goal == \/ world'[workers'[x].name] = Nothing
                   \/ workers'[x].job = "import" /\ workers'[x].name # config'
<1>b. TypeOK /\ Shapes /\ Taken /\ Alone /\ Apart /\ Lone
  BY DEF Base
<1> USE <1>b, Given
<1>m. mixed \subseteq mixed'
  BY Monotone
<1>s. ASSUME workers'[x] = workers[x], world'[n] = world[n], n = config' => n = config PROVE Goal
  BY <1>s, <1>m DEF Bare, Replacer, Before
<1>1. ASSUME NEW w \in Worker, NEW work \in Work, NEW kind \in Kinds, Begun(w, work, kind)
      PROVE  Goal
  <2>1. /\ made + 1 \in Ids
        /\ \A v \in Worker : v # w => workers'[v] = workers[v]
        /\ workers'[w].snap = made + 1
        /\ config' = config /\ world' = world
    BY ONLY TypeOK, <1>1, BegunEffect
  <2> QED BY <2>1, <1>s
<1>2. ASSUME NEW w \in Worker, NEW work \in Work, Straight(w, work) PROVE Goal
  <2>1. workers' = [workers EXCEPT ![w] = work] /\ world' = world /\ config' = config
        /\ world[config] = Nothing
    BY <1>2 DEF Straight, Becomes, disk
  <2>2. CASE x = w
    BY <2>1, <2>2, <1>2 DEF Straight
  <2> QED BY <2>1, <2>2, <1>s
<1>3. ASSUME PruneBegins \/ \E j \in Ids : Delete(j) PROVE Goal
  <2>1. config' = config /\ world' = world
    BY <1>3, PruneFrame, DeleteFrame DEF disk
  <2>2. workers'[x] = workers[x]
    <3>1. ASSUME PruneBegins PROVE workers'[x] = workers[x]
      BY <3>1 DEF PruneBegins, Becomes, Replacer, Idle
    <3>2. ASSUME NEW j \in Ids, Delete(j) PROVE workers'[x] = workers[x]
      BY <3>2 DEF Delete, Becomes, Replacer, Idle
    <3> QED BY <1>3, <3>1, <3>2
  <2> QED BY <2>1, <2>2, <1>s
<1>4. ASSUME Rest PROVE Goal
  <2>1. /\ workers'[x].job = workers[x].job /\ workers'[x].snap = workers[x].snap
        /\ Before(x) /\ workers'[x].name = n
        /\ workers'[x] = workers[x] \/ Copying(x) \/ Listing(x)
    <3>1. Goes(x) /\ workers'[x] # Idle
      BY <1>4, IdleFields DEF Rest, Replacer
    <3> QED BY <3>1 DEF Goes
  <2>2. Replacer(x) /\ n \notin mixed
    BY <2>1, <1>m DEF Replacer
  <2>3. ~Copier(x)
    BY <2>1 DEF Shapes, Shape
  <2>4. workers'[x] = workers[x]
    BY <2>1, <2>3 DEF Copier, Copying, Listing
  <2>5. world'[n] = world[n]
    BY <2>1, <2>2, Undisturbed DEF Before
  <2>6. CASE config' = config
    BY <2>4, <2>5, <2>6, <1>s
  <2>7. ASSUME NEW m \in Names, Edit(m) PROVE Goal
    <3>1. m \notin mixed' => ~Importing
      BY <2>7 DEF Edit, Mixes
    <3>2. x = "loop" \/ x \in Uploads
      BY <2>2 DEF Shapes, Shape, Replacer
    <3>3. workers[x].pc # "idle"
      BY <2>1 DEF Before
    <3>4. LoopFree /\ config' = m
      BY <2>7 DEF Edit
    <3> QED BY <3>1, <3>2, <3>3, <3>4, <2>1, <2>4, <2>5, <1>s DEF Importing, LoopFree
  <2>8. ASSUME NEW u \in Uploads, Imported(u) PROVE Goal
    <3>1. workers[u].pc = "placed" /\ (config' = config \/ config' = workers[u].name)
      BY <2>8 DEF Imported
    <3>2. u # x /\ Replacer(u)
      <4>1. workers[u].job \in {"none", "snapshot", "restore", "delete", "auto", "prune", "import"}
        BY DEF Work
      <4>2. Shape(u)
        BY DEF Shapes
      <4> QED BY <3>1, <4>1, <4>2, <2>1 DEF Shape, Replacer, Copier, Before
    <3>3. workers[u].name # n
      BY <3>2, <2>2 DEF Alone
    <3> QED BY <3>1, <3>3, <2>4, <2>5, <1>s
  <2>9. \/ config' = config \/ (\E m \in Names : Edit(m)) \/ \E u \in Uploads : Imported(u)
    BY ConfigGoes
  <2> QED BY <2>6, <2>7, <2>8, <2>9
<1> HIDE DEF Goal
<1>5. Goal
  BY RestSteps, <1>1, <1>2, <1>3, <1>4
<1> QED BY <1>5 DEF Goal

\* What is owed grows where a world is about to be removed, and what a
\* deletion by hand gives up is owed no longer.
LEMMA OwedGoes ==
  ASSUME TypeOK, [Next]_vars, NEW o \in owed'
  PROVE  \/ o \in owed /\ byHand' = byHand
         \/ \E i \in Ids : /\ Delete(i) /\ o \in owed
                           /\ o[1] # config \/ snaps[i].payload # Save(o[2])
         \/ \E w \in Worker :
              /\ Replaces(w) /\ o \in {config} \X Numbers
              /\ world[o[1]] = Save(o[2]) /\ workers[w].snap \notin byHand
              /\ o[1] = IF workers[w].job = "import" /\ workers[w].snap # 0
                          THEN config ELSE workers[w].name
<1>1. ASSUME NEW w \in Worker, NEW work \in Work, NEW kind \in Kinds, Begun(w, work, kind)
      PROVE  owed' = owed /\ byHand' = byHand
  BY <1>1, BegunEffect
<1>2. ASSUME NEW w \in Worker, NEW work \in Work, Straight(w, work)
      PROVE  owed' = owed /\ byHand' = byHand
  BY <1>2 DEF Straight
<1>3. ASSUME NEW w \in Worker, Purges(w) \/ PlaceBegins(w) \/ PlaceFails(w)
                               \/ Lists(w) \/ CopyFails(w) \/ ListFails(w)
      PROVE  owed' = owed /\ byHand' = byHand
  BY <1>3, PlaceFrame DEF Purges, PlaceFails, Lists, CopyFails, ListFails, history
<1>4. ASSUME NEW w \in Worker, NEW f \in Files, Copies(w, f) \/ Removes(w, f) \/ Places(w, f) \/ Writes(f)
      PROVE  owed' = owed /\ byHand' = byHand
  BY <1>4, PlaceFrame DEF Copies, Removes, Writes, history
<1>5. PruneBegins \/ Restored \/ (\E u \in Uploads : Imported(u)) \/ (\E n \in Names : Edit(n))
      \/ Submit \/ Stops \/ Launch \/ SaveBegins \/ Rotates \/ Dies \/ Kill \/ UNCHANGED vars
        => owed' = owed /\ byHand' = byHand
  BY KillFrame, RotatesFrame DEF PruneBegins, Restored, Imported, Edit, Submit, Stops, Launch,
         SaveBegins, Dies, history, vars
<1>6. ASSUME NEW i \in Ids, Delete(i)
      PROVE  o \in owed /\ (o[1] # config \/ snaps[i].payload # Save(o[2]))
  BY <1>6 DEF Delete
<1>7. ASSUME NEW w \in Worker, Replaces(w)
      PROVE  \/ o \in owed /\ byHand' = byHand
             \/ /\ o \in {config} \X Numbers
                /\ world[o[1]] = Save(o[2]) /\ workers[w].snap \notin byHand
                /\ o[1] = IF workers[w].job = "import" /\ workers[w].snap # 0
                            THEN config ELSE workers[w].name
  BY <1>7 DEF Replaces
<1> QED BY Steps, StrayEffect, Given, <1>1, <1>2, <1>3, <1>4, <1>5, <1>6, <1>7

LEMMA KeptStep == Base /\ Copied /\ Bare /\ Kept /\ [Next]_vars => Kept'
<1> SUFFICES ASSUME Base, Copied, Bare, Kept, [Next]_vars, NEW o \in owed', o[1] \notin mixed'
             PROVE  \E i \in Ids \ byHand' :
                      /\ snaps'[i].listed /\ snaps'[i].name = o[1]
                      /\ snaps'[i].kind # "auto" /\ snaps'[i].payload = Save(o[2])
  BY DEF Kept
<1> DEFINE Safe(i) == /\ snaps[i].listed /\ snaps[i].name = o[1]
                      /\ snaps[i].kind # "auto" /\ snaps[i].payload = Save(o[2])
<1>b. TypeOK /\ Shapes /\ Taken /\ Alone /\ Apart /\ Lone
  BY DEF Base
<1> USE <1>b, Given
<1>m. o[1] \notin mixed
  BY Monotone
<1>1. \E i \in Ids \ byHand' : Safe(i)
  <2>1. ASSUME o \in owed PROVE \E i \in Ids \ byHand : Safe(i)
    BY <2>1, <1>m DEF Kept
  <2>2. CASE o \in owed /\ byHand' = byHand
    BY <2>1, <2>2
  <2>3. ASSUME NEW j \in Ids, Delete(j), o \in owed, o[1] # config \/ snaps[j].payload # Save(o[2])
        PROVE  \E i \in Ids \ byHand' : Safe(i)
    <3>1. PICK i \in Ids \ byHand : Safe(i)
      BY <2>1, <2>3
    <3>2. snaps[j].name = config /\ byHand' = byHand \cup {j}
      BY <2>3 DEF Delete, Listed
    <3>3. i # j
      BY <3>1, <3>2, <2>3
    <3> QED BY <3>1, <3>2, <3>3
  <2>4. ASSUME NEW w \in Worker, Replaces(w), o \in {config} \X Numbers,
               world[o[1]] = Save(o[2]), workers[w].snap \notin byHand,
               o[1] = IF workers[w].job = "import" /\ workers[w].snap # 0
                        THEN config ELSE workers[w].name
        PROVE  \E i \in Ids \ byHand' : Safe(i)
    <3> DEFINE i == workers[w].snap
    <3>1. /\ workers[w].pc = "replace" /\ byHand' = byHand
          /\ o[1] # workers[w].name => o[1] \in mixed'
      BY <2>4 DEF Replaces, Mixes
    <3>2. o[1] = workers[w].name /\ o[1] = config /\ o[2] \in Numbers
      BY <3>1, <2>4
    <3>3. Replacer(w)
      <4>1. workers[w].job \in {"none", "snapshot", "restore", "delete", "auto", "prune", "import"}
        BY DEF Work
      <4>2. Shape(w)
        BY DEF Shapes
      <4> QED BY <3>1, <4>1, <4>2 DEF Shape, Replacer, Copier
    <3>4. i # 0
      BY <3>1, <3>2, <3>3, <2>4, <1>m, Contents DEF Bare, Before
    <3>5. /\ \A f \in Files \ workers[w].todo : snaps[i].payload[f] = world[o[1]][f]
          /\ snaps[i].listed /\ snaps[i].kind # "auto" /\ snaps[i].name = o[1]
      <4>1. workers[w].name \notin mixed /\ i \notin byHand /\ Before(w)
        BY <3>1, <3>2, <2>4, <1>m DEF Before
      <4>2. /\ \A f \in Files \ workers[w].todo : snaps[i].payload[f] = world[workers[w].name][f]
            /\ workers[w].pc = "replace" =>
                 snaps[i].listed /\ snaps[i].kind # "auto" /\ snaps[i].name = workers[w].name
        BY <4>1, <3>3, <3>4 DEF Copied
      <4> QED BY <4>2, <3>1, <3>2
    <3>6. i \in Ids /\ workers[w].todo = {}
      BY <3>1, <3>4 DEF Shapes, Shape, Work, Ids
    <3>7. snaps[i].payload = Save(o[2])
      <4>1. snaps[i].payload \in Content /\ Save(o[2]) \in Content
        BY <3>2, <3>6, Contents DEF Snap
      <4>2. \A f \in Files : snaps[i].payload[f] = Save(o[2])[f]
        BY <3>5, <3>6, <2>4
      <4> QED BY <4>1, <4>2 DEF Content
    <3> QED BY <3>1, <3>5, <3>6, <3>7, <2>4
  <2> HIDE DEF Safe
  <2> QED BY OwedGoes, <2>1, <2>2, <2>3, <2>4
<1>2. PICK i \in Ids \ byHand' : Safe(i)
  BY <1>1
<1>3. snaps'[i] = snaps[i]
  <2>1. CASE Rest
    BY <2>1, <1>2, Stays DEF Rest
  <2>2. ASSUME NEW w \in Worker, NEW work \in Work, NEW kind \in Kinds, Begun(w, work, kind)
        PROVE  snaps'[i] = snaps[i]
    <3>1. \A j \in Ids : j # made + 1 => snaps'[j] = snaps[j]
      BY ONLY TypeOK, <2>2, BegunEffect
    <3> QED BY <3>1, <1>2 DEF Taken, Numbered
  <2>3. ASSUME NEW w \in Worker, NEW work \in Work, Straight(w, work) PROVE snaps'[i] = snaps[i]
    BY <2>3 DEF Straight, disk
  <2>4. PruneBegins \/ (\E j \in Ids : Delete(j)) => snaps'[i] = snaps[i]
    BY PruneFrame, DeleteFrame DEF disk
  <2> QED BY RestSteps, <2>1, <2>2, <2>3, <2>4
<1> QED BY <1>2, <1>3

LEMMA KeptInit == Init => Copied /\ Bare /\ Kept
BY IdleFields DEF Init, Copied, Bare, Kept, Replacer

LEMMA KeptIsWayBack == Kept => WayBack
BY DEF Kept, WayBack, Listed

\* Wherever a restore or an import is broken off, and whatever the schedule
\* prunes, the whole world it replaced is still there.
THEOREM WayBackCorrect == Spec => []WayBack
<1>1. Init => KeptInv
  BY BaseInit, KeptInit DEF KeptInv
<1>2. KeptInv /\ [Next]_vars => KeptInv'
  BY BaseStep, CopiedStep, BareStep, KeptStep DEF KeptInv
<1>3. KeptInv => WayBack
  BY KeptIsWayBack DEF KeptInv
<1> QED BY <1>1, <1>2, <1>3, PTL DEF Spec

-----------------------------------------------------------------------------
(***************************************************************************)
(* Whole worlds                                                            *)
(***************************************************************************)

\* What a worker does that removes or places files, or is about to.
LEMMA WorkerGoes ==
  ASSUME TypeOK, Shapes, [Next]_vars, NEW x \in Worker
  PROVE  \/ workers'[x] = workers[x]
         \/ Replaces(x) \/ PlaceBegins(x)
         \/ \E f \in Files : Removes(x, f) \/ Places(x, f)
         \/ workers[x].pc \in {"remove", "place"} /\ workers'[x] = Idle /\ workers[x].name \in torn'
         \/ /\ workers[x].pc \notin {"remove", "place"}
            /\ workers'[x].pc \notin {"remove", "place", "placed"}
<1> USE Given, IdleFields
<1> DEFINE Elsewhere == /\ workers[x].pc \notin {"remove", "place"}
                        /\ workers'[x].pc \notin {"remove", "place", "placed"}
           Same == workers'[x] = workers[x]
<1>1. ASSUME NEW w \in Worker, NEW work \in Work, NEW kind \in Kinds, Begun(w, work, kind)
      PROVE  Same \/ Elsewhere
  <2>1. /\ \A v \in Worker : v # w => workers'[v] = workers[v]
        /\ workers'[w].pc = "copy"
    BY ONLY TypeOK, <1>1, BegunEffect
  <2>2. workers[w].pc = "idle"
    BY <1>1 DEF Begun
  <2> QED BY <2>1, <2>2
<1>2. ASSUME NEW w \in Worker, NEW work \in Work, Straight(w, work) PROVE Same \/ Elsewhere
  BY <1>2 DEF Straight, Becomes
<1>3. PruneBegins => Same \/ Elsewhere
  BY DEF PruneBegins, Becomes, Idle
<1>4. ASSUME NEW i \in Ids, Delete(i) PROVE Same \/ Elsewhere
  BY <1>4 DEF Delete, LoopFree, Becomes, Idle
<1>5. ASSUME NEW w \in Worker, Purges(w) PROVE Same \/ Elsewhere
  <2>1. /\ workers[w].pc = "purge"
        /\ \A v \in Worker : v # w => workers'[v] = workers[v]
        /\ \/ workers'[w] = Idle
           \/ \E keys \in SUBSET workers[w].keys : workers'[w] = [workers[w] EXCEPT !.keys = keys]
    BY ONLY TypeOK, <1>5, PurgesEffect DEF Proceeds
  <2>2. workers'[w].pc \in {"idle", "purge"}
    BY <2>1 DEF Work
  <2> QED BY <2>1, <2>2
<1>6. ASSUME NEW w \in Worker, NEW f \in Files, Copies(w, f) PROVE Same \/ Elsewhere
  <2>1. workers[w].pc = "copy" /\ workers'[w].pc \in {"copy", "list"} /\ (x # w => Same)
    BY <1>6 DEF Copies, Becomes, Work
  <2> QED BY <2>1
<1>7. ASSUME NEW w \in Worker, CopyFails(w) \/ ListFails(w) \/ Lists(w) PROVE Same \/ Elsewhere
  <2>1. /\ workers[w].pc \in {"copy", "list"} /\ (x # w => Same)
        /\ workers'[w].pc \in {"idle", "ready", "replace"}
    BY <1>7 DEF CopyFails, ListFails, Lists, Done, Becomes, Work
  <2> QED BY <2>1
<1>8. ASSUME NEW w \in Worker,
             Replaces(w) \/ PlaceBegins(w) \/ \E f \in Files : Removes(w, f) \/ Places(w, f)
      PROVE  x = w \/ Same
  <2>1. CASE PlaceBegins(w)
    <3>1. PICK source : workers' = [workers EXCEPT ![w] =
             IF source = Nothing THEN Idle
             ELSE [workers[w] EXCEPT !.pc = "place", !.source = source, !.todo = Present(source)]]
      BY <2>1, Zenon DEF PlaceBegins, Becomes
    <3> QED BY <3>1
  <2>2. CASE Replaces(w)
    BY <2>2 DEF Replaces, Becomes
  <2>3. ASSUME NEW f \in Files, Removes(w, f) PROVE x = w \/ Same
    BY <2>3 DEF Removes, Becomes
  <2>4. ASSUME NEW f \in Files, Places(w, f) PROVE x = w \/ Same
    <3>1. workers' = [workers EXCEPT ![w] =
             [workers[w] EXCEPT !.todo = @ \ {f},
                                !.pc = IF workers[w].todo = {f} THEN "placed" ELSE "place"]]
      BY <2>4, Zenon DEF Places, Becomes
    <3> QED BY <3>1
  <2> QED BY <1>8, <2>1, <2>2, <2>3, <2>4
<1>9. ASSUME NEW w \in Worker, PlaceFails(w)
      PROVE  \/ Same
             \/ workers[x].pc \in {"remove", "place"} /\ workers'[x] = Idle /\ workers[x].name \in torn'
  BY <1>9 DEF PlaceFails, Done, Becomes
<1>10. ASSUME NEW w \in Worker, Done(w), workers[w].pc = "placed" PROVE Same \/ Elsewhere
  BY <1>10 DEF Done, Becomes
<1>11. Restored \/ (\E u \in Uploads : Imported(u)) => Same \/ Elsewhere
  BY <1>10 DEF Restored, Imported
<1>12. (\E n \in Names : Edit(n)) \/ Submit \/ Stops \/ Launch \/ SaveBegins \/ Rotates \/ Dies
       \/ (\E f \in Files : Writes(f)) \/ StrayStep \/ UNCHANGED vars => Same
  BY StrayEffect DEF Edit, Submit, Stops, Launch, SaveBegins, Rotates, Dies, Writes, vars
<1>13. Kill => \/ Elsewhere
               \/ workers[x].pc \in {"remove", "place"} /\ workers'[x] = Idle /\ workers[x].name \in torn'
  BY DEF Kill, Changing, Work
<1> HIDE DEF Same, Elsewhere
<1>14. \/ Same \/ Elsewhere \/ Replaces(x) \/ PlaceBegins(x)
       \/ \E f \in Files : Removes(x, f) \/ Places(x, f)
       \/ workers[x].pc \in {"remove", "place"} /\ workers'[x] = Idle /\ workers[x].name \in torn'
  BY Steps, <1>1, <1>2, <1>3, <1>4, <1>5, <1>6, <1>7, <1>8, <1>9, <1>11, <1>12, <1>13
<1> QED BY <1>14 DEF Same, Elsewhere

\* What a server is that is up, the manager's own or a stray.
Own == [name |-> loaded, number |-> number, writing |-> writing]
Savers == strays \cup {s \in {Own} : server = "on"}
At(n) == {s \in Savers : s.name = n /\ s.writing # {}}

\* A name is in order but while somebody changes it or a server saves.
Ordered ==
  \A n \in Names \ (torn \cup mixed) :
    Changing(n) = {} /\ At(n) = {} => world[n] = Nothing \/ Whole(world[n])

Placing ==
  \A w \in Worker :
    LET work == workers[w] IN
    work.pc \in {"place", "placed"} /\ work.name \notin torn \cup mixed =>
      /\ \A f \in Files \ work.todo : world[work.name][f] = work.source[f]
      /\ Whole(work.source)

\* What it has written of its save is there, and the rest of an earlier one.
Saving ==
  \A s \in Savers :
    s.writing # {} /\ s.name \notin torn \cup mixed =>
      /\ Present(world[s.name]) = Files
      /\ \A f \in Files \ s.writing : world[s.name][f] = s.number

\* What removes or places files is a restore or an import.
LEMMA ReplacerPc ==
  ASSUME TypeOK, Shapes, NEW w \in Worker, workers[w].pc \in {"remove", "place", "placed"}
  PROVE  Replacer(w)
<1>1. workers[w].job \in {"none", "snapshot", "restore", "delete", "auto", "prune", "import"}
  BY Given DEF Work
<1>2. Shape(w)
  BY DEF Shapes
<1> QED BY <1>1, <1>2 DEF Shape, Replacer, Copier

LEMMA SaverType == TypeOK => \A s \in Savers : s \in Stray /\ s.name \in Names
BY DEF TypeOK, Savers, Own, Stray

LEMMA OwnFields ==
  /\ Own.name = loaded /\ Own.number = number /\ Own.writing = writing
  /\ server = "on" => Own \in Savers
BY DEF Own, Savers

\* A name that two servers have, or one is counted for twice, is a mixed one.
LEMMA SaversApart ==
  ASSUME Lone, NEW s \in Savers, NEW t \in Savers, s.name = t.name, s.name \notin mixed
  PROVE  s = t /\ ~(s \in strays /\ s = Own /\ server = "on")
<1>1. ASSUME NEW r \in strays, r.name = loaded, server = "on", r.name \notin mixed PROVE FALSE
  BY <1>1 DEF Lone, Haunted
<1>2. CASE s \in strays /\ t \in strays
  BY <1>1, <1>2, OwnFields DEF Lone
<1>3. CASE s \notin strays
  <2>1. s = Own /\ server = "on"
    BY <1>3 DEF Savers
  <2>2. t \notin strays
    BY <2>1, <1>1, OwnFields
  <2> QED BY <1>3, <2>1, <2>2 DEF Savers
<1>4. CASE t \notin strays
  <2>1. t = Own /\ server = "on"
    BY <1>4 DEF Savers
  <2>2. s \notin strays
    BY <2>1, <1>1, OwnFields
  <2> QED BY <1>4, <2>1, <2>2 DEF Savers
<1> QED BY <1>2, <1>3, <1>4

\* A server that has still the same to write wrote nothing.
LEMMA SaverStill ==
  ASSUME Base, [Next]_vars, NEW s \in Savers, s \in Savers', s.writing # {}, s.name \notin mixed
  PROVE  world'[s.name] = world[s.name]
<1>b. TypeOK /\ Shapes /\ Alone /\ Apart /\ Lone
  BY DEF Base
<1> USE <1>b, Given
<1>0. s \in Stray /\ s.name \in Names
  BY SaverType
<1>1. ASSUME NEW f \in Files, Writes(f), loaded = s.name PROVE FALSE
  <2>1. server = "on"
    BY <1>1 DEF Apart, Writes
  <2>2. s = Own /\ s \notin strays
    BY <1>1, <2>1, SaversApart, OwnFields
  <2>3. s = Own' /\ strays' = strays /\ writing' # writing
    BY <1>1, <2>2 DEF Savers, Writes
  <2> QED BY <2>2, <2>3 DEF Own
<1>2. ASSUME NEW t \in strays, NEW f \in Files, t.name = s.name, StrayWrites(t, f) PROVE FALSE
  <2>1. t \in Savers
    BY DEF Savers
  <2>2. t = s
    BY <1>2, <2>1, SaversApart
  <2>3. UNCHANGED <<server, loaded, number, writing>> /\ f \in s.writing
        /\ strays' = (strays \ {s}) \cup {[s EXCEPT !.writing = @ \ {f}]}
    BY <1>2, <2>2 DEF StrayWrites, Wanders
  <2>4. [s EXCEPT !.writing = @ \ {f}] # s
    <3>1. [s EXCEPT !.writing = @ \ {f}].writing = s.writing \ {f}
      BY <1>0 DEF Stray
    <3> QED BY <3>1, <2>3
  <2>5. s = Own /\ server = "on"
    BY <2>3, <2>4 DEF Savers, Own
  <2> QED BY <2>2, <2>5, SaversApart
<1>3. ASSUME NEW w \in Worker, workers[w].name = s.name, workers[w].pc \in {"remove", "place"} PROVE FALSE
  <2>1. Replacer(w)
    BY <1>3, ReplacerPc
  <2> QED BY <1>3, <2>1, Exclusive, OwnFields DEF Savers
<1> QED BY <1>0, <1>1, <1>2, <1>3, WorldGoes

\* One that has something else to write has just begun to save, or has written.
Wrote(t, f, s) ==
  /\ f \in t.writing /\ s = [t EXCEPT !.writing = @ \ {f}]
  /\ world' = [world EXCEPT ![t.name][f] = t.number]

LEMMA SaverNew ==
  ASSUME TypeOK, Apart, [Next]_vars, NEW s \in Savers', s \notin Savers, s.writing # {}
  PROVE  \/ /\ s.writing = Files /\ world' = world
            /\ Present(world[s.name]) = Files \/ s.name \in torn'
         \/ \E t \in Savers, f \in Files : Wrote(t, f, s)
<1> DEFINE Goal == \/ /\ s.writing = Files /\ world' = world
                      /\ Present(world[s.name]) = Files \/ s.name \in torn'
                   \/ \E t \in Savers, f \in Files : Wrote(t, f, s)
<1>1. CASE UNCHANGED process
  BY <1>1 DEF process, Savers, Own
<1>2. CASE Submit \/ Stops \/ Dies
  BY <1>2 DEF Submit, Stops, Dies, Savers
<1>3. CASE Launch
  <2>1. strays' = strays /\ writing' = {}
    BY <1>3 DEF Launch, Apart
  <2> QED BY <2>1 DEF Savers, Own
<1>4. CASE SaveBegins
  <2>1. s = Own' /\ world' = world /\ writing' = Files /\ loaded' = loaded
    BY <1>4 DEF SaveBegins, Savers, disk
  <2>2. s.writing = Files /\ s.name = loaded
    BY <2>1 DEF Own
  <2> QED BY <1>4, <2>1, <2>2 DEF SaveBegins, Disorders
<1>5. ASSUME NEW f \in Files, Writes(f) PROVE Goal
  <2>1. /\ s = Own' /\ f \in writing /\ server = "on" /\ writing' = writing \ {f}
        /\ loaded' = loaded /\ number' = number
        /\ world' = [world EXCEPT ![loaded][f] = number]
    BY <1>5 DEF Writes, Savers, Apart
  <2>2. Own \in Savers /\ s = [Own EXCEPT !.writing = @ \ {f}]
    BY <2>1 DEF Own, Savers
  <2>3. Wrote(Own, f, s)
    BY <2>1, <2>2, OwnFields DEF Wrote
  <2> QED BY <2>2, <2>3, Zenon
<1>6. CASE Kill
  BY <1>6 DEF Kill, Savers, Own
<1>7. ASSUME StrayStep PROVE Goal
  <2>1. server' = server /\ Own' = Own
    BY <1>7, StrayEffect DEF Own
  <2>2. s \in strays' /\ s \notin strays
    BY <2>1 DEF Savers
  <2>3. ASSUME NEW t \in strays, StraySaves(t), Wanders(t, [t EXCEPT !.number = saves + 1, !.writing = Files])
        PROVE  Goal
    <3>1. s = [t EXCEPT !.number = saves + 1, !.writing = Files]
      BY <2>2, <2>3 DEF Wanders
    <3>2. s.writing = Files /\ s.name = t.name
      BY <3>1 DEF TypeOK, Stray
    <3> QED BY <2>3, <3>2 DEF StraySaves, Disorders, disk
  <2>4. ASSUME NEW t \in strays, NEW f \in Files, StrayWrites(t, f), Wanders(t, [t EXCEPT !.writing = @ \ {f}])
        PROVE  Goal
    <3>1. s = [t EXCEPT !.writing = @ \ {f}] /\ t \in Savers
      BY <2>2, <2>4 DEF Wanders, Savers
    <3>2. Wrote(t, f, s)
      BY <2>4, <3>1 DEF StrayWrites, Wrote
    <3> QED BY <3>1, <3>2, Zenon
  <2>5. ASSUME NEW t \in strays, strays' = strays \ {t} PROVE FALSE
    BY <2>2, <2>5
  <2>6. ASSUME Kill PROVE Goal
    BY <2>6, <1>6
  <2>7. strays' # strays
    BY <2>2
  <2> HIDE DEF Goal
  <2> QED BY <2>3, <2>4, <2>5, <2>6, <2>7, StraysGo, Zenon
<1> HIDE DEF Goal
<1>8. Goal
  BY ProcessGoes, <1>1, <1>2, <1>3, <1>4, <1>5, <1>6, <1>7 DEF Goal
<1> QED BY <1>8 DEF Goal

\* One that is gone has written, or has left its world in disorder.
LEMMA SaverGone ==
  ASSUME TypeOK, Apart, [Next]_vars, NEW s \in Savers, s \notin Savers', s.writing # {}
  PROVE  \/ s.name \in torn'
         \/ \E f \in Files, r \in Savers' : Wrote(s, f, r)
<1> DEFINE Goal == s.name \in torn' \/ \E f \in Files, r \in Savers' : Wrote(s, f, r)
<1>1. CASE UNCHANGED process
  BY <1>1 DEF process, Savers, Own
<1>2. CASE Submit \/ Stops \/ Launch \/ SaveBegins
  <2>1. strays' = strays /\ (server = "on" => writing = {})
    BY <1>2 DEF Submit, Stops, Launch, SaveBegins
  <2> QED BY <2>1 DEF Savers, Own
<1>3. CASE Dies
  BY <1>3 DEF Dies, Savers, Own
<1>4. CASE Kill
  <2>1. s = Own /\ server = "on"
    BY <1>4 DEF Kill, Savers
  <2>2. \/ torn' = torn \cup {n \in Names : Changing(n) # {}} \cup {n \in {loaded} : writing # {}}
        \/ strays' = strays \cup {Own}
    BY <1>4 DEF Kill, Own
  <2> QED BY <2>1, <2>2, OwnFields DEF Savers
<1>5. ASSUME NEW f \in Files, Writes(f) PROVE Goal
  <2>1. /\ f \in writing /\ server = "on" /\ writing' = writing \ {f} /\ strays' = strays
        /\ loaded' = loaded /\ number' = number /\ server' = server
        /\ world' = [world EXCEPT ![loaded][f] = number]
    BY <1>5 DEF Writes, Apart
  <2>2. s = Own
    BY <2>1 DEF Savers
  <2>3. Own' = [Own EXCEPT !.writing = @ \ {f}] /\ Own' \in Savers'
    BY <2>1 DEF Own, Savers
  <2>4. Wrote(s, f, Own')
    BY <2>1, <2>2, <2>3, OwnFields DEF Wrote
  <2> QED BY <2>3, <2>4, Zenon
<1>6. ASSUME StrayStep PROVE Goal
  <2>1. server' = server /\ Own' = Own
    BY <1>6, StrayEffect DEF Own
  <2>2. s \in strays /\ s \notin strays'
    BY <2>1 DEF Savers
  <2>3. ASSUME NEW t \in strays, StraySaves(t), Wanders(t, [t EXCEPT !.number = saves + 1, !.writing = Files])
        PROVE  FALSE
    BY <2>2, <2>3 DEF Wanders, StraySaves
  <2>4. ASSUME NEW t \in strays, NEW f \in Files, StrayWrites(t, f), Wanders(t, [t EXCEPT !.writing = @ \ {f}])
        PROVE  Goal
    <3>1. s = t /\ [t EXCEPT !.writing = @ \ {f}] \in Savers'
      BY <2>2, <2>4 DEF Wanders, Savers
    <3>2. Wrote(s, f, [t EXCEPT !.writing = @ \ {f}])
      BY <2>4, <3>1 DEF StrayWrites, Wrote
    <3> QED BY <3>1, <3>2, Zenon
  <2>5. ASSUME NEW t \in strays, StrayDies(t), strays' = strays \ {t} PROVE s.name \in torn'
    <3>1. s = t
      BY <2>2, <2>5
    <3> QED BY <2>5, <3>1 DEF StrayDies
  <2>6. ASSUME Kill PROVE Goal
    BY <2>6, <1>4
  <2>7. strays' # strays
    BY <2>2
  <2>8. s.name \in torn' => Goal
    OBVIOUS
  <2> HIDE DEF Goal
  <2> QED BY <2>3, <2>4, <2>5, <2>6, <2>7, <2>8, StraysGo, Zenon
<1> HIDE DEF Goal
<1>7. Goal
  BY ProcessGoes, <1>1, <1>2, <1>3, <1>4, <1>5, <1>6 DEF Goal
<1> QED BY <1>7 DEF Goal

LEMMA SavingStep == Base /\ Saving /\ [Next]_vars => Saving'
<1> SUFFICES ASSUME Base, Saving, [Next]_vars, NEW s \in Savers', s.writing # {},
                    s.name \notin torn' \cup mixed'
             PROVE  /\ Present(world'[s.name]) = Files
                    /\ \A f \in Files \ s.writing : world'[s.name][f] = s.number
  BY DEF Saving, Present
<1>b. TypeOK /\ Shapes /\ Taken /\ Alone /\ Apart /\ Lone
  BY DEF Base
<1> USE <1>b, Given
<1>m. s.name \notin torn \cup mixed
  BY Monotone
<1>1. CASE s \in Savers
  <2>1. world'[s.name] = world[s.name]
    BY <1>1, <1>m, SaverStill
  <2> QED BY <1>1, <1>m, <2>1 DEF Saving
<1>2. ASSUME s \notin Savers, s.writing = Files, world' = world, Present(world[s.name]) = Files
      PROVE  Present(world'[s.name]) = Files /\ \A f \in Files \ s.writing : world'[s.name][f] = s.number
  BY <1>2
<1>3. ASSUME NEW t \in Savers, NEW f \in Files, Wrote(t, f, s)
      PROVE  Present(world'[s.name]) = Files /\ \A g \in Files \ s.writing : world'[s.name][g] = s.number
  <2>1. t \in Stray /\ t.name \in Names /\ t.number \in Numbers
    BY SaverType DEF Stray
  <2>2. s.name = t.name /\ s.number = t.number /\ s.writing = t.writing \ {f} /\ f \in t.writing
    BY <1>3, <2>1 DEF Wrote, Stray
  <2>3. /\ world'[t.name] = [world[t.name] EXCEPT ![f] = t.number]
        /\ world[t.name] \in [Files -> {0} \cup Numbers]
    BY <1>3, <2>1 DEF Wrote, TypeOK, Content
  <2>4. /\ Present(world[t.name]) = Files
        /\ \A g \in Files \ t.writing : world[t.name][g] = t.number
    BY <1>m, <2>2 DEF Saving
  <2>5. t.number # 0
    BY <2>1, Contents
  <2> QED BY <2>2, <2>3, <2>4, <2>5 DEF Present
<1> QED BY <1>1, <1>2, <1>3, SaverNew

\* As long as it stands still, nobody else touches the world that it replaces.
LEMMA PlacerStill ==
  ASSUME Base, [Next]_vars, NEW x \in Worker, workers'[x] = workers[x],
         workers[x].pc \in {"place", "placed"}, workers[x].name \notin mixed
  PROVE  world'[workers[x].name] = world[workers[x].name]
<1> DEFINE n == workers[x].name
<1>b. TypeOK /\ Shapes /\ Taken /\ Alone /\ Apart /\ Lone
  BY DEF Base
<1> USE <1>b, Given
<1>1. Replacer(x) /\ n \in Names
  BY ReplacerPc DEF Work
<1>2. ASSUME NEW f \in Files, Writes(f), n = loaded PROVE FALSE
  BY <1>1, <1>2, Exclusive DEF Writes
<1>3. ASSUME NEW s \in strays, s.name = n PROVE FALSE
  BY <1>1, <1>3, Exclusive
<1>4. ASSUME NEW w \in Worker, workers[w].name = n, workers[w].pc \in {"remove", "place"},
             PlaceBegins(w) \/ \E f \in Files : Removes(w, f) \/ Places(w, f)
      PROVE  FALSE
  <2>1. w = x
    BY <1>1, <1>4, Exclusive
  <2>2. ASSUME NEW f \in Files, Places(w, f) PROVE FALSE
    <3>1. workers'[x].todo = workers[x].todo \ {f} /\ f \in workers[x].todo
      BY <2>1, <2>2 DEF Places, Becomes, Work
    <3> QED BY <3>1
  <2>3. ~PlaceBegins(w) /\ \A f \in Files : ~Removes(w, f)
    <3>1. workers[w].pc # "remove"
      BY <2>1
    <3> QED BY <3>1, Zenon DEF PlaceBegins, Removes
  <2> QED BY <1>4, <2>2, <2>3
<1> QED BY <1>1, <1>2, <1>3, <1>4, WorldGoes

\* What the beginning of the copy and each file of it do.
LEMMA PlaceBeginsEffect ==
  ASSUME TypeOK, NEW w \in Worker, PlaceBegins(w), workers'[w] # Idle
  PROVE  \E source \in Sources(workers[w]) :
           /\ world'[workers[w].name] = Nothing
           /\ workers'[w].source = source /\ workers'[w].todo = Present(source)
           /\ workers'[w].name = workers[w].name /\ workers'[w].pc = "place"
           /\ workers[w].name \notin torn' => Whole(source)
<1> USE Given
<1>1. PICK source \in Sources(workers[w]) :
        /\ world' = [world EXCEPT ![workers[w].name] = Nothing]
        /\ Becomes(w, IF source = Nothing THEN Idle
                      ELSE [workers[w] EXCEPT !.pc = "place", !.source = source, !.todo = Present(source)])
        /\ torn' = IF Whole(source) THEN torn ELSE torn \cup {workers[w].name}
  BY Zenon DEF PlaceBegins
<1>2. workers'[w] = [workers[w] EXCEPT !.pc = "place", !.source = source, !.todo = Present(source)]
  BY <1>1 DEF Becomes
<1>3. /\ workers'[w].source = source /\ workers'[w].todo = Present(source)
      /\ workers'[w].name = workers[w].name /\ workers'[w].pc = "place"
  BY <1>2 DEF Work
<1>4. world'[workers[w].name] = Nothing
  BY <1>1 DEF TypeOK, Work
<1>5. workers[w].name \notin torn' => Whole(source)
  BY <1>1
<1> QED BY <1>3, <1>4, <1>5, Zenon

LEMMA PlacesEffect ==
  ASSUME TypeOK, NEW w \in Worker, NEW f \in Files, Places(w, f)
  PROVE  /\ workers[w].pc = "place" /\ f \in workers[w].todo
         /\ workers'[w].source = workers[w].source /\ workers'[w].todo = workers[w].todo \ {f}
         /\ workers'[w].name = workers[w].name
         /\ workers'[w].pc = IF workers[w].todo = {f} THEN "placed" ELSE "place"
         /\ \E found \in Finds(workers[w], f) :
              /\ world'[workers[w].name] = [world[workers[w].name] EXCEPT ![f] = found]
              /\ workers[w].name \notin torn' => found = workers[w].source[f]
<1> USE Given
<1>1. PICK found \in Finds(workers[w], f) :
        /\ world' = [world EXCEPT ![workers[w].name][f] = found]
        /\ torn' = IF found = workers[w].source[f] THEN torn ELSE torn \cup {workers[w].name}
  BY Zenon DEF Places
<1>2. workers[w].pc = "place" /\ f \in workers[w].todo
      /\ workers' = [workers EXCEPT ![w] =
           [workers[w] EXCEPT !.todo = @ \ {f},
                              !.pc = IF workers[w].todo = {f} THEN "placed" ELSE "place"]]
  BY Zenon DEF Places, Becomes
<1>3. /\ workers'[w].source = workers[w].source /\ workers'[w].todo = workers[w].todo \ {f}
      /\ workers'[w].name = workers[w].name
      /\ workers'[w].pc = IF workers[w].todo = {f} THEN "placed" ELSE "place"
  BY <1>2 DEF Work
<1>4. world'[workers[w].name] = [world[workers[w].name] EXCEPT ![f] = found]
  BY <1>1 DEF TypeOK, Work, Content
<1>5. workers[w].name \notin torn' => found = workers[w].source[f]
  BY <1>1
<1> QED BY <1>2, <1>3, <1>4, <1>5, Zenon

\* Nobody comes from elsewhere to be placing files.
LEMMA PlacersGo ==
  ASSUME TypeOK, Shapes, [Next]_vars, NEW x \in Worker, workers'[x].pc \in {"place", "placed"}
  PROVE  \/ workers'[x] = workers[x]
         \/ PlaceBegins(x) /\ workers'[x] # Idle
         \/ \E f \in Files : Places(x, f)
<1> USE Given, IdleFields
<1>1. ~Replaces(x)
  <2>1. ASSUME Replaces(x) PROVE workers'[x].pc = "remove"
    BY <2>1 DEF Replaces, Becomes, Work
  <2> QED BY <2>1
<1>2. \A f \in Files : ~Removes(x, f)
  BY DEF Removes, Becomes, Work
<1> QED BY <1>1, <1>2, WorkerGoes

LEMMA PlacingStep == Base /\ Placing /\ [Next]_vars => Placing'
<1> SUFFICES ASSUME Base, Placing, [Next]_vars, NEW x \in Worker,
                    workers'[x].pc \in {"place", "placed"}, workers'[x].name \notin torn' \cup mixed'
             PROVE  /\ \A f \in Files \ workers'[x].todo :
                         world'[workers'[x].name][f] = workers'[x].source[f]
                    /\ Whole(workers'[x].source)
  BY DEF Placing
<1> DEFINE n == workers[x].name
           Goal == /\ \A f \in Files \ workers'[x].todo :
                        world'[workers'[x].name][f] = workers'[x].source[f]
                   /\ Whole(workers'[x].source)
<1>b. TypeOK /\ Shapes /\ Taken /\ Alone /\ Apart /\ Lone
  BY DEF Base
<1> USE <1>b, Given, IdleFields
<1>m. mixed \subseteq mixed' /\ torn \subseteq torn'
  BY Monotone
<1>w. world \in [Names -> Content] /\ n \in Names
  BY DEF TypeOK, Work
<1>1. ASSUME workers'[x] = workers[x] PROVE Goal
  <2>1. world'[n] = world[n]
    BY <1>1, <1>m, PlacerStill
  <2> QED BY <1>1, <2>1, <1>m DEF Placing
<1>2. ASSUME PlaceBegins(x), workers'[x] # Idle PROVE Goal
  <2>1. PICK source \in Sources(workers[x]) :
          /\ world'[workers[x].name] = Nothing
          /\ workers'[x].source = source /\ workers'[x].todo = Present(source)
          /\ workers'[x].name = n
          /\ n \notin torn' => Whole(source)
    BY <1>2, PlaceBeginsEffect
  <2>2. \A f \in Files \ Present(source) : source[f] = 0 /\ Nothing[f] = 0
    BY DEF Present, Nothing
  <2> QED BY <2>1, <2>2
<1>3. ASSUME NEW f \in Files, Places(x, f) PROVE Goal
  <2>0. /\ workers[x].pc = "place" /\ f \in workers[x].todo
        /\ workers'[x].source = workers[x].source /\ workers'[x].todo = workers[x].todo \ {f}
        /\ workers'[x].name = n
        /\ \E found \in Finds(workers[x], f) :
             /\ world'[n] = [world[n] EXCEPT ![f] = found]
             /\ n \notin torn' => found = workers[x].source[f]
    BY <1>3, PlacesEffect, Zenon
  <2>1. PICK found :
          /\ workers[x].pc = "place" /\ f \in workers[x].todo
          /\ workers'[x].source = workers[x].source /\ workers'[x].todo = workers[x].todo \ {f}
          /\ workers'[x].name = n
          /\ world'[n] = [world[n] EXCEPT ![f] = found]
          /\ n \notin torn' => found = workers[x].source[f]
    BY <2>0, Zenon
  <2>2. world[n] \in [Files -> {0} \cup Numbers] /\ found = workers[x].source[f]
    BY <2>1, <1>w DEF Content
  <2>3. /\ \A g \in Files \ workers[x].todo : world[n][g] = workers[x].source[g]
        /\ Whole(workers[x].source)
    BY <2>1, <1>m DEF Placing
  <2> QED BY <2>1, <2>2, <2>3
<1> HIDE DEF Goal
<1>5. Goal
  BY PlacersGo, <1>1, <1>2, <1>3
<1> QED BY <1>5 DEF Goal

LEMMA OrderedStep == Base /\ Placing /\ Saving /\ Ordered /\ [Next]_vars => Ordered'
<1> SUFFICES ASSUME Base, Placing, Saving, Ordered, [Next]_vars, NEW n \in Names,
                    n \notin torn' \cup mixed', Changing(n)' = {}, At(n)' = {}
             PROVE  world'[n] = Nothing \/ Whole(world'[n])
  BY DEF Ordered
<1>b. TypeOK /\ Shapes /\ Taken /\ Alone /\ Apart /\ Lone
  BY DEF Base
<1> USE <1>b, Given, IdleFields
<1>m. n \notin mixed /\ n \notin torn
  BY Monotone
<1>w. world \in [Names -> Content]
  BY DEF TypeOK
<1>1. ASSUME NEW w \in Changing(n) PROVE world'[n] = Nothing \/ Whole(world'[n])
  <2>0. w \in Worker /\ workers[w].name = n /\ workers[w].pc \in {"remove", "place"}
    BY DEF Changing
  <2>1. ~(workers'[w].name = n /\ workers'[w].pc \in {"remove", "place"})
    BY <2>0 DEF Changing
  <2>2. CASE PlaceBegins(w)
    BY <2>0, <2>2, <1>w, Zenon DEF PlaceBegins
  <2>3. ASSUME NEW f \in Files, Places(w, f) PROVE Whole(world'[n])
    <3>0. /\ workers[w].pc = "place" /\ f \in workers[w].todo
          /\ workers'[w].name = workers[w].name
          /\ \E found \in Finds(workers[w], f) :
               /\ world'[workers[w].name] = [world[workers[w].name] EXCEPT ![f] = found]
               /\ workers[w].name \notin torn' => found = workers[w].source[f]
      BY <2>0, <2>3, PlacesEffect, Zenon
    <3>a. workers'[w].pc = IF workers[w].todo = {f} THEN "placed" ELSE "place"
      BY <2>0, <2>3, PlacesEffect
    <3>1. PICK found :
            /\ workers[w].pc = "place" /\ f \in workers[w].todo
            /\ workers'[w].name = n
            /\ workers'[w].pc = IF workers[w].todo = {f} THEN "placed" ELSE "place"
            /\ world'[n] = [world[n] EXCEPT ![f] = found]
            /\ found = workers[w].source[f]
      BY <2>0, <3>0, <3>a
    <3>2. workers[w].todo = {f}
      BY <2>1, <3>1
    <3>3. /\ \A g \in Files \ workers[w].todo : world[n][g] = workers[w].source[g]
          /\ Whole(workers[w].source)
      BY <2>0, <3>1, <1>m DEF Placing
    <3>4. /\ world[n] \in [Files -> {0} \cup Numbers]
          /\ workers[w].source \in [Files -> {0} \cup Numbers]
      BY <2>0, <1>w DEF Content, Work
    <3>5. world'[n] = workers[w].source
      BY <3>1, <3>2, <3>3, <3>4
    <3> QED BY <3>3, <3>5
  <2>4. ASSUME NEW f \in Files, Removes(w, f) PROVE FALSE
    <3>1. workers'[w].name = workers[w].name /\ workers'[w].pc = "remove"
      BY <2>0, <2>4 DEF Removes, Becomes, Work
    <3> QED BY <3>1, <2>0, <2>1
  <2>5. ~Replaces(w)
    BY <2>0 DEF Replaces
  <2> QED BY <2>0, <2>1, <2>2, <2>3, <2>4, <2>5, WorkerGoes
<1>2. ASSUME NEW s \in At(n) PROVE Whole(world'[n])
  <2>1. s \in Savers /\ s.name = n /\ s.writing # {} /\ s \notin Savers' /\ s \in Stray
    BY SaverType DEF At
  <2>2. PICK f \in Files, r \in Savers' : Wrote(s, f, r)
    BY <2>1, SaverGone
  <2>3. r.name = n /\ r.writing = s.writing \ {f} /\ f \in s.writing
    BY <2>1, <2>2 DEF Wrote, Stray
  <2>4. s.writing = {f}
    BY <2>3 DEF At
  <2>5. /\ world'[n] = [world[n] EXCEPT ![f] = s.number]
        /\ world[n] \in [Files -> {0} \cup Numbers]
    BY <2>1, <2>2, <1>w DEF Wrote, Content
  <2>6. \A g \in Files \ s.writing : world[n][g] = s.number
    BY <2>1, <1>m DEF Saving
  <2>7. world'[n] = Save(s.number)
    BY <2>4, <2>5, <2>6 DEF Save
  <2> QED BY <2>1, <2>7 DEF Whole, Stray
<1>3. ASSUME Changing(n) = {}, At(n) = {}
      PROVE  world'[n] = Nothing \/ Whole(world'[n])
  <2>1. world[n] = Nothing \/ Whole(world[n])
    BY <1>3, <1>m DEF Ordered
  <2>2. ASSUME world'[n] # world[n] PROVE FALSE
    <3>1. ASSUME NEW f \in Files, Writes(f), n = loaded PROVE FALSE
      BY <1>3, <3>1, OwnFields DEF Writes, Apart, At
    <3>2. ASSUME NEW s \in strays, NEW f \in Files, s.name = n, StrayWrites(s, f) PROVE FALSE
      BY <1>3, <3>2 DEF StrayWrites, At, Savers
    <3> QED BY <1>3, <2>2, <3>1, <3>2, WorldGoes DEF Changing
  <2> QED BY <2>1, <2>2
<1> QED BY <1>1, <1>2, <1>3

LEMMA WholeInit == Init => Ordered /\ Placing /\ Saving
<1> SUFFICES ASSUME Init PROVE Ordered /\ Placing /\ Saving
  OBVIOUS
<1>1. Ordered
  BY Constants DEF Init, Ordered, Whole, Numbers
<1>2. Placing
  BY IdleFields DEF Init, Placing
<1>3. Saving
  BY DEF Init, Saving, Savers
<1> QED BY <1>1, <1>2, <1>3

WholeInv == Base /\ Ordered /\ Placing /\ Saving

LEMMA WholeStep == WholeInv /\ [Next]_vars => WholeInv'
BY BaseStep, OrderedStep, PlacingStep, SavingStep DEF WholeInv

LEMMA LaunchWhole ==
  ASSUME WholeInv, [Next]_vars, Launch
  PROVE  \/ config \in torn \cup mixed'
         \/ world[config] = Nothing
         \/ Whole(world[config])
<1> SUFFICES ASSUME config \notin torn \cup mixed'
             PROVE  world[config] = Nothing \/ Whole(world[config])
  OBVIOUS
<1>b. TypeOK /\ Shapes /\ Taken /\ Alone /\ Apart /\ Lone
  BY DEF Base, WholeInv
<1> USE <1>b, Given, IdleFields
<1>1. LoopFree /\ server = "pending" /\ ~Importing /\ ~Haunted(config) /\ config \in Names
  BY DEF Launch, Mixes, TypeOK
<1>2. At(config) = {}
  BY <1>1 DEF At, Savers, Haunted
<1>3. config \notin mixed
  BY Monotone
<1>4. ASSUME NEW w \in Changing(config) PROVE FALSE
  <2>1. w \in Worker /\ workers[w].pc \in {"remove", "place"}
    BY DEF Changing
  <2>2. w = "loop" \/ w \in Uploads
    BY <2>1, ReplacerPc DEF Shapes, Shape, Replacer
  <2> QED BY <2>1, <2>2, <1>1 DEF LoopFree, Importing
<1> QED BY <1>1, <1>2, <1>3, <1>4 DEF WholeInv, Ordered

\* No server is ever started on a world that is half removed or half copied.
THEOREM LoadsWholeCorrect == Spec => LoadsWhole
<1>1. Init => WholeInv
  BY BaseInit, WholeInit DEF WholeInv
<1>2. WholeInv /\ [Next]_vars => WholeInv'
  BY WholeStep
<1>3. WholeInv /\ [Next]_vars => [Launch => \/ config \in torn \cup mixed'
                                            \/ world[config] = Nothing
                                            \/ Whole(world[config])]_vars
  BY LaunchWhole
<1> QED BY <1>1, <1>2, <1>3, PTL DEF Spec, LoadsWhole

-----------------------------------------------------------------------------
(***************************************************************************)
(* Snapshots that are complete                                             *)
(***************************************************************************)
CopyWhole ==
  \A w \in Worker :
    LET work == workers[w] IN
    Copier(w) /\ work.name \notin torn \cup mixed =>
      \A f \in Files \ work.todo : snaps[work.snap].payload[f] # 0

LEMMA CopyWholeStep == WholeInv /\ CopyWhole /\ [Next]_vars => CopyWhole'
<1> SUFFICES ASSUME WholeInv, CopyWhole, [Next]_vars, NEW x \in Worker,
                    Copier(x)', workers'[x].name \notin torn' \cup mixed',
                    NEW f \in Files \ workers'[x].todo
             PROVE  snaps'[workers'[x].snap].payload[f] # 0
  BY DEF CopyWhole
<1> DEFINE i == workers[x].snap
           n == workers[x].name
           Goal == snaps'[workers'[x].snap].payload[f] # 0
<1>b. TypeOK /\ Shapes /\ Taken /\ Alone /\ Apart /\ Lone /\ Base
  BY DEF Base, WholeInv
<1> USE <1>b, Given, IdleFields
<1>m. mixed \subseteq mixed' /\ torn \subseteq torn'
  BY Monotone
<1>s. ASSUME workers'[x] = workers[x], snaps'[i] = snaps[i] PROVE Goal
  BY <1>s, <1>m DEF CopyWhole, Copier
<1>i. Copier(x) => i \in Ids /\ i # made + 1
  BY DEF Taken, Numbered, Shapes, Shape, Work, Ids
<1>1. ASSUME NEW w \in Worker, NEW work \in Work, NEW kind \in Kinds, Begun(w, work, kind)
      PROVE  Goal
  <2>1. /\ made + 1 \in Ids
        /\ \A v \in Worker : v # w => workers'[v] = workers[v]
        /\ workers'[w].todo = Present(world[config]) /\ workers'[w].name = config
        /\ Overlaps(w, work) => config \in mixed'
        /\ \A j \in Ids : j # made + 1 => snaps'[j] = snaps[j]
    BY ONLY TypeOK, <1>1, BegunEffect
  <2>2. CASE x # w
    BY <2>1, <2>2, <1>s, <1>i DEF Copier
  <2>3. CASE x = w
    <3>1. world[config] # Nothing /\ config \in Names /\ world[config] \in Content /\ work.name = config
      BY <1>1 DEF Begun, SnapshotBegins, TypeOK
    <3>2. config \notin torn \cup mixed /\ Changing(config) = {}
      BY <2>1, <2>3, <3>1, <1>m DEF Overlaps
    <3>3. Present(world[config]) = Files
      <4>1. CASE At(config) = {}
        BY <4>1, <3>1, <3>2, Contents DEF WholeInv, Ordered
      <4>2. CASE At(config) # {}
        BY <4>2, <3>2 DEF WholeInv, Saving, At
      <4> QED BY <4>1, <4>2
    <3> QED BY <2>1, <2>3, <3>3
  <2> QED BY <2>2, <2>3
<1>2. ASSUME NEW w \in Worker, NEW work \in Work, Straight(w, work) PROVE Goal
  <2>1. workers' = [workers EXCEPT ![w] = work] /\ work.pc = "replace" /\ snaps' = snaps
    BY <1>2 DEF Straight, Becomes, disk
  <2>2. x # w
    BY <2>1 DEF Copier
  <2> QED BY <2>1, <2>2, <1>s
<1>3. ASSUME PruneBegins \/ \E j \in Ids : Delete(j) PROVE Goal
  <2>1. snaps' = snaps
    BY <1>3, PruneFrame, DeleteFrame DEF disk
  <2>2. workers'[x] = workers[x]
    <3>1. ASSUME PruneBegins PROVE workers'[x] = workers[x]
      BY <3>1 DEF PruneBegins, Becomes, Copier, Idle
    <3>2. ASSUME NEW j \in Ids, Delete(j) PROVE workers'[x] = workers[x]
      BY <3>2 DEF Delete, Becomes, Copier, Idle
    <3> QED BY <1>3, <3>1, <3>2
  <2> QED BY <2>1, <2>2, <1>s
<1>4. ASSUME Rest PROVE Goal
  <2>1. /\ workers'[x].snap = i /\ workers'[x].name = n /\ Copier(x)
        /\ workers'[x] = workers[x] \/ Copying(x) \/ Listing(x)
    <3>1. Goes(x) /\ workers'[x] # Idle /\ Before(x)'
      BY <1>4 DEF Rest, Copier, Before
    <3> QED BY <3>1 DEF Goes
  <2>2. CASE workers'[x] = workers[x]
    BY <2>1, <2>2, <1>4, <1>s, WriterStill
  <2>3. CASE Copying(x)
    <3>1. PICK g \in workers[x].todo :
            /\ workers'[x].todo = workers[x].todo \ {g} /\ world[n][g] # 0
            /\ snaps'[i].payload = [snaps[i].payload EXCEPT ![g] = world[n][g]]
      BY <2>3 DEF Copying
    <3>2. snaps[i].payload \in [Files -> {0} \cup Numbers]
      BY <2>1, <1>i DEF Snap, Content
    <3>3. f # g => snaps[i].payload[f] # 0
      BY <2>1, <3>1, <1>m DEF CopyWhole
    <3> QED BY <2>1, <3>1, <3>2, <3>3
  <2>4. ~Listing(x)
    BY DEF Listing, Copier
  <2> QED BY <2>1, <2>2, <2>3, <2>4
<1> HIDE DEF Goal
<1>5. Goal
  BY RestSteps, <1>1, <1>2, <1>3, <1>4
<1> QED BY <1>5 DEF Goal

LEMMA ListedStep == WholeInv /\ CopyWhole /\ ListedIsComplete /\ [Next]_vars => ListedIsComplete'
<1> SUFFICES ASSUME WholeInv, CopyWhole, ListedIsComplete, [Next]_vars, NEW i \in Ids,
                    snaps'[i].listed, i \notin cut', snaps'[i].name \notin torn' \cup mixed'
             PROVE  Present(snaps'[i].payload) = Files
  BY DEF ListedIsComplete, Present
<1> DEFINE Goal == Present(snaps'[i].payload) = Files
<1>b. TypeOK /\ Shapes /\ Taken /\ Alone /\ Apart /\ Lone /\ Base
  BY DEF Base, WholeInv
<1> USE <1>b, Given, IdleFields
<1>m. mixed \subseteq mixed' /\ torn \subseteq torn' /\ cut \subseteq cut'
  BY Monotone
<1>s. snaps'[i] = snaps[i] => Goal
  BY <1>m DEF ListedIsComplete
<1>1. ASSUME NEW w \in Worker, NEW work \in Work, NEW kind \in Kinds, Begun(w, work, kind)
      PROVE  Goal
  <2>1. /\ snaps'[made + 1].listed = FALSE
        /\ \A j \in Ids : j # made + 1 => snaps'[j] = snaps[j]
    BY ONLY TypeOK, <1>1, BegunEffect
  <2> QED BY <2>1, <1>s
<1>2. ASSUME NEW w \in Worker, NEW work \in Work, Straight(w, work) PROVE Goal
  BY <1>2, <1>s DEF Straight, disk
<1>3. PruneBegins \/ (\E j \in Ids : Delete(j)) => Goal
  BY <1>s, PruneFrame, DeleteFrame DEF disk
<1>4. ASSUME Rest PROVE Goal
  <2>1. ASSUME i = made + 1, made' = made + 1, Whole(snaps'[i].payload) PROVE Goal
    <3>1. snaps'[i].payload \in Content
      <4>1. TypeOK'
        BY TypeStep
      <4> QED BY <4>1 DEF TypeOK, Snap
    <3> QED BY <2>1, <3>1, Contents
  <2>2. ASSUME NEW w \in Worker, Copier(w), workers[w].snap = i,
               Copying(w) \/ Listing(w) \/ (workers'[w] = Idle /\ snaps'[i] = NoSnap)
        PROVE  Goal
    <3>1. snaps[i].name = workers[w].name /\ ~snaps[i].listed
      BY <2>2 DEF Taken, OneWriter, Written
    <3>2. ~Copying(w)
      BY <2>2, <3>1 DEF Copying
    <3>3. snaps'[i] # NoSnap
      BY DEF NoSnap
    <3>4. /\ workers[w].pc = "list"
          /\ snaps'[i].payload = snaps[i].payload /\ snaps'[i].name = snaps[i].name
      BY <2>2, <3>2, <3>3 DEF Listing, Snap
    <3>5. workers[w].todo = {}
      BY <3>4 DEF Shapes, Shape
    <3>6. \A f \in Files : snaps[i].payload[f] # 0
      BY <2>2, <3>1, <3>4, <3>5, <1>m DEF CopyWhole
    <3> QED BY <3>4, <3>6 DEF Present
  <2>3. SnapGoes(i)
    BY <1>4 DEF Rest
  <2> HIDE DEF Goal
  <2> QED BY <2>1, <2>2, <2>3, <1>s DEF SnapGoes
<1> HIDE DEF Goal
<1>5. Goal
  BY RestSteps, <1>1, <1>2, <1>3, <1>4
<1> QED BY <1>5 DEF Goal

\* A snapshot that is offered has been copied to the last file, whenever the
\* manager was killed.
THEOREM ListedIsCompleteCorrect == Spec => []ListedIsComplete
<1> DEFINE Inv == WholeInv /\ CopyWhole /\ ListedIsComplete
<1>1. Init => Inv
  <2>1. Init => CopyWhole /\ ListedIsComplete
    BY IdleFields DEF Init, CopyWhole, ListedIsComplete, Copier, NoSnap
  <2> QED BY <2>1, BaseInit, WholeInit DEF WholeInv
<1>2. Inv /\ [Next]_vars => Inv'
  BY WholeStep, CopyWholeStep, ListedStep
<1>3. Inv => ListedIsComplete
  OBVIOUS
<1> QED BY <1>1, <1>2, <1>3, PTL DEF Spec

-----------------------------------------------------------------------------
(***************************************************************************)
(* A restore that says so                                                  *)
(***************************************************************************)
\* Of what it was asked for, this is what there is of a file, unless the file
\* was removed since.
Left(work, f, value) == value = work.asked[f] \/ (value = 0 /\ work.keys \subseteq cut)

Asked ==
  LET work == workers["loop"] IN
  work.job = "restore" =>
    /\ \E i \in Ids :
         work.keys = {i} /\ (AnyPair(work) \/ \A f \in Files : Left(work, f, snaps[i].payload[f]))
    /\ \/ AnyPair(work) \/ work.pc \notin {"place", "placed"}
       \/ \A f \in Files : Left(work, f, work.source[f])

Laid ==
  LET work == workers["loop"] IN
  work.job = "restore" /\ work.pc \in {"place", "placed"} /\ work.name \notin mixed =>
    AnyPair(work) \/ \A f \in Files \ work.todo : Left(work, f, world[work.name][f])

\* A restore begins, or one goes on with the same snapshot, of which no more
\* than files are removed.
Sought ==
  \E i \in Ids :
    /\ workers'["loop"].keys = {i} /\ workers'["loop"].asked = snaps[i].payload
    /\ workers'["loop"].pc \notin {"place", "placed"} /\ snaps'[i] = snaps[i]

SeekGoes ==
  /\ workers["loop"].job = "restore"
  /\ workers'["loop"].keys = workers["loop"].keys /\ workers'["loop"].asked = workers["loop"].asked
  /\ \E i \in Ids :
       /\ workers["loop"].keys = {i} /\ snaps'[i].kind = snaps[i].kind
       /\ \A f \in Files : \/ snaps'[i].payload[f] = snaps[i].payload[f]
                           \/ snaps'[i].payload[f] = 0 /\ i \in cut'

LEMMA RestoreGoes ==
  ASSUME Base, Asked, [Next]_vars, workers'["loop"].job = "restore"
  PROVE  Sought \/ SeekGoes
<1> DEFINE x == "loop"
<1>b. TypeOK /\ Shapes /\ Taken
  BY DEF Base
<1> USE <1>b, Given, IdleFields
<1>s. ASSUME workers'[x] = workers[x], \A i \in Ids : i <= made => snaps'[i] = snaps[i]
      PROVE  SeekGoes
  <2>1. PICK i \in Ids : workers[x].keys = {i}
    BY <1>s DEF Asked
  <2>2. snaps'[i] = snaps[i]
    BY <1>s, <2>1 DEF Taken, Numbered
  <2> QED BY <1>s, <2>1, <2>2 DEF SeekGoes
<1>1. ASSUME NEW w \in Worker, NEW work \in Work, NEW kind \in Kinds, Begun(w, work, kind)
      PROVE  Sought \/ SeekGoes
  <2>1. /\ made + 1 \in Ids
        /\ \A v \in Worker : v # w => workers'[v] = workers[v]
        /\ workers'[w].job = work.job /\ workers'[w].keys = work.keys
        /\ workers'[w].asked = work.asked /\ workers'[w].pc = "copy"
        /\ \A j \in Ids : j # made + 1 => snaps'[j] = snaps[j]
    BY ONLY TypeOK, <1>1, BegunEffect
  <2>2. \A j \in Ids : j <= made => snaps'[j] = snaps[j]
    BY <2>1 DEF Ids, TypeOK
  <2>3. CASE x # w
    BY <2>1, <2>2, <2>3, <1>s
  <2>4. CASE x = w
    <3>1. PICK i \in Listed(config) : work.keys = {i} /\ work.asked = snaps[i].payload
      BY <1>1, <2>1, <2>4 DEF Begun
    <3>2. i \in Ids /\ snaps'[i] = snaps[i]
      BY <2>2, <3>1 DEF Listed, Taken, Numbered
    <3> QED BY <2>1, <2>4, <3>1, <3>2 DEF Sought
  <2> QED BY <2>3, <2>4
<1>2. ASSUME NEW w \in Worker, NEW work \in Work, Straight(w, work) PROVE Sought \/ SeekGoes
  <2>1. workers' = [workers EXCEPT ![w] = work] /\ snaps' = snaps /\ work.pc = "replace"
    BY <1>2 DEF Straight, Becomes, disk
  <2>2. CASE x = w
    <3>1. PICK i \in Listed(config) : work.keys = {i} /\ work.asked = snaps[i].payload
      BY <1>2, <2>1, <2>2 DEF Straight
    <3> QED BY <2>1, <2>2, <3>1 DEF Sought, Listed
  <2> QED BY <2>1, <2>2, <1>s
<1>3. ASSUME PruneBegins \/ \E j \in Ids : Delete(j) PROVE SeekGoes
  <2>1. snaps' = snaps
    BY <1>3, PruneFrame, DeleteFrame DEF disk
  <2>2. workers'[x] = workers[x]
    <3>1. ASSUME PruneBegins PROVE workers'[x] = workers[x]
      BY <3>1 DEF PruneBegins, Becomes
    <3>2. ASSUME NEW j \in Ids, Delete(j) PROVE workers'[x] = workers[x]
      BY <3>2 DEF Delete, Becomes, Idle
    <3> QED BY <1>3, <3>1, <3>2
  <2> QED BY <2>1, <2>2, <1>s
<1>4. ASSUME Rest PROVE SeekGoes
  <2>1. /\ workers[x].job = "restore" /\ workers'[x].asked = workers[x].asked
        /\ workers'[x].keys = workers[x].keys \/ workers[x].pc = "purge"
    <3>1. Goes(x) /\ workers'[x] # Idle
      BY <1>4 DEF Rest
    <3> QED BY <3>1 DEF Goes
  <2>2. workers[x].pc # "purge"
    BY <2>1 DEF Shapes, Shape
  <2>3. PICK i \in Ids : workers[x].keys = {i}
    BY <2>1 DEF Asked
  <2>4. i # made + 1
    BY <2>3 DEF Taken, Numbered
  <2>5. ASSUME NEW w \in Worker, Copier(w) PROVE workers[w].snap # i
    BY <2>3, <2>5 DEF Taken, OneWriter, Written
  <2>6. snaps'[i] = snaps[i] \/ (Thinned(i) /\ i \in cut')
    BY <1>4, <2>4, <2>5 DEF Rest, SnapGoes
  <2>7. /\ snaps'[i].kind = snaps[i].kind
        /\ \A f \in Files : \/ snaps'[i].payload[f] = snaps[i].payload[f]
                            \/ snaps'[i].payload[f] = 0 /\ i \in cut'
    BY <2>6 DEF Thinned
  <2> QED BY <2>1, <2>2, <2>3, <2>7 DEF SeekGoes
<1> QED BY RestSteps, <1>1, <1>2, <1>3, <1>4

LEMMA AskedStep == Base /\ Asked /\ [Next]_vars => Asked'
<1> SUFFICES ASSUME Base, Asked, [Next]_vars, workers'["loop"].job = "restore" PROVE Asked'
  BY DEF Asked
<1> DEFINE x == "loop"
           work == workers[x]
           next == workers'[x]
<1>b. TypeOK /\ Shapes /\ cut \subseteq cut' /\ x \in Worker
  BY Monotone, Given DEF Base
<1>1. CASE Sought
  <2>1. PICK i \in Ids : /\ next.keys = {i} /\ next.asked = snaps[i].payload
                         /\ next.pc \notin {"place", "placed"} /\ snaps'[i] = snaps[i]
    BY <1>1 DEF Sought
  <2> QED BY <2>1 DEF Asked, Left
<1>2. CASE SeekGoes
  <2>1. /\ work.job = "restore" /\ next.keys = work.keys /\ next.asked = work.asked
    BY <1>2 DEF SeekGoes
  <2>2. PICK i \in Ids :
          /\ work.keys = {i} /\ snaps'[i].kind = snaps[i].kind
          /\ \A f \in Files : \/ snaps'[i].payload[f] = snaps[i].payload[f]
                              \/ snaps'[i].payload[f] = 0 /\ i \in cut'
    BY <1>2 DEF SeekGoes
  <2>3. AnyPair(workers["loop"])' <=> AnyPair(work)
    BY <2>1, <2>2 DEF AnyPair
  <2>4. CASE AnyPair(work)
    BY <2>1, <2>2, <2>3, <2>4 DEF Asked
  <2>5. CASE ~AnyPair(work)
    <3>1. \A f \in Files : Left(work, f, snaps[i].payload[f])
      BY <2>1, <2>2, <2>5 DEF Asked
    <3>2. \A f \in Files : \/ snaps'[i].payload[f] = next.asked[f]
                          \/ (snaps'[i].payload[f] = 0 /\ next.keys \subseteq cut')
      BY <2>1, <2>2, <3>1, <1>b DEF Left
    <3>3. ASSUME next.pc \in {"place", "placed"}, NEW f \in Files
          PROVE  \/ next.source[f] = next.asked[f]
                 \/ next.source[f] = 0 /\ next.keys \subseteq cut'
      <4>1. CASE next = work \/ \E g \in Files : Places(x, g)
        <5>1. next.source = work.source /\ work.pc \in {"place", "placed"}
          BY <3>3, <4>1, <1>b, PlacesEffect
        <5> QED BY <5>1, <2>1, <2>5, <3>3, <1>b DEF Asked, Left
      <4>2. CASE PlaceBegins(x) /\ next # Idle
        <5>1. PICK source \in Sources(work) : next.source = source
          BY <4>2, <1>b, PlaceBeginsEffect
        <5>2. Sources(work) = {snaps[i].payload}
          BY <2>2, <2>5 DEF Sources
        <5> QED BY <5>1, <5>2, <2>1, <3>1, <1>b DEF Left
      <4> QED BY <3>3, <4>1, <4>2, <1>b, PlacersGo
    <3> QED BY <2>1, <2>2, <3>2, <3>3 DEF Asked, Left
  <2> QED BY <2>4, <2>5
<1> QED BY <1>1, <1>2, RestoreGoes

LEMMA LaidStep == Base /\ Asked /\ Laid /\ [Next]_vars => Laid'
<1> DEFINE x == "loop"
           work == workers[x]
           next == workers'[x]
           n == work.name
<1> SUFFICES ASSUME Base, Asked, Laid, [Next]_vars, next.job = "restore",
                    next.pc \in {"place", "placed"}, next.name \notin mixed', ~AnyPair(workers["loop"])',
                    NEW f \in Files, f \notin next.todo
             PROVE  \/ world'[next.name][f] = next.asked[f]
                    \/ world'[next.name][f] = 0 /\ next.keys \subseteq cut'
  BY DEF Laid, Left
<1>b. TypeOK /\ Shapes /\ cut \subseteq cut' /\ mixed \subseteq mixed' /\ x \in Worker
  BY Monotone, Given DEF Base
<1>1. SeekGoes
  BY RestoreGoes DEF Sought
<1>2. work.job = "restore" /\ next.keys = work.keys /\ next.asked = work.asked
  BY <1>1 DEF SeekGoes
<1>3. ~AnyPair(work)
  BY <1>1 DEF SeekGoes, AnyPair
<1>4. CASE next = work
  <2>1. world'[n] = world[n]
    BY <1>4, <1>b, PlacerStill
  <2> QED BY <1>2, <1>3, <1>4, <1>b, <2>1 DEF Laid, Left
<1>5. CASE PlaceBegins(x) /\ next # Idle
  <2>1. next.name = n /\ world'[n] = Nothing /\ next.todo = Present(next.source)
    BY <1>5, <1>b, PlaceBeginsEffect
  <2>2. next.source[f] = 0 /\ world'[next.name][f] = 0
    BY <2>1 DEF Present, Nothing
  <2>a. Asked'
    BY AskedStep
  <2>3. next.source[f] = next.asked[f] \/ (next.source[f] = 0 /\ next.keys \subseteq cut')
    BY <2>a DEF Asked, Left
  <2> QED BY <2>2, <2>3
<1>6. ASSUME NEW g \in Files, Places(x, g)
      PROVE  \/ world'[next.name][f] = next.asked[f]
             \/ world'[next.name][f] = 0 /\ next.keys \subseteq cut'
  <2>1. /\ work.pc = "place" /\ g \in work.todo /\ next.todo = work.todo \ {g}
        /\ next.source = work.source /\ next.name = n
    BY <1>6, <1>b, PlacesEffect
  <2>a. \E found \in Finds(work, g) :
          /\ world'[n] = [world[n] EXCEPT ![g] = found]
          /\ n \notin torn' => found = work.source[g]
    BY <1>6, <1>b, PlacesEffect, Zenon
  <2>2. PICK found \in Finds(work, g) : world'[n] = [world[n] EXCEPT ![g] = found]
    BY <2>a, Zenon
  <2>3. world[n] \in [Files -> {0} \cup Numbers]
    BY <1>b DEF TypeOK, Content, Work
  <2>4. CASE f # g
    <3>1. Left(work, f, world[n][f])
      BY <1>2, <1>3, <1>b, <2>1, <2>4 DEF Laid
    <3> QED BY <1>2, <1>b, <2>1, <2>2, <2>3, <2>4, <3>1 DEF Left
  <2>5. CASE f = g
    <3>1. PICK i \in Ids : work.keys = {i} /\ Left(work, f, snaps[i].payload[f])
      BY <1>2, <1>3 DEF Asked
    <3>2. Left(work, f, work.source[f])
      BY <1>2, <1>3, <2>1 DEF Asked
    <3>3. found = work.source[f] \/ (found = 0 /\ snaps[i].payload[f] = 0)
      BY <1>3, <2>2, <2>5, <3>1 DEF Finds
    <3>4. Left(work, f, found)
      BY <3>1, <3>2, <3>3
    <3>5. world'[next.name][f] = found
      BY <2>1, <2>2, <2>3, <2>5
    <3> QED BY <1>2, <1>b, <3>4, <3>5 DEF Left
  <2> QED BY <2>4, <2>5
<1> QED BY <1>4, <1>5, <1>6, <1>b, PlacersGo

\* A restore that says so has put in place what was asked for, or what was left
\* of it.
THEOREM RestoredAsAskedCorrect == Spec => RestoredAsAsked
<1> DEFINE Inv == Base /\ Asked /\ Laid
<1>1. Init => Inv
  <2>1. Init => Asked /\ Laid
    BY IdleFields, Constants, Given DEF Init, Asked, Laid, Worker
  <2> QED BY <2>1, BaseInit
<1>2. Inv /\ [Next]_vars => Inv'
  BY BaseStep, AskedStep, LaidStep
<1>3. ASSUME Inv, Restored
      PROVE  LET work == workers["loop"] IN
             \/ work.name \in mixed \/ AnyPair(work)
             \/ \A f \in Files :
                  \/ world[work.name][f] = work.asked[f]
                  \/ world[work.name][f] = 0 /\ work.keys \subseteq cut
  <2>1. workers["loop"].pc = "placed" /\ "loop" \in Worker
    BY <1>3, Given DEF Restored, Base
  <2>2. workers["loop"].todo = {} /\ workers["loop"].job = "restore"
    BY <1>3, <2>1, ReplacerPc, Constants, Given DEF Base, Replacer, Shapes, Shape
  <2> QED BY <1>3, <2>1, <2>2 DEF Laid, Left
<1> QED BY <1>1, <1>2, <1>3, PTL DEF Spec, RestoredAsAsked

-----------------------------------------------------------------------------
(***************************************************************************)
(* What the schedule removes                                               *)
(***************************************************************************)
\* The snapshots under way to be pruned, or that were.
Pruning == cut \cup {i \in workers["scheduler"].keys : workers["scheduler"].job = "prune"}
Newer(i) == {j \in Autos(snaps[i].name) : j > i}

\* As long as nothing is deleted by hand, whatever is being pruned has Keep
\* newer snapshots: the newest is removed first, so that those a smaller one
\* counts on go only where there are as many newer still.
Spared ==
  /\ \A i \in cut \ byHand : snaps[i].kind = "auto"
  /\ byHand = {} => \A i \in Pruning : Cardinality(Newer(i)) >= Keep

LEMMA Counted ==
  ASSUME NEW S \in SUBSET Ids, NEW T \in SUBSET Ids, S \subseteq T, Cardinality(S) >= Keep
  PROVE  Cardinality(T) >= Keep
<1>1. IsFiniteSet(Ids)
  BY FS_Interval, Constants DEF Ids
<1>2. IsFiniteSet(T) /\ IsFiniteSet(S) /\ Cardinality(S) <= Cardinality(T)
  BY <1>1, FS_Subset
<1>3. Cardinality(T) \in Nat /\ Cardinality(S) \in Nat
  BY <1>2, FS_CardinalityType
<1> QED BY <1>2, <1>3, KeepAssumption

\* Whatever is purged where nothing was deleted by hand, is pruned.
LEMMA PurgedIsPruned ==
  ASSUME Base, NEW w \in Worker, workers[w].pc = "purge", NEW i \in workers[w].keys
  PROVE  \/ i \in byHand
         \/ i \in Pruning /\ snaps[i].kind = "auto"
<1>1. workers[w].job \in {"delete", "prune"} /\ (workers[w].job = "prune" => w = "scheduler")
  BY DEF Base, Shapes, Shape
<1> QED BY <1>1 DEF Base, Taken, Purged, Pruning

\* One that was cut, or is to be, is not written again.
LEMMA PrunedStands ==
  ASSUME Base, Rest, NEW i \in Ids, i \in Pruning \cup cut
  PROVE  snaps'[i].kind = snaps[i].kind /\ snaps'[i].name = snaps[i].name
<1> USE Given, Constants DEF Base
<1>1. i # made + 1
  BY DEF Taken, Numbered, Pruning
<1>2. ASSUME NEW w \in Worker, Copier(w) PROVE workers[w].snap # i
  BY <1>2 DEF Taken, OneWriter, Written, Pruning
<1> QED BY <1>1, <1>2 DEF Rest, SnapGoes, Thinned

LEMMA SparedRest ==
  ASSUME Base, Spared, Rest, byHand = {}, NEW i \in Pruning'
  PROVE  Cardinality(Newer(i)') >= Keep
<1>b. TypeOK /\ Shapes /\ Taken
  BY DEF Base
<1> USE <1>b, Given, Constants, IdleFields
<1>1. i \in Pruning /\ i \in Ids
  <2>1. CASE i \in cut'
    BY <2>1, PurgedIsPruned DEF Rest, Pruning, TypeOK
  <2>2. CASE i \in workers'["scheduler"].keys /\ workers'["scheduler"].job = "prune"
    <3>1. Goes("scheduler") /\ workers'["scheduler"] # Idle
      BY <2>2 DEF Rest
    <3> QED BY <2>2, <3>1 DEF Goes, Pruning
  <2> QED BY <2>1, <2>2 DEF Pruning
<1>2. snaps'[i].name = snaps[i].name /\ Cardinality(Newer(i)) >= Keep
  BY <1>1, PrunedStands DEF Spared
<1>3. \A k \in Ids : Newer(k) \in SUBSET Ids /\ Newer(k)' \in SUBSET Ids
  BY DEF Newer, Autos, Listed
<1>4. CASE \A j \in Newer(i) : snaps'[j] = snaps[j]
  <2>1. Newer(i) \subseteq Newer(i)'
    BY <1>2, <1>4 DEF Newer, Autos, Listed
  <2> QED BY <1>1, <1>2, <1>3, <2>1, Counted
<1>5. CASE \E j \in Newer(i) : snaps'[j] # snaps[j]
  <2>1. PICK j \in Newer(i) : snaps'[j] # snaps[j]
    BY <1>5
  <2>2. j \in Ids /\ snaps[j].listed /\ snaps[j].name = snaps[i].name /\ j > i
    BY <2>1 DEF Newer, Autos, Listed
  <2>3. j # made + 1
    BY <2>2 DEF Taken, Numbered
  <2>4. \A w \in Worker : Copier(w) => workers[w].snap # j
    BY <2>2 DEF Taken, OneWriter, Written
  <2>5. /\ \E w \in Worker : workers[w].pc = "purge" /\ j \in workers[w].keys
        /\ \A k \in Ids : k # j => snaps'[k] = snaps[k]
    BY <2>1, <2>2, <2>3, <2>4 DEF Rest, SnapGoes, Thinned
  <2>6. j \in Pruning /\ Cardinality(Newer(j)) >= Keep
    BY <2>5, PurgedIsPruned DEF Spared
  <2>7. Newer(j) \subseteq Newer(i)'
    <3>1. ASSUME NEW k \in Newer(j) PROVE k \in Newer(i)'
      <4>1. k \in Ids /\ k > j /\ k > i /\ k # j /\ k \in Autos(snaps[j].name)
        BY <1>1, <2>2 DEF Newer, Autos, Listed
      <4> QED BY <4>1, <2>2, <2>5, <1>2 DEF Newer, Autos, Listed
    <3> QED BY <3>1
  <2> QED BY <2>2, <2>6, <2>7, <1>1, <1>3, Counted
<1> QED BY <1>4, <1>5

LEMMA SparedStep == Base /\ Spared /\ [Next]_vars => Spared'
<1> SUFFICES ASSUME Base, Spared, [Next]_vars PROVE Spared'
  OBVIOUS
<1>b. TypeOK /\ Shapes /\ Taken
  BY DEF Base
<1> USE <1>b, Given, Constants, IdleFields
\* Snapshots that are listed stand as they are, and so do those that were cut.
<1>s. ASSUME \A j \in Ids : j <= made => snaps'[j] = snaps[j],
             cut' = cut, byHand \subseteq byHand', byHand' \subseteq Ids,
             byHand' = {} => \A i \in Pruning' :
               i \in Ids /\ i <= made /\ Cardinality(Newer(i)) >= Keep
      PROVE  Spared'
  <2>1. \A j \in cut : j \in Ids /\ j <= made
    BY DEF Taken, Numbered, TypeOK
  <2>2. ASSUME NEW i \in Pruning', byHand' = {} PROVE Cardinality(Newer(i)') >= Keep
    <3>1. Newer(i) \subseteq Newer(i)' /\ Newer(i) \in SUBSET Ids /\ Newer(i)' \in SUBSET Ids
      BY <1>s, <2>2 DEF Newer, Autos, Listed, Taken, Numbered
    <3> QED BY <3>1, <1>s, <2>2, Counted
  <2> QED BY <1>s, <2>1, <2>2 DEF Spared
<1>c. byHand = {} => \A i \in Pruning : i \in Ids /\ i <= made /\ Cardinality(Newer(i)) >= Keep
  BY DEF Spared, Taken, Numbered, Pruning, TypeOK
<1>1. ASSUME NEW w \in Worker, NEW work \in Work, NEW kind \in Kinds, Begun(w, work, kind)
      PROVE  Spared'
  <2>1. /\ made' = made + 1
        /\ \A v \in Worker : v # w => workers'[v] = workers[v]
        /\ workers'[w].job = work.job
        /\ \A j \in Ids : j # made + 1 => snaps'[j] = snaps[j]
        /\ cut' = cut /\ byHand' = byHand
    BY ONLY TypeOK, <1>1, BegunEffect
  <2>2. work.job # "prune"
    BY <1>1 DEF Begun
  <2>3. Pruning' \subseteq Pruning
    BY <2>1, <2>2 DEF Pruning
  <2> QED BY <2>1, <2>3, <1>s, <1>c DEF TypeOK
<1>2. ASSUME NEW w \in Worker, NEW work \in Work, Straight(w, work) PROVE Spared'
  <2>1. /\ workers' = [workers EXCEPT ![w] = work] /\ work.job # "prune" /\ snaps' = snaps
        /\ cut' = cut /\ byHand' = byHand
    BY <1>2 DEF Straight, Becomes, disk
  <2>2. Pruning' \subseteq Pruning
    BY <2>1 DEF Pruning
  <2> QED BY <2>1, <2>2, <1>s, <1>c DEF TypeOK
<1>3. CASE PruneBegins
  <2>1. /\ workers'["scheduler"] =
             IF Old(config) = {} THEN Idle
             ELSE [Idle EXCEPT !.pc = "purge", !.job = "prune", !.keys = Old(config)]
        /\ snaps' = snaps /\ cut' = cut /\ byHand' = byHand
    BY <1>3 DEF PruneBegins, Becomes, disk, history
  <2>2. \A i \in Pruning' : i \in Pruning \/ i \in Old(config)
    BY <2>1 DEF Pruning, Idle
  <2>3. ASSUME NEW i \in Old(config) PROVE i \in Ids /\ i <= made /\ Cardinality(Newer(i)) >= Keep
    <3>1. i \in Ids /\ snaps[i].listed /\ snaps[i].name = config
      BY DEF Old, Autos, Listed
    <3>2. Cardinality(Newer(i)) >= Keep
      BY <3>1 DEF Old, Newer
    <3> QED BY <3>1, <3>2 DEF Taken, Numbered
  <2> QED BY <2>1, <2>2, <2>3, <1>s, <1>c DEF TypeOK
<1>4. ASSUME NEW i \in Ids, Delete(i) PROVE Spared'
  <2>1. snaps' = snaps /\ cut' = cut /\ byHand' = byHand \cup {i}
    BY <1>4 DEF Delete, disk
  <2> QED BY <2>1, <1>s DEF TypeOK
<1>5. ASSUME Rest PROVE Spared'
  <2>1. byHand' = byHand
    BY <1>5 DEF Rest
  <2>2. ASSUME NEW i \in cut' \ byHand' PROVE snaps'[i].kind = "auto"
    <3>1. i \in Pruning \cup cut /\ i \in Ids /\ snaps[i].kind = "auto"
      BY <1>5, <2>1, <2>2, PurgedIsPruned DEF Rest, Spared, TypeOK
    <3> QED BY <3>1, <1>5, PrunedStands
  <2> QED BY <1>5, <2>1, <2>2, SparedRest DEF Spared
<1> QED BY RestSteps, <1>1, <1>2, <1>3, <1>4, <1>5

\* What the schedule removes is automatic, and has Keep newer ones beside it
\* until somebody deletes by hand.
THEOREM PruneSparesCorrect == Spec => []PruneSpares
<1> DEFINE Inv == Base /\ Spared
<1>1. Init => Inv
  <2>1. Init => Spared
    BY IdleFields, Constants DEF Init, Spared, Pruning, Worker
  <2> QED BY <2>1, BaseInit
<1>2. Inv /\ [Next]_vars => Inv'
  BY BaseStep, SparedStep
<1>3. Inv => PruneSpares
  BY DEF Spared, PruneSpares, Pruning, Newer
<1> QED BY <1>1, <1>2, <1>3, PTL DEF Spec
=============================================================================
