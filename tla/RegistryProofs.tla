--------------------------- MODULE RegistryProofs ---------------------------
(***************************************************************************)
(* What is proved of module Registry for every set of ids, ports and       *)
(* channels, and every number of copies and faults at a time.              *)
(***************************************************************************)
EXTENDS Registry, TLAPS

\* What a running server has bound is what its record says.
BoundIsRecorded == \A i \in Running : i \in Known /\ bound[i] = records[i].port

\* RunningPortsDisjoint holds because it holds of all records, running or not.
PortsDisjoint ==
  \A i, j \in Known \ raced : i # j => ~Overlap(records[i].port, records[j].port)

\* A copy under way is not registered yet; as long as no port was taken or
\* moved, the one it chose is still free.
CopiesApart ==
  \A d \in Copying :
    d \notin Known /\ (copies[d].current => PortFree(copies[d].config.port, {}))

\* What a restart will read: the directory of every instance, saved, holds its
\* configuration.
DiskAgrees == \A i \in Known \ unsaved : disk[i] = [id |-> i, config |-> records[i]]

IInv ==
  /\ TypeOK
  /\ BoundIsRecorded
  /\ PortsDisjoint
  /\ ChannelsDistinct
  /\ CopiesApart
  /\ DiskAgrees
  /\ StrayOnlyIfCut

LEMMA InitIInv == Init => IInv
  BY DEF Init, IInv, TypeOK, BoundIsRecorded, PortsDisjoint, ChannelsDistinct, CopiesApart,
     DiskAgrees, StrayOnlyIfCut, Known, Running, Copying

-----------------------------------------------------------------------------
\* Outdating a copy leaves it under way, and not current.
LEMMA OutdatedOne ==
  ASSUME NEW c \in Copy \cup {Absent}
  PROVE  /\ OutdatedCopy(c) \in Copy \cup {Absent}
         /\ (OutdatedCopy(c) # Absent) <=> (c # Absent)
         /\ c # Absent => OutdatedCopy(c).current = FALSE
<1>1. CASE c = Absent
  <2>1. OutdatedCopy(c) = Absent
    BY <1>1, Zenon DEF OutdatedCopy
  <2> QED BY <1>1, <2>1
<1>2. CASE c # Absent
  <2>1. c \in Copy
    BY <1>2
  <2>2. [c EXCEPT !.current = FALSE] \in Copy /\ [c EXCEPT !.current = FALSE].current = FALSE
    BY <2>1 DEF Copy
  <2>3. OutdatedCopy(c) = [c EXCEPT !.current = FALSE]
    BY <1>2, Zenon DEF OutdatedCopy
  <2> QED BY <1>2, <2>2, <2>3, AbsentAssumption
<1> QED BY <1>1, <1>2

LEMMA OutdatedCopies ==
  TypeOK => /\ Outdated \in [Ids -> Copy \cup {Absent}]
            /\ \A d \in Ids : /\ (Outdated[d] # Absent) <=> (copies[d] # Absent)
                              /\ copies[d] # Absent => Outdated[d].current = FALSE
<1> SUFFICES ASSUME TypeOK
             PROVE  /\ Outdated \in [Ids -> Copy \cup {Absent}]
                    /\ \A d \in Ids : /\ (Outdated[d] # Absent) <=> (copies[d] # Absent)
                                      /\ copies[d] # Absent => Outdated[d].current = FALSE
  OBVIOUS
<1>1. \A d \in Ids : copies[d] \in Copy \cup {Absent}
  BY DEF TypeOK
<1> QED BY <1>1, OutdatedOne DEF Outdated

LEMMA AllOutdated ==
  TypeOK /\ copies' = Outdated =>
    \A d \in Copying' : d \in Copying /\ copies'[d].current = FALSE
<1> SUFFICES ASSUME TypeOK, copies' = Outdated, NEW d \in Ids, copies'[d] # Absent
             PROVE  copies[d] # Absent /\ copies'[d].current = FALSE
  BY DEF Copying
<1>1. copies'[d] = Outdated[d]
  OBVIOUS
<1> QED BY <1>1, OutdatedCopies

\* The old default channel changes the channel of who gets it, and no more.
LEMMA GivenTo ==
  ASSUME TypeOK, NEW to \in SUBSET Ids, NEW saved, Moves(to, saved)
  PROVE  /\ Given(to) \in [Ids -> Config \cup {Absent}]
         /\ \A i \in Ids : Given(to)[i] # Absent <=> records[i] # Absent
         /\ \A i \in Known : Given(to)[i].port = records[i].port
         /\ \A i \in Ids \ to : Given(to)[i] = records[i]
<1>1. \A i \in to : /\ records[i] \in Config
                   /\ [records[i] EXCEPT !.channel = legacy] \in Config
                   /\ [records[i] EXCEPT !.channel = legacy].port = records[i].port
  BY DEF Moves, TypeOK, Known, Config
<1> QED
  BY <1>1, AbsentAssumption DEF Given, TypeOK, Known

\* Nor does losing it.
LEMMA OffIs ==
  ASSUME NEW given \in [Ids -> Config \cup {Absent}], NEW off \in SUBSET Ids,
         \A i \in off : given[i] # Absent
  PROVE  /\ SwitchedOff(given, off) \in [Ids -> Config \cup {Absent}]
         /\ \A i \in Ids : SwitchedOff(given, off)[i] # Absent <=> given[i] # Absent
         /\ \A i \in Ids : given[i] # Absent => SwitchedOff(given, off)[i].port = given[i].port
         /\ \A i \in Ids \ off : SwitchedOff(given, off)[i] = given[i]
         /\ \A i \in off : SwitchedOff(given, off)[i].channel = NoChannel
<1>1. \A i \in off : /\ [given[i] EXCEPT !.channel = NoChannel] \in Config
                    /\ [given[i] EXCEPT !.channel = NoChannel].port = given[i].port
                    /\ [given[i] EXCEPT !.channel = NoChannel].channel = NoChannel
  BY DEF Config
<1> QED
  BY <1>1, AbsentAssumption DEF SwitchedOff

\* What a start of the bot leaves alone: who is known, the ports, and every
\* directory but those of the instances that it saves.
LEMMA BotStartKeeps ==
  ASSUME TypeOK, BotStart
  PROVE  /\ UNCHANGED <<copies, bound, strays, raced, cut>>
         /\ records' \in [Ids -> Config \cup {Absent}]
         /\ \A i \in Ids : records'[i] # Absent <=> records[i] # Absent
         /\ \A i \in Known : records'[i].port = records[i].port
         /\ disk' \in [Ids -> File \cup {Absent}]
         /\ \A i \in Ids : disk'[i] = disk[i] \/ (i \in Known /\ disk'[i].id = i)
         /\ DiskAgrees => \A i \in Known \ unsaved' : disk'[i] = [id |-> i, config |-> records'[i]]
         /\ unsaved' \subseteq Ids /\ shared' \subseteq Ids
         /\ legacy' \in Channels \cup {Absent}
<1>1. PICK to \in One, failed \in One, saved \in SUBSET Known :
        MigrationFails(to, saved, failed) \/ BotStarts(to, saved, failed)
  BY DEF BotStart
<1>2. to \in SUBSET Ids /\ failed \in SUBSET Ids /\ saved \in SUBSET Ids /\ Moves(to, saved)
  BY <1>1 DEF One, Known, MigrationFails, BotStarts
<1> DEFINE given == Given(to)
<1>3. /\ given \in [Ids -> Config \cup {Absent}]
      /\ \A i \in Ids : given[i] # Absent <=> records[i] # Absent
      /\ \A i \in Known : given[i].port = records[i].port
      /\ \A i \in Ids \ to : given[i] = records[i]
  BY <1>2, GivenTo
<1>4. ASSUME NEW after \in [Ids -> Config \cup {Absent}], NEW written \in SUBSET Known
      PROVE  /\ Stored(after, written) \in [Ids -> File \cup {Absent}] \/ \E i \in written : after[i] = Absent
             /\ \A i \in written : /\ Stored(after, written)[i] = [id |-> i, config |-> after[i]]
                                  /\ Stored(after, written)[i].id = i
             /\ \A i \in Ids \ written : Stored(after, written)[i] = disk[i]
  BY DEF Stored, File, TypeOK, Known
<1> HIDE DEF given
<1>5. CASE MigrationFails(to, saved, failed)
  <2>1. /\ records' = given /\ disk' = Stored(given, saved)
        /\ unsaved' = (unsaved \ saved) \cup failed
        /\ shared' = shared \cup to
        /\ UNCHANGED <<copies, bound, strays, raced, cut, legacy>>
        /\ to \subseteq saved \cup failed
    BY <1>5 DEF MigrationFails, given
  <2>2. /\ disk' \in [Ids -> File \cup {Absent}]
        /\ \A i \in saved : disk'[i] = [id |-> i, config |-> given[i]] /\ disk'[i].id = i
        /\ \A i \in Ids \ saved : disk'[i] = disk[i]
    BY <2>1, <1>1, <1>3, <1>4 DEF Known
  <2>3. \A i \in Ids : disk'[i] = disk[i] \/ (i \in Known /\ disk'[i].id = i)
    BY <1>1, <2>2
  <2>4. ASSUME DiskAgrees, NEW i \in Known, i \notin unsaved' PROVE disk'[i] = [id |-> i, config |-> records'[i]]
    <3>1. CASE i \in saved
      BY <3>1, <2>1, <2>2
    <3>2. CASE i \notin saved
      <4>1. i \in Ids /\ i \notin unsaved /\ i \notin to
        BY <3>2, <2>1, <2>4 DEF Known
      <4> QED BY <3>2, <4>1, <2>4, <2>1, <2>2, <1>3 DEF DiskAgrees
    <3> QED BY <3>1, <3>2
  <2> QED
    BY <1>2, <1>3, <2>1, <2>2, <2>3, <2>4 DEF TypeOK, Known
<1>6. CASE BotStarts(to, saved, failed)
  <2>1. PICK keeps \in [Channels -> Ids] : Reconcile(given, keeps, saved, failed)
    BY <1>6 DEF BotStarts, given
  <2>2. PICK done \in SUBSET (Losers(given, keeps) \ failed) :
          /\ records' = SwitchedOff(given, done \cup failed)
          /\ disk' = Stored(SwitchedOff(given, done), saved \cup done)
          /\ unsaved' = (unsaved \ (saved \cup done)) \cup failed
    BY <2>1 DEF Reconcile
  <2>3. done \subseteq Known /\ failed \subseteq Known /\ done \cap failed = {}
    BY <2>1, <2>2 DEF Reconcile, Losers
  <2>4. /\ done \in SUBSET Ids /\ done \cup failed \in SUBSET Ids
        /\ \A i \in done \cup failed : given[i] # Absent
    BY <2>3, <1>3 DEF Known
  <2>5. /\ records' \in [Ids -> Config \cup {Absent}]
        /\ \A i \in Ids : records'[i] # Absent <=> given[i] # Absent
        /\ \A i \in Ids : given[i] # Absent => records'[i].port = given[i].port
        /\ \A i \in Ids \ (done \cup failed) : records'[i] = given[i]
    BY <2>2, <2>4, <1>3, OffIs
  <2> DEFINE written == SwitchedOff(given, done)
  <2>6. /\ written \in [Ids -> Config \cup {Absent}]
        /\ \A i \in Ids : written[i] # Absent <=> given[i] # Absent
        /\ \A i \in Ids \ done : written[i] = given[i]
    BY <2>4, <1>3, OffIs
  <2>7. \A i \in Ids \ failed : written[i] = records'[i]
    BY <2>2 DEF SwitchedOff
  <2> HIDE DEF written
  <2>8. /\ disk' \in [Ids -> File \cup {Absent}]
        /\ \A i \in saved \cup done : disk'[i] = [id |-> i, config |-> written[i]] /\ disk'[i].id = i
        /\ \A i \in Ids \ (saved \cup done) : disk'[i] = disk[i]
    <3>1. saved \cup done \in SUBSET Known
      BY <1>1, <2>3
    <3>2. \A i \in saved \cup done : written[i] # Absent
      BY <3>1, <2>6, <1>3 DEF Known
    <3>3. disk' = Stored(written, saved \cup done)
      BY <2>2 DEF written
    <3> QED BY <3>1, <3>2, <3>3, <2>6, <1>4
  <2>9. /\ to \subseteq saved
        /\ UNCHANGED <<copies, bound, strays, raced, cut>>
        /\ shared' = {} \/ shared' = shared \cup to
        /\ legacy' = Absent \/ legacy' = legacy
    BY <1>6 DEF BotStarts
  <2>10. /\ \A i \in Ids : disk'[i] = disk[i] \/ (i \in Known /\ disk'[i].id = i)
         /\ \A i \in Known : records'[i].port = records[i].port
         /\ \A i \in Ids : records'[i] # Absent <=> records[i] # Absent
    <3>1. \A i \in Ids : disk'[i] = disk[i] \/ (i \in Known /\ disk'[i].id = i)
      <4>1. \A i \in saved \cup done : i \in Known /\ disk'[i].id = i
        BY <1>1, <2>3, <2>8
      <4> QED BY <4>1, <2>8
    <3> QED
      BY <3>1, <1>3, <2>5 DEF Known
  <2>11. ASSUME DiskAgrees, NEW i \in Known, i \notin unsaved' PROVE disk'[i] = [id |-> i, config |-> records'[i]]
    <3>1. i \in Ids /\ i \notin failed
      BY <2>2, <2>11 DEF Known
    <3>2. CASE i \in saved \cup done
      BY <3>1, <3>2, <2>7, <2>8
    <3>3. CASE i \notin saved \cup done
      <4>1. i \notin unsaved /\ i \notin to
        BY <3>3, <2>2, <2>9, <2>11
      <4>2. records'[i] = records[i] /\ disk'[i] = disk[i]
        BY <3>1, <3>3, <4>1, <1>3, <2>5, <2>8
      <4> QED BY <2>11, <4>1, <4>2 DEF DiskAgrees
    <3> QED BY <3>2, <3>3
  <2> QED
    BY <1>2, <2>2, <2>5, <2>8, <2>9, <2>10, <2>11 DEF TypeOK
<1> QED
  BY <1>1, <1>5, <1>6

\* Every step keeps the types.
LEMMA TypeStep == TypeOK /\ [Next]_vars => TypeOK'
<1> SUFFICES ASSUME TypeOK, [Next]_vars PROVE TypeOK'
  OBVIOUS
<1> USE DEF TypeOK
<1>0. Outdated \in [Ids -> Copy \cup {Absent}]
  BY OutdatedCopies
<1>1. ASSUME NEW i \in Ids, NEW config \in Config, Create(i, config) PROVE TypeOK'
  BY <1>0, <1>1 DEF Create, Save, File
<1>2. ASSUME NEW i \in Ids, NEW config \in Config, Update(i, config) PROVE TypeOK'
  BY <1>0, <1>2 DEF Update, Save, File
<1>3. ASSUME NEW i \in Ids, Delete(i) PROVE TypeOK'
  BY <1>3 DEF Delete, RemoveTree
<1>4. ASSUME NEW i \in Ids, NEW original \in File, ImportFails(i, original) PROVE TypeOK'
  BY <1>4 DEF ImportFails, Extracted
<1>5. ASSUME NEW i \in Ids, NEW port \in Ports, NEW p \in Ports, Import(i, port, p) PROVE TypeOK'
  <2>1. [port |-> p, channel |-> NoChannel] \in Config
    BY DEF Config
  <2> QED BY <1>0, <1>5, <2>1 DEF Import, File
<1>6. ASSUME NEW d \in Ids, NEW i \in Ids, NEW p \in Ports, CloneBegins(d, i, p) PROVE TypeOK'
  <2>1. records[i] \in Config
    BY <1>6 DEF CloneBegins, Known
  <2>2. [port |-> p, channel |-> records[i].channel] \in Config
    BY <2>1 DEF Config
  <2> QED BY <1>6, <2>2 DEF CloneBegins, Copy
<1>7. ASSUME NEW d \in Ids, CloneCopies(d) PROVE TypeOK'
  BY <1>7 DEF CloneCopies, Copying, Copy
<1>8. ASSUME NEW d \in Ids, CloneCutShort(d) \/ CloneFails(d) PROVE TypeOK'
  BY <1>8 DEF CloneCutShort, CloneFails, RemoveTree, Copying, Copy
<1>9. ASSUME NEW d \in Ids, CloneEnds(d) PROVE TypeOK'
  <2>1. copies[d].config \in Config
    BY <1>9 DEF CloneEnds, Copying, Copy
  <2> QED BY <1>0, <1>9, <2>1 DEF CloneEnds, File
<1>10. ASSUME NEW i \in Ids, Start(i) \/ Stop(i) \/ StrayExits(i) PROVE TypeOK'
  BY <1>10 DEF Start, Stop, StrayExits, Known, Config
<1>11. CASE Restart
  BY <1>11 DEF Restart, Found, Holding, File, Copying, Running
<1>12. CASE BotStart
  BY <1>12, BotStartKeeps
<1>13. CASE UNCHANGED vars
  BY <1>13 DEF vars
<1> QED
  BY <1>1, <1>2, <1>3, <1>4, <1>5, <1>6, <1>7, <1>8, <1>9, <1>10, <1>11, <1>12, <1>13
     DEF Next, Operation

\* Every variable of Registry keeps its type.
THEOREM TypeCorrect == Spec => []TypeOK
<1>1. Init => TypeOK
  BY InitIInv DEF IInv
<1> QED
  BY <1>1, TypeStep, PTL DEF Spec

-----------------------------------------------------------------------------
LEMMA OverlapSymmetric == ASSUME NEW p, NEW q PROVE Overlap(p, q) <=> Overlap(q, p)
  BY DEF Overlap

\* The port of an active instance is not changed under it.
LEMMA BoundStep == IInv /\ TypeOK' /\ [Next]_vars => BoundIsRecorded'
<1> SUFFICES ASSUME IInv, TypeOK', [Next]_vars PROVE BoundIsRecorded'
  OBVIOUS
<1> USE AbsentAssumption DEF IInv, TypeOK, BoundIsRecorded, Known, Running
<1>1. ASSUME NEW i \in Ids, NEW config \in Config, Create(i, config) PROVE BoundIsRecorded'
  BY <1>1 DEF Create, Fresh, Save
<1>2. ASSUME NEW i \in Ids, NEW config \in Config, Update(i, config) PROVE BoundIsRecorded'
  BY <1>2 DEF Update, Save
<1>3. ASSUME NEW i \in Ids, Delete(i) PROVE BoundIsRecorded'
  BY <1>3 DEF Delete, RemoveTree
<1>4. ASSUME NEW i \in Ids, NEW original \in File, ImportFails(i, original) PROVE BoundIsRecorded'
  BY <1>4 DEF ImportFails, Extracted, Fresh
<1>5. ASSUME NEW i \in Ids, NEW port \in Ports, NEW p \in Ports, Import(i, port, p) PROVE BoundIsRecorded'
  BY <1>5 DEF Import, Fresh
<1>6. ASSUME NEW d \in Ids, NEW i \in Ids, NEW p \in Ports, CloneBegins(d, i, p) PROVE BoundIsRecorded'
  BY <1>6 DEF CloneBegins, Fresh
<1>7. ASSUME NEW d \in Ids, CloneCopies(d) PROVE BoundIsRecorded'
  BY <1>7 DEF CloneCopies
<1>8. ASSUME NEW d \in Ids, CloneCutShort(d) \/ CloneFails(d) PROVE BoundIsRecorded'
  BY <1>8 DEF CloneCutShort, CloneFails, RemoveTree
<1>9. ASSUME NEW d \in Ids, CloneEnds(d) PROVE BoundIsRecorded'
  BY <1>9 DEF CloneEnds, CopiesApart, Copying
<1>10. ASSUME NEW i \in Ids, Start(i) \/ Stop(i) \/ StrayExits(i) PROVE BoundIsRecorded'
  BY <1>10 DEF Start, Stop, StrayExits
<1>11. CASE Restart
  BY <1>11 DEF Restart, Found, Holding
<1>12. CASE BotStart
  BY <1>12, BotStartKeeps
<1>13. CASE UNCHANGED vars
  BY <1>13 DEF vars
<1> QED
  BY <1>1, <1>2, <1>3, <1>4, <1>5, <1>6, <1>7, <1>8, <1>9, <1>10, <1>11, <1>12, <1>13
     DEF Next, Operation

\* Every port that is taken or moved was free, but for those of `raced'.
LEMMA PortsStep == IInv /\ TypeOK' /\ [Next]_vars => PortsDisjoint'
<1> SUFFICES ASSUME IInv, TypeOK', [Next]_vars PROVE PortsDisjoint'
  OBVIOUS
<1> USE AbsentAssumption DEF IInv, TypeOK, PortsDisjoint, Known
<1>1. ASSUME NEW i \in Ids, NEW config \in Config, Create(i, config) PROVE PortsDisjoint'
  BY <1>1, OverlapSymmetric DEF Create, Fresh, PortFree
<1>2. ASSUME NEW i \in Ids, NEW config \in Config, Update(i, config) PROVE PortsDisjoint'
  BY <1>2, OverlapSymmetric DEF Update, PortFree
<1>3. ASSUME NEW i \in Ids, Delete(i) PROVE PortsDisjoint'
  BY <1>3 DEF Delete, RemoveTree
<1>4. ASSUME NEW i \in Ids, NEW original \in File, ImportFails(i, original) PROVE PortsDisjoint'
  BY <1>4 DEF ImportFails, Extracted, Fresh
<1>5. ASSUME NEW i \in Ids, NEW port \in Ports, NEW p \in Ports, Import(i, port, p) PROVE PortsDisjoint'
  <2>1. PortFree(p, {})
    BY <1>5 DEF Import, FreePort, Lowest, Walk
  <2> QED BY <1>5, <2>1, OverlapSymmetric DEF Import, Fresh, PortFree
<1>6. ASSUME NEW d \in Ids, NEW i \in Ids, NEW p \in Ports, CloneBegins(d, i, p) PROVE PortsDisjoint'
  BY <1>6 DEF CloneBegins, Fresh
<1>7. ASSUME NEW d \in Ids, CloneCopies(d) PROVE PortsDisjoint'
  BY <1>7 DEF CloneCopies
<1>8. ASSUME NEW d \in Ids, CloneCutShort(d) \/ CloneFails(d) PROVE PortsDisjoint'
  BY <1>8 DEF CloneCutShort, CloneFails, RemoveTree
<1>9. ASSUME NEW d \in Ids, CloneEnds(d) PROVE PortsDisjoint'
  BY <1>9, OverlapSymmetric DEF CloneEnds, CopiesApart, Copying, PortFree, Copy
<1>10. ASSUME NEW i \in Ids, Start(i) \/ Stop(i) \/ StrayExits(i) PROVE PortsDisjoint'
  BY <1>10 DEF Start, Stop, StrayExits
<1>11. CASE Restart
  BY <1>11 DEF Restart, Found, Holding, DiskAgrees
<1>12. CASE BotStart
  BY <1>12, BotStartKeeps
<1>13. CASE UNCHANGED vars
  BY <1>13 DEF vars
<1> QED
  BY <1>1, <1>2, <1>3, <1>4, <1>5, <1>6, <1>7, <1>8, <1>9, <1>10, <1>11, <1>12, <1>13
     DEF Next, Operation

\* A start of the bot leaves no two on one channel, unless it breaks off; and
\* then only who has got the old default channel is new on one.
LEMMA BotStartChannels ==
  ASSUME TypeOK, ChannelsDistinct, BotStart
  PROVE  ChannelsDistinct'
<1>1. PICK to \in One, failed \in One, saved \in SUBSET Known :
        MigrationFails(to, saved, failed) \/ BotStarts(to, saved, failed)
  BY DEF BotStart
<1>2. to \in SUBSET Ids /\ failed \in SUBSET Ids /\ Moves(to, saved)
  BY <1>1 DEF One, MigrationFails, BotStarts
<1> DEFINE given == Given(to)
<1>3. /\ given \in [Ids -> Config \cup {Absent}]
      /\ \A i \in Ids : given[i] # Absent <=> records[i] # Absent
      /\ \A i \in Ids \ to : given[i] = records[i]
  BY <1>2, GivenTo
<1> HIDE DEF given
<1>4. CASE MigrationFails(to, saved, failed)
  <2>1. records' = given /\ shared' = shared \cup to
    BY <1>4 DEF MigrationFails, given
  <2> QED
    BY <1>3, <2>1 DEF ChannelsDistinct, Known
<1>5. CASE BotStarts(to, saved, failed)
  <2>1. PICK keeps \in [Channels -> Ids] : Reconcile(given, keeps, saved, failed)
    BY <1>5 DEF BotStarts, given
  <2>2. PICK done \in SUBSET (Losers(given, keeps) \ failed) :
          /\ failed = {} => done = Losers(given, keeps)
          /\ records' = SwitchedOff(given, done \cup failed)
    BY <2>1 DEF Reconcile
  <2>3. /\ done \cup failed \in SUBSET Ids
        /\ \A i \in done \cup failed : given[i] # Absent
    BY <2>1, <2>2, <1>3 DEF Reconcile, Losers, Known
  <2>4. /\ \A i \in Ids : records'[i] # Absent <=> records[i] # Absent
        /\ \A i \in Ids \ (done \cup failed) : records'[i] = given[i]
        /\ \A i \in done \cup failed : records'[i].channel = NoChannel
    BY <1>3, <2>2, <2>3, OffIs
  <2>5. CASE failed = {}
    <3>1. \A i \in Known : records'[i].channel = NoChannel
                          \/ (given[i].channel = records'[i].channel /\ keeps[given[i].channel] = i)
      BY <2>2, <2>4, <2>5 DEF Losers, Known
    <3> QED
      BY <3>1, <2>4 DEF ChannelsDistinct, Known
  <2>6. CASE failed # {}
    <3>1. shared' = shared \cup to
      BY <1>5, <2>6 DEF BotStarts
    <3>2. \A i \in Known \ to : records'[i].channel \in {NoChannel, records[i].channel}
      BY <2>4, <1>3 DEF Known
    <3> QED
      BY <3>1, <3>2, <2>4 DEF ChannelsDistinct, Known
  <2> QED BY <2>5, <2>6
<1> QED
  BY <1>1, <1>4, <1>5

\* Every channel that is taken was free, but for those of `shared'.
LEMMA ChannelsStep == IInv /\ TypeOK' /\ [Next]_vars => ChannelsDistinct'
<1> SUFFICES ASSUME IInv, TypeOK', [Next]_vars PROVE ChannelsDistinct'
  OBVIOUS
<1> USE AbsentAssumption DEF IInv, TypeOK, ChannelsDistinct, Known
<1>1. ASSUME NEW i \in Ids, NEW config \in Config, Create(i, config) PROVE ChannelsDistinct'
  BY <1>1 DEF Create, Fresh, Save, ChannelFree
<1>2. ASSUME NEW i \in Ids, NEW config \in Config, Update(i, config) PROVE ChannelsDistinct'
  BY <1>2 DEF Update, Save, ChannelFree
<1>3. ASSUME NEW i \in Ids, Delete(i) PROVE ChannelsDistinct'
  BY <1>3 DEF Delete, RemoveTree
<1>4. ASSUME NEW i \in Ids, NEW original \in File, ImportFails(i, original) PROVE ChannelsDistinct'
  BY <1>4 DEF ImportFails, Extracted, Fresh
<1>5. ASSUME NEW i \in Ids, NEW port \in Ports, NEW p \in Ports, Import(i, port, p) PROVE ChannelsDistinct'
  BY <1>5 DEF Import, Fresh
<1>6. ASSUME NEW d \in Ids, NEW i \in Ids, NEW p \in Ports, CloneBegins(d, i, p) PROVE ChannelsDistinct'
  BY <1>6 DEF CloneBegins, Fresh
<1>7. ASSUME NEW d \in Ids, CloneCopies(d) PROVE ChannelsDistinct'
  BY <1>7 DEF CloneCopies
<1>8. ASSUME NEW d \in Ids, CloneCutShort(d) \/ CloneFails(d) PROVE ChannelsDistinct'
  BY <1>8 DEF CloneCutShort, CloneFails, RemoveTree
<1>9. ASSUME NEW d \in Ids, CloneEnds(d) PROVE ChannelsDistinct'
  BY <1>9 DEF CloneEnds
<1>10. ASSUME NEW i \in Ids, Start(i) \/ Stop(i) \/ StrayExits(i) PROVE ChannelsDistinct'
  BY <1>10 DEF Start, Stop, StrayExits
<1>11. CASE Restart
  BY <1>11 DEF Restart, Found, Holding, DiskAgrees
<1>12. CASE BotStart
  BY <1>12, BotStartChannels
<1>13. CASE UNCHANGED vars
  BY <1>13 DEF vars
<1> QED
  BY <1>1, <1>2, <1>3, <1>4, <1>5, <1>6, <1>7, <1>8, <1>9, <1>10, <1>11, <1>12, <1>13
     DEF Next, Operation

\* A port that is taken or moved outdates every copy under way.
LEMMA CopiesStep == IInv /\ TypeOK' /\ [Next]_vars => CopiesApart'
<1> SUFFICES ASSUME IInv, TypeOK', [Next]_vars PROVE CopiesApart'
  OBVIOUS
<1> USE AbsentAssumption DEF IInv, TypeOK, CopiesApart, Known, Copying, PortFree
<1>1. ASSUME NEW i \in Ids, NEW config \in Config, Create(i, config) PROVE CopiesApart'
  <2>1. copies' = Outdated
    BY <1>1 DEF Create
  <2>2. \A d \in Copying' : d \in Copying /\ copies'[d].current = FALSE
    BY <2>1, AllOutdated
  <2>3. i \notin Copying /\ \A d \in Ids \ {i} : records'[d] = records[d]
    BY <1>1 DEF Create, Fresh
  <2> QED BY <2>2, <2>3
<1>2. ASSUME NEW i \in Ids, NEW config \in Config, Update(i, config) PROVE CopiesApart'
  <2>1. CASE config.port = records[i].port
    BY <1>2, <2>1 DEF Update
  <2>2. CASE config.port # records[i].port
    <3>1. copies' = Outdated
      BY <1>2, <2>2 DEF Update
    <3>2. \A d \in Copying' : d \in Copying /\ copies'[d].current = FALSE
      BY <3>1, AllOutdated
    <3>3. i \notin Copying /\ \A d \in Ids \ {i} : records'[d] = records[d]
      BY <1>2 DEF Update, Fresh
    <3> QED BY <3>2, <3>3
  <2> QED BY <2>1, <2>2
<1>3. ASSUME NEW i \in Ids, Delete(i) PROVE CopiesApart'
  BY <1>3 DEF Delete, RemoveTree
<1>4. ASSUME NEW i \in Ids, NEW original \in File, ImportFails(i, original) PROVE CopiesApart'
  BY <1>4 DEF ImportFails, Extracted, Fresh
<1>5. ASSUME NEW i \in Ids, NEW port \in Ports, NEW p \in Ports, Import(i, port, p) PROVE CopiesApart'
  <2>1. copies' = Outdated
    BY <1>5 DEF Import
  <2>2. \A d \in Copying' : d \in Copying /\ copies'[d].current = FALSE
    BY <2>1, AllOutdated
  <2>3. i \notin Copying /\ \A d \in Ids \ {i} : records'[d] = records[d]
    BY <1>5 DEF Import, Fresh
  <2> QED BY <2>2, <2>3
<1>6. ASSUME NEW d \in Ids, NEW i \in Ids, NEW p \in Ports, CloneBegins(d, i, p) PROVE CopiesApart'
  BY <1>6 DEF CloneBegins, Fresh, FreePort, Lowest, Walk
<1>7. ASSUME NEW d \in Ids, CloneCopies(d) PROVE CopiesApart'
  BY <1>7 DEF CloneCopies
<1>8. ASSUME NEW d \in Ids, CloneCutShort(d) \/ CloneFails(d) PROVE CopiesApart'
  BY <1>8 DEF CloneCutShort, CloneFails, RemoveTree
<1>9. ASSUME NEW d \in Ids, CloneEnds(d) PROVE CopiesApart'
  <2>1. copies' = [Outdated EXCEPT ![d] = Absent]
    BY <1>9 DEF CloneEnds
  <2>2. Outdated \in [Ids -> Copy \cup {Absent}]
    BY OutdatedCopies
  <2>3. \A e \in Ids \ {d} : records'[e] = records[e]
    BY <1>9 DEF CloneEnds
  <2>4. d \notin Copying'
    BY <2>1, <2>2
  <2>5. \A e \in Ids \ {d} : copies'[e] = Outdated[e]
    BY <2>1, <2>2
  <2>6. \A e \in Copying' : e \in Copying /\ e # d /\ copies'[e].current = FALSE
    BY <2>4, <2>5, OutdatedCopies
  <2> QED BY <2>3, <2>6
<1>10. ASSUME NEW i \in Ids, Start(i) \/ Stop(i) \/ StrayExits(i) PROVE CopiesApart'
  BY <1>10 DEF Start, Stop, StrayExits
<1>11. CASE Restart
  BY <1>11 DEF Restart, Found, Holding
<1>12. CASE BotStart
  BY <1>12, BotStartKeeps
<1>13. CASE UNCHANGED vars
  BY <1>13 DEF vars
<1> QED
  BY <1>1, <1>2, <1>3, <1>4, <1>5, <1>6, <1>7, <1>8, <1>9, <1>10, <1>11, <1>12, <1>13
     DEF Next, Operation

\* A directory that is written over is that of no registered instance.
LEMMA DiskStep == IInv /\ TypeOK' /\ [Next]_vars => DiskAgrees'
<1> SUFFICES ASSUME IInv, TypeOK', [Next]_vars PROVE DiskAgrees'
  OBVIOUS
<1> USE AbsentAssumption DEF IInv, TypeOK, DiskAgrees, Known
<1>1. ASSUME NEW i \in Ids, NEW config \in Config, Create(i, config) PROVE DiskAgrees'
  BY <1>1 DEF Create, Fresh, Save
<1>2. ASSUME NEW i \in Ids, NEW config \in Config, Update(i, config) PROVE DiskAgrees'
  BY <1>2 DEF Update, Save
<1>3. ASSUME NEW i \in Ids, Delete(i) PROVE DiskAgrees'
  BY <1>3 DEF Delete, RemoveTree
<1>4. ASSUME NEW i \in Ids, NEW original \in File, ImportFails(i, original) PROVE DiskAgrees'
  BY <1>4 DEF ImportFails, Extracted, Fresh
<1>5. ASSUME NEW i \in Ids, NEW port \in Ports, NEW p \in Ports, Import(i, port, p) PROVE DiskAgrees'
  BY <1>5 DEF Import, Fresh
<1>6. ASSUME NEW d \in Ids, NEW i \in Ids, NEW p \in Ports, CloneBegins(d, i, p) PROVE DiskAgrees'
  BY <1>6 DEF CloneBegins, Fresh
<1>7. ASSUME NEW d \in Ids, CloneCopies(d) PROVE DiskAgrees'
  BY <1>7 DEF CloneCopies, CopiesApart
<1>8. ASSUME NEW d \in Ids, CloneCutShort(d) \/ CloneFails(d) PROVE DiskAgrees'
  BY <1>8 DEF CloneCutShort, CloneFails, RemoveTree, CopiesApart
<1>9. ASSUME NEW d \in Ids, CloneEnds(d) PROVE DiskAgrees'
  BY <1>9 DEF CloneEnds
<1>10. ASSUME NEW i \in Ids, Start(i) \/ Stop(i) \/ StrayExits(i) PROVE DiskAgrees'
  BY <1>10 DEF Start, Stop, StrayExits
<1>11. CASE Restart
  BY <1>11 DEF Restart, Found, Holding, File
<1>12. CASE BotStart
  BY <1>12, BotStartKeeps
<1>13. CASE UNCHANGED vars
  BY <1>13 DEF vars
<1> QED
  BY <1>1, <1>2, <1>3, <1>4, <1>5, <1>6, <1>7, <1>8, <1>9, <1>10, <1>11, <1>12, <1>13
     DEF Next, Operation

\* A directory that does not read back as its own is in `cut' or being copied.
LEMMA StrayStep == IInv /\ TypeOK' /\ [Next]_vars => StrayOnlyIfCut'
<1> SUFFICES ASSUME IInv, TypeOK', [Next]_vars PROVE StrayOnlyIfCut'
  OBVIOUS
<1> USE AbsentAssumption DEF IInv, TypeOK, StrayOnlyIfCut, Known, Copying
<1>1. ASSUME NEW i \in Ids, NEW config \in Config, Create(i, config) PROVE StrayOnlyIfCut'
  <2>1. \A e \in Ids : e \in Copying' <=> e \in Copying
    <3>1. copies' = Outdated \/ copies' = copies
      BY <1>1 DEF Create
    <3>2. CASE copies' = Outdated
      BY <3>2, OutdatedCopies
    <3> QED BY <3>1, <3>2
  <2>2. records'[i] # Absent /\ \A j \in Ids \ {i} : records'[j] = records[j] /\ disk'[j] = disk[j]
    BY <1>1 DEF Create, Save
  <2>3. disk'[i] = Absent \/ disk'[i].id = i
    BY <1>1 DEF Create, Save, Fresh
  <2> QED BY <1>1, <2>1, <2>2, <2>3 DEF Create
<1>2. ASSUME NEW i \in Ids, NEW config \in Config, Update(i, config) PROVE StrayOnlyIfCut'
  <2>1. \A e \in Ids : e \in Copying' <=> e \in Copying
    <3>1. copies' = Outdated \/ copies' = copies
      BY <1>2 DEF Update
    <3>2. CASE copies' = Outdated
      BY <3>2, OutdatedCopies
    <3> QED BY <3>1, <3>2
  <2>2. records'[i] # Absent /\ \A j \in Ids \ {i} : records'[j] = records[j] /\ disk'[j] = disk[j]
    BY <1>2 DEF Update, Save
  <2>3. disk'[i] = disk[i] \/ disk'[i].id = i
    BY <1>2 DEF Update, Save
  <2> QED BY <1>2, <2>1, <2>2, <2>3 DEF Update
<1>3. ASSUME NEW i \in Ids, Delete(i) PROVE StrayOnlyIfCut'
  BY <1>3 DEF Delete, RemoveTree
<1>4. ASSUME NEW i \in Ids, NEW original \in File, ImportFails(i, original) PROVE StrayOnlyIfCut'
  BY <1>4 DEF ImportFails, Extracted, Fresh
<1>5. ASSUME NEW i \in Ids, NEW port \in Ports, NEW p \in Ports, Import(i, port, p) PROVE StrayOnlyIfCut'
  <2>1. \A e \in Ids : e \in Copying' <=> e \in Copying
    <3>1. copies' = Outdated \/ copies' = copies
      BY <1>5 DEF Import
    <3>2. CASE copies' = Outdated
      BY <3>2, OutdatedCopies
    <3> QED BY <3>1, <3>2
  <2>2. [port |-> p, channel |-> NoChannel] # Absent
    BY DEF Config
  <2>3. records'[i] # Absent /\ disk'[i].id = i
    BY <1>5, <2>2 DEF Import
  <2>4. \A j \in Ids \ {i} : records'[j] = records[j] /\ disk'[j] = disk[j]
    BY <1>5 DEF Import
  <2> QED BY <1>5, <2>1, <2>3, <2>4 DEF Import
<1>6. ASSUME NEW d \in Ids, NEW i \in Ids, NEW p \in Ports, CloneBegins(d, i, p) PROVE StrayOnlyIfCut'
  BY <1>6 DEF CloneBegins, Fresh
<1>7. ASSUME NEW d \in Ids, CloneCopies(d) PROVE StrayOnlyIfCut'
  <2>1. copies[d] \in Copy
    BY <1>7 DEF CloneCopies
  <2>2. [copies[d] EXCEPT !.copied = TRUE] \in Copy
    BY <2>1 DEF Copy
  <2>3. \A e \in Ids : e \in Copying' <=> e \in Copying
    BY <1>7, <2>2 DEF CloneCopies
  <2>4. \A e \in Ids \ {d} : disk'[e] = disk[e]
    BY <1>7 DEF CloneCopies
  <2> QED BY <1>7, <2>3, <2>4 DEF CloneCopies
<1>8. ASSUME NEW d \in Ids, CloneCutShort(d) \/ CloneFails(d) PROVE StrayOnlyIfCut'
  BY <1>8 DEF CloneCutShort, CloneFails, RemoveTree
<1>9. ASSUME NEW d \in Ids, CloneEnds(d) PROVE StrayOnlyIfCut'
  <2>1. \A e \in Ids \ {d} : e \in Copying' <=> e \in Copying
    <3>1. copies' = [Outdated EXCEPT ![d] = Absent]
      BY <1>9 DEF CloneEnds
    <3> QED BY <3>1, OutdatedCopies
  <2>2. records'[d] # Absent /\ disk'[d].id = d
    BY <1>9 DEF CloneEnds, Copy
  <2>3. \A e \in Ids \ {d} : records'[e] = records[e] /\ disk'[e] = disk[e]
    BY <1>9 DEF CloneEnds
  <2> QED BY <1>9, <2>1, <2>2, <2>3 DEF CloneEnds
<1>10. ASSUME NEW i \in Ids, Start(i) \/ Stop(i) \/ StrayExits(i) PROVE StrayOnlyIfCut'
  BY <1>10 DEF Start, Stop, StrayExits
<1>11. CASE Restart
  <2>1. ASSUME NEW d \in Ids, disk[d] # Absent, disk[d].id = d PROVE d \in Known'
    <3>1. d \in Found
      BY <2>1 DEF Found
    <3>2. PICK e \in Holding(d) : records'[d] = disk[e].config
      BY <1>11, <3>1 DEF Restart, Found
    <3>3. disk[e].config \in Config
      BY <3>2 DEF Holding, File
    <3> QED BY <3>2, <3>3
  <2>2. disk' = disk /\ cut' = cut \cup {d \in Copying : disk[d] # Absent}
    BY <1>11 DEF Restart
  <2> QED BY <2>1, <2>2
<1>12. CASE BotStart
  BY <1>12, BotStartKeeps
<1>13. CASE UNCHANGED vars
  BY <1>13 DEF vars
<1> QED
  BY <1>1, <1>2, <1>3, <1>4, <1>5, <1>6, <1>7, <1>8, <1>9, <1>10, <1>11, <1>12, <1>13
     DEF Next, Operation

LEMMA NextIInv == IInv /\ [Next]_vars => IInv'
  BY TypeStep, BoundStep, PortsStep, ChannelsStep, CopiesStep, DiskStep, StrayStep DEF IInv

LEMMA AlwaysIInv == Spec => []IInv
  BY InitIInv, NextIInv, PTL DEF Spec

-----------------------------------------------------------------------------
\* Servers of two instances that run at once hold ports apart, also those that
\* outlived a manager, but for unchecked instances and moved or deleted ones:
\* whatever is held is what the record says (BoundIsRecorded).
THEOREM RunningPortsDisjointHolds == Spec => []RunningPortsDisjoint
<1>1. IInv => RunningPortsDisjoint
  <2> SUFFICES ASSUME IInv, NEW i \in Ids \ raced, NEW j \in Ids \ raced, i # j,
                      NEW p \in Held(i), NEW q \in Held(j)
               PROVE  ~Overlap(p, q)
    BY DEF RunningPortsDisjoint
  <2>1. \A k \in Ids : \A h \in Held(k) : k \in Known /\ h = records[k].port
    BY AbsentAssumption DEF Held, IInv, TypeOK, BoundIsRecorded, Running
  <2> QED BY <2>1 DEF IInv, PortsDisjoint
<1> QED
  BY <1>1, AlwaysIInv, PTL

\* A channel belongs to one instance, but for unedited clones.
THEOREM ChannelsDistinctHolds == Spec => []ChannelsDistinct
  BY AlwaysIInv, PTL DEF IInv

\* A directory that would be read back as another instance, or as a deleted
\* one, was left by an operation that was cut short.
THEOREM StrayOnlyIfCutHolds == Spec => []StrayOnlyIfCut
  BY AlwaysIInv, PTL DEF IInv

\* A restart of the manager brings every instance back as it was.
THEOREM RestartKeepsHolds == Spec => RestartKeeps
<1>1. IInv => [\A i \in Known \ unsaved :
                 Restart /\ Holding(i) \subseteq {i} => records'[i] = records[i]]_vars
  <2> SUFFICES ASSUME IInv, NEW i \in Known \ unsaved, Restart, Holding(i) \subseteq {i}
               PROVE  records'[i] = records[i]
    OBVIOUS
  <2>1. disk[i] = [id |-> i, config |-> records[i]] /\ disk[i] \in File
    <3>1. disk[i] = [id |-> i, config |-> records[i]] /\ records[i] \in Config
      BY DEF IInv, TypeOK, DiskAgrees, Known
    <3> QED BY <3>1 DEF File, Known
  <2>2. i \in Found
    BY <2>1, AbsentAssumption DEF Found, Known
  <2>3. PICK d \in Holding(i) : records'[i] = disk[d].config
    BY <2>2 DEF Restart, Known
  <2> QED BY <2>1, <2>3
<1> QED
  BY <1>1, AlwaysIInv, PTL DEF RestartKeeps

=============================================================================
