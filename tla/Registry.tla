------------------------------ MODULE Registry ------------------------------
(***************************************************************************)
(* The instances the manager knows (vhsm/manager.py: load_all, create,     *)
(* update, delete, import_archive, clone) and the directories that are     *)
(* their only persistent record.                                           *)
(*                                                                         *)
(* Everything runs on one event loop, so an operation without an await is  *)
(* one action.  Only clone() awaits, the copy of the source's directory in *)
(* a thread, and it chooses its port before and registers after.           *)
(*                                                                         *)
(* Of a configuration the model keeps what instances compete for: the game *)
(* port and the Discord channel (NoChannel also when Discord is switched   *)
(* off).  A directory is known by the instance.json in it, whose id need   *)
(* not be the directory's name.  Names of instances are left out: update() *)
(* lets two instances share one.                                           *)
(***************************************************************************)
EXTENDS Naturals

CONSTANTS
  Ids,          \* the ids uuid4 may mint
  Ports,        \* the ports a form may ask for, and those _free_port tries
  LowPort,      \* 1024, the lowest port _free_port tries
  DefaultPort,  \* 2456, where _free_port goes on
  EndPort,      \* 65500, where _free_port gives up
  Channels,     \* Discord channels
  NoChannel,    \* no channel, or Discord switched off
  Absent        \* no record, no instance.json, no copy, no process

ASSUME PortsAssumption == Ports \subseteq Nat /\ {LowPort, DefaultPort, EndPort} \subseteq Nat
VARIABLES
  records,   \* InstanceManager._records: the configuration of each instance
  disk,      \* the instance.json in each directory of instances_dir
  copies,    \* the clones under way, by the id of the new instance
  bound,     \* the port an active instance's server was launched with
  strays,    \* the servers that outlived their manager, and their ports
  unsaved,   \* history: own directory does not hold the configuration
  raced,     \* history: cloned while another instance took or moved a port
  shared,    \* history: cloned together with the source's channel, or given
             \* the old default channel when the bot's start broke off
  cut,       \* history: directories left by an operation that was cut short
  legacy     \* the default channel that discord.json had for all instances,
             \* until the bot has moved it down to one: then Absent

vars == <<records, disk, copies, bound, strays, unsaved, raced, shared, cut, legacy>>

Config == [port : Ports, channel : Channels \cup {NoChannel}]
File == [id : Ids, config : Config]
Copy == [source : Ids, config : Config, copied : BOOLEAN, current : BOOLEAN]

\* Absent is no port, configuration, file or copy.
ASSUME AbsentAssumption ==
  /\ NoChannel \notin Channels
  /\ Absent \notin Ports /\ Absent \notin Config /\ Absent \notin Channels
  /\ Absent \notin File /\ Absent \notin Copy

Known == {i \in Ids : records[i] # Absent}
Running == {i \in Ids : bound[i] # Absent}
Copying == {d \in Ids : copies[d] # Absent}

TypeOK ==
  /\ records \in [Ids -> Config \cup {Absent}]
  /\ disk \in [Ids -> File \cup {Absent}]
  /\ copies \in [Ids -> Copy \cup {Absent}]
  /\ bound \in [Ids -> Ports \cup {Absent}]
  /\ strays \subseteq Ids \X Ports
  /\ unsaved \subseteq Ids
  /\ raced \subseteq Ids
  /\ shared \subseteq Ids
  /\ cut \subseteq Ids
  /\ legacy \in Channels \cup {Absent}

Init ==
  /\ records = [i \in Ids |-> Absent]
  /\ disk = [i \in Ids |-> Absent]
  /\ copies = [i \in Ids |-> Absent]
  /\ bound = [i \in Ids |-> Absent] /\ strays = {}
  /\ unsaved = {} /\ raced = {} /\ shared = {} /\ cut = {}
  /\ legacy \in Channels \cup {Absent}

-----------------------------------------------------------------------------
(***************************************************************************)
(* Ports, channels, ids                                                    *)
(***************************************************************************)

\* Valheim binds port, port + 1 and port + 2.
Overlap(p, q) == p < q + 3 /\ q < p + 3

PortFree(p, exclude) == \A j \in Known \ exclude : ~Overlap(records[j].port, p)

\* Faulty variant: only instances that run hold their channel.
ChannelFreeOfRunning(c, exclude) ==
  c # NoChannel => \A j \in (Known \cap Running) \ exclude : records[j].channel # c

ChannelFree(c, exclude) == c # NoChannel => \A j \in Known \ exclude : records[j].channel # c

\* The free ports _free_port would come across walking up from `start'.
Walk(start) ==
  LET base == IF start < LowPort THEN LowPort ELSE start
  IN {p \in Ports : p >= base /\ p < EndPort /\ (p - base) % 3 = 0 /\ PortFree(p, {})}

Lowest(p, S) == p \in S /\ \A q \in S : p <= q

\* p is what _free_port(preferred) returns.
FreePort(preferred, p) ==
  IF Walk(preferred) # {} THEN Lowest(p, Walk(preferred)) ELSE Lowest(p, Walk(DefaultPort))

\* An id nothing on this host has ever mentioned.
Fresh(i) ==
  /\ records[i] = Absent /\ copies[i] = Absent /\ disk[i] = Absent
  /\ \A d \in Ids : disk[d] # Absent => disk[d].id # i
  /\ \A d \in Copying : copies[d].source # i
  /\ \A s \in strays : s[1] # i

\* Faulty variant: the change stays in memory.
SaveForgets(i, config) == UNCHANGED <<disk, unsaved>>

\* write_json replaces the file, or fails (a full disk) and leaves it be.
Save(i, config) ==
  \/ /\ disk' = [disk EXCEPT ![i] = [id |-> i, config |-> config]]
     /\ unsaved' = unsaved \ {i}
  \/ UNCHANGED disk /\ unsaved' = unsaved \cup {i}

\* rmtree(ignore_errors=True) of the directory d, alone in this step.
RemoveTree(d) ==
  \/ disk' = [disk EXCEPT ![d] = Absent] /\ cut' = cut \ {d}
  \/ UNCHANGED disk /\ cut' = cut \cup {d}

\* A port was taken or moved: every copy under way chose its own before that.
OutdatedCopy(c) == IF c = Absent THEN Absent ELSE [c EXCEPT !.current = FALSE]
Outdated == [d \in Ids |-> OutdatedCopy(copies[d])]

-----------------------------------------------------------------------------
(***************************************************************************)
(* create, update, delete                                                  *)
(***************************************************************************)

Create(i, config) ==
  /\ Fresh(i)
  /\ PortFree(config.port, {})
  /\ ChannelFree(config.channel, {})
  /\ records' = [records EXCEPT ![i] = config]
  /\ copies' = Outdated
  /\ Save(i, config)
  /\ UNCHANGED <<bound, strays, raced, shared, cut, legacy>>

\* Faulty variant: the port of an active server may be changed.
UpdateAnytime(i, config) ==
  /\ i \in Known
  /\ PortFree(config.port, {i})
  /\ ChannelFree(config.channel, {i})
  /\ records' = [records EXCEPT ![i] = config]
  /\ copies' = IF config.port # records[i].port THEN Outdated ELSE copies
  /\ Save(i, config)
  /\ raced' = raced \ {i}
  /\ shared' = shared \ {i}
  /\ UNCHANGED <<bound, strays, cut, legacy>>

Update(i, config) ==
  /\ i \in Known
  /\ PortFree(config.port, {i})
  /\ ChannelFree(config.channel, {i})
  /\ i \in Running => config.port = records[i].port
  /\ records' = [records EXCEPT ![i] = config]
  /\ copies' = IF config.port # records[i].port THEN Outdated ELSE copies
  /\ Save(i, config)
  /\ raced' = raced \ {i}
  /\ shared' = shared \ {i}
  /\ UNCHANGED <<bound, strays, cut, legacy>>

\* What follows delete()'s wait for the server to stop.
Delete(i) ==
  /\ i \in Known
  /\ records' = [records EXCEPT ![i] = Absent]
  /\ bound' = [bound EXCEPT ![i] = Absent]
  /\ RemoveTree(i)
  /\ unsaved' = unsaved \ {i}
  /\ raced' = raced \ {i}
  /\ shared' = shared \ {i}
  /\ UNCHANGED <<copies, strays, legacy>>

-----------------------------------------------------------------------------
(***************************************************************************)
(* import and clone: the directory first holds the other's instance.json   *)
(***************************************************************************)

\* extract_zip has come past the instance.json of the archive.
Extracted(i, original) == disk' = [disk EXCEPT ![i] = original]

\* The archive was refused half-way, and the new directory removed again; or
\* anything else failed, or the manager died, before ours was written over it.
ImportFails(i, original) ==
  /\ Fresh(i)
  /\ original.id # i
  /\ \/ UNCHANGED <<disk, cut>>
     \/ Extracted(i, original) /\ cut' = cut \cup {i}
  /\ UNCHANGED <<records, copies, bound, strays, unsaved, raced, shared, legacy>>

Import(i, port, p) ==
  /\ Fresh(i)
  /\ FreePort(port, p)
  /\ LET config == [port |-> p, channel |-> NoChannel]
     IN /\ records' = [records EXCEPT ![i] = config]
        /\ disk' = [disk EXCEPT ![i] = [id |-> i, config |-> config]]
  /\ copies' = Outdated
  /\ UNCHANGED <<bound, strays, unsaved, raced, shared, cut, legacy>>

CloneBegins(d, i, p) ==
  /\ Fresh(d)
  /\ i \in Known
  /\ FreePort(records[i].port, p)
  /\ copies' = [copies EXCEPT ![d] =
       [source |-> i, config |-> [port |-> p, channel |-> records[i].channel],
        copied |-> FALSE, current |-> TRUE]]
  /\ UNCHANGED <<records, disk, bound, strays, unsaved, raced, shared, cut, legacy>>

\* The thread comes past instance.json.
CloneCopies(d) ==
  /\ d \in Copying
  /\ ~copies[d].copied
  /\ disk' = [disk EXCEPT ![d] = disk[copies[d].source]]
  /\ copies' = [copies EXCEPT ![d].copied = TRUE]
  /\ UNCHANGED <<records, bound, strays, unsaved, raced, shared, cut, legacy>>

\* The request is cancelled, and the thread, which cannot be, copies on; or
\* writing the clone's own instance.json fails.
CloneCutShort(d) ==
  /\ d \in Copying
  /\ disk' = IF copies[d].copied THEN disk ELSE [disk EXCEPT ![d] = disk[copies[d].source]]
  /\ copies' = [copies EXCEPT ![d] = Absent]
  /\ cut' = cut \cup {d}
  /\ UNCHANGED <<records, bound, strays, unsaved, raced, shared, legacy>>

\* copytree raised: a full disk, or the source was deleted under it.
CloneFails(d) ==
  /\ d \in Copying
  /\ copies' = [copies EXCEPT ![d] = Absent]
  /\ RemoveTree(d)
  /\ UNCHANGED <<records, bound, strays, unsaved, raced, shared, legacy>>

\* The copy is there; no name or port is looked at again.
CloneEnds(d) ==
  /\ d \in Copying
  /\ copies[d].copied
  /\ LET config == copies[d].config
     IN /\ disk' = [disk EXCEPT ![d] = [id |-> d, config |-> config]]
        /\ records' = [records EXCEPT ![d] = config]
        /\ shared' = IF config.channel # NoChannel THEN shared \cup {d} ELSE shared
  /\ raced' = IF copies[d].current THEN raced ELSE raced \cup {d}
  /\ copies' = [Outdated EXCEPT ![d] = Absent]
  /\ UNCHANGED <<bound, strays, unsaved, cut, legacy>>

-----------------------------------------------------------------------------
(***************************************************************************)
(* The servers, and the manager's restart                                  *)
(***************************************************************************)

Start(i) ==
  /\ i \in Known \ Running
  /\ bound' = [bound EXCEPT ![i] = records[i].port]
  /\ UNCHANGED <<records, disk, copies, strays, unsaved, raced, shared, cut, legacy>>

Stop(i) ==
  /\ i \in Running
  /\ bound' = [bound EXCEPT ![i] = Absent]
  /\ UNCHANGED <<records, disk, copies, strays, unsaved, raced, shared, cut, legacy>>

\* The ids load_all finds, and the directories it may take each one from: it
\* reads them in the order of their random names and the last one wins.
Found == {disk[d].id : d \in {e \in Ids : disk[e] # Absent}}
Holding(i) == {d \in Ids : disk[d] # Absent /\ disk[d].id = i}

\* The manager stops or dies, and load_all rebuilds the registry.  One that stops
\* has stopped the servers; those of one that is killed have sessions of their
\* own, and may run on.  No manager knows of them any more.
Restart ==
  /\ \E from \in [Found -> Ids] :
       /\ \A i \in Found : from[i] \in Holding(i)
       /\ records' = [i \in Ids |-> IF i \in Found THEN disk[from[i]].config ELSE Absent]
       /\ LET other == {i \in Found : from[i] # i}
              unchecked == other \cup unsaved \cup (Found \ Known)
          IN /\ unsaved' = other
             /\ raced' = raced \cup unchecked
             /\ shared' = shared \cup unchecked
  /\ cut' = cut \cup {d \in Copying : disk[d] # Absent}
  /\ copies' = [i \in Ids |-> Absent]
  /\ bound' = [i \in Ids |-> Absent]
  /\ \E left \in SUBSET Running : strays' = strays \cup {<<i, bound[i]>> : i \in left}
  /\ UNCHANGED <<disk, legacy>>

StrayExits(i) ==
  /\ \E p \in Ports : <<i, p>> \in strays /\ strays' = strays \ {<<i, p>>}
  /\ UNCHANGED <<records, disk, copies, bound, unsaved, raced, shared, cut, legacy>>

-----------------------------------------------------------------------------
(***************************************************************************)
(* The start of the bot: migrate_legacy_settings and reconcile_channels.   *)
(* Each save may fail, and ends it.                                        *)
(***************************************************************************)

\* Nobody, or one.
One == {S \in SUBSET Ids : \A i, j \in S : i = j}

\* The old default channel goes to one instance that has none, unless one that
\* is switched off takes it.
Given(to) == [i \in Ids |-> IF i \in to THEN [records[i] EXCEPT !.channel = legacy] ELSE records[i]]

\* Every instance without a guild is saved; `saved' names those to which that
\* makes a difference.
Moves(to, saved) ==
  /\ \A i \in to : i \in Known /\ records[i].channel = NoChannel
  /\ saved \subseteq Known \cap (unsaved \cup to)
  /\ legacy = Absent => to \cup saved = {}

Stored(given, saved) ==
  [i \in Ids |-> IF i \in saved THEN [id |-> i, config |-> given[i]] ELSE disk[i]]

\* A save fails on the way, or that of discord.json.
MigrationFails(to, saved, failed) ==
  /\ legacy # Absent
  /\ Moves(to, saved) /\ to \subseteq saved \cup failed
  /\ failed \subseteq Known \ saved
  /\ records' = Given(to)
  /\ disk' = Stored(Given(to), saved)
  /\ unsaved' = (unsaved \ saved) \cup failed
  /\ shared' = shared \cup to
  /\ UNCHANGED <<copies, bound, strays, raced, cut, legacy>>

\* Of the instances on one channel the first keeps it.
First(given, keeps) ==
  \A i \in Known : given[i].channel # NoChannel =>
    keeps[given[i].channel] \in Known /\ given[keeps[given[i].channel]].channel = given[i].channel

Losers(given, keeps) ==
  {i \in Known : given[i].channel # NoChannel /\ keeps[given[i].channel] # i}

SwitchedOff(given, off) ==
  [i \in Ids |-> IF i \in off THEN [given[i] EXCEPT !.channel = NoChannel] ELSE given[i]]

\* Those of `done' are switched off and saved; the save of `failed' fails.  An
\* earlier start that could not write discord.json has moved what is in it, but
\* a restart of the manager will find it there.
Reconcile(given, keeps, saved, failed) ==
  /\ First(given, keeps)
  /\ failed \subseteq Losers(given, keeps)
  /\ \E done \in SUBSET (Losers(given, keeps) \ failed) :
       /\ failed = {} => done = Losers(given, keeps)
       /\ records' = SwitchedOff(given, done \cup failed)
       /\ disk' = Stored(SwitchedOff(given, done), saved \cup done)
       /\ unsaved' = (unsaved \ (saved \cup done)) \cup failed

BotStarts(to, saved, failed) ==
  /\ Moves(to, saved) /\ to \subseteq saved
  /\ \E keeps \in [Channels -> Ids] : Reconcile(Given(to), keeps, saved, failed)
  /\ shared' = IF failed = {} THEN {} ELSE shared \cup to
  /\ legacy' = Absent \/ (saved = {} /\ UNCHANGED legacy)
  /\ UNCHANGED <<copies, bound, strays, raced, cut>>

BotStart ==
  \E to, failed \in One, saved \in SUBSET Known :
    MigrationFails(to, saved, failed) \/ BotStarts(to, saved, failed)

-----------------------------------------------------------------------------
Operation(i) ==
  \/ \E config \in Config : Create(i, config) \/ Update(i, config)
  \/ \E original \in File : ImportFails(i, original)
  \/ \E port, p \in Ports : Import(i, port, p)
  \/ \E s \in Ids, p \in Ports : CloneBegins(i, s, p)
  \/ CloneCopies(i) \/ CloneCutShort(i) \/ CloneFails(i) \/ CloneEnds(i)
  \/ Delete(i) \/ Start(i) \/ Stop(i) \/ StrayExits(i)

Next ==
  \/ \E i \in Ids : Operation(i)
  \/ Restart
  \/ BotStart

Spec == Init /\ [][Next]_vars

-----------------------------------------------------------------------------
(***************************************************************************)
(* Properties                                                              *)
(***************************************************************************)

\* The ports that servers of i hold: the one that the manager knows of, and those
\* that outlived another manager where its record says they are.
Held(i) ==
  {p \in Ports : p = bound[i] \/ (<<i, p>> \in strays /\ i \in Known /\ records[i].port = p)}

\* Servers of two instances that run at once do not bind overlapping ports,
\* however creates, updates, clones, imports, deletions and restarts of the
\* manager interleave, and whether servers outlive a manager or not.  The
\* exceptions: a server that outlived its manager and whose instance has been
\* moved to another port or deleted since, as no manager looks for it; and the
\* instances of `raced', a clone during whose copy another instance took or
\* moved a port, and one read back from the wrong file, until an update has
\* checked their port.
RunningPortsDisjoint ==
  \A i, j \in Ids \ raced : i # j =>
    \A p \in Held(i), q \in Held(j) : ~Overlap(p, q)

\* A channel tells the bot which server a command is about: it belongs to one
\* instance, but for a clone, which keeps its source's until it is edited or
\* the bot starts, and for one that got the old default channel when a save
\* broke that start off.
ChannelsDistinct ==
  \A i, j \in Known \ shared :
    i # j /\ records[i].channel # NoChannel => records[i].channel # records[j].channel

\* "The directory is the source of truth": a restart of the manager brings
\* back an instance as it was, if its last save worked and no other directory
\* claims its id.
RestartKeeps ==
  [][\A i \in Known \ unsaved : Restart /\ Holding(i) \subseteq {i} => records'[i] = records[i]]_vars

\* A directory that a restart would not read as the instance it belongs to (a
\* deleted one would be back, a source would be overwritten by its clone) is
\* there only while it is being copied, or because an operation was cut short.
StrayOnlyIfCut ==
  \A d \in Ids : disk[d] # Absent /\ (d \notin Known \/ disk[d].id # d) => d \in Copying \cup cut

=============================================================================
