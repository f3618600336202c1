------------------------------ MODULE Presence ------------------------------
(***************************************************************************)
(* Who is on the server, and everyone who ever was: PlayerTracker          *)
(* (vhsm/monitor/players.py) and Roster (vhsm/roster.py) of one instance.  *)
(*                                                                         *)
(* The console tells of connections and of characters, and of which        *)
(* belongs to which only by the order of its lines; the Steam query tells  *)
(* of names alone.  A line is processed as a whole, and with it what the   *)
(* roster records of it.  The scheduler saves the roster in a thread, and  *)
(* lines, notes and requests go on beside it.  What is recorded of one     *)
(* player does not depend on the others, but for Roster._dirty.            *)
(***************************************************************************)
EXTENDS Naturals, Sequences

CONSTANTS
  Accounts,    \* the accounts that play here; a connection bears its account
  Crossplay,   \* those whose account the console tells in a line of its own
  Recorded,    \* those whose entries in the roster are followed here
  Names,       \* names of characters
  NoName,      \* the name of a row that still says "connecting..."
  Absent       \* no row

ASSUME AccountsAssumption == Crossplay \subseteq Accounts /\ Recorded \subseteq Accounts
\* Names are told apart from what stands for none, and from the phases.
ASSUME NamesAssumption ==
  /\ NoName \notin Names /\ Absent \notin Names /\ NoName # Absent
  /\ {"away", "dialling", "loading"} \cap (Names \cup {NoName, Absent}) = {}

VARIABLES
  phase,     \* what each player does: "away", "dialling", "loading" or the name played
  shown,     \* PlayerTracker._players: the name in the row of each connection
  pending,   \* PlayerTracker._pending
  known,     \* the connections whose account is known: Player.player_id
  guests,    \* the names in _players that only a query has told
  answer,    \* the names in an answer to the query that is on its way, or Absent
  roster,    \* Roster._entries
  file,      \* the entries in players.json
  stale,     \* the players of whom players.json does not say what roster does
  dirty,     \* Roster._dirty
  save,      \* the thread of the scheduler
  crowd,     \* history: players that were not told apart from others, see below
  met,       \* history: players seen or noted, and not forgotten since
  rushed,    \* history: those for whom that last happened during a save
  gone       \* history: players whose entry was dropped as one too many, or lost
             \* with a manager that did not save, and who were not seen since

tracker == <<shown, pending, known, guests>>
book == <<roster, file, stale, dirty, save, met, rushed, gone>>
presenceVars == <<phase, tracker, answer, book, crowd>>

Idle == [pc |-> "idle", copy |-> {}, late |-> {}]

PresenceTypeOK ==
  /\ phase \in [Accounts -> {"away", "dialling", "loading"} \cup Names]
  /\ shown \in [Accounts -> Names \cup {NoName, Absent}]
  /\ pending \in Seq(Accounts)
  /\ {known, roster, file, stale, crowd, met, rushed, gone} \subseteq SUBSET Accounts
  /\ guests \subseteq Names
  /\ answer = Absent \/ answer \subseteq Names
  /\ dirty \in BOOLEAN
  /\ save \in [pc : {"idle", "collect", "write", "clear"}, copy : SUBSET Accounts,
               late : SUBSET Accounts]

PresenceInit ==
  /\ phase = [p \in Accounts |-> "away"]
  /\ shown = [p \in Accounts |-> Absent]
  /\ pending = <<>> /\ known = {} /\ guests = {}
  /\ answer = Absent
  /\ roster = {} /\ file = {} /\ stale = {} /\ dirty = FALSE
  /\ save = Idle
  /\ crowd = {} /\ met = {} /\ rushed = {} /\ gone = {}

-----------------------------------------------------------------------------
Saving == save.pc # "idle"
Rush(ps) == rushed' = IF Saving THEN rushed \cup ps ELSE rushed \ ps

\* Roster._entry of these players, and what is new in it.
Record(ps) ==
  LET followed == ps \cap Recorded IN
  /\ roster' = roster \cup followed
  /\ stale' = stale \cup followed
  /\ save' = [save EXCEPT !.late = IF save.pc = "write" THEN @ \cup followed ELSE @]
  /\ met' = met \cup followed
  /\ gone' = gone \ followed
  /\ Rush(followed)
  /\ UNCHANGED file

\* Faulty variant: only a new entry is something to save.
ObserveNew(ps) ==
  /\ Record(ps)
  /\ dirty' = (dirty \/ ~(ps \subseteq roster))

\* Roster.observe, of an event of each of these players.
Observe(ps) ==
  /\ Record(ps)
  /\ dirty' = (dirty \/ ps # {})

\* Connected and shown under their own name, or not here.
Clear(p) == phase[p] = "away" \/ phase[p] = shown[p]
Watch ==
  crowd' = {p \in Accounts :
              \/ p \in crowd /\ phase'[p] # "away"
              \/ ~Clear(p)' /\ \E q \in Accounts \ {p} : ~Clear(q)'}

\* _connect: a row without a name, and a place in the queue for one.
Connected(p) ==
  IF shown[p] = Absent
    THEN shown' = [shown EXCEPT ![p] = NoName] /\ pending' = Append(pending, p)
    ELSE UNCHANGED <<shown, pending>>

\* _pending.remove, which takes the first.
Unqueued(p) ==
  LET places == {k \in 1..Len(pending) : pending[k] = p} IN
  IF places = {}
    THEN UNCHANGED pending
    ELSE \E k \in places :
           /\ \A j \in places : k <= j
           /\ pending' = SubSeq(pending, 1, k - 1) \o SubSeq(pending, k + 1, Len(pending))

-----------------------------------------------------------------------------
(***************************************************************************)
(* Lines of the console                                                    *)
(***************************************************************************)

\* "Got connection SteamID" tells the account; the handshake of a crossplay
\* session does not.
Handshake(p) ==
  /\ \/ phase[p] = "away"
     \/ phase[p] = "dialling" /\ p \in known
  /\ phase' = [phase EXCEPT ![p] =
       IF p \in Crossplay /\ phase[p] = "away" THEN "dialling" ELSE "loading"]
  /\ Connected(p)
  /\ known' = IF p \in Crossplay THEN known ELSE known \cup {p}
  /\ Observe({p} \ Crossplay)
  /\ Watch
  /\ UNCHANGED <<guests, answer>>

\* The account, before or after the handshake.
PlatformId(p) ==
  /\ p \in Crossplay \ known
  /\ phase[p] \in {"away", "dialling"}
  /\ phase' = [phase EXCEPT ![p] = IF phase[p] = "away" THEN "dialling" ELSE "loading"]
  /\ Connected(p)
  /\ known' = known \cup {p}
  /\ Observe({p})
  /\ Watch
  /\ UNCHANGED <<guests, answer>>

\* Faulty variant: every line of a character is that of a new player.
CharacterAnew(n, died) ==
  IF pending = <<>>
    THEN Observe({}) /\ UNCHANGED <<shown, pending>>
    ELSE /\ shown' = [shown EXCEPT ![Head(pending)] = n]
         /\ pending' = Tail(pending)
         /\ Observe({Head(pending)} \cap known)

\* A name that is shown is that of its row again; a new one goes to the
\* connection that has waited longest.
Character(n, died) ==
  LET rows == {p \in Accounts : shown[p] = n} IN
  IF rows # {} \/ n \in guests \/ pending = <<>>
    THEN /\ Observe(IF died THEN rows \cap known ELSE {})
         /\ UNCHANGED <<shown, pending>>
    ELSE /\ shown' = [shown EXCEPT ![Head(pending)] = n]
         /\ pending' = Tail(pending)
         /\ Observe({Head(pending)} \cap known)

Spawns(p, n) ==
  /\ phase[p] = "loading"
  /\ phase' = [phase EXCEPT ![p] = n]
  /\ Character(n, FALSE)
  /\ Watch
  /\ UNCHANGED <<known, guests, answer>>

\* A death, or a return from one.
Again(p, died) ==
  /\ phase[p] \in Names
  /\ UNCHANGED <<phase, known, guests, answer>>
  /\ Character(phase[p], died)
  /\ Watch

\* "Closing socket": of a player, or of somebody who never got in.
Leave(p) ==
  /\ phase[p] # "away"
  /\ phase' = [phase EXCEPT ![p] = "away"]
  /\ shown' = [shown EXCEPT ![p] = Absent]
  /\ Unqueued(p)
  /\ known' = known \ {p}
  /\ Observe({p} \cap known)
  /\ Watch
  /\ UNCHANGED <<guests, answer>>

-----------------------------------------------------------------------------
(***************************************************************************)
(* The query, and the server's restarts                                    *)
(***************************************************************************)

\* The server may list the names it has, or none at all; and a server that has
\* outlived its manager holds the port and lists any.
Asked ==
  /\ answer = Absent
  /\ answer' \in SUBSET Names
  /\ UNCHANGED <<phase, tracker, book, crowd>>

\* observe_query: nobody ever takes such a row away again but reset.
AnswerComes ==
  /\ answer # Absent
  /\ guests' = guests \cup {n \in answer : \A p \in Accounts : shown[p] # n}
  /\ answer' = Absent
  /\ UNCHANGED <<phase, shown, pending, known, book, crowd>>

Reset == shown' = [p \in Accounts |-> Absent] /\ pending' = <<>> /\ known' = {} /\ guests' = {}

\* InstanceManager.stop and start.
ServerRestarts ==
  /\ phase' = [p \in Accounts |-> "away"]
  /\ Reset /\ Watch
  /\ UNCHANGED <<answer, book>>

\* A start that finds the server running has reset the tracker first.
StartRefused ==
  /\ UNCHANGED <<phase, answer, book>>
  /\ Reset /\ Watch

-----------------------------------------------------------------------------
(***************************************************************************)
(* The roster                                                              *)
(***************************************************************************)
\* Roster.save keeps the MAX_PLAYERS entries last seen.  How many others there
\* are besides those followed, and when they were seen, is left open: any of
\* those followed may be among the coldest.
Truncated(entries) == SUBSET entries

SaveBegins ==
  /\ ~Saving /\ dirty
  /\ save' = [Idle EXCEPT !.pc = "collect", !.copy = roster]
  /\ UNCHANGED <<phase, tracker, answer, roster, file, stale, dirty, met, rushed, gone, crowd>>

\* The entries are what was collected and not dropped, and become what is to be
\* written.
SaveCollects ==
  /\ save.pc = "collect"
  /\ \E kept \in Truncated(save.copy) :
       /\ save' = [save EXCEPT !.pc = "write", !.copy = kept]
       /\ roster' = kept
       /\ gone' = gone \cup (save.copy \ kept)
  /\ UNCHANGED <<phase, tracker, answer, file, stale, dirty, met, rushed, crowd>>

SaveWrites ==
  /\ save.pc = "write"
  /\ save' = [save EXCEPT !.pc = "clear"]
  /\ file' = save.copy
  /\ stale' = save.late \cup {p \in Accounts : (p \in roster) # (p \in save.copy)}
  /\ UNCHANGED <<phase, tracker, answer, roster, dirty, met, rushed, gone, crowd>>

SaveFails ==
  /\ save.pc = "write"
  /\ save' = Idle
  /\ UNCHANGED <<phase, tracker, answer, roster, file, stale, dirty, met, rushed, gone, crowd>>

SaveEnds ==
  /\ save.pc = "clear"
  /\ save' = Idle
  /\ dirty' = FALSE
  /\ UNCHANGED <<phase, tracker, answer, roster, file, stale, met, rushed, gone, crowd>>

\* save(force=True) with these entries, on the event loop, after a request
\* about the players `named'.  The file may not be written.
Save(entries, named) ==
  \E kept \in Truncated(entries) :
    /\ roster' = kept
    /\ gone' = (gone \ named) \cup (entries \ kept)
    /\ \/ file' = kept /\ stale' = {} /\ dirty' = FALSE
       \/ file' = file /\ stale' = stale \cup named /\ dirty' = (dirty \/ named # {})

\* set_note; what the thread of a save is about to write is older.
Note(p) ==
  /\ p \in Recorded
  /\ Save(roster \cup {p}, {p})
  /\ met' = met \cup {p}
  /\ save' = [save EXCEPT !.late = IF save.pc = "write" THEN @ \cup {p} ELSE @]
  /\ Rush({p})
  /\ UNCHANGED <<phase, tracker, answer, crowd>>

Forget(p) ==
  /\ p \in roster
  /\ Save(roster \ {p}, {p})
  /\ met' = met \ {p}
  /\ Rush({p})
  /\ UNCHANGED <<phase, tracker, answer, save, crowd>>

\* set_permitted_enabled saves the roster too.
WhitelistSwitched ==
  /\ Save(roster, {})
  /\ UNCHANGED <<phase, tracker, answer, save, met, rushed, crowd>>

\* The next manager loads what is left, and watches no server yet.
Anew ==
  /\ roster' = file'
  /\ stale' = {} /\ dirty' = FALSE /\ save' = Idle
  /\ phase' = [p \in Accounts |-> "away"]
  /\ answer' = Absent
  /\ Reset /\ Watch
  /\ UNCHANGED <<met, rushed>>

\* shutdown_all saves what is dirty.  The thread of a save may write after it,
\* or find no more to do.
ManagerRestarts ==
  /\ \E last \in IF dirty THEN Truncated(roster) ELSE {file}, late \in Truncated(save.copy) :
       /\ file' \in {last} \cup CASE save.pc = "idle" -> {}
                                  [] save.pc = "collect" -> {late}
                                  [] save.pc = "write" -> {save.copy}
                                  [] save.pc = "clear" -> {file}
       /\ gone' = gone \cup (roster \ last) \cup (save.copy \ late)
  /\ Anew

\* It is killed, or the save of another roster has failed before this one's
\* turn: what joined since the last save is lost.
ManagerDies ==
  /\ file' = file
  /\ gone' = gone \cup stale
  /\ Anew

-----------------------------------------------------------------------------
PresenceNext ==
  \/ \E p \in Accounts :
       \/ Handshake(p) \/ PlatformId(p) \/ Leave(p) \/ Note(p) \/ Forget(p)
       \/ \E n \in Names : Spawns(p, n)
       \/ \E died \in BOOLEAN : Again(p, died)
  \/ Asked \/ AnswerComes \/ WhitelistSwitched \/ ServerRestarts \/ StartRefused
  \/ ManagerRestarts \/ ManagerDies
  \/ SaveBegins \/ SaveCollects \/ SaveWrites \/ SaveFails \/ SaveEnds

PresenceSpec == PresenceInit /\ [][PresenceNext]_presenceVars

-----------------------------------------------------------------------------
(***************************************************************************)
(* Properties                                                              *)
(***************************************************************************)

\* The row that bears a name is that of the player who plays under it, so
\* that a kick or a ban of the row hits the one who was meant: through deaths,
\* reconnections, connections that never get in, late answers of the query
\* and restarts, for everybody who was never on the server together with
\* another of whom, like them, the page did not know the name.
OwnName == \A p \in Accounts \ crowd : shown[p] \in Names => phase[p] = shown[p]

\* Everyone who has ever joined is in the roster until forgotten, and what it
\* holds is on disk or will be.  Excepted are those seen or forgotten during a
\* save, those dropped because the roster was full, and those whose last entry
\* a killed manager had not saved yet.
RosterKept ==
  \A p \in Recorded \ (rushed \cup gone) :
    /\ p \in roster <=> p \in met
    /\ p \in stale => dirty
    /\ p \notin stale /\ ~Saving => (p \in file <=> p \in roster)
=============================================================================
