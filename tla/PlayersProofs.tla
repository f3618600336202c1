--------------------------- MODULE PlayersProofs ---------------------------
(***************************************************************************)
(* What is proved of the three modules about those who play on a server,   *)
(* for every value of their constants: Moderation, Presence and            *)
(* Maintenance.  The modules share no state; each has a part of its own.   *)
(***************************************************************************)
EXTENDS Moderation, Presence, Maintenance, TLAPS

(***************************************************************************)
(* Moderation                                                              *)
(***************************************************************************)

\* BanStands is not inductive by itself: a ban that still had the expiry of a
\* kick would be lifted with it.
BanHasNoExpiry ==
  \A p \in Players \ (doubt \cup fleeting) : asked[p] = "banned" => tempBans[p] = "none"

\* The part of TypeOK that is about kicks and bans.
BanTypes ==
  /\ banned \subseteq Players
  /\ tempBans \in [Players -> {"none", "running", "due"}]
  /\ asked \in [Players -> {"free", "kicked", "banned"}]
  /\ doubt \subseteq Players
  /\ fleeting \subseteq Players

IInv == BanTypes /\ BanHasNoExpiry /\ BanStands /\ NobodyStranded

LEMMA InitIInv == Init => IInv
  BY DEF Init, IInv, BanTypes, BanHasNoExpiry, BanStands, NobodyStranded

\* Every step keeps the types.
LEMMA BanTypesStep == IInv /\ [Next]_vars => BanTypes'
<1> SUFFICES ASSUME IInv, [Next]_vars PROVE BanTypes'
  OBVIOUS
<1> USE DEF IInv, BanTypes, BanHasNoExpiry
<1>1. ASSUME NEW p \in Players, Kick(p) PROVE BanTypes'
  BY <1>1 DEF Kick, Cancelled, Answered, CutShort
<1>2. ASSUME NEW p \in Players, Ban(p) PROVE BanTypes'
  BY <1>2 DEF Ban, Cancelled, Answered, CutShort
<1>3. ASSUME NEW p \in Players, Unban(p) PROVE BanTypes'
  BY <1>3 DEF Unban, Cancelled, Answered, CutShort
<1>4. ASSUME NEW p \in Players, ListBan(p) \/ ListUnban(p) PROVE BanTypes'
  BY <1>4 DEF ListBan, ListUnban, Cancelled, Answered, CutShort
<1>5. ASSUME NEW p \in Players, Torn(p) \/ Expire(p) PROVE BanTypes'
  BY <1>5 DEF Torn, Expire, Cancelled, Answered, CutShort
<1>6. ASSUME NEW done \in SUBSET Players, NEW half \in SUBSET Players, Reconcile(done, half) PROVE BanTypes'
  BY <1>6 DEF Reconcile, Due, Lifted
<1>7. CASE UNCHANGED banVars
  BY <1>7 DEF banVars
<1> QED
  BY <1>1, <1>2, <1>3, <1>4, <1>5, <1>6, <1>7 DEF Next, Moderate, vars

\* A completed ban takes the expiry away, and only a kick of somebody who is
\* not banned gives one.
LEMMA NoExpiryStep == IInv /\ [Next]_vars => BanHasNoExpiry'
<1> SUFFICES ASSUME IInv, [Next]_vars PROVE BanHasNoExpiry'
  OBVIOUS
<1> USE DEF IInv, BanTypes, BanHasNoExpiry
<1>1. ASSUME NEW p \in Players, Kick(p) PROVE BanHasNoExpiry'
  BY <1>1 DEF Kick, Cancelled, Answered, CutShort
<1>2. ASSUME NEW p \in Players, Ban(p) PROVE BanHasNoExpiry'
  BY <1>2 DEF Ban, Cancelled, Answered, CutShort
<1>3. ASSUME NEW p \in Players, Unban(p) PROVE BanHasNoExpiry'
  BY <1>3 DEF Unban, Cancelled, Answered, CutShort
<1>4. ASSUME NEW p \in Players, ListBan(p) \/ ListUnban(p) PROVE BanHasNoExpiry'
  BY <1>4 DEF ListBan, ListUnban, Cancelled, Answered, CutShort
<1>5. ASSUME NEW p \in Players, Torn(p) \/ Expire(p) PROVE BanHasNoExpiry'
  BY <1>5 DEF Torn, Expire, Cancelled, Answered, CutShort
<1>6. ASSUME NEW done \in SUBSET Players, NEW half \in SUBSET Players, Reconcile(done, half) PROVE BanHasNoExpiry'
  BY <1>6 DEF Reconcile, Due, Lifted
<1>7. CASE UNCHANGED banVars
  BY <1>7 DEF banVars
<1> QED
  BY <1>1, <1>2, <1>3, <1>4, <1>5, <1>6, <1>7 DEF Next, Moderate, vars

\* Only what has an expiry is lifted by the sampler.
LEMMA BanStandsStep == IInv /\ [Next]_vars => BanStands'
<1> SUFFICES ASSUME IInv, [Next]_vars PROVE BanStands'
  OBVIOUS
<1> USE DEF IInv, BanTypes, BanHasNoExpiry, BanStands
<1>1. ASSUME NEW p \in Players, Kick(p) PROVE BanStands'
  BY <1>1 DEF Kick, Cancelled, Answered, CutShort
<1>2. ASSUME NEW p \in Players, Ban(p) PROVE BanStands'
  BY <1>2 DEF Ban, Cancelled, Answered, CutShort
<1>3. ASSUME NEW p \in Players, Unban(p) PROVE BanStands'
  BY <1>3 DEF Unban, Cancelled, Answered, CutShort
<1>4. ASSUME NEW p \in Players, ListBan(p) \/ ListUnban(p) PROVE BanStands'
  BY <1>4 DEF ListBan, ListUnban, Cancelled, Answered, CutShort
<1>5. ASSUME NEW p \in Players, Torn(p) \/ Expire(p) PROVE BanStands'
  BY <1>5 DEF Torn, Expire, Cancelled, Answered, CutShort
<1>6. ASSUME NEW done \in SUBSET Players, NEW half \in SUBSET Players, Reconcile(done, half) PROVE BanStands'
  BY <1>6 DEF Reconcile, Due, Lifted
<1>7. CASE UNCHANGED banVars
  BY <1>7 DEF banVars
<1> QED
  BY <1>1, <1>2, <1>3, <1>4, <1>5, <1>6, <1>7 DEF Next, Moderate, vars

\* The expiry goes after the ban, and comes with it.
LEMMA StrandedStep == IInv /\ [Next]_vars => NobodyStranded'
<1> SUFFICES ASSUME IInv, [Next]_vars PROVE NobodyStranded'
  OBVIOUS
<1> USE DEF IInv, BanTypes, BanHasNoExpiry, NobodyStranded
<1>1. ASSUME NEW p \in Players, Kick(p) PROVE NobodyStranded'
  BY <1>1 DEF Kick, Cancelled, Answered, CutShort
<1>2. ASSUME NEW p \in Players, Ban(p) PROVE NobodyStranded'
  BY <1>2 DEF Ban, Cancelled, Answered, CutShort
<1>3. ASSUME NEW p \in Players, Unban(p) PROVE NobodyStranded'
  BY <1>3 DEF Unban, Cancelled, Answered, CutShort
<1>4. ASSUME NEW p \in Players, ListBan(p) \/ ListUnban(p) PROVE NobodyStranded'
  BY <1>4 DEF ListBan, ListUnban, Cancelled, Answered, CutShort
<1>5. ASSUME NEW p \in Players, Torn(p) \/ Expire(p) PROVE NobodyStranded'
  BY <1>5 DEF Torn, Expire, Cancelled, Answered, CutShort
<1>6. ASSUME NEW done \in SUBSET Players, NEW half \in SUBSET Players, Reconcile(done, half) PROVE NobodyStranded'
  BY <1>6 DEF Reconcile, Due, Lifted
<1>7. CASE UNCHANGED banVars
  BY <1>7 DEF banVars
<1> QED
  BY <1>1, <1>2, <1>3, <1>4, <1>5, <1>6, <1>7 DEF Next, Moderate, vars

LEMMA AlwaysIInv == Spec => []IInv
<1>1. IInv /\ [Next]_vars => IInv'
  BY BanTypesStep, NoExpiryStep, BanStandsStep, StrandedStep DEF IInv
<1> QED
  BY <1>1, InitIInv, PTL DEF Spec

-----------------------------------------------------------------------------
\* A ban stands until it is lifted by hand, unless the list page made it in the
\* midst of a kick.
THEOREM BanStandsHolds == Spec => []BanStands
  BY AlwaysIInv, PTL DEF IInv

\* A kick whose request was answered never becomes a ban for good.
THEOREM NobodyStrandedHolds == Spec => []NobodyStranded
  BY AlwaysIInv, PTL DEF IInv

\* The whitelist is on exactly when the operator switched it on.
THEOREM WhitelistByHandHolds == Spec => []WhitelistByHand
<1>1. Init => WhitelistByHand
  BY DEF Init, WhitelistByHand
<1>2. WhitelistByHand /\ [Next]_vars => WhitelistByHand'
  <2> SUFFICES ASSUME WhitelistByHand, [Next]_vars PROVE WhitelistByHand'
    OBVIOUS
  <2>1. CASE Whitelist
    BY <2>1 DEF Whitelist, Toggle, SwitchOn, SwitchOff, Permit, Unpermit, WritePermitted, WhitelistByHand
  <2>2. CASE UNCHANGED whitelistVars
    BY <2>2 DEF whitelistVars, WhitelistByHand
  <2> QED BY <2>1, <2>2 DEF Next, vars
<1> QED
  BY <1>1, <1>2, PTL DEF Spec

\* Every variable keeps its type.
THEOREM TypeCorrect == Spec => []TypeOK
<1> DEFINE ListTypes ==
      /\ {enabled, switchedOn} \subseteq BOOLEAN
      /\ {active, parked} \subseteq SUBSET Players
<1>1. Init => ListTypes
  BY DEF Init
<1>2. ListTypes /\ [Next]_vars => ListTypes'
  <2> SUFFICES ASSUME ListTypes, [Next]_vars PROVE ListTypes'
    OBVIOUS
  <2>1. CASE Whitelist
    BY <2>1 DEF Whitelist, Toggle, SwitchOn, SwitchOff, Permit, Unpermit, Permitted, WritePermitted
  <2>2. CASE UNCHANGED whitelistVars
    BY <2>2 DEF whitelistVars
  <2> QED BY <2>1, <2>2 DEF Next, vars
<1>3. BanTypes /\ ListTypes => TypeOK
  BY DEF BanTypes, TypeOK
<1>4. IInv => BanTypes
  BY DEF IInv
<1> HIDE DEF ListTypes
<1> QED
  BY <1>1, <1>2, <1>3, <1>4, AlwaysIInv, PTL DEF Spec

\* Turning the whitelist on or off loses nobody.
THEOREM WhitelistKeptHolds == Spec => WhitelistKept
<1>1. WhitelistByHand => [Toggle => Permitted' = Permitted]_vars
  BY DEF Toggle, SwitchOn, SwitchOff, Permitted, WhitelistByHand
<1> QED
  BY <1>1, WhitelistByHandHolds, PTL DEF WhitelistKept

-----------------------------------------------------------------------------
(***************************************************************************)
(* Presence                                                                *)
(***************************************************************************)

\* The part of the types that is about the roster, and that about the rows.
BookTypes ==
  /\ {roster, file, stale, met, rushed, gone} \subseteq SUBSET Accounts
  /\ save \in [pc : {"idle", "collect", "write", "clear"}, copy : SUBSET Accounts,
               late : SUBSET Accounts]
RowTypes ==
  /\ phase \in [Accounts -> {"away", "dialling", "loading"} \cup Names]
  /\ shown \in [Accounts -> Names \cup {NoName, Absent}]
  /\ pending \in Seq(Accounts)
  /\ known \subseteq Accounts /\ crowd \subseteq Accounts

(***************************************************************************)
(* RosterKept is not inductive.  While nothing is saved it says too little *)
(* of a player who is stale, and of a save nothing: what the thread writes *)
(* must be what the roster says of everyone but those who rushed.          *)
(***************************************************************************)
KeptOf(p) ==
  /\ p \in roster <=> p \in met
  /\ p \in stale => dirty
  /\ p \notin stale => (p \in file <=> p \in roster)
  /\ save.pc \in {"collect", "write"} => p \notin save.late /\ (p \in save.copy <=> p \in roster)
  /\ save.pc = "clear" => p \notin stale

Kept == \A p \in Recorded \ (rushed \cup gone) : KeptOf(p)

LEMMA KeptInit == PresenceInit => BookTypes /\ Kept
  BY DEF PresenceInit, BookTypes, Kept, KeptOf, Idle

\* The lines of the console record some players, or nobody.
LEMMA LinesObserve ==
  ASSUME RowTypes, PresenceNext
  PROVE  \/ \E ps \in SUBSET Accounts : Observe(ps)
         \/ \E p \in Accounts : Note(p) \/ Forget(p)
         \/ UNCHANGED book
         \/ WhitelistSwitched \/ ManagerRestarts \/ ManagerDies
         \/ SaveBegins \/ SaveCollects \/ SaveWrites \/ SaveFails \/ SaveEnds
<1>1. ASSUME NEW p \in Accounts, Handshake(p) \/ PlatformId(p) \/ Leave(p)
      PROVE  \E ps \in SUBSET Accounts : Observe(ps)
  BY <1>1 DEF Handshake, PlatformId, Leave
<1>2. ASSUME NEW n \in Names, NEW died \in BOOLEAN, Character(n, died)
      PROVE  \E ps \in SUBSET Accounts : Observe(ps)
  BY <1>2 DEF Character, RowTypes
<1>3. ASSUME NEW p \in Accounts, NEW n \in Names, Spawns(p, n)
      PROVE  \E ps \in SUBSET Accounts : Observe(ps)
  BY <1>2, <1>3 DEF Spawns
<1>4. ASSUME NEW p \in Accounts, NEW died \in BOOLEAN, Again(p, died)
      PROVE  \E ps \in SUBSET Accounts : Observe(ps)
  BY <1>2, <1>4 DEF Again
<1>5. CASE Asked \/ AnswerComes \/ ServerRestarts \/ StartRefused
  BY <1>5 DEF Asked, AnswerComes, ServerRestarts, StartRefused
<1> QED BY <1>1, <1>3, <1>4, <1>5 DEF PresenceNext

\* What is noted of some says nothing else of the others.
LEMMA ObserveKept ==
  ASSUME BookTypes, Kept, NEW ps \in SUBSET Accounts, Observe(ps)
  PROVE  BookTypes' /\ Kept'
<1> USE DEF BookTypes, Observe, Record, Rush, Saving
<1>1. BookTypes'
  OBVIOUS
<1>2. ASSUME NEW p \in Recorded \ (rushed' \cup gone') PROVE KeptOf(p)'
  <2>1. CASE p \in ps
    BY <1>2, <2>1 DEF KeptOf
  <2>2. CASE p \notin ps
    <3>1. p \notin rushed /\ p \notin gone /\ KeptOf(p)
      BY <1>2, <2>2 DEF Kept
    <3> QED BY <2>2, <3>1 DEF KeptOf
  <2> QED BY <2>1, <2>2
<1> QED BY <1>1, <1>2 DEF Kept

\* A request about p that leaves some of these entries.
LEMMA RequestKept ==
  ASSUME BookTypes, Kept, NEW p \in Accounts, Note(p) \/ Forget(p)
  PROVE  BookTypes' /\ Kept'
<1> USE DEF BookTypes, Rush, Saving
<1>1. PICK entries \in SUBSET Accounts, kept \in SUBSET Accounts :
        /\ kept \subseteq entries /\ roster' = kept
        /\ gone' = (gone \ {p}) \cup (entries \ kept)
        /\ \/ file' = kept /\ stale' = {} /\ dirty' = FALSE
           \/ file' = file /\ stale' = stale \cup {p} /\ dirty' = TRUE
        /\ entries \ {p} = roster \ {p} /\ met' \ {p} = met \ {p} /\ met' \subseteq Accounts
        /\ p \in entries <=> p \in met'
  <2> DEFINE Left(entries, kept) ==
        /\ kept \subseteq entries /\ roster' = kept
        /\ gone' = (gone \ {p}) \cup (entries \ kept)
        /\ \/ file' = kept /\ stale' = {} /\ dirty' = FALSE
           \/ file' = file /\ stale' = stale \cup {p} /\ dirty' = TRUE
        /\ entries \ {p} = roster \ {p} /\ met' \ {p} = met \ {p} /\ met' \subseteq Accounts
        /\ p \in entries <=> p \in met'
  <2>1. ASSUME NEW entries \in SUBSET Accounts, Save(entries, {p}),
               entries \ {p} = roster \ {p}, met' \ {p} = met \ {p}, met' \subseteq Accounts,
               p \in entries <=> p \in met'
        PROVE  \E kept \in SUBSET Accounts : Left(entries, kept)
    BY <2>1 DEF Save, Truncated
  <2>2. PICK entries \in SUBSET Accounts :
          /\ Save(entries, {p})
          /\ entries \ {p} = roster \ {p} /\ met' \ {p} = met \ {p} /\ met' \subseteq Accounts
          /\ p \in entries <=> p \in met'
    <3>1. CASE Note(p)
      <4>1. Save(roster \cup {p}, {p}) /\ met' = met \cup {p}
        BY <3>1 DEF Note
      <4> WITNESS roster \cup {p} \in SUBSET Accounts
      <4> QED BY <4>1
    <3>2. CASE Forget(p)
      <4>1. Save(roster \ {p}, {p}) /\ met' = met \ {p}
        BY <3>2 DEF Forget
      <4> WITNESS roster \ {p} \in SUBSET Accounts
      <4> QED BY <4>1
    <3> QED BY <3>1, <3>2
  <2> HIDE DEF Left
  <2>3. \E e, kept \in SUBSET Accounts : Left(e, kept)
    BY <2>1, <2>2
  <2> QED BY <2>3 DEF Left
<1>2. Rush({p}) /\ save' \in {save, [save EXCEPT !.late = save.late \cup {p}]}
  BY DEF Note, Forget
<1>3. BookTypes'
  BY <1>1, <1>2
<1>4. ASSUME NEW q \in Recorded \ (rushed' \cup gone') PROVE KeptOf(q)'
  <2>1. CASE q = p
    BY <1>1, <1>2, <1>4, <2>1 DEF KeptOf
  <2>2. CASE q # p
    <3>1. q \notin rushed /\ q \notin gone
      BY <1>1, <1>2, <1>4, <2>2
    <3>2. KeptOf(q)
      BY <1>4, <3>1 DEF Kept
    <3>3. /\ q \in roster' <=> q \in roster
          /\ q \in met' <=> q \in met
          /\ \/ (q \in file' <=> q \in roster) /\ q \notin stale'
             \/ /\ q \in file' <=> q \in file
                /\ q \in stale' <=> q \in stale
                /\ dirty'
      BY <1>1, <1>4, <2>2
    <3>4. /\ save'.pc = save.pc /\ save'.copy = save.copy
          /\ q \in save'.late <=> q \in save.late
      BY <1>2, <2>2
    <3> QED BY <3>2, <3>3, <3>4 DEF KeptOf
  <2> QED BY <2>1, <2>2
<1> QED BY <1>3, <1>4 DEF Kept

\* The steps of a save, those that save everything at once, and the end of the
\* manager.
LEMMA SaveKept ==
  ASSUME BookTypes, Kept,
         \/ WhitelistSwitched \/ ManagerRestarts \/ ManagerDies
         \/ SaveBegins \/ SaveCollects \/ SaveWrites \/ SaveFails \/ SaveEnds
  PROVE  BookTypes' /\ Kept'
<1> USE DEF BookTypes, Idle, Saving, Truncated
<1>1. BookTypes'
  <2>1. CASE WhitelistSwitched
    BY <2>1 DEF WhitelistSwitched, Save
  <2>2. CASE ManagerRestarts \/ ManagerDies
    BY <2>2 DEF ManagerRestarts, ManagerDies, Anew
  <2>3. CASE SaveBegins
    BY <2>3 DEF SaveBegins
  <2>4. CASE SaveCollects
    <3>1. PICK kept \in SUBSET save.copy :
            /\ save' = [save EXCEPT !.pc = "write", !.copy = kept]
            /\ roster' = kept /\ gone' = gone \cup (save.copy \ kept)
      BY <2>4 DEF SaveCollects
    <3>2. kept \subseteq Accounts /\ gone' \subseteq Accounts
      BY <3>1
    <3>3. UNCHANGED <<file, stale, dirty, met, rushed>>
      BY <2>4 DEF SaveCollects
    <3> QED BY <3>1, <3>2, <3>3
  <2>5. CASE SaveWrites
    BY <2>5 DEF SaveWrites
  <2>6. CASE SaveFails \/ SaveEnds
    BY <2>6 DEF SaveFails, SaveEnds
  <2> QED BY <2>1, <2>2, <2>3, <2>4, <2>5, <2>6
<1>2. rushed' = rushed /\ gone \subseteq gone'
  BY DEF WhitelistSwitched, Save, ManagerRestarts, ManagerDies, Anew, SaveBegins, SaveCollects,
         SaveWrites, SaveFails, SaveEnds
<1>3. ASSUME NEW p \in Recorded \ (rushed \cup gone') PROVE KeptOf(p)'
  <2>0. KeptOf(p)
    BY <1>2, <1>3 DEF Kept
  <2> USE <2>0 DEF KeptOf
  <2>1. CASE WhitelistSwitched
    BY <1>3, <2>1 DEF WhitelistSwitched, Save
  <2>2. CASE ManagerRestarts
    <3>1. p \in roster' <=> p \in met
      BY <1>3, <2>2 DEF ManagerRestarts, Anew
    <3> QED BY <2>2, <3>1 DEF ManagerRestarts, Anew
  <2>3. CASE ManagerDies
    BY <1>3, <2>3 DEF ManagerDies, Anew
  <2>4. CASE SaveBegins
    BY <2>4 DEF SaveBegins
  <2>5. CASE SaveCollects
    BY <1>3, <2>5 DEF SaveCollects
  <2>6. CASE SaveWrites \/ SaveFails \/ SaveEnds
    BY <2>6 DEF SaveWrites, SaveFails, SaveEnds
  <2> QED BY <2>1, <2>2, <2>3, <2>4, <2>5, <2>6
<1> QED BY <1>1, <1>2, <1>3 DEF Kept

LEMMA KeptStep ==
  ASSUME RowTypes, BookTypes, Kept, [PresenceNext]_presenceVars
  PROVE  BookTypes' /\ Kept'
<1>1. CASE UNCHANGED book
  BY <1>1 DEF book, BookTypes, Kept, KeptOf
<1>2. CASE UNCHANGED presenceVars
  BY <1>1, <1>2 DEF presenceVars
<1>3. CASE PresenceNext
  BY <1>1, <1>3, LinesObserve, ObserveKept, RequestKept, SaveKept
<1> QED BY <1>2, <1>3

-----------------------------------------------------------------------------
(***************************************************************************)
(* OwnName rests on the queue: who waits for a name is here and has none,  *)
(* so that a name that goes to somebody else's row goes to one who is not  *)
(* told apart, and so is the one whose name it is.                         *)
(***************************************************************************)
Rows == \A p \in Accounts : phase[p] = "away" => shown[p] = Absent
Queue ==
  /\ \A k \in 1..Len(pending) : shown[pending[k]] = NoName
  /\ \A j, k \in 1..Len(pending) : pending[j] = pending[k] => j = k
Apart ==
  /\ \A p, q \in Accounts : p # q /\ ~Clear(p) /\ ~Clear(q) => p \in crowd
  /\ \A p \in crowd : phase[p] # "away"

NameInv == RowTypes /\ Rows /\ Queue /\ Apart /\ OwnName

LEMMA NameInit == PresenceInit => NameInv
  BY NamesAssumption DEF PresenceInit, NameInv, RowTypes, Rows, Queue, Apart, OwnName, Clear

\* Who was in a crowd stays in one while here.
LEMMA Watched ==
  ASSUME Watch
  PROVE  /\ Apart'
         /\ \A p \in crowd : phase'[p] # "away" /\ p \in Accounts => p \in crowd'
         /\ crowd' \subseteq Accounts
  BY DEF Watch, Apart, Clear

\* A connection gets a row and a place in the queue, or has its row.
LEMMA ConnectedRows ==
  ASSUME RowTypes, Queue, NEW p \in Accounts, Connected(p)
  PROVE  /\ Queue' /\ pending' \in Seq(Accounts)
         /\ shown' \in [Accounts -> Names \cup {NoName, Absent}]
         /\ \A q \in Accounts : shown'[q] # shown[q] => q = p /\ shown'[q] = NoName
<1>1. CASE shown[p] = Absent
  <2>1. shown' = [shown EXCEPT ![p] = NoName] /\ pending' = Append(pending, p)
    BY <1>1 DEF Connected
  <2>2. Len(pending') = Len(pending) + 1 /\ Len(pending) \in Nat /\ pending' \in Seq(Accounts)
    BY <2>1 DEF RowTypes
  <2>3. \A k \in 1..Len(pending) : pending'[k] = pending[k] /\ pending[k] \in Accounts /\ pending[k] # p
    BY <1>1, <2>1, NamesAssumption DEF RowTypes, Queue
  <2>4. pending'[Len(pending) + 1] = p
    BY <2>1 DEF RowTypes
  <2>5. \A k \in 1..Len(pending') : k \in 1..Len(pending) \/ k = Len(pending) + 1
    BY <2>2
  <2>6. shown' \in [Accounts -> Names \cup {NoName, Absent}]
    BY <2>1 DEF RowTypes
  <2>7. \A q \in Accounts : shown'[q] = IF q = p THEN NoName ELSE shown[q]
    BY <2>1 DEF RowTypes
  <2>8. Queue'
    BY <2>3, <2>4, <2>5, <2>7 DEF Queue
  <2> QED BY <2>2, <2>6, <2>7, <2>8
<1>2. CASE shown[p] # Absent
  BY <1>2 DEF Connected, RowTypes, Queue
<1> QED BY <1>1, <1>2

\* Leaving the queue keeps the order of the others.
LEMMA UnqueuedRest ==
  ASSUME RowTypes, Queue, NEW p \in Accounts, Unqueued(p)
  PROVE  /\ pending' \in Seq(Accounts)
         /\ \A k \in 1..Len(pending') : \E j \in 1..Len(pending) : pending'[k] = pending[j] /\ pending[j] # p
         /\ \A j, k \in 1..Len(pending') : pending'[j] = pending'[k] => j = k
<1> DEFINE places == {k \in 1..Len(pending) : pending[k] = p}
<1>0. pending \in Seq(Accounts) /\ Len(pending) \in Nat
  BY DEF RowTypes
<1>1. CASE places = {}
  BY <1>0, <1>1 DEF Unqueued, Queue
<1>2. ASSUME NEW m \in places,
             pending' = SubSeq(pending, 1, m - 1) \o SubSeq(pending, m + 1, Len(pending))
      PROVE  /\ pending' \in Seq(Accounts)
             /\ \A k \in 1..Len(pending') : \E j \in 1..Len(pending) : pending'[k] = pending[j] /\ pending[j] # p
             /\ \A j, k \in 1..Len(pending') : pending'[j] = pending'[k] => j = k
  <2> DEFINE At(k) == IF k < m THEN k ELSE k + 1
  <2>1. m \in 1..Len(pending) /\ pending[m] = p
    OBVIOUS
  <2> HIDE DEF places
  <2> DEFINE s == SubSeq(pending, 1, m - 1)
             t == SubSeq(pending, m + 1, Len(pending))
  <2>2. s \in Seq(Accounts) /\ Len(s) = m - 1 /\ \A k \in 1..m-1 : s[k] = pending[k]
    BY <1>0, <2>1
  <2>3. /\ t \in Seq(Accounts) /\ Len(t) = Len(pending) - m
        /\ \A k \in 1..Len(pending)-m : t[k] = pending[m + k]
    BY <1>0, <2>1
  <2> HIDE DEF s, t
  <2>4. /\ s \o t \in Seq(Accounts) /\ Len(s \o t) = Len(s) + Len(t)
        /\ \A k \in 1..Len(s) + Len(t) : (s \o t)[k] = IF k <= Len(s) THEN s[k] ELSE t[k - Len(s)]
    BY <2>2, <2>3
  <2>5. \A k \in 1..Len(s \o t) : (s \o t)[k] = pending[At(k)] /\ At(k) \in 1..Len(pending) /\ At(k) # m
    <3> SUFFICES ASSUME NEW k \in 1..Len(s \o t)
                 PROVE  (s \o t)[k] = pending[At(k)] /\ At(k) \in 1..Len(pending) /\ At(k) # m
      OBVIOUS
    <3>1. CASE k < m
      BY <1>0, <2>1, <2>2, <2>3, <2>4, <3>1
    <3>2. CASE k >= m
      <4>1. k - Len(s) \in 1..Len(pending) - m /\ m + (k - Len(s)) = k + 1
        BY <1>0, <2>1, <2>2, <2>3, <2>4, <3>2
      <4>2. (s \o t)[k] = pending[k + 1]
        BY <1>0, <2>1, <2>2, <2>3, <2>4, <3>2, <4>1
      <4>3. k \in Nat /\ k < Len(pending)
        BY <1>0, <2>1, <2>2, <2>3, <2>4
      <4>4. At(k) = k + 1 /\ k + 1 \in 1..Len(pending) /\ k + 1 # m
        BY <1>0, <2>1, <3>2, <4>3
      <4> QED BY <4>2, <4>4
    <3> QED BY <1>0, <2>1, <2>2, <2>3, <2>4, <3>1, <3>2
  <2>7. pending' = s \o t
    BY <1>2 DEF s, t
  <2>6. \A j, k \in Nat : At(j) = At(k) => j = k
    BY <1>0, <2>1
  <2> HIDE DEF At
  <2>8. \A k \in 1..Len(pending') : pending[At(k)] # p
    BY <2>1, <2>5, <2>7 DEF Queue
  <2>9. ASSUME NEW j \in 1..Len(pending'), NEW k \in 1..Len(pending'), pending'[j] = pending'[k]
        PROVE  j = k
    <3>1. pending[At(j)] = pending[At(k)]
      BY <2>5, <2>7, <2>9
    <3>2. At(j) = At(k)
      BY <2>5, <2>7, <3>1 DEF Queue
    <3> QED BY <2>6, <3>2
  <2> QED BY <2>4, <2>5, <2>7, <2>8, <2>9
<1> QED BY <1>1, <1>2 DEF Unqueued

\* A name goes to its own row, or to that of one who is not told apart.
LEMMA CharacterRows ==
  ASSUME NameInv, NEW p \in Accounts, NEW n \in Names, NEW died \in BOOLEAN,
         phase[p] \in {"loading", n}, Character(n, died)
  PROVE  /\ Queue' /\ pending' \in Seq(Accounts)
         /\ shown' \in [Accounts -> Names \cup {NoName, Absent}]
         /\ \A q \in Accounts : shown'[q] # shown[q] =>
              /\ shown'[q] = n /\ phase[q] # "away"
              /\ q # p => q \in crowd
<1> USE DEF NameInv, RowTypes
<1>1. CASE UNCHANGED <<shown, pending>>
  BY <1>1 DEF Queue
<1>2. CASE /\ pending # <<>> /\ shown[p] # n
           /\ shown' = [shown EXCEPT ![Head(pending)] = n]
           /\ pending' = Tail(pending)
  <2> DEFINE h == Head(pending)
  <2>1. h = pending[1] /\ h \in Accounts /\ Len(pending) \in Nat /\ Len(pending) >= 1
    BY <1>2
  <2>2. shown[h] = NoName
    BY <2>1 DEF Queue
  <2> HIDE DEF h
  <2>3. phase[h] # "away" /\ ~Clear(h)
    BY <2>1, <2>2, NamesAssumption DEF Rows, Clear
  <2>4. ~Clear(p)
    BY <1>2, NamesAssumption DEF Clear
  <2>5. h # p => h \in crowd
    BY <2>1, <2>3, <2>4 DEF Apart
  <2>6. \A q \in Accounts : shown'[q] = IF q = h THEN n ELSE shown[q]
    BY <1>2 DEF h
  <2>7. shown' \in [Accounts -> Names \cup {NoName, Absent}]
    BY <1>2
  <2>8. /\ pending' \in Seq(Accounts) /\ Len(pending') = Len(pending) - 1
        /\ \A k \in 1..Len(pending') : pending'[k] = pending[k + 1]
    BY <1>2, <2>1
  <2>9. ASSUME NEW k \in 1..Len(pending')
        PROVE  pending[k + 1] \in Accounts /\ k + 1 \in 1..Len(pending) /\ pending[k + 1] # h
    <3>1. k + 1 \in 1..Len(pending) /\ 1 \in 1..Len(pending) /\ k + 1 # 1
      BY <2>1, <2>8
    <3> QED BY <2>1, <3>1 DEF Queue
  <2>10. \A k \in 1..Len(pending') : shown'[pending'[k]] = NoName
    BY <2>6, <2>8, <2>9 DEF Queue
  <2>11. ASSUME NEW j \in 1..Len(pending'), NEW k \in 1..Len(pending'), pending'[j] = pending'[k]
         PROVE  j = k
    <3>1. j + 1 = k + 1
      BY <2>8, <2>9, <2>11 DEF Queue
    <3> QED BY <2>1, <2>8, <3>1
  <2> QED BY <2>3, <2>5, <2>6, <2>7, <2>8, <2>10, <2>11 DEF Queue
<1>3. {q \in Accounts : shown[q] = n} # {} \/ shown[p] # n
  OBVIOUS
<1> QED BY <1>1, <1>2, <1>3 DEF Character

\* What every line has to see to.
LEMMA LineKeepsNames ==
  ASSUME NameInv, Watch, Queue', pending' \in Seq(Accounts), known' \subseteq Accounts,
         phase' \in [Accounts -> {"away", "dialling", "loading"} \cup Names],
         shown' \in [Accounts -> Names \cup {NoName, Absent}],
         \A q \in Accounts : phase'[q] = "away" => shown'[q] = Absent,
         \A q \in Accounts : shown'[q] \in Names /\ phase'[q] # shown'[q] => q \in crowd
  PROVE  NameInv'
<1>1. RowTypes' /\ Rows' /\ Apart'
  BY Watched DEF NameInv, RowTypes, Rows
<1>2. ASSUME NEW q \in Accounts \ crowd', shown'[q] \in Names, phase'[q] # shown'[q] PROVE FALSE
  <2>1. q \in crowd /\ phase'[q] # "away"
    BY <1>2, NamesAssumption
  <2> QED BY <1>2, <2>1, Watched
<1>3. OwnName'
  BY <1>2 DEF OwnName
<1> QED BY <1>1, <1>3 DEF NameInv

\* A connection, with or without its account.
LEMMA ConnectionNames ==
  ASSUME NameInv, NEW p \in Accounts, Handshake(p) \/ PlatformId(p)
  PROVE  NameInv'
<1>1. /\ Connected(p) /\ Watch /\ known' \subseteq Accounts
      /\ phase[p] \in {"away", "dialling"}
      /\ \/ phase' = [phase EXCEPT ![p] = "dialling"]
         \/ phase' = [phase EXCEPT ![p] = "loading"]
  BY DEF Handshake, PlatformId, NameInv, RowTypes
<1>2. /\ Queue' /\ pending' \in Seq(Accounts)
      /\ shown' \in [Accounts -> Names \cup {NoName, Absent}]
      /\ \A q \in Accounts : shown'[q] # shown[q] => q = p /\ shown'[q] = NoName
  BY <1>1, ConnectedRows DEF NameInv
<1>3. /\ phase' \in [Accounts -> {"away", "dialling", "loading"} \cup Names]
      /\ \A q \in Accounts : phase'[q] = IF q = p THEN phase'[p] ELSE phase[q]
      /\ phase'[p] \in {"dialling", "loading"}
  BY <1>1 DEF NameInv, RowTypes
<1>4. \A q \in Accounts : phase'[q] = "away" => shown'[q] = Absent
  BY <1>2, <1>3 DEF NameInv, Rows
<1>5. \A q \in Accounts : shown'[q] \in Names /\ phase'[q] # shown'[q] => q \in crowd
  BY <1>1, <1>2, <1>3, NamesAssumption DEF NameInv, OwnName
<1> QED BY <1>1, <1>2, <1>3, <1>4, <1>5, LineKeepsNames

\* A character appears.
LEMMA SpawnsNames ==
  ASSUME NameInv, NEW p \in Accounts, NEW n \in Names, Spawns(p, n)
  PROVE  NameInv'
<1>1. /\ phase[p] = "loading" /\ phase' = [phase EXCEPT ![p] = n] /\ Character(n, FALSE)
      /\ Watch /\ known' \subseteq Accounts
  BY DEF Spawns, NameInv, RowTypes
<1>2. /\ Queue' /\ pending' \in Seq(Accounts)
      /\ shown' \in [Accounts -> Names \cup {NoName, Absent}]
      /\ \A q \in Accounts : shown'[q] # shown[q] =>
           /\ shown'[q] = n /\ phase[q] # "away"
           /\ q # p => q \in crowd
  BY <1>1, CharacterRows
<1>3. /\ phase' \in [Accounts -> {"away", "dialling", "loading"} \cup Names]
      /\ \A q \in Accounts : phase'[q] = IF q = p THEN n ELSE phase[q]
  BY <1>1 DEF NameInv, RowTypes
<1>4. \A q \in Accounts : phase'[q] = "away" => shown'[q] = Absent
  BY <1>2, <1>3, NamesAssumption DEF NameInv, Rows
<1>5. \A q \in Accounts : shown'[q] \in Names /\ phase'[q] # shown'[q] => q \in crowd
  BY <1>1, <1>2, <1>3, NamesAssumption DEF NameInv, OwnName
<1> QED BY <1>1, <1>2, <1>3, <1>4, <1>5, LineKeepsNames

\* A character dies or returns.
LEMMA AgainNames ==
  ASSUME NameInv, NEW p \in Accounts, NEW died \in BOOLEAN, Again(p, died)
  PROVE  NameInv'
<1>1. phase[p] \in Names /\ phase' = phase /\ Character(phase[p], died) /\ Watch /\ known' \subseteq Accounts
  BY DEF Again, NameInv, RowTypes
<1>2. /\ Queue' /\ pending' \in Seq(Accounts)
      /\ shown' \in [Accounts -> Names \cup {NoName, Absent}]
      /\ \A q \in Accounts : shown'[q] # shown[q] =>
           /\ shown'[q] = phase[p] /\ phase[q] # "away"
           /\ q # p => q \in crowd
  BY <1>1, CharacterRows
<1>3. phase' \in [Accounts -> {"away", "dialling", "loading"} \cup Names]
  BY <1>1 DEF NameInv, RowTypes
<1>4. \A q \in Accounts : phase'[q] = "away" => shown'[q] = Absent
  BY <1>1, <1>2 DEF NameInv, Rows
<1>5. \A q \in Accounts : shown'[q] \in Names /\ phase'[q] # shown'[q] => q \in crowd
  BY <1>1, <1>2 DEF NameInv, OwnName
<1> QED BY <1>1, <1>2, <1>3, <1>4, <1>5, LineKeepsNames

\* A player is gone, and with the row the place in the queue.
LEMMA LeaveNames ==
  ASSUME NameInv, NEW p \in Accounts, Leave(p)
  PROVE  NameInv'
<1>1. /\ phase' = [phase EXCEPT ![p] = "away"] /\ shown' = [shown EXCEPT ![p] = Absent]
      /\ Unqueued(p) /\ Watch /\ known' \subseteq Accounts
  BY DEF Leave, NameInv, RowTypes
<1>2. /\ pending' \in Seq(Accounts)
      /\ \A k \in 1..Len(pending') : \E j \in 1..Len(pending) : pending'[k] = pending[j] /\ pending[j] # p
      /\ \A j, k \in 1..Len(pending') : pending'[j] = pending'[k] => j = k
  BY <1>1, UnqueuedRest DEF NameInv
<1>3. /\ phase' \in [Accounts -> {"away", "dialling", "loading"} \cup Names]
      /\ \A q \in Accounts : phase'[q] = IF q = p THEN "away" ELSE phase[q]
  BY <1>1 DEF NameInv, RowTypes
<1>4. /\ shown' \in [Accounts -> Names \cup {NoName, Absent}]
      /\ \A q \in Accounts : shown'[q] = IF q = p THEN Absent ELSE shown[q]
  BY <1>1 DEF NameInv, RowTypes
<1>5. ASSUME NEW k \in 1..Len(pending') PROVE shown'[pending'[k]] = NoName
  <2>1. PICK j \in 1..Len(pending) : pending'[k] = pending[j] /\ pending[j] # p
    BY <1>2
  <2>2. pending'[k] \in Accounts
    BY <1>2
  <2> QED BY <1>4, <2>1, <2>2 DEF NameInv, Queue
<1>6. Queue'
  BY <1>2, <1>5 DEF Queue
<1>7. \A q \in Accounts : phase'[q] = "away" => shown'[q] = Absent
  BY <1>3, <1>4 DEF NameInv, Rows
<1>8. \A q \in Accounts : shown'[q] \in Names /\ phase'[q] # shown'[q] => q \in crowd
  BY <1>3, <1>4, NamesAssumption DEF NameInv, OwnName
<1> QED BY <1>1, <1>2, <1>3, <1>4, <1>6, <1>7, <1>8, LineKeepsNames

\* Everyone is taken off the page, whoever is here.
LEMMA ResetNames ==
  ASSUME NameInv, Reset, Watch, phase' \in [Accounts -> {"away", "dialling", "loading"} \cup Names]
  PROVE  NameInv'
<1>1. /\ shown' \in [Accounts -> Names \cup {NoName, Absent}] /\ known' \subseteq Accounts
      /\ \A q \in Accounts : shown'[q] = Absent
  BY DEF Reset
<1>2. pending' \in Seq(Accounts) /\ Queue'
  BY DEF Reset, Queue
<1> QED BY <1>1, <1>2, LineKeepsNames, NamesAssumption

LEMMA NameStep ==
  ASSUME NameInv, [PresenceNext]_presenceVars
  PROVE  NameInv'
<1>1. CASE UNCHANGED <<phase, shown, pending, known, crowd>>
  BY <1>1 DEF NameInv, RowTypes, Rows, Queue, Apart, Clear, OwnName
<1>2. ASSUME NEW p \in Accounts, Note(p) \/ Forget(p)
      PROVE  UNCHANGED <<phase, shown, pending, known, crowd>>
  BY <1>2 DEF Note, Forget, tracker
<1>3. CASE \/ Asked \/ AnswerComes \/ WhitelistSwitched
           \/ SaveBegins \/ SaveCollects \/ SaveWrites \/ SaveFails \/ SaveEnds \/ UNCHANGED presenceVars
  <2>1. UNCHANGED <<phase, shown, pending, known, crowd>>
    BY <1>3 DEF Asked, AnswerComes, WhitelistSwitched, SaveBegins, SaveCollects, SaveWrites, SaveFails,
                SaveEnds, presenceVars, tracker
  <2> QED BY <1>1, <2>1
<1>4. CASE ServerRestarts \/ StartRefused \/ ManagerRestarts \/ ManagerDies
  <2>1. Reset /\ Watch /\ phase' \in [Accounts -> {"away", "dialling", "loading"} \cup Names]
    BY <1>4 DEF ServerRestarts, StartRefused, ManagerRestarts, ManagerDies, Anew, NameInv, RowTypes
  <2> QED BY <2>1, ResetNames
<1> QED BY <1>1, <1>2, <1>3, <1>4, ConnectionNames, SpawnsNames, AgainNames, LeaveNames DEF PresenceNext

-----------------------------------------------------------------------------
\* The row that bears a name is that of the player who plays under it, for any
\* number of players and names, but for those of whom several were on the
\* server and not told apart.
THEOREM OwnNameHolds == PresenceSpec => []OwnName
<1>1. NameInv /\ [PresenceNext]_presenceVars => NameInv'
  BY NameStep
<1>2. NameInv => OwnName
  BY DEF NameInv
<1> QED BY <1>1, <1>2, NameInit, PTL DEF PresenceSpec

\* Everyone who has ever joined is in the roster until forgotten, and what it
\* holds is on disk or will be, whatever the thread of a save is doing, but for
\* those who rushed, were one too many, or were lost with a manager.
THEOREM RosterKeptHolds == PresenceSpec => []RosterKept
<1> DEFINE Inv == NameInv /\ BookTypes /\ Kept
<1>1. PresenceInit => Inv
  BY NameInit, KeptInit
<1>2. Inv /\ [PresenceNext]_presenceVars => Inv'
  BY NameStep, KeptStep DEF NameInv
<1>3. Inv => RosterKept
  BY DEF Kept, KeptOf, RosterKept
<1> QED BY <1>1, <1>2, <1>3, PTL DEF PresenceSpec

\* Every variable keeps its type.
THEOREM PresenceTypeCorrect == PresenceSpec => []PresenceTypeOK
<1> DEFINE Rest == /\ guests \subseteq Names /\ dirty \in BOOLEAN
                   /\ answer = Absent \/ answer \subseteq Names
           Inv == NameInv /\ BookTypes /\ Kept /\ Rest
<1>1. PresenceInit => Inv
  BY NameInit, KeptInit DEF PresenceInit
<1>2. Inv /\ [PresenceNext]_presenceVars => Inv'
  <2> SUFFICES ASSUME Inv, [PresenceNext]_presenceVars PROVE Rest'
    BY NameStep, KeptStep DEF NameInv
  <2>1. ASSUME NEW p \in Accounts,
               Handshake(p) \/ PlatformId(p) \/ Leave(p) \/ Note(p) \/ Forget(p)
        PROVE  Rest'
    BY <2>1 DEF Handshake, PlatformId, Leave, Note, Forget, Observe, Save, tracker
  <2>2. ASSUME NEW n \in Names, NEW died \in BOOLEAN, Character(n, died) PROVE dirty' \in BOOLEAN
    BY <2>2 DEF Character, Observe
  <2>3. ASSUME NEW p \in Accounts, NEW n \in Names, Spawns(p, n) PROVE Rest'
    BY <2>2, <2>3 DEF Spawns
  <2>4. ASSUME NEW p \in Accounts, NEW died \in BOOLEAN, Again(p, died) PROVE Rest'
    BY <2>2, <2>4 DEF Again
  <2>5. CASE Asked \/ AnswerComes \/ WhitelistSwitched
    BY <2>5 DEF Asked, AnswerComes, WhitelistSwitched, Save, tracker, book
  <2>6. CASE ServerRestarts \/ StartRefused \/ ManagerRestarts \/ ManagerDies
    BY <2>6 DEF ServerRestarts, StartRefused, ManagerRestarts, ManagerDies, Anew, Reset, book
  <2>7. CASE SaveBegins \/ SaveCollects \/ SaveWrites \/ SaveFails \/ SaveEnds \/ UNCHANGED presenceVars
    BY <2>7 DEF SaveBegins, SaveCollects, SaveWrites, SaveFails, SaveEnds, presenceVars, tracker, book
  <2> QED BY <2>1, <2>3, <2>4, <2>5, <2>6, <2>7 DEF PresenceNext
<1>3. Inv => PresenceTypeOK
  BY DEF NameInv, RowTypes, BookTypes, PresenceTypeOK
<1> QED BY <1>1, <1>2, <1>3, PTL DEF PresenceSpec

-----------------------------------------------------------------------------
(***************************************************************************)
(* Maintenance                                                             *)
(***************************************************************************)

\* What a driver that moves on, or is done, does to the types.
LEMMA DriverType ==
  ASSUME MaintenanceTypeOK, NEW d \in Drivers, status' \in Status,
         \/ \E s \in Stages : Stage(d, s) /\ UNCHANGED maintenance
         \/ Finish(d)
         \/ AfterStop(d) /\ UNCHANGED maintenance
  PROVE  /\ at' \in [Drivers -> Stages] /\ job' \in Jobs \cup {"none"}
         /\ op' \in {"none", "starting", "stopping", "restarting"}
         /\ maintenance' \in BOOLEAN
<1> USE DEF MaintenanceTypeOK, Drivers, Stages
<1>1. ASSUME NEW s \in Stages, Stage(d, s)
      PROVE  at' \in [Drivers -> Stages] /\ UNCHANGED <<op, job>>
  BY <1>1 DEF Stage
<1>2. CASE Finish(d)
  BY <1>2 DEF Finish
<1>3. CASE AfterStop(d)
  <2>1. \/ \E s \in Stages : Stage(d, s)
        \/ Finish(d)
    BY <1>3 DEF AfterStop
  <2> QED BY <2>1, <1>1, <1>2
<1> QED BY <1>1, <1>2, <1>3

\* The flags, and the rest of the types.
Flags ==
  {alive, bound, listening, endpoint, maintenance, settled, online, owed, unnoticed}
    \subseteq BOOLEAN
StageTypes ==
  /\ status \in Status
  /\ op \in {"none", "starting", "stopping", "restarting"}
  /\ sampler \in {"idle", "queried", "probed"}
  /\ job \in Jobs \cup {"none"}
  /\ at \in [Drivers -> Stages]
  /\ debt \in {"none", "owed", "tried"}
ModSets == disk \in 1..MaxMods /\ loaded \in 1..MaxMods /\ baseline \in 0..MaxMods

LEMMA MaintenanceTypes == MaintenanceTypeOK <=> Flags /\ StageTypes /\ ModSets
<1>1. MaintenanceTypeOK => Flags /\ StageTypes
  BY DEF MaintenanceTypeOK, LifecycleTypeOK, Flags, StageTypes
<1>2. MaintenanceTypeOK => ModSets
  BY DEF MaintenanceTypeOK, ModSets
<1>3. Flags /\ StageTypes /\ ModSets => MaintenanceTypeOK
  BY DEF MaintenanceTypeOK, LifecycleTypeOK, Flags, StageTypes, ModSets
<1> QED BY <1>1, <1>2, <1>3

LEMMA MaintenanceStarts == MaintenanceInit => MaintenanceTypeOK /\ baseline <= disk
<1> SUFFICES ASSUME MaintenanceInit PROVE MaintenanceTypeOK /\ baseline <= disk
  OBVIOUS
<1>1. Flags
  BY DEF MaintenanceInit, LifecycleInit, Flags
<1>2. StageTypes
  BY DEF MaintenanceInit, LifecycleInit, StageTypes, Status, Active, Drivers, Stages
<1>3. ModSets /\ baseline <= disk
  BY MaxModsAssumption DEF MaintenanceInit, ModSets
<1> QED BY <1>1, <1>2, <1>3, MaintenanceTypes

LEMMA MaintenanceTypeStep ==
  ASSUME MaintenanceTypeOK, [MaintenanceNext]_maintenanceVars
  PROVE  MaintenanceTypeOK'
<1> USE DEF MaintenanceTypeOK, LifecycleTypeOK, Status, Active,
        believed, driving, watching
<1>1. CASE Submit \/ JobTakes
  BY <1>1 DEF Submit, JobTakes, Drivers, Stages
<1>2. CASE JobBegins
  BY <1>2, JobsAssumption, MaxModsAssumption DEF JobBegins, Drivers, Stages
<1>3. CASE JobWorks
  BY <1>3 DEF JobWorks, Stage, Drivers, Stages
<1>4. ASSUME NEW d \in Drivers, StopCalled(d) PROVE MaintenanceTypeOK'
  <2>1. \/ AskStop /\ Stage(d, "stopping")
        \/ Settle /\ AfterStop(d)
    BY <1>4 DEF StopCalled
  <2>2. status' \in Status /\ alive' \in BOOLEAN
    BY <2>1 DEF AskStop, Settle
  <2>3. /\ at' \in [Drivers -> Stages] /\ job' \in Jobs \cup {"none"}
        /\ op' \in {"none", "starting", "stopping", "restarting"}
        /\ maintenance' \in BOOLEAN
    BY <1>4, <2>1, <2>2, DriverType DEF StopCalled, Stages
  <2> QED BY <1>4, <2>2, <2>3 DEF StopCalled, Owes
<1>5. ASSUME NEW d \in Drivers, StopDone(d) PROVE MaintenanceTypeOK'
  <2>1. /\ status' \in Status /\ alive' \in BOOLEAN
        /\ AfterStop(d) /\ UNCHANGED maintenance
    BY <1>5 DEF StopDone, Settle
  <2>2. /\ at' \in [Drivers -> Stages] /\ job' \in Jobs \cup {"none"}
        /\ op' \in {"none", "starting", "stopping", "restarting"}
        /\ maintenance' \in BOOLEAN
    BY <2>1, DriverType
  <2> QED BY <1>5, <2>1, <2>2 DEF StopDone, Owes
<1>6. ASSUME NEW d \in Drivers, StartCalled(d) PROVE MaintenanceTypeOK'
  <2>1. Stage(d, "enter") /\ UNCHANGED maintenance /\ status' \in Status
    BY <1>6 DEF StartCalled
  <2>2. at' \in [Drivers -> Stages] /\ UNCHANGED <<op, job>>
    BY <2>1 DEF Stage, Drivers, Stages
  <2> QED BY <1>6, <2>2 DEF StartCalled
<1>7. ASSUME NEW d \in Drivers, StartEntered(d) PROVE MaintenanceTypeOK'
  <2>1. /\ status' \in Status /\ {alive', owed', unnoticed'} \subseteq BOOLEAN
        /\ debt' \in {"none", "owed", "tried"}
        /\ \/ Stage(d, "starting") /\ UNCHANGED maintenance
           \/ Finish(d)
    BY <1>7 DEF StartEntered, Accept
  <2>2. /\ at' \in [Drivers -> Stages] /\ job' \in Jobs \cup {"none"}
        /\ op' \in {"none", "starting", "stopping", "restarting"}
        /\ maintenance' \in BOOLEAN
    BY <2>1, DriverType DEF Stages
  <2> QED BY <1>7, <2>1, <2>2 DEF StartEntered
<1>8. ASSUME NEW d \in Drivers, StartDone(d) PROVE MaintenanceTypeOK'
  <2>1. /\ status' \in Status /\ alive' \in BOOLEAN /\ loaded' \in 1..MaxMods
        /\ Finish(d)
    BY <1>8 DEF StartDone
  <2>2. /\ at' \in [Drivers -> Stages] /\ job' \in Jobs \cup {"none"}
        /\ op' \in {"none", "starting", "stopping", "restarting"}
        /\ maintenance' \in BOOLEAN
    BY <2>1, DriverType
  <2> QED BY <1>8, <2>1, <2>2 DEF StartDone
<1>9. CASE Bind \/ Exit \/ Reaped \/ ModsChange
  <2>1. Flags /\ StageTypes /\ ModSets
    BY MaintenanceTypes
  <2>2. Flags' /\ StageTypes'
    BY <1>9, <2>1 DEF Bind, Exit, Die, Reaped, Settle, ModsChange, Flags, StageTypes
  <2>3. ModSets'
    BY <1>9, <2>1, MaxModsAssumption DEF Bind, Exit, Reaped, ModsChange, ModSets
  <2> QED BY <2>2, <2>3 DEF Flags, StageTypes, ModSets
<1>10. CASE Probe \/ Query \/ PageProbes
  BY <1>10 DEF Probe, Query, PageProbes
<1>11. CASE Tick
  <2>1. Flags /\ StageTypes /\ ModSets
    BY MaintenanceTypes
  <2>2. Flags'
    BY <1>11, <2>1 DEF Tick, Evidence, Flags
  <2>3. StageTypes' /\ ModSets'
    BY <1>11, <2>1 DEF Tick, Baseline, StageTypes, ModSets
  <2> QED BY <2>2, <2>3 DEF Flags, StageTypes, ModSets
<1>12. CASE UNCHANGED maintenanceVars
  BY <1>12 DEF maintenanceVars
<1> QED
  BY <1>1, <1>2, <1>3, <1>4, <1>5, <1>6, <1>7, <1>8, <1>9, <1>10, <1>11, <1>12
  DEF MaintenanceNext, Drive

\* What the drivers, the sampler and the audience know of an instance keeps
\* its type, for any number of mod sets.
THEOREM MaintenanceTypeCorrect == MaintenanceSpec => []MaintenanceTypeOK
<1>1. MaintenanceInit => MaintenanceTypeOK
  BY MaintenanceStarts
<1>2. MaintenanceTypeOK /\ [MaintenanceNext]_maintenanceVars => MaintenanceTypeOK'
  BY MaintenanceTypeStep
<1> QED BY <1>1, <1>2, PTL DEF MaintenanceSpec

\* What was announced is a mod set that was on disk then.
LEMMA BaselineStep ==
  ASSUME MaintenanceTypeOK, baseline <= disk, [MaintenanceNext]_maintenanceVars
  PROVE  baseline' <= disk'
<1>0. disk \in Nat /\ baseline \in Nat
  BY MaintenanceTypes DEF ModSets
<1> USE <1>0 DEF believed, driving, watching
<1>1. CASE Submit \/ JobBegins \/ JobTakes \/ JobWorks
  BY <1>1 DEF Submit, JobBegins, JobTakes, JobWorks
<1>2. ASSUME NEW d \in Drivers, Drive(d) PROVE baseline' <= disk'
  BY <1>2 DEF Drive, StopCalled, StopDone, StartCalled, StartEntered, StartDone
<1>3. CASE Tick
  BY <1>3 DEF Tick, Baseline
<1>4. CASE \/ Bind \/ Exit \/ Reaped
           \/ Probe \/ Query \/ PageProbes \/ UNCHANGED maintenanceVars
  <2>1. baseline' = baseline /\ disk' = disk
    BY <1>4 DEF Bind, Exit, Reaped, Probe, Query, PageProbes,
                maintenanceVars
  <2> QED BY <2>1
<1>5. CASE ModsChange
  BY <1>5 DEF ModsChange
<1> QED BY <1>1, <1>2, <1>3, <1>4, <1>5 DEF MaintenanceNext

\* News of a mod set is news once.
THEOREM NewsOnceHolds == MaintenanceSpec => NewsOnce
<1> DEFINE Inv == MaintenanceTypeOK /\ baseline <= disk
<1>1. MaintenanceInit => Inv
  BY MaintenanceStarts
<1>2. Inv /\ [MaintenanceNext]_maintenanceVars => Inv'
  BY MaintenanceTypeStep, BaselineStep
<1>3. Inv /\ [MaintenanceNext]_maintenanceVars =>
        [Tick /\ SaysMods => baseline' = disk /\ baseline < disk]_maintenanceVars
  <2> SUFFICES ASSUME Inv, Tick, SaysMods PROVE baseline' = disk /\ baseline < disk
    OBVIOUS
  <2>1. disk \in Nat /\ baseline \in Nat
    BY MaintenanceTypes DEF ModSets
  <2>2. baseline' = Baseline
    BY DEF Tick
  <2> QED BY <2>1, <2>2 DEF SaysMods, Baseline
<1> QED BY <1>1, <1>2, <1>3, PTL DEF MaintenanceSpec, NewsOnce

-----------------------------------------------------------------------------
(***************************************************************************)
(* Maintenance asks of an instance only what InstanceLifecycle promises.   *)
(* A launch is one step here: the lifecycle gets its process and is up.    *)
(***************************************************************************)
SpawnAndUp == status = "starting" /\ ~alive /\ status' = "running" /\ alive'

Held(d) == at[d] \in {"stopping", "starting"}

\* An instance that is launched, or has come to rest, has no process; whoever
\* launches it holds its lock, and nobody else does.
LifeInv ==
  /\ MaintenanceTypeOK
  /\ alive => status \in {"running", "stopping"}
  /\ \A d \in Drivers : at[d] = "starting" => status = "starting"
  /\ \A d, e \in Drivers : Held(d) /\ Held(e) => d = e

LifeStep == LifecycleNext \/ SpawnAndUp \/ UNCHANGED lifecycleVars

\* Where nobody takes the lock and the instance does not change.
LEMMA LifeElsewhere ==
  ASSUME LifeInv, MaintenanceTypeOK', UNCHANGED <<status, alive>>,
         \A d \in Drivers : at'[d] = at[d] \/ at'[d] \notin {"stopping", "starting"}
  PROVE  LifeInv' /\ LifeStep
<1>1. \A d \in Drivers : Held(d)' => Held(d) /\ at'[d] = at[d]
  BY DEF Held
<1>2. \A d \in Drivers : at'[d] = "starting" => at[d] = "starting"
  OBVIOUS
<1> QED BY <1>1, <1>2 DEF LifeInv, LifeStep, lifecycleVars

\* Where a driver moves on to a stage without the lock.
LEMMA MovesOn ==
  ASSUME MaintenanceTypeOK, NEW d \in Drivers,
         AfterStop(d) \/ Finish(d) \/ \E s \in Stages \ {"stopping", "starting"} : Stage(d, s)
  PROVE  /\ at'[d] \notin {"stopping", "starting"}
         /\ \A e \in Drivers : e # d => at'[e] = at[e]
<1> USE DEF MaintenanceTypeOK, Drivers, Stages
<1>1. CASE Finish(d)
  BY <1>1 DEF Finish
<1>2. ASSUME NEW s \in Stages \ {"stopping", "starting"}, Stage(d, s)
      PROVE  /\ at'[d] \notin {"stopping", "starting"}
             /\ \A e \in Drivers : e # d => at'[e] = at[e]
  BY <1>2 DEF Stage
<1>3. CASE AfterStop(d)
  <2>1. Finish(d) \/ \E s \in Stages \ {"stopping", "starting"} : Stage(d, s)
    BY <1>3 DEF AfterStop
  <2> QED BY <2>1, <1>1, <1>2
<1> QED BY <1>1, <1>2, <1>3

\* Where the holder of the lock, or somebody who finds it free, lets go of it.
LEMMA LifeSettles ==
  ASSUME LifeInv, MaintenanceTypeOK', NEW d \in Drivers, ~Locked \/ Held(d),
         alive' => status' \in {"running", "stopping"}, LifeStep,
         at'[d] \notin {"stopping", "starting"},
         \A e \in Drivers : e # d => at'[e] = at[e]
  PROVE  LifeInv' /\ LifeStep
<1>1. \A e \in Drivers : ~Held(e)'
  BY DEF LifeInv, Locked, Held
<1> QED BY <1>1 DEF LifeInv, Held

LEMMA LifeNext ==
  ASSUME LifeInv, [MaintenanceNext]_maintenanceVars
  PROVE  LifeInv' /\ LifeStep
<1>0. MaintenanceTypeOK /\ MaintenanceTypeOK'
  BY MaintenanceTypeStep DEF LifeInv
<1>1. CASE Submit \/ JobBegins \/ JobTakes \/ JobWorks
  <2>1. \A d \in Drivers : at'[d] = at[d] \/ at'[d] \notin {"stopping", "starting"}
    BY <1>0, <1>1 DEF Submit, JobBegins, JobTakes, JobWorks, Stage, MaintenanceTypeOK, Drivers, Stages
  <2>2. UNCHANGED <<status, alive>>
    BY <1>1 DEF Submit, JobBegins, JobTakes, JobWorks
  <2> QED BY <1>0, <2>1, <2>2, LifeElsewhere
<1>2. ASSUME NEW d \in Drivers, StopCalled(d) PROVE LifeInv' /\ LifeStep
  <2>1. CASE alive
    <3>1. AskStop /\ Stage(d, "stopping") /\ ~Locked
      BY <1>2, <2>1 DEF StopCalled
    <3>2. \A e \in Drivers : e # d => ~Held(e)'
      BY <3>1, <1>0 DEF Stage, Locked, Held, MaintenanceTypeOK, Drivers, Stages
    <3>3. at'[d] = "stopping"
      BY <3>1, <1>0 DEF Stage, MaintenanceTypeOK, Drivers, Stages
    <3> QED BY <1>0, <3>1, <3>2, <3>3 DEF LifeInv, LifeStep, LifecycleNext, AskStop, Held
  <2>2. CASE ~alive
    <3>1. Settle /\ AfterStop(d) /\ ~Locked
      BY <1>2, <2>2 DEF StopCalled
    <3>2. LifeStep /\ (alive' => status' \in {"running", "stopping"})
      BY <3>1 DEF LifeStep, LifecycleNext, Settle
    <3> QED BY <1>0, <3>1, <3>2, MovesOn, LifeSettles
  <2> QED BY <2>1, <2>2
<1>3. ASSUME NEW d \in Drivers, StopDone(d) PROVE LifeInv' /\ LifeStep
  <2>1. Held(d) /\ Settle /\ AfterStop(d)
    BY <1>3 DEF StopDone, Held
  <2>2. LifeStep /\ (alive' => status' \in {"running", "stopping"})
    BY <2>1 DEF LifeStep, LifecycleNext, Settle
  <2> QED BY <1>0, <2>1, <2>2, MovesOn, LifeSettles
<1>4. ASSUME NEW d \in Drivers, StartCalled(d) PROVE LifeInv' /\ LifeStep
  <2>1. Stage(d, "enter") /\ UNCHANGED <<status, alive>>
    BY <1>4 DEF StartCalled
  <2>2. "enter" \in Stages \ {"stopping", "starting"}
    BY DEF Stages
  <2>3. \A e \in Drivers : at'[e] = at[e] \/ at'[e] \notin {"stopping", "starting"}
    BY <1>0, <2>1, <2>2, MovesOn
  <2> QED BY <1>0, <2>1, <2>3, LifeElsewhere
<1>5. ASSUME NEW d \in Drivers, StartEntered(d) PROVE LifeInv' /\ LifeStep
  <2>1. CASE UNCHANGED <<status, alive>> /\ Finish(d)
    <3>1. UNCHANGED <<status, alive>> /\ Finish(d)
      BY <2>1
    <3>2. \A e \in Drivers : at'[e] = at[e] \/ at'[e] \notin {"stopping", "starting"}
      BY <1>0, <3>1, MovesOn
    <3> QED BY <1>0, <3>1, <3>2, LifeElsewhere
  <2>2. CASE Accept /\ Stage(d, "starting")
    <3>1. Accept /\ Stage(d, "starting") /\ ~Locked
      BY <1>5, <2>2 DEF StartEntered
    <3>2. \A e \in Drivers : e # d => ~Held(e)'
      BY <3>1, <1>0 DEF Stage, Locked, Held, MaintenanceTypeOK, Drivers, Stages
    <3>3. ~alive
      BY <2>2 DEF LifeInv, Accept, Active
    <3> QED BY <1>0, <3>1, <3>2, <3>3 DEF LifeInv, LifeStep, LifecycleNext, Accept, Held
  <2> QED BY <1>5, <2>1, <2>2 DEF StartEntered
<1>6. ASSUME NEW d \in Drivers, StartDone(d) PROVE LifeInv' /\ LifeStep
  <2>1. Held(d) /\ status = "starting" /\ ~alive /\ Finish(d)
    BY <1>6 DEF StartDone, Held, LifeInv
  <2>2. LifeStep /\ (alive' => status' \in {"running", "stopping"})
    BY <1>6, <2>1 DEF StartDone, LifeStep, SpawnAndUp, LifecycleNext, Settle
  <2> QED BY <1>0, <2>1, <2>2, MovesOn, LifeSettles
<1>7. CASE Exit \/ Reaped
  <2>1. LifeStep /\ UNCHANGED at /\ (alive' => status' \in {"running", "stopping"})
    BY <1>7 DEF Exit, Reaped, LifeInv, LifeStep, LifecycleNext, Die, Settle, driving
  <2>2. \A d \in Drivers : at[d] = "starting" => UNCHANGED status
    BY <1>7 DEF LifeInv, Exit, Reaped, Die
  <2> QED BY <1>0, <2>1, <2>2 DEF LifeInv, Held
<1>8. CASE Bind \/ ModsChange \/ Probe \/ Query \/ PageProbes \/ Tick \/ UNCHANGED maintenanceVars
  <2>1. UNCHANGED <<status, alive, at>>
    BY <1>8 DEF Bind, ModsChange, Probe, Query, PageProbes, Tick, maintenanceVars, driving
  <2> QED BY <1>0, <2>1, LifeElsewhere
<1> QED BY <1>1, <1>2, <1>3, <1>4, <1>5, <1>6, <1>7, <1>8 DEF MaintenanceNext, Drive

\* Whatever the operator, the jobs and the sampler do, the instance lives as
\* InstanceLifecycle says, which is what Supervisor implements.
THEOREM LivesAsPromised ==
  MaintenanceSpec => LifecycleInit /\ [][LifecycleNext \/ SpawnAndUp]_lifecycleVars
<1>1. MaintenanceInit => LifeInv /\ LifecycleInit
  <2>1. MaintenanceInit => MaintenanceTypeOK /\ LifecycleInit
    BY MaintenanceStarts DEF MaintenanceInit
  <2> QED BY <2>1 DEF MaintenanceInit, LifeInv, LifecycleInit, Held
<1>2. LifeInv /\ [MaintenanceNext]_maintenanceVars => LifeInv'
  BY LifeNext
<1>3. LifeInv /\ [MaintenanceNext]_maintenanceVars => [LifecycleNext \/ SpawnAndUp]_lifecycleVars
  BY LifeNext DEF LifeStep
<1> QED BY <1>1, <1>2, <1>3, PTL DEF MaintenanceSpec

-----------------------------------------------------------------------------
(***************************************************************************)
(* What a job owes.                                                        *)
(***************************************************************************)

\* What is owed is down, and on the way to its start; and a window is open over
\* an instance whose start has raised only while a job is about to take it.
Owing ==
  /\ at["job"] # "idle" => job # "none"
  /\ debt # "none" => status \notin Active
  /\ debt = "owed" => at["job"] \in {"work", "start", "enter"}
  /\ debt = "tried" /\ maintenance => at["job"] \in {"stop", "stopping"}

LEMMA OwingStops ==
  ASSUME LifeInv, Owing, NEW d \in Drivers, StopCalled(d) \/ StopDone(d)
  PROVE  Owing'
<1> USE DEF Drivers, Active
<1>0. at \in [Drivers -> Stages] /\ status \in Status
  BY MaintenanceTypes DEF LifeInv, StageTypes
<1>1. CASE AskStop /\ Stage(d, "stopping") /\ UNCHANGED <<debt, maintenance>> /\ at[d] = "stop"
  <2>1. debt = "none"
    BY <1>1 DEF AskStop, Owing
  <2> QED BY <1>0, <1>1, <2>1 DEF Stage, Owing
<1>2. CASE status' = "stopped" /\ AfterStop(d) /\ Owes(d) /\ UNCHANGED maintenance
           /\ at[d] \in {"stop", "stopping"}
  <2>1. CASE d = "job"
    <3>1. at'["job"] \in {"work", "start"} /\ UNCHANGED job /\ debt' = "owed"
      BY <1>0, <1>2, <2>1 DEF AfterStop, Stage, Owes
    <3> QED BY <1>0, <1>2, <2>1, <3>1 DEF Owing
  <2>2. CASE d = "op"
    <3>1. UNCHANGED <<job, debt>> /\ at'["job"] = at["job"]
      BY <1>0, <1>2, <2>2 DEF AfterStop, Stage, Finish, Owes
    <3> QED BY <1>2, <3>1 DEF Owing
  <2> QED BY <2>1, <2>2
<1> QED BY <1>1, <1>2 DEF StopCalled, StopDone

LEMMA OwingStarts ==
  ASSUME LifeInv, Owing, NEW d \in Drivers,
         StartCalled(d) \/ StartEntered(d) \/ StartDone(d)
  PROVE  Owing'
<1> USE DEF Drivers, Active
<1>0. at \in [Drivers -> Stages] /\ maintenance \in BOOLEAN /\ debt \in {"none", "owed", "tried"}
  BY MaintenanceTypes DEF LifeInv, StageTypes, Flags
<1>1. CASE StartCalled(d)
  BY <1>0, <1>1 DEF StartCalled, Stage, Owing
<1>2. CASE StartDone(d)
  <2>1. debt = "none" /\ UNCHANGED debt /\ Finish(d)
    BY <1>2 DEF StartDone, Owing, LifeInv
  <2> QED BY <1>0, <2>1 DEF Finish, Owing
<1>3. CASE StartEntered(d) /\ debt' = "none"
  BY <1>0, <1>3 DEF StartEntered, Accept, Stage, Finish, Owing
<1>4. CASE StartEntered(d) /\ debt' # "none"
  <2>1. status \notin Active /\ UNCHANGED status /\ Finish(d)
    BY <1>4 DEF StartEntered, Owing
  <2>2. debt' = IF d = "job" /\ debt = "owed" THEN "tried" ELSE debt
    BY <1>4, <2>1 DEF StartEntered, Accept
  <2>3. CASE d = "job"
    <3>1. ~maintenance' /\ at'["job"] = "idle" /\ debt' # "owed"
      BY <1>0, <2>1, <2>2, <2>3 DEF Finish
    <3> QED BY <2>1, <3>1 DEF Owing
  <2>4. CASE d = "op"
    <3>1. UNCHANGED <<debt, job, maintenance>> /\ at'["job"] = at["job"]
      BY <1>0, <2>1, <2>2, <2>4 DEF Finish
    <3> QED BY <2>1, <3>1 DEF Owing
  <2> QED BY <2>3, <2>4
<1> QED BY <1>1, <1>2, <1>3, <1>4

LEMMA OwingStep ==
  ASSUME LifeInv, Owing, [MaintenanceNext]_maintenanceVars
  PROVE  Owing'
<1>0. at \in [Drivers -> Stages]
  BY MaintenanceTypes DEF LifeInv, StageTypes
<1> USE DEF Drivers, Active
<1>1. CASE Submit
  BY <1>0, <1>1 DEF Submit, Owing
<1>2. CASE JobBegins
  BY <1>0, <1>2, JobsAssumption DEF JobBegins, Owing
<1>3. CASE JobTakes
  BY <1>0, <1>3 DEF JobTakes, Owing
<1>4. CASE JobWorks
  BY <1>0, <1>4 DEF JobWorks, Stage, Owing
<1>5. CASE Exit \/ Reaped
  BY <1>5 DEF Exit, Reaped, Die, Owing, driving
<1>6. CASE Bind \/ ModsChange \/ Probe \/ Query \/ PageProbes \/ UNCHANGED maintenanceVars
  <2>1. UNCHANGED <<status, maintenance, job, at, debt>>
    BY <1>6 DEF Bind, ModsChange, Probe, Query, PageProbes, maintenanceVars, driving
  <2> QED BY <2>1 DEF Owing
<1>7. CASE Tick
  BY <1>7 DEF Tick, Owing, driving
<1> QED
  BY <1>1, <1>2, <1>3, <1>4, <1>5, <1>6, <1>7, OwingStops, OwingStarts DEF MaintenanceNext, Drive

\* Servers that were running come back: no job lets go of an instance it took
\* down before it was launched again or the job's own start has raised, and none
\* leaves a maintenance window open over one that is down.
THEOREM BroughtBackHolds == MaintenanceSpec => []BroughtBack
<1>1. MaintenanceInit => LifeInv /\ Owing
  <2>1. MaintenanceInit => MaintenanceTypeOK
    BY MaintenanceStarts
  <2> QED BY <2>1 DEF MaintenanceInit, LifeInv, LifecycleInit, Held, Owing, Drivers
<1>2. LifeInv /\ Owing /\ [MaintenanceNext]_maintenanceVars => LifeInv' /\ Owing'
  BY LifeNext, OwingStep
<1>3. LifeInv /\ Owing => BroughtBack
  BY DEF Owing, BroughtBack
<1> QED BY <1>1, <1>2, <1>3, PTL DEF MaintenanceSpec
=============================================================================
