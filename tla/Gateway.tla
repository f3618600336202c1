------------------------------ MODULE Gateway ------------------------------
(***************************************************************************)
(* The connection to Discord (vhsm/discord/gateway.py, GatewayClient) and  *)
(* what the bot does with it (vhsm/discord/bot.py): the commands that are  *)
(* registered in each guild, at every READY and at every save of the       *)
(* settings (vhsm/web/routes.py), and the interactions that are answered.  *)
(*                                                                         *)
(* Discord's side is modelled by what the client relies on: a session is   *)
(* held for a while after its connection is lost, a resumed one goes on    *)
(* after the number the client names, a resume of one that is gone is      *)
(* refused with INVALID_SESSION, and a heartbeat is acknowledged.  Events  *)
(* are numbered in their session, and READY is the first.                  *)
(*                                                                         *)
(* The waits between two attempts are left out, and so is the start of the *)
(* bot, which module Discord has.  A write of a guild's commands is one    *)
(* step; the settings may change between any two.                          *)
(***************************************************************************)
EXTENDS Naturals, FiniteSets

CONSTANTS
  Instances,    \* the instances of the manager
  Guilds,       \* the guilds their channels are in
  Requests,     \* requests that save settings at once
  None,         \* no channel, no guild
  MaxSessions,  \* bound: sessions Discord makes
  MaxNumber,    \* bound: events of a session
  MaxUpsets     \* bound: what goes wrong, restarts of the bot, changes of channels

ASSUME NoneAssumption == None \notin Guilds \cup Instances
ASSUME SessionsAssumption ==
  MaxNumber \in Nat \ {0} /\ MaxUpsets \in Nat /\ MaxSessions \in Nat /\ MaxUpsets < MaxSessions

VARIABLES
  client,      \* GatewayClient
  link,        \* the websocket
  discord,     \* the sessions at Discord
  chan,        \* the guild in which each instance's channel is
  guild,       \* what the instance knows of it: InstanceDiscord.guild_id
  registered,  \* DiscordBot._registered_guilds
  lastError,   \* what DiscordBot.last_error names
  menus,       \* at Discord: the guilds that have the commands
  passes,      \* each run of _register_commands
  upsets,      \* how often something has gone wrong or changed
  told,        \* history: the events of each session that have been handled
  astray,      \* history: an event was handled twice, too early or not at all
  unsaid,      \* history: nothing has been registered since the last change
  doubt        \* history: the guilds whose commands nobody can be sure of

wire == <<client, link, discord, told, astray>>
settings == <<chan, guild, unsaid>>
commands == <<registered, lastError, menus, passes, doubt>>
gatewayVars == <<wire, settings, commands, upsets>>

Sessions == 0..MaxSessions
Callers == {"ready"} \cup Requests
NoPass == [pc |-> "idle", todo |-> {}, looking |-> None, wanted |-> {}, failed |-> {},
           alone |-> TRUE]

NoClient == [pc |-> "connect", session |-> 0, seq |-> 0, acked |-> TRUE,
             connected |-> FALSE, application |-> FALSE]
NoLink == [state |-> "none", at |-> 0, ack |-> FALSE, resumed |-> FALSE]

GatewayTypeOK ==
  /\ client \in [pc : {"connect", "receive", "handling", "over"}, session : Sessions,
                 seq : 0..MaxNumber, acked : BOOLEAN, connected : BOOLEAN,
                 application : BOOLEAN]
  /\ link \in [state : {"none", "asked", "live", "silent", "invalid", "invalid, resumable",
                        "closed", "fatal"},
               at : 0..MaxNumber, ack : BOOLEAN, resumed : BOOLEAN]
  /\ discord \in [held : Sessions, made : Sessions, sent : 0..MaxNumber]
  /\ {chan, guild} \subseteq [Instances -> Guilds \cup {None}]
  /\ registered \subseteq Guilds /\ lastError \subseteq Guilds \cup Instances
  /\ {menus, doubt} \subseteq SUBSET Guilds
  /\ passes \in [Callers ->
       [pc : {"idle", "resolve", "register", "remove"}, todo : SUBSET (Instances \cup Guilds),
        looking : Instances \cup {None}, wanted : SUBSET Guilds,
        failed : SUBSET (Instances \cup Guilds), alone : BOOLEAN]]
  /\ upsets \in 0..MaxUpsets
  /\ told \in [1..MaxSessions -> 0..MaxNumber]
  /\ {astray, unsaid} \subseteq BOOLEAN

GatewayInit ==
  /\ client = NoClient /\ link = NoLink
  /\ discord = [held |-> 0, made |-> 0, sent |-> 0]
  /\ chan \in [Instances -> Guilds \cup {None}]
  /\ guild = [i \in Instances |-> None]
  /\ registered = {} /\ lastError = {} /\ menus = {}
  /\ passes = [p \in Callers |-> NoPass]
  /\ upsets = 0
  /\ told = [s \in 1..MaxSessions |-> 0] /\ astray = FALSE
  /\ unsaid = TRUE /\ doubt = {}

Upset == upsets < MaxUpsets /\ upsets' = upsets + 1

-----------------------------------------------------------------------------
(***************************************************************************)
(* A pass of _register_commands                                            *)
(***************************************************************************)
Wanted == {guild[i] : i \in Instances} \ {None}
UnderWay == {p \in Callers : passes[p].pc # "idle"}

\* Another pass begins, and looks for unknown guilds first.  One that waits for
\* that of instance i has settings that nobody has any more.
Begins(p, i) ==
  /\ passes' = [q \in Callers |->
       IF q = p THEN [NoPass EXCEPT !.pc = "resolve", !.todo = Instances, !.alone = UnderWay = {}]
       ELSE [passes[q] EXCEPT !.alone = @ /\ passes[q].pc = "idle",
                              !.looking = IF @ = i THEN None ELSE @]]
  /\ doubt' = IF UnderWay = {} THEN doubt ELSE Guilds

Step(p, pass) == passes' = [passes EXCEPT ![p] = pass]

\* resolve_guilds asks for the guild of a channel it does not know.
LooksUp(p, i) ==
  /\ passes[p].pc = "resolve" /\ passes[p].looking = None
  /\ i \in passes[p].todo
  /\ chan[i] # None /\ guild[i] = None
  /\ Step(p, [passes[p] EXCEPT !.looking = i, !.todo = @ \ {i}])
  /\ UNCHANGED <<wire, settings, registered, lastError, menus, doubt, upsets>>

\* Discord says where the channel is.
Found(p) ==
  LET i == passes[p].looking IN
  /\ i \in Instances
  /\ guild' = [guild EXCEPT ![i] = chan[i]]
  /\ Step(p, [passes[p] EXCEPT !.looking = None])
  /\ UNCHANGED <<wire, chan, unsaid, registered, lastError, menus, doubt, upsets>>

\* Or that the bot has not been invited there.
NotFound(p) ==
  LET i == passes[p].looking IN
  /\ i \in Instances
  /\ Upset
  /\ Step(p, [passes[p] EXCEPT !.looking = None, !.failed = @ \cup {i}])
  /\ UNCHANGED <<wire, settings, registered, lastError, menus, doubt>>

\* What is wanted is settled here, whatever changes while it is registered.
Registers(p) ==
  /\ passes[p].pc = "resolve" /\ passes[p].looking = None
  /\ \A i \in passes[p].todo : chan[i] = None \/ guild[i] # None
  /\ IF client.application
       THEN /\ Step(p, [passes[p] EXCEPT !.pc = "register", !.todo = Wanted, !.wanted = Wanted])
            /\ unsaid' = FALSE
       ELSE Step(p, NoPass) /\ UNCHANGED unsaid
  /\ UNCHANGED <<wire, chan, guild, registered, lastError, menus, doubt, upsets>>

\* Whether Discord's answer is believed to say what it has.
Sure(p, g) == doubt' = IF passes[p].alone THEN doubt \ {g} ELSE doubt

\* Faulty variant: a guild that has been served is not noted.
RegisteredUnnoted(p, g) ==
  /\ passes[p].pc = "register" /\ g \in passes[p].todo
  /\ menus' = menus \cup {g}
  /\ Sure(p, g)
  /\ Step(p, [passes[p] EXCEPT !.todo = @ \ {g}])
  /\ UNCHANGED <<wire, settings, registered, lastError, upsets>>

Registered(p, g) ==
  /\ passes[p].pc = "register" /\ g \in passes[p].todo
  /\ menus' = menus \cup {g}
  /\ registered' = registered \cup {g}
  /\ Sure(p, g)
  /\ Step(p, [passes[p] EXCEPT !.todo = @ \ {g}])
  /\ UNCHANGED <<wire, settings, lastError, upsets>>

\* The answer may have been lost: the guild is forgotten all the same.
Unregistered(p, g) ==
  /\ passes[p].pc = "register" /\ g \in passes[p].todo
  /\ Upset
  /\ menus' \in {menus, menus \cup {g}}
  /\ doubt' = doubt \cup (menus' \cap {g})
  /\ registered' = registered \ {g}
  /\ Step(p, [passes[p] EXCEPT !.todo = @ \ {g}, !.failed = @ \cup {g}])
  /\ UNCHANGED <<wire, settings, lastError>>

Removes(p) ==
  /\ passes[p].pc = "register" /\ passes[p].todo = {}
  /\ Step(p, [passes[p] EXCEPT !.pc = "remove", !.todo = registered \ passes[p].wanted])
  /\ UNCHANGED <<wire, settings, registered, lastError, menus, doubt, upsets>>

Removed(p, g) ==
  /\ passes[p].pc = "remove" /\ g \in passes[p].todo
  /\ menus' = menus \ {g}
  /\ registered' = registered \ {g}
  /\ Sure(p, g)
  /\ Step(p, [passes[p] EXCEPT !.todo = @ \ {g}])
  /\ UNCHANGED <<wire, settings, lastError, upsets>>

\* It is not told to the operator, and not tried again.
NotRemoved(p, g) ==
  /\ passes[p].pc = "remove" /\ g \in passes[p].todo
  /\ Upset
  /\ registered' = registered \ {g}
  /\ doubt' = doubt \cup {g}
  /\ Step(p, [passes[p] EXCEPT !.todo = @ \ {g}])
  /\ UNCHANGED <<wire, settings, lastError, menus>>

Ends(p) ==
  /\ passes[p].pc = "remove" /\ passes[p].todo = {}
  /\ lastError' = passes[p].failed
  /\ Step(p, NoPass)
  /\ UNCHANGED <<wire, settings, registered, menus, doubt, upsets>>

-----------------------------------------------------------------------------
(***************************************************************************)
(* The router.  A channel is known by its instance and the guild it is in. *)
(* The commands there are only read, at once, and whom an instance answers *)
(* is left out: every refusal is worded alike.                             *)
(***************************************************************************)

\* may_read, for those who may: what the instance knows is where it is asked.
MayRead(i, g) == guild[i] # None /\ guild[i] = g

\* The instance a command in the channel of i is answered about, or None: there
\* is no server for this channel.
Answer(i) == IF MayRead(i, chan[i]) THEN i ELSE None

-----------------------------------------------------------------------------
(***************************************************************************)
(* Requests                                                                *)
(***************************************************************************)

Changed(i, g) ==
  /\ Upset
  /\ chan' = [chan EXCEPT ![i] = g]
  /\ guild' = [guild EXCEPT ![i] = IF g = chan[i] THEN @ ELSE None]
  /\ unsaid' = TRUE

\* save_instance_discord, or reload, which changes no channel.
Save(p, i, g) ==
  /\ p \in Requests /\ passes[p].pc = "idle"
  /\ Changed(i, g)
  /\ Begins(p, i)
  /\ UNCHANGED <<wire, registered, lastError, menus>>

\* The instance is deleted: nothing is registered afresh, and a pass that
\* waits for its guild fails to save it.
Deleted(i) ==
  /\ chan[i] # None
  /\ Changed(i, None)
  /\ passes' = [q \in Callers |-> IF passes[q].looking = i THEN NoPass ELSE passes[q]]
  /\ UNCHANGED <<wire, registered, lastError, menus, doubt>>

-----------------------------------------------------------------------------
(***************************************************************************)
(* GatewayClient.run and _session                                          *)
(***************************************************************************)
Hangs == <<settings, commands, upsets>>
Retries == client' = [client EXCEPT !.pc = "connect", !.connected = FALSE]

\* HELLO, then RESUME if there is a session and IDENTIFY if not.
Opens ==
  /\ client.pc = "connect"
  /\ client' = [client EXCEPT !.pc = "receive", !.acked = TRUE]
  /\ link' = [NoLink EXCEPT !.state = "asked"]
  /\ UNCHANGED <<discord, told, astray, Hangs>>

\* INVALID_SESSION: without d, the session is gone.
Invalidated ==
  /\ client.pc = "receive"
  /\ link.state \in {"invalid", "invalid, resumable"}
  /\ client' = [client EXCEPT !.pc = "connect", !.connected = FALSE,
                              !.session = IF link.state = "invalid" THEN 0 ELSE @]
  /\ link' = NoLink
  /\ UNCHANGED <<discord, told, astray, Hangs>>

\* The socket is closed, or Discord asked to reconnect.
Lost ==
  /\ client.pc = "receive" /\ link.state = "closed"
  /\ Retries
  /\ link' = NoLink
  /\ UNCHANGED <<discord, told, astray, Hangs>>

\* A close code that is final.
Rejected ==
  /\ client.pc = "receive" /\ link.state = "fatal"
  /\ client' = [client EXCEPT !.pc = "over", !.connected = FALSE]
  /\ link' = NoLink
  /\ UNCHANGED <<discord, told, astray, Hangs>>

Handled(n) ==
  /\ told' = [told EXCEPT ![discord.held] = n]
  /\ astray' = (astray \/ n # told[discord.held] + 1)

\* READY, and the commands are registered before anything more is read.
Ready ==
  /\ client.pc = "receive" /\ link.state = "live" /\ link.at = 0
  /\ client' = [client EXCEPT !.pc = "handling", !.session = discord.held, !.seq = 1,
                              !.connected = TRUE, !.application = TRUE]
  /\ link' = [link EXCEPT !.at = 1]
  /\ Handled(1)
  /\ Begins("ready", None)
  /\ UNCHANGED <<discord, settings, registered, lastError, menus, upsets>>

\* Faulty variant: the number is kept of READY only.
InteractionUncounted ==
  /\ client.pc = "receive" /\ link.state = "live"
  /\ link.at # 0 /\ link.at < discord.sent
  /\ client' = [client EXCEPT !.pc = "handling"]
  /\ link' = [link EXCEPT !.at = @ + 1]
  /\ Handled(link.at + 1)
  /\ UNCHANGED <<discord, Hangs>>

\* An interaction begins to be handled.
Interaction ==
  /\ client.pc = "receive" /\ link.state = "live"
  /\ link.at # 0 /\ link.at < discord.sent
  /\ client' = [client EXCEPT !.pc = "handling", !.seq = link.at + 1]
  /\ link' = [link EXCEPT !.at = @ + 1]
  /\ Handled(link.at + 1)
  /\ UNCHANGED <<discord, Hangs>>

Reads ==
  /\ client' = [client EXCEPT !.pc = "receive"]
  /\ UNCHANGED <<link, discord, told, astray, Hangs>>

\* The handler of READY has returned or raised.
ReadyEnds == client.pc = "handling" /\ link.at = 1 /\ passes["ready"].pc = "idle" /\ Reads

\* handle_interaction: Discord has taken the answer, or has not; nothing is
\* sent again later.
Replied == client.pc = "handling" /\ link.at > 1 /\ Reads

Resumed ==
  /\ client.pc = "receive" /\ link.state = "live" /\ link.resumed
  /\ client' = [client EXCEPT !.connected = TRUE]
  /\ link' = [link EXCEPT !.resumed = FALSE]
  /\ UNCHANGED <<discord, told, astray, Hangs>>

Acknowledged ==
  /\ client.pc = "receive" /\ link.state \in {"asked", "live", "silent"} /\ link.ack
  /\ client' = [client EXCEPT !.acked = TRUE]
  /\ link' = [link EXCEPT !.ack = FALSE]
  /\ UNCHANGED <<discord, told, astray, Hangs>>

\* _heartbeat_loop.  An answer that has come is read before the next beat,
\* unless a handler takes that long.
Beats ==
  /\ client.pc \in {"receive", "handling"}
  /\ link.state \in {"asked", "live", "silent"}
  /\ client.acked
  /\ client' = [client EXCEPT !.acked = FALSE]
  /\ link' = [link EXCEPT !.ack = link.state # "silent"]
  /\ UNCHANGED <<discord, told, astray, Hangs>>

\* Faulty variant: a beat that has not been answered is sent again.
BeatsOn ==
  /\ client.pc \in {"receive", "handling"}
  /\ link.state \in {"asked", "live", "silent"}
  /\ ~client.acked /\ (link.ack => client.pc = "handling")
  /\ UNCHANGED <<client, link, discord, told, astray, Hangs>>

Drops ==
  /\ client.pc \in {"receive", "handling"}
  /\ link.state \in {"asked", "live", "silent"}
  /\ ~client.acked /\ (link.ack => client.pc = "handling")
  /\ link' = [link EXCEPT !.state = "closed"]
  /\ UNCHANGED <<client, discord, told, astray, Hangs>>

-----------------------------------------------------------------------------
(***************************************************************************)
(* Discord, the network and the operator                                   *)
(***************************************************************************)
Identified ==
  /\ link.state = "asked" /\ client.session = 0
  /\ discord.made < MaxSessions
  /\ discord' = [held |-> discord.made + 1, made |-> discord.made + 1, sent |-> 1]
  /\ link' = [link EXCEPT !.state = "live"]
  /\ UNCHANGED <<client, told, astray, Hangs>>

GoesOn ==
  /\ link.state = "asked" /\ client.session = discord.held /\ discord.held # 0
  /\ link' = [link EXCEPT !.state = "live", !.at = client.seq, !.resumed = TRUE]
  /\ UNCHANGED <<client, discord, told, astray, Hangs>>

\* The session is gone.
Refuses ==
  /\ link.state = "asked" /\ client.session \notin {0, discord.held}
  /\ link' = [link EXCEPT !.state = "invalid"]
  /\ UNCHANGED <<client, discord, told, astray, Hangs>>

\* It is too early to identify, or to resume.
RefusesForNow ==
  /\ link.state = "asked" /\ client.session \in {0, discord.held}
  /\ Upset
  /\ link' = [link EXCEPT !.state = IF client.session = 0 THEN "invalid" ELSE "invalid, resumable"]
  /\ UNCHANGED <<client, discord, told, astray, settings, commands>>

\* An interaction, also while the client is away.
Happens ==
  /\ discord.held # 0 /\ discord.sent < MaxNumber
  /\ discord' = [discord EXCEPT !.sent = @ + 1]
  /\ UNCHANGED <<client, link, told, astray, Hangs>>

\* Discord or the network ends the connection, or it goes on without a word;
\* the session of a client that is away ends.
Fails ==
  /\ Upset
  /\ \/ /\ link.state \in {"asked", "live"}
        /\ link' \in {[link EXCEPT !.state = s] : s \in {"closed", "fatal", "silent"}}
        /\ UNCHANGED discord
     \/ /\ link.state # "live" /\ discord.held # 0
        /\ discord' = [discord EXCEPT !.held = 0]
        /\ UNCHANGED link
  /\ UNCHANGED <<client, told, astray, settings, commands>>

\* stop() and start() of the bot, while no request registers anything.  What
\* has been registered is forgotten.
Restarts ==
  /\ Upset
  /\ UnderWay \subseteq {"ready"}
  /\ client' = NoClient /\ link' = NoLink
  /\ registered' = {} /\ lastError' = {}
  /\ passes' = [p \in Callers |-> NoPass]
  /\ doubt' = doubt \cup menus
  /\ unsaid' = TRUE
  /\ UNCHANGED <<discord, told, astray, chan, guild, menus>>

-----------------------------------------------------------------------------
ClientStep ==
  \/ Opens \/ Invalidated \/ Lost \/ Rejected \/ Ready \/ Interaction \/ ReadyEnds \/ Replied
  \/ Resumed \/ Acknowledged \/ Beats \/ Drops

DiscordStep == Identified \/ GoesOn \/ Refuses

PassStep(p) ==
  \/ \E i \in Instances : LooksUp(p, i)
  \/ Found(p) \/ Registers(p) \/ Removes(p) \/ Ends(p)
  \/ \E g \in Guilds : Registered(p, g) \/ Removed(p, g)

PassFails(p) ==
  \/ NotFound(p)
  \/ \E g \in Guilds : Unregistered(p, g) \/ NotRemoved(p, g)

GatewayNext ==
  \/ ClientStep \/ DiscordStep \/ RefusesForNow \/ Happens \/ Fails \/ Restarts
  \/ \E p \in Callers : PassStep(p) \/ PassFails(p)
  \/ \E i \in Instances :
       \/ Deleted(i)
       \/ \E p \in Requests, g \in Guilds \cup {None} : Save(p, i, g)

GatewaySpec == GatewayInit /\ [][GatewayNext]_gatewayVars

\* The loop runs what can run; Discord answers, and a request ends.
GatewayFairSpec ==
  /\ GatewaySpec
  /\ WF_gatewayVars(Opens) /\ WF_gatewayVars(Invalidated \/ Lost \/ Rejected)
  /\ WF_gatewayVars(Ready \/ Interaction \/ ReadyEnds \/ Replied) /\ WF_gatewayVars(Resumed)
  /\ WF_gatewayVars(Acknowledged) /\ WF_gatewayVars(Beats \/ Drops)
  /\ WF_gatewayVars(DiscordStep)
  /\ \A p \in Callers : WF_gatewayVars(PassStep(p))

-----------------------------------------------------------------------------
(***************************************************************************)
(* Properties                                                              *)
(***************************************************************************)

\* The events of a session are handled once each and in order, across lost
\* and silent connections, refused resumes and handlers during which the
\* connection is dropped.
OnceInOrder == ~astray

Working == client.connected /\ client.session = discord.held /\ link.state = "live"

\* Whatever happened to the connection or to the session, when no more does
\* the client ends up connected, unless Discord has said that it never will be.
BackUp == <>[](Working \/ client.pc = "over")

\* When the last change has been registered, an instance's channel offers
\* the commands and a command there is answered about that instance, or the
\* settings page says why not; and a guild without a channel offers none.  But
\* for guilds of which an earlier run of the bot, a failed request or two passes
\* at once left nobody sure.
MenusMatch ==
  UnderWay = {} /\ ~unsaid =>
    /\ \A i \in Instances : chan[i] \in Guilds \ doubt =>
         \/ chan[i] \in menus /\ Answer(i) = i
         \/ lastError \cap {i, chan[i]} # {}
    /\ menus \subseteq doubt \cup {chan[i] : i \in Instances}
=============================================================================
