------------------------------ MODULE Discord ------------------------------
(***************************************************************************)
(* What Discord is told: the event bus (vhsm/events.py), the announcer     *)
(* (vhsm/discord/announce.py, Announcer), the bot that owns the connection *)
(* and the pump between the two (vhsm/discord/bot.py), and the attempts of *)
(* a post (vhsm/discord/rest.py).                                          *)
(*                                                                         *)
(* Everything runs on one event loop; an action is the code between two    *)
(* awaits.  A part of stop() with nothing to wait for is a step of its own *)
(* too, which only adds interleavings.                                     *)
(*                                                                         *)
(* Each start that gets as far as asking for the gateway's address makes a *)
(* RestClient and an Announcer, and if it is answered a gateway, a queue   *)
(* and two tasks.  All of them bear the number of that start, and 0 is     *)
(* None.  An event is known by its place in the order of publication.      *)
(* Which channel an event goes to, and whether its instance announces it,  *)
(* is left open; there is never more than one, since every kind that goes  *)
(* to players is about an instance.  The registration of commands is left  *)
(* out, and the inside of the gateway's connection.                        *)
(***************************************************************************)
EXTENDS Integers, Sequences, FiniteSets

CONSTANTS
  Savers,       \* requests that save the settings or the token at once
  Keys,         \* what Event.key may say
  NoKey,        \* the key of a one-off event
  QueueLimit,   \* events held for a subscriber
  MaxAttempts,  \* attempts of one request
  MaxEvents,    \* bound: events published
  MaxStarts     \* bound: starts of the bot

ASSUME KeyAssumption == NoKey \notin Keys
ASSUME BoundsAssumption ==
  /\ QueueLimit \in Nat \ {0} /\ MaxAttempts \in Nat \ {0}
  /\ MaxEvents \in Nat /\ MaxStarts \in Nat

VARIABLES
  events,      \* the keys of the events published so far
  subscribed,  \* EventBus._subscribers
  queues,      \* the events each queue holds
  pumps,       \* the pump tasks
  seen,        \* Announcer._seen
  open,        \* the HTTP clients that are not closed
  running,     \* the gateway tasks that are not done
  bot,         \* the attributes of DiscordBot
  enabled,     \* DiscordBot.config.enabled
  token,       \* read_token finds one
  savers,      \* where each request is
  starts,      \* how many starts have made a RestClient
  down,        \* the manager is shutting down
  posts,       \* history: which pump posted which event with which announcer
  latest,      \* history: the event of the message that arrived last
  overlapped,  \* history: two requests were in start() or stop() at once
  unapplied    \* history: the switch was moved, its save failed, and no start followed

busVars == <<events, subscribed, queues>>
postVars == <<seen, posts, latest>>
botVars == <<open, running, bot, enabled, token, savers, starts, down, overlapped, unapplied>>
vars == <<busVars, pumps, postVars, botVars>>

Starts == 1..MaxStarts
Start0 == 0..MaxStarts
Numbers == 1..Len(events)

Pump == [state : {"none", "new", "idle", "posting", "cancelled", "ended"},
         reads : Start0, by : Start0, event : 0..MaxEvents, tries : 0..MaxAttempts]
Bot == [rest : Start0, announcer : Start0, gateway : Start0,
        gatewayTask : Start0, pumpTask : Start0, queue : Start0]
Places == {"idle", "gateway", "gatewayTask", "pumpTask", "closing", "url", "giving up"}
Saver == {v \in [pc : Places, restarts : BOOLEAN, of : Start0] : v.pc = "url" => v.of # 0}

TypeOK ==
  /\ events \in Seq(Keys \cup {NoKey}) /\ Len(events) <= MaxEvents
  /\ subscribed \subseteq Starts
  /\ queues \in [Starts -> Seq(1..MaxEvents)]
  /\ \A g \in Starts : Len(queues[g]) <= QueueLimit
  /\ pumps \in [Starts -> Pump]
  /\ seen \in [Starts -> SUBSET Keys]
  /\ open \subseteq Starts /\ running \subseteq Starts
  /\ bot \in Bot /\ {enabled, token} \subseteq BOOLEAN
  /\ savers \in [Savers -> Saver]
  /\ starts \in Start0 /\ down \in BOOLEAN
  /\ posts \subseteq Starts \X Starts \X (1..MaxEvents)
  /\ latest \in 0..MaxEvents /\ {overlapped, unapplied} \subseteq BOOLEAN

NoPump == [state |-> "none", reads |-> 0, by |-> 0, event |-> 0, tries |-> 0]
Idle == [pc |-> "idle", restarts |-> FALSE, of |-> 0]

Init ==
  /\ events = <<>> /\ subscribed = {}
  /\ queues = [g \in Starts |-> <<>>]
  /\ pumps = [g \in Starts |-> NoPump]
  /\ seen = [g \in Starts |-> {}]
  /\ open = {} /\ running = {}
  /\ bot = [rest |-> 0, announcer |-> 0, gateway |-> 0,
            gatewayTask |-> 0, pumpTask |-> 0, queue |-> 0]
  /\ enabled \in BOOLEAN /\ token \in BOOLEAN
  /\ savers = [s \in Savers |-> Idle]
  /\ starts = 0 /\ down = FALSE
  /\ posts = {} /\ latest = 0 /\ overlapped = FALSE /\ unapplied = FALSE

-----------------------------------------------------------------------------
(***************************************************************************)
(* The bus                                                                 *)
(***************************************************************************)

\* A full queue drops its oldest event.
Put(q, n) == Append(IF Len(q) < QueueLimit THEN q ELSE Tail(q), n)

Publish(key) ==
  /\ Len(events) < MaxEvents
  /\ events' = Append(events, key)
  /\ queues' = [g \in Starts |->
       IF g \in subscribed THEN Put(queues[g], Len(events) + 1) ELSE queues[g]]
  /\ UNCHANGED <<subscribed, pumps, postVars, botVars>>

-----------------------------------------------------------------------------
(***************************************************************************)
(* The pump and the announcer                                              *)
(***************************************************************************)

\* The task runs for the first time, and asserts that there is a queue.
PumpBegins(g) ==
  /\ pumps[g].state = "new"
  /\ pumps' = [pumps EXCEPT ![g] =
       [@ EXCEPT !.state = IF bot.queue = 0 THEN "ended" ELSE "idle", !.reads = bot.queue]]
  /\ UNCHANGED <<busVars, postVars, botVars>>

\* The pump g takes the oldest event off its queue.
Takes(g, n) ==
  /\ pumps[g].state = "idle"
  /\ queues[pumps[g].reads] # <<>>
  /\ n = Head(queues[pumps[g].reads])
  /\ queues' = [queues EXCEPT ![pumps[g].reads] = Tail(@)]
  /\ UNCHANGED <<events, subscribed, botVars>>

\* There is no announcer, or no channel for this event.
PumpSkips(g) ==
  /\ \E n \in Numbers : Takes(g, n)
  /\ UNCHANGED <<pumps, postVars>>

\* This key has been said.
PumpRepeats(g) ==
  /\ bot.announcer # 0
  /\ \E n \in Numbers : Takes(g, n) /\ events[n] \in seen[bot.announcer]
  /\ UNCHANGED <<pumps, postVars>>

Posting(g, n) ==
  pumps' = [pumps EXCEPT ![g] =
    [@ EXCEPT !.state = "posting", !.by = bot.announcer, !.event = n]]

\* Faulty variant: what has been said is known to the pump that said it.
PumpPostsByItself(g) ==
  LET a == bot.announcer
  IN /\ a # 0
     /\ \E n \in Numbers :
          /\ Takes(g, n)
          /\ events[n] \notin seen[g]
          /\ Posting(g, n)
          /\ seen' = [seen EXCEPT ![g] = @ \cup ({events[n]} \ {NoKey})]
          /\ posts' = posts \cup {<<g, a, n>>}
     /\ UNCHANGED latest

\* The key counts as said before anything has been posted.
PumpPosts(g) ==
  LET a == bot.announcer
  IN /\ a # 0
     /\ \E n \in Numbers :
          /\ Takes(g, n)
          /\ events[n] \notin seen[a]
          /\ Posting(g, n)
          /\ seen' = [seen EXCEPT ![a] = @ \cup ({events[n]} \ {NoKey})]
          /\ posts' = posts \cup {<<g, a, n>>}
     /\ UNCHANGED latest

\* _already_said forgets a key, and a reader may hear it again, after a day.
DayPasses(a, key) ==
  /\ key \in seen[a]
  /\ seen' = [seen EXCEPT ![a] = @ \ {key}]
  /\ posts' = {p \in posts : p[2] # a \/ events[p[3]] # key}
  /\ UNCHANGED <<busVars, pumps, latest, botVars>>

-----------------------------------------------------------------------------
(***************************************************************************)
(* RestClient.request, for a message                                       *)
(***************************************************************************)

Arrives(g) == latest' = pumps[g].event

PostEnds(g) ==
  pumps' = [pumps EXCEPT ![g] =
    [@ EXCEPT !.state = "idle", !.by = 0, !.event = 0, !.tries = 0]]

Posted(g) ==
  /\ pumps[g].state = "posting"
  /\ pumps[g].by \in open
  /\ Arrives(g)
  /\ PostEnds(g)
  /\ UNCHANGED <<busVars, seen, posts, botVars>>

\* Discord refuses the message or asks for too long a wait, or the client has
\* been closed: the failure is noted and the event is over.
Refused(g) ==
  /\ pumps[g].state = "posting"
  /\ UNCHANGED latest \/ (pumps[g].by \notin open /\ Arrives(g))
  /\ PostEnds(g)
  /\ UNCHANGED <<busVars, seen, posts, botVars>>

\* Faulty variant: after the last attempt the count begins again.
TryAgainForEver(g) == pumps' = [pumps EXCEPT ![g].tries = (@ + 1) % MaxAttempts]

\* After the last attempt the error is raised.
TryAgain(g) ==
  IF pumps[g].tries + 1 < MaxAttempts
  THEN pumps' = [pumps EXCEPT ![g].tries = @ + 1]
  ELSE PostEnds(g)

\* A rate limit, trouble at Discord's or on the way.  If the answer was lost,
\* the message has arrived.
PostFails(g) ==
  /\ pumps[g].state = "posting"
  /\ pumps[g].by \in open
  /\ UNCHANGED latest \/ Arrives(g)
  /\ TryAgain(g)
  /\ UNCHANGED <<busVars, seen, posts, botVars>>

\* The cancelled task ends; what it was sending may have arrived.
PumpDies(g) ==
  /\ pumps[g].state = "cancelled"
  /\ UNCHANGED latest \/ (pumps[g].event # 0 /\ Arrives(g))
  /\ pumps' = [pumps EXCEPT ![g] = [NoPump EXCEPT !.state = "ended"]]
  /\ UNCHANGED <<busVars, seen, posts, botVars>>

-----------------------------------------------------------------------------
(***************************************************************************)
(* DiscordBot: stop, start, reload, reload_token                           *)
(***************************************************************************)

Busy == {s \in Savers : savers[s].pc # "idle"}

GoTo(s, pc, of) == savers' = [savers EXCEPT ![s] = [@ EXCEPT !.pc = pc, !.of = of]]
Return(s) == savers' = [savers EXCEPT ![s] = Idle]

Begin(s, restarts) ==
  /\ savers[s].pc = "idle"
  /\ savers' = [savers EXCEPT ![s] = [pc |-> "gateway", restarts |-> restarts, of |-> 0]]
  /\ overlapped' = (overlapped \/ Busy # {})
  /\ unapplied' = (unapplied /\ ~restarts)
  /\ UNCHANGED <<busVars, pumps, postVars, open, running, bot, starts>>

\* The gateway task is there and not done.
Running == bot.gatewayTask \in running

\* The new settings need a start.
Reload(s, on) ==
  /\ ~down
  /\ on # enabled \/ ~Running
  /\ enabled' = on
  /\ Begin(s, TRUE)
  /\ UNCHANGED <<token, down>>

SaveSettings(s) == \E on \in BOOLEAN : Reload(s, on)

\* config_mod.save fails: the settings have changed in memory, and nothing is
\* stopped or started.  Saving again what they say by now changes nothing.
ReloadFails(on) ==
  /\ ~down
  /\ on # enabled
  /\ enabled' = on
  /\ unapplied' = TRUE
  /\ UNCHANGED <<busVars, pumps, postVars, open, running, bot, token, savers, starts, down, overlapped>>

ReloadToken(s) ==
  /\ ~down
  /\ Begin(s, TRUE)
  /\ UNCHANGED <<enabled, down>>

\* A token is pasted, or cleared; lifespan's start has the one that is there.
SaveToken(s) == token' \in BOOLEAN /\ ReloadToken(s)

\* lifespan's end, after the last request.
ShutDown(s) ==
  /\ ~down /\ Busy = {}
  /\ down' = TRUE
  /\ Begin(s, FALSE)
  /\ UNCHANGED <<enabled, token>>

\* The socket is closed; its task is cancelled.
GatewayStopped(s) ==
  /\ savers[s].pc = "gateway"
  /\ GoTo(s, "gatewayTask", bot.gatewayTask)
  /\ running' = running \ {bot.gatewayTask}
  /\ UNCHANGED <<busVars, pumps, postVars, open, bot, enabled, token, starts, down, overlapped, unapplied>>

\* The pump tasks that are not done.
Alive == {g \in Starts : pumps[g].state \in {"new", "idle", "posting", "cancelled"}}

Cancelled(g) ==
  IF g \in Alive
  THEN pumps' = [pumps EXCEPT ![g].state = "cancelled"]
  ELSE UNCHANGED pumps

\* The gateway task has ended; the pump is cancelled.
GatewayGone(s) ==
  /\ savers[s].pc = "gatewayTask"
  /\ bot' = IF savers[s].of = 0 THEN bot ELSE [bot EXCEPT !.gatewayTask = 0]
  /\ GoTo(s, "pumpTask", bot.pumpTask)
  /\ Cancelled(bot.pumpTask)
  /\ UNCHANGED <<busVars, postVars, open, running, enabled, token, starts, down, overlapped, unapplied>>

\* Faulty variant: a cancelled task is not awaited.
PumpIsCancelled(g) == TRUE

PumpIsOver(g) == g \notin Alive

\* Faulty variant: the queue stays subscribed.
PumpGoneOnly(s) ==
  /\ savers[s].pc = "pumpTask"
  /\ PumpIsOver(savers[s].of)
  /\ bot' = [bot EXCEPT !.pumpTask = IF savers[s].of = 0 THEN @ ELSE 0, !.queue = 0]
  /\ GoTo(s, "closing", bot.rest)
  /\ open' = open \ {bot.rest}
  /\ UNCHANGED <<busVars, pumps, postVars, running, enabled, token, starts, down, overlapped, unapplied>>

\* The pump has ended; its queue goes, and the client is being closed.
PumpGone(s) ==
  /\ savers[s].pc = "pumpTask"
  /\ PumpIsOver(savers[s].of)
  /\ bot' = [bot EXCEPT !.pumpTask = IF savers[s].of = 0 THEN @ ELSE 0, !.queue = 0]
  /\ subscribed' = subscribed \ {bot.queue}
  /\ GoTo(s, "closing", bot.rest)
  /\ open' = open \ {bot.rest}
  /\ UNCHANGED <<events, queues, pumps, postVars, running, enabled, token, starts, down, overlapped, unapplied>>

Cleared == [bot EXCEPT !.rest = 0, !.gateway = 0, !.announcer = 0]

\* stop() is over, and so is start() without a token or when switched off.
Closed(s) ==
  /\ savers[s].pc = "closing"
  /\ bot' = IF savers[s].of = 0 THEN [Cleared EXCEPT !.rest = bot.rest] ELSE Cleared
  /\ Return(s)
  /\ UNCHANGED <<busVars, pumps, postVars, open, running, enabled, token, starts, down, overlapped, unapplied>>

\* start() goes on and asks for the gateway's address.
Asks(s) ==
  /\ savers[s].pc = "closing"
  /\ savers[s].restarts /\ enabled /\ token
  /\ starts < MaxStarts
  /\ starts' = starts + 1
  /\ bot' = [Cleared EXCEPT !.rest = starts', !.announcer = starts']
  /\ open' = open \cup {starts'}
  /\ GoTo(s, "url", starts')
  /\ UNCHANGED <<busVars, pumps, postVars, running, enabled, token, down, overlapped, unapplied>>

\* The address is there: the gateway, the queue and both tasks are made.
Answered(s) ==
  LET g == savers[s].of
  IN /\ savers[s].pc = "url"
     /\ bot' = [bot EXCEPT !.gateway = g, !.queue = g, !.pumpTask = g, !.gatewayTask = g]
     /\ subscribed' = subscribed \cup {g}
     /\ pumps' = [pumps EXCEPT ![g] = [NoPump EXCEPT !.state = "new"]]
     /\ running' = running \cup {g}
     /\ Return(s)
     /\ UNCHANGED <<events, queues, postVars, open, enabled, token, starts, down, overlapped, unapplied>>

\* Discord cannot be asked: the client is being closed.
Unanswered(s) ==
  /\ savers[s].pc = "url"
  /\ savers[s].of \in open
  /\ open' = open \ {bot.rest}
  /\ GoTo(s, "giving up", bot.rest)
  /\ UNCHANGED <<busVars, pumps, postVars, running, bot, enabled, token, starts, down, overlapped, unapplied>>

\* Another request has closed the client under this one, which fails.
Disturbed(s) ==
  /\ savers[s].pc = "url"
  /\ savers[s].of \notin open
  /\ Return(s)
  /\ UNCHANGED <<busVars, pumps, postVars, open, running, bot, enabled, token, starts, down, overlapped, unapplied>>

GivesUp(s) ==
  /\ savers[s].pc = "giving up"
  /\ bot' = IF savers[s].of = 0 THEN bot ELSE [bot EXCEPT !.rest = 0]
  /\ Return(s)
  /\ UNCHANGED <<busVars, pumps, postVars, open, running, enabled, token, starts, down, overlapped, unapplied>>

\* GatewayClient.run returns: the token was rejected.
GatewayEnds(g) ==
  /\ g \in running
  /\ running' = running \ {g}
  /\ UNCHANGED <<busVars, pumps, postVars, open, bot, enabled, token, savers, starts, down, overlapped, unapplied>>

-----------------------------------------------------------------------------
PumpStep(g) ==
  \/ PumpBegins(g) \/ PumpSkips(g) \/ PumpRepeats(g) \/ PumpPosts(g)
  \/ Posted(g) \/ Refused(g) \/ PostFails(g) \/ PumpDies(g)

SaverStep(s) ==
  \/ GatewayStopped(s) \/ GatewayGone(s) \/ PumpGone(s) \/ Closed(s)
  \/ Asks(s) \/ Answered(s) \/ Unanswered(s) \/ Disturbed(s) \/ GivesUp(s)

Next ==
  \/ \E key \in Keys \cup {NoKey} : Publish(key)
  \/ \E g \in Starts : PumpStep(g) \/ GatewayEnds(g)
  \/ \E a \in Starts, key \in Keys : DayPasses(a, key)
  \/ \E on \in BOOLEAN : ReloadFails(on)
  \/ \E s \in Savers :
       \/ SaverStep(s)
       \/ SaveSettings(s) \/ SaveToken(s) \/ ShutDown(s)

Spec == Init /\ [][Next]_vars

\* The loop runs what can run, and a request ends within its time-out.
FairSpec ==
  /\ Spec
  /\ \A g \in Starts : WF_vars(PumpStep(g))
  /\ \A s \in Savers : WF_vars(SaverStep(s))

-----------------------------------------------------------------------------
(***************************************************************************)
(* Properties                                                              *)
(***************************************************************************)

\* An announcer posts no two events with one key within a day, though an
\* event is marked before it is posted, publishers repeat themselves, and two
\* saves at once leave two pumps that share the announcer.
SaidOnce ==
  \A p, q \in posts :
    p # q /\ p[2] = q[2] /\ events[p[3]] = events[q[3]] => events[p[3]] = NoKey

\* Players never read of an earlier event after a later one, whatever is
\* dropped, refused, tried again or cut off by a save of the settings; unless
\* two saves overlapped, which may leave a second pump.
InOrder == [][latest' >= latest \/ overlapped]_vars

\* When no save is under way, what listens, runs or holds a connection is
\* what the bot knows of, and nothing at all when it is switched off, has
\* no token or the manager has shut down; except that a bot runs on whose
\* switch was moved by a save that failed.  "Both are safe to call whatever state it is in"
\* (start and stop), but not at the same time: `overlapped' is excepted.
NothingForgotten ==
  Busy = {} /\ ~overlapped =>
    /\ running \subseteq {bot.gatewayTask}
    /\ Alive \subseteq {bot.pumpTask}
    /\ subscribed = {bot.queue} \ {0}
    /\ open = {bot.rest} \ {0}
    /\ (~enabled /\ ~unapplied) \/ ~token \/ down => \A part \in DOMAIN bot : bot[part] = 0

\* Event n is waiting in the queue of a pump, or being posted.
Pending(n) ==
  \E g \in Starts :
    /\ pumps[g].state \in {"idle", "posting"}
    /\ \/ pumps[g].event = n
       \/ \E k \in 1..Len(queues[pumps[g].reads]) : queues[pumps[g].reads][k] = n

\* No event holds up those behind it: each one that a pump has before it is
\* told, given up or dropped, or the pump ends.
PumpGoesOn == \A n \in 1..MaxEvents : Pending(n) ~> ~Pending(n)
=============================================================================
