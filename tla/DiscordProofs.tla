--------------------------- MODULE DiscordProofs ---------------------------
(***************************************************************************)
(* What is proved of the two modules about Discord, for every value of     *)
(* their constants: Discord (the bot, its pump and its posts) and Gateway  *)
(* (its session and the commands).  They share no state; each has a part   *)
(* of its own.                                                             *)
(***************************************************************************)
EXTENDS Discord, Gateway, TLAPS

\* What has been posted was published; a key that was posted is remembered.
Marked ==
  \A p \in posts : p[3] \in Numbers /\ (events[p[3]] \in Keys => events[p[3]] \in seen[p[2]])

LEMMA Constants == /\ QueueLimit \in Nat /\ QueueLimit >= 1
                   /\ MaxAttempts \in Nat /\ MaxAttempts >= 1
                   /\ MaxEvents \in Nat /\ MaxStarts \in Nat
                   /\ Starts \subseteq Nat /\ 0 \notin Starts
                   /\ Start0 = Starts \cup {0}
  BY BoundsAssumption DEF Starts, Start0

\* Members of the record types, and changes of one.
LEMMA Parts ==
  TypeOK => /\ bot.rest \in Start0 /\ bot.announcer \in Start0 /\ bot.gateway \in Start0
            /\ bot.gatewayTask \in Start0 /\ bot.pumpTask \in Start0 /\ bot.queue \in Start0
            /\ \A s \in Savers : savers[s] \in Saver /\ savers[s].of \in Start0
            /\ \A g \in Starts : pumps[g] \in Pump
  BY DEF TypeOK, Bot, Saver

LEMMA PumpChange ==
  ASSUME NEW p \in Pump
  PROVE  /\ [NoPump EXCEPT !.state = "ended"] \in Pump
         /\ \A a \in Start0 :
              [p EXCEPT !.state = IF a = 0 THEN "ended" ELSE "idle", !.reads = a] \in Pump
         /\ \A b \in Start0, n \in 0..MaxEvents :
              [p EXCEPT !.state = "posting", !.by = b, !.event = n] \in Pump
         /\ [p EXCEPT !.state = "idle", !.by = 0, !.event = 0, !.tries = 0] \in Pump
         /\ [p EXCEPT !.state = "cancelled"] \in Pump
         /\ [NoPump EXCEPT !.state = "new"] \in Pump
         /\ p.tries + 1 < MaxAttempts => [p EXCEPT !.tries = @ + 1] \in Pump
<1>1. 0 \in Start0 /\ 0 \in 0..MaxEvents /\ 0 \in 0..MaxAttempts
  BY Constants
<1>2. p.tries + 1 < MaxAttempts => p.tries + 1 \in 0..MaxAttempts
  BY Constants DEF Pump
<1> QED BY <1>1, <1>2 DEF Pump, NoPump

LEMMA SaverChange ==
  ASSUME TypeOK, NEW s \in Savers, NEW of \in Start0,
         NEW pc \in {"gatewayTask", "pumpTask", "closing", "url", "giving up"},
         pc = "url" => of # 0, GoTo(s, pc, of)
  PROVE  savers' \in [Savers -> Saver]
<1>1. [savers[s] EXCEPT !.pc = pc, !.of = of] \in Saver
  BY DEF TypeOK, Saver, Places
<1> QED BY <1>1 DEF GoTo, TypeOK

LEMMA SaverReturns ==
  ASSUME TypeOK, NEW s \in Savers, Return(s)
  PROVE  savers' \in [Savers -> Saver]
<1>1. Idle \in Saver
  BY Constants DEF Idle, Saver, Places
<1> QED BY <1>1 DEF Return, TypeOK

LEMMA InitType == Init => TypeOK
<1> SUFFICES ASSUME Init PROVE TypeOK
  OBVIOUS
<1>1. NoPump \in Pump /\ Idle \in Saver /\ 0 \in Start0 /\ 0 \in 0..MaxEvents
  BY Constants DEF NoPump, Pump, Idle, Saver, Places
<1>2. bot \in Bot
  BY <1>1 DEF Init, Bot
<1>3. \A g \in Starts : Len(queues[g]) <= QueueLimit
  BY Constants DEF Init
<1>4. events \in Seq(Keys \cup {NoKey}) /\ Len(events) <= MaxEvents
  BY Constants DEF Init
<1>5. queues \in [Starts -> Seq(1..MaxEvents)]
  BY DEF Init
<1> QED BY <1>1, <1>2, <1>3, <1>4, <1>5 DEF Init, TypeOK

-----------------------------------------------------------------------------
\* A queue stays within its limit, and what is put on it is the newest.
LEMMA PutType ==
  ASSUME NEW q \in Seq(1..MaxEvents), Len(q) <= QueueLimit, NEW n \in 1..MaxEvents
  PROVE  Put(q, n) \in Seq(1..MaxEvents) /\ Len(Put(q, n)) <= QueueLimit
<1>1. CASE Len(q) < QueueLimit
  BY <1>1, Constants DEF Put
<1>2. CASE ~(Len(q) < QueueLimit)
  <2>1. q # <<>> /\ Tail(q) \in Seq(1..MaxEvents) /\ Len(Tail(q)) = Len(q) - 1
    BY <1>2, Constants
  <2> QED BY <1>2, <2>1, Constants DEF Put
<1> QED BY <1>1, <1>2

LEMMA TailType ==
  ASSUME NEW q \in Seq(1..MaxEvents), Len(q) <= QueueLimit, q # <<>>
  PROVE  Tail(q) \in Seq(1..MaxEvents) /\ Len(Tail(q)) <= QueueLimit
  BY Constants

LEMMA TypeStep == TypeOK /\ [Next]_vars => TypeOK'
<1> SUFFICES ASSUME TypeOK, [Next]_vars PROVE TypeOK'
  OBVIOUS
<1> USE Constants DEF busVars, postVars, botVars
<1>1. ASSUME NEW key \in Keys \cup {NoKey}, Publish(key) PROVE TypeOK'
  <2>1. Len(events) + 1 \in 1..MaxEvents
    BY <1>1 DEF Publish, TypeOK
  <2>2. events' \in Seq(Keys \cup {NoKey}) /\ Len(events') <= MaxEvents
    BY <1>1, <2>1 DEF Publish, TypeOK
  <2>3. /\ queues' \in [Starts -> Seq(1..MaxEvents)]
        /\ \A g \in Starts : Len(queues'[g]) <= QueueLimit
    BY <1>1, <2>1, PutType DEF Publish, TypeOK
  <2> QED BY <1>1, <2>2, <2>3 DEF Publish, TypeOK
<1>2. ASSUME NEW g \in Starts, PumpBegins(g) PROVE TypeOK'
  <2>1. pumps' \in [Starts -> Pump]
    BY <1>2, Parts, PumpChange DEF PumpBegins, TypeOK
  <2> QED BY <1>2, <2>1 DEF PumpBegins, TypeOK
<1>3. ASSUME NEW g \in Starts, NEW n \in Numbers, Takes(g, n)
      PROVE  /\ queues' \in [Starts -> Seq(1..MaxEvents)]
             /\ \A h \in Starts : Len(queues'[h]) <= QueueLimit
             /\ n \in 1..MaxEvents
             /\ events' = events
             /\ subscribed' = subscribed
             /\ UNCHANGED botVars
  <2>1. \A h \in Starts : queues[h] # <<>> =>
          Tail(queues[h]) \in Seq(1..MaxEvents) /\ Len(Tail(queues[h])) <= QueueLimit
    BY TailType DEF TypeOK
  <2>2. \A h \in Starts : queues'[h] = queues[h] \/
          (queues[h] # <<>> /\ queues'[h] = Tail(queues[h]))
    BY <1>3 DEF Takes, TypeOK
  <2>3. queues' = [h \in Starts |-> queues'[h]]
    BY <1>3 DEF Takes, TypeOK
  <2>4. \A h \in Starts : queues'[h] \in Seq(1..MaxEvents) /\ Len(queues'[h]) <= QueueLimit
    BY <2>1, <2>2 DEF TypeOK
  <2>5. queues' \in [Starts -> Seq(1..MaxEvents)]
    BY <2>3, <2>4
  <2>6. n \in 1..MaxEvents
    BY DEF TypeOK, Numbers
  <2>7. events' = events /\ subscribed' = subscribed /\ UNCHANGED botVars
    BY <1>3 DEF Takes
  <2> QED BY <2>4, <2>5, <2>6, <2>7
<1>4. ASSUME NEW g \in Starts, PumpSkips(g) PROVE TypeOK'
  BY <1>4, <1>3 DEF PumpSkips, TypeOK
<1>5. ASSUME NEW g \in Starts, PumpRepeats(g) PROVE TypeOK'
  BY <1>5, <1>3 DEF PumpRepeats, TypeOK
<1>6. ASSUME NEW g \in Starts, PumpPosts(g) PROVE TypeOK'
  <2> DEFINE a == bot.announcer
  <2>1. PICK n \in Numbers : /\ Takes(g, n) /\ Posting(g, n)
                             /\ seen' = [seen EXCEPT ![a] = @ \cup ({events[n]} \ {NoKey})]
                             /\ posts' = posts \cup {<<g, a, n>>}
    BY <1>6 DEF PumpPosts
  <2>2. a \in Starts /\ latest' = latest /\ events[n] \in Keys \cup {NoKey}
    BY <1>6 DEF PumpPosts, TypeOK, Bot, Numbers
  <2>3. pumps' \in [Starts -> Pump]
    <3>1. n \in 0..MaxEvents /\ a \in Start0
      BY <2>1, <2>2, <1>3
    <3>2. [pumps[g] EXCEPT !.state = "posting", !.by = a, !.event = n] \in Pump
      BY <3>1, Parts, PumpChange
    <3> QED BY <2>1, <3>2 DEF Posting, TypeOK
  <2>4. seen' \in [Starts -> SUBSET Keys]
    BY <2>1, <2>2 DEF TypeOK
  <2>5. posts' \subseteq Starts \X Starts \X (1..MaxEvents)
    BY <2>1, <2>2, <1>3 DEF TypeOK
  <2> QED BY <2>1, <2>2, <2>3, <2>4, <2>5, <1>3 DEF TypeOK
<1>7. ASSUME NEW a \in Starts, NEW key \in Keys, DayPasses(a, key) PROVE TypeOK'
  BY <1>7 DEF DayPasses, TypeOK
<1>8. ASSUME NEW g \in Starts, PostEnds(g) PROVE pumps' \in [Starts -> Pump]
  BY <1>8, Parts, PumpChange DEF PostEnds, TypeOK
<1>9. ASSUME NEW g \in Starts, Arrives(g) PROVE latest' \in 0..MaxEvents
  BY <1>9 DEF Arrives, TypeOK, Pump
<1>10. ASSUME NEW g \in Starts, Posted(g) PROVE TypeOK'
  BY <1>10, <1>8, <1>9 DEF Posted, TypeOK
<1>11. ASSUME NEW g \in Starts, Refused(g) PROVE TypeOK'
  BY <1>11, <1>8, <1>9 DEF Refused, TypeOK
<1>12. ASSUME NEW g \in Starts, PostFails(g) PROVE TypeOK'
  <2>1. pumps' \in [Starts -> Pump]
    <3>1. CASE PostEnds(g)
      BY <3>1, <1>8
    <3>2. CASE pumps[g].tries + 1 < MaxAttempts /\ pumps' = [pumps EXCEPT ![g].tries = @ + 1]
      <4>1. [pumps[g] EXCEPT !.tries = @ + 1] \in Pump
        BY <3>2, Parts, PumpChange, Constants
      <4> QED BY <3>2, <4>1 DEF TypeOK
    <3> QED BY <1>12, <3>1, <3>2 DEF PostFails, TryAgain
  <2> QED BY <1>12, <2>1, <1>9 DEF PostFails, TypeOK
<1>13. ASSUME NEW g \in Starts, PumpDies(g) PROVE TypeOK'
  <2>1. pumps' \in [Starts -> Pump]
    BY <1>13, Parts, PumpChange DEF PumpDies, TypeOK
  <2> QED BY <1>13, <2>1, <1>9 DEF PumpDies, TypeOK
<1>14. ASSUME NEW s \in Savers, NEW r \in BOOLEAN, Begin(s, r)
       PROVE  /\ savers' \in [Savers -> Saver] /\ {overlapped', unapplied'} \subseteq BOOLEAN
              /\ UNCHANGED <<busVars, pumps, postVars, open, running, bot, starts>>
  BY <1>14, Constants DEF Begin, TypeOK, Saver, Places
<1>15. ASSUME NEW s \in Savers, SaveSettings(s) PROVE TypeOK'
  BY <1>15, <1>14 DEF SaveSettings, Reload, TypeOK
<1>16. ASSUME NEW s \in Savers, SaveToken(s) PROVE TypeOK'
  BY <1>16, <1>14 DEF SaveToken, ReloadToken, TypeOK
<1>17. ASSUME NEW s \in Savers, ShutDown(s) PROVE TypeOK'
  BY <1>17, <1>14 DEF ShutDown, TypeOK
<1>18. ASSUME NEW s \in Savers, GatewayStopped(s) PROVE TypeOK'
  <2>1. savers' \in [Savers -> Saver]
    BY <1>18, Parts, SaverChange DEF GatewayStopped
  <2> QED BY <1>18, <2>1 DEF GatewayStopped, TypeOK
<1>19. ASSUME NEW s \in Savers, GatewayGone(s) PROVE TypeOK'
  <2>1. pumps' \in [Starts -> Pump]
    <3>1. CASE bot.pumpTask \in Alive
      <4>1. bot.pumpTask \in Starts
        BY <3>1 DEF Alive
      <4>2. [pumps[bot.pumpTask] EXCEPT !.state = "cancelled"] \in Pump
        BY <4>1, Parts, PumpChange, Constants
      <4> QED BY <1>19, <3>1, <4>1, <4>2 DEF GatewayGone, Cancelled, TypeOK
    <3>2. CASE bot.pumpTask \notin Alive
      BY <1>19, <3>2 DEF GatewayGone, Cancelled, TypeOK
    <3> QED BY <3>1, <3>2
  <2>2. bot' \in Bot
    BY <1>19 DEF GatewayGone, TypeOK, Bot
  <2>3. savers' \in [Savers -> Saver]
    BY <1>19, Parts, SaverChange DEF GatewayGone
  <2> QED BY <1>19, <2>1, <2>2, <2>3 DEF GatewayGone, TypeOK
<1>20. ASSUME NEW s \in Savers, PumpGone(s) PROVE TypeOK'
  <2>2. bot' \in Bot
    BY <1>20 DEF PumpGone, TypeOK, Bot
  <2>3. savers' \in [Savers -> Saver]
    BY <1>20, Parts, SaverChange DEF PumpGone
  <2> QED BY <1>20, <2>2, <2>3 DEF PumpGone, TypeOK
<1>21. Cleared \in Bot /\ \A r \in Start0 : [Cleared EXCEPT !.rest = r] \in Bot
  BY DEF Cleared, TypeOK, Bot
<1>22. ASSUME NEW s \in Savers, Closed(s) PROVE TypeOK'
  <2>1. bot' \in Bot
    BY <1>22, <1>21 DEF Closed, TypeOK, Bot
  <2>2. savers' \in [Savers -> Saver]
    BY <1>22, SaverReturns DEF Closed
  <2> QED BY <1>22, <2>1, <2>2 DEF Closed, TypeOK
<1>23. ASSUME NEW s \in Savers, Asks(s) PROVE TypeOK'
  <2>1. starts' \in Starts
    BY <1>23 DEF Asks, TypeOK, Starts, Start0
  <2>2. bot' \in Bot
    BY <1>23, <2>1 DEF Asks, Cleared, TypeOK, Bot
  <2>3. savers' \in [Savers -> Saver]
    BY <1>23, <2>1, SaverChange DEF Asks
  <2> QED BY <1>23, <2>1, <2>2, <2>3 DEF Asks, TypeOK
<1>24. ASSUME NEW s \in Savers, Answered(s) PROVE TypeOK'
  <2>0. savers[s].of \in Starts
    BY <1>24, Parts DEF Answered, TypeOK, Saver
  <2>1. bot' \in Bot
    BY <1>24, <2>0 DEF Answered, TypeOK, Bot
  <2>2. savers' \in [Savers -> Saver]
    BY <1>24, <2>0, SaverReturns DEF Answered
  <2>3. pumps' \in [Starts -> Pump]
    BY <1>24, <2>0, Parts, PumpChange DEF Answered, TypeOK
  <2> QED BY <1>24, <2>0, <2>1, <2>2, <2>3 DEF Answered, TypeOK
<1>25. ASSUME NEW s \in Savers, Unanswered(s) PROVE TypeOK'
  <2>1. savers' \in [Savers -> Saver]
    BY <1>25, Parts, SaverChange DEF Unanswered
  <2> QED BY <1>25, <2>1 DEF Unanswered, TypeOK
<1>26. ASSUME NEW s \in Savers, Disturbed(s) PROVE TypeOK'
  BY <1>26, SaverReturns DEF Disturbed, TypeOK
<1>27. ASSUME NEW s \in Savers, GivesUp(s) PROVE TypeOK'
  <2>1. bot' \in Bot
    BY <1>27 DEF GivesUp, TypeOK, Bot
  <2> QED BY <1>27, <2>1, SaverReturns DEF GivesUp, TypeOK
<1>28. ASSUME NEW g \in Starts, GatewayEnds(g) PROVE TypeOK'
  BY <1>28 DEF GatewayEnds, TypeOK
<1>29. ASSUME NEW on \in BOOLEAN, ReloadFails(on) PROVE TypeOK'
  BY <1>29 DEF ReloadFails, TypeOK
<1>30. CASE UNCHANGED vars
  BY <1>30 DEF vars, TypeOK
<1> QED
  BY <1>1, <1>2, <1>4, <1>5, <1>6, <1>7, <1>10, <1>11, <1>12, <1>13, <1>15, <1>16, <1>17, <1>18,
     <1>19, <1>20, <1>22, <1>23, <1>24, <1>25, <1>26, <1>27, <1>28, <1>29, <1>30
     DEF Next, PumpStep, SaverStep

-----------------------------------------------------------------------------
(***************************************************************************)
(* Each key is said once                                                   *)
(***************************************************************************)

LEMMA MarkedStep == TypeOK /\ Marked /\ SaidOnce /\ [Next]_vars => Marked' /\ SaidOnce'
<1> SUFFICES ASSUME TypeOK, Marked, SaidOnce, [Next]_vars PROVE Marked' /\ SaidOnce'
  OBVIOUS
<1>1. ASSUME UNCHANGED <<events, seen, posts>> PROVE Marked' /\ SaidOnce'
  BY <1>1 DEF Marked, SaidOnce, Numbers
<1>2. ASSUME NEW key \in Keys \cup {NoKey}, Publish(key) PROVE Marked' /\ SaidOnce'
  <2>1. events' = Append(events, key) /\ seen' = seen /\ posts' = posts
    BY <1>2 DEF Publish, postVars
  <2>2. \A n \in Numbers : n \in Numbers' /\ events'[n] = events[n]
    BY <2>1 DEF TypeOK, Numbers
  <2>3. \A p \in posts : p[3] \in Numbers /\ events'[p[3]] = events[p[3]]
    BY <2>2 DEF Marked
  <2>4. Marked'
    BY <2>1, <2>2, <2>3 DEF Marked
  <2>5. ASSUME NEW p \in posts, NEW q \in posts, p # q, p[2] = q[2], events'[p[3]] = events'[q[3]]
        PROVE  events'[p[3]] = NoKey
    BY <2>3, <2>5 DEF SaidOnce
  <2>6. SaidOnce'
    BY <2>1, <2>5, Zenon DEF SaidOnce
  <2> QED BY <2>4, <2>6
<1>3. ASSUME NEW g \in Starts, PumpPosts(g) PROVE Marked' /\ SaidOnce'
  <2> DEFINE a == bot.announcer
  <2>1. PICK n \in Numbers : /\ events[n] \notin seen[a] /\ events' = events
                             /\ seen' = [seen EXCEPT ![a] = @ \cup ({events[n]} \ {NoKey})]
                             /\ posts' = posts \cup {<<g, a, n>>}
    BY <1>3 DEF PumpPosts, Takes
  <2>2. a \in Starts /\ seen[a] \subseteq Keys /\ DOMAIN seen = Starts
    BY <1>3, Parts, Constants DEF PumpPosts, TypeOK
  <2>3. \A h \in Starts : seen[h] \subseteq seen'[h]
    BY <2>1, <2>2
  <2>4. \A p \in posts : p[2] \in Starts
    BY DEF TypeOK
  <2>5. events[n] \in Keys => events[n] \in seen'[a]
    BY <2>1, <2>2, KeyAssumption
  <2>6. Marked'
    BY <2>1, <2>3, <2>4, <2>5 DEF Marked, Numbers
  <2>7. \A p \in posts : p[2] = a /\ events[p[3]] = events[n] => events[n] \notin Keys
    BY <2>1 DEF Marked
  <2>8. events[n] \in Keys \cup {NoKey}
    BY DEF TypeOK, Numbers
  <2> QED BY <2>1, <2>6, <2>7, <2>8 DEF SaidOnce
<1>4. ASSUME NEW a \in Starts, NEW key \in Keys, DayPasses(a, key) PROVE Marked' /\ SaidOnce'
  <2>1. /\ events' = events
        /\ seen' = [seen EXCEPT ![a] = @ \ {key}]
        /\ posts' = {p \in posts : p[2] # a \/ events[p[3]] # key}
    BY <1>4 DEF DayPasses, busVars
  <2>2. \A p \in posts' : p \in posts /\ p[2] \in Starts
    BY <2>1 DEF TypeOK
  <2>3. \A h \in Starts : seen'[h] = IF h = a THEN seen[a] \ {key} ELSE seen[h]
    BY <2>1 DEF TypeOK
  <2>4. Marked'
    BY <2>1, <2>2, <2>3 DEF Marked, Numbers
  <2> QED BY <2>1, <2>2, <2>4 DEF SaidOnce
<1>5. ASSUME NEW g \in Starts, PumpStep(g), ~PumpPosts(g)
      PROVE  UNCHANGED <<events, seen, posts>>
  BY <1>5 DEF PumpStep, PumpBegins, PumpSkips, PumpRepeats, Takes, Posted, Refused, PostFails,
     PumpDies, busVars, postVars
<1>6. ASSUME NEW s \in Savers, SaverStep(s) PROVE UNCHANGED <<events, seen, posts>>
  BY <1>6 DEF SaverStep, GatewayStopped, GatewayGone, PumpGone, Closed, Asks, Answered,
     Unanswered, Disturbed, GivesUp, busVars, postVars
<1>7. ASSUME NEW s \in Savers, SaveSettings(s) \/ SaveToken(s) \/ ShutDown(s)
      PROVE  UNCHANGED <<events, seen, posts>>
  BY <1>7 DEF SaveSettings, Reload, SaveToken, ReloadToken, ShutDown, Begin, busVars, postVars
<1>8. ASSUME NEW g \in Starts, GatewayEnds(g) PROVE UNCHANGED <<events, seen, posts>>
  BY <1>8 DEF GatewayEnds, busVars, postVars
<1>9. ASSUME NEW on \in BOOLEAN, ReloadFails(on) PROVE UNCHANGED <<events, seen, posts>>
  BY <1>9 DEF ReloadFails, busVars, postVars
<1>10. CASE UNCHANGED vars
  BY <1>10, <1>1 DEF vars, busVars, postVars
<1> QED BY <1>1, <1>2, <1>3, <1>4, <1>5, <1>6, <1>7, <1>8, <1>9, <1>10 DEF Next

THEOREM TypeHolds == Spec => []TypeOK
<1>1. Init => TypeOK
  BY InitType
<1>2. TypeOK /\ [Next]_vars => TypeOK'
  BY TypeStep
<1> QED BY <1>1, <1>2, PTL DEF Spec

THEOREM SaidOnceHolds == Spec => []SaidOnce
<1>1. Init => TypeOK /\ Marked /\ SaidOnce
  BY InitType DEF Init, Marked, SaidOnce
<1>2. (TypeOK /\ Marked /\ SaidOnce) /\ [Next]_vars => (TypeOK /\ Marked /\ SaidOnce)'
  BY TypeStep, MarkedStep
<1> QED BY <1>1, <1>2, PTL DEF Spec

-----------------------------------------------------------------------------
(***************************************************************************)
(* Nothing is forgotten                                                    *)
(***************************************************************************)

\* The queue and the client are those the bot knows of.
Held == subscribed = {bot.queue} \ {0} /\ open = {bot.rest} \ {0}

\* Nothing runs and nothing listens.
Silent ==
  /\ running = {} /\ Alive = {} /\ subscribed = {}
  /\ bot.gatewayTask = 0 /\ bot.pumpTask = 0 /\ bot.queue = 0

Quiet ==
  /\ running \subseteq {bot.gatewayTask}
  /\ Alive \subseteq {bot.pumpTask}
  /\ Held
  /\ (~enabled /\ ~unapplied) \/ ~token \/ down => \A part \in DOMAIN bot : bot[part] = 0

\* How far stop() and start() have come.
Stage(s) ==
  LET pc == savers[s].pc
      of == savers[s].of
  IN /\ pc = "gateway" =>
          running \subseteq {bot.gatewayTask} /\ Alive \subseteq {bot.pumpTask} /\ Held
     /\ pc = "gatewayTask" =>
          of = bot.gatewayTask /\ running = {} /\ Alive \subseteq {bot.pumpTask} /\ Held
     /\ pc = "pumpTask" =>
          /\ of = bot.pumpTask /\ running = {} /\ Alive \subseteq {bot.pumpTask} /\ Held
          /\ bot.gatewayTask = 0
     /\ pc = "closing" => of = bot.rest /\ Silent /\ open = {}
     /\ pc = "url" =>
          /\ of = bot.rest /\ Silent /\ open = {of} /\ bot.gateway = 0
          /\ (enabled \/ unapplied) /\ token /\ ~down
     /\ pc = "giving up" =>
          /\ of = bot.rest /\ Silent /\ open = {} /\ bot.gateway = 0
          /\ (enabled \/ unapplied) /\ token /\ ~down

\* As long as no two requests overlap, there is one at most.
Settled ==
  ~overlapped =>
    /\ \A s, t \in Busy : s = t
    /\ \A s \in Busy : Stage(s) /\ (savers[s].restarts => ~down)
    /\ Busy = {} => Quiet

LEMMA InitSettled == Init => Settled
<1> SUFFICES ASSUME Init PROVE Settled
  OBVIOUS
<1>1. Busy = {}
  BY DEF Init, Busy, Idle
<1>2. Alive = {}
  BY DEF Init, Alive, NoPump
<1> QED BY <1>1, <1>2 DEF Init, Settled, Quiet, Held

\* What the pump does, and the end of the gateway, disturb nothing.
LEMMA SettledStutters ==
  ASSUME Settled, Alive' \subseteq Alive, running' \subseteq running,
         UNCHANGED <<subscribed, open, bot, enabled, token, savers, starts, down, overlapped, unapplied>>
  PROVE  Settled'
<1>1. Busy' = Busy
  BY DEF Busy
<1>2. Quiet => Quiet'
  BY DEF Quiet, Held
<1>3. \A s \in Busy : Stage(s) => Stage(s)'
  BY DEF Stage, Held, Silent
<1> QED BY <1>1, <1>2, <1>3 DEF Settled

\* A request goes on, or returns, alone.
LEMMA SettledGoesOn ==
  ASSUME Settled, NEW s \in Savers, savers[s].pc # "idle", overlapped' = overlapped,
         \A t \in Savers : t # s => savers'[t] = savers[t],
         savers'[s].restarts => savers[s].restarts, down' = down,
         ~overlapped /\ savers'[s].pc # "idle" /\ Busy = {s} => Stage(s)',
         ~overlapped /\ savers'[s].pc = "idle" /\ Busy = {s} => Quiet'
  PROVE  Settled'
<1> SUFFICES ASSUME ~overlapped PROVE Settled'
  BY DEF Settled
<1>1. Busy = {s}
  BY DEF Settled, Busy
<1>2. Busy' = IF savers'[s].pc = "idle" THEN {} ELSE {s}
  BY <1>1 DEF Busy
<1> QED BY <1>1, <1>2 DEF Settled

LEMMA SettledStep == TypeOK /\ Settled /\ [Next]_vars => Settled'
<1> SUFFICES ASSUME TypeOK, Settled, [Next]_vars PROVE Settled'
  OBVIOUS
<1>1. ASSUME NEW key \in Keys \cup {NoKey}, Publish(key) PROVE Settled'
  BY <1>1, SettledStutters DEF Publish, Alive, botVars
<1>2. ASSUME NEW g \in Starts, PumpStep(g) PROVE Settled'
  <2>1. g \in Alive
    BY <1>2 DEF PumpStep, Alive, PumpBegins, PumpSkips, PumpRepeats, PumpPosts, Takes,
       Posted, Refused, PostFails, PumpDies
  <2>2. \A h \in Starts : h # g => pumps'[h] = pumps[h]
    <3>1. CASE PumpBegins(g)
      BY <3>1 DEF PumpBegins, TypeOK
    <3>2. CASE PumpSkips(g) \/ PumpRepeats(g)
      BY <3>2 DEF PumpSkips, PumpRepeats
    <3>3. CASE PumpPosts(g)
      BY <3>3 DEF PumpPosts, Posting, TypeOK
    <3>4. CASE PostEnds(g)
      BY <3>4 DEF PostEnds, TypeOK
    <3>5. CASE PostFails(g)
      BY <3>4, <3>5 DEF PostFails, TryAgain, TypeOK
    <3>6. CASE PumpDies(g)
      BY <3>6 DEF PumpDies, TypeOK
    <3> QED BY <1>2, <3>1, <3>2, <3>3, <3>4, <3>5, <3>6 DEF PumpStep, Posted, Refused
  <2>3. Alive' \subseteq Alive
    BY <2>1, <2>2 DEF Alive
  <2>4. UNCHANGED <<subscribed, botVars>>
    BY <1>2 DEF PumpStep, PumpBegins, PumpSkips, PumpRepeats, PumpPosts, Takes,
       Posted, Refused, PostFails, PumpDies, busVars, botVars
  <2> QED BY <2>3, <2>4, SettledStutters DEF botVars
<1>3. ASSUME NEW g \in Starts, GatewayEnds(g) PROVE Settled'
  BY <1>3, SettledStutters DEF GatewayEnds, Alive, busVars
<1>4. ASSUME NEW a \in Starts, NEW key \in Keys, DayPasses(a, key) PROVE Settled'
  BY <1>4, SettledStutters DEF DayPasses, Alive, busVars, botVars
<1>5. ASSUME NEW s \in Savers, NEW r \in BOOLEAN, Begin(s, r), r => ~down', enabled' \in BOOLEAN
      PROVE  Settled'
  <2> SUFFICES ASSUME ~overlapped' PROVE Settled'
    BY DEF Settled
  <2>1. ~overlapped /\ Busy = {} /\ Quiet
    BY <1>5 DEF Begin, Settled
  <2>2. savers'[s] = [pc |-> "gateway", restarts |-> r, of |-> 0]
        /\ \A t \in Savers : t # s => savers'[t] = savers[t]
    BY <1>5 DEF Begin, TypeOK
  <2>3. Busy' = {s}
    BY <2>1, <2>2 DEF Busy
  <2>4. Stage(s)'
    <3>1. UNCHANGED <<bot, open, running, pumps, subscribed>>
      BY <1>5 DEF Begin, busVars
    <3>2. Alive' = Alive
      BY <3>1 DEF Alive
    <3> QED BY <2>1, <2>2, <3>1, <3>2 DEF Stage, Quiet, Held
  <2> QED BY <1>5, <2>2, <2>3, <2>4 DEF Settled
<1>6. ASSUME NEW s \in Savers, SaveSettings(s) \/ SaveToken(s) \/ ShutDown(s)
      PROVE  Settled'
  BY <1>6, <1>5 DEF SaveSettings, Reload, SaveToken, ReloadToken, ShutDown, TypeOK
<1>7. ASSUME NEW s \in Savers, SaverStep(s)
      PROVE  /\ savers[s].pc # "idle" /\ overlapped' = overlapped /\ down' = down
             /\ \A t \in Savers : t # s => savers'[t] = savers[t]
             /\ savers'[s].restarts => savers[s].restarts
             /\ ~overlapped /\ Busy = {s} => Stage(s)
  <2>1. \A pc, of : GoTo(s, pc, of) => /\ \A t \in Savers : t # s => savers'[t] = savers[t]
                                       /\ savers'[s].restarts = savers[s].restarts
    BY DEF GoTo, TypeOK, Saver
  <2>2. Return(s) => /\ \A t \in Savers : t # s => savers'[t] = savers[t]
                     /\ ~savers'[s].restarts
    BY DEF Return, Idle, TypeOK
  <2>3. GoTo(s, "gatewayTask", bot.gatewayTask) \/ GoTo(s, "pumpTask", bot.pumpTask)
        \/ GoTo(s, "closing", bot.rest) \/ GoTo(s, "url", starts')
        \/ GoTo(s, "giving up", bot.rest) \/ Return(s)
    BY <1>7 DEF SaverStep, GatewayStopped, GatewayGone, PumpGone, Closed, Asks, Answered,
       Unanswered, Disturbed, GivesUp
  <2>4. savers[s].pc # "idle" /\ overlapped' = overlapped /\ down' = down
    BY <1>7 DEF SaverStep, GatewayStopped, GatewayGone, PumpGone, Closed, Asks, Answered,
       Unanswered, Disturbed, GivesUp
  <2> QED BY <2>1, <2>2, <2>3, <2>4 DEF Settled
<1>8. ASSUME NEW s \in Savers, SaverStep(s),
             ~overlapped /\ savers'[s].pc # "idle" /\ Busy = {s} => Stage(s)',
             ~overlapped /\ savers'[s].pc = "idle" /\ Busy = {s} => Quiet'
      PROVE  Settled'
  BY <1>7, <1>8, SettledGoesOn
<1>9. ASSUME NEW s \in Savers, NEW pc, NEW of, GoTo(s, pc, of)
      PROVE  savers'[s].pc = pc /\ savers'[s].of = of /\ savers'[s].restarts = savers[s].restarts
  BY <1>9 DEF GoTo, TypeOK, Saver
<1>10. ASSUME NEW s \in Savers, Return(s) PROVE savers'[s].pc = "idle"
  BY <1>10 DEF Return, Idle, TypeOK
<1>11. pumps' = pumps => Alive' = Alive
  BY DEF Alive
<1>12. ASSUME NEW s \in Savers, GatewayStopped(s) PROVE Settled'
  <2>1. savers'[s].pc = "gatewayTask" /\ savers'[s].of = bot.gatewayTask
    BY <1>12, <1>9 DEF GatewayStopped
  <2>2. Stage(s) => Stage(s)'
    BY <1>12, <1>11, <2>1 DEF GatewayStopped, Stage, Held, busVars
  <2>3. SaverStep(s)
    BY <1>12 DEF SaverStep
  <2> QED BY <1>7, <1>8, <2>1, <2>2, <2>3
<1>13. ASSUME NEW s \in Savers, GatewayGone(s) PROVE Settled'
  <2>1. savers'[s].pc = "pumpTask" /\ savers'[s].of = bot.pumpTask
    BY <1>13, <1>9 DEF GatewayGone
  <2>2. Alive' = Alive
    BY <1>13 DEF GatewayGone, Cancelled, Alive, TypeOK, Pump
  <2>3. /\ bot'.pumpTask = bot.pumpTask /\ bot'.queue = bot.queue /\ bot'.rest = bot.rest
        /\ savers[s].of = bot.gatewayTask => bot'.gatewayTask = 0
        /\ UNCHANGED <<running, subscribed, open>>
    BY <1>13 DEF GatewayGone, TypeOK, Bot, busVars
  <2>4. Stage(s) => Stage(s)'
    BY <1>13, <2>1, <2>2, <2>3 DEF GatewayGone, Stage, Held
  <2>5. SaverStep(s)
    BY <1>13 DEF SaverStep
  <2> QED BY <1>7, <1>8, <2>1, <2>4, <2>5
<1>14. ASSUME NEW s \in Savers, PumpGone(s) PROVE Settled'
  <2>1. savers'[s].pc = "closing" /\ savers'[s].of = bot.rest
    BY <1>14, <1>9 DEF PumpGone
  <2>2. Alive' = Alive
    BY <1>14, <1>11 DEF PumpGone
  <2>3. /\ bot'.gatewayTask = bot.gatewayTask /\ bot'.queue = 0 /\ bot'.rest = bot.rest
        /\ savers[s].of = bot.pumpTask => bot'.pumpTask = 0
        /\ running' = running
        /\ subscribed' = subscribed \ {bot.queue} /\ open' = open \ {bot.rest}
    BY <1>14 DEF PumpGone, TypeOK, Bot
  <2>4. Stage(s) => Stage(s)'
    BY <1>14, <2>1, <2>2, <2>3 DEF PumpGone, PumpIsOver, Stage, Held, Silent
  <2>5. SaverStep(s)
    BY <1>14 DEF SaverStep
  <2> QED BY <1>7, <1>8, <2>1, <2>4, <2>5
<1>15. ASSUME NEW s \in Savers, Closed(s) PROVE Settled'
  <2>1. savers'[s].pc = "idle" /\ pumps' = pumps /\ UNCHANGED <<running, subscribed, open>>
    BY <1>15, <1>10 DEF Closed, busVars
  <2>2. Stage(s) => /\ bot'.gatewayTask = 0 /\ bot'.pumpTask = 0 /\ bot'.queue = 0
                    /\ bot'.rest = 0 /\ bot'.gateway = 0 /\ bot'.announcer = 0
    BY <1>15 DEF Closed, Cleared, Stage, Silent, TypeOK, Bot
  <2>3. bot' \in Bot
    BY TypeStep DEF TypeOK
  <2>4. Stage(s) => \A part \in DOMAIN bot' : bot'[part] = 0
    BY <2>2, <2>3 DEF Bot
  <2>5. Stage(s) => Quiet'
    BY <1>15, <1>11, <2>1, <2>2, <2>4 DEF Closed, Stage, Silent, Quiet, Held
  <2>6. SaverStep(s)
    BY <1>15 DEF SaverStep
  <2> QED BY <1>7, <1>8, <2>1, <2>5, <2>6
<1>16. ASSUME NEW s \in Savers, Asks(s) PROVE Settled'
  <2>1. savers'[s].pc = "url" /\ savers'[s].of = starts' /\ pumps' = pumps
    BY <1>16, <1>9 DEF Asks
  <2>2. /\ bot'.rest = starts' /\ bot'.gateway = 0
        /\ bot'.gatewayTask = bot.gatewayTask /\ bot'.pumpTask = bot.pumpTask
        /\ bot'.queue = bot.queue
    BY <1>16 DEF Asks, Cleared, TypeOK, Bot
  <2>3. SaverStep(s)
    BY <1>16 DEF SaverStep
  <2>4. ~overlapped /\ Busy = {s} => Stage(s) /\ ~down
    BY <1>16 DEF Asks, Settled
  <2>5. ~overlapped /\ Busy = {s} => Stage(s)'
    BY <1>16, <1>11, <2>1, <2>2, <2>4 DEF Asks, Stage, Silent, busVars
  <2> QED BY <1>8, <2>1, <2>3, <2>5
<1>17. ASSUME NEW s \in Savers, Answered(s) PROVE Settled'
  <2>1. savers'[s].pc = "idle"
    BY <1>17, <1>10 DEF Answered
  <2> DEFINE g == savers[s].of
  <2>2. g \in Starts
    BY <1>17, Parts, Constants DEF Answered, TypeOK, Saver
  <2>3. /\ bot'.gateway = g /\ bot'.queue = g /\ bot'.pumpTask = g /\ bot'.gatewayTask = g
        /\ bot'.rest = bot.rest
        /\ subscribed' = subscribed \cup {g} /\ running' = running \cup {g} /\ open' = open
        /\ enabled' = enabled /\ unapplied' = unapplied /\ token' = token /\ down' = down
    BY <1>17 DEF Answered, TypeOK, Bot
  <2>4. \A h \in Starts : h # g => pumps'[h] = pumps[h]
    BY <1>17 DEF Answered, TypeOK
  <2>5. Alive' \subseteq Alive \cup {g}
    BY <2>4 DEF Alive
  <2>6. Stage(s) => Quiet'
    BY <1>17, <2>2, <2>3, <2>5, Constants DEF Answered, Stage, Silent, Quiet, Held
  <2>7. SaverStep(s)
    BY <1>17 DEF SaverStep
  <2> QED BY <1>7, <1>8, <2>1, <2>6, <2>7
<1>18. ASSUME NEW s \in Savers, Unanswered(s) PROVE Settled'
  <2>1. savers'[s].pc = "giving up" /\ savers'[s].of = bot.rest
    BY <1>18, <1>9 DEF Unanswered
  <2>2. Stage(s) => Stage(s)'
    BY <1>18, <1>11, <2>1 DEF Unanswered, Stage, Silent, busVars
  <2>3. SaverStep(s)
    BY <1>18 DEF SaverStep
  <2> QED BY <1>7, <1>8, <2>1, <2>2, <2>3
<1>19. ASSUME NEW s \in Savers, Disturbed(s) PROVE Settled'
  <2>1. ~Stage(s)
    BY <1>19 DEF Disturbed, Stage
  <2>2. SaverStep(s)
    BY <1>19 DEF SaverStep
  <2> QED BY <1>7, <1>8, <2>1, <2>2
<1>20. ASSUME NEW s \in Savers, GivesUp(s) PROVE Settled'
  <2>1. savers'[s].pc = "idle" /\ pumps' = pumps
        /\ UNCHANGED <<running, subscribed, open, enabled, unapplied, token, down>>
    BY <1>20, <1>10 DEF GivesUp, busVars
  <2>2. /\ bot'.gatewayTask = bot.gatewayTask /\ bot'.pumpTask = bot.pumpTask
        /\ bot'.queue = bot.queue
        /\ savers[s].of = bot.rest => bot'.rest = 0
    BY <1>20 DEF GivesUp, TypeOK, Bot
  <2>3. Stage(s) => Quiet'
    <3> SUFFICES ASSUME Stage(s) PROVE Quiet'
      OBVIOUS
    <3>1. savers[s].of = bot.rest /\ Silent /\ open = {} /\ (enabled \/ unapplied) /\ token /\ ~down
      BY <1>20 DEF GivesUp, Stage
    <3>2. running' = {} /\ Alive' = {} /\ subscribed' = {} /\ open' = {} /\ (enabled' \/ unapplied') /\ token' /\ ~down'
      BY <1>11, <2>1, <3>1 DEF Silent
    <3>3. bot'.queue = 0 /\ bot'.rest = 0
      BY <2>2, <3>1 DEF Silent
    <3> QED BY <3>2, <3>3 DEF Quiet, Held
  <2>4. SaverStep(s)
    BY <1>20 DEF SaverStep
  <2> QED BY <1>7, <1>8, <2>1, <2>3, <2>4
<1>21. ASSUME NEW on \in BOOLEAN, ReloadFails(on) PROVE Settled'
  <2>1. Busy' = Busy /\ Alive' = Alive /\ savers' = savers
    BY <1>21 DEF ReloadFails, Busy, Alive
  <2>2. UNCHANGED <<running, subscribed, open, bot, token, down, overlapped>> /\ unapplied'
    BY <1>21 DEF ReloadFails, busVars
  <2>3. Quiet => Quiet'
    BY <2>1, <2>2 DEF Quiet, Held
  <2>4. \A s \in Busy : Stage(s) => Stage(s)'
    BY <2>1, <2>2 DEF Stage, Held, Silent
  <2> QED BY <2>1, <2>2, <2>3, <2>4 DEF Settled
<1>22. CASE UNCHANGED vars
  BY <1>22, SettledStutters DEF vars, Alive, busVars, botVars
<1> QED
  BY <1>1, <1>2, <1>3, <1>4, <1>6, <1>12, <1>13, <1>14, <1>15, <1>16, <1>17, <1>18, <1>19, <1>20,
     <1>21, <1>22 DEF Next, SaverStep

THEOREM NothingForgottenHolds == Spec => []NothingForgotten
<1>1. Init => TypeOK /\ Settled
  BY InitType, InitSettled
<1>2. (TypeOK /\ Settled) /\ [Next]_vars => (TypeOK /\ Settled)'
  BY TypeStep, SettledStep
<1>3. Settled => NothingForgotten
  BY DEF Settled, NothingForgotten, Quiet, Held
<1> QED BY <1>1, <1>2, <1>3, PTL DEF Spec

-----------------------------------------------------------------------------
(***************************************************************************)
(* What arrives is in order                                                *)
(***************************************************************************)

\* The queue q holds the latest events, one after the other.
Block(q) == \A k \in 1..Len(q) : q[k] = Len(events) - Len(q) + k

\* What a start to come will use has not been used.
Fresh ==
  /\ bot.queue <= starts
  /\ \A s \in Savers : savers[s].pc = "url" =>
       savers[s].of <= starts /\ queues[savers[s].of] = <<>>
  /\ \A g \in Starts : g > starts => queues[g] = <<>>

\* The pump holds nothing older than what has arrived, its queue nothing older
\* than what the pump holds.
Behind(g) ==
  LET n == pumps[g].event
      state == pumps[g].state
  IN /\ bot.queue # 0
     /\ n # 0 => latest <= n /\ n <= Len(events) - Len(queues[bot.queue])
     /\ state = "posting" => n # 0
     /\ state \in {"new", "idle"} => n = 0
     /\ state \in {"idle", "posting"} => pumps[g].reads = bot.queue

Ordered ==
  ~overlapped =>
    /\ latest <= Len(events)
    /\ bot.queue # 0 =>
         Block(queues[bot.queue]) /\ latest <= Len(events) - Len(queues[bot.queue])
    /\ \A g \in Alive : Behind(g)
    /\ Fresh

LEMMA OneOfEach ==
  ASSUME TypeOK, Settled, ~overlapped
  PROVE  /\ subscribed = {bot.queue} \ {0}
         /\ \A g, h \in Alive : g = h
         /\ \A s \in Savers : savers[s].pc = "url" => bot.queue = 0 /\ Alive = {}
<1>1. CASE Busy = {}
  BY <1>1 DEF Settled, Quiet, Held, Busy
<1>2. ASSUME NEW s \in Busy
      PROVE  /\ subscribed = {bot.queue} \ {0}
             /\ \A g, h \in Alive : g = h
             /\ savers[s].pc = "url" => bot.queue = 0 /\ Alive = {}
  <2>1. Stage(s) /\ savers[s].pc # "idle"
    BY DEF Settled, Busy
  <2>2. CASE savers[s].pc \in {"gateway", "gatewayTask", "pumpTask"}
    BY <2>1, <2>2 DEF Stage, Held
  <2>3. CASE savers[s].pc \in {"closing", "url", "giving up"}
    BY <2>1, <2>3 DEF Stage, Silent
  <2>4. savers[s].pc \in Places
    BY DEF TypeOK, Saver, Busy
  <2> QED BY <2>1, <2>2, <2>3, <2>4 DEF Places
<1> QED BY <1>1, <1>2 DEF Busy

LEMMA PutBlock ==
  ASSUME TypeOK, NEW key \in Keys \cup {NoKey}, Publish(key),
         NEW g \in Starts, g \in subscribed, Block(queues[g])
  PROVE  /\ Block(queues[g])'
         /\ Len(events') - Len(queues'[g]) >= Len(events) - Len(queues[g])
  <1> DEFINE q == queues[g]
             n == Len(events) + 1
  <1>1. q \in Seq(1..MaxEvents) /\ Len(q) <= QueueLimit /\ Len(events) \in Nat
    BY DEF TypeOK
  <1>2. Len(events') = n /\ n \in 1..MaxEvents
    <2>1. events \in Seq(Keys \cup {NoKey}) /\ key \in Keys \cup {NoKey}
      BY DEF TypeOK
    <2>2. events' = Append(events, key) /\ Len(events) < MaxEvents
      BY DEF Publish
    <2> QED BY <1>1, <2>1, <2>2, Constants
  <1>3. queues'[g] = Put(q, n)
    BY DEF Publish
  <1>4. \A k \in 1..Len(q) : q[k] = Len(events) - Len(q) + k
    BY DEF Block
  <1>7. ASSUME NEW p, Put(q, n) = p, Len(p) \in Nat, Len(p) <= Len(q) + 1,
               \A k \in 1..Len(p) : p[k] = n - Len(p) + k
        PROVE  /\ Block(queues[g])'
               /\ Len(events') - Len(queues'[g]) >= Len(events) - Len(queues[g])
    <2>1. queues'[g] = p /\ Len(events') = n
      BY <1>2, <1>3, <1>7
    <2>2. Block(queues[g])'
      BY <2>1, <1>7 DEF Block
    <2>3. Len(q) \in Nat
      BY <1>1
    <2>4. Len(events') - Len(p) >= Len(events) - Len(q)
      <3>1. \A i, j, k \in Nat : k <= j + 1 => (i + 1) - k >= i - j
        OBVIOUS
      <3>2. (Len(events) + 1) - Len(p) >= Len(events) - Len(q)
        BY <3>1, <2>3, <1>1, <1>7
      <3> QED BY <3>2, <2>1
    <2>5. Len(events') - Len(queues'[g]) >= Len(events) - Len(queues[g])
      BY <2>1, <2>4
    <2> QED BY <2>2, <2>5
  <1> HIDE DEF q, n
  <1>5. CASE Len(q) < QueueLimit
    <2>1. Put(q, n) = Append(q, n)
      BY <1>5 DEF Put
    <2>2. Len(Append(q, n)) = Len(q) + 1
      BY <1>1, <1>2
    <2>3. \A k \in 1..Len(q) : Append(q, n)[k] = q[k]
      BY <1>1, <1>2
    <2>4. Append(q, n)[Len(q) + 1] = n
      BY <1>1, <1>2
    <2>5. \A k \in 1..(Len(q) + 1) : Append(q, n)[k] = n - (Len(q) + 1) + k
      BY <2>3, <2>4, <1>1, <1>4 DEF n
    <2> QED BY <1>1, <1>7, <2>1, <2>2, <2>5
  <1>6. CASE ~(Len(q) < QueueLimit)
    <2> DEFINE r == Tail(q)
    <2>1. q # <<>> /\ Len(q) >= 1
      BY <1>1, <1>6, Constants
    <2>2. r \in Seq(1..MaxEvents) /\ Len(r) = Len(q) - 1 /\ \A k \in 1..Len(r) : r[k] = q[k + 1]
      BY <1>1, <2>1
    <2> HIDE DEF r
    <2>3. Put(q, n) = Append(r, n)
      BY <1>6 DEF Put, r
    <2>4. Len(Append(r, n)) = Len(q)
      BY <1>1, <1>2, <2>2
    <2>5. \A k \in 1..Len(r) : Append(r, n)[k] = r[k]
      BY <1>2, <2>2
    <2>6. Append(r, n)[Len(r) + 1] = n
      BY <1>2, <2>2
    <2>7. \A k \in 1..Len(q) : Append(r, n)[k] = n - Len(q) + k
      <3> SUFFICES ASSUME NEW k \in 1..Len(q) PROVE Append(r, n)[k] = n - Len(q) + k
        OBVIOUS
      <3>1. CASE k = Len(q)
        BY <3>1, <2>2, <2>6, <1>1, <1>2
      <3>2. CASE k # Len(q)
        <4>1. k \in 1..Len(r) /\ k + 1 \in 1..Len(q)
          BY <3>2, <2>2, <1>1
        <4>2. q[k + 1] = Len(events) - Len(q) + (k + 1)
          BY <4>1, <1>4
        <4> QED BY <4>1, <4>2, <2>2, <2>5, <1>1 DEF n
      <3> QED BY <3>1, <3>2
    <2> QED BY <1>1, <1>7, <2>3, <2>4, <2>7
  <1> QED BY <1>5, <1>6

LEMMA TakeBlock ==
  ASSUME TypeOK, NEW g \in Starts, NEW n \in Numbers, Takes(g, n), bot.queue # 0,
         pumps[g].reads = bot.queue, Block(queues[bot.queue])
  PROVE  /\ Block(queues[bot.queue])'
         /\ n = Len(events) - Len(queues[bot.queue]) + 1
         /\ Len(queues'[bot.queue]) = Len(queues[bot.queue]) - 1
         /\ Len(queues[bot.queue]) \in Nat
         /\ \A h \in Starts : queues[h] = <<>> => queues'[h] = <<>>
  <1> DEFINE q == queues[bot.queue]
             r == Tail(q)
  <1>0. bot.queue \in Starts
    BY Parts, Constants
  <1>1. q \in Seq(1..MaxEvents) /\ q # <<>> /\ Len(events) \in Nat /\ n = Head(q)
    BY <1>0 DEF TypeOK, Takes
  <1>2. queues' = [queues EXCEPT ![bot.queue] = Tail(@)] /\ events' = events
        /\ bot'.queue = bot.queue
    BY DEF Takes, botVars
  <1>3. queues'[bot.queue] = r
    BY <1>0, <1>2 DEF TypeOK
  <1>4. \A k \in 1..Len(q) : q[k] = Len(events) - Len(q) + k
    BY DEF Block
  <1>5. \A h \in Starts : queues[h] = <<>> => queues'[h] = <<>>
    BY <1>0, <1>1, <1>2 DEF TypeOK
  <1>6. Len(q) \in Nat /\ Len(q) >= 1 /\ Head(q) = q[1]
    BY <1>1
  <1>7. Len(r) = Len(q) - 1 /\ \A k \in 1..Len(r) : r[k] = q[k + 1]
    BY <1>1
  <1> HIDE DEF q, r
  <1>8. n = Len(events) - Len(q) + 1
    BY <1>1, <1>4, <1>6
  <1>9. \A k \in 1..Len(r) : r[k] = Len(events) - Len(r) + k
    <2> SUFFICES ASSUME NEW k \in 1..Len(r) PROVE r[k] = Len(events) - Len(r) + k
      OBVIOUS
    <2>1. k + 1 \in 1..Len(q)
      BY <1>6, <1>7
    <2>2. q[k + 1] = Len(events) - Len(q) + (k + 1)
      BY <2>1, <1>4
    <2> QED BY <2>2, <1>1, <1>6, <1>7
  <1> QED BY <1>2, <1>3, <1>5, <1>6, <1>7, <1>8, <1>9 DEF Block, q

\* Nothing that matters for the order changes.
LEMMA OrderedStutters ==
  ASSUME Ordered, overlapped => overlapped',
         UNCHANGED <<events, queues, pumps, latest, starts>>, bot'.queue = bot.queue,
         \A s \in Savers : savers'[s].pc = "url" => savers'[s] = savers[s]
  PROVE  Ordered'
<1>1. Alive' = Alive
  BY DEF Alive
<1>2. \A g \in Starts : Behind(g) => Behind(g)'
  BY DEF Behind
<1>3. Fresh => Fresh'
  BY DEF Fresh
<1>4. bot.queue # 0 /\ Block(queues[bot.queue]) => Block(queues[bot.queue])'
  BY DEF Block
<1> QED BY <1>1, <1>2, <1>3, <1>4 DEF Ordered, Alive

\* What the one pump has in hand is a number of an announcement, or none.
LEMMA HeldEvent ==
  ASSUME TypeOK, NEW g \in Alive
  PROVE  pumps[g].event \in Nat
<1>1. g \in Starts
  BY DEF Alive
<1>2. pumps[g] \in Pump
  BY <1>1, Parts
<1>3. pumps[g].event \in 0..MaxEvents
  BY <1>2, Zenon DEF Pump
<1> QED BY <1>3, Constants

\* What a pump is sending may arrive, and nothing later has.
LEMMA ArrivesInOrder ==
  ASSUME TypeOK, Ordered, ~overlapped, NEW g \in Alive,
         UNCHANGED latest \/ (pumps[g].event # 0 /\ Arrives(g))
  PROVE  /\ latest' >= latest
         /\ latest' <= Len(events) - Len(queues[bot.queue])
         /\ pumps[g].event # 0 => latest' <= pumps[g].event
<1>1. Behind(g) /\ latest \in Nat /\ bot.queue # 0
  BY Constants DEF Ordered, TypeOK, Behind
<1>2. pumps[g].event \in Nat
  BY HeldEvent
<1>3. latest <= Len(events) - Len(queues[bot.queue])
  BY <1>1 DEF Ordered
<1> QED BY <1>1, <1>2, <1>3 DEF Behind, Arrives

\* A step of the one pump.
LEMMA OrderedPump ==
  ASSUME TypeOK, Settled, Ordered, ~overlapped, NEW g \in Alive,
         UNCHANGED <<events, queues, botVars>>,
         UNCHANGED latest \/ (pumps[g].event # 0 /\ Arrives(g)),
         \A h \in Starts : h # g => pumps'[h] = pumps[h],
         g \in Alive' => Behind(g)'
  PROVE  Ordered'
<1>1. /\ latest' >= latest
      /\ latest' <= Len(events) - Len(queues[bot.queue])
  BY ArrivesInOrder
<1>2. bot.queue # 0 /\ bot.queue \in Starts
  BY Parts, Constants DEF Ordered, Behind
<1>3. Len(queues[bot.queue]) \in Nat /\ Len(events) \in Nat /\ latest' \in Int
  <2>1. latest \in Int /\ pumps[g].event \in Int
    <3>1. latest \in Int
      BY Constants DEF TypeOK
    <3>2. pumps[g].event \in Int
      BY HeldEvent
    <3> QED BY <3>1, <3>2
  <2>2. queues[bot.queue] \in Seq(1..MaxEvents) /\ events \in Seq(Keys \cup {NoKey})
    BY <1>2 DEF TypeOK
  <2> QED BY <2>1, <2>2 DEF Arrives
<1>4. latest' <= Len(events)
  BY <1>1, <1>3
<1>5. Alive' \subseteq {g}
  BY OneOfEach DEF Alive
<1>6. Block(queues[bot.queue])'
  BY <1>2 DEF Ordered, Block, botVars
<1>7. Fresh'
  BY DEF Ordered, Fresh, botVars
<1> QED BY <1>1, <1>4, <1>5, <1>6, <1>7 DEF Ordered, botVars

\* A pump that takes an event holds what comes before the rest of its queue.
LEMMA OrderedTake ==
  ASSUME TypeOK, Settled, Ordered, ~overlapped, NEW g \in Starts, NEW n \in Numbers,
         Takes(g, n), UNCHANGED latest, pumps' = pumps \/ Posting(g, n)
  PROVE  Ordered'
<1>1. g \in Alive /\ pumps[g].state = "idle"
  BY DEF Takes, Alive
<1>2. Behind(g)
  BY <1>1 DEF Ordered
<1>3. bot.queue # 0 /\ pumps[g].reads = bot.queue /\ bot.queue \in Starts
  BY <1>1, <1>2, Parts, Constants DEF Behind
<1> DEFINE q == queues[bot.queue]
<1>4. Block(q) /\ latest <= Len(events) - Len(q)
  BY <1>3 DEF Ordered
<1>5. /\ Block(q)'
      /\ n = Len(events) - Len(q) + 1
      /\ Len(q') = Len(q) - 1
      /\ Len(q) \in Nat
      /\ \A h \in Starts : queues[h] = <<>> => queues'[h] = <<>>
  <2>1. bot' = bot
    BY DEF Takes, botVars
  <2> QED BY <1>3, <1>4, <2>1, TakeBlock
<1>6. Len(events) \in Nat /\ latest \in Nat /\ n \in Nat
  BY Constants DEF TypeOK, Numbers
<1>7. UNCHANGED <<events, bot, savers, starts>>
  BY DEF Takes, botVars
<1>8. latest' <= Len(events') - Len(q')
  <2>1. latest' = latest /\ Len(events') = Len(events)
    BY <1>7
  <2> HIDE DEF q
  <2> QED BY <1>4, <1>5, <1>6, <2>1
<1>9. Alive' \subseteq {g}
  <2>1. \A h \in Starts : h # g => pumps'[h] = pumps[h]
    BY DEF Posting, TypeOK
  <2> QED BY <2>1, <1>1, OneOfEach DEF Alive
<1>10. Behind(g)'
  <2>1. CASE pumps' = pumps
    BY <2>1, <1>1, <1>2, <1>7 DEF Behind
  <2>2. CASE Posting(g, n)
    <3>1. pumps'[g] = [pumps[g] EXCEPT !.state = "posting", !.by = bot.announcer, !.event = n]
      BY <2>2 DEF Posting, TypeOK
    <3>2. pumps'[g].state = "posting" /\ pumps'[g].event = n /\ pumps'[g].reads = bot.queue
      BY <3>1, <1>3, Parts DEF Pump
    <3>3. latest' <= n /\ n <= Len(events') - Len(q') /\ n # 0
      BY <1>4, <1>5, <1>6, <1>7 DEF Numbers
    <3> QED BY <3>2, <3>3, <1>3, <1>7 DEF Behind
  <2> QED BY <2>1, <2>2
<1>11. Fresh'
  <2>1. \A s \in Savers : savers[s].pc = "url" => savers[s].of \in Starts
    BY Parts, Constants DEF TypeOK, Saver
  <2>2. Fresh
    BY DEF Ordered
  <2> QED BY <2>1, <2>2, <1>5, <1>7 DEF Fresh
<1>12. latest' <= Len(events')
  BY <1>6, <1>7 DEF Ordered
<1> QED BY <1>5, <1>7, <1>8, <1>9, <1>10, <1>11, <1>12 DEF Ordered

LEMMA InitOrdered == Init => Ordered
<1> SUFFICES ASSUME Init PROVE Ordered
  OBVIOUS
<1>1. Alive = {}
  BY DEF Init, Alive, NoPump
<1>2. Fresh
  BY Constants DEF Init, Fresh, Idle
<1>3. latest <= Len(events) /\ bot.queue = 0
  BY DEF Init
<1> QED BY <1>1, <1>2, <1>3 DEF Ordered

LEMMA OrderedStep == TypeOK /\ Settled /\ Ordered /\ [Next]_vars => Ordered'
<1> SUFFICES ASSUME TypeOK, Settled, Ordered, [Next]_vars, ~overlapped' PROVE Ordered'
  BY DEF Ordered
<1> USE DEF busVars, postVars, botVars
<1>1. ASSUME NEW key \in Keys \cup {NoKey}, Publish(key) PROVE Ordered'
  <2>1. ~overlapped
    BY <1>1 DEF Publish
  <2>2. UNCHANGED <<pumps, latest, bot, savers, starts>>
    BY <1>1 DEF Publish
  <2>3. subscribed = {bot.queue} \ {0}
    BY <2>1, OneOfEach
  <2>4. \A g \in Starts : g # bot.queue => queues'[g] = queues[g]
    BY <1>1, <2>3 DEF Publish
  <2>5. bot.queue # 0 => /\ bot.queue \in Starts /\ bot.queue \in subscribed
                         /\ Block(queues[bot.queue])
                         /\ latest <= Len(events) - Len(queues[bot.queue])
    BY <2>1, <2>3, Parts, Constants DEF Ordered
  <2>6. bot.queue # 0 =>
          /\ Block(queues[bot.queue])'
          /\ Len(events') - Len(queues'[bot.queue]) >= Len(events) - Len(queues[bot.queue])
    <3> SUFFICES ASSUME bot.queue # 0
                 PROVE  /\ Block(queues[bot.queue])'
                        /\ Len(events') - Len(queues'[bot.queue])
                             >= Len(events) - Len(queues[bot.queue])
      OBVIOUS
    <3> DEFINE g == bot.queue
    <3>1. g \in Starts /\ g \in subscribed /\ Block(queues[g])
      BY <2>5
    <3> HIDE DEF g
    <3>2. /\ \A k \in 1..Len(queues'[g]) :
               queues'[g][k] = Len(events') - Len(queues'[g]) + k
          /\ Len(events') - Len(queues'[g]) >= Len(events) - Len(queues[g])
      BY <3>1, <1>1, PutBlock DEF Block
    <3> QED BY <3>2, <2>2 DEF g, Block
  <2>7. Len(events') = Len(events) + 1 /\ Len(events) \in Nat /\ latest \in Nat
    <3>1. events \in Seq(Keys \cup {NoKey}) /\ latest \in Nat
      BY Constants DEF TypeOK
    <3>2. events' = Append(events, key)
      BY <1>1 DEF Publish
    <3> QED BY <3>1, <3>2
  <2>8. bot.queue # 0 => Len(queues[bot.queue]) \in Nat /\ Len(queues'[bot.queue]) \in Nat
    BY <2>5, TypeStep DEF TypeOK
  <2>9. \A g \in Alive : Behind(g)'
    <3> SUFFICES ASSUME NEW g \in Alive PROVE Behind(g)'
      OBVIOUS
    <3>1. Behind(g) /\ pumps[g].event \in Nat
      BY <2>1, HeldEvent DEF Ordered
    <3>2. pumps[g].event <= Len(events) - Len(queues[bot.queue])
            => pumps[g].event <= Len(events') - Len(queues'[bot.queue])
      <4>1. bot.queue # 0
        BY <3>1 DEF Behind
      <4>2. /\ Len(events) \in Nat /\ Len(events') \in Nat
            /\ Len(queues[bot.queue]) \in Nat /\ Len(queues'[bot.queue]) \in Nat
            /\ Len(events') - Len(queues'[bot.queue]) >= Len(events) - Len(queues[bot.queue])
        <5>1. Len(events) \in Nat /\ Len(events') \in Nat
          BY <2>7
        <5> QED BY <4>1, <5>1, <2>6, <2>8
      <4> QED BY <3>1, <4>2
    <3> QED BY <3>1, <3>2, <2>2 DEF Behind
  <2>10. Alive' = Alive
    BY <2>2 DEF Alive
  <2>11. Fresh'
    <3>1. Fresh
      BY <2>1 DEF Ordered
    <3>2. \A s \in Savers : savers[s].pc = "url" => savers[s].of \in Starts /\ bot.queue = 0
      BY <2>1, OneOfEach, Parts, Constants DEF TypeOK, Saver
    <3>3. \A g \in Starts : g > starts => g # bot.queue
      BY <3>1, Constants, Parts DEF Fresh, TypeOK, Start0
    <3> QED BY <3>1, <3>2, <3>3, <2>2, <2>4, Constants DEF Fresh
  <2>12. latest' <= Len(events')
    BY <2>1, <2>2, <2>7 DEF Ordered
  <2>13. bot.queue # 0 => latest' <= Len(events') - Len(queues'[bot.queue])
    <3> SUFFICES ASSUME bot.queue # 0
                 PROVE  latest <= Len(events') - Len(queues'[bot.queue])
      BY <2>2
    <3>1. /\ latest <= Len(events) - Len(queues[bot.queue])
          /\ Len(events') - Len(queues'[bot.queue]) >= Len(events) - Len(queues[bot.queue])
      BY <2>5, <2>6
    <3>2. /\ Len(events) \in Nat /\ Len(events') \in Nat /\ latest \in Nat
          /\ Len(queues[bot.queue]) \in Nat /\ Len(queues'[bot.queue]) \in Nat
      BY <2>7, <2>8
    <3> QED BY <3>1, <3>2
  <2> QED BY <2>2, <2>6, <2>9, <2>10, <2>11, <2>12, <2>13 DEF Ordered, Block
<1>2. ASSUME NEW g \in Starts, PumpBegins(g) PROVE Ordered'
  <2>1. g \in Alive /\ ~overlapped
    BY <1>2 DEF PumpBegins, Alive
  <2>2. Behind(g)
    BY <2>1 DEF Ordered
  <2>3. pumps'[g] = [pumps[g] EXCEPT !.state = "idle", !.reads = bot.queue]
    BY <1>2, <2>2 DEF PumpBegins, TypeOK, Behind
  <2>4. Behind(g)'
    BY <1>2, <2>2, <2>3, Parts DEF PumpBegins, Behind, Pump
  <2>5. \A h \in Starts : h # g => pumps'[h] = pumps[h]
    BY <1>2 DEF PumpBegins, TypeOK
  <2> QED BY <1>2, <2>1, <2>4, <2>5, OrderedPump DEF PumpBegins
<1>3. ASSUME NEW g \in Starts, PumpSkips(g) \/ PumpRepeats(g) \/ PumpPosts(g) PROVE Ordered'
  <2>1. PICK n \in Numbers :
          Takes(g, n) /\ UNCHANGED latest /\ (pumps' = pumps \/ Posting(g, n))
    BY <1>3 DEF PumpSkips, PumpRepeats, PumpPosts
  <2>2. ~overlapped
    BY <2>1 DEF Takes
  <2> QED BY <2>1, <2>2, OrderedTake
<1>4. ASSUME NEW g \in Starts, PostEnds(g), pumps[g].state = "posting",
             UNCHANGED <<busVars, botVars>>, UNCHANGED latest \/ Arrives(g)
      PROVE  Ordered'
  <2>1. g \in Alive /\ ~overlapped
    BY <1>4 DEF Alive
  <2>2. Behind(g)
    BY <2>1 DEF Ordered
  <2>3. pumps'[g] = [pumps[g] EXCEPT !.state = "idle", !.by = 0, !.event = 0, !.tries = 0]
    BY <1>4 DEF PostEnds, TypeOK
  <2>4. Behind(g)'
    BY <1>4, <2>2, <2>3, Parts DEF Behind, Pump
  <2>5. \A h \in Starts : h # g => pumps'[h] = pumps[h]
    BY <1>4 DEF PostEnds, TypeOK
  <2>6. pumps[g].event # 0
    BY <1>4, <2>2 DEF Behind
  <2> QED BY <1>4, <2>1, <2>4, <2>5, <2>6, OrderedPump
<1>5. ASSUME NEW g \in Starts, Posted(g) \/ Refused(g) PROVE Ordered'
  BY <1>4, <1>5 DEF Posted, Refused
<1>6. ASSUME NEW g \in Starts, PostFails(g) PROVE Ordered'
  <2>1. CASE PostEnds(g)
    BY <1>4, <1>6, <2>1 DEF PostFails
  <2>2. CASE pumps' = [pumps EXCEPT ![g].tries = @ + 1]
    <3>1. g \in Alive /\ ~overlapped
      BY <1>6 DEF PostFails, Alive
    <3>2. Behind(g)
      BY <3>1 DEF Ordered
    <3>3. pumps'[g] = [pumps[g] EXCEPT !.tries = @ + 1]
      BY <2>2 DEF TypeOK
    <3>4. /\ pumps'[g].event = pumps[g].event /\ pumps'[g].state = pumps[g].state
          /\ pumps'[g].reads = pumps[g].reads
      BY <3>3, Parts DEF Pump
    <3>5. pumps[g].event # 0
      BY <1>6, <3>2 DEF PostFails, Behind
    <3>6. UNCHANGED latest \/ Arrives(g)
      BY <1>6 DEF PostFails
    <3>7. latest' <= pumps[g].event
      BY <3>1, <3>5, <3>6, ArrivesInOrder
    <3>8. Behind(g)'
      BY <1>6, <3>2, <3>4, <3>7 DEF PostFails, Behind
    <3>9. \A h \in Starts : h # g => pumps'[h] = pumps[h]
      BY <2>2 DEF TypeOK
    <3> QED BY <1>6, <3>1, <3>5, <3>6, <3>8, <3>9, OrderedPump DEF PostFails
  <2> QED BY <1>6, <2>1, <2>2 DEF PostFails, TryAgain
<1>7. ASSUME NEW g \in Starts, PumpDies(g) PROVE Ordered'
  <2>1. g \in Alive /\ ~overlapped
    BY <1>7 DEF PumpDies, Alive
  <2>2. pumps'[g].state = "ended"
    BY <1>7 DEF PumpDies, TypeOK, NoPump
  <2>3. g \notin Alive'
    BY <2>2 DEF Alive
  <2>4. \A h \in Starts : h # g => pumps'[h] = pumps[h]
    BY <1>7 DEF PumpDies, TypeOK
  <2> QED BY <1>7, <2>1, <2>3, <2>4, OrderedPump DEF PumpDies
<1>8. ASSUME NEW s \in Savers, GatewayGone(s) PROVE Ordered'
  <2>1. ~overlapped
    BY <1>8 DEF GatewayGone
  <2>2. bot'.queue = bot.queue
    BY <1>8 DEF GatewayGone, TypeOK, Bot
  <2>3. \A g \in Starts : /\ pumps'[g].event = pumps[g].event
                          /\ pumps'[g].reads = pumps[g].reads
                          /\ pumps'[g].state \in {pumps[g].state, "cancelled"}
                          /\ g \notin Alive => pumps'[g] = pumps[g]
    <3>1. CASE bot.pumpTask \in Alive
      <4>1. pumps' = [pumps EXCEPT ![bot.pumpTask].state = "cancelled"]
        BY <1>8, <3>1 DEF GatewayGone, Cancelled
      <4> QED BY <4>1, <3>1, Parts DEF TypeOK, Pump, Alive
    <3>2. CASE bot.pumpTask \notin Alive
      BY <1>8, <3>2 DEF GatewayGone, Cancelled
    <3> QED BY <3>1, <3>2
  <2>4. Alive' \subseteq Alive
    BY <2>3 DEF Alive
  <2>5. \A g \in Alive : Behind(g)'
    <3> SUFFICES ASSUME NEW g \in Alive PROVE Behind(g)'
      OBVIOUS
    <3>1. Behind(g)
      BY <2>1 DEF Ordered
    <3> QED BY <1>8, <2>2, <2>3, <3>1 DEF GatewayGone, Behind, Alive
  <2>6. \A t \in Savers : savers'[t].pc = "url" => savers'[t] = savers[t]
    BY <1>8, Parts DEF GatewayGone, GoTo, Saver, TypeOK
  <2>7. Fresh'
    BY <1>8, <2>1, <2>2, <2>6 DEF GatewayGone, Ordered, Fresh
  <2>8. bot'.queue # 0 => Block(queues[bot.queue])'
    BY <1>8, <2>1, <2>2 DEF GatewayGone, Ordered, Block
  <2> QED BY <1>8, <2>1, <2>2, <2>4, <2>5, <2>7, <2>8 DEF GatewayGone, Ordered
<1>9. ASSUME NEW s \in Savers, PumpGone(s) PROVE Ordered'
  <2>1. ~overlapped /\ s \in Busy
    BY <1>9 DEF PumpGone, Busy
  <2>2. Stage(s)
    BY <2>1 DEF Settled
  <2>3. Alive = {}
    BY <1>9, <2>2 DEF PumpGone, PumpIsOver, Stage
  <2>4. Alive' = {} /\ bot'.queue = 0
    BY <1>9, <2>3 DEF PumpGone, Alive, TypeOK, Bot
  <2>5. \A t \in Savers : savers'[t].pc = "url" => savers'[t] = savers[t]
    BY <1>9, Parts DEF PumpGone, GoTo, Saver, TypeOK
  <2>6. Fresh'
    BY <1>9, <2>1, <2>4, <2>5, Constants DEF PumpGone, Ordered, Fresh, TypeOK
  <2> QED BY <1>9, <2>1, <2>4, <2>6 DEF PumpGone, Ordered
<1>10. ASSUME NEW s \in Savers, Asks(s) PROVE Ordered'
  <2>1. ~overlapped
    BY <1>10 DEF Asks
  <2>2. bot'.queue = bot.queue /\ UNCHANGED <<events, queues, pumps, latest>>
    BY <1>10 DEF Asks, Cleared, TypeOK, Bot
  <2>3. starts' = starts + 1 /\ starts' \in Starts /\ starts \in Nat
    BY <1>10, Constants DEF Asks, TypeOK, Start0, Starts
  <2>4. /\ \A t \in Savers : t # s => savers'[t] = savers[t]
        /\ savers'[s].of = starts'
    BY <1>10, Parts DEF Asks, GoTo, TypeOK, Saver
  <2>5. Fresh
    BY <2>1 DEF Ordered
  <2>6. bot.queue \in Nat /\ \A t \in Savers : savers[t].of \in Nat
    <3>1. Start0 \subseteq Nat
      BY Constants
    <3> QED BY <3>1, Parts
  <2>7. Fresh'
    <3>1. bot'.queue <= starts'
      BY <2>2, <2>3, <2>5, <2>6 DEF Fresh
    <3>2. \A g \in Starts : g > starts' => queues'[g] = <<>>
      BY <2>2, <2>3, <2>5, Constants DEF Fresh
    <3>3. queues'[starts'] = <<>>
      BY <2>2, <2>3, <2>5 DEF Fresh
    <3>4. ASSUME NEW t \in Savers, savers'[t].pc = "url"
          PROVE  savers'[t].of <= starts' /\ queues'[savers'[t].of] = <<>>
      <4>1. CASE t = s
        BY <4>1, <2>3, <2>4, <3>3
      <4>2. CASE t # s
        BY <4>2, <3>4, <2>2, <2>3, <2>4, <2>5, <2>6 DEF Fresh
      <4> QED BY <4>1, <4>2
    <3> QED BY <3>1, <3>2, <3>4 DEF Fresh
  <2>8. \A g \in Alive : Behind(g) => Behind(g)'
    BY <2>2 DEF Behind
  <2>9. Alive' = Alive
    BY <2>2 DEF Alive
  <2>10. bot'.queue # 0 => Block(queues[bot.queue])'
    BY <2>1, <2>2 DEF Ordered, Block
  <2> QED BY <2>1, <2>2, <2>7, <2>8, <2>9, <2>10 DEF Ordered
<1>11. ASSUME NEW s \in Savers, Answered(s) PROVE Ordered'
  <2>1. ~overlapped /\ savers[s].pc = "url" /\ savers[s].of \in Starts
    BY <1>11, Parts, Constants DEF Answered, TypeOK, Saver
  <2>0. PICK g \in Starts : g = savers[s].of
    BY <2>1
  <2>2. bot.queue = 0 /\ Alive = {}
    BY <2>1, OneOfEach
  <2>3. Fresh /\ queues[g] = <<>> /\ g <= starts /\ latest <= Len(events)
    BY <2>0, <2>1 DEF Ordered, Fresh
  <2>4. bot'.queue = g /\ UNCHANGED <<events, queues, latest, starts>>
    BY <1>11, <2>0 DEF Answered, TypeOK, Bot
  <2>5. /\ \A h \in Starts : h # g => pumps'[h] = pumps[h]
        /\ pumps'[g].state = "new" /\ pumps'[g].event = 0
    BY <1>11, <2>0, <2>1 DEF Answered, TypeOK, NoPump
  <2>6. Alive' \subseteq {g}
    BY <2>2, <2>5 DEF Alive
  <2>7. Behind(g)'
    BY <2>1, <2>4, <2>5, Constants DEF Behind
  <2>8. \A t \in Savers : savers'[t].pc = "url" => savers'[t] = savers[t]
    BY <1>11, Parts DEF Answered, Return, Idle, Saver, TypeOK
  <2>9. Fresh'
    BY <2>3, <2>4, <2>8 DEF Fresh
  <2>10. Block(queues[bot.queue])' /\ Len(queues'[bot'.queue]) = 0 /\ Len(events) \in Nat
    BY <2>3, <2>4 DEF Block, TypeOK
  <2> QED BY <2>3, <2>4, <2>6, <2>7, <2>9, <2>10 DEF Ordered
<1>12. ASSUME NEW s \in Savers,
              \/ GatewayStopped(s) \/ Closed(s) \/ Unanswered(s) \/ Disturbed(s) \/ GivesUp(s)
       PROVE  Ordered'
  <2>1. \A t \in Savers : savers'[t].pc = "url" => savers'[t] = savers[t]
    <3>1. ASSUME NEW pc \in {"gatewayTask", "closing", "giving up"}, NEW of, GoTo(s, pc, of)
          PROVE  \A t \in Savers : savers'[t].pc = "url" => savers'[t] = savers[t]
      BY <3>1, Parts DEF GoTo, Saver, TypeOK
    <3>2. CASE Return(s)
      BY <3>2 DEF Return, Idle, TypeOK
    <3> QED BY <1>12, <3>1, <3>2 DEF GatewayStopped, Closed, Unanswered, Disturbed, GivesUp
  <2>2. bot'.queue = bot.queue
    BY <1>12 DEF GatewayStopped, Closed, Unanswered, Disturbed, GivesUp, Cleared, TypeOK, Bot
  <2>3. UNCHANGED <<events, queues, pumps, latest, starts, overlapped>>
    BY <1>12 DEF GatewayStopped, Closed, Unanswered, Disturbed, GivesUp
  <2> QED BY <2>1, <2>2, <2>3, OrderedStutters
<1>13. ASSUME NEW s \in Savers, NEW restarts \in BOOLEAN, Begin(s, restarts) PROVE Ordered'
  <2>1. \A t \in Savers : savers'[t].pc = "url" => savers'[t] = savers[t]
    BY <1>13 DEF Begin, TypeOK
  <2> QED BY <1>13, <2>1, OrderedStutters DEF Begin
<1>14. ASSUME NEW a \in Starts, NEW key \in Keys, DayPasses(a, key) PROVE Ordered'
  BY <1>14, OrderedStutters DEF DayPasses
<1>15. ASSUME NEW g \in Starts, GatewayEnds(g) PROVE Ordered'
  BY <1>15, OrderedStutters DEF GatewayEnds
<1>16. ASSUME NEW on \in BOOLEAN, ReloadFails(on) PROVE Ordered'
  BY <1>16, OrderedStutters DEF ReloadFails
<1>17. CASE UNCHANGED vars
  BY <1>17, OrderedStutters DEF vars
<1> QED
  BY <1>1, <1>2, <1>3, <1>5, <1>6, <1>7, <1>8, <1>9, <1>10, <1>11, <1>12, <1>13, <1>14, <1>15,
     <1>16, <1>17 DEF Next, PumpStep, SaverStep, SaveSettings, Reload, SaveToken, ReloadToken, ShutDown

THEOREM InOrderHolds == Spec => InOrder
<1>1. Init => TypeOK /\ Settled /\ Ordered
  BY InitType, InitSettled, InitOrdered
<1>2. (TypeOK /\ Settled /\ Ordered) /\ [Next]_vars => (TypeOK /\ Settled /\ Ordered)'
  BY TypeStep, SettledStep, OrderedStep
<1>3. TypeOK /\ Settled /\ Ordered /\ [Next]_vars => [latest' >= latest \/ overlapped]_vars
  <2> SUFFICES ASSUME TypeOK, Ordered, [Next]_vars, ~overlapped PROVE latest' >= latest
    OBVIOUS
  <2>1. latest >= latest
    BY DEF TypeOK
  <2>2. ASSUME NEW g \in Starts, Posted(g) \/ Refused(g) \/ PostFails(g) \/ PumpDies(g)
        PROVE  latest' >= latest
    <3>1. g \in Alive
      BY <2>2 DEF Posted, Refused, PostFails, PumpDies, Alive
    <3>2. pumps[g].state = "posting" => pumps[g].event # 0
      BY <3>1 DEF Ordered, Behind
    <3>3. UNCHANGED latest \/ (pumps[g].event # 0 /\ Arrives(g))
      BY <2>2, <3>2 DEF Posted, Refused, PostFails, PumpDies
    <3> QED BY <3>1, <3>3, ArrivesInOrder
  <2>3. \/ UNCHANGED latest
        \/ \E g \in Starts : Posted(g) \/ Refused(g) \/ PostFails(g) \/ PumpDies(g)
    BY DEF Next, PumpStep, SaverStep, Publish, PumpBegins, PumpSkips, PumpRepeats, PumpPosts,
       DayPasses, Begin, SaveSettings, Reload, ReloadFails, SaveToken, ReloadToken, ShutDown, GatewayStopped, GatewayGone, PumpGone,
       Closed, Asks, Answered, Unanswered, Disturbed, GivesUp, GatewayEnds, vars, postVars
  <2> QED BY <2>1, <2>2, <2>3
<1> QED BY <1>1, <1>2, <1>3, PTL DEF Spec, InOrder

-----------------------------------------------------------------------------
(***************************************************************************)
(* Gateway: the events of a session                                        *)
(***************************************************************************)

EventNumbers == 0..MaxNumber
Clients == [pc : {"connect", "receive", "handling", "over"}, session : Sessions,
            seq : EventNumbers, acked : BOOLEAN, connected : BOOLEAN, application : BOOLEAN]
Links == [state : {"none", "asked", "live", "silent", "invalid", "invalid, resumable",
                   "closed", "fatal"},
          at : EventNumbers, ack : BOOLEAN, resumed : BOOLEAN]

WireTypes ==
  /\ client \in Clients /\ link \in Links
  /\ discord \in [held : Sessions, made : Sessions, sent : EventNumbers]
  /\ told \in [1..MaxSessions -> EventNumbers]

(***************************************************************************)
(* That nothing is handled twice rests on what the client and Discord know *)
(* of each other: the number the client has is that of the last event that *)
(* was handled of its session, a connection that is live is at that of the *)
(* session that is held, and a session that was never made has none.       *)
(***************************************************************************)
Numbered ==
  /\ discord.held <= discord.made
  /\ \A s \in 1..MaxSessions : s > discord.made => told[s] = 0
  /\ client.session <= discord.made
  /\ client.session # 0 => client.seq = told[client.session] /\ client.seq # 0
  /\ link.state = "asked" => link.at = 0
  /\ link.state = "live" => /\ discord.held # 0
                            /\ link.at = told[discord.held]
                            /\ link.at # 0 => client.session = discord.held

LEMMA WireInit == GatewayInit => WireTypes /\ Numbered /\ OnceInOrder
<1> SUFFICES ASSUME GatewayInit PROVE WireTypes /\ Numbered /\ OnceInOrder
  OBVIOUS
<1>1. WireTypes
  BY SessionsAssumption DEF GatewayInit, WireTypes, Clients, Links, EventNumbers, NoClient, NoLink, Sessions
<1>2. Numbered
  BY SessionsAssumption DEF GatewayInit, Numbered, NoClient, NoLink
<1>3. OnceInOrder
  BY DEF GatewayInit, OnceInOrder
<1> QED BY <1>1, <1>2, <1>3

\* Nothing but a connection and the bot's restart touches the wire.
LEMMA WireUntouched ==
  ASSUME GatewayNext
  PROVE  \/ UNCHANGED wire
         \/ ClientStep \/ DiscordStep \/ RefusesForNow \/ Happens \/ Fails \/ Restarts
<1>1. ASSUME NEW p \in Callers, PassStep(p) \/ PassFails(p) PROVE UNCHANGED wire
  BY <1>1 DEF PassStep, PassFails, LooksUp, Found, Registers, Removes, Ends, Registered, Removed,
              NotFound, Unregistered, NotRemoved
<1>2. ASSUME NEW i \in Instances, Deleted(i) PROVE UNCHANGED wire
  BY <1>2 DEF Deleted
<1>3. ASSUME NEW i \in Instances, NEW p \in Requests, NEW g \in Guilds \cup {None}, Save(p, i, g)
      PROVE  UNCHANGED wire
  BY <1>3 DEF Save
<1> QED BY <1>1, <1>2, <1>3 DEF GatewayNext

LEMMA WireNumbers ==
  ASSUME WireTypes
  PROVE  /\ 0 \in Sessions /\ 0 \in EventNumbers /\ 1 \in EventNumbers
         /\ MaxSessions \in Nat /\ MaxNumber \in Nat
         /\ client.session \in Nat /\ client.seq \in Nat /\ link.at \in Nat
         /\ discord.held \in 0..MaxSessions /\ discord.made \in 0..MaxSessions
         /\ discord.sent \in 0..MaxNumber
         /\ \A s \in 1..MaxSessions : told[s] \in Nat
<1>1. MaxSessions \in Nat /\ MaxNumber \in Nat /\ 0 \in Sessions /\ 0 \in EventNumbers /\ 1 \in EventNumbers
  BY SessionsAssumption DEF Sessions, EventNumbers
<1>2. /\ client.session \in Sessions /\ client.seq \in EventNumbers /\ link.at \in EventNumbers
      /\ discord.held \in Sessions /\ discord.made \in Sessions /\ discord.sent \in EventNumbers
      /\ \A s \in 1..MaxSessions : told[s] \in EventNumbers
  BY DEF WireTypes, Clients, Links
<1> QED BY <1>1, <1>2 DEF Sessions, EventNumbers

\* An event is handled: it is the one after the last.
LEMMA HandledNext ==
  ASSUME WireTypes, Numbered, OnceInOrder, link.state = "live", Handled(link.at + 1),
         link.at + 1 \in EventNumbers
  PROVE  /\ told' \in [1..MaxSessions -> EventNumbers] /\ OnceInOrder'
         /\ discord.held \in 1..MaxSessions /\ told'[discord.held] = link.at + 1
         /\ \A s \in 1..MaxSessions : s # discord.held => told'[s] = told[s]
<1>1. discord.held \in 1..MaxSessions /\ link.at = told[discord.held]
  BY WireNumbers DEF Numbered
<1>2. told \in [1..MaxSessions -> EventNumbers]
  BY DEF WireTypes
<1>3. astray' = (astray \/ link.at + 1 # told[discord.held] + 1)
  BY DEF Handled
<1>4. OnceInOrder'
  BY <1>1, <1>3 DEF OnceInOrder
<1>5. told' = [told EXCEPT ![discord.held] = link.at + 1]
  BY DEF Handled
<1> QED BY <1>1, <1>2, <1>4, <1>5

\* READY, and an interaction.
LEMMA EventWire ==
  ASSUME WireTypes, Numbered, OnceInOrder, Ready \/ Interaction
  PROVE  WireTypes' /\ Numbered' /\ OnceInOrder'
<1>1. /\ link.state = "live" /\ discord' = discord /\ Handled(link.at + 1)
      /\ link' = [link EXCEPT !.at = link.at + 1] /\ link.at + 1 \in EventNumbers
  <2>1. CASE Ready
    BY <2>1, WireNumbers DEF Ready
  <2>2. CASE Interaction
    BY <2>2, WireNumbers DEF Interaction, EventNumbers
  <2> QED BY <2>1, <2>2
<1>2. client' \in Clients /\ client'.session = discord.held /\ client'.seq = link.at + 1
  <2>1. CASE Ready
    <3>1. discord.held \in Sessions /\ 1 \in EventNumbers /\ link.at = 0
      BY <2>1, WireNumbers DEF Ready, WireTypes
    <3>2. client' = [client EXCEPT !.pc = "handling", !.session = discord.held, !.seq = 1,
                                   !.connected = TRUE, !.application = TRUE]
      BY <2>1 DEF Ready
    <3>3. client' \in Clients /\ client'.session = discord.held /\ client'.seq = 1
      BY <3>1, <3>2 DEF WireTypes, Clients
    <3> QED BY <3>1, <3>3
  <2>2. CASE Interaction
    <3>1. client.session = discord.held
      BY <2>2 DEF Interaction, Numbered
    <3> QED BY <1>1, <2>2, <3>1 DEF Interaction, WireTypes, Clients
  <2> QED BY <2>1, <2>2
<1>3. link' \in Links /\ link'.state = "live" /\ link'.at = link.at + 1
  BY <1>1 DEF WireTypes, Links
<1>4. /\ told' \in [1..MaxSessions -> EventNumbers] /\ OnceInOrder'
      /\ discord.held \in 1..MaxSessions /\ told'[discord.held] = link.at + 1
      /\ \A s \in 1..MaxSessions : s # discord.held => told'[s] = told[s]
  BY <1>1, HandledNext
<1>5. WireTypes'
  BY <1>1, <1>2, <1>3, <1>4 DEF WireTypes
<1>6. Numbered'
  BY <1>1, <1>2, <1>3, <1>4, WireNumbers DEF Numbered
<1> QED BY <1>4, <1>5, <1>6

\* A step in which no event is handled and no session made, and no connection
\* comes to life.
LEMMA NumberedKept ==
  ASSUME WireTypes, Numbered, UNCHANGED told,
         discord'.made = discord.made, discord'.held \in {0, discord.held},
         client'.session = 0 \/ (client'.session = client.session /\ client'.seq = client.seq),
         link'.state = "asked" => link'.at = 0,
         link'.state = "live" => /\ link.state = "live" /\ link'.at = link.at
                                 /\ client'.session = client.session /\ discord'.held = discord.held
  PROVE  Numbered'
  BY WireNumbers DEF Numbered

\* What the client does besides.
LEMMA ClientWire ==
  ASSUME WireTypes, Numbered,
         \/ Opens \/ Invalidated \/ Lost \/ Rejected \/ ReadyEnds \/ Replied
         \/ Resumed \/ Acknowledged \/ Beats \/ Drops
  PROVE  WireTypes' /\ Numbered' /\ UNCHANGED astray
<1>0. 0 \in Sessions /\ 0 \in EventNumbers
  BY WireNumbers
<1>1. /\ UNCHANGED <<discord, told, astray>> /\ client' \in Clients /\ link' \in Links
      /\ client'.session = 0 \/ (client'.session = client.session /\ client'.seq = client.seq)
      /\ link'.state = "asked" => link'.at = 0
      /\ link'.state = "live" => /\ link.state = "live" /\ link'.at = link.at
                                 /\ client'.session = client.session
  <2> USE <1>0 DEF WireTypes, Clients, Links, Numbered
  <2>1. CASE Opens
    BY <2>1 DEF Opens, NoLink
  <2>2. CASE Invalidated
    BY <2>2 DEF Invalidated, NoLink
  <2>3. CASE Lost
    BY <2>3 DEF Lost, Retries, NoLink
  <2>4. CASE Rejected
    BY <2>4 DEF Rejected, NoLink
  <2>5. CASE ReadyEnds \/ Replied
    BY <2>5 DEF ReadyEnds, Replied, Reads
  <2>6. CASE Resumed
    BY <2>6 DEF Resumed
  <2>7. CASE Acknowledged
    BY <2>7 DEF Acknowledged
  <2>8. CASE Beats \/ Drops
    BY <2>8 DEF Beats, Drops
  <2> QED BY <2>1, <2>2, <2>3, <2>4, <2>5, <2>6, <2>7, <2>8
<1>2. WireTypes'
  BY <1>1 DEF WireTypes
<1> QED BY <1>1, <1>2, NumberedKept

\* A session is made, or one is resumed.
LEMMA SessionWire ==
  ASSUME WireTypes, Numbered, Identified \/ GoesOn
  PROVE  WireTypes' /\ Numbered' /\ UNCHANGED astray
<1>1. CASE Identified
  <2>1. /\ client' = client /\ told' = told /\ astray' = astray /\ client.session = 0
        /\ discord' = [held |-> discord.made + 1, made |-> discord.made + 1, sent |-> 1]
        /\ discord.made < MaxSessions /\ link.state = "asked"
    BY <1>1 DEF Identified
  <2>2. link' \in Links /\ link'.state = "live" /\ link'.at = link.at
    BY <1>1 DEF Identified, WireTypes, Links
  <2>3. discord.made + 1 \in Sessions /\ discord.made + 1 \in 1..MaxSessions /\ 1 \in EventNumbers
    BY <2>1, WireNumbers DEF Sessions
  <2>4. WireTypes'
    BY <2>1, <2>2, <2>3 DEF WireTypes
  <2>5. discord'.held = discord.made + 1 /\ discord'.made = discord.made + 1
    BY <2>1
  <2>6. Numbered'
    BY <2>1, <2>2, <2>3, <2>5, WireNumbers DEF Numbered
  <2> QED BY <2>1, <2>4, <2>6
<1>2. CASE GoesOn
  <2>1. /\ UNCHANGED <<client, discord, told, astray>>
        /\ client.session = discord.held /\ discord.held # 0
    BY <1>2 DEF GoesOn
  <2>2. link' \in Links /\ link'.state = "live" /\ link'.at = client.seq
    BY <1>2 DEF GoesOn, WireTypes, Links, Clients
  <2>3. WireTypes'
    BY <2>1, <2>2 DEF WireTypes
  <2>4. Numbered'
    BY <2>1, <2>2, WireNumbers DEF Numbered
  <2> QED BY <2>1, <2>3, <2>4
<1> QED BY <1>1, <1>2

\* What else Discord, the network and the operator do.
LEMMA DiscordWire ==
  ASSUME WireTypes, Numbered, Refuses \/ RefusesForNow \/ Happens \/ Fails \/ Restarts
  PROVE  WireTypes' /\ Numbered' /\ UNCHANGED astray
<1>0. 0 \in Sessions /\ 0 \in EventNumbers /\ (Happens => discord.sent + 1 \in EventNumbers)
  BY WireNumbers DEF Happens, EventNumbers
<1>1. /\ UNCHANGED <<told, astray>> /\ client' \in Clients /\ link' \in Links
      /\ discord' \in [held : Sessions, made : Sessions, sent : EventNumbers]
      /\ discord'.made = discord.made /\ discord'.held \in {0, discord.held}
      /\ client'.session = 0 \/ (client'.session = client.session /\ client'.seq = client.seq)
      /\ link'.state = "asked" => link'.at = 0
      /\ link'.state = "live" => /\ link.state = "live" /\ link'.at = link.at
                                 /\ client'.session = client.session /\ discord'.held = discord.held
  <2> USE <1>0 DEF WireTypes, Clients, Links, Numbered
  <2>1. CASE Refuses
    BY <2>1 DEF Refuses
  <2>2. CASE RefusesForNow
    BY <2>2 DEF RefusesForNow
  <2>3. CASE Happens
    BY <2>3 DEF Happens
  <2>4. CASE Fails
    <3>1. CASE UNCHANGED discord /\ link' \in {[link EXCEPT !.state = s] : s \in {"closed", "fatal", "silent"}}
      BY <2>4, <3>1 DEF Fails
    <3>2. CASE link.state # "live" /\ discord' = [discord EXCEPT !.held = 0] /\ UNCHANGED link
      BY <2>4, <3>2 DEF Fails
    <3> QED BY <2>4, <3>1, <3>2 DEF Fails
  <2>5. CASE Restarts
    BY <2>5 DEF Restarts, NoClient, NoLink
  <2> QED BY <2>1, <2>2, <2>3, <2>4, <2>5
<1>2. WireTypes'
  BY <1>1 DEF WireTypes
<1> QED BY <1>1, <1>2, NumberedKept

LEMMA WireStep ==
  ASSUME WireTypes, Numbered, OnceInOrder, [GatewayNext]_gatewayVars
  PROVE  WireTypes' /\ Numbered' /\ OnceInOrder'
<1>1. CASE UNCHANGED wire
  BY <1>1 DEF wire, WireTypes, Numbered, OnceInOrder
<1>2. CASE UNCHANGED gatewayVars
  BY <1>1, <1>2 DEF gatewayVars
<1>3. UNCHANGED astray => OnceInOrder'
  BY DEF OnceInOrder
<1>4. CASE ClientStep
  BY <1>3, <1>4, EventWire, ClientWire DEF ClientStep
<1>5. CASE DiscordStep \/ RefusesForNow \/ Happens \/ Fails \/ Restarts
  BY <1>3, <1>5, SessionWire, DiscordWire DEF DiscordStep
<1> QED BY <1>1, <1>2, <1>4, <1>5, WireUntouched

\* The events of a session are handled once each and in order, for any number
\* of sessions, events and upsets.
THEOREM OnceInOrderHolds == GatewaySpec => []OnceInOrder
<1> DEFINE Inv == WireTypes /\ Numbered /\ OnceInOrder
<1>1. GatewayInit => Inv
  BY WireInit
<1>2. Inv /\ [GatewayNext]_gatewayVars => Inv'
  BY WireStep
<1> QED BY <1>1, <1>2, PTL DEF GatewaySpec

-----------------------------------------------------------------------------
(***************************************************************************)
(* Gateway: the commands of the guilds                                     *)
(***************************************************************************)

PassRecords ==
  [pc : {"idle", "resolve", "register", "remove"}, todo : SUBSET (Instances \cup Guilds),
   looking : Instances \cup {None}, wanted : SUBSET Guilds,
   failed : SUBSET (Instances \cup Guilds), alone : BOOLEAN]

MenuTypes ==
  /\ {chan, guild} \subseteq [Instances -> Guilds \cup {None}]
  /\ registered \subseteq Guilds /\ lastError \subseteq Guilds \cup Instances
  /\ menus \subseteq Guilds /\ doubt \subseteq Guilds
  /\ passes \in [Callers -> PassRecords]

\* What is known of a guild is right, what has been registered is known where
\* Discord's answer is believed, and only a pass that resolves waits.
MenuFacts ==
  /\ \A i \in Instances : guild[i] \in {None, chan[i]}
  /\ \A g \in Guilds \ doubt : g \in menus <=> g \in registered
  /\ \A p \in Callers : passes[p].pc # "resolve" => passes[p].looking = None

\* Nothing has been registered since a start that has had no READY.
Unasked == ~client.application => unsaid

\* The guild of the channel is known, or this pass says that it is not.
Resolved(i, p) == chan[i] = None \/ guild[i] # None \/ i \in passes[p].failed

Resolves(p) ==
  passes[p].pc = "resolve" =>
    \A i \in Instances \ passes[p].todo : Resolved(i, p) \/ i = passes[p].looking

Serves(p) ==
  passes[p].pc \in {"register", "remove"} =>
    /\ passes[p].wanted = Wanted
    /\ \A i \in Instances : Resolved(i, p)
    /\ \A g \in passes[p].wanted :
         \/ g \in menus \cup passes[p].failed
         \/ passes[p].pc = "register" /\ g \in passes[p].todo
    /\ passes[p].pc = "remove" => /\ passes[p].todo \cap passes[p].wanted = {}
                                  /\ registered \subseteq passes[p].wanted \cup passes[p].todo

(***************************************************************************)
(* MenusMatch speaks of the time when no pass is under way; what leads to  *)
(* it is how far a pass is that is, if nobody interferes.  Passes that are *)
(* under way at once leave all guilds in doubt until the last has ended.   *)
(***************************************************************************)
PassInv(p) ==
  IF passes[p].alone
    THEN UnderWay = {p} /\ Resolves(p) /\ (~unsaid => Serves(p))
    ELSE doubt = Guilds

MenuInv == MenuTypes /\ MenuFacts /\ Unasked /\ (\A p \in UnderWay : PassInv(p)) /\ MenusMatch

LEMMA MenuInit == GatewayInit => MenuInv
<1> SUFFICES ASSUME GatewayInit PROVE MenuInv
  OBVIOUS
<1>1. MenuTypes
  BY DEF GatewayInit, MenuTypes, PassRecords, NoPass
<1>2. MenuFacts
  BY DEF GatewayInit, MenuFacts, NoPass
<1>3. unsaid /\ UnderWay = {}
  BY DEF GatewayInit, UnderWay, NoPass
<1> QED BY <1>1, <1>2, <1>3 DEF MenuInv, Unasked, MenusMatch

\* One pass goes on: the others do not notice.
LEMMA PassGoesOn ==
  ASSUME MenuInv, NEW p \in UnderWay, NEW r \in PassRecords, Step(p, r), r.pc # "idle",
         r.alone = passes[p].alone, r.pc # "resolve" => r.looking = None,
         MenuTypes', Unasked', \A i \in Instances : guild'[i] \in {None, chan'[i]},
         \A g \in Guilds \ doubt' : g \in menus' <=> g \in registered',
         ~r.alone => doubt \subseteq doubt',
         r.alone => Resolves(p)' /\ (~unsaid' => Serves(p)')
  PROVE  MenuInv'
<1> USE DEF MenuInv
<1>1. p \in Callers /\ passes'[p] = r /\ \A q \in Callers : q # p => passes'[q] = passes[q]
  BY DEF UnderWay, Step, MenuTypes
<1>2. UnderWay' = UnderWay
  BY <1>1 DEF UnderWay
<1>3. MenuFacts'
  BY <1>1 DEF MenuFacts
<1>4. ASSUME NEW q \in UnderWay PROVE PassInv(q)'
  <2>1. CASE q = p /\ r.alone
    BY <1>1, <1>2, <2>1 DEF PassInv
  <2>2. CASE ~r.alone
    <3>1. doubt' = Guilds
      BY <2>2 DEF PassInv, MenuTypes
    <3>2. ~passes'[q].alone
      BY <1>1, <2>2 DEF PassInv, UnderWay
    <3> QED BY <3>1, <3>2 DEF PassInv
  <2>3. CASE q # p /\ r.alone
    BY <2>3 DEF PassInv
  <2> QED BY <2>1, <2>2, <2>3
<1> QED BY <1>2, <1>3, <1>4 DEF MenusMatch

\* The part of a pass that asks for guilds.
LEMMA ResolvingMenu ==
  ASSUME MenuInv, NEW p \in Callers, NEW i \in Instances, LooksUp(p, i) \/ Found(p) \/ NotFound(p)
  PROVE  MenuInv'
<1> DEFINE j == passes[p].looking
<1> USE DEF MenuInv
<1>0. passes[p] \in PassRecords /\ client' = client
  BY DEF MenuTypes, LooksUp, Found, NotFound, wire
<1>1. CASE LooksUp(p, i)
  <2> DEFINE r == [passes[p] EXCEPT !.looking = i, !.todo = @ \ {i}]
  <2>1. p \in UnderWay /\ passes[p].pc = "resolve" /\ j = None /\ Step(p, r)
        /\ UNCHANGED <<chan, guild, unsaid, registered, lastError, menus, doubt>>
    BY <1>1 DEF LooksUp, UnderWay, settings
  <2>2. r \in PassRecords /\ r.pc = "resolve" /\ r.alone = passes[p].alone
    BY <1>0, <2>1 DEF PassRecords
  <2>3. passes'[p] = r /\ MenuTypes'
    BY <2>1, <2>2 DEF Step, MenuTypes
  <2>4. r.alone => Resolves(p)' /\ Serves(p)'
    BY <1>0, <2>1, <2>2, <2>3, NoneAssumption DEF PassInv, Resolves, Serves, Resolved, PassRecords
  <2> HIDE DEF r
  <2> QED BY <1>0, <2>1, <2>2, <2>3, <2>4, PassGoesOn DEF MenuFacts, Unasked
<1>2. CASE Found(p)
  <2> DEFINE r == [passes[p] EXCEPT !.looking = None]
  <2>1. /\ j \in Instances /\ Step(p, r) /\ guild' = [guild EXCEPT ![j] = chan[j]]
        /\ UNCHANGED <<chan, unsaid, registered, lastError, menus, doubt>>
    BY <1>2 DEF Found
  <2>2. p \in UnderWay /\ passes[p].pc = "resolve"
    BY <2>1, NoneAssumption DEF MenuFacts, UnderWay
  <2>3. r \in PassRecords /\ r.pc = "resolve" /\ r.alone = passes[p].alone
    BY <1>0, <2>2 DEF PassRecords
  <2>4. passes'[p] = r /\ MenuTypes'
    BY <2>1, <2>3 DEF Step, MenuTypes
  <2>5. \A k \in Instances : guild'[k] = IF k = j THEN chan[j] ELSE guild[k]
    BY <2>1 DEF MenuTypes
  <2>6. r.alone => Resolves(p)' /\ Serves(p)'
    BY <1>0, <2>1, <2>2, <2>3, <2>4, <2>5 DEF PassInv, Resolves, Serves, Resolved, PassRecords
  <2> HIDE DEF r
  <2> QED BY <1>0, <2>1, <2>2, <2>3, <2>4, <2>5, <2>6, PassGoesOn DEF MenuFacts, Unasked
<1>3. CASE NotFound(p)
  <2> DEFINE r == [passes[p] EXCEPT !.looking = None, !.failed = @ \cup {j}]
  <2>1. /\ j \in Instances /\ Step(p, r)
        /\ UNCHANGED <<chan, guild, unsaid, registered, lastError, menus, doubt>>
    BY <1>3 DEF NotFound, settings
  <2>2. p \in UnderWay /\ passes[p].pc = "resolve"
    BY <2>1, NoneAssumption DEF MenuFacts, UnderWay
  <2>3. r \in PassRecords /\ r.pc = "resolve" /\ r.alone = passes[p].alone
    BY <1>0, <2>1, <2>2 DEF PassRecords
  <2>4. passes'[p] = r /\ MenuTypes'
    BY <2>1, <2>3 DEF Step, MenuTypes
  <2>5. r.alone => Resolves(p)' /\ Serves(p)'
    BY <1>0, <2>1, <2>2, <2>3, <2>4 DEF PassInv, Resolves, Serves, Resolved, PassRecords
  <2> HIDE DEF r
  <2> QED BY <1>0, <2>1, <2>2, <2>3, <2>4, <2>5, PassGoesOn DEF MenuFacts, Unasked
<1> QED BY <1>1, <1>2, <1>3

\* A pass that ends leaves nothing to the others, and says what it must if it
\* was alone.
LEMMA PassLeaves ==
  ASSUME MenuInv, NEW p \in UnderWay, Step(p, NoPass), MenuTypes', Unasked',
         UNCHANGED <<chan, guild, unsaid, registered, menus, doubt>>,
         ~unsaid /\ passes[p].alone => MenusMatch'
  PROVE  MenuInv'
<1> USE DEF MenuInv
<1>1. p \in Callers /\ passes'[p] = NoPass /\ \A q \in Callers : q # p => passes'[q] = passes[q]
  BY DEF UnderWay, Step, MenuTypes
<1>2. UnderWay' = UnderWay \ {p}
  BY <1>1 DEF UnderWay, NoPass
<1>3. MenuFacts'
  BY <1>1 DEF MenuFacts, NoPass
<1>4. ASSUME NEW q \in UnderWay' PROVE PassInv(q)'
  <2>1. q \in UnderWay /\ q # p /\ ~passes[q].alone
    BY <1>2, <1>4 DEF PassInv
  <2> QED BY <1>1, <2>1 DEF PassInv, UnderWay
<1>5. CASE ~passes[p].alone
  <2>1. doubt' = Guilds /\ menus' \subseteq doubt'
    BY <1>5 DEF PassInv, MenuTypes
  <2> QED BY <1>3, <1>4, <2>1 DEF MenusMatch
<1>6. CASE passes[p].alone
  BY <1>3, <1>4, <1>6 DEF MenusMatch
<1> QED BY <1>5, <1>6

\* What is wanted is settled, or nothing can be registered.
LEMMA RegistersMenu ==
  ASSUME MenuInv, NEW p \in Callers, Registers(p)
  PROVE  MenuInv'
<1> USE DEF MenuInv
<1>0. /\ passes[p] \in PassRecords /\ client' = client /\ p \in UnderWay
      /\ passes[p].pc = "resolve" /\ passes[p].looking = None
      /\ UNCHANGED <<chan, guild, registered, lastError, menus, doubt>>
  BY DEF MenuTypes, Registers, wire, UnderWay
<1>1. CASE client.application
  <2> DEFINE r == [passes[p] EXCEPT !.pc = "register", !.todo = Wanted, !.wanted = Wanted]
  <2>1. Step(p, r) /\ unsaid' = FALSE
    BY <1>1 DEF Registers
  <2>2. Wanted \subseteq Guilds
    BY DEF Wanted, MenuTypes
  <2>3. r \in PassRecords /\ r.pc = "register" /\ r.alone = passes[p].alone /\ r.looking = None
    BY <1>0, <2>2 DEF PassRecords
  <2>4. passes'[p] = r /\ MenuTypes'
    BY <1>0, <2>1, <2>3 DEF Step, MenuTypes
  <2>5. \A i \in passes[p].todo \cap Instances : chan[i] = None \/ guild[i] # None
    BY DEF Registers
  <2>6. r.alone => \A i \in Instances : Resolved(i, p)
    BY <1>0, <2>3, <2>5, NoneAssumption DEF PassInv, Resolves, Resolved
  <2>7. r.todo = Wanted /\ r.wanted = Wanted /\ r.failed = passes[p].failed /\ Wanted' = Wanted
    BY <1>0 DEF PassRecords, Wanted
  <2>8. r.alone => Resolves(p)' /\ Serves(p)'
    BY <1>0, <2>3, <2>4, <2>6, <2>7 DEF Resolves, Serves, Resolved
  <2> HIDE DEF r
  <2> QED BY <1>0, <1>1, <2>1, <2>3, <2>4, <2>8, PassGoesOn DEF MenuFacts, Unasked
<1>2. CASE ~client.application
  <2>1. Step(p, NoPass) /\ unsaid' = unsaid /\ unsaid
    BY <1>2 DEF Registers, Unasked
  <2>2. MenuTypes'
    BY <1>0, <2>1 DEF Step, MenuTypes, NoPass, PassRecords
  <2> QED BY <1>0, <2>1, <2>2, PassLeaves DEF Unasked
<1> QED BY <1>1, <1>2

\* The commands of a guild are registered, or may not be.
LEMMA RegisteringMenu ==
  ASSUME MenuInv, NEW p \in Callers, NEW g \in Guilds, Registered(p, g) \/ Unregistered(p, g)
  PROVE  MenuInv'
<1> USE DEF MenuInv
<1>0. /\ passes[p] \in PassRecords /\ client' = client /\ p \in UnderWay
      /\ passes[p].pc = "register" /\ g \in passes[p].todo /\ passes[p].looking = None
      /\ UNCHANGED <<chan, guild, unsaid, lastError>>
  BY DEF MenuTypes, MenuFacts, Registered, Unregistered, wire, settings, UnderWay
<1>1. /\ menus' \in {menus, menus \cup {g}}
      /\ \A h \in Guilds \ doubt' : h \in menus' <=> h \in registered'
      /\ registered' \subseteq Guilds /\ doubt' \subseteq Guilds
      /\ ~passes[p].alone => doubt \subseteq doubt'
  BY DEF Registered, Unregistered, Sure, MenuTypes, MenuFacts
<1>2. PICK r \in PassRecords :
        /\ Step(p, r) /\ r.pc = "register" /\ r.alone = passes[p].alone /\ r.looking = None
        /\ r.todo = passes[p].todo \ {g} /\ r.wanted = passes[p].wanted
        /\ passes[p].failed \subseteq r.failed /\ g \in menus' \cup r.failed
  <2>1. CASE Registered(p, g)
    BY <1>0, <2>1 DEF Registered, PassRecords
  <2>2. CASE Unregistered(p, g)
    <3> DEFINE r == [passes[p] EXCEPT !.todo = @ \ {g}, !.failed = @ \cup {g}]
    <3>1. Step(p, r)
      BY <2>2 DEF Unregistered
    <3>2. /\ r \in PassRecords /\ r.pc = passes[p].pc /\ r.alone = passes[p].alone
          /\ r.looking = passes[p].looking /\ r.wanted = passes[p].wanted
          /\ r.todo = passes[p].todo \ {g} /\ r.failed = passes[p].failed \cup {g}
      BY <1>0 DEF PassRecords
    <3> HIDE DEF r
    <3> QED BY <1>0, <3>1, <3>2
  <2> QED BY <2>1, <2>2
<1>3. passes'[p] = r /\ MenuTypes'
  BY <1>0, <1>1, <1>2 DEF Step, MenuTypes
<1>4. r.alone => Resolves(p)' /\ (~unsaid' => Serves(p)')
  <2> SUFFICES ASSUME r.alone, ~unsaid' PROVE Serves(p)'
    BY <1>2, <1>3 DEF Resolves
  <2>1. /\ passes[p].wanted = Wanted /\ \A i \in Instances : Resolved(i, p)
        /\ \A h \in passes[p].wanted :
             h \in menus \cup passes[p].failed \/ h \in passes[p].todo
    BY <1>0, <1>2 DEF PassInv, Serves
  <2>2. Wanted' = Wanted /\ \A i \in Instances : Resolved(i, p)'
    BY <1>0, <1>2, <1>3, <2>1 DEF Wanted, Resolved
  <2> QED BY <1>1, <1>2, <1>3, <2>1, <2>2 DEF Serves
<1> QED BY <1>0, <1>1, <1>2, <1>3, <1>4, PassGoesOn DEF MenuFacts, Unasked

\* Then those that are no longer wanted are removed.
LEMMA RemovingMenu ==
  ASSUME MenuInv, NEW p \in Callers, NEW g, Removes(p) \/ (g \in Guilds /\ (Removed(p, g) \/ NotRemoved(p, g)))
  PROVE  MenuInv'
<1> USE DEF MenuInv
<1>0. /\ passes[p] \in PassRecords /\ client' = client /\ p \in UnderWay
      /\ passes[p].pc \in {"register", "remove"} /\ passes[p].looking = None
      /\ UNCHANGED <<chan, guild, unsaid, lastError>>
  BY DEF MenuTypes, MenuFacts, Removes, Removed, NotRemoved, wire, settings, UnderWay
<1>1. /\ \A h \in Guilds \ doubt' : h \in menus' <=> h \in registered'
      /\ menus' \subseteq Guilds /\ registered' \subseteq registered /\ doubt' \subseteq Guilds
      /\ ~passes[p].alone => doubt \subseteq doubt'
  BY DEF Removes, Removed, NotRemoved, Sure, MenuTypes, MenuFacts
<1>2. PICK r \in PassRecords :
        /\ Step(p, r) /\ r.pc = "remove" /\ r.alone = passes[p].alone /\ r.looking = None
        /\ r.wanted = passes[p].wanted /\ r.failed = passes[p].failed
        /\ \/ /\ passes[p].pc = "register" /\ passes[p].todo = {}
              /\ r.todo = registered \ r.wanted /\ UNCHANGED <<menus, registered>>
           \/ /\ passes[p].pc = "remove" /\ g \in passes[p].todo
              /\ r.todo = passes[p].todo \ {g} /\ menus \ {g} \subseteq menus'
              /\ registered' = registered \ {g}
  <2>1. CASE Removes(p)
    <3> DEFINE r == [passes[p] EXCEPT !.pc = "remove", !.todo = registered \ passes[p].wanted]
    <3>1. /\ Step(p, r) /\ passes[p].pc = "register" /\ passes[p].todo = {}
          /\ UNCHANGED <<menus, registered>>
      BY <2>1 DEF Removes
    <3>2. /\ r \in PassRecords /\ r.pc = "remove" /\ r.alone = passes[p].alone
          /\ r.looking = passes[p].looking /\ r.wanted = passes[p].wanted
          /\ r.todo = registered \ passes[p].wanted /\ r.failed = passes[p].failed
      BY <1>0 DEF PassRecords, MenuTypes
    <3> HIDE DEF r
    <3> QED BY <1>0, <3>1, <3>2
  <2>2. CASE Removed(p, g)
    BY <1>0, <2>2 DEF Removed, PassRecords
  <2>3. CASE NotRemoved(p, g)
    BY <1>0, <2>3 DEF NotRemoved, PassRecords
  <2> QED BY <2>1, <2>2, <2>3
<1>3. passes'[p] = r /\ MenuTypes'
  BY <1>0, <1>1, <1>2 DEF Step, MenuTypes
<1>4. r.alone => Resolves(p)' /\ (~unsaid' => Serves(p)')
  <2> SUFFICES ASSUME r.alone, ~unsaid' PROVE Serves(p)'
    BY <1>2, <1>3 DEF Resolves
  <2>1. /\ passes[p].wanted = Wanted /\ \A i \in Instances : Resolved(i, p)
        /\ \A h \in passes[p].wanted :
             \/ h \in menus \cup passes[p].failed
             \/ passes[p].pc = "register" /\ h \in passes[p].todo
        /\ passes[p].pc = "remove" => /\ passes[p].todo \cap passes[p].wanted = {}
                                      /\ registered \subseteq passes[p].wanted \cup passes[p].todo
    BY <1>0, <1>2 DEF PassInv, Serves
  <2>2. Wanted' = Wanted /\ \A i \in Instances : Resolved(i, p)'
    BY <1>0, <1>2, <1>3, <2>1 DEF Wanted, Resolved
  <2> QED BY <1>2, <1>3, <2>1, <2>2 DEF Serves
<1> QED BY <1>0, <1>1, <1>2, <1>3, <1>4, PassGoesOn DEF MenuFacts, Unasked

\* The pass has ended: it says what it could not do.
LEMMA EndsMenu ==
  ASSUME MenuInv, NEW p \in Callers, Ends(p)
  PROVE  MenuInv'
<1> USE DEF MenuInv
<1>0. /\ passes[p] \in PassRecords /\ client' = client /\ p \in UnderWay
      /\ passes[p].pc = "remove" /\ passes[p].todo = {} /\ Step(p, NoPass)
      /\ UNCHANGED <<chan, guild, unsaid, registered, menus, doubt>> /\ lastError' = passes[p].failed
  BY DEF MenuTypes, Ends, wire, settings, UnderWay
<1>1. MenuTypes' /\ Unasked'
  BY <1>0 DEF Step, MenuTypes, NoPass, PassRecords, Unasked
<1>2. ASSUME ~unsaid, passes[p].alone PROVE MenusMatch'
  <2>1. /\ passes[p].wanted = Wanted /\ \A i \in Instances : Resolved(i, p)
        /\ \A g \in passes[p].wanted : g \in menus \cup passes[p].failed
        /\ registered \subseteq passes[p].wanted
    BY <1>0, <1>2 DEF PassInv, Serves
  <2>2. ASSUME NEW i \in Instances, chan[i] \in Guilds
        PROVE  \/ chan[i] \in menus /\ guild[i] # None /\ guild[i] = chan[i]
               \/ lastError' \cap {i, chan[i]} # {}
    <3>1. CASE i \in passes[p].failed
      BY <1>0, <3>1
    <3>2. CASE i \notin passes[p].failed
      <4>1. guild[i] # None /\ guild[i] = chan[i]
        BY <2>1, <2>2, <3>2, NoneAssumption DEF Resolved, MenuFacts
      <4>2. chan[i] \in passes[p].wanted
        BY <2>1, <4>1 DEF Wanted
      <4> QED BY <1>0, <2>1, <4>1, <4>2
    <3> QED BY <3>1, <3>2
  <2>3. \A g \in menus \ doubt : \E i \in Instances : g = guild[i] /\ g # None
    BY <2>1 DEF MenuFacts, MenuTypes, Wanted
  <2>4. menus \subseteq doubt \cup {chan[i] : i \in Instances}
    BY <2>3 DEF MenuFacts
  <2> QED BY <1>0, <2>2, <2>4 DEF MenusMatch, Answer, MayRead
<1> QED BY <1>0, <1>1, <1>2, PassLeaves

\* A pass begins.  One that is under way already is no longer alone.
LEMMA BeginsMenu ==
  ASSUME MenuInv, NEW p \in Callers, NEW i, Begins(p, i),
         {chan', guild'} \subseteq [Instances -> Guilds \cup {None}],
         \A j \in Instances : guild'[j] \in {None, chan'[j]},
         UNCHANGED <<registered, lastError, menus>>, Unasked'
  PROVE  MenuInv'
<1> USE DEF MenuInv
<1>1. passes' = [q \in Callers |-> IF q = p THEN passes'[p] ELSE passes'[q]]
  BY DEF Begins
<1>2. /\ passes'[p] \in PassRecords /\ passes'[p].pc = "resolve"
      /\ passes'[p].todo = Instances /\ passes'[p].alone = (UnderWay = {})
  BY DEF Begins, NoPass, PassRecords
<1>3. ASSUME NEW q \in Callers, q # p
      PROVE  /\ passes'[q] \in PassRecords /\ passes'[q].pc = passes[q].pc
             /\ passes[q].pc # "idle" => passes'[q].alone = FALSE
             /\ passes[q].looking = None => passes'[q].looking = None
  <2>1. passes[q] \in PassRecords
    BY DEF MenuTypes
  <2>2. passes'[q] = [passes[q] EXCEPT !.alone = @ /\ passes[q].pc = "idle",
                                       !.looking = IF @ = i THEN None ELSE @]
    BY <1>3 DEF Begins
  <2> QED BY <2>1, <2>2 DEF PassRecords
<1>4. doubt' = IF UnderWay = {} THEN doubt ELSE Guilds
  BY DEF Begins
<1>5. MenuTypes'
  BY <1>1, <1>2, <1>3, <1>4 DEF MenuTypes
<1>6. MenuFacts'
  BY <1>2, <1>3, <1>4 DEF MenuFacts
<1>7. UnderWay' = UnderWay \cup {p}
  BY <1>2, <1>3 DEF UnderWay
<1>8. CASE UnderWay = {}
  <2>1. PassInv(p)'
    BY <1>2, <1>7, <1>8 DEF PassInv, Resolves, Serves
  <2> QED BY <1>5, <1>6, <1>7, <1>8, <2>1 DEF MenusMatch
<1>9. CASE UnderWay # {}
  <2>1. \A q \in UnderWay' : ~passes'[q].alone
    BY <1>2, <1>3, <1>7, <1>9 DEF UnderWay
  <2>2. \A q \in UnderWay' : PassInv(q)'
    BY <1>4, <1>9, <2>1 DEF PassInv
  <2> QED BY <1>5, <1>6, <1>7, <2>2 DEF MenusMatch
<1> QED BY <1>8, <1>9

\* A channel is taken away, set or moved: what was known of it goes.
LEMMA ChangedGuilds ==
  ASSUME MenuTypes, MenuFacts, NEW i \in Instances, NEW g \in Guilds \cup {None}, Changed(i, g)
  PROVE  /\ {chan', guild'} \subseteq [Instances -> Guilds \cup {None}]
         /\ \A j \in Instances : guild'[j] \in {None, chan'[j]}
         /\ unsaid' = TRUE
         /\ \A j \in Instances : j # i => chan'[j] = chan[j] /\ guild'[j] = guild[j]
         /\ chan'[i] = g
<1>1. /\ chan' = [chan EXCEPT ![i] = g] /\ unsaid' = TRUE
      /\ guild' = [guild EXCEPT ![i] = IF g = chan[i] THEN @ ELSE None]
  BY DEF Changed
<1> QED BY <1>1 DEF MenuTypes, MenuFacts

LEMMA RequestMenu ==
  ASSUME MenuInv, NEW i \in Instances,
         Deleted(i) \/ \E p \in Requests, g \in Guilds \cup {None} : Save(p, i, g)
  PROVE  MenuInv'
<1> USE DEF MenuInv
<1>1. ASSUME NEW p \in Requests, NEW g \in Guilds \cup {None}, Save(p, i, g) PROVE MenuInv'
  <2>1. Changed(i, g) /\ Begins(p, i) /\ UNCHANGED <<registered, lastError, menus>> /\ p \in Callers
    BY <1>1 DEF Save, Callers
  <2> QED BY <2>1, ChangedGuilds, BeginsMenu DEF Unasked
<1>2. CASE Deleted(i)
  <2>1. /\ Changed(i, None) /\ UNCHANGED <<registered, lastError, menus, doubt>>
        /\ passes' = [q \in Callers |-> IF passes[q].looking = i THEN NoPass ELSE passes[q]]
    BY <1>2 DEF Deleted
  <2>2. /\ {chan', guild'} \subseteq [Instances -> Guilds \cup {None}] /\ unsaid' = TRUE
        /\ \A j \in Instances : guild'[j] \in {None, chan'[j]}
        /\ \A j \in Instances : j # i => chan'[j] = chan[j] /\ guild'[j] = guild[j]
        /\ chan'[i] = None
    BY <2>1, ChangedGuilds
  <2>3. NoPass \in PassRecords /\ NoPass.pc = "idle" /\ NoPass.looking = None
    BY DEF NoPass, PassRecords
  <2>4. MenuTypes'
    BY <2>1, <2>2, <2>3 DEF MenuTypes
  <2>5. MenuFacts'
    BY <2>1, <2>2, <2>3 DEF MenuFacts
  <2>6. UnderWay' \subseteq UnderWay /\ \A q \in UnderWay' : passes'[q] = passes[q]
    BY <2>1, <2>3 DEF UnderWay
  <2>7. ASSUME NEW q \in UnderWay' PROVE PassInv(q)'
    <3>1. q \in UnderWay /\ passes'[q] = passes[q] /\ PassInv(q)
      BY <2>6, <2>7
    <3>2. \A j \in Instances : Resolved(j, q) => Resolved(j, q)'
      BY <2>2, <3>1 DEF Resolved
    <3>3. UnderWay = {q} => UnderWay' = {q}
      BY <2>6, <2>7
    <3> QED BY <2>1, <2>2, <3>1, <3>2, <3>3 DEF PassInv, Resolves
  <2> QED BY <2>2, <2>4, <2>5, <2>7 DEF Unasked, MenusMatch
<1> QED BY <1>1, <1>2

LEMMA MenuStep ==
  ASSUME MenuInv, WireTypes, [GatewayNext]_gatewayVars
  PROVE  MenuInv'
<1> USE DEF MenuInv
<1>1. CASE UNCHANGED <<settings, commands>> /\ client'.application = client.application
  BY <1>1 DEF settings, commands, MenuTypes, MenuFacts, Unasked, UnderWay, PassInv, Resolves, Serves,
              Resolved, Wanted, MenusMatch, Answer, MayRead
<1>2. CASE \/ Opens \/ Invalidated \/ Lost \/ Rejected \/ Interaction \/ ReadyEnds \/ Replied
           \/ Resumed \/ Acknowledged \/ Beats \/ Drops
           \/ DiscordStep \/ RefusesForNow \/ Happens \/ Fails \/ UNCHANGED gatewayVars
  <2>1. UNCHANGED <<settings, commands>>
    BY <1>2 DEF Opens, Invalidated, Lost, Rejected, Interaction, ReadyEnds, Replied, Resumed,
                Acknowledged, Beats, Drops, DiscordStep, Identified, GoesOn, Refuses, RefusesForNow,
                Happens, Fails, Hangs, Reads, gatewayVars
  <2>2. client'.application = client.application
    BY <1>2 DEF Opens, Invalidated, Lost, Rejected, Interaction, ReadyEnds, Replied, Resumed,
                Acknowledged, Beats, Drops, DiscordStep, Identified, GoesOn, Refuses, RefusesForNow,
                Happens, Fails, Reads, Retries, gatewayVars, wire, WireTypes, Clients
  <2> QED BY <1>1, <2>1, <2>2
<1>3. CASE Ready
  <2>1. /\ Begins("ready", None) /\ UNCHANGED <<registered, lastError, menus, chan, guild>>
        /\ "ready" \in Callers
    BY <1>3 DEF Ready, settings, Callers
  <2>2. client'.application = TRUE
    BY <1>3 DEF Ready, WireTypes, Clients
  <2> QED BY <2>1, <2>2, BeginsMenu DEF Unasked, MenuTypes, MenuFacts
<1>4. CASE Restarts
  <2>1. /\ registered' = {} /\ lastError' = {} /\ unsaid' = TRUE /\ doubt' = doubt \cup menus
        /\ passes' = [p \in Callers |-> NoPass] /\ UNCHANGED <<chan, guild, menus>>
    BY <1>4 DEF Restarts
  <2>2. MenuTypes' /\ MenuFacts' /\ UnderWay' = {}
    BY <2>1 DEF MenuTypes, MenuFacts, UnderWay, NoPass, PassRecords
  <2> QED BY <2>1, <2>2 DEF Unasked, MenusMatch
<1>5. ASSUME NEW p \in Callers, PassStep(p) \/ PassFails(p) PROVE MenuInv'
  <2>1. \/ \E i \in Instances : LooksUp(p, i) \/ Found(p) \/ NotFound(p)
        \/ Registers(p) \/ Ends(p) \/ Removes(p)
        \/ \E g \in Guilds : Registered(p, g) \/ Unregistered(p, g) \/ Removed(p, g) \/ NotRemoved(p, g)
    BY <1>5 DEF PassStep, PassFails, Found, NotFound
  <2> QED BY <2>1, ResolvingMenu, RegistersMenu, RegisteringMenu, RemovingMenu, EndsMenu
<1>6. ASSUME NEW i \in Instances,
             Deleted(i) \/ \E p \in Requests, g \in Guilds \cup {None} : Save(p, i, g)
      PROVE  MenuInv'
  BY <1>6, RequestMenu
<1> QED BY <1>2, <1>3, <1>4, <1>5, <1>6 DEF GatewayNext, ClientStep

\* A channel offers the commands and is answered, or the settings page says why
\* not, for any number of instances, guilds, requests at once and failures.
THEOREM MenusMatchHolds == GatewaySpec => []MenusMatch
<1> DEFINE Inv == WireTypes /\ Numbered /\ OnceInOrder /\ MenuInv
<1>1. GatewayInit => Inv
  BY WireInit, MenuInit
<1>2. Inv /\ [GatewayNext]_gatewayVars => Inv'
  BY WireStep, MenuStep
<1>3. Inv => MenusMatch
  BY DEF MenuInv
<1> QED BY <1>1, <1>2, <1>3, PTL DEF GatewaySpec

\* What is counted and what is said keep their types.
LEMMA UpsetsStep ==
  ASSUME upsets \in 0..MaxUpsets, unsaid \in BOOLEAN, [GatewayNext]_gatewayVars
  PROVE  upsets' \in 0..MaxUpsets /\ unsaid' \in BOOLEAN
<1>1. CASE UNCHANGED <<upsets, unsaid>>
  BY <1>1
<1>2. CASE Upset /\ unsaid' \in BOOLEAN
  BY <1>2, SessionsAssumption DEF Upset
<1>3. CASE \/ ClientStep \/ DiscordStep \/ Happens \/ UNCHANGED gatewayVars
  <2>1. UNCHANGED <<upsets, unsaid>>
    BY <1>3 DEF ClientStep, Opens, Invalidated, Lost, Rejected, Ready, Interaction, ReadyEnds, Replied,
                Resumed, Acknowledged, Beats, Drops, DiscordStep, Identified, GoesOn, Refuses, Happens,
                Hangs, Reads, settings, gatewayVars
  <2> QED BY <1>1, <2>1
<1>4. CASE RefusesForNow \/ Fails \/ Restarts
  <2>1. Upset /\ unsaid' \in BOOLEAN
    BY <1>4 DEF RefusesForNow, Fails, Restarts, settings
  <2> QED BY <1>2, <2>1
<1>5. ASSUME NEW p \in Callers, PassStep(p) \/ PassFails(p)
      PROVE  upsets' \in 0..MaxUpsets /\ unsaid' \in BOOLEAN
  <2>1. (upsets' = upsets \/ Upset) /\ unsaid' \in BOOLEAN
    BY <1>5 DEF PassStep, PassFails, LooksUp, Found, Registers, Removes, Ends, Registered, Removed,
                NotFound, Unregistered, NotRemoved, settings
  <2> QED BY <2>1, SessionsAssumption DEF Upset
<1>6. ASSUME NEW i \in Instances,
             Deleted(i) \/ \E p \in Requests, g \in Guilds \cup {None} : Save(p, i, g)
      PROVE  upsets' \in 0..MaxUpsets /\ unsaid' \in BOOLEAN
  <2>1. Upset /\ unsaid' \in BOOLEAN
    BY <1>6 DEF Deleted, Save, Changed
  <2> QED BY <1>2, <2>1
<1> QED BY <1>3, <1>4, <1>5, <1>6 DEF GatewayNext

LEMMA AstrayStep ==
  ASSUME WireTypes, Numbered, astray \in BOOLEAN, [GatewayNext]_gatewayVars
  PROVE  astray' \in BOOLEAN
<1>1. CASE UNCHANGED wire \/ UNCHANGED gatewayVars
  BY <1>1 DEF wire, gatewayVars
<1>2. CASE Ready \/ Interaction
  BY <1>2 DEF Ready, Interaction, Handled
<1>3. CASE \/ Opens \/ Invalidated \/ Lost \/ Rejected \/ ReadyEnds \/ Replied
           \/ Resumed \/ Acknowledged \/ Beats \/ Drops
  BY <1>3, ClientWire
<1>4. CASE DiscordStep \/ RefusesForNow \/ Happens \/ Fails \/ Restarts
  BY <1>4, SessionWire, DiscordWire DEF DiscordStep
<1> QED BY <1>1, <1>2, <1>3, <1>4, WireUntouched DEF ClientStep

\* Every variable keeps its type.
THEOREM GatewayTypeCorrect == GatewaySpec => []GatewayTypeOK
<1> DEFINE Counted == upsets \in 0..MaxUpsets /\ unsaid \in BOOLEAN /\ astray \in BOOLEAN
           Inv == WireTypes /\ Numbered /\ OnceInOrder /\ MenuInv /\ Counted
<1>1. GatewayInit => Inv
  <2>1. GatewayInit => upsets \in 0..MaxUpsets
    BY SessionsAssumption DEF GatewayInit
  <2>2. GatewayInit => unsaid \in BOOLEAN /\ astray \in BOOLEAN
    BY DEF GatewayInit
  <2> QED BY <2>1, <2>2, WireInit, MenuInit
<1>2. Inv /\ [GatewayNext]_gatewayVars => Inv'
  BY WireStep, MenuStep, UpsetsStep, AstrayStep
<1>3. Inv => GatewayTypeOK
  <2> SUFFICES ASSUME Inv PROVE GatewayTypeOK
    OBVIOUS
  <2>1. {astray, unsaid} \subseteq BOOLEAN
    OBVIOUS
  <2>2. /\ {chan, guild} \subseteq [Instances -> Guilds \cup {None}]
        /\ registered \subseteq Guilds /\ lastError \subseteq Guilds \cup Instances
        /\ {menus, doubt} \subseteq SUBSET Guilds
        /\ passes \in [Callers -> PassRecords]
    BY DEF MenuInv, MenuTypes
  <2> QED BY <2>1, <2>2 DEF WireTypes, EventNumbers, Clients, Links, PassRecords, GatewayTypeOK
<1> QED BY <1>1, <1>2, <1>3, PTL DEF GatewaySpec
=============================================================================
