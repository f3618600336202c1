--------------------------- MODULE NightlyProofs ---------------------------
(***************************************************************************)
(* What is proved of module Nightly and of the cache in it, for any        *)
(* instances, fetchers, files and bounds.                                  *)
(***************************************************************************)
EXTENDS Nightly, TLAPS

-----------------------------------------------------------------------------
(***************************************************************************)
(* The cache                                                               *)
(***************************************************************************)

\* A thread that nobody came between has the staging directory to itself.
AloneInIt ==
  \A f \in Fetchers :
    f \in Threads /\ fetch[f].alone =>
      /\ Threads = {f}
      /\ Members \ fetch[f].left \subseteq staging.files
      /\ fetch[f].pc = "replacing" => fetch[f].left = {}

EntryWhole == entry.mark = "complete" /\ ~doubted => entry.files = Members

CacheInv == CacheTypeOK /\ AloneInIt /\ EntryWhole /\ ~spoilt

LEMMA DirectoryFacts ==
  /\ NoDirectory \in Directory /\ NoDirectory.mark = "none"
  /\ Whole \in Directory /\ Whole.files = Members /\ [Whole EXCEPT !.mark = "old"] \in Directory
  /\ [Whole EXCEPT !.mark = "old"].mark = "old"
  /\ [NoDirectory EXCEPT !.here = TRUE] \in Directory
BY DEF NoDirectory, Whole, Directory, Marks

Fetching == [pc : {"idle", "asking", "writing", "written", "unpacking", "replacing",
                   "done", "refused", "broken"},
             linked : BOOLEAN, left : SUBSET Members, alone : BOOLEAN]

LEMMA IdleFetch ==
  /\ Idle \in Fetching /\ Idle.pc = "idle"
  /\ \A how \in {"done", "refused", "broken"} :
       /\ [Idle EXCEPT !.pc = how] \in Fetching
       /\ [Idle EXCEPT !.pc = how].pc = how
  /\ \A g \in Fetching : /\ Unlinked(g) \in Fetching /\ Unlinked(g).pc = g.pc
                         /\ Unlinked(g).left = g.left /\ Unlinked(g).alone = g.alone
  /\ \A g \in Fetching : /\ [g EXCEPT !.alone = FALSE] \in Fetching
                         /\ [g EXCEPT !.alone = FALSE].pc = g.pc
                         /\ [g EXCEPT !.alone = FALSE].alone = FALSE
BY DEF Idle, Fetching, Unlinked

LEMMA CacheInitial == CacheInit => CacheInv
<1> SUFFICES ASSUME CacheInit PROVE CacheInv
  OBVIOUS
<1>1. CacheTypeOK
  BY DirectoryFacts, IdleFetch DEF CacheInit, CacheTypeOK, Fetching
<1>2. AloneInIt
  BY IdleFetch DEF CacheInit, AloneInIt, Threads
<1>3. EntryWhole /\ ~spoilt
  BY DirectoryFacts DEF CacheInit, EntryWhole
<1> QED BY <1>1, <1>2, <1>3 DEF CacheInv

\* What anybody does to the cache.
CacheMoves ==
  \/ \E f \in Fetchers :
       \/ Fetch(f) \/ Opens(f) \/ Writes(f) \/ DownloadFails(f)
       \/ Unpacks(f) \/ NothingToUnpack(f) \/ MemberFails(f)
       \/ \E m \in Members : Member(f, m)
       \/ Marked(f) \/ Replaces(f) \/ ReplaceFails(f)
       \/ fetch[f].pc \in {"done", "refused", "broken"} /\ Takes(f)
  \/ Upload \/ Clear \/ CacheCrash
  \/ UNCHANGED cacheVars

\* One fetcher that is no thread becomes another that is none.
LEMMA NotAThread ==
  ASSUME CacheInv, NEW f \in Fetchers, f \notin Threads,
         fetch' \in [Fetchers -> Fetching],
         fetch'[f].pc \notin {"unpacking", "replacing"},
         \A g \in Fetchers : g # f => /\ fetch'[g].pc = fetch[g].pc
                                      /\ fetch'[g].left = fetch[g].left
                                      /\ fetch'[g].alone = fetch[g].alone,
         staging' = staging
  PROVE  AloneInIt'
<1>1. Threads' = Threads
  BY DEF Threads
<1> QED BY <1>1 DEF CacheInv, AloneInIt, Threads

\* The only thread that was alone ends.
LEMMA ThreadEnds ==
  ASSUME CacheInv, NEW f \in Threads,
         fetch' \in [Fetchers -> Fetching],
         fetch'[f].pc \notin {"unpacking", "replacing"},
         \A g \in Fetchers : g # f => /\ fetch'[g].pc = fetch[g].pc
                                      /\ fetch'[g].alone = fetch[g].alone
  PROVE  AloneInIt'
BY DEF CacheInv, AloneInIt, Threads

LEMMA RaisedFetch ==
  ASSUME fetch \in [Fetchers -> Fetching], NEW f \in Fetchers, NEW how \in {"done", "refused", "broken"}
  PROVE  /\ Raised(f, how) \in [Fetchers -> Fetching]
         /\ Raised(f, how)[f].pc = how
         /\ \A g \in Fetchers : g # f => /\ Raised(f, how)[g].pc = fetch[g].pc
                                         /\ Raised(f, how)[g].left = fetch[g].left
                                         /\ Raised(f, how)[g].alone = fetch[g].alone
BY IdleFetch DEF Raised

LEMMA RaisedEnds ==
  ASSUME CacheInv, fetch \in [Fetchers -> Fetching], NEW f \in Threads,
         NEW how \in {"done", "refused", "broken"}, fetch' = Raised(f, how)
  PROVE  AloneInIt' /\ fetch' \in [Fetchers -> Fetching]
<1>1. f \in Fetchers
  BY DEF Threads
<1>2. /\ fetch' \in [Fetchers -> Fetching] /\ fetch'[f].pc \notin {"unpacking", "replacing"}
      /\ \A g \in Fetchers : g # f => /\ fetch'[g].pc = fetch[g].pc
                                      /\ fetch'[g].alone = fetch[g].alone
  BY <1>1, RaisedFetch
<1> QED BY <1>2, ThreadEnds

LEMMA DisturbedFetch ==
  ASSUME NEW fs \in [Fetchers -> Fetching]
  PROVE  /\ Disturbed(fs) \in [Fetchers -> Fetching]
         /\ \A g \in Fetchers : ~Disturbed(fs)[g].alone
BY IdleFetch DEF Disturbed

LEMMA CacheStep == CacheInv /\ CacheMoves => CacheInv'
<1> SUFFICES ASSUME CacheInv, CacheMoves PROVE CacheInv'
  OBVIOUS
<1> USE DirectoryFacts
<1>t. /\ fetch \in [Fetchers -> Fetching] /\ part \in {"none", "empty", "full"}
      /\ staging \in Directory /\ entry \in Directory /\ {doubted, spoilt} \subseteq BOOLEAN
  BY DEF CacheInv, CacheTypeOK, Fetching
<1>i. AloneInIt /\ EntryWhole /\ ~spoilt
  BY DEF CacheInv
<1>q. ASSUME fetch' \in [Fetchers -> Fetching], part' \in {"none", "empty", "full"},
             staging' \in Directory, entry' \in Directory, doubted' \in BOOLEAN,
             AloneInIt', EntryWhole', ~spoilt', spoilt' \in BOOLEAN
      PROVE  CacheInv'
  BY <1>q DEF CacheInv, CacheTypeOK, Fetching
<1>1. ASSUME NEW f \in Fetchers, Fetch(f) PROVE CacheInv'
  <2>1. ~spoilt' /\ spoilt' \in BOOLEAN
    <3>1. CASE Cached
      BY <3>1, <1>1, <1>i, <1>t DEF Fetch, Returns, Cached, EntryWhole
    <3>2. CASE ~Cached
      BY <3>2, <1>1, <1>i, <1>t DEF Fetch
    <3> QED BY <3>1, <3>2
  <2>2. fetch[f].pc = "idle" /\ fetch' \in [Fetchers -> Fetching] /\ fetch'[f].pc \in {"done", "asking"}
    <3>1. CASE Cached
      BY <3>1, <1>1, <1>t, IdleFetch DEF Fetch, Returns
    <3>2. CASE ~Cached
      BY <3>2, <1>1, <1>t DEF Fetch, Fetching
    <3> QED BY <3>1, <3>2
  <2>3. \A g \in Fetchers : g # f => fetch'[g] = fetch[g]
    <3>1. CASE Cached
      BY <3>1, <1>1, <1>t DEF Fetch, Returns
    <3>2. CASE ~Cached
      BY <3>2, <1>1, <1>t DEF Fetch
    <3> QED BY <3>1, <3>2
  <2>4. AloneInIt'
    BY <1>1, <2>2, <2>3, NotAThread DEF Fetch, Threads
  <2> QED BY <1>1, <1>t, <1>i, <1>q, <2>1, <2>2, <2>4 DEF Fetch, EntryWhole
<1>2. ASSUME NEW f \in Fetchers, Opens(f) \/ Writes(f) PROVE CacheInv'
  <2>1. /\ fetch[f].pc \in {"asking", "writing"} /\ fetch' \in [Fetchers -> Fetching]
        /\ fetch'[f].pc \in {"writing", "written"}
    <3>1. CASE Opens(f)
      BY <3>1, <1>t DEF Opens, Fetching
    <3>2. CASE Writes(f)
      BY <3>2, <1>t DEF Writes, Fetching
    <3> QED BY <1>2, <3>1, <3>2
  <2>2. \A g \in Fetchers : g # f => fetch'[g] = fetch[g]
    <3>1. CASE Opens(f)
      BY <3>1, <1>t DEF Opens
    <3>2. CASE Writes(f)
      BY <3>2, <1>t DEF Writes
    <3> QED BY <1>2, <3>1, <3>2
  <2>3. /\ part' \in {"none", "empty", "full"}
        /\ UNCHANGED <<staging, entry, doubted, spoilt>>
    <3>1. CASE Opens(f)
      BY <3>1 DEF Opens
    <3>2. CASE Writes(f)
      BY <3>2, <1>t DEF Writes
    <3> QED BY <1>2, <3>1, <3>2
  <2>4. AloneInIt'
    BY <2>1, <2>2, <2>3, NotAThread DEF Threads
  <2> QED BY <1>t, <1>i, <1>q, <2>1, <2>3, <2>4 DEF EntryWhole
<1>3. ASSUME NEW f \in Fetchers, DownloadFails(f) PROVE CacheInv'
  <2>1. PICK how \in {"refused", "broken"} : Raises(f, how)
    BY <1>3 DEF DownloadFails
  <2>2. fetch[f].pc \in {"asking", "writing"} /\ UNCHANGED <<staging, entry, doubted, spoilt>>
    BY <1>3 DEF DownloadFails
  <2>3. AloneInIt' /\ fetch' \in [Fetchers -> Fetching]
    <3>1. fetch' = Raised(f, how) /\ how \in {"done", "refused", "broken"}
      BY <2>1 DEF Raises
    <3>2. /\ fetch' \in [Fetchers -> Fetching] /\ fetch'[f].pc = how
          /\ \A g \in Fetchers : g # f => /\ fetch'[g].pc = fetch[g].pc
                                          /\ fetch'[g].left = fetch[g].left
                                          /\ fetch'[g].alone = fetch[g].alone
      BY <3>1, <1>t, RaisedFetch
    <3>3. f \notin Threads /\ fetch'[f].pc \notin {"unpacking", "replacing"}
      BY <2>2, <3>1, <3>2 DEF Threads
    <3> QED BY <2>2, <3>2, <3>3, NotAThread
  <2> QED BY <1>t, <1>i, <1>q, <2>1, <2>2, <2>3 DEF Raises, EntryWhole
<1>4. ASSUME NEW f \in Fetchers, Unpacks(f) PROVE CacheInv'
  <2>1. /\ fetch[f].pc = "written" /\ staging' = [NoDirectory EXCEPT !.here = TRUE]
        /\ UNCHANGED <<part, entry, doubted, spoilt>>
    BY <1>4 DEF Unpacks
  <2> DEFINE mine == [fetch[f] EXCEPT !.pc = "unpacking", !.left = Members, !.alone = Threads = {}]
  <2>2. /\ mine \in Fetching /\ mine.pc = "unpacking" /\ mine.left = Members
        /\ mine.alone <=> Threads = {}
    BY <1>t DEF Fetching
  <2>3. fetch'[f] = mine /\ \A g \in Fetchers : g # f => fetch'[g] = [fetch[g] EXCEPT !.alone = FALSE]
    BY <1>4 DEF Unpacks
  <2> HIDE DEF mine
  <2>4. fetch' \in [Fetchers -> Fetching]
    <3>1. fetch' = [g \in Fetchers |-> IF g = f THEN mine ELSE [fetch[g] EXCEPT !.alone = FALSE]]
      BY <1>4 DEF Unpacks, mine
    <3> QED BY <3>1, <2>2, <1>t, IdleFetch
  <2>5. AloneInIt'
    <3>1. SUFFICES ASSUME NEW g \in Fetchers, g \in Threads', fetch'[g].alone
                   PROVE  /\ Threads' = {g} /\ Members \ fetch'[g].left = {}
                          /\ fetch'[g].pc # "replacing"
      BY DEF AloneInIt
    <3>2. g = f
      <4>1. ASSUME NEW h \in Fetchers, h # f PROVE ~fetch'[h].alone
        <5>1. fetch[h] \in Fetching /\ fetch'[h] = [fetch[h] EXCEPT !.alone = FALSE]
          BY <4>1, <2>3, <1>t
        <5> QED BY ONLY <5>1, IdleFetch
      <4> QED BY <4>1, <3>1
    <3>3. Threads = {}
      BY <2>2, <2>3, <3>1, <3>2
    <3>4. \A h \in Fetchers : h # f => fetch'[h].pc \notin {"unpacking", "replacing"}
      <4>1. \A h \in Fetchers : fetch[h].pc \notin {"unpacking", "replacing"}
        BY <3>3 DEF Threads
      <4>2. ASSUME NEW h \in Fetchers, h # f PROVE fetch'[h].pc = fetch[h].pc
        <5>1. fetch[h] \in Fetching /\ fetch'[h] = [fetch[h] EXCEPT !.alone = FALSE]
          BY <4>2, <2>3, <1>t
        <5> QED BY ONLY <5>1, IdleFetch
      <4> QED BY <4>1, <4>2
    <3> QED BY <2>2, <2>3, <3>2, <3>4 DEF Threads
  <2> QED BY <1>t, <1>i, <1>q, <2>1, <2>4, <2>5 DEF EntryWhole
<1>5. ASSUME NEW f \in Fetchers, NothingToUnpack(f) PROVE CacheInv'
  <2>1. PICK how \in {"refused", "broken"} : fetch' = Disturbed(Raised(f, how))
    BY <1>5 DEF NothingToUnpack
  <2>2. fetch' \in [Fetchers -> Fetching] /\ \A g \in Fetchers : ~fetch'[g].alone
    BY <1>t, <2>1, RaisedFetch, DisturbedFetch
  <2>3. AloneInIt'
    BY <2>2 DEF AloneInIt
  <2> QED BY <1>5, <1>t, <1>i, <1>q, <2>2, <2>3 DEF NothingToUnpack, EntryWhole
<1>6. ASSUME NEW f \in Fetchers, NEW m \in Members, Member(f, m) PROVE CacheInv'
  <2>1. /\ f \in Threads /\ m \in fetch[f].left /\ fetch[f].pc = "unpacking"
        /\ UNCHANGED <<part, entry, doubted, spoilt>>
    BY <1>6 DEF Member, Threads
  <2>2. staging' \in Directory /\ staging'.files = staging.files \cup {m}
    BY <1>6, <1>t DEF Member, Directory
  <2>3. /\ fetch' \in [Fetchers -> Fetching] /\ fetch'[f].left = fetch[f].left \ {m}
        /\ fetch'[f].pc = "unpacking" /\ fetch'[f].alone = fetch[f].alone
        /\ \A g \in Fetchers : g # f => fetch'[g] = fetch[g]
    BY <1>6, <1>t DEF Member, Fetching
  <2>4. Threads' = Threads
    BY <2>1, <2>3 DEF Threads
  <2>5. AloneInIt'
    BY <1>i, <2>1, <2>2, <2>3, <2>4 DEF AloneInIt
  <2> QED BY <1>t, <1>i, <1>q, <2>1, <2>2, <2>3, <2>5 DEF EntryWhole
<1>7. ASSUME NEW f \in Fetchers, MemberFails(f) PROVE CacheInv'
  <2>1. PICK how \in {"refused", "broken"} : Raises(f, how)
    BY <1>7 DEF MemberFails
  <2>2. f \in Threads /\ UNCHANGED <<entry, doubted, spoilt>> /\ staging' \in Directory
    BY <1>7, <1>t DEF MemberFails, Threads
  <2>3. AloneInIt' /\ fetch' \in [Fetchers -> Fetching]
    <3>1. fetch' = Raised(f, how) /\ how \in {"done", "refused", "broken"}
      BY <2>1 DEF Raises
    <3> QED BY <1>t, <2>2, <3>1, RaisedEnds
  <2> QED BY <1>t, <1>i, <1>q, <2>1, <2>2, <2>3 DEF Raises, EntryWhole
<1>8. ASSUME NEW f \in Fetchers, Marked(f) PROVE CacheInv'
  <2>1. f \in Threads /\ fetch[f].left = {} /\ UNCHANGED <<part, entry, doubted, spoilt>>
    BY <1>8 DEF Marked, Threads
  <2>2. staging' \in Directory /\ staging'.files = staging.files
    BY <1>8, <1>t DEF Marked, Directory, Marks
  <2>3. /\ fetch' \in [Fetchers -> Fetching] /\ fetch'[f].left = {}
        /\ fetch'[f].pc = "replacing" /\ fetch'[f].alone = fetch[f].alone
        /\ \A g \in Fetchers : g # f => fetch'[g] = fetch[g]
    BY <1>8, <2>1, <1>t DEF Marked, Fetching
  <2>4. Threads' = Threads
    BY <2>1, <2>3 DEF Threads
  <2>5. AloneInIt'
    BY <1>i, <2>1, <2>2, <2>3, <2>4 DEF AloneInIt
  <2> QED BY <1>t, <1>i, <1>q, <2>1, <2>2, <2>3, <2>5 DEF EntryWhole
<1>9. ASSUME NEW f \in Fetchers, Replaces(f) PROVE CacheInv'
  <2>1. /\ f \in Threads /\ fetch[f].pc = "replacing" /\ entry' = staging /\ staging' = NoDirectory
        /\ doubted' = ~fetch[f].alone /\ part' = "none"
        /\ spoilt' = (spoilt \/ (~doubted' /\ entry'.files # Members))
    BY <1>9 DEF Replaces, Threads
  <2>2. fetch' = Raised(f, "done")
    BY <1>9 DEF Replaces, Raised
  <2>3. AloneInIt' /\ fetch' \in [Fetchers -> Fetching]
    BY <1>t, <2>1, <2>2, RaisedEnds
  <2>4. fetch[f].alone => staging.files = Members
    BY <1>i, <1>t, <2>1 DEF AloneInIt, Directory
  <2>5. fetch[f].alone \in BOOLEAN
    BY <1>t DEF Fetching
  <2> QED BY <1>t, <1>i, <1>q, <2>1, <2>3, <2>4, <2>5 DEF EntryWhole
<1>10. ASSUME NEW f \in Fetchers, ReplaceFails(f) PROVE CacheInv'
  <2>1. /\ f \in Threads /\ Raises(f, "broken") /\ UNCHANGED <<staging, spoilt>>
        /\ \/ UNCHANGED <<entry, doubted>>
           \/ entry' = NoDirectory /\ doubted' = FALSE
    BY <1>10 DEF ReplaceFails, Threads
  <2>2. AloneInIt' /\ fetch' \in [Fetchers -> Fetching]
    BY <1>t, <2>1, RaisedEnds DEF Raises
  <2>3. entry' \in Directory /\ doubted' \in BOOLEAN /\ EntryWhole'
    <3>1. CASE UNCHANGED <<entry, doubted>>
      BY <3>1, <1>t, <1>i DEF EntryWhole
    <3>2. CASE entry' = NoDirectory /\ doubted' = FALSE
      BY <3>2 DEF EntryWhole
    <3> QED BY <2>1, <3>1, <3>2
  <2>4. part' \in {"none", "empty", "full"}
    BY <2>1 DEF Raises
  <2> QED BY <1>t, <1>i, <1>q, <2>1, <2>2, <2>3, <2>4
<1>11. ASSUME NEW f \in Fetchers, fetch[f].pc \in {"done", "refused", "broken"}, Takes(f) PROVE CacheInv'
  <2>1. fetch' \in [Fetchers -> Fetching] /\ fetch'[f].pc = "idle"
        /\ \A g \in Fetchers : g # f => fetch'[g] = fetch[g]
    BY <1>11, <1>t, IdleFetch DEF Takes
  <2>2. UNCHANGED <<part, staging, entry, doubted, spoilt>>
    BY <1>11 DEF Takes
  <2>3. AloneInIt'
    BY <1>11, <2>1, <2>2, NotAThread DEF Threads
  <2> QED BY <1>t, <1>i, <1>q, <2>1, <2>2, <2>3 DEF EntryWhole
<1>12. ASSUME Upload \/ Clear PROVE CacheInv'
  <2>1. PICK fs \in [Fetchers -> Fetching] : fetch' = Disturbed(fs)
    <3>1. [g \in Fetchers |-> Unlinked(fetch[g])] \in [Fetchers -> Fetching]
      BY <1>t, IdleFetch
    <3> QED BY <1>12, <1>t, <3>1 DEF Upload, Clear
  <2>2. fetch' \in [Fetchers -> Fetching] /\ AloneInIt'
    BY <2>1, DisturbedFetch DEF AloneInIt
  <2>3. EntryWhole'
    BY <1>12 DEF Upload, Clear, EntryWhole
  <2>4. /\ part' \in {"none", "empty", "full"} /\ staging' \in Directory /\ entry' \in Directory
        /\ doubted' \in BOOLEAN /\ UNCHANGED spoilt
    <3>1. CASE Upload
      BY <3>1, <1>t DEF Upload
    <3>2. CASE Clear
      BY <3>2 DEF Clear
    <3> QED BY <1>12, <3>1, <3>2
  <2> QED BY <1>t, <1>i, <1>q, <2>2, <2>3, <2>4
<1>13. ASSUME CacheCrash PROVE CacheInv'
  <2>1. fetch' \in [Fetchers -> Fetching] /\ AloneInIt'
    BY <1>13, IdleFetch DEF CacheCrash, AloneInIt, Threads
  <2>2. entry' \in Directory /\ doubted' \in BOOLEAN /\ EntryWhole'
    <3>1. CASE UNCHANGED <<entry, doubted>> \/ (entry' = NoDirectory /\ doubted' = FALSE)
      BY <3>1, <1>t, <1>i DEF EntryWhole
    <3>2. ASSUME NEW files \in SUBSET entry.files, NEW mark \in {entry.mark, "none"},
                 entry' = [here |-> TRUE, files |-> files, mark |-> mark],
                 doubted' = (doubted \/ (entry'.mark = "complete" /\ entry'.files # entry.files))
          PROVE  entry' \in Directory /\ doubted' \in BOOLEAN /\ EntryWhole'
      BY <3>2, <1>t, <1>i DEF EntryWhole, Directory, Marks
    <3> QED BY <1>13, <3>1, <3>2 DEF CacheCrash
  <2> QED BY <1>13, <1>t, <1>i, <1>q, <2>1, <2>2 DEF CacheCrash
<1>14. ASSUME UNCHANGED cacheVars PROVE CacheInv'
  BY <1>14 DEF cacheVars, CacheInv, CacheTypeOK, AloneInIt, EntryWhole, Threads
<1> QED BY <1>1, <1>2, <1>3, <1>4, <1>5, <1>6, <1>7, <1>8, <1>9, <1>10, <1>11, <1>12, <1>13, <1>14
        DEF CacheMoves

LEMMA NextMoves == [Next]_vars => CacheMoves
<1> SUFFICES ASSUME [Next]_vars PROVE CacheMoves
  OBVIOUS
<1>c. Checkers \subseteq Fetchers
  BY CheckersAssumption DEF Checkers
<1>1. ASSUME NEW c \in Checkers,
             \/ Asks(c) \/ Answered(c) \/ AnsweredStale(c) \/ Retries(c) \/ Downloads(c)
             \/ Installed(c) \/ NotInstalled(c) \/ Escapes(c) \/ Reports(c)
      PROVE  CacheMoves
  BY <1>1, <1>c DEF Asks, Answered, AnsweredStale, Retries, Downloads, Installed, NotInstalled, Escapes,
                    Reports, CacheMoves
<1>2. ASSUME NEW i \in Instances,
             NotDue(i) \/ CheckBegins(i) \/ CheckSkipped(i) \/ ByHand(i) \/ SavesSchedule(i)
      PROVE  CacheMoves
  BY <1>2 DEF NotDue, CheckBegins, CheckSkipped, ByHand, SavesSchedule, CacheMoves
<1>3. ASSUME NEW f \in Fetchers, Wants(f) PROVE CacheMoves
  BY <1>3 DEF Wants, CacheMoves
<1>4. CacheSteps \/ CacheUpsets => CacheMoves
  BY DEF CacheSteps, CacheUpsets, CacheMoves
<1>5. BackgroundLoad \/ Refresh \/ PassBegins \/ Release \/ TimePasses \/ UNCHANGED vars
        => UNCHANGED cacheVars
  BY DEF BackgroundLoad, PageAsks, PageAnswered, PageUnanswered, Refresh, PassBegins, Release, TimePasses, vars
<1>6. Crash => CacheCrash
  BY DEF Crash
<1> QED BY <1>1, <1>2, <1>3, <1>4, <1>5, <1>6 DEF Next, CacheMoves

\* What ensure_cached hands out is the whole package, for any number of
\* fetchers and files.
THEOREM ServedWholeCorrect == Spec => []ServedWhole
<1>1. Init => CacheInv
  BY CacheInitial DEF Init
<1>2. CacheInv /\ [Next]_vars => CacheInv'
  BY CacheStep, NextMoves
<1>3. CacheInv => ServedWhole
  BY DEF CacheInv, ServedWhole
<1> QED BY <1>1, <1>2, <1>3, PTL DEF Spec

-----------------------------------------------------------------------------
(***************************************************************************)
(* What a report says                                                      *)
(***************************************************************************)
SaidInv ==
  /\ released \in BOOLEAN
  /\ \A c \in Checkers : check[c].began => released
  /\ DOMAIN check = Checkers
  /\ ~outdated

LEMMA SaidInitial == Init => SaidInv
<1>1. ~NoCheck.began
  BY DEF NoCheck
<1>2. Init => released = FALSE /\ check = [c \in Checkers |-> NoCheck] /\ outdated = FALSE
  BY DEF Init
<1> QED BY <1>1, <1>2 DEF SaidInv

\* A check gets its end, or goes on.
LEMMA SaidStep == SaidInv /\ [Next]_vars => SaidInv'
<1> SUFFICES ASSUME SaidInv, [Next]_vars PROVE SaidInv'
  OBVIOUS
<1> USE DEF SaidInv
<1>k. ~NoCheck.began
  BY DEF NoCheck
<1>1. ASSUME NEW c \in Checkers, Asks(c) PROVE SaidInv'
  BY <1>1 DEF Asks
<1>2. ASSUME NEW c \in Checkers, Answered(c) PROVE SaidInv'
  <2>1. catalogue' = Offered /\ UNCHANGED released
    BY <1>2 DEF Answered, Fetched
  <2>2. check[c].began => catalogue' = "new"
    BY <2>1 DEF Offered
  <2>3. ~outdated'
    BY <1>2, <2>2 DEF Answered, Compares
  <2>4. PICK pc \in {"reporting", "installing"} :
          check' = [check EXCEPT ![c] = [@ EXCEPT !.pc = pc, !.stale = FALSE]]
    BY <1>2 DEF Answered, Compares
  <2> QED BY <2>1, <2>3, <2>4
<1>3. ASSUME NEW c \in Checkers, AnsweredStale(c) PROVE SaidInv'
  <2>1. ~outdated' /\ UNCHANGED released
    BY <1>3 DEF AnsweredStale, Compares
  <2>2. PICK pc \in {"reporting", "installing"} :
          check' = [check EXCEPT ![c] = [@ EXCEPT !.pc = pc, !.stale = TRUE]]
    BY <1>3 DEF AnsweredStale, Compares
  <2> QED BY <2>1, <2>2
<1>4. ASSUME NEW c \in Checkers, Retries(c) \/ Escapes(c) \/ Reports(c) PROVE SaidInv'
  <2>1. check' = [check EXCEPT ![c] = NoCheck] /\ UNCHANGED <<released, outdated>>
    BY <1>4 DEF Retries, Escapes, Reports, Over, index
  <2> QED BY <2>1, <1>k
<1>5. ASSUME NEW c \in Checkers, Downloads(c) \/ Installed(c) \/ NotInstalled(c) PROVE SaidInv'
  <2>1. UNCHANGED <<released, outdated>>
    BY <1>5 DEF Downloads, Installed, NotInstalled, index
  <2>2. check' = check \/ check' = [check EXCEPT ![c].pc = "reporting"]
    BY <1>5 DEF Downloads, Installed, NotInstalled
  <2>3. CASE check' = check
    BY <2>1, <2>3
  <2>4. CASE check' = [check EXCEPT ![c].pc = "reporting"]
    BY <2>1, <2>4
  <2> QED BY <2>2, <2>3, <2>4
<1>6. ASSUME NEW i \in Instances, NEW c \in Checkers, Begins(c, i), UNCHANGED <<released, outdated>>
      PROVE  SaidInv'
  <2> DEFINE k == [NoCheck EXCEPT !.pc = "index", !.of = i, !.began = released]
  <2>1. k.began = released
    BY DEF NoCheck
  <2>2. check' = [check EXCEPT ![c] = k]
    BY <1>6 DEF Begins
  <2> HIDE DEF k
  <2> QED BY <1>6, <2>1, <2>2
<1>7. ASSUME NEW i \in Instances, CheckBegins(i) \/ ByHand(i) PROVE SaidInv'
  BY <1>6, <1>7 DEF CheckBegins, ByHand, Checkers, index
<1>8. ASSUME NEW i \in Instances, NotDue(i) \/ CheckSkipped(i) \/ SavesSchedule(i) PROVE SaidInv'
  BY <1>8 DEF NotDue, CheckSkipped, SavesSchedule, index
<1>9. ASSUME BackgroundLoad \/ Refresh \/ PassBegins \/ TimePasses \/ UNCHANGED vars PROVE SaidInv'
  BY <1>9 DEF BackgroundLoad, PageAsks, PageAnswered, PageUnanswered, Refresh, Fetched, PassBegins, TimePasses,
              vars, index
<1>10. ASSUME (\E f \in Fetchers : Wants(f)) \/ CacheSteps \/ CacheUpsets PROVE SaidInv'
  BY <1>10 DEF Wants, CacheSteps, CacheUpsets, index
<1>11. ASSUME Release PROVE SaidInv'
  BY <1>11 DEF Release
<1>12. ASSUME Crash PROVE SaidInv'
  BY <1>12, <1>k DEF Crash
<1> QED BY <1>1, <1>2, <1>3, <1>4, <1>5, <1>7, <1>8, <1>9, <1>10, <1>11, <1>12 DEF Next

\* A check that does not say that its catalogue is an old one has seen every
\* release that was out when it began, for any instances and bounds.
THEOREM CurrentOrSaidCorrect == Spec => []CurrentOrSaid
<1>1. SaidInv => CurrentOrSaid
  BY DEF SaidInv, CurrentOrSaid
<1> QED BY <1>1, SaidInitial, SaidStep, PTL DEF Spec

-----------------------------------------------------------------------------
(***************************************************************************)
(* Types, and who is under a scheduled check                               *)
(***************************************************************************)
Of == check["schedule"].of
Checks == [pc : {"idle", "index", "fetching", "installing", "reporting"},
           of : Instances \cup {None}, stale : BOOLEAN, began : BOOLEAN]

ScheduleType ==
  /\ clock \in [day : Days, at : {"before", "due", "after"}]
  /\ off \subseteq Instances
  /\ last \in [Instances -> 0..MaxDays]
  /\ pass \in [todo : SUBSET Instances, now : 0..MaxDays, previous : 0..MaxDays, replaced : BOOLEAN]
  /\ reports \in [Instances -> [Days -> 0..2]]
  /\ lost \subseteq Instances \X Days

IndexType ==
  /\ installed \subseteq Instances
  /\ {catalogue, disk} \subseteq {"none", "old", "new"}
  /\ lock \in Checkers \cup {"page", "button", None}
  /\ upsets \in 0..MaxUpsets
  /\ {released, outdated} \subseteq BOOLEAN

\* Whoever is checked has a check that is not over.
CheckSound ==
  /\ check \in [Checkers -> Checks]
  /\ \A c \in Checkers : check[c].of = None <=> check[c].pc = "idle"

\* The scheduler checks an instance of its pass.
OfThePass ==
  /\ Of # None => Of \in pass.todo
  /\ pass.todo # {} => pass.now \in 1..clock.day

NightInv == ScheduleType /\ IndexType /\ CheckSound /\ OfThePass

LEMMA NoCheckFacts ==
  /\ NoCheck \in Checks /\ NoCheck.pc = "idle" /\ NoCheck.of = None
  /\ "schedule" \in Checkers /\ "hand" \in Checkers /\ None \notin Instances
BY NoneAssumption DEF NoCheck, Checks, Checkers

LEMMA NoPassFacts ==
  /\ NoPass \in [todo : SUBSET Instances, now : 0..MaxDays, previous : 0..MaxDays, replaced : BOOLEAN]
  /\ NoPass.todo = {} /\ NoPass.previous = 0
BY BoundsAssumption DEF NoPass

LEMMA NightInitial == Init => NightInv
<1> SUFFICES ASSUME Init PROVE NightInv
  OBVIOUS
<1>1. ScheduleType
  BY BoundsAssumption, NoPassFacts DEF Init, ScheduleType, Days
<1>2. IndexType
  <2>1. /\ installed = {} /\ catalogue = "none" /\ disk \in {"none", "old"} /\ lock = None
        /\ upsets = 0 /\ released = FALSE /\ outdated = FALSE
    BY DEF Init
  <2>2. upsets \in 0..MaxUpsets
    BY <2>1, BoundsAssumption
  <2>3. /\ {released, outdated} \subseteq BOOLEAN /\ {catalogue, disk} \subseteq {"none", "old", "new"}
        /\ lock \in Checkers \cup {"page", "button", None} /\ installed \subseteq Instances
    BY ONLY <2>1
  <2> QED BY <2>2, <2>3 DEF IndexType
<1>3. CheckSound
  BY NoCheckFacts DEF Init, CheckSound
<1>4. OfThePass
  BY NoCheckFacts, NoPassFacts DEF Init, OfThePass, Of
<1> QED BY <1>1, <1>2, <1>3, <1>4 DEF NightInv

\* A check goes on, for the same instance.
GoesOn(c) ==
  /\ check[c].pc # "idle"
  /\ \E k \in Checks : /\ k.of = check[c].of /\ k.pc # "idle"
                       /\ check' = [check EXCEPT ![c] = k]
  /\ UNCHANGED schedule

LEMMA Working ==
  ASSUME NightInv, NEW c \in Checkers,
         \/ Asks(c) \/ Answered(c) \/ AnsweredStale(c) \/ Installed(c) \/ NotInstalled(c)
  PROVE  GoesOn(c)
<1> DEFINE With(pc, stale) == [check[c] EXCEPT !.pc = pc, !.stale = stale]
<1>t. check \in [Checkers -> Checks] /\ check[c] \in Checks
  BY DEF NightInv, CheckSound
<1>w. \A pc \in {"fetching", "installing", "reporting"}, stale \in BOOLEAN :
        With(pc, stale) \in Checks /\ With(pc, stale).of = check[c].of /\ With(pc, stale).pc = pc
  BY <1>t DEF Checks
<1>s. check[c].stale \in BOOLEAN
  BY <1>t DEF Checks
<1>1. check[c].pc # "idle" /\ UNCHANGED schedule
  BY DEF Asks, Answered, AnsweredStale, Installed, NotInstalled
<1>2. \E pc \in {"fetching", "installing", "reporting"}, stale \in BOOLEAN :
        check' = [check EXCEPT ![c] = With(pc, stale)]
  <2>1. CASE Answered(c)
    <3>1. PICK pc \in {"reporting", "installing"} :
            check' = [check EXCEPT ![c] = [@ EXCEPT !.pc = pc, !.stale = FALSE]]
      BY <2>1 DEF Answered, Compares
    <3> QED BY <3>1
  <2>2. CASE AnsweredStale(c)
    <3>1. PICK pc \in {"reporting", "installing"} :
            check' = [check EXCEPT ![c] = [@ EXCEPT !.pc = pc, !.stale = TRUE]]
      BY <2>2 DEF AnsweredStale, Compares
    <3> QED BY <3>1
  <2>3. CASE Asks(c)
    <3>1. check' = [check EXCEPT ![c].pc = "fetching"]
      BY <2>3 DEF Asks
    <3>2. With("fetching", check[c].stale) = [check[c] EXCEPT !.pc = "fetching"]
      BY <1>t DEF Checks
    <3> QED BY <3>1, <3>2, <1>s
  <2>4. CASE Installed(c) \/ NotInstalled(c)
    <3>1. check' = [check EXCEPT ![c].pc = "reporting"]
      BY <2>4 DEF Installed, NotInstalled
    <3>2. With("reporting", check[c].stale) = [check[c] EXCEPT !.pc = "reporting"]
      BY <1>t DEF Checks
    <3> QED BY <3>1, <3>2, <1>s
  <2> QED BY <2>1, <2>2, <2>3, <2>4
<1> HIDE DEF With
<1>3. PICK pc \in {"fetching", "installing", "reporting"}, stale \in BOOLEAN :
        check' = [check EXCEPT ![c] = With(pc, stale)]
  BY <1>2
<1> QED BY <1>1, <1>3, <1>w DEF GoesOn

LEMMA BeginsFacts ==
  ASSUME CheckSound, IndexType, NEW c \in Checkers, NEW i \in Instances, Begins(c, i)
  PROVE  /\ CheckSound' /\ check'[c].of = i
         /\ \A o \in Checkers : o # c => check'[o] = check[o]
<1> DEFINE k == [NoCheck EXCEPT !.pc = "index", !.of = i, !.began = released]
<1>1. k \in Checks /\ k.of = i /\ k.pc = "index"
  BY DEF NoCheck, Checks, IndexType
<1>2. check' = [check EXCEPT ![c] = k]
  BY DEF Begins
<1> HIDE DEF k
<1> QED BY <1>1, <1>2, NoneAssumption DEF CheckSound

LEMMA OverFacts ==
  ASSUME CheckSound, NEW c \in Checkers, Over(c)
  PROVE  /\ CheckSound' /\ check'[c].of = None
         /\ \A o \in Checkers : o # c => check'[o] = check[o]
BY NoCheckFacts DEF CheckSound, Over

LEMMA CheckStep == NightInv /\ [Next]_vars => CheckSound'
<1> SUFFICES ASSUME NightInv, [Next]_vars PROVE CheckSound'
  OBVIOUS
<1>s. CheckSound /\ IndexType
  BY DEF NightInv
<1>u. check' = check => CheckSound'
  BY <1>s DEF CheckSound
<1>1. ASSUME NEW c \in Checkers, GoesOn(c) PROVE CheckSound'
  BY <1>1, <1>s DEF GoesOn, CheckSound
<1>2. ASSUME NEW c \in Checkers, Retries(c) \/ Escapes(c) \/ Reports(c) PROVE CheckSound'
  BY <1>2, <1>s, OverFacts DEF Retries, Escapes, Reports
<1>3. ASSUME NEW c \in Checkers, Downloads(c) PROVE CheckSound'
  BY <1>3, <1>u DEF Downloads
<1>4. ASSUME NEW i \in Instances, CheckBegins(i) \/ ByHand(i) PROVE CheckSound'
  <2>1. Begins("schedule", i) \/ Begins("hand", i)
    BY <1>4 DEF CheckBegins, ByHand
  <2> QED BY <2>1, <1>s, BeginsFacts, NoCheckFacts
<1>5. ASSUME NEW i \in Instances, NotDue(i) \/ CheckSkipped(i) \/ SavesSchedule(i) PROVE CheckSound'
  BY <1>5, <1>u DEF NotDue, CheckSkipped, SavesSchedule
<1>6. ASSUME BackgroundLoad \/ Refresh \/ PassBegins \/ TimePasses \/ Release \/ UNCHANGED vars PROVE CheckSound'
  BY <1>6, <1>u DEF BackgroundLoad, PageAsks, PageAnswered, PageUnanswered, Refresh, PassBegins, TimePasses,
                    Release, vars
<1>7. ASSUME (\E f \in Fetchers : Wants(f)) \/ CacheSteps \/ CacheUpsets PROVE CheckSound'
  BY <1>7, <1>u DEF Wants, CacheSteps, CacheUpsets
<1>8. ASSUME Crash PROVE CheckSound'
  BY <1>8, NoCheckFacts DEF Crash, CheckSound
<1> QED BY <1>1, <1>2, <1>3, <1>4, <1>5, <1>6, <1>7, <1>8, Working DEF Next

LEMMA UpsetFacts == IndexType /\ (Upset \/ UNCHANGED upsets) => upsets' \in 0..MaxUpsets
BY BoundsAssumption DEF IndexType, Upset

LEMMA IndexStep == NightInv /\ [Next]_vars => IndexType'
<1> SUFFICES ASSUME NightInv, [Next]_vars PROVE IndexType'
  OBVIOUS
<1>i. IndexType /\ CheckSound
  BY DEF NightInv
<1>o. Offered \in {"old", "new"}
  BY DEF Offered
<1>f. Fetched => /\ {catalogue', disk'} \subseteq {"none", "old", "new"}
                 /\ lock' \in Checkers \cup {"page", "button", None} /\ released' = released
  BY <1>o DEF Fetched
<1>u. Upset \/ UNCHANGED upsets => upsets' \in 0..MaxUpsets
  BY <1>i, UpsetFacts
<1>1. ASSUME BackgroundLoad PROVE IndexType'
  <2>1. UNCHANGED <<installed, released, outdated>> /\ (Upset \/ UNCHANGED upsets)
    BY <1>1 DEF BackgroundLoad, PageAsks, PageAnswered, PageUnanswered, Fetched
  <2>2. /\ {catalogue', disk'} \subseteq {"none", "old", "new"}
        /\ lock' \in Checkers \cup {"page", "button", None}
    <3>1. CASE PageAsks
      BY <3>1, <1>i DEF PageAsks, IndexType
    <3>2. CASE PageAnswered
      BY <3>2, <1>i, <1>f DEF PageAnswered, IndexType
    <3>3. CASE PageUnanswered
      BY <3>3, <1>i DEF PageUnanswered, IndexType
    <3> QED BY <1>1, <3>1, <3>2, <3>3 DEF BackgroundLoad
  <2> QED BY <1>i, <1>u, <2>1, <2>2 DEF IndexType
<1>2. ASSUME Refresh PROVE IndexType'
  <2>1. UNCHANGED <<installed, outdated>> /\ (Upset \/ UNCHANGED upsets)
    BY <1>2 DEF Refresh
  <2>2. /\ {catalogue', disk'} \subseteq {"none", "old", "new"} /\ released' = released
        /\ lock' \in Checkers \cup {"page", "button", None}
    BY <1>2, <1>i, <1>f DEF Refresh, IndexType
  <2> QED BY <1>i, <1>u, <2>1, <2>2 DEF IndexType
<1>3. ASSUME NEW c \in Checkers, Answered(c) \/ AnsweredStale(c) PROVE IndexType'
  <2>1. UNCHANGED installed /\ (Upset \/ UNCHANGED upsets)
    BY <1>3 DEF Answered, AnsweredStale
  <2>2. /\ {catalogue', disk'} \subseteq {"none", "old", "new"} /\ released' = released
        /\ lock' \in Checkers \cup {"page", "button", None}
    <3>1. CASE Answered(c)
      BY <3>1, <1>f DEF Answered
    <3>2. CASE AnsweredStale(c)
      BY <3>2, <1>i DEF AnsweredStale, IndexType
    <3> QED BY <1>3, <3>1, <3>2
  <2>3. outdated' \in BOOLEAN
    <3>1. \E b \in BOOLEAN : outdated' = b
      BY <1>3 DEF Answered, AnsweredStale, Compares
    <3> QED BY <3>1
  <2> QED BY <1>i, <1>u, <2>1, <2>2, <2>3 DEF IndexType
<1>4. ASSUME NEW c \in Checkers, Asks(c) \/ Retries(c) PROVE IndexType'
  <2>1. UNCHANGED <<installed, released, catalogue, disk, outdated>> /\ (Upset \/ UNCHANGED upsets)
    BY <1>4 DEF Asks, Retries
  <2>2. lock' \in Checkers \cup {"page", "button", None}
    BY <1>4 DEF Asks, Retries
  <2> QED BY <1>i, <1>u, <2>1, <2>2 DEF IndexType
<1>5. ASSUME NEW c \in Checkers, Installed(c) PROVE IndexType'
  <2>1. check[c].of \in Instances
    BY <1>5, <1>i DEF Installed, CheckSound, Checks
  <2> QED BY <1>5, <1>i, <2>1 DEF Installed, IndexType, index
<1>6. ASSUME NEW c \in Checkers, Downloads(c) \/ NotInstalled(c) \/ Escapes(c) \/ Reports(c) PROVE IndexType'
  BY <1>6, <1>i DEF Downloads, NotInstalled, Escapes, Reports, index, IndexType
<1>7. ASSUME NEW i \in Instances, NotDue(i) \/ CheckBegins(i) \/ CheckSkipped(i) \/ ByHand(i)
      PROVE  IndexType'
  BY <1>7, <1>i DEF NotDue, CheckBegins, CheckSkipped, ByHand, index, IndexType
<1>8. ASSUME (\E i \in Instances : SavesSchedule(i)) \/ CacheUpsets PROVE IndexType'
  BY <1>8, <1>i, <1>u DEF SavesSchedule, CacheUpsets, index, IndexType
<1>9. ASSUME PassBegins \/ TimePasses \/ UNCHANGED vars \/ CacheSteps \/ \E f \in Fetchers : Wants(f)
      PROVE  IndexType'
  BY <1>9, <1>i DEF PassBegins, TimePasses, vars, CacheSteps, Wants, index, IndexType
<1>10. ASSUME Release PROVE IndexType'
  BY <1>10, <1>i DEF Release, IndexType
<1>11. ASSUME Crash PROVE IndexType'
  BY <1>11, <1>i, <1>u DEF Crash, IndexType
<1> QED BY <1>1, <1>2, <1>3, <1>4, <1>5, <1>6, <1>7, <1>8, <1>9, <1>10, <1>11 DEF Next

-----------------------------------------------------------------------------
(***************************************************************************)
(* The day of a check                                                      *)
(***************************************************************************)

\* The last day that is marked for i and is not that of a check under way.
Before(i) == IF Of = i THEN pass.previous ELSE last[i]

DayInv ==
  /\ \A i \in Instances : last[i] <= clock.day /\ (pass.todo # {} => last[i] <= pass.now)
  /\ \A i \in Instances, d \in Days : reports[i][d] >= 1 => d <= Before(i)
  /\ Of # None => /\ last[Of] = pass.now /\ pass.previous < pass.now
                  /\ \A d \in Days : pass.previous = d /\ <<Of, d>> \notin lost => reports[Of][d] = 1
  /\ OncePerDay

ScheduleInv == ScheduleType /\ OfThePass /\ DayInv

LEMMA DayInitial == Init => DayInv
<1> SUFFICES ASSUME Init PROVE DayInv
  OBVIOUS
<1>1. /\ clock.day = 1 /\ last = [i \in Instances |-> 0] /\ Of = None
      /\ reports = [i \in Instances |-> [d \in Days |-> 0]]
  BY NoCheckFacts DEF Init, Of
<1>2. pass.todo = {}
  BY NoPassFacts DEF Init
<1> QED BY <1>1, <1>2 DEF DayInv, OncePerDay, Days

\* Nothing of it moves.
LEMMA SameDay ==
  ASSUME ScheduleInv, UNCHANGED schedule, Of' = Of
  PROVE  ScheduleInv'
<1>1. UNCHANGED <<clock, off, last, pass, reports, lost>>
  BY DEF schedule
<1>2. check'["schedule"].of = check["schedule"].of
  BY DEF Of
<1>3. ScheduleType'
  BY <1>1 DEF ScheduleInv, ScheduleType
<1>4. OfThePass'
  BY <1>1 DEF ScheduleInv, OfThePass
<1>5. OncePerDay'
  BY <1>1, <1>2 DEF ScheduleInv, DayInv, OncePerDay
<1>6. \A i : Before(i)' = Before(i)
  BY <1>1 DEF Before
<1>7. DayInv'
  BY <1>1, <1>5, <1>6 DEF ScheduleInv, DayInv
<1> QED BY <1>3, <1>4, <1>7 DEF ScheduleInv

\* Who is checked stays, and the marks and reports do; the day may have gone
\* on, and the settings been replaced.
LEMMA DayGoesOn ==
  ASSUME ScheduleInv, UNCHANGED <<last, reports, lost>>, Of' = Of,
         clock' \in [day : Days, at : {"before", "due", "after"}], clock.day <= clock'.day,
         off' \subseteq Instances,
         \E b \in BOOLEAN : pass' = pass \/ pass' = [pass EXCEPT !.replaced = b]
  PROVE  ScheduleInv'
<1>1. /\ pass'.todo = pass.todo /\ pass'.now = pass.now /\ pass'.previous = pass.previous
      /\ pass' \in [todo : SUBSET Instances, now : 0..MaxDays, previous : 0..MaxDays, replaced : BOOLEAN]
  BY DEF ScheduleInv, ScheduleType
<1>2. check'["schedule"].of = check["schedule"].of
  BY DEF Of
<1>d. clock.day \in Nat /\ clock'.day \in Nat /\ pass.now \in Nat /\ \A i \in Instances : last[i] \in Nat
  BY BoundsAssumption DEF ScheduleInv, ScheduleType, Days
<1>3. ScheduleType'
  BY <1>1 DEF ScheduleInv, ScheduleType
<1>4. OfThePass'
  BY <1>1, <1>d DEF ScheduleInv, OfThePass
<1>5. OncePerDay'
  BY <1>2 DEF ScheduleInv, DayInv, OncePerDay
<1>6. \A i : Before(i)' = Before(i)
  BY <1>1 DEF Before
<1>7. \A i \in Instances : last'[i] <= clock'.day /\ (pass'.todo # {} => last'[i] <= pass'.now)
  BY <1>1, <1>d DEF ScheduleInv, DayInv
<1>8. DayInv'
  BY <1>1, <1>5, <1>6, <1>7 DEF ScheduleInv, DayInv
<1> QED BY <1>3, <1>4, <1>8 DEF ScheduleInv

\* Nobody is checked before or after the step, and the pass has other
\* instances.
LEMMA PassMoves ==
  ASSUME ScheduleInv, UNCHANGED <<clock, off, last, reports, lost>>, Of = None, Of' = None,
         pass' \in [todo : SUBSET Instances, now : 0..MaxDays, previous : 0..MaxDays, replaced : BOOLEAN],
         pass'.todo # {} => /\ pass'.now \in 1..clock.day
                            /\ \A i \in Instances : last[i] <= pass'.now
  PROVE  ScheduleInv'
<1>1. ScheduleType'
  BY DEF ScheduleInv, ScheduleType
<1>2. OfThePass'
  BY DEF OfThePass
<1>3. \A i \in Instances : Before(i)' = Before(i)
  BY NoneAssumption DEF Before
<1>4. OncePerDay'
  BY NoneAssumption DEF ScheduleInv, DayInv, OncePerDay, Of
<1>5. DayInv'
  BY <1>3, <1>4 DEF ScheduleInv, DayInv
<1> QED BY <1>1, <1>2, <1>5 DEF ScheduleInv

\* The check of the scheduler is over, reported or lost.
LEMMA CheckEnds ==
  ASSUME ScheduleInv, Of \in Instances, Of' = None,
         UNCHANGED <<clock, off, last>>,
         pass' \in [todo : SUBSET Instances, now : 0..MaxDays, previous : 0..MaxDays, replaced : BOOLEAN],
         pass'.todo \subseteq pass.todo, pass'.todo # {} => pass'.now = pass.now,
         \/ lost' = lost \cup {<<Of, pass.now>>} /\ UNCHANGED reports
         \/ UNCHANGED lost /\ reports' = [reports EXCEPT ![Of][pass.now] = IF @ < 2 THEN @ + 1 ELSE @]
  PROVE  ScheduleInv'
<1> DEFINE o == Of
<1>o. o \in Instances /\ o # None
  BY NoneAssumption
<1>f. /\ ScheduleType /\ OfThePass /\ DayInv /\ OncePerDay
  BY DEF ScheduleInv, DayInv
<1>n. /\ pass.now \in Days /\ pass.now \in 1..clock.day /\ o \in pass.todo
      /\ last[o] = pass.now /\ pass.previous < pass.now /\ pass.previous \in Nat
      /\ clock.day \in Nat /\ \A i \in Instances : last[i] \in Nat
      /\ \A i \in Instances, d \in Days : reports[i][d] \in 0..2
  BY <1>f, <1>o, BoundsAssumption DEF ScheduleType, OfThePass, DayInv, Days
<1>b. \A i \in Instances : i # o => Before(i) = last[i]
  BY DEF Before
<1>p. Before(o) = pass.previous
  BY DEF Before
<1>z. reports[o][pass.now] = 0
  <2>1. reports[o][pass.now] >= 1 => pass.now <= Before(o)
    BY <1>n, <1>f, <1>o DEF DayInv
  <2> QED BY <2>1, <1>n, <1>p, <1>o
<1>a. \A i \in Instances : Before(i)' = last[i]
  BY NoneAssumption DEF Before
<1>r. /\ reports' \in [Instances -> [Days -> 0..2]]
      /\ \A i \in Instances, d \in Days : (i # o \/ d # pass.now) => reports'[i][d] = reports[i][d]
      /\ reports'[o][pass.now] \in {0, 1}
      /\ reports'[o][pass.now] = 1 \/ <<o, pass.now>> \in lost'
      /\ \A i \in Instances, d \in Days : (i # o \/ d # pass.now) /\ <<i, d>> \notin lost' => <<i, d>> \notin lost
      /\ lost' \subseteq Instances \X Days
  <2> HIDE DEF o
  <2>1. CASE lost' = lost \cup {<<o, pass.now>>} /\ UNCHANGED reports
    BY <2>1, <1>f, <1>n, <1>o, <1>z DEF ScheduleType
  <2>2. CASE UNCHANGED lost /\ reports' = [reports EXCEPT ![o][pass.now] = IF @ < 2 THEN @ + 1 ELSE @]
    BY <2>2, <1>f, <1>n, <1>o, <1>z DEF ScheduleType
  <2> QED BY <2>1, <2>2 DEF o
<1> HIDE DEF o
<1>1. ScheduleType'
  BY <1>f, <1>r DEF ScheduleType
<1>2. OfThePass'
  BY <1>n, <1>f DEF OfThePass
<1>3. \A i \in Instances, d \in Days : reports'[i][d] >= 1 => d <= Before(i)'
  <2> SUFFICES ASSUME NEW i \in Instances, NEW d \in Days, reports'[i][d] >= 1 PROVE d <= last[i]
    BY <1>a
  <2>d. d \in Nat
    BY DEF Days
  <2>1. CASE i = o /\ d = pass.now
    BY <2>1, <1>n
  <2>2. CASE i # o \/ d # pass.now
    <3>1. d <= Before(i)
      BY <2>2, <1>r, <1>f DEF DayInv
    <3> QED BY <3>1, <2>d, <1>b, <1>p, <1>n
  <2> QED BY <2>1, <2>2
<1>4. OncePerDay'
  <2> SUFFICES ASSUME NEW i \in Instances, NEW d \in Days
               PROVE  /\ reports'[i][d] <= 1
                      /\ last'[i] = d /\ <<i, d>> \notin lost' => reports'[i][d] = 1
    BY DEF OncePerDay
  <2>1. CASE i = o /\ d = pass.now
    BY <2>1, <1>r
  <2>2. CASE i # o
    BY <2>2, <1>r, <1>f DEF OncePerDay, o, Of
  <2>3. CASE i = o /\ d # pass.now
    BY <2>3, <1>r, <1>f, <1>n DEF OncePerDay
  <2> QED BY <2>1, <2>2, <2>3
<1>5. DayInv'
  BY <1>3, <1>4, <1>f DEF DayInv
<1> QED BY <1>1, <1>2, <1>5 DEF ScheduleInv

\* It is over, and the day is put back.
LEMMA DayPutBack ==
  ASSUME ScheduleInv, Of \in Instances, Of' = None,
         UNCHANGED <<clock, off, reports, lost>>, last' = [last EXCEPT ![Of] = pass.previous],
         pass' \in [todo : SUBSET Instances, now : 0..MaxDays, previous : 0..MaxDays, replaced : BOOLEAN],
         pass'.todo \subseteq pass.todo, pass'.now = pass.now
  PROVE  ScheduleInv'
<1>f. /\ ScheduleType /\ OfThePass /\ DayInv /\ OncePerDay
  BY DEF ScheduleInv, DayInv
<1>o. Of # None
  BY NoneAssumption
<1>n. /\ pass.now \in 1..clock.day /\ pass.previous < pass.now /\ pass.previous \in 0..MaxDays
      /\ pass.now \in Nat /\ clock.day \in Nat /\ \A i \in Instances : last[i] \in Nat
      /\ pass.todo # {} /\ \A i \in Instances : last[i] <= clock.day /\ last[i] <= pass.now
  BY <1>f, <1>o, BoundsAssumption DEF ScheduleType, OfThePass, DayInv, Days
<1>1. ScheduleType'
  BY <1>f, <1>n DEF ScheduleType
<1>2. OfThePass'
  BY <1>n DEF OfThePass
<1>3. \A i \in Instances : Before(i)' = Before(i)
  <2> SUFFICES ASSUME NEW i \in Instances PROVE last'[i] = Before(i)
    BY NoneAssumption DEF Before
  <2> QED BY <1>f DEF Before, ScheduleType
<1>4. \A i \in Instances : last'[i] = Before(i) /\ last'[i] <= clock.day /\ last'[i] <= pass.now
  <2>1. \A i \in Instances : last'[i] = IF i = Of THEN pass.previous ELSE last[i]
    BY <1>f DEF ScheduleType
  <2> QED BY <2>1, <1>n DEF Before
<1>5. OncePerDay'
  <2> SUFFICES ASSUME NEW i \in Instances, NEW d \in Days
               PROVE  /\ reports[i][d] <= 1
                      /\ last'[i] = d /\ <<i, d>> \notin lost => reports[i][d] = 1
    BY DEF OncePerDay
  <2>1. CASE i = Of
    BY <2>1, <1>4, <1>f, <1>o DEF DayInv, OncePerDay, Before
  <2>2. CASE i # Of
    BY <2>2, <1>4, <1>f DEF OncePerDay, Before, Of
  <2> QED BY <2>1, <2>2
<1>6. DayInv'
  BY <1>3, <1>4, <1>5, <1>f DEF DayInv
<1> QED BY <1>1, <1>2, <1>6 DEF ScheduleInv

\* The day of i is marked, and the check begins.
LEMMA DayMarked ==
  ASSUME ScheduleInv, Of = None, NEW i \in Instances, Of' = i, i \in pass.todo, last[i] # pass.now,
         UNCHANGED <<clock, off, reports, lost>>, last' = [last EXCEPT ![i] = pass.now],
         pass' = [pass EXCEPT !.previous = last[i], !.replaced = FALSE]
  PROVE  ScheduleInv'
<1>f. /\ ScheduleType /\ OfThePass /\ DayInv /\ OncePerDay
  BY DEF ScheduleInv, DayInv
<1>p. /\ pass'.todo = pass.todo /\ pass'.now = pass.now /\ pass'.previous = last[i]
      /\ pass' \in [todo : SUBSET Instances, now : 0..MaxDays, previous : 0..MaxDays, replaced : BOOLEAN]
  BY <1>f DEF ScheduleType
<1>n. /\ pass.now \in 1..clock.day /\ pass.now \in Nat /\ pass.now \in 0..MaxDays
      /\ clock.day \in Nat /\ \A j \in Instances : last[j] \in Nat
      /\ \A j \in Instances : last[j] <= clock.day /\ last[j] <= pass.now
  BY <1>f, BoundsAssumption DEF ScheduleType, OfThePass, DayInv, Days
<1>1. ScheduleType'
  BY <1>f, <1>p, <1>n DEF ScheduleType
<1>2. OfThePass'
  BY <1>n, <1>p DEF OfThePass
<1>l. \A j \in Instances : last'[j] = IF j = i THEN pass.now ELSE last[j]
  BY <1>f DEF ScheduleType
<1>3. \A j \in Instances : Before(j)' = Before(j)
  BY <1>p, <1>l, NoneAssumption DEF Before
<1>4. \A j \in Instances : last'[j] <= clock.day /\ last'[j] <= pass.now
  BY <1>l, <1>n
<1>5. OncePerDay'
  <2> SUFFICES ASSUME NEW j \in Instances, NEW d \in Days
               PROVE  /\ reports[j][d] <= 1
                      /\ j # i /\ last'[j] = d /\ <<j, d>> \notin lost => reports[j][d] = 1
    BY DEF OncePerDay, Of
  <2>1. check["schedule"].of # j
    BY NoneAssumption DEF Of
  <2> QED BY <2>1, <1>f, <1>l DEF OncePerDay
<1>6. /\ last'[i] = pass'.now /\ pass'.previous < pass'.now
      /\ \A d \in Days : pass'.previous = d /\ <<i, d>> \notin lost => reports[i][d] = 1
  BY <1>f, <1>p, <1>l, <1>n, NoneAssumption DEF OncePerDay, Of
<1>7. DayInv'
  BY <1>3, <1>4, <1>5, <1>6, <1>p, <1>f DEF DayInv
<1> QED BY <1>1, <1>2, <1>7 DEF ScheduleInv

\* The day of i is marked, and there is no check.
LEMMA DayGivenUp ==
  ASSUME ScheduleInv, Of = None, Of' = None, NEW i \in Instances, i \in pass.todo, last[i] # pass.now,
         UNCHANGED <<clock, off, reports>>, last' = [last EXCEPT ![i] = pass.now],
         lost' = lost \cup {<<i, pass.now>>}, pass' = [pass EXCEPT !.todo = @ \ {i}]
  PROVE  ScheduleInv'
<1>f. /\ ScheduleType /\ OfThePass /\ DayInv /\ OncePerDay
  BY DEF ScheduleInv, DayInv
<1>p. /\ pass'.todo = pass.todo \ {i} /\ pass'.now = pass.now /\ pass'.previous = pass.previous
      /\ pass' \in [todo : SUBSET Instances, now : 0..MaxDays, previous : 0..MaxDays, replaced : BOOLEAN]
  BY <1>f DEF ScheduleType
<1>n. /\ pass.now \in 1..clock.day /\ pass.now \in Nat /\ pass.now \in 0..MaxDays /\ pass.now \in Days
      /\ clock.day \in Nat /\ \A j \in Instances : last[j] \in Nat
      /\ \A j \in Instances : last[j] <= clock.day /\ last[j] <= pass.now
  BY <1>f, BoundsAssumption DEF ScheduleType, OfThePass, DayInv, Days
<1>1. ScheduleType'
  BY <1>f, <1>p, <1>n DEF ScheduleType
<1>2. OfThePass'
  BY <1>n, <1>p DEF OfThePass
<1>l. \A j \in Instances : last'[j] = IF j = i THEN pass.now ELSE last[j]
  BY <1>f DEF ScheduleType
<1>3. \A j \in Instances, d \in Days : reports[j][d] >= 1 => d <= Before(j)'
  <2> SUFFICES ASSUME NEW j \in Instances, NEW d \in Days, reports[j][d] >= 1 PROVE d <= last'[j]
    BY NoneAssumption DEF Before
  <2>1. d <= last[j] /\ d \in Nat
    BY <1>f, NoneAssumption DEF DayInv, Before, Days
  <2> QED BY <2>1, <1>l, <1>n
<1>4. \A j \in Instances : last'[j] <= clock.day /\ last'[j] <= pass.now
  BY <1>l, <1>n
<1>5. OncePerDay'
  <2> SUFFICES ASSUME NEW j \in Instances, NEW d \in Days
               PROVE  /\ reports[j][d] <= 1
                      /\ last'[j] = d /\ <<j, d>> \notin lost' => reports[j][d] = 1
    BY DEF OncePerDay
  <2> QED BY <1>f, <1>l, NoneAssumption DEF OncePerDay, Of
<1>6. DayInv'
  BY <1>3, <1>4, <1>5, <1>p, <1>f DEF DayInv
<1> QED BY <1>1, <1>2, <1>6 DEF ScheduleInv

\* Where a step leaves the check of the scheduler.
LEMMA OfTheOther ==
  ASSUME CheckSound, NEW c \in Checkers, c # "schedule",
         \A o \in Checkers : o # c => check'[o] = check[o]
  PROVE  Of' = Of
BY NoCheckFacts DEF Of

LEMMA ScheduleStep == NightInv /\ DayInv /\ [Next]_vars => ScheduleInv'
<1> SUFFICES ASSUME NightInv, DayInv, [Next]_vars PROVE ScheduleInv'
  OBVIOUS
<1>i. ScheduleInv /\ CheckSound /\ IndexType /\ ScheduleType /\ OfThePass
  BY DEF ScheduleInv, NightInv
<1>k. \A c \in Checkers : check[c].pc # "idle" => check[c].of \in Instances
  BY <1>i DEF CheckSound, Checks
<1>e. check["schedule"].pc = "idle" <=> Of = None
  BY <1>i, NoCheckFacts DEF CheckSound, Of
<1>n. Of # None => pass.now \in Days
  <2>1. pass.todo # {} => pass.now \in 1..clock.day /\ pass.now \in 0..MaxDays /\ clock.day \in Days
    BY <1>i DEF ScheduleType, OfThePass
  <2>2. Of # None => pass.todo # {}
    BY <1>i DEF OfThePass
  <2> QED BY <2>1, <2>2, BoundsAssumption DEF Days
<1>l. last \in [Instances -> 0..MaxDays] /\ \A i \in Instances : last[i] <= clock.day /\ last[i] \in Nat
  BY <1>i, BoundsAssumption DEF ScheduleType, DayInv
<1>t. pass \in [todo : SUBSET Instances, now : 0..MaxDays, previous : 0..MaxDays, replaced : BOOLEAN]
  BY <1>i DEF ScheduleType
<1>d. \A S : /\ [pass EXCEPT !.todo = @ \ S].todo = pass.todo \ S
             /\ [pass EXCEPT !.todo = @ \ S].now = pass.now
             /\ [pass EXCEPT !.todo = @ \ S] \in
                  [todo : SUBSET Instances, now : 0..MaxDays, previous : 0..MaxDays, replaced : BOOLEAN]
  BY <1>t
<1>1. ASSUME NEW c \in Checkers, GoesOn(c) PROVE ScheduleInv'
  <2>1. Of' = Of
    BY <1>1, <1>i, NoCheckFacts DEF GoesOn, CheckSound, Of
  <2> QED BY <1>1, <1>i, <2>1, SameDay DEF GoesOn
<1>2. ASSUME NEW c \in Checkers, c # "schedule", Retries(c) \/ Escapes(c) \/ Reports(c) PROVE ScheduleInv'
  <2>1. Of' = Of
    BY <1>2, <1>i, OverFacts, OfTheOther DEF Retries, Escapes, Reports
  <2>2. UNCHANGED schedule
    BY <1>2 DEF Retries, Escapes, Reports, Done, Loses, schedule
  <2> QED BY <1>i, <2>1, <2>2, SameDay
<1>3. ASSUME Retries("schedule") \/ Escapes("schedule") \/ Reports("schedule") PROVE ScheduleInv'
  <2>1. Of \in Instances
    BY <1>3, <1>k, NoCheckFacts DEF Retries, Escapes, Reports, Of
  <2>2. Of' = None
    BY <1>3, <1>i, OverFacts, NoCheckFacts DEF Retries, Escapes, Reports, Of
  <2> DEFINE next == [pass EXCEPT !.todo = @ \ {Of}, !.previous = 0, !.replaced = FALSE]
  <2>3. /\ next.todo = pass.todo \ {Of} /\ next.now = pass.now
        /\ next \in [todo : SUBSET Instances, now : 0..MaxDays, previous : 0..MaxDays, replaced : BOOLEAN]
    <3>1. 0 \in 0..MaxDays /\ pass.todo \ {Of} \in SUBSET Instances
      BY <1>t, BoundsAssumption
    <3>2. next.todo = pass.todo \ {Of} /\ next.now = pass.now
      BY <1>t
    <3>3. next = [pass EXCEPT !.todo = pass.todo \ {Of}, !.previous = 0, !.replaced = FALSE]
      BY <1>t
    <3>4. next \in [todo : SUBSET Instances, now : 0..MaxDays, previous : 0..MaxDays, replaced : BOOLEAN]
      BY ONLY <1>t, <3>1, <3>3
    <3> QED BY <3>2, <3>4
  <2>4. CASE Retries("schedule") /\ ~pass.replaced
    <3>1. pass' = next /\ last' = [last EXCEPT ![Of] = pass.previous] /\ UNCHANGED <<clock, off, reports, lost>>
      BY <2>4 DEF Retries, Done, Of
    <3> HIDE DEF next
    <3> QED BY ONLY <1>i, <2>1, <2>2, <2>3, <3>1, DayPutBack
  <2>5. CASE Retries("schedule") /\ pass.replaced
    <3>1. /\ pass' = next /\ UNCHANGED <<clock, off, last, reports>>
          /\ lost' = lost \cup {<<Of, pass.now>>}
      BY <2>5 DEF Retries, Done, Loses, Of
    <3> HIDE DEF next
    <3> QED BY ONLY <1>i, <2>1, <2>2, <2>3, <3>1, CheckEnds
  <2>6. CASE Escapes("schedule")
    <3>1. /\ pass' = NoPass /\ UNCHANGED <<clock, off, last, reports>>
          /\ lost' = lost \cup {<<Of, pass.now>>}
      BY <2>6 DEF Escapes, Loses, Of
    <3> QED BY ONLY <1>i, <2>1, <2>2, <3>1, NoPassFacts, CheckEnds
  <2>7. CASE Reports("schedule")
    <3>1. /\ pass' = next /\ UNCHANGED <<clock, off, last, lost>>
          /\ reports' = [reports EXCEPT ![Of][pass.now] = IF @ < 2 THEN @ + 1 ELSE @]
      BY <2>7 DEF Reports, Done, Of
    <3> HIDE DEF next
    <3> QED BY ONLY <1>i, <2>1, <2>2, <2>3, <3>1, CheckEnds
  <2> QED BY <1>3, <2>4, <2>5, <2>6, <2>7
<1>4. ASSUME NEW c \in Checkers, Downloads(c) PROVE ScheduleInv'
  BY <1>4, <1>i, SameDay DEF Downloads, Of
<1>5. ASSUME PassBegins PROVE ScheduleInv'
  <2>1. /\ pass.todo = {} /\ pass' = [NoPass EXCEPT !.todo = Instances, !.now = clock.day]
        /\ UNCHANGED <<clock, off, last, reports, lost, check>>
    BY <1>5 DEF PassBegins
  <2>2. Of = None /\ Of' = None
    BY <2>1, <1>i DEF OfThePass, Of
  <2>3. clock.day \in Days
    BY <1>i DEF ScheduleType
  <2>4. /\ pass'.now = clock.day
        /\ pass' \in [todo : SUBSET Instances, now : 0..MaxDays, previous : 0..MaxDays, replaced : BOOLEAN]
    <3>1. clock.day \in 0..MaxDays /\ 0 \in 0..MaxDays
      BY <2>3, BoundsAssumption DEF Days
    <3>2. pass' = [todo |-> Instances, now |-> clock.day, previous |-> 0, replaced |-> FALSE]
      BY <2>1 DEF NoPass
    <3> QED BY ONLY <3>1, <3>2
  <2>5. pass'.now \in 1..clock.day
    BY <2>3, <2>4, BoundsAssumption DEF Days
  <2> QED BY ONLY <1>i, <1>l, <2>1, <2>2, <2>4, <2>5, PassMoves
<1>6. ASSUME NEW i \in Instances, NotDue(i) PROVE ScheduleInv'
  <2>1. /\ Of = None /\ i \in pass.todo /\ pass' = [pass EXCEPT !.todo = @ \ {i}]
        /\ UNCHANGED <<clock, off, last, reports, lost, check>>
    BY <1>6, <1>e DEF NotDue
  <2>2. Of' = None
    BY <2>1 DEF Of
  <2>3. \A j \in Instances : last[j] <= pass.now
    BY <2>1 DEF DayInv
  <2>4. pass'.now \in 1..clock.day
    BY <2>1, <1>d, <1>i DEF OfThePass
  <2> QED BY <1>i, <1>d, <2>1, <2>2, <2>3, <2>4, PassMoves
<1>7. ASSUME NEW i \in Instances, CheckBegins(i) PROVE ScheduleInv'
  <2>1. /\ Of = None /\ i \in pass.todo /\ last[i] # pass.now
        /\ last' = [last EXCEPT ![i] = pass.now]
        /\ pass' = [pass EXCEPT !.previous = last[i], !.replaced = FALSE]
        /\ UNCHANGED <<clock, off, reports, lost>>
    BY <1>7, <1>e DEF CheckBegins, Due
  <2>2. Of' = i
    BY <1>7, <1>i, BeginsFacts, NoCheckFacts DEF CheckBegins, Of
  <2> QED BY ONLY <1>i, <2>1, <2>2, DayMarked
<1>8. ASSUME NEW i \in Instances, CheckSkipped(i) PROVE ScheduleInv'
  <2>1. /\ Of = None /\ i \in pass.todo /\ last[i] # pass.now
        /\ last' = [last EXCEPT ![i] = pass.now]
        /\ pass' = [pass EXCEPT !.todo = @ \ {i}] /\ lost' = lost \cup {<<i, pass.now>>}
        /\ UNCHANGED <<clock, off, reports, check>>
    BY <1>8, <1>e DEF CheckSkipped, Due
  <2>2. Of' = None
    BY <2>1 DEF Of
  <2> QED BY ONLY <1>i, <2>1, <2>2, DayGivenUp
<1>9. ASSUME NEW i \in Instances, ByHand(i) PROVE ScheduleInv'
  <2>1. Of' = Of
    BY <1>9, <1>i, BeginsFacts, OfTheOther, NoCheckFacts DEF ByHand
  <2> QED BY <1>9, <1>i, <2>1, SameDay DEF ByHand
<1>10. ASSUME NEW i \in Instances, SavesSchedule(i) PROVE ScheduleInv'
  <2>1. /\ UNCHANGED <<clock, last, reports, lost, check>> /\ off' \subseteq Instances
        /\ pass' = pass \/ pass' = [pass EXCEPT !.replaced = TRUE]
    BY <1>10, <1>i DEF SavesSchedule, Replaced, ScheduleType
  <2>2. Of' = Of
    BY <2>1 DEF Of
  <2>3. clock \in [day : Days, at : {"before", "due", "after"}] /\ clock.day <= clock.day
    BY <1>i, BoundsAssumption DEF ScheduleType, Days
  <2> QED BY ONLY <1>i, <2>1, <2>2, <2>3, DayGoesOn
<1>11. ASSUME TimePasses PROVE ScheduleInv'
  <2>1. UNCHANGED <<off, last, pass, reports, lost, check>>
    BY <1>11 DEF TimePasses
  <2>2. Of' = Of
    BY <2>1 DEF Of
  <2>3. clock' \in [day : Days, at : {"before", "due", "after"}] /\ clock.day <= clock'.day
    BY <1>11, <1>i, BoundsAssumption DEF TimePasses, ScheduleType, Days
  <2>4. off' \subseteq Instances
    BY <2>1, <1>i DEF ScheduleType
  <2> QED BY ONLY <1>i, <2>1, <2>2, <2>3, <2>4, DayGoesOn
<1>12. ASSUME Crash PROVE ScheduleInv'
  <2>1. /\ pass' = NoPass /\ UNCHANGED <<clock, off, last, reports>>
        /\ check' = [c \in Checkers |-> NoCheck]
        /\ lost' = lost \cup ({<<Of, pass.now>>} \cap (Instances \X Days))
    BY <1>12 DEF Crash, Of
  <2>2. Of' = None
    BY <2>1, NoCheckFacts DEF Of
  <2>3. CASE Of = None
    <3>1. lost' = lost
      BY <2>1, <2>3, NoneAssumption
    <3> QED BY ONLY <1>i, <2>1, <2>2, <2>3, <3>1, NoPassFacts, PassMoves
  <2>4. CASE Of # None
    <3>1. Of \in Instances
      BY <2>4, <1>e, <1>k, NoCheckFacts DEF Of
    <3>2. lost' = lost \cup {<<Of, pass.now>>}
      BY <2>1, <2>4, <1>n, <3>1
    <3> QED BY ONLY <1>i, <2>1, <2>2, <3>1, <3>2, NoPassFacts, CheckEnds
  <2> QED BY <2>3, <2>4
<1>13. ASSUME BackgroundLoad \/ Refresh \/ Release \/ UNCHANGED vars \/ CacheSteps \/ CacheUpsets
              \/ \E f \in Fetchers : Wants(f)
       PROVE  ScheduleInv'
  <2>1. UNCHANGED <<schedule, check>>
    BY <1>13 DEF BackgroundLoad, PageAsks, PageAnswered, PageUnanswered, Refresh, Release, vars, CacheSteps,
                 CacheUpsets, Wants
  <2> QED BY <2>1, <1>i, SameDay DEF Of
<1> QED BY <1>1, <1>2, <1>3, <1>4, <1>5, <1>6, <1>7, <1>8, <1>9, <1>10, <1>11, <1>12, <1>13, Working,
           NoCheckFacts DEF Next

NightlyInv == CacheInv /\ NightInv /\ DayInv

LEMMA NightlyAlways == Spec => []NightlyInv
<1>1. Init => NightlyInv
  BY CacheInitial, NightInitial, DayInitial DEF Init, NightlyInv
<1>2. NightlyInv /\ [Next]_vars => NightlyInv'
  BY CacheStep, NextMoves, CheckStep, IndexStep, ScheduleStep DEF NightlyInv, NightInv, ScheduleInv
<1> QED BY <1>1, <1>2, PTL DEF Spec

\* The states of the nightly check and of the cache have their types.
THEOREM TypeCorrect == Spec => []TypeOK
<1>1. NightlyInv => TypeOK
  BY DEF NightlyInv, CacheInv, NightInv, ScheduleType, IndexType, CheckSound, Checks, TypeOK, NightlyTypeOK
<1> QED BY <1>1, NightlyAlways, PTL

\* The check of a day that is marked has been made and reported, once, but for
\* the losses that are named, for any instances, days and failures.
THEOREM OncePerDayCorrect == Spec => []OncePerDay
<1>1. NightlyInv => OncePerDay
  BY DEF NightlyInv, DayInv
<1> QED BY <1>1, NightlyAlways, PTL
=============================================================================
