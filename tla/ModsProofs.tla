----------------------------- MODULE ModsProofs -----------------------------
(***************************************************************************)
(* What is proved of module Mods for every number of requests, packages    *)
(* and versions, and whatever the packages need.                           *)
(***************************************************************************)
EXTENDS Mods, TLAPS

Active(r) == requests[r].pc # "idle"

\* What a request believes of a package is what is on disk, unless another
\* request changed the package meanwhile.
CopiesAgree ==
  \A r \in Requests : Active(r) =>
    \A p \in Packages \ (doubt \cup requests[r].stale) : Agree(requests[r].copy[p], files[p])

\* Only who installs has installed something.
Untouched == \A r \in Requests : requests[r].pc # "install" => requests[r].touched = {}

Closed(mods) ==
  \A p \in Packages : Has(mods, p) => \A d \in Needs[p][mods[p].version] : Has(mods, d)

\* What is to be installed finds what it needs, or it comes with it.
Supplied(q) ==
  \A c \in q.left : \A d \in Needs[c.package][c.version] :
    Has(q.copy, d) \/ \E b \in q.left : b.package = d

Whole ==
  imported \/ /\ Closed(manifest)
              /\ \A r \in Requests : Active(r) => Closed(requests[r].copy) /\ Supplied(requests[r])

IInv == TypeOK /\ AsRecorded /\ CopiesAgree /\ Untouched /\ Whole

-----------------------------------------------------------------------------
LEMMA Constants ==
  /\ Versions \subseteq Nat \ {0} /\ 0 \in Version0 /\ Versions \subseteq Version0
  /\ \A p \in Packages : Newest[p] \in Nat \ {0} /\ 1..Newest[p] \subseteq Versions
  /\ \A p \in Packages, v \in Versions : Needs[p][v] \subseteq Packages
<1>1. \A p \in Packages : Newest[p] \in Nat \ {0} /\ 1..Newest[p] \subseteq Versions
  BY NewestAssumption DEF Versions
<1>2. Versions \subseteq Nat \ {0}
  BY NewestAssumption DEF Versions
<1>3. \A p \in Packages, v \in Versions : Needs[p][v] \subseteq Packages
  BY NeedsAssumption
<1> QED BY <1>1, <1>2, <1>3 DEF Version0

LEMMA EmptyTypes == Absent \in Entry /\ None \in Mods /\ NoFiles \in Files /\ Idle \in Request
<1>1. Absent \in Entry /\ NoFiles \in Files
  BY Constants DEF Absent, Entry, NoFiles, Files
<1>2. None \in Mods
  BY <1>1 DEF None, Mods
<1> QED BY <1>1, <1>2 DEF Idle, Request

LEMMA EntryParts ==
  ASSUME NEW mods \in Mods, NEW p \in Packages
  PROVE  /\ mods[p] \in Entry /\ mods[p].version \in Version0
         /\ mods[p].enabled \in BOOLEAN /\ mods[p].dep \in BOOLEAN
         /\ mods[p] = [version |-> mods[p].version, enabled |-> mods[p].enabled, dep |-> mods[p].dep]
         /\ Has(mods, p) => mods[p].version \in Versions
<1>1. mods[p] \in Entry
  BY DEF Mods
<1> QED BY <1>1 DEF Entry, Has, Version0

\* The files after an installation and after a switch.
LEMMA FileTypes ==
  ASSUME NEW f \in Files, NEW e \in Entry, NEW v \in Version0
  PROVE  /\ Enable(f) \in Files /\ Disable(f) \in Files
         /\ [f EXCEPT !.active = v] \in Files /\ [NoFiles EXCEPT !.active = v] \in Files
         /\ Placed(f, e, v) \in Files /\ Split(f) \in Files
<1>1. /\ f.active \in Version0 /\ f.parked \in Version0 /\ 0 \in Version0
      /\ \A g \in Files : [g EXCEPT !.active = v] \in Files
  BY Constants DEF Files
<1>2. \A g \in Files : Enable(g) \in Files /\ Disable(g) \in Files
  BY Constants DEF Enable, Disable, Files
<1>3. Placed(f, e, v) \in Files
  BY <1>1, <1>2, EmptyTypes DEF Placed
<1>4. Split(f) \in Files
  BY <1>1 DEF Split, Files
<1> QED BY <1>1, <1>2, <1>3, <1>4, EmptyTypes

\* What is installed over something that is as recorded, or over nothing, is as
\* recorded.
LEMMA PlacedAgrees ==
  ASSUME NEW f \in Files, NEW e \in Entry, NEW v \in Versions, NEW dep \in BOOLEAN, Agree(e, f)
  PROVE  Agree(Installed(e, v, dep), Placed(f, e, v)) /\ Installed(e, v, dep) \in Entry
<1>1. v # 0 /\ v \in Version0 /\ e.version \in Version0 /\ e.enabled \in BOOLEAN
  BY Constants DEF Entry
<1>2. Installed(e, v, dep) = [version |-> v, enabled |-> On(e), dep |-> dep /\ e.version = 0]
  BY DEF Installed
<1>3. (IF e.version # 0 THEN NoFiles ELSE f) = NoFiles
  BY DEF Agree
<1>4. [NoFiles EXCEPT !.active = v] = [active |-> v, parked |-> 0]
  BY DEF NoFiles
<1>5. Placed(f, e, v) = IF On(e) THEN [active |-> v, parked |-> 0] ELSE [active |-> 0, parked |-> v]
  BY <1>1, <1>3, <1>4 DEF Placed, Disable
<1>6. On(e) \in BOOLEAN
  BY <1>1 DEF On
<1> QED BY <1>1, <1>2, <1>5, <1>6 DEF Agree, Entry

LEMMA InstalledType ==
  ASSUME NEW e \in Entry, NEW v \in Versions, NEW dep \in BOOLEAN
  PROVE  Installed(e, v, dep) \in Entry
<1>1. v \in Version0 /\ e.enabled \in BOOLEAN
  BY Constants DEF Entry
<1>2. On(e) \in BOOLEAN /\ (dep /\ e.version = 0) \in BOOLEAN
  BY <1>1 DEF On
<1> QED BY <1>1, <1>2 DEF Installed, Entry

LEMMA SwitchAgrees ==
  ASSUME NEW f \in Files, NEW e \in Entry, Agree(e, f), e.version # 0, NEW on \in BOOLEAN
  PROVE  Agree([e EXCEPT !.enabled = on], IF on THEN Enable(f) ELSE Disable(f))
  BY Constants DEF Agree, Entry, Enable, Disable, Files, Version0, NoFiles

-----------------------------------------------------------------------------
(***************************************************************************)
(* A request changes, and the others see what became stale                 *)
(***************************************************************************)

LEMMA StaleRequest ==
  ASSUME NEW q \in Request
  PROVE  /\ Stale(q) \in Request /\ Stale(q).pc = q.pc /\ Stale(q).copy = q.copy
         /\ Stale(q).left = q.left /\ Stale(q).touched = q.touched
         /\ q.pc # "idle" => Stale(q).stale = q.stale \cup Changed
<1>1. Changed \subseteq Packages
  BY DEF Changed
<1> QED BY <1>1 DEF Stale, Request

LEMMA BecomesTypes ==
  ASSUME TypeOK, NEW r \in Requests, NEW q \in Request, Becomes(r, q)
  PROVE  requests' \in [Requests -> Request]
BY StaleRequest DEF Becomes, TypeOK

LEMMA BecomesUntouched ==
  ASSUME TypeOK, Untouched, NEW r \in Requests, NEW q \in Request, Becomes(r, q),
         q.pc # "install" => q.touched = {}
  PROVE  Untouched'
BY StaleRequest DEF Becomes, TypeOK, Untouched

LEMMA BecomesAgrees ==
  ASSUME TypeOK, CopiesAgree, NEW r \in Requests, NEW q \in Request, Becomes(r, q),
         doubt \subseteq doubt',
         q.pc # "idle" =>
           \A p \in Packages \ (doubt' \cup q.stale) : Agree(q.copy[p], files'[p])
  PROVE  CopiesAgree'
<1> SUFFICES ASSUME NEW x \in Requests, requests'[x].pc # "idle",
                    NEW p \in Packages, p \notin doubt', p \notin requests'[x].stale
             PROVE  Agree(requests'[x].copy[p], files'[p])
  BY DEF CopiesAgree, Active
<1>1. CASE x = r
  BY <1>1 DEF Becomes
<1>2. CASE x # r
  <2>1. requests[x] \in Request /\ requests'[x] = Stale(requests[x])
    BY <1>2 DEF Becomes, TypeOK
  <2>2. requests[x].pc # "idle" /\ p \notin requests[x].stale /\ p \notin Changed
    BY <2>1, StaleRequest
  <2>3. Agree(requests[x].copy[p], files[p]) /\ files'[p] = files[p]
    BY <2>2 DEF CopiesAgree, Active, Changed
  <2> QED BY <2>1, <2>3, StaleRequest
<1> QED BY <1>1, <1>2

LEMMA BecomesWhole ==
  ASSUME TypeOK, Whole, NEW r \in Requests, NEW q \in Request, Becomes(r, q),
         imported => imported',
         imported' \/ /\ Closed(manifest')
                      /\ q.pc # "idle" => Closed(q.copy) /\ Supplied(q)
  PROVE  Whole'
<1> SUFFICES ASSUME ~imported', NEW x \in Requests, requests'[x].pc # "idle"
             PROVE  Closed(requests'[x].copy) /\ Supplied(requests'[x])
  BY DEF Whole, Active, Closed, Has
<1>1. CASE x = r
  BY <1>1 DEF Becomes
<1>2. CASE x # r
  <2>1. requests[x] \in Request /\ requests'[x] = Stale(requests[x])
    BY <1>2 DEF Becomes, TypeOK
  <2>2. Closed(requests[x].copy) /\ Supplied(requests[x])
    BY <2>1, StaleRequest DEF Whole, Active
  <2> QED BY <2>1, <2>2, StaleRequest DEF Supplied
<1> QED BY <1>1, <1>2

LEMMA BecomesTouched ==
  ASSUME TypeOK, NEW r \in Requests, NEW q \in Request, Becomes(r, q)
  PROVE  Touched \subseteq Touched' \cup requests[r].touched /\ q.touched \subseteq Touched'
<1>1. \A x \in Requests \ {r} : requests'[x].touched = requests[x].touched
  BY StaleRequest DEF Becomes, TypeOK
<1>2. requests'[r] = q
  BY DEF Becomes
<1> QED BY <1>1, <1>2 DEF Touched

-----------------------------------------------------------------------------
(***************************************************************************)
(* The chain                                                               *)
(***************************************************************************)

LEMMA MissingClosed ==
  ASSUME NEW mods, NEW p \in Packages, NEW v \in Versions, latest \in [Packages -> Versions]
  PROVE  /\ Missing(mods, p, v) \subseteq Packages \ {p}
         /\ \A d \in Needs[p][v] : Has(mods, d) \/ d = p \/ d \in Missing(mods, p, v)
         /\ \A q \in Missing(mods, p, v) : \A d \in Needs[q][latest[q]] :
              Has(mods, d) \/ d = p \/ d \in Missing(mods, p, v)
<1> DEFINE lacks(q, w) == {d \in Needs[q][w] : ~Has(mods, d)}
           closed(S) == lacks(p, v) \subseteq S /\ \A q \in S : lacks(q, latest[q]) \subseteq S
<1>1. Missing(mods, p, v) =
        {q \in Packages \ {p} : \A S \in SUBSET Packages : closed(S) => q \in S}
  BY DEF Missing
<1>2. ASSUME NEW d \in Needs[p][v], ~Has(mods, d), d # p
      PROVE  d \in Missing(mods, p, v)
  <2>1. d \in Packages
    BY Constants
  <2> QED BY <1>1, <1>2, <2>1
<1>3. ASSUME NEW q \in Missing(mods, p, v), NEW d \in Needs[q][latest[q]], ~Has(mods, d), d # p
      PROVE  d \in Missing(mods, p, v)
  <2>1. q \in Packages /\ latest[q] \in Versions /\ d \in Packages
    BY <1>1, Constants
  <2>2. ASSUME NEW S \in SUBSET Packages, closed(S)
        PROVE  d \in S
    <3>1. q \in S
      BY <1>1, <2>2
    <3> QED BY <3>1, <2>2, <1>3
  <2> QED BY <1>1, <1>3, <2>1, <2>2
<1> QED BY <1>1, <1>2, <1>3

LEMMA ChainSupplied ==
  ASSUME TypeOK, NEW mods \in Mods, NEW p \in Packages, NEW v \in Versions
  PROVE  /\ Chain(mods, p, v) \in SUBSET Candidate
         /\ \A c \in Chain(mods, p, v) : \A d \in Needs[c.package][c.version] :
              Has(mods, d) \/ \E b \in Chain(mods, p, v) : b.package = d
<1> DEFINE core == {q \in {Core} \ {p} : ~Has(mods, q)}
           deps == Missing(mods, p, v) \cup core
           dep(q) == [package |-> q, version |-> latest[q], dep |-> TRUE]
           itself == [package |-> p, version |-> v, dep |-> FALSE]
           target == IF mods[p].version = v THEN {} ELSE {itself}
<1>1. Chain(mods, p, v) = {dep(q) : q \in deps} \cup target
  BY DEF Chain
<1>2. /\ latest \in [Packages -> Versions] /\ deps \subseteq Packages /\ Core \in Packages
      /\ mods[p].version # v => itself \in Chain(mods, p, v)
      /\ \A q \in deps : dep(q) \in Chain(mods, p, v)
  BY <1>1, MissingClosed, CoreAssumption DEF TypeOK
<1>3. Chain(mods, p, v) \in SUBSET Candidate
  <2>1. \A q \in deps : latest[q] \in Versions
    BY <1>2
  <2>2. \A q \in deps : dep(q) \in Candidate
    BY <1>2, <2>1 DEF Candidate
  <2>3. itself \in Candidate
    BY DEF Candidate
  <2>4. target \subseteq Candidate
    BY <2>3
  <2> QED BY ONLY <1>1, <2>2, <2>4
<1>4. Has(mods, p) \/ itself \in Chain(mods, p, v)
  BY <1>2, Constants DEF Has
<1>5. \A d : d = p \/ d \in Missing(mods, p, v) =>
        Has(mods, d) \/ \E b \in Chain(mods, p, v) : b.package = d
  <2>1. itself.package = p /\ \A q : dep(q).package = q
    OBVIOUS
  <2> QED BY <1>2, <1>4, <2>1
<1>6. \A q \in Missing(mods, p, v) : \A d \in Needs[q][latest[q]] :
        Has(mods, d) \/ \E b \in Chain(mods, p, v) : b.package = d
  BY <1>2, <1>5, MissingClosed
<1>7. \A q \in core : Needs[q][latest[q]] = {}
  BY <1>2, CoreNeedsNothing
<1>8. \A d \in Needs[p][v] : Has(mods, d) \/ \E b \in Chain(mods, p, v) : b.package = d
  BY <1>2, <1>5, MissingClosed
<1>9. ASSUME NEW c \in Chain(mods, p, v), NEW d \in Needs[c.package][c.version]
      PROVE  Has(mods, d) \/ \E b \in Chain(mods, p, v) : b.package = d
  <2>1. c = itself \/ \E q \in deps : c = dep(q)
    BY <1>1
  <2>2. CASE c = itself
    BY <1>8, <1>9, <2>2
  <2>3. CASE \E q \in deps : c = dep(q)
    <3>1. PICK q \in deps : c.package = q /\ c.version = latest[q]
      BY <2>3
    <3> QED BY <1>6, <1>7, <1>9, <3>1
  <2> QED BY <2>1, <2>2, <2>3
<1> QED BY <1>3, <1>9

\* A request that goes on keeps its copy, and what it needs is supplied.
LEMMA NextWishBecomes ==
  ASSUME TypeOK, NEW r \in Requests, NEW q \in Request, q.touched = {},
         NEW wishes \in SUBSET (Packages \X Versions), NextWish(r, q, wishes)
  PROVE  \E n \in Request :
           /\ Becomes(r, n) /\ n.touched = {}
           /\ n.pc # "idle" => n.copy = q.copy /\ n.stale = q.stale /\ Supplied(n)
<1>1. CASE wishes = {}
  BY <1>1, EmptyTypes DEF NextWish, Idle
<1>2. CASE wishes # {}
  <2>1. PICK w \in wishes :
          Becomes(r, [q EXCEPT !.pc = "install", !.wishes = wishes \ {w},
                               !.kind = IF @ = "check" THEN @ ELSE "install",
                               !.left = Chain(q.copy, w[1], w[2])])
    BY <1>2 DEF NextWish
  <2> DEFINE n == [q EXCEPT !.pc = "install", !.wishes = wishes \ {w},
                            !.kind = IF @ = "check" THEN @ ELSE "install",
                            !.left = Chain(q.copy, w[1], w[2])]
  <2>2. w[1] \in Packages /\ w[2] \in Versions /\ q.copy \in Mods
    BY DEF Request
  <2>3. /\ Chain(q.copy, w[1], w[2]) \in SUBSET Candidate
        /\ \A c \in Chain(q.copy, w[1], w[2]) : \A d \in Needs[c.package][c.version] :
             Has(q.copy, d) \/ \E b \in Chain(q.copy, w[1], w[2]) : b.package = d
    BY <2>2, ChainSupplied
  <2>4. /\ n.copy = q.copy /\ n.stale = q.stale /\ n.touched = {}
        /\ n.left = Chain(q.copy, w[1], w[2])
    BY DEF Request
  <2>5. n \in Request
    BY <2>3 DEF Request
  <2>6. Supplied(n)
    BY <2>3, <2>4 DEF Supplied
  <2>7. Becomes(r, n)
    BY <2>1
  <2> QED BY <2>4, <2>5, <2>6, <2>7
<1> QED BY <1>1, <1>2

-----------------------------------------------------------------------------
(***************************************************************************)
(* The steps                                                               *)
(***************************************************************************)

\* What has to be shown of a step in which r becomes q.
LEMMA BecomesKeeps ==
  ASSUME IInv, NEW r \in Requests, NEW q \in Request, Becomes(r, q),
         latest' = latest, manifest' \in Mods, files' \in [Packages -> Files],
         doubt' \subseteq Packages, doubt \subseteq doubt',
         imported' \in BOOLEAN, imported => imported',
         q.pc # "install" => q.touched = {},
         q.pc # "idle" =>
           \A p \in Packages \ (doubt' \cup q.stale) : Agree(q.copy[p], files'[p]),
         imported' \/ /\ Closed(manifest')
                      /\ q.pc # "idle" => Closed(q.copy) /\ Supplied(q),
         \A p \in Packages \ (doubt' \cup Touched') : Agree(manifest'[p], files'[p])
  PROVE  IInv'
<1>1. TypeOK'
  BY BecomesTypes DEF IInv, TypeOK
<1>2. CopiesAgree'
  BY BecomesAgrees DEF IInv
<1>3. Untouched'
  BY BecomesUntouched DEF IInv
<1>4. Whole'
  BY BecomesWhole DEF IInv
<1>5. AsRecorded'
  BY DEF AsRecorded
<1> QED BY <1>1, <1>2, <1>3, <1>4, <1>5 DEF IInv

\* The same of a step that no request takes.
LEMMA ApartKeeps ==
  ASSUME IInv, Apart, manifest' \in Mods, files' \in [Packages -> Files],
         doubt' \subseteq Packages, doubt \subseteq doubt',
         Closed(manifest) => Closed(manifest'),
         \A p \in Packages \ (doubt' \cup Touched) : Agree(manifest'[p], files'[p])
  PROVE  IInv'
<1>1. \A x \in Requests : requests[x] \in Request /\ requests'[x] = Stale(requests[x])
  BY DEF IInv, TypeOK, Apart
<1>2. requests' \in [Requests -> Request]
  BY <1>1, StaleRequest DEF Apart
<1>3. TypeOK'
  BY <1>2 DEF IInv, TypeOK, Apart
<1>4. CopiesAgree'
  <2> SUFFICES ASSUME NEW x \in Requests, requests'[x].pc # "idle",
                      NEW p \in Packages, p \notin doubt', p \notin requests'[x].stale
               PROVE  Agree(requests'[x].copy[p], files'[p])
    BY DEF CopiesAgree, Active
  <2>1. requests[x].pc # "idle" /\ p \notin requests[x].stale /\ p \notin Changed
    BY <1>1, StaleRequest
  <2>2. Agree(requests[x].copy[p], files[p]) /\ files'[p] = files[p]
    BY <2>1 DEF IInv, CopiesAgree, Active, Changed
  <2> QED BY <1>1, <2>2, StaleRequest
<1>5. Untouched'
  BY <1>1, StaleRequest DEF IInv, Untouched
<1>6. \A x \in Requests : requests'[x].touched = requests[x].touched
  BY <1>1, StaleRequest
<1>7. AsRecorded'
  BY <1>6 DEF AsRecorded, Touched
<1>8. Whole'
  <2> SUFFICES ASSUME ~imported, NEW x \in Requests, requests'[x].pc # "idle"
               PROVE  Closed(requests'[x].copy) /\ Supplied(requests'[x])
    BY DEF IInv, Whole, Active, Apart, Closed, Has
  <2>1. Closed(requests[x].copy) /\ Supplied(requests[x])
    BY <1>1, StaleRequest DEF IInv, Whole, Active
  <2> QED BY <1>1, <2>1, StaleRequest DEF Supplied
<1> QED BY <1>3, <1>4, <1>5, <1>7, <1>8 DEF IInv

LEMMA ToggleKeeps == ASSUME IInv, NEW p \in Packages, Toggle(p) PROVE IInv'
<1> DEFINE on == ~manifest[p].enabled
<1>1. /\ Has(manifest, p) /\ Apart /\ on \in BOOLEAN /\ doubt' = doubt
      /\ manifest' = [manifest EXCEPT ![p].enabled = on]
      /\ files' = [files EXCEPT ![p] = IF on THEN Enable(@) ELSE Disable(@)]
  BY DEF Toggle
<1>2. manifest \in Mods /\ files \in [Packages -> Files] /\ manifest[p] \in Entry /\ files[p] \in Files
  BY EntryParts DEF IInv, TypeOK
<1>3. [manifest[p] EXCEPT !.enabled = on] \in Entry
  BY <1>1, <1>2 DEF Entry
<1>4. manifest' \in Mods
  BY <1>1, <1>2, <1>3 DEF Mods
<1>5. files' \in [Packages -> Files]
  BY <1>1, <1>2, FileTypes, Constants
<1>6. \A d \in Packages : manifest'[d].version = manifest[d].version
  BY <1>1, <1>2, <1>3 DEF Mods, Entry
<1>7. Closed(manifest) => Closed(manifest')
  <2>1. \A v, d \in Packages : d \in Needs[v][manifest[v].version] <=> d \in Needs[v][manifest'[v].version]
    BY <1>6
  <2> QED BY <1>6, Constants, EntryParts, <1>2, <1>4 DEF Closed, Has
<1>8. \A d \in Packages \ (doubt \cup Touched) : Agree(manifest'[d], files'[d])
  <2> TAKE d \in Packages \ (doubt \cup Touched)
  <2>1. Agree(manifest[d], files[d])
    BY DEF IInv, AsRecorded
  <2>2. CASE d = p
    <3>1. manifest[p].version # 0
      BY <1>1 DEF Has
    <3>2. Agree([manifest[p] EXCEPT !.enabled = on], IF on THEN Enable(files[p]) ELSE Disable(files[p]))
      BY <1>1, <1>2, <2>1, <2>2, <3>1, SwitchAgrees
    <3>3. manifest'[p] = [manifest[p] EXCEPT !.enabled = on]
      BY <1>1, <1>2 DEF Mods
    <3>4. files'[p] = IF on THEN Enable(files[p]) ELSE Disable(files[p])
      BY <1>1, <1>2
    <3> QED BY <2>2, <3>2, <3>3, <3>4
  <2>3. CASE d # p
    BY <1>1, <1>2, <2>1, <2>3 DEF Mods
  <2> QED BY <2>2, <2>3
<1>9. doubt' \subseteq Packages
  BY <1>1 DEF IInv, TypeOK
<1> QED BY <1>1, <1>4, <1>5, <1>7, <1>8, <1>9, ApartKeeps

LEMMA StopsHalfWayKeeps == ASSUME IInv, NEW p \in Packages, StopsHalfWay(p) PROVE IInv'
<1>1. PICK f \in {NoFiles, Enable(files[p]), Disable(files[p]), Split(files[p])} :
        files' = [files EXCEPT ![p] = f]
  BY DEF StopsHalfWay
<1>2. doubt' = doubt \cup {p} /\ manifest' = manifest /\ Apart
  BY DEF StopsHalfWay
<1>3. f \in Files /\ files \in [Packages -> Files]
  BY <1>1, FileTypes, EmptyTypes, Constants DEF IInv, TypeOK
<1>4. files' \in [Packages -> Files] /\ manifest' \in Mods /\ doubt' \subseteq Packages
  BY <1>1, <1>2, <1>3 DEF IInv, TypeOK
<1>5. \A d \in Packages \ (doubt' \cup Touched) : Agree(manifest'[d], files'[d])
  BY <1>1, <1>2, <1>3 DEF IInv, AsRecorded
<1>6. Closed(manifest) => Closed(manifest')
  BY <1>2 DEF Closed, Has
<1> QED BY <1>2, <1>4, <1>5, <1>6, ApartKeeps

\* What nothing depends on can go.
LEMMA RemoveKeeps ==
  ASSUME IInv, NEW ps \in SUBSET Packages, Remove(ps),
         \A p \in ps : Dependents(manifest, p) \subseteq ps
  PROVE  IInv'
<1>1. /\ manifest' = [p \in Packages |-> IF p \in ps THEN Absent ELSE manifest[p]]
      /\ Apart
  BY DEF Remove
<1>0. PICK stuck \in SUBSET ps :
        /\ files' = [p \in Packages |-> IF p \in ps \ stuck THEN NoFiles ELSE files[p]]
        /\ doubt' = doubt \cup stuck
  BY DEF Remove
<1>2. manifest' \in Mods /\ files' \in [Packages -> Files] /\ doubt' \subseteq Packages
  BY <1>0, <1>1, EmptyTypes DEF IInv, TypeOK, Mods
<1>3. Closed(manifest) => Closed(manifest')
  <2> SUFFICES ASSUME Closed(manifest), NEW p \in Packages, Has(manifest', p),
                      NEW d \in Needs[p][manifest'[p].version]
               PROVE  Has(manifest', d)
    BY DEF Closed
  <2>1. p \notin ps /\ manifest'[p] = manifest[p] /\ Has(manifest, p)
    BY <1>1 DEF Has, Absent
  <2>2. Has(manifest, d) /\ d \in Packages
    BY <2>1, Constants, EntryParts DEF Closed, IInv, TypeOK
  <2>3. d \notin ps
    BY <2>1, <2>2 DEF Dependents
  <2> QED BY <1>1, <2>2, <2>3 DEF Has
<1>4. \A p \in Packages \ (doubt' \cup Touched) : Agree(manifest'[p], files'[p])
  BY <1>0, <1>1 DEF IInv, AsRecorded, Agree, Absent
<1> QED BY <1>0, <1>1, <1>2, <1>3, <1>4, ApartKeeps

LEMMA UninstallKeeps == ASSUME IInv, NEW p \in Packages, Uninstall(p) PROVE IInv'
BY RemoveKeeps DEF Uninstall

LEMMA PruneKeeps == ASSUME IInv, Prune PROVE IInv'
BY RemoveKeeps DEF Prune, Orphans

LEMMA BeginsKeeps ==
  ASSUME IInv, NEW r \in Requests, NEW kind \in {"install", "update all", "check", "import"},
         NEW wishes \in SUBSET (Packages \X Versions), NEW wanted \in Mods,
         Begins(r, kind, wishes, wanted)
  PROVE  IInv'
<1> DEFINE n == [Idle EXCEPT !.pc = "index", !.kind = kind, !.copy = manifest,
                             !.wishes = wishes, !.wanted = wanted, !.stale = Touched]
<1>1. /\ requests' = [requests EXCEPT ![r] = n] /\ requests[r].pc = "idle"
      /\ UNCHANGED <<latest, manifest, files, doubt, imported>>
  BY DEF Begins
<1>2. Touched \in SUBSET Packages
  <2>1. \A x \in Requests : requests[x].touched \subseteq Packages
    BY DEF IInv, TypeOK, Request
  <2> QED BY <2>1 DEF Touched
<1>3. n \in Request
  BY <1>2, EmptyTypes DEF Request, IInv, TypeOK
<1>4. n.pc = "index" /\ n.copy = manifest /\ n.stale = Touched /\ n.left = {} /\ n.touched = {}
  <2>1. Idle.left = {} /\ Idle.touched = {}
    BY DEF Idle
  <2> QED BY <2>1, EmptyTypes DEF Request
<1> HIDE DEF n
<1>5. \A x \in Requests : requests'[x] = IF x = r THEN n ELSE requests[x]
  BY <1>1 DEF IInv, TypeOK
<1>6. TypeOK'
  BY <1>1, <1>3 DEF IInv, TypeOK
<1>7. \A x \in Requests : requests'[x].touched = requests[x].touched
  BY <1>1, <1>4, <1>5 DEF IInv, Untouched
<1>8. AsRecorded'
  BY <1>1, <1>7 DEF IInv, AsRecorded, Touched
<1>9. CopiesAgree'
  <2> SUFFICES ASSUME NEW x \in Requests, requests'[x].pc # "idle",
                      NEW p \in Packages, p \notin doubt, p \notin requests'[x].stale
               PROVE  Agree(requests'[x].copy[p], files[p])
    BY <1>1 DEF CopiesAgree, Active
  <2>1. CASE x = r
    BY <1>4, <1>5, <2>1 DEF IInv, AsRecorded
  <2>2. CASE x # r
    BY <1>5, <2>2 DEF IInv, CopiesAgree, Active
  <2> QED BY <2>1, <2>2
<1>10. Untouched'
  BY <1>4, <1>5 DEF IInv, Untouched
<1>11. Whole'
  <2> SUFFICES ASSUME ~imported, NEW x \in Requests, requests'[x].pc # "idle"
               PROVE  Closed(requests'[x].copy) /\ Supplied(requests'[x])
    BY <1>1 DEF IInv, Whole, Active, Closed, Has
  <2>1. CASE x = r
    <3>1. Closed(n.copy)
      BY <1>4 DEF IInv, Whole
    <3>2. Supplied(n)
      BY <1>4 DEF Supplied
    <3> QED BY <1>5, <2>1, <3>1, <3>2
  <2>2. CASE x # r
    BY <1>5, <2>2 DEF IInv, Whole, Active
  <2> QED BY <2>1, <2>2
<1> QED BY <1>6, <1>8, <1>9, <1>10, <1>11 DEF IInv

LEMMA RefreshedKeeps == ASSUME IInv, NEW p \in Packages, Refreshed(p) PROVE IInv'
<1>1. latest[p] + 1 \in Versions
  <2>1. latest[p] \in Nat \ {0} /\ Newest[p] \in Nat /\ latest[p] < Newest[p]
    BY Constants DEF IInv, TypeOK, Refreshed
  <2>2. latest[p] + 1 \in 1..Newest[p]
    BY <2>1
  <2> QED BY <2>2, Constants
<1>2. TypeOK'
  BY <1>1 DEF IInv, TypeOK, Refreshed
<1>3. AsRecorded' /\ CopiesAgree' /\ Untouched'
  BY DEF IInv, Refreshed, AsRecorded, Touched, CopiesAgree, Untouched, Active
<1>4. Whole'
  BY DEF IInv, Refreshed, Whole, Active, Closed, Supplied, Has
<1> QED BY <1>2, <1>3, <1>4 DEF IInv

LEMMA ResolvesKeeps == ASSUME IInv, NEW r \in Requests, Resolves(r) PROVE IInv'
<1> DEFINE q == requests[r]
           wishes == IF q.kind = "install" THEN q.wishes ELSE Updates(q.copy, q.kind = "check")
<1>1. q \in Request /\ q.pc = "index" /\ q.touched = {} /\ q.copy \in Mods
  BY DEF IInv, TypeOK, Untouched, Resolves, Request
<1>2. wishes \in SUBSET (Packages \X Versions)
  <2>1. \A p \in Packages : <<p, latest[p]>> \in Packages \X Versions
    BY DEF IInv, TypeOK
  <2>2. Updates(q.copy, q.kind = "check") \subseteq Packages \X Versions
    BY <2>1 DEF Updates
  <2> QED BY <1>1, <2>2 DEF Request
<1>3. NextWish(r, q, wishes) /\ UNCHANGED <<latest, manifest, files, doubt, imported>>
  BY DEF Resolves
<1>4. PICK n \in Request :
        /\ Becomes(r, n) /\ n.touched = {}
        /\ n.pc # "idle" => n.copy = q.copy /\ n.stale = q.stale /\ Supplied(n)
  BY <1>1, <1>2, <1>3, NextWishBecomes DEF IInv
<1>5. \A p \in Packages \ (doubt \cup q.stale) : Agree(q.copy[p], files[p])
  BY <1>1 DEF IInv, CopiesAgree, Active
<1>6. imported \/ (Closed(manifest) /\ Closed(q.copy))
  BY <1>1 DEF IInv, Whole, Active
<1>7. Touched \subseteq Touched'
  BY <1>1, <1>4, BecomesTouched DEF IInv
<1>8. \A p \in Packages \ (doubt' \cup Touched') : Agree(manifest'[p], files'[p])
  BY <1>3, <1>7 DEF IInv, AsRecorded
<1>9. imported' \/ /\ Closed(manifest')
                   /\ n.pc # "idle" => Closed(n.copy) /\ Supplied(n)
  BY <1>3, <1>4, <1>6
<1>10. n.pc # "idle" => \A p \in Packages \ (doubt' \cup n.stale) : Agree(n.copy[p], files'[p])
  BY <1>3, <1>4, <1>5
<1>11. /\ latest' = latest /\ manifest' \in Mods /\ files' \in [Packages -> Files]
       /\ doubt' \subseteq Packages /\ doubt \subseteq doubt' /\ imported' \in BOOLEAN
       /\ imported => imported'
  BY <1>3 DEF IInv, TypeOK
<1> QED BY <1>4, <1>8, <1>9, <1>10, <1>11, BecomesKeeps

\* A request that ends, having saved what it believes.
LEMMA EndsKeeps ==
  ASSUME IInv, NEW r \in Requests, Becomes(r, Idle), latest' = latest,
         manifest' \in Mods, files' \in [Packages -> Files],
         doubt' \subseteq Packages, doubt \subseteq doubt',
         imported' \in BOOLEAN, imported => imported', imported' \/ Closed(manifest'),
         \A p \in Packages \ (doubt' \cup Touched') : Agree(manifest'[p], files'[p])
  PROVE  IInv'
<1>1. Idle \in Request /\ Idle.pc = "idle" /\ Idle.touched = {}
  BY EmptyTypes DEF Idle
<1> QED BY <1>1, BecomesKeeps

LEMMA SavesAgainKeeps == ASSUME IInv, NEW r \in Requests, SavesAgain(r) PROVE IInv'
<1> DEFINE q == requests[r]
<1>1. q \in Request /\ q.pc = "index" /\ q.copy \in Mods /\ q.stale \subseteq Packages
  BY DEF IInv, TypeOK, SavesAgain, Request
<1>2. /\ manifest' = q.copy /\ doubt' = doubt \cup q.stale
      /\ UNCHANGED <<latest, files, imported>> /\ Becomes(r, Idle)
  BY DEF SavesAgain, Saves
<1>3. \A p \in Packages \ doubt' : Agree(manifest'[p], files'[p])
  BY <1>1, <1>2 DEF IInv, CopiesAgree, Active
<1>4. imported' \/ Closed(manifest')
  BY <1>1, <1>2 DEF IInv, Whole, Active
<1>5. doubt' \subseteq Packages /\ files' \in [Packages -> Files] /\ imported' \in BOOLEAN
  BY <1>1, <1>2 DEF IInv, TypeOK
<1> QED BY <1>1, <1>2, <1>3, <1>4, <1>5, EndsKeeps

\* Installing what is ready leaves nothing without what it needs.
LEMMA InstalledClosed ==
  ASSUME NEW q \in Request, NEW c \in q.left, NEW mods,
         Closed(q.copy), Supplied(q),
         \A b \in q.left : b.package \notin Needs[c.package][c.version],
         mods = [q.copy EXCEPT ![c.package] = Installed(q.copy[c.package], c.version, c.dep)]
  PROVE  /\ Closed(mods)
         /\ \A b \in q.left \ {c} : \A d \in Needs[b.package][b.version] :
              Has(mods, d) \/ \E a \in q.left \ {c} : a.package = d
<1>1. /\ q.copy \in Mods /\ c \in Candidate /\ c.package \in Packages /\ c.version \in Versions
      /\ c.version # 0 /\ q.left \subseteq Candidate
  BY Constants DEF Request, Candidate
<1>2. /\ \A p \in Packages \ {c.package} : mods[p] = q.copy[p]
      /\ mods[c.package].version = c.version
  BY <1>1 DEF Mods, Installed
<1>3. /\ \A p \in Packages : Has(q.copy, p) => Has(mods, p)
      /\ Has(mods, c.package)
  BY <1>1, <1>2 DEF Has
<1>4. \A p \in Packages : Has(q.copy, p) => Needs[p][q.copy[p].version] \subseteq Packages
  BY <1>1, Constants, EntryParts
<1>5. ASSUME NEW p \in Packages, Has(mods, p), NEW d \in Needs[p][mods[p].version]
      PROVE  Has(mods, d)
  <2>1. CASE p = c.package
    <3>1. d \in Needs[c.package][c.version] /\ d \in Packages
      BY <1>1, <1>2, <1>5, <2>1, Constants
    <3>2. Has(q.copy, d)
      BY <3>1 DEF Supplied
    <3> QED BY <1>3, <3>1, <3>2
  <2>2. CASE p # c.package
    <3>1. Has(q.copy, p) /\ d \in Needs[p][q.copy[p].version]
      BY <1>2, <1>5, <2>2 DEF Has
    <3>2. Has(q.copy, d) /\ d \in Packages
      BY <1>4, <3>1 DEF Closed
    <3> QED BY <1>3, <3>2
  <2> QED BY <2>1, <2>2
<1>6. ASSUME NEW b \in q.left \ {c}, NEW d \in Needs[b.package][b.version]
      PROVE  Has(mods, d) \/ \E a \in q.left \ {c} : a.package = d
  <2>1. d \in Packages
    BY <1>1, Constants DEF Candidate
  <2>2. Has(q.copy, d) \/ \E a \in q.left : a.package = d
    BY DEF Supplied
  <2> QED BY <1>3, <2>1, <2>2
<1> QED BY <1>5, <1>6 DEF Closed

LEMMA InstallsOneKeeps == ASSUME IInv, NEW r \in Requests, InstallsOne(r) PROVE IInv'
<1> DEFINE q == requests[r]
           e(c) == q.copy[c.package]
           mods(c) == [q.copy EXCEPT ![c.package] = Installed(e(c), c.version, c.dep)]
           left(c) == q.left \ {c}
           saves(c) == left(c) = {} \/ ~On(e(c))
           touched(c) == IF saves(c) THEN {} ELSE q.touched \cup {c.package}
           done(c) == [q EXCEPT !.copy = mods(c), !.left = left(c), !.touched = touched(c)]
<1>1. q \in Request /\ q.pc = "install" /\ q.copy \in Mods /\ q.left \subseteq Candidate
      /\ q.stale \subseteq Packages /\ q.touched \subseteq Packages
      /\ q.wishes \in SUBSET (Packages \X Versions)
  BY DEF IInv, TypeOK, InstallsOne, Request
<1>2. PICK c \in Ready(r) : \E stuck \in SUBSET {p \in {c.package} : Has(q.copy, p)} :
        /\ files' = [files EXCEPT ![c.package] = Placed(@, e(c), c.version)]
        /\ IF saves(c) THEN Saves(r, mods(c), stuck)
           ELSE UNCHANGED manifest /\ doubt' = doubt \cup stuck
        /\ IF left(c) = {} THEN NextWish(r, done(c), q.wishes) ELSE Becomes(r, done(c))
  BY DEF InstallsOne
<1>3. /\ c \in q.left /\ c \in Candidate
      /\ \A b \in q.left : b.package \notin Needs[c.package][c.version]
  BY <1>1, <1>2 DEF Ready
<1>4. /\ c.package \in Packages /\ c.version \in Versions /\ c.dep \in BOOLEAN
      /\ c.version \in Version0
  BY <1>3, Constants DEF Candidate
<1>5. /\ e(c) \in Entry /\ files[c.package] \in Files /\ files \in [Packages -> Files]
      /\ Installed(e(c), c.version, c.dep) \in Entry
  BY <1>1, <1>4, EntryParts, InstalledType DEF IInv, TypeOK
<1>6. mods(c) \in Mods
  BY <1>1, <1>5 DEF Mods
<1>7. done(c) \in Request /\ done(c).copy = mods(c) /\ done(c).left = left(c)
      /\ done(c).touched = touched(c) /\ done(c).stale = q.stale /\ done(c).pc = "install"
  BY <1>1, <1>4, <1>6 DEF Request
<1>8. imported \/ (Closed(mods(c)) /\ Supplied(done(c)))
  <2> SUFFICES ASSUME ~imported
               PROVE  Closed(mods(c)) /\ Supplied(done(c))
    OBVIOUS
  <2>1. Closed(q.copy) /\ Supplied(q)
    BY <1>1 DEF IInv, Whole, Active
  <2>2. /\ Closed(mods(c))
        /\ \A b \in q.left \ {c} : \A d \in Needs[b.package][b.version] :
             Has(mods(c), d) \/ \E a \in q.left \ {c} : a.package = d
    BY <1>1, <1>3, <2>1, InstalledClosed
  <2> QED BY <1>7, <2>2 DEF Supplied
<1> HIDE DEF q, mods, left, saves, touched, done, e
<1>9. PICK n \in Request :
        /\ Becomes(r, n)
        /\ n.pc # "install" => n.touched = {}
        /\ n.pc # "idle" => n.copy = mods(c) /\ n.stale = q.stale
        /\ n.pc # "idle" /\ ~imported => Supplied(n)
        /\ touched(c) \subseteq n.touched
  <2>1. CASE left(c) = {}
    <3>1. touched(c) = {} /\ NextWish(r, done(c), q.wishes)
      BY <1>2, <2>1 DEF touched, saves
    <3>2. PICK n \in Request :
            /\ Becomes(r, n) /\ n.touched = {}
            /\ n.pc # "idle" => n.copy = done(c).copy /\ n.stale = done(c).stale /\ Supplied(n)
      BY <1>1, <1>7, <3>1, NextWishBecomes DEF IInv
    <3> QED BY <1>7, <3>1, <3>2
  <2>2. CASE left(c) # {}
    BY <1>2, <1>7, <1>8, <2>2
  <2> QED BY <2>1, <2>2
<1>10. imported' = imported /\ latest' = latest
  BY DEF InstallsOne
<1>11. /\ files'[c.package] = Placed(files[c.package], e(c), c.version)
       /\ \A p \in Packages \ {c.package} : files'[p] = files[p]
       /\ mods(c)[c.package] = Installed(e(c), c.version, c.dep)
       /\ \A p \in Packages \ {c.package} : mods(c)[p] = q.copy[p]
  BY <1>1, <1>2, <1>4, <1>5 DEF Mods, mods
<1>12. \A p \in Packages \ (doubt \cup q.stale) : Agree(mods(c)[p], files'[p])
  <2>1. \A p \in Packages \ (doubt \cup q.stale) : Agree(q.copy[p], files[p])
    BY <1>1 DEF IInv, CopiesAgree, Active, q
  <2>2. c.package \notin doubt \cup q.stale => Agree(mods(c)[c.package], files'[c.package])
    BY <1>4, <1>5, <1>11, <2>1, PlacedAgrees DEF e
  <2> QED BY <1>11, <2>1, <2>2
<1>13. \E stuck \in SUBSET {c.package} :
       /\ saves(c) => manifest' = mods(c) /\ doubt' = doubt \cup q.stale \cup stuck
       /\ ~saves(c) => /\ manifest' = manifest /\ doubt' = doubt \cup stuck
                       /\ touched(c) = q.touched \cup {c.package}
  BY <1>2 DEF Saves, q, touched
<1>14. /\ manifest' \in Mods /\ doubt' \subseteq Packages /\ doubt \subseteq doubt'
       /\ imported' \/ Closed(manifest')
  BY <1>1, <1>4, <1>6, <1>8, <1>10, <1>13 DEF IInv, TypeOK, Whole
<1>15. files' \in [Packages -> Files]
  <2>0. \A p \in Packages : files'[p] \in Files
    BY <1>4, <1>5, <1>11, FileTypes
  <2>1. files' = [files EXCEPT ![c.package] = Placed(@, e(c), c.version)]
    BY <1>2
  <2>3. files' = [p \in Packages |-> files'[p]]
    BY <1>1, <2>1 DEF IInv, TypeOK
  <2> QED BY <2>0, <2>3
<1>16. \A p \in Packages \ (doubt' \cup Touched') : Agree(manifest'[p], files'[p])
  <2>1. CASE saves(c)
    BY <1>12, <1>13, <2>1
  <2>2. CASE ~saves(c)
    <3>1. Touched \cup {c.package} \subseteq Touched'
      <4>1. Touched \subseteq Touched' \cup q.touched /\ n.touched \subseteq Touched'
        BY <1>9, BecomesTouched DEF IInv, q
      <4> QED BY <1>9, <1>13, <2>2, <4>1
    <3> QED BY <1>11, <1>13, <2>2, <3>1 DEF IInv, AsRecorded
  <2> QED BY <2>1, <2>2
<1>17. n.pc # "idle" => \A p \in Packages \ (doubt' \cup n.stale) : Agree(n.copy[p], files'[p])
  BY <1>9, <1>12, <1>14
<1>18. imported' \/ /\ Closed(manifest')
                    /\ n.pc # "idle" => Closed(n.copy) /\ Supplied(n)
  BY <1>8, <1>9, <1>10, <1>14
<1>19. imported' \in BOOLEAN /\ (imported => imported')
  BY <1>10 DEF IInv, TypeOK
<1> QED BY <1>9, <1>10, <1>14, <1>15, <1>16, <1>17, <1>18, <1>19, BecomesKeeps

LEMMA FailsKeeps == ASSUME IInv, NEW r \in Requests, Fails(r) PROVE IInv'
<1>1. requests[r].touched \subseteq Packages
  BY DEF IInv, TypeOK, Request
<1>2. /\ doubt' = doubt \cup requests[r].touched /\ Becomes(r, Idle)
      /\ UNCHANGED <<latest, manifest, files, imported>>
  BY DEF Fails
<1>3. Touched \subseteq Touched' \cup requests[r].touched
  BY <1>2, BecomesTouched, EmptyTypes DEF IInv
<1>4. \A p \in Packages \ (doubt' \cup Touched') : Agree(manifest'[p], files'[p])
  BY <1>2, <1>3 DEF IInv, AsRecorded
<1>5. /\ manifest' \in Mods /\ files' \in [Packages -> Files] /\ imported' \in BOOLEAN
      /\ doubt' \subseteq Packages /\ doubt \subseteq doubt' /\ (imported' \/ Closed(manifest'))
  BY <1>1, <1>2 DEF IInv, TypeOK, Whole
<1> QED BY <1>2, <1>4, <1>5, EndsKeeps

LEMMA BreaksKeeps == ASSUME IInv, NEW r \in Requests, Breaks(r) PROVE IInv'
<1> DEFINE q == requests[r]
           bare(c) == IF Has(q.copy, c.package) THEN NoFiles ELSE files[c.package]
           copied(c) == [bare(c) EXCEPT !.active = c.version]
           fates(c) == {bare(c), copied(c), Split(copied(c)),
                        Placed(files[c.package], q.copy[c.package], c.version)}
<1>1. q \in Request /\ q.touched \subseteq Packages /\ q.left \subseteq Candidate
  BY DEF IInv, TypeOK, Request
<1>2. PICK c \in Ready(r) :
        /\ \E f \in fates(c) : files' = [files EXCEPT ![c.package] = f]
        /\ doubt' = doubt \cup q.touched \cup {c.package}
  BY DEF Breaks
<1>3. c.package \in Packages /\ c.version \in Version0
  BY <1>1, Constants DEF Ready, Candidate
<1>4. PICK f \in fates(c) : files' = [files EXCEPT ![c.package] = f]
  BY <1>2
<1>5. files \in [Packages -> Files] /\ files[c.package] \in Files /\ q.copy[c.package] \in Entry
  BY <1>1, <1>3 DEF IInv, TypeOK, Request, Mods
<1>6. f \in Files
  <2>1. bare(c) \in Files
    BY <1>5, EmptyTypes
  <2>2. copied(c) \in Files
    BY <1>3, <1>5, <2>1, FileTypes
  <2>3. Split(copied(c)) \in Files
    BY <1>3, <1>5, <2>2, FileTypes
  <2>4. Placed(files[c.package], q.copy[c.package], c.version) \in Files
    BY <1>3, <1>5, FileTypes
  <2> QED BY <2>1, <2>2, <2>3, <2>4
<1>7. /\ files' \in [Packages -> Files]
      /\ \A p \in Packages \ {c.package} : files'[p] = files[p]
  BY <1>3, <1>4, <1>5, <1>6
<1>8. Becomes(r, Idle) /\ UNCHANGED <<latest, manifest, imported>>
  BY DEF Breaks
<1>9. Touched \subseteq Touched' \cup q.touched
  BY <1>8, BecomesTouched, EmptyTypes DEF IInv
<1>10. \A p \in Packages \ (doubt' \cup Touched') : Agree(manifest'[p], files'[p])
  BY <1>2, <1>7, <1>8, <1>9 DEF IInv, AsRecorded
<1>11. /\ manifest' \in Mods /\ imported' \in BOOLEAN
       /\ doubt' \subseteq Packages /\ doubt \subseteq doubt' /\ (imported' \/ Closed(manifest'))
  BY <1>1, <1>2, <1>3, <1>8 DEF IInv, TypeOK, Whole
<1> QED BY <1>7, <1>8, <1>10, <1>11, EndsKeeps

LEMMA CrashKeeps == ASSUME IInv, Crash PROVE IInv'
<1>1. doubt' = doubt \cup Touched
  BY DEF Crash
<1>2. requests' = [r \in Requests |-> Idle] /\ UNCHANGED <<latest, manifest, files, imported>>
  BY DEF Crash
<1>4. Touched \subseteq Packages
  <2>1. \A x \in Requests : requests[x].touched \subseteq Packages
    BY DEF IInv, TypeOK, Request
  <2> QED BY <2>1 DEF Touched
<1>5. TypeOK'
  BY <1>1, <1>2, <1>4, EmptyTypes DEF IInv, TypeOK
<1>6. AsRecorded'
  BY <1>1, <1>2 DEF IInv, AsRecorded
<1>7. CopiesAgree' /\ Untouched'
  BY <1>2 DEF CopiesAgree, Untouched, Active, Idle
<1>8. Whole'
  BY <1>2 DEF IInv, Whole, Active, Idle, Closed, Has
<1> QED BY <1>5, <1>6, <1>7, <1>8 DEF IInv

-----------------------------------------------------------------------------
(***************************************************************************)
(* The import                                                              *)
(***************************************************************************)

LEMMA ImportResolvesKeeps == ASSUME IInv, NEW r \in Requests, ImportResolves(r) PROVE IInv'
<1> DEFINE q == requests[r]
           n == [q EXCEPT !.pc = "import", !.wanted = Found(q)]
<1>1. q \in Request /\ q.pc = "index" /\ q.touched = {} /\ q.wanted \in Mods
  BY DEF IInv, TypeOK, Untouched, ImportResolves, Request
<1>2. Found(q) \in Mods
  BY <1>1, EmptyTypes DEF Found, Mods
<1>3. /\ n \in Request /\ n.pc = "import" /\ n.touched = {} /\ n.copy = q.copy
      /\ n.stale = q.stale /\ n.left = q.left
  BY <1>1, <1>2 DEF Request
<1>4. Becomes(r, n) /\ UNCHANGED <<latest, manifest, files, doubt, imported>>
  BY DEF ImportResolves
<1> HIDE DEF n
<1>5. \A p \in Packages \ (doubt' \cup n.stale) : Agree(n.copy[p], files'[p])
  BY <1>1, <1>3, <1>4 DEF IInv, CopiesAgree, Active
<1>6. imported' \/ (Closed(manifest') /\ Closed(n.copy) /\ Supplied(n))
  BY <1>1, <1>3, <1>4 DEF IInv, Whole, Active, Supplied
<1>7. Touched \subseteq Touched'
  BY <1>1, <1>3, <1>4, BecomesTouched DEF IInv
<1>8. \A p \in Packages \ (doubt' \cup Touched') : Agree(manifest'[p], files'[p])
  BY <1>4, <1>7 DEF IInv, AsRecorded
<1>9. /\ latest' = latest /\ manifest' \in Mods /\ files' \in [Packages -> Files]
      /\ doubt' \subseteq Packages /\ doubt \subseteq doubt' /\ imported' \in BOOLEAN
      /\ imported => imported'
  BY <1>4 DEF IInv, TypeOK
<1> QED BY <1>3, <1>4, <1>5, <1>6, <1>8, <1>9, BecomesKeeps

LEMMA LandedType ==
  ASSUME NEW f \in Files, NEW e \in Entry, NEW w \in Entry
  PROVE  Landed(f, e, w) \in Files
<1>1. w.version \in Version0
  BY DEF Entry
<1>2. Placed(f, e, w.version) \in Files
  BY <1>1, FileTypes
<1>3. \A g \in Files : Enable(g) \in Files /\ Disable(g) \in Files
  BY <1>1, FileTypes
<1> QED BY <1>2, <1>3 DEF Landed

\* A mod of the export is there in its version, switched as the export says.
LEMMA LandedAgrees ==
  ASSUME NEW f \in Files, NEW e \in Entry, NEW w \in Entry, w.version # 0,
         NEW dep \in BOOLEAN, Agree(e, f)
  PROVE  Agree([w EXCEPT !.dep = dep], Landed(f, e, w))
<1> DEFINE new == IF w.version = e.version THEN f ELSE Placed(f, e, w.version)
           active == IF On(e) THEN new ELSE Enable(new)
<1>1. /\ w.version \in Versions /\ w.enabled \in BOOLEAN
      /\ e.version \in Version0 /\ e.enabled \in BOOLEAN
  BY Constants DEF Entry, Version0
<1>2. /\ On(e) => new = [active |-> w.version, parked |-> 0]
      /\ ~On(e) => new = [active |-> 0, parked |-> w.version]
  <2>1. CASE w.version = e.version
    BY <2>1 DEF Agree, On
  <2>2. CASE w.version # e.version
    <3>1. Agree(Installed(e, w.version, FALSE), Placed(f, e, w.version))
      BY <1>1, PlacedAgrees
    <3>2. /\ Installed(e, w.version, FALSE).version = w.version
          /\ Installed(e, w.version, FALSE).enabled = On(e)
      BY DEF Installed
    <3> QED BY <2>2, <3>1, <3>2 DEF Agree
  <2> QED BY <2>1, <2>2
<1>3. active = [active |-> w.version, parked |-> 0]
  BY <1>1, <1>2 DEF Enable
<1>4. Landed(f, e, w) = IF w.enabled THEN active ELSE Disable(active)
  BY DEF Landed
<1>5. Landed(f, e, w) = IF w.enabled THEN [active |-> w.version, parked |-> 0]
                        ELSE [active |-> 0, parked |-> w.version]
  BY <1>3, <1>4, Constants, <1>1 DEF Disable
<1>6. /\ [w EXCEPT !.dep = dep].version = w.version
      /\ [w EXCEPT !.dep = dep].enabled = w.enabled
  BY DEF Entry
<1> QED BY <1>5, <1>6 DEF Agree

LEMMA ImportEndsKeeps ==
  ASSUME IInv, NEW r \in Requests, NEW on \in SUBSET Listed(requests[r]),
         NEW stuck \in SUBSET Packages, NEW split \in SUBSET Packages,
         ImportEnds(r, on, stuck, split)
  PROVE  IInv'
<1> DEFINE q == requests[r]
           wanted == [p \in Packages |-> [q.wanted[p] EXCEPT !.enabled = p \in on]]
           landed(p) == Landed(files[p], q.copy[p], wanted[p])
           fate == [p \in Packages |->
             CASE p \in Listed(q) -> IF p \in split THEN Split(landed(p)) ELSE landed(p)
               [] p \in Unlisted(q) \ stuck -> NoFiles
               [] OTHER -> files[p]]
           dep(w, p) == IF Has(q.copy, p) THEN q.copy[p].dep
                        ELSE Has(w, p) /\ Dependents(w, p) # {}
<1>1. /\ q \in Request /\ q.pc = "import" /\ q.copy \in Mods /\ q.wanted \in Mods
      /\ q.stale \subseteq Packages /\ files \in [Packages -> Files]
  BY DEF IInv, TypeOK, ImportEnds, Request
<1>2. files' = fate /\ Saves(r, Replaced(q.copy, wanted), stuck \cup split)
  BY DEF ImportEnds
<1>3. wanted \in Mods
  <2>1. ASSUME NEW p \in Packages PROVE [q.wanted[p] EXCEPT !.enabled = p \in on] \in Entry
    <3>1. q.wanted[p] \in Entry /\ (p \in on) \in BOOLEAN
      BY <1>1 DEF Mods
    <3> QED BY <3>1 DEF Entry
  <2> QED BY <2>1 DEF Mods
<1>0. \A p \in Packages : wanted[p].version = q.wanted[p].version
  BY <1>1 DEF Mods, Entry
<1> HIDE DEF wanted
<1>4. \A p \in Packages : q.copy[p] \in Entry /\ wanted[p] \in Entry /\ files[p] \in Files
  BY <1>1, <1>3 DEF Mods
<1>5. \A p \in Packages : landed(p) \in Files /\ Split(landed(p)) \in Files
  <2>1. \A p \in Packages : landed(p) \in Files
    BY <1>4, LandedType
  <2> QED BY <1>4, <2>1, FileTypes, Constants
<1>6. files' \in [Packages -> Files]
  <2>1. \A p \in Packages : fate[p] \in Files
    BY <1>4, <1>5, EmptyTypes
  <2> QED BY <1>2, <2>1
<1>7. manifest' = [p \in Packages |-> [wanted[p] EXCEPT !.dep = dep(wanted, p)]]
      /\ doubt' = doubt \cup q.stale \cup stuck \cup split
  BY <1>2 DEF Saves, Replaced
<1>8. \A p \in Packages : dep(wanted, p) \in BOOLEAN
  BY <1>4 DEF Entry
<1>9. \A p \in Packages : [wanted[p] EXCEPT !.dep = dep(wanted, p)] \in Entry
  BY <1>4, <1>8 DEF Entry
<1>10. manifest' \in Mods
  BY <1>7, <1>9 DEF Mods
<1>11. ASSUME NEW p \in Packages, p \notin doubt'
       PROVE  Agree(manifest'[p], files'[p])
  <2>1. Agree(q.copy[p], files[p])
    BY <1>1, <1>7, <1>11 DEF IInv, CopiesAgree, Active
  <2>2. /\ manifest'[p] = [wanted[p] EXCEPT !.dep = dep(wanted, p)]
        /\ manifest'[p].version = wanted[p].version
    BY <1>4, <1>7 DEF Entry
  <2>3. CASE Has(wanted, p)
    <3>1. p \in Listed(q) /\ p \notin split /\ p \notin Unlisted(q)
      BY <1>0, <1>7, <1>11, <2>3 DEF Has, Listed, Unlisted
    <3>4. fate[p] = CASE p \in Listed(q) -> IF p \in split THEN Split(landed(p)) ELSE landed(p)
                      [] p \in Unlisted(q) \ stuck -> NoFiles
                      [] OTHER -> files[p]
      OBVIOUS
    <3>5. files'[p] = Landed(files[p], q.copy[p], wanted[p])
      <4> HIDE DEF fate
      <4> QED BY <1>2, <3>1, <3>4
    <3>2. wanted[p].version # 0 /\ dep(wanted, p) \in BOOLEAN
      BY <1>8, <2>3 DEF Has
    <3> HIDE DEF dep
    <3>3. Agree([wanted[p] EXCEPT !.dep = dep(wanted, p)], Landed(files[p], q.copy[p], wanted[p]))
      BY <1>4, <2>1, <3>2, LandedAgrees
    <3> QED BY <2>2, <3>5, <3>3
  <2>4. CASE ~Has(wanted, p)
    <3>1. files'[p] = NoFiles
      BY <1>0, <1>2, <1>7, <1>11, <2>1, <2>4 DEF Agree, Has, Listed, Unlisted
    <3>2. manifest'[p].version = 0
      BY <2>2, <2>4 DEF Has
    <3> QED BY <3>1, <3>2 DEF Agree
  <2> QED BY <2>3, <2>4
<1>12. imported' = TRUE /\ latest' = latest /\ Becomes(r, Idle)
  BY DEF ImportEnds
<1>13. doubt' \subseteq Packages /\ doubt \subseteq doubt'
  BY <1>1, <1>7 DEF IInv, TypeOK
<1> QED BY <1>6, <1>10, <1>11, <1>12, <1>13, EndsKeeps

LEMMA ImportReplacesKeeps ==
  ASSUME IInv, NEW r \in Requests, ImportReplaces(r) \/ ImportStops(r)
  PROVE  IInv'
<1>1. CASE ImportReplaces(r)
  BY <1>1, ImportEndsKeeps DEF ImportReplaces, Replaceable
<1>2. CASE ImportStops(r)
  BY <1>2, ImportEndsKeeps DEF ImportStops, Listed
<1> QED BY <1>1, <1>2

LEMMA ImportUnsavedKeeps == ASSUME IInv, NEW r \in Requests, ImportUnsaved(r) PROVE IInv'
<1> DEFINE q == requests[r]
           fate(gone, done) == [p \in Packages |->
             CASE p \in done -> Landed(files[p], q.copy[p], q.wanted[p])
               [] p \in gone \ done -> NoFiles
               [] OTHER -> files[p]]
<1>1. /\ q \in Request /\ q.pc = "import" /\ files \in [Packages -> Files] /\ q.touched = {}
  BY DEF IInv, TypeOK, ImportUnsaved, Untouched
<1>2. PICK gone \in SUBSET Packages, done \in SUBSET Packages :
        files' = fate(gone, done) /\ doubt' = doubt \cup gone \cup done
  BY DEF ImportUnsaved, Replaceable, Listed
<1>3. \A p \in Packages : Landed(files[p], q.copy[p], q.wanted[p]) \in Files
  BY <1>1, LandedType DEF Request, Mods
<1>4. files' \in [Packages -> Files]
  <2>1. \A p \in Packages : fate(gone, done)[p] \in Files
    BY <1>1, <1>3, EmptyTypes
  <2> QED BY <1>2, <2>1
<1>5. Becomes(r, Idle) /\ UNCHANGED <<latest, manifest, imported>>
  BY DEF ImportUnsaved
<1>6. Touched \subseteq Touched'
  BY <1>1, <1>5, BecomesTouched, EmptyTypes DEF IInv
<1>7. \A p \in Packages \ (doubt' \cup Touched') : Agree(manifest'[p], files'[p])
  BY <1>2, <1>5, <1>6 DEF IInv, AsRecorded
<1>8. /\ manifest' \in Mods /\ imported' \in BOOLEAN
      /\ doubt' \subseteq Packages /\ doubt \subseteq doubt' /\ (imported' \/ Closed(manifest'))
  BY <1>2, <1>5 DEF IInv, TypeOK, Whole
<1> QED BY <1>4, <1>5, <1>7, <1>8, EndsKeeps

LEMMA ImportBreaksKeeps == ASSUME IInv, NEW r \in Requests, ImportBreaks(r) PROVE IInv'
<1> DEFINE q == requests[r]
           new == {p \in Listed(q) : q.wanted[p].version # q.copy[p].version}
           gone(p) == {d \in Packages : Has(q.copy, d) /\ (d = p \/ ~Has(q.wanted, d))}
           fate(p, done, v, w) == [d \in Packages |->
             IF d \in done THEN Placed(files[d], q.copy[d], q.wanted[d].version)
             ELSE IF d = p THEN [active |-> v, parked |-> w]
             ELSE IF d \in gone(p) THEN NoFiles ELSE files[d]]
           known(p, done, w) == [d \in Packages |->
             IF d \in done THEN Installed(q.copy[d], q.wanted[d].version, FALSE)
             ELSE IF d = p /\ w # 0 THEN [version |-> w, enabled |-> TRUE, dep |-> FALSE]
             ELSE IF d \in gone(p) THEN Absent ELSE q.copy[d]]
<1>1. /\ q \in Request /\ q.pc = "import" /\ q.copy \in Mods /\ q.wanted \in Mods
      /\ q.stale \subseteq Packages /\ files \in [Packages -> Files]
  BY DEF IInv, TypeOK, ImportBreaks, Request
<1>0. \E p \in new : \E done \in SUBSET (new \ {p}), v, w \in {0, q.wanted[p].version} :
        /\ w # 0 => ~On(q.copy[p])
        /\ files' = fate(p, done, v, w)
        /\ manifest' = known(p, done, w)
        /\ doubt' = doubt \cup q.stale \cup {p}
  BY Zenon DEF ImportBreaks
<1>2. PICK p \in new : \E done \in SUBSET (new \ {p}), v, w \in {0, q.wanted[p].version} :
        /\ w # 0 => ~On(q.copy[p])
        /\ files' = fate(p, done, v, w)
        /\ manifest' = known(p, done, w)
        /\ doubt' = doubt \cup q.stale \cup {p}
  BY <1>0, Zenon
<1>3. PICK done \in SUBSET (new \ {p}), v \in {0, q.wanted[p].version},
             w \in {0, q.wanted[p].version} :
        /\ files' = fate(p, done, v, w)
        /\ manifest' = known(p, done, w)
        /\ doubt' = doubt \cup q.stale \cup {p}
  <2> HIDE DEF fate, known, new
  <2> QED BY <1>2
<1>4. \A d \in Packages :
        /\ q.copy[d] \in Entry /\ q.wanted[d] \in Entry /\ files[d] \in Files
        /\ q.wanted[d].version \in Version0
        /\ Has(q.wanted, d) => q.wanted[d].version \in Versions
  BY <1>1, EntryParts DEF Mods
<1>5. p \in Packages /\ v \in Version0 /\ w \in Version0 /\ done \subseteq Packages /\ p \notin done
      /\ \A d \in done : q.wanted[d].version \in Versions
  BY <1>2, <1>3, <1>4, Constants DEF Listed
<1>6. \A d \in Packages : Placed(files[d], q.copy[d], q.wanted[d].version) \in Files
  BY <1>4, FileTypes
<1>7. [active |-> v, parked |-> w] \in Files /\ [version |-> w, enabled |-> TRUE, dep |-> FALSE] \in Entry
  BY <1>5 DEF Files, Entry
<1>8. files' \in [Packages -> Files]
  <2>1. \A d \in Packages : fate(p, done, v, w)[d] \in Files
    BY <1>4, <1>6, <1>7, EmptyTypes
  <2> QED BY <1>3, <2>1
<1>9. \A d \in done : Installed(q.copy[d], q.wanted[d].version, FALSE) \in Entry
  BY <1>4, <1>5, InstalledType
<1>10. manifest' \in Mods
  <2>1. \A d \in Packages : known(p, done, w)[d] \in Entry
    BY <1>4, <1>7, <1>9, EmptyTypes
  <2> QED BY <1>3, <2>1 DEF Mods
<1>11. ASSUME NEW d \in Packages, d \notin doubt'
       PROVE  Agree(manifest'[d], files'[d])
  <2>1. Agree(q.copy[d], files[d]) /\ d # p
    BY <1>1, <1>3, <1>11 DEF IInv, CopiesAgree, Active
  <2>2. CASE d \in done
    <3>1. /\ files'[d] = Placed(files[d], q.copy[d], q.wanted[d].version)
          /\ manifest'[d] = Installed(q.copy[d], q.wanted[d].version, FALSE)
      BY <1>3, <2>2
    <3> QED BY <1>4, <1>5, <2>1, <2>2, <3>1, PlacedAgrees
  <2>3. CASE d \notin done /\ d \in gone(p)
    <3>1. files'[d] = NoFiles /\ manifest'[d] = Absent
      BY <1>3, <2>1, <2>3
    <3> QED BY <3>1 DEF Agree, Absent
  <2>4. CASE d \notin done /\ d \notin gone(p)
    BY <1>3, <2>1, <2>4
  <2> QED BY <2>2, <2>3, <2>4
<1>12. imported' = TRUE /\ latest' = latest /\ Becomes(r, Idle)
  BY DEF ImportBreaks
<1>13. doubt' \subseteq Packages /\ doubt \subseteq doubt'
  BY <1>1, <1>3, <1>5 DEF IInv, TypeOK
<1> QED BY <1>8, <1>10, <1>11, <1>12, <1>13, EndsKeeps

-----------------------------------------------------------------------------
LEMMA InitIInv == Init => IInv
<1> SUFFICES ASSUME Init PROVE IInv
  OBVIOUS
<1>1. TypeOK
  <2>1. \A p \in Packages : 1 \in Versions
    BY Constants
  <2> QED BY <2>1, EmptyTypes DEF Init, TypeOK
<1>2. AsRecorded
  BY DEF Init, AsRecorded, Agree, None, Absent
<1>3. CopiesAgree /\ Untouched
  BY DEF Init, CopiesAgree, Untouched, Active, Idle
<1>4. Whole
  BY DEF Init, Whole, Active, Idle, Closed, Has, None, Absent
<1> QED BY <1>1, <1>2, <1>3, <1>4 DEF IInv

LEMMA RequestStepKeeps == ASSUME IInv, NEW r \in Requests, RequestStep(r) PROVE IInv'
<1>1. CASE \E p \in Asked : \E v \in 1..Newest[p] : Install(r, p, v)
  <2>1. PICK p \in Asked : \E v \in 1..Newest[p] : Install(r, p, v)
    BY <1>1
  <2>2. PICK v \in 1..Newest[p] : Install(r, p, v)
    BY <2>1
  <2>3. {<<p, v>>} \in SUBSET (Packages \X Versions)
    BY AskedAssumption, Constants
  <2> QED BY <2>2, <2>3, BeginsKeeps, EmptyTypes DEF Install
<1>2. CASE UpdateAll(r)
  BY <1>2, BeginsKeeps, EmptyTypes DEF UpdateAll
<1>3. CASE Check(r)
  BY <1>3, BeginsKeeps, EmptyTypes DEF Check
<1>4. CASE \E export \in Exports : Import(r, export)
  BY <1>4, BeginsKeeps, ExportsAssumption DEF Import
<1> QED
  BY <1>1, <1>2, <1>3, <1>4, ResolvesKeeps, SavesAgainKeeps, InstallsOneKeeps,
     ImportResolvesKeeps, ImportReplacesKeeps, ImportBreaksKeeps, ImportUnsavedKeeps, FailsKeeps, BreaksKeeps
  DEF RequestStep

LEMMA StutterKeeps == ASSUME IInv, UNCHANGED vars PROVE IInv'
<1>1. TypeOK' /\ AsRecorded' /\ CopiesAgree' /\ Untouched'
  BY DEF IInv, vars, TypeOK, AsRecorded, Touched, CopiesAgree, Untouched, Active
<1>2. Whole'
  BY DEF IInv, vars, Whole, Active, Closed, Has, Supplied
<1> QED BY <1>1, <1>2 DEF IInv

\* The inductive invariant: types, what is recorded, what each request believes,
\* and that every list of mods, saved or not, is closed under what mods need.
THEOREM Invariance == Spec => []IInv
<1>1. IInv /\ [Next]_vars => IInv'
  <2> SUFFICES ASSUME IInv, [Next]_vars PROVE IInv'
    OBVIOUS
  <2>1. CASE \E r \in Requests : RequestStep(r)
    BY <2>1, RequestStepKeeps
  <2>2. CASE \E p \in Packages : Toggle(p) \/ Uninstall(p) \/ StopsHalfWay(p) \/ Refreshed(p)
    BY <2>2, ToggleKeeps, UninstallKeeps, StopsHalfWayKeeps, RefreshedKeeps
  <2>3. CASE Prune
    BY <2>3, PruneKeeps
  <2>4. CASE Crash
    BY <2>4, CrashKeeps
  <2>5. CASE UNCHANGED vars
    BY <2>5, StutterKeeps
  <2> QED BY <2>1, <2>2, <2>3, <2>4, <2>5 DEF Next
<1> QED BY <1>1, InitIInv, PTL DEF Spec

\* Every variable keeps its type.
THEOREM TypeCorrect == Spec => []TypeOK
<1>1. IInv => TypeOK
  BY DEF IInv
<1> QED BY <1>1, Invariance, PTL

\* What is on disk is what mods.json says, but for what a request is installing
\* and the packages in doubt.
THEOREM AsRecordedHolds == Spec => []AsRecorded
<1>1. IInv => AsRecorded
  BY DEF IInv
<1> QED BY <1>1, Invariance, PTL

\* No mod is recorded without what it needs, until a profile is imported.
THEOREM DependenciesKeptHolds == Spec => []DependenciesKept
<1>1. IInv => DependenciesKept
  BY DEF IInv, Whole, Closed, DependenciesKept
<1> QED BY <1>1, Invariance, PTL

=============================================================================
