---------------------------- MODULE PackageCache ----------------------------
(***************************************************************************)
(* One version of a package in the cache that all instances share          *)
(* (vhsm/mods/cache.py): the file it is downloaded into, the directory it  *)
(* is unpacked in, and its entry, which counts once it bears a marker.     *)
(*                                                                         *)
(* A download runs on the event loop and unpacks in a thread; each is one  *)
(* of Fetchers, and any number may be under way, for nothing keeps two     *)
(* from fetching the same version.  Files are known by their path: who has *)
(* opened one that was unlinked since writes where nobody looks.  An       *)
(* upload and the clearing of the cache run on the event loop in one step, *)
(* also beside a thread, and each may be cut short by a crash.             *)
(***************************************************************************)
EXTENDS Naturals, FiniteSets

CONSTANTS
  Fetchers,  \* who may be in ensure_cached at once
  Members    \* the files in the package

VARIABLES
  part,     \* <version>.zip.part: "none", "empty" or "full"
  staging,  \* <version>.partial
  entry,    \* <version>
  fetch,    \* each fetcher
  doubted,  \* history: threads or removals were mixed up in what the entry holds
  spoilt    \* history: an entry was handed out that does not hold the package

cacheVars == <<part, staging, entry, fetch, doubted, spoilt>>

Marks == {"none", "old", "complete"}
Directory == [here : BOOLEAN, files : SUBSET Members, mark : Marks]
NoDirectory == [here |-> FALSE, files |-> {}, mark |-> "none"]
Whole == [here |-> TRUE, files |-> Members, mark |-> "complete"]

\* `linked': the file it writes is the one at the path; `alone': no other
\* thread and no removal since its own began.
Idle == [pc |-> "idle", linked |-> FALSE, left |-> {}, alone |-> FALSE]

CacheTypeOK ==
  /\ part \in {"none", "empty", "full"}
  /\ staging \in Directory /\ entry \in Directory
  /\ fetch \in [Fetchers ->
       [pc : {"idle", "asking", "writing", "written", "unpacking", "replacing",
              "done", "refused", "broken"},
        linked : BOOLEAN, left : SUBSET Members, alone : BOOLEAN]]
  /\ {doubted, spoilt} \subseteq BOOLEAN

\* An entry of an older version of the rules may be there.
CacheInit ==
  /\ part = "none" /\ staging = NoDirectory
  /\ entry \in {NoDirectory, [Whole EXCEPT !.mark = "old"]}
  /\ fetch = [f \in Fetchers |-> Idle]
  /\ doubted = FALSE /\ spoilt = FALSE

-----------------------------------------------------------------------------
\* Faulty variant: the directory is enough.
CachedIfThere == entry.here

\* is_cached
Cached == entry.mark = "complete"

Threads == {f \in Fetchers : fetch[f].pc \in {"unpacking", "replacing"}}

\* ensure_cached returns; the caller copies the files at once.
Returns(f) ==
  /\ fetch' = [fetch EXCEPT ![f] = [Idle EXCEPT !.pc = "done"]]
  /\ spoilt' = (spoilt \/ (~doubted /\ entry.files # Members))

\* The finally: the file goes, whoever writes it.
Unlinked(g) == [g EXCEPT !.linked = FALSE]

\* ensure_cached raises a CacheError ("refused"), or something else ("broken").
Raised(f, how) ==
  [g \in Fetchers |-> IF g = f THEN [Idle EXCEPT !.pc = how] ELSE Unlinked(fetch[g])]

Raises(f, how) == part' = "none" /\ fetch' = Raised(f, how)

Disturbed(fs) == [g \in Fetchers |-> [fs[g] EXCEPT !.alone = FALSE]]

Fetch(f) ==
  /\ fetch[f].pc = "idle"
  /\ IF Cached
       THEN Returns(f)
       ELSE fetch' = [fetch EXCEPT ![f].pc = "asking"] /\ UNCHANGED spoilt
  /\ UNCHANGED <<part, staging, entry, doubted>>

\* Thunderstore answers; the file is opened, and emptied if it is there.
Opens(f) ==
  /\ fetch[f].pc = "asking"
  /\ part' = "empty"
  /\ fetch' = [fetch EXCEPT ![f] = [@ EXCEPT !.pc = "writing", !.linked = TRUE]]
  /\ UNCHANGED <<staging, entry, doubted, spoilt>>

Writes(f) ==
  /\ fetch[f].pc = "writing"
  /\ part' = IF fetch[f].linked THEN "full" ELSE part
  /\ fetch' = [fetch EXCEPT ![f].pc = "written"]
  /\ UNCHANGED <<staging, entry, doubted, spoilt>>

\* No address, no answer, too large: a CacheError; or the disk is full.
DownloadFails(f) ==
  /\ fetch[f].pc \in {"asking", "writing"}
  /\ \E how \in {"refused", "broken"} : Raises(f, how)
  /\ UNCHANGED <<staging, entry, doubted, spoilt>>

-----------------------------------------------------------------------------
(***************************************************************************)
(* _extract_blocking                                                       *)
(***************************************************************************)

\* What is left of another extraction is removed, and the file is opened.
Unpacks(f) ==
  /\ fetch[f].pc = "written" /\ part = "full"
  /\ staging' = [NoDirectory EXCEPT !.here = TRUE]
  /\ fetch' = [g \in Fetchers |->
       IF g = f
         THEN [fetch[g] EXCEPT !.pc = "unpacking", !.left = Members, !.alone = Threads = {}]
         ELSE [fetch[g] EXCEPT !.alone = FALSE]]
  /\ UNCHANGED <<part, entry, doubted, spoilt>>

\* It is not there, or not a zip as another download has just emptied it.
NothingToUnpack(f) ==
  /\ fetch[f].pc = "written" /\ part # "full"
  /\ part' = "none"
  /\ \/ /\ part = "none"
        /\ fetch' = Disturbed(Raised(f, "broken"))
        /\ staging' = [NoDirectory EXCEPT !.here = TRUE]
     \/ /\ part = "empty"
        /\ fetch' = Disturbed(Raised(f, "refused"))
        /\ staging' = NoDirectory
  /\ UNCHANGED <<entry, doubted, spoilt>>

\* A member; its directory is made again if it is gone.
Member(f, m) ==
  /\ fetch[f].pc = "unpacking" /\ m \in fetch[f].left
  /\ staging' = [staging EXCEPT !.here = TRUE, !.files = @ \cup {m}]
  /\ fetch' = [fetch EXCEPT ![f].left = @ \ {m}]
  /\ UNCHANGED <<part, entry, doubted, spoilt>>

\* A bad member, which clears up, or any other failure, which does not.
MemberFails(f) ==
  /\ fetch[f].pc = "unpacking"
  /\ \/ Raises(f, "refused") /\ staging' \in {staging, NoDirectory}
     \/ Raises(f, "broken") /\ UNCHANGED staging
  /\ UNCHANGED <<entry, doubted, spoilt>>

Marked(f) ==
  /\ fetch[f].pc = "unpacking" /\ fetch[f].left = {}
  /\ staging.here
  /\ staging' = [staging EXCEPT !.mark = "complete"]
  /\ fetch' = [fetch EXCEPT ![f].pc = "replacing"]
  /\ UNCHANGED <<part, entry, doubted, spoilt>>

\* The old entry goes, and what was unpacked takes its place.
Replaces(f) ==
  /\ fetch[f].pc = "replacing" /\ staging.here
  /\ entry' = staging /\ staging' = NoDirectory
  /\ doubted' = ~fetch[f].alone
  /\ part' = "none"
  /\ fetch' = [g \in Fetchers |->
       IF g = f THEN [Idle EXCEPT !.pc = "done"] ELSE Unlinked(fetch[g])]
  /\ spoilt' = (spoilt \/ (~doubted' /\ entry'.files # Members))

\* Another thread has moved what this one unpacked, or put an entry there
\* after this one removed it.
ReplaceFails(f) ==
  /\ fetch[f].pc \in {"unpacking", "replacing"} /\ fetch[f].left = {}
  /\ ~staging.here \/ (fetch[f].pc = "replacing" /\ Threads # {f})
  /\ Raises(f, "broken")
  /\ \/ UNCHANGED <<entry, doubted>>
     \/ fetch[f].pc = "replacing" /\ entry' = NoDirectory /\ doubted' = FALSE
  /\ UNCHANGED <<staging, spoilt>>

-----------------------------------------------------------------------------
(***************************************************************************)
(* Requests                                                                *)
(***************************************************************************)
\* store_upload, of a zip that is one.
Upload ==
  /\ staging' = NoDirectory /\ entry' = Whole
  /\ doubted' = (Threads # {})
  /\ fetch' = Disturbed(fetch)
  /\ UNCHANGED <<part, spoilt>>

\* clear_cache; what is being written stays open.
Clear ==
  /\ part' = "none" /\ staging' = NoDirectory /\ entry' = NoDirectory
  /\ doubted' = FALSE
  /\ fetch' = Disturbed([g \in Fetchers |-> Unlinked(fetch[g])])
  /\ UNCHANGED spoilt

\* The manager dies.  A removal of the entry that was under way, by a thread
\* or by one of these requests, has removed some of it, and maybe not the
\* marker.
CacheCrash ==
  /\ fetch' = [f \in Fetchers |-> Idle]
  /\ \/ UNCHANGED <<entry, doubted>>
     \/ /\ entry.here
        /\ \E files \in SUBSET entry.files, mark \in {entry.mark, "none"} :
             entry' = [here |-> TRUE, files |-> files, mark |-> mark]
        /\ doubted' = (doubted \/ (entry'.mark = "complete" /\ entry'.files # entry.files))
     \/ entry' = NoDirectory /\ doubted' = FALSE
  /\ UNCHANGED <<part, staging, spoilt>>
=============================================================================
