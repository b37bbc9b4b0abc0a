------------------------------ MODULE MCStores ------------------------------
(***************************************************************************)
(* The modules of what is stored, searched and remembered on small         *)
(* instances.  They share no state; a behavior is one of the module that   *)
(* `part' names, as in MCGateway.                                          *)
(***************************************************************************)
EXTENDS Naturals, Sequences, FiniteSets, TLC

CONSTANTS
  Goroutines,   \* goroutines that write, store or run a dialogue
  None,         \* nothing
  Files, AuditRoot, Header, Torn, MaxWrites, MaxCrashes,               \* of SafeWrite
  Keys, Values, Levels, TTLs, MaxTime, MaxSets,                        \* of KVStore
  MaxKeep, TrimLimit, MaxSeconds,                                      \* of Snapshots
  Ids, Places, Importances, Contents, Reread, CutOff, Claimed, MaxIndex, Share,
  MaxDays, MaxEngrams, MaxRestarts,                                    \* of Engrams
  Han, Latin, Stem, Dict, DocIds, Documents, Queries, Long, SearchLimit,
  MaxIndexed, MaxSaves,                                                \* of SearchIndex
  Missing, Partial, MaxReleases,                                       \* of Updater
  Sessions, Requests, Scores, ContinueTexts, Skills, Priority, Parts,
  Answer, Fallback, Keywords, WindowSize, SummaryThreshold, InjectRounds,
  MemoryLimit, SessionTimeout, DecayAfter, MaxTicks, MaxRuns,          \* of Dialogue
  Jobs, SkillOf, KeyOf, Once, Cached, SlotLimit, MaxRetries,
  Ttl, CacheSize, MaxClock                                             \* of SlotSkill

VARIABLES
  part,
  inode, name, tmp, writer, wrote, roots, excused, writes, crashes,
  kvClock, items, last, got, listed, sets,
  second, versions, archives, taking, named, taken, complete, newest,
  day, engrams, onDisk, storing, left, unsure, stored, restarts,
  docs, index, docMeta, termDocFreq, docLen, totalDocs, totalLen, files, saving, indexed, saves,
  current, bak, fetched, fetchTmp, step, release,
  tick, lastIntent, sessions, memories, run, appended, deleted, runs,
  made, slots, job, answer, caches, cache, latest, cacheClock

writeVars == <<inode, name, tmp, writer, wrote, roots, excused, writes, crashes>>
kvVars == <<kvClock, items, last, got, listed, sets>>
snapVars == <<second, versions, archives, taking, named, taken, complete, newest>>
engramVars == <<day, engrams, onDisk, storing, left, unsure, stored, restarts>>
searchVars == <<docs, index, docMeta, termDocFreq, docLen, totalDocs, totalLen,
                files, saving, indexed, saves>>
updateVars == <<current, bak, fetched, fetchTmp, step, release>>
talkVars == <<tick, lastIntent, sessions, memories, run, appended, deleted, runs>>
slotVars == <<made, slots, job, answer, caches, cache, latest, cacheClock>>
vars == <<part, writeVars, kvVars, snapVars, engramVars, searchVars,
          updateVars, talkVars, slotVars>>

Write == INSTANCE SafeWrite WITH Writers <- Goroutines
Store == INSTANCE KVStore WITH clock <- kvClock
Snap == INSTANCE Snapshots
Engram == INSTANCE Engrams WITH EngramWriters <- Goroutines, MaxSize <- MaxIndex
Search == INSTANCE SearchIndex WITH Words <- Latin, Texts <- Documents
Update == INSTANCE Updater
Talk == INSTANCE Dialogue WITH
          Runners <- Goroutines, Texts <- Requests, Words <- Keywords, Limit <- MemoryLimit
Slots == INSTANCE SlotSkill WITH
           Limit <- SlotLimit, MaxSize <- CacheSize, clock <- cacheClock

(* Goroutines, paths, executions and documents are finitely many; what     *)
(* there is not is no file, no number and no line of one; there is room in *)
(* a cache; and a snapshot manager keeps a snapshot, and no more of them   *)
(* than the GC does (viking/gc.go and cmd/harmonclaw/main.go both say 24). *)
ASSUME StoresAssumption ==
  /\ IsFiniteSet(Goroutines) /\ IsFiniteSet(Files) /\ IsFiniteSet(Jobs) /\ IsFiniteSet(DocIds)
  /\ AuditRoot \notin Files /\ None \notin Nat \cup Files \cup {AuditRoot}
  /\ Levels \subseteq Nat /\ TTLs \subseteq Nat
  /\ MaxKeep \in Nat \ {0} /\ TrimLimit \in Nat /\ TrimLimit >= MaxKeep
  /\ Missing # Partial /\ Missing \notin Nat /\ Partial \notin Nat
  /\ SlotLimit \in Nat /\ CacheSize \in Nat \ {0} /\ Ttl \in Nat

(* A content is read back as a content; what its lines may say it is is    *)
(* the id and place of an engram; and nothing is none of these.            *)
ASSUME EngramAssumption ==
  /\ Reread \in [Contents -> Contents]
  /\ Claimed \in [Contents -> [id : Ids, place : Places] \cup {None}]
  /\ None \notin [id : Ids, place : Places]
  /\ None \notin [id : Ids, place : Places, content : Contents,
                  importance : Importances \cup {0}, accessed : Nat \cup {None}]

(* Texts and words are sequences of characters, a word of the dictionary   *)
(* is longest, and porterStem gives no Chinese character.                  *)
ASSUME TextAssumption ==
  /\ \A t \in Documents \cup Queries : t \in Seq({t[i] : i \in DOMAIN t})
  /\ None \notin Documents /\ SearchLimit \in Nat
  /\ \A w \in Dict : w \in Seq(Han \cup Latin)
  /\ \E w \in Dict \cup {<<>>} : \A v \in Dict : Len(v) <= Len(w)
  /\ \A w \in Latin : Stem[w] \notin Han

(* Nothing is no conversation; a window has a size, and what leaves it at  *)
(* once is some turns (internal/engine/context_manager.go:26, 20 and 10).  *)
ASSUME TalkAssumption ==
  /\ None \notin [turns : Seq([n : Nat, role : {"user", "assistant"},
                               content : Requests \cup {Answer, Fallback}]),
                  accessed : Nat]
  /\ WindowSize \in Nat /\ SummaryThreshold \in Nat \ {0} /\ MemoryLimit \in Nat

-----------------------------------------------------------------------------
Init ==
  /\ part \in {"write", "store", "snap", "engram", "search", "update", "talk", "slots"}
  /\ Write!Init
  /\ Store!Init
  /\ Snap!Init
  /\ Engram!Init
  /\ Search!Init
  /\ Update!Init
  /\ Talk!Init
  /\ Slots!Init

WriteStep == part = "write" /\ Write!Next
  /\ UNCHANGED <<part, kvVars, snapVars, engramVars, searchVars, updateVars, talkVars, slotVars>>
StoreStep == part = "store" /\ Store!Next
  /\ UNCHANGED <<part, writeVars, snapVars, engramVars, searchVars, updateVars, talkVars, slotVars>>
SnapStep == part = "snap" /\ Snap!Next
  /\ UNCHANGED <<part, writeVars, kvVars, engramVars, searchVars, updateVars, talkVars, slotVars>>
EngramStep == part = "engram" /\ Engram!Next
  /\ UNCHANGED <<part, writeVars, kvVars, snapVars, searchVars, updateVars, talkVars, slotVars>>
SearchStep == part = "search" /\ Search!Next
  /\ UNCHANGED <<part, writeVars, kvVars, snapVars, engramVars, updateVars, talkVars, slotVars>>
UpdateStep == part = "update" /\ Update!Next
  /\ UNCHANGED <<part, writeVars, kvVars, snapVars, engramVars, searchVars, talkVars, slotVars>>
TalkStep == part = "talk" /\ Talk!Next
  /\ UNCHANGED <<part, writeVars, kvVars, snapVars, engramVars, searchVars, updateVars, slotVars>>
SlotStep == part = "slots" /\ Slots!Next
  /\ UNCHANGED <<part, writeVars, kvVars, snapVars, engramVars, searchVars, updateVars, talkVars>>

Next ==
  \/ WriteStep \/ StoreStep \/ SnapStep \/ EngramStep
  \/ SearchStep \/ UpdateStep \/ TalkStep \/ SlotStep

Spec == Init /\ [][Next]_vars

-----------------------------------------------------------------------------
(* Properties, stated in the modules *)

(* A file that one goroutine writes at a time is whole, the audit root has *)
(* every root since the last append that could not read it, unless two     *)
(* appends at once have lost some, and there is always a whole program to  *)
(* run (viking/write.go, viking/merkle.go, updater/updater.go).            *)
FilesKept ==
  /\ part = "write" => Write!FilesWhole /\ Write!RootsKept
  /\ part = "update" => Update!BinaryKept

(* Readers see the value that was set last until it expires                *)
(* (viking/store.go).                                                      *)
NewestSeen == part = "store" => Store!LastValueSeen

(* A trim removes neither the newest snapshot nor, while fewer than the    *)
(* limit are behind it, a complete one (viking/snapshot.go, viking/gc.go). *)
SnapshotsKept == part = "snap" => Snap!NewestKept

(* The index of engrams is what their files say, as far as they can be     *)
(* read back and removed, and both search indexes count what the documents *)
(* they hold contain (viking/engram.go, viking/search.go, viking/bm25.go). *)
IndexesMatch ==
  /\ part = "engram" => Engram!IndexMatchesFiles
  /\ part = "search" => Search!IndexMatchesDocs

(* A search finds, up to its limit, what contains its words                *)
(* (viking/segment.go).                                                    *)
SearchFindsContained == part = "search" => Search!SearchFindsContained

(* Turns are in the window, in a summary, or deleted with a session that   *)
(* was idle; an answer is behind its question, and no two memories are     *)
(* alike (internal/engine).                                                *)
DialogueKept ==
  part = "talk" => Talk!TurnsKept /\ Talk!AnswerBehindQuestion /\ Talk!MemoriesDistinct

(* As many requests are under way as slots are taken, and a full cache     *)
(* keeps the answer that came last, unless two first calls made the        *)
(* channel or the cache (skills).                                          *)
SlotsKept == part = "slots" => Slots!SlotsAreRequests /\ Slots!CacheKeepsLatest

-----------------------------------------------------------------------------
(* A small instance *)

(* Texts with words of one and of two characters, with a word that has a   *)
(* stem, with a repeated token and too long to be read back, and a query   *)
(* without any token.                                                      *)
MCLong == {<<"tests", "-", "yi", "ge", "tests">>}
MCDocuments == {<<"yi", "ge", "ren">>, <<"ge", "ren", "tests">>} \cup MCLong
MCQueries == MCDocuments \cup {<<"ge", "ren">>, <<"test">>, <<"-">>}
MCDict == {<<"yi", "ge">>, <<"ren">>, <<"test">>}
MCStem == [w \in Latin |-> "test"]

(* Contents: one line; two, of which the first is read and the second, a   *)
(* "---", ends the reading; and one that says that it is another engram.   *)
MCReread == [c \in Contents |-> IF c = "lines" THEN "plain" ELSE c]
MCClaimed == [c \in Contents |-> IF c = "claims" THEN [id |-> "i1", place |-> "p1"] ELSE None]

(* A request for two skills, one that is remembered, and one more.         *)
MCScores == [t \in Requests |->
  [i \in {"skill", "search", "memory", "system", "chat"} |->
     CASE t = "run" /\ i = "skill" -> 4
       [] t = "hi" /\ i = "memory" -> 3
       [] OTHER -> 0]]
MCPriority == [k \in Skills |-> IF k = "a" THEN 80 ELSE 70]
MCParts == [t \in Requests |->
  IF t = "run" THEN <<[k \in Skills |-> 1], [k \in Skills |-> IF k = "b" THEN 1 ELSE 0]>>
               ELSE <<[k \in Skills |-> 0]>>]
MCKeywords == [c \in Requests \cup {Answer, Fallback} |->
  CASE c = "hi" -> {"x", "y"} [] c = Answer -> {"x", "y", "z"} [] OTHER -> {"z"}]

(* Two executions of a skill with a cache, under different keys, and two   *)
(* of the proxy.                                                           *)
MCSkillOf == [j \in Jobs |-> IF j \in {"j1", "j2"} THEN "tts" ELSE "oc"]
MCKeyOf == [j \in Jobs |-> IF j = "j1" THEN "x" ELSE "y"]

Symmetry == Permutations(Goroutines) \cup Permutations(Files)
=============================================================================
