------------------------------- MODULE Engrams -------------------------------
(***************************************************************************)
(* EngramStore (viking/engram.go): one file per engram, under the date and *)
(* session of the engram, and an index in memory.  Write puts the file     *)
(* there before it takes the lock; Delete and the collection of old        *)
(* engrams remove file and index entry under it; Load rebuilds the index   *)
(* from the files when the process starts.  A day is the unit of time.     *)
(*                                                                         *)
(* A file has a line for each field, the id, date and session before the   *)
(* content, importance and access behind it, and the content as it is.  A  *)
(* content of several lines is read back as its first; a line of it that   *)
(* is like that of a field replaces the field, and behind a line "---", or *)
(* one of 64 KiB, nothing more is read.                                    *)
(***************************************************************************)
EXTENDS Naturals, FiniteSets

CONSTANTS
  Ids, Places,        \* ids of engrams; date and session
  Importances,
  Contents,           \* contents; what is read back of one:
  Reread,             \* content: its first line
  CutOff,             \* contents behind which nothing is read
  Claimed,            \* content: [id, place] its lines say, or None
  EngramWriters,
  MaxSize, Share,     \* 10000, and the tenth that is evicted
  None,
  MaxDays, MaxEngrams, MaxRestarts

VARIABLES
  day,
  engrams,       \* the index: id to engram or None
  onDisk,        \* [place, id] to engram or None
  storing,       \* goroutine: the engram it writes, and whether the file is there
  left,          \* ids whose file Remove could not remove, or Load not read
  unsure,        \* ids written at two places, or written or removed while a
                 \* goroutine was writing them, or claimed by a content
  stored, restarts

vars == <<day, engrams, onDisk, storing, left, unsure, stored, restarts>>

NotStoring == [engram |-> None, renamed |-> FALSE]
Indexed == {id \in Ids : engrams[id] # None}
PathOf(e) == <<e.place, e.id>>

(* parseEngram of what serializeEngram gives: no importance and the zero   *)
(* time when the reading stops before them.                                *)
Parsed(e) ==
  LET c == e.content
  IN  [id |-> IF Claimed[c] = None THEN e.id ELSE Claimed[c].id,
       place |-> IF Claimed[c] = None THEN e.place ELSE Claimed[c].place,
       content |-> Reread[c],
       importance |-> IF c \in CutOff THEN 0 ELSE e.importance,
       accessed |-> IF c \in CutOff THEN None ELSE e.accessed]

Init ==
  /\ day = 0
  /\ engrams = [id \in Ids |-> None]
  /\ onDisk = [p \in Places \X Ids |-> None]
  /\ storing = [w \in EngramWriters |-> NotStoring]
  /\ left = {} /\ unsure = {}
  /\ stored = 0 /\ restarts = 0

BeingStored(id) == \E w \in EngramWriters : storing[w].engram # None /\ storing[w].engram.id = id

BeginWrite(w, e) ==
  /\ storing[w].engram = None
  /\ stored < MaxEngrams
  /\ stored' = stored + 1
  /\ storing' = [storing EXCEPT ![w].engram = e]
  /\ unsure' = unsure \cup
       (IF BeingStored(e.id) \/ \E p \in Places \ {e.place} : onDisk[<<p, e.id>>] # None
        THEN {e.id} ELSE {}) \cup
       (IF PathOf(Parsed(e)) # PathOf(e) THEN {e.id, Parsed(e).id} ELSE {})
  /\ UNCHANGED <<day, engrams, onDisk, left, restarts>>

(* The file is written beside its name and renamed. *)
RenameFile(w) ==
  /\ storing[w].engram # None /\ ~storing[w].renamed
  /\ onDisk' = [onDisk EXCEPT ![PathOf(storing[w].engram)] = storing[w].engram]
  /\ storing' = [storing EXCEPT ![w].renamed = TRUE]
  /\ UNCHANGED <<day, engrams, left, unsure, stored, restarts>>

WriteFails(w) ==
  /\ storing[w].engram # None /\ ~storing[w].renamed
  /\ storing' = [storing EXCEPT ![w] = NotStoring]
  /\ UNCHANGED <<day, engrams, onDisk, left, unsure, stored, restarts>>

-----------------------------------------------------------------------------
(* gc: importance (at least 1) times days since the last access, over 30;  *)
(* the engrams with the least score go.  Since the zero time it is as long *)
(* as a duration can be, 292 years.                                        *)
DaysSince(e) == IF e.accessed = None THEN 292 * 365 ELSE day - e.accessed
Score(e) == (IF e.importance < 1 THEN 1 ELSE e.importance) * (30 + DaysSince(e))

Victims(index) ==
  LET ids == {id \in Ids : index[id] # None}
      n == IF Cardinality(ids) \div Share < 1 THEN 1 ELSE Cardinality(ids) \div Share
  IN  {V \in SUBSET ids : /\ Cardinality(V) = n
                          /\ \A v \in V, u \in ids \ V : Score(index[v]) <= Score(index[u])}

FileOf(index, id) == <<index[id].place, id>>

(* Variant: the file that is removed is that of the day of the removal. *)
RemoveElsewhere(index, ids) ==
  /\ engrams' = [id \in Ids |-> IF id \in ids THEN None ELSE index[id]]
  /\ left' = left \ ids
  /\ UNCHANGED onDisk

(* The error of os.Remove is ignored: the index forgets an engram whose    *)
(* file stays.                                                             *)
Remove(index, ids) ==
  /\ engrams' = [id \in Ids |-> IF id \in ids THEN None ELSE index[id]]
  /\ \E stay \in SUBSET {id \in ids : onDisk[FileOf(index, id)] # None} :
       /\ onDisk' = [p \in Places \X Ids |->
                       IF p[2] \in ids \ stay /\ p = FileOf(index, p[2]) THEN None ELSE onDisk[p]]
       /\ left' = (left \ ids) \cup stay

(* Under the lock: the index entry, and gc when there are too many. *)
IndexEngram(w) ==
  /\ storing[w].renamed
  /\ LET e == storing[w].engram
         index == [engrams EXCEPT ![e.id] = e]
     IN  IF Cardinality({id \in Ids : index[id] # None}) > MaxSize
         THEN \E V \in Victims(index) :
                /\ Remove(index, V)
                /\ unsure' = unsure \cup {id \in V : \E v \in EngramWriters \ {w} :
                                            storing[v].engram # None /\ storing[v].engram.id = id}
         ELSE engrams' = index /\ left' = left \ {e.id} /\ UNCHANGED <<onDisk, unsure>>
  /\ storing' = [storing EXCEPT ![w] = NotStoring]
  /\ UNCHANGED <<day, stored, restarts>>

Delete(id) ==
  /\ engrams[id] # None
  /\ Remove(engrams, {id})
  /\ unsure' = IF BeingStored(id) THEN unsure \cup {id} ELSE unsure
  /\ UNCHANGED <<day, storing, stored, restarts>>

(* The process stops and starts: Load parses the files in the order of     *)
(* their paths, so that one of them wins when two give the same id, and    *)
(* passes over what it cannot read.                                        *)
Restart ==
  /\ restarts < MaxRestarts
  /\ restarts' = restarts + 1
  /\ storing' = [w \in EngramWriters |-> NotStoring]
  /\ LET found(id) == {Parsed(onDisk[q]) : q \in {p \in Places \X Ids :
                         onDisk[p] # None /\ Parsed(onDisk[p]).id = id}}
     IN  /\ engrams' \in [Ids -> {None} \cup UNION {found(id) : id \in Ids}]
         /\ \A id \in Ids : engrams'[id] \in {None} \cup found(id)
         /\ left' = {id \in Ids : engrams'[id] = None /\ found(id) # {}}
  /\ UNCHANGED <<day, onDisk, unsure, stored>>

NextDay ==
  /\ day < MaxDays /\ day' = day + 1
  /\ UNCHANGED <<engrams, onDisk, storing, left, unsure, stored, restarts>>

Next ==
  \/ \E w \in EngramWriters :
       \/ \E id \in Ids, p \in Places, i \in Importances, c \in Contents :
            BeginWrite(w, [id |-> id, place |-> p, content |-> c, importance |-> i,
                           accessed |-> day])
       \/ RenameFile(w) \/ WriteFails(w) \/ IndexEngram(w)
  \/ \E id \in Ids : Delete(id)
  \/ Restart \/ NextDay

Spec == Init /\ [][Next]_vars

-----------------------------------------------------------------------------
(* Properties *)

(* The index and the files agree on every engram that is always written at *)
(* one place and never by two at once, and which no content claims to be:  *)
(* what is indexed is on disk, as it was written or as it is read back,    *)
(* where a removal looks for it; and what was deleted or evicted is gone,  *)
(* also after a restart, unless its file could not be removed or read.  A  *)
(* file that is not indexed is one whose Write is about to be.             *)
IndexMatchesFiles ==
  \A id \in Ids \ unsure :
    LET files == {onDisk[<<p, id>>] : p \in Places} \ {None}
    IN  \/ engrams[id] = None /\ (files = {} \/ id \in left)
        \/ \E f \in files : /\ files = {f} /\ engrams[id] \in {f, Parsed(f)}
                            /\ engrams[id].place = f.place
        \/ \E w \in EngramWriters : storing[w].renamed /\ files = {storing[w].engram}
===============================================================================
