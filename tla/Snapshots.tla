------------------------------ MODULE Snapshots ------------------------------
(***************************************************************************)
(* SnapshotManager (viking/snapshot.go) and what the GC (viking/gc.go)     *)
(* asks of it.  A snapshot is named after the second it is taken in; it is *)
(* written beside its name and renamed.  The manager keeps a list of names *)
(* in memory, newest first; the directory is what a restart finds.  The    *)
(* program takes a snapshot when it is told to stop, once, while the API   *)
(* and the GC may list what there is.                                      *)
(***************************************************************************)
EXTENDS Naturals, Sequences, FiniteSets

CONSTANTS
  MaxKeep,       \* 24, at least 1
  TrimLimit,     \* the 24 in GC.Run
  MaxSeconds

VARIABLES
  second,        \* the clock, in the format of the names
  versions,      \* SnapshotManager.versions
  archives,      \* the names in the directory, without those of a .tmp
  taking,        \* the name of the snapshot that is being taken, or 0
  named,         \* whether it is renamed, and the trim to come
  taken,         \* whether this process has taken its snapshot (main.go:246)
  complete,      \* names whose archive, gone or not, was complete
  newest         \* the name of the newest archive there ever was

vars == <<second, versions, archives, taking, named, taken, complete, newest>>

Init ==
  /\ second = 1 /\ versions = <<>> /\ archives = {}
  /\ taking = 0 /\ named = FALSE /\ taken = FALSE
  /\ complete = {} /\ newest = 0

(* What the directory lists, newest first. *)
Listings(names) ==
  {list \in [1..Cardinality(names) -> names] :
     \A i, j \in DOMAIN list : i < j => list[i] > list[j]}
Kept(list) == SubSeq(list, 1, IF Len(list) < MaxKeep THEN Len(list) ELSE MaxKeep)
Elements(list) == {list[i] : i \in DOMAIN list}

(* sort.Slice by name after the new name is appended; a name can be there  *)
(* already when it was listed from the directory.                          *)
WithVersion(list, v) ==
  LET n == Cardinality({i \in DOMAIN list : list[i] > v})
  IN  SubSeq(list, 1, n) \o <<v>> \o SubSeq(list, n + 1, Len(list))

-----------------------------------------------------------------------------
Begin ==
  /\ ~taken
  /\ taken' = TRUE
  /\ taking' = second
  /\ UNCHANGED <<second, versions, archives, named, complete, newest>>

(* A file cannot be walked, or the .tmp not be renamed: it is removed. *)
Fails ==
  /\ taking # 0 /\ ~named
  /\ taking' = 0
  /\ UNCHANGED <<second, versions, archives, named, taken, complete, newest>>

(* The .tmp is renamed, over an archive of the same second if there is     *)
(* one.  Errors of io.Copy and of Close are ignored, so that the archive   *)
(* may be cut off.                                                         *)
Rename ==
  /\ taking # 0 /\ ~named
  /\ named' = TRUE
  /\ archives' = archives \cup {taking}
  /\ complete' \in {complete \cup {taking}, complete \ {taking}}
  /\ newest' = IF taking > newest THEN taking ELSE newest
  /\ UNCHANGED <<second, versions, taking, taken>>

(* Variant: the versions are sorted the other way, and the newest go. *)
TrimNewest ==
  /\ named
  /\ LET list == WithVersion(versions, taking)
         more == IF Len(list) > MaxKeep THEN Len(list) - MaxKeep ELSE 0
     IN  /\ versions' = SubSeq(list, more + 1, Len(list))
         /\ archives' = archives \ Elements(SubSeq(list, 1, more))
  /\ taking' = 0 /\ named' = FALSE
  /\ UNCHANGED <<second, taken, complete, newest>>

(* Under the mutex: the versions beyond MaxKeep are removed. *)
Trim ==
  /\ named
  /\ LET list == WithVersion(versions, taking)
     IN  /\ versions' = Kept(list)
         /\ archives' = archives \ Elements(SubSeq(list, MaxKeep + 1, Len(list)))
  /\ taking' = 0 /\ named' = FALSE
  /\ UNCHANGED <<second, taken, complete, newest>>

(* ListSnapshots: the directory, newest first, cut to MaxKeep. *)
ListSnapshots ==
  /\ \E list \in Listings(archives) : versions' = Kept(list)
  /\ UNCHANGED <<second, archives, taking, named, taken, complete, newest>>

(* GC.Run lists the snapshots and removes those beyond the limit. *)
Collect ==
  /\ \E all \in Listings(archives) :
       LET list == Kept(all)
       IN  /\ versions' = list
           /\ archives' = archives \ Elements(SubSeq(list, TrimLimit + 1, Len(list)))
  /\ UNCHANGED <<second, taking, named, taken, complete, newest>>

(* The process stops, wherever it is, and starts again. *)
Restart ==
  /\ versions' = <<>> /\ taking' = 0 /\ named' = FALSE /\ taken' = FALSE
  /\ UNCHANGED <<second, archives, complete, newest>>

Tick ==
  /\ second < MaxSeconds /\ second' = second + 1
  /\ UNCHANGED <<versions, archives, taking, named, taken, complete, newest>>

Next == Begin \/ Fails \/ Rename \/ Trim \/ ListSnapshots \/ Collect \/ Restart \/ Tick

Spec == Init /\ [][Next]_vars

-----------------------------------------------------------------------------
(* A manager that keeps more than one archive never removes the newest,    *)
(* and its list names no file that a trim has removed, also when a call    *)
(* lists the directory between the rename and the trim or two archives     *)
(* have one name, so that the list has it twice.  An archive that is       *)
(* complete goes only when all but one of MaxKeep newer ones are there;    *)
(* these may all be cut off.                                               *)
NewestKept ==
  /\ MaxKeep > 1 => (newest # 0 => newest \in archives) /\ Elements(versions) \subseteq archives
  /\ \A x \in complete \ archives :
       Cardinality({y \in archives : y > x}) >= MaxKeep - 1
==============================================================================
