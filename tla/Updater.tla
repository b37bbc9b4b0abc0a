------------------------------- MODULE Updater -------------------------------
(***************************************************************************)
(* Download, Replace and Rollback (updater/updater.go): three files, moved *)
(* by renames between any two of which the process may stop.               *)
(***************************************************************************)
EXTENDS Naturals

CONSTANTS Missing, Partial, MaxReleases

VARIABLES
  current, bak,      \* CurrentPath and BackupPath: a release, or Missing
  fetched, fetchTmp, \* what was downloaded, and its .tmp
  step,              \* "idle", "copy", "renaming" (backed up, not replaced)
  release            \* the newest release

vars == <<current, bak, fetched, fetchTmp, step, release>>

Init ==
  /\ current = 0 /\ bak = Missing /\ fetched = Missing /\ fetchTmp = Missing
  /\ step = "idle" /\ release = 0

Whole(f) == f \notin {Missing, Partial}

BeginDownload ==
  /\ step = "idle" /\ release < MaxReleases
  /\ release' = release + 1
  /\ fetchTmp' = Partial
  /\ step' = "copy"
  /\ UNCHANGED <<current, bak, fetched>>

(* Variant: a copy that breaks off is renamed as well. *)
EndDownloadUnchecked ==
  /\ step = "copy"
  /\ \E f \in {release, Partial} : fetched' = f
  /\ fetchTmp' = Missing
  /\ step' = "idle"
  /\ UNCHANGED <<current, bak, release>>

(* io.Copy ends and .tmp is renamed, or it fails and .tmp is removed. *)
EndDownload ==
  /\ step = "copy"
  /\ \E f \in {release, fetched} : fetched' = f
  /\ fetchTmp' = Missing
  /\ step' = "idle"
  /\ UNCHANGED <<current, bak, release>>

(* Replace, first rename: fails when there is no current binary. *)
BackUp ==
  /\ step = "idle" /\ fetched # Missing /\ current # Missing
  /\ bak' = current /\ current' = Missing
  /\ step' = "renaming"
  /\ UNCHANGED <<fetched, fetchTmp, release>>

(* Second rename; if it fails, the first is undone. *)
MoveNew ==
  /\ step = "renaming"
  /\ \/ current' = fetched /\ fetched' = Missing /\ UNCHANGED bak
     \/ current' = bak /\ bak' = Missing /\ UNCHANGED fetched
  /\ step' = "idle"
  /\ UNCHANGED <<fetchTmp, release>>

Rollback ==
  /\ step = "idle" /\ bak # Missing
  /\ current' = bak /\ bak' = Missing
  /\ UNCHANGED <<fetched, fetchTmp, step, release>>

Restart ==
  /\ step' = "idle"
  /\ UNCHANGED <<current, bak, fetched, fetchTmp, release>>

Next == BeginDownload \/ EndDownload \/ BackUp \/ MoveNew \/ Rollback \/ Restart

Spec == Init /\ [][Next]_vars

(* Wherever an update stops, a whole binary is at CurrentPath, or it is at *)
(* BackupPath and Rollback brings it back.                                 *)
BinaryKept == Whole(current) \/ (current = Missing /\ Whole(bak))
=============================================================================
