------------------------------ MODULE SafeWrite ------------------------------
(***************************************************************************)
(* SafeWrite (viking/write.go) and the audit root it appends after each    *)
(* write (viking/merkle.go).  Goroutines (POST /v1/engram/inject, the      *)
(* summaries of the Butler) share a directory and take no lock.  A file    *)
(* name leads to an inode; os.Create on a name that exists truncates its   *)
(* inode, and os.Rename moves the inode to another name.  The process may  *)
(* stop between any two system calls; the files stay.                      *)
(***************************************************************************)
EXTENDS Naturals, Sequences, FiniteSets

CONSTANTS
  Writers, Files,
  AuditRoot,        \* audit_root.jsonl
  Header,           \* the line "# classification=..."
  None, Torn,       \* no file; bytes of two writers in one file
  MaxWrites, MaxCrashes

Names == Files \cup {AuditRoot}
Inodes == 1..(2 * Cardinality(Names) + Cardinality(Writers))
Empty == [header |-> FALSE, data |-> <<>>]

VARIABLES
  inode,       \* contents of the inodes
  name, tmp,   \* inodes of <path> and of <path>.tmp
  writer,      \* goroutine: where it is, path, data, and its open inode
  wrote,       \* path: the write whose Rename was the last to succeed
  roots,       \* the writes whose root was appended since reading last failed
  excused,     \* paths that two goroutines wrote at once
  writes, crashes

vars == <<inode, name, tmp, writer, wrote, roots, excused, writes, crashes>>

(* `blind' is a goroutine that could not read the audit root. *)
Idle == [at |-> "idle", path |-> None, data |-> <<>>, id |-> 0, fd |-> 0, blind |-> FALSE]

Init ==
  /\ inode = [i \in Inodes |-> Empty]
  /\ name = [p \in Names |-> None] /\ tmp = [p \in Names |-> None]
  /\ writer = [w \in Writers |-> Idle]
  /\ wrote = [p \in Names |-> <<>>]
  /\ roots = <<>>
  /\ excused = {}
  /\ writes = 0 /\ crashes = 0

InUse == {name[p] : p \in Names} \cup {tmp[p] : p \in Names} \cup {writer[w].fd : w \in Writers}
FreeInode == CHOOSE i \in Inodes : i \notin InUse /\ \A j \in Inodes : j < i => j \in InUse

Bytes(p) == LET c == inode[name[p]] IN IF c.header THEN <<Header>> \o c.data ELSE c.data

(* A goroutine that begins on a path while another is on it. *)
ExcusedBy(w, p) ==
  IF \E v \in Writers \ {w} : writer[v].path = p THEN excused \cup {p} ELSE excused

(* Lines behind n headers. *)
Behind(n, lines) == [i \in 1..(n + Len(lines)) |-> IF i <= n THEN Header ELSE lines[i - n]]

(* The roots that stay when a goroutine puts its file in place of the old. *)
Known(w) == IF writer[w].blind THEN <<>> ELSE roots

Finished(w) == writer' = [writer EXCEPT ![w] = Idle]

-----------------------------------------------------------------------------
Begin(w, p) ==
  /\ writer[w].at = "idle" /\ writes < MaxWrites
  /\ writes' = writes + 1
  /\ writer' = [writer EXCEPT ![w] = [Idle EXCEPT !.at = "create", !.path = p,
                                                  !.data = <<writes'>>, !.id = writes']]
  /\ excused' = ExcusedBy(w, p)
  /\ UNCHANGED <<inode, name, tmp, wrote, roots, crashes>>

(* os.Create(path.tmp) *)
Create(w) ==
  /\ writer[w].at = "create"
  /\ LET p == writer[w].path
         i == IF tmp[p] = None THEN FreeInode ELSE tmp[p]
     IN  /\ inode' = [inode EXCEPT ![i] = Empty]
         /\ tmp' = [tmp EXCEPT ![p] = i]
         /\ writer' = [writer EXCEPT ![w].at = "header", ![w].fd = i]
  /\ UNCHANGED <<name, wrote, roots, excused, writes, crashes>>

(* The directory or path.tmp cannot be made: nothing is written. *)
CreateFails(w) ==
  /\ writer[w].at = "create"
  /\ Finished(w)
  /\ UNCHANGED <<inode, name, tmp, wrote, roots, excused, writes, crashes>>

WriteHeader(w) ==
  /\ writer[w].at = "header"
  /\ inode' = [inode EXCEPT ![writer[w].fd].header = TRUE]
  /\ writer' = [writer EXCEPT ![w].at = "data"]
  /\ UNCHANGED <<name, tmp, wrote, roots, excused, writes, crashes>>

(* What another goroutine has written to the inode meanwhile is overlaid;  *)
(* if it is longer, its end remains.                                       *)
WriteData(w) ==
  /\ writer[w].at = "data"
  /\ \E data \in {writer[w].data, <<Torn>>} :
       /\ data = <<Torn>> => inode[writer[w].fd].data # <<>>
       /\ inode' = [inode EXCEPT ![writer[w].fd].data = data]
  /\ writer' = [writer EXCEPT ![w].at = "rename"]
  /\ UNCHANGED <<name, tmp, wrote, roots, excused, writes, crashes>>

(* Variant: the file is written in place. *)
RenameInPlace(w) ==
  /\ writer[w].at \in {"header", "rename"}
  /\ LET p == writer[w].path
     IN  /\ tmp[p] # None
         /\ name' = [name EXCEPT ![p] = tmp[p]]
         /\ tmp' = IF writer[w].at = "rename" THEN [tmp EXCEPT ![p] = None] ELSE tmp
         /\ wrote' = [wrote EXCEPT ![p] = writer[w].data]
         /\ roots' = IF p = AuditRoot THEN Append(Known(w), writer[w].id) ELSE roots
         /\ IF p = AuditRoot THEN Finished(w) ELSE writer' = [writer EXCEPT ![w].at = "read"]
  /\ UNCHANGED <<inode, excused, writes, crashes>>

(* Sync, Close and Rename; the audit root follows unless this is it. *)
Rename(w) ==
  /\ writer[w].at = "rename"
  /\ LET p == writer[w].path
     IN  /\ tmp[p] # None
         /\ name' = [name EXCEPT ![p] = tmp[p]]
         /\ tmp' = [tmp EXCEPT ![p] = None]
         /\ wrote' = [wrote EXCEPT ![p] = writer[w].data]
         /\ roots' = IF p = AuditRoot THEN Append(Known(w), writer[w].id) ELSE roots
         /\ IF p = AuditRoot THEN Finished(w) ELSE writer' = [writer EXCEPT ![w].at = "read"]
  /\ UNCHANGED <<inode, excused, writes, crashes>>

(* A system call fails (Rename also because another goroutine has moved    *)
(* path.tmp away): path.tmp is removed and an error returned.              *)
Fail(w) ==
  /\ writer[w].at \in {"header", "data", "rename"}
  /\ tmp' = [tmp EXCEPT ![writer[w].path] = None]
  /\ Finished(w)
  /\ UNCHANGED <<inode, name, wrote, roots, excused, writes, crashes>>

(* ComputeRoot fails: no root is appended, and the write has succeeded. *)
NoRoot(w) ==
  /\ writer[w].at = "read"
  /\ Finished(w)
  /\ UNCHANGED <<inode, name, tmp, wrote, roots, excused, writes, crashes>>

(* AppendAuditRoot: the file is read, which includes the header SafeWrite  *)
(* put there, the root is added, and SafeWrite writes all of it.  What a   *)
(* read that fails has given is thrown away: the file counts as empty.     *)
ReadAudit(w) ==
  /\ writer[w].at = "read"
  /\ \E fails \in BOOLEAN :
       writer' = [writer EXCEPT ![w].at = "create", ![w].path = AuditRoot, ![w].blind = fails,
                    ![w].data = Append(IF fails \/ name[AuditRoot] = None THEN <<>>
                                       ELSE Bytes(AuditRoot), writer[w].id)]
  /\ excused' = ExcusedBy(w, AuditRoot)
  /\ UNCHANGED <<inode, name, tmp, wrote, roots, writes, crashes>>

(* The process stops and starts again. *)
Crash ==
  /\ crashes < MaxCrashes
  /\ crashes' = crashes + 1
  /\ writer' = [w \in Writers |-> Idle]
  /\ UNCHANGED <<inode, name, tmp, wrote, roots, excused, writes>>

Next ==
  \/ \E w \in Writers : \/ \E p \in Files : Begin(w, p)
                        \/ Create(w) \/ CreateFails(w) \/ WriteHeader(w) \/ WriteData(w)
                        \/ Rename(w) \/ Fail(w) \/ NoRoot(w) \/ ReadAudit(w)
  \/ Crash

Spec == Init /\ [][Next]_vars

-----------------------------------------------------------------------------
(* Properties *)

(* A file that no two goroutines write at once holds, with its header, all *)
(* of the last write that succeeded, whatever failed or stopped since.     *)
FilesWhole ==
  \A p \in Names \ excused :
    name[p] # None => inode[name[p]] = [header |-> TRUE, data |-> wrote[p]]

(* As long as no two goroutines append at once, the file of the audit root *)
(* has the root of every write, in order (behind one header for each),     *)
(* since the last append that could not read it, which loses those before. *)
(* Two appends at once do lose roots: each writes what it has read.        *)
RootsKept ==
  AuditRoot \notin excused /\ name[AuditRoot] # None =>
    Bytes(AuditRoot) = Behind(Len(roots), roots)
=============================================================================
