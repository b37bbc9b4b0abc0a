------------------------------- MODULE Ledger -------------------------------
(***************************************************************************)
(* The audit ledger of viking: FileLedger (viking/ledger.go) over          *)
(* LedgerSafeAppend (viking/write.go).                                     *)
(*                                                                         *)
(* Any number of goroutines call Record, which tests `closed' and then,    *)
(* in a second step, offers the entry to a bounded channel without         *)
(* blocking.  One goroutine, drain, takes the entries and appends each to  *)
(* ledger.jsonl: read the file, write file + line to ledger.jsonl.tmp,     *)
(* fsync, rename.  Close stops the recorders, closes the channel and waits *)
(* for drain.  Any file operation may fail, and the machine may stop and   *)
(* restart at any point.                                                   *)
(*                                                                         *)
(* An entry is the number of its acceptance by the channel.  A line of a   *)
(* file is the number of the entry its readers find in it, or Torn when    *)
(* they find none.                                                         *)
(*                                                                         *)
(* A definition whose comment begins with "Variant" is a faulty form of    *)
(* the definition that follows it and is used only to see that a property  *)
(* notices it.                                                             *)
(***************************************************************************)
EXTENDS Naturals, Sequences, FiniteSets

CONSTANTS
  Recorders,    \* goroutines that call Record
  Closers,      \* goroutines that call Close
  Results,      \* values of LedgerEntry.Result
  Capacity,     \* buffer of the channel
  MaxRecords,   \* bound on the calls of Record
  MaxFaults,    \* bound on the failing file operations
  MaxCrashes    \* bound on the crashes of the machine

ASSUME LedgerAssumption ==
  /\ Capacity \in Nat \ {0}
  /\ MaxRecords \in Nat
  /\ MaxFaults \in Nat
  /\ MaxCrashes \in Nat
  /\ "idle" \notin Results

VARIABLES
  rec,        \* recorder: "idle" or the Result of the entry it is about to send
  closer,     \* closer: "idle", "close", "wait", then "flushed" for the one
              \* that waited, "returned" for the others
  closed,     \* FileLedger.closed
  ch,         \* entries in FileLedger.ch
  chClosed,   \* close(l.ch) has run
  drain,      \* what the drain goroutine does next
  cur,        \* entry in the hands of drain
  existing,   \* lines LedgerSafeAppend read
  cut,        \* what it read does not end with the end of a line
  file,       \* ledger.jsonl
  tmp,        \* ledger.jsonl.tmp
  accepted,   \* entries the channel has accepted
  calls,      \* calls of Record
  dropped,    \* results of the entries a full channel refused
  faults,     \* file operations that failed
  crashes     \* crashes so far

recVars == <<rec, ch, accepted, calls, dropped>>
closeVars == <<closer, closed, chClosed>>
drainVars == <<drain, cur, existing, cut, file, tmp, faults>>
vars == <<rec, closer, closed, ch, chClosed, drain, cur, existing, cut, file,
          tmp, accepted, calls, dropped, faults, crashes>>

Torn == 0
Contents(lines, synced) == [lines |-> lines, synced |-> synced]
Empty == Contents(<<>>, TRUE)

(* What is left of lines that are read or written in part: the first of    *)
(* them, possibly with a piece of the next.                                *)
Parts(lines) ==
  {SubSeq(lines, 1, n) : n \in 0..Len(lines)}
  \cup {Append(SubSeq(lines, 1, n), Torn) : n \in 0..(Len(lines) - 1)}

Init ==
  /\ rec = [r \in Recorders |-> "idle"]
  /\ closer = [c \in Closers |-> "idle"]
  /\ closed = FALSE
  /\ ch = <<>>
  /\ chClosed = FALSE
  /\ drain = "receive"
  /\ cur = 0
  /\ existing = <<>>
  /\ cut = FALSE
  /\ file = Empty
  /\ tmp = Empty
  /\ accepted = 0
  /\ calls = 0
  /\ dropped = {}
  /\ faults = 0
  /\ crashes = 0

-----------------------------------------------------------------------------
(* Record *)

(* The call with its test of closed: a closed ledger returns at once. *)
RecordCall(r, result) ==
  /\ rec[r] = "idle"
  /\ calls < MaxRecords
  /\ calls' = calls + 1
  /\ rec' = IF closed THEN rec ELSE [rec EXCEPT ![r] = result]
  /\ UNCHANGED <<ch, accepted, dropped, crashes, closeVars, drainVars>>

(* Variant: the buffer is taken for one larger than it is. *)
RoomByOne == Len(ch) <= Capacity

Room == Len(ch) < Capacity

(* select { case l.ch <- entry: default: }; a send on the closed channel   *)
(* panics, and the deferred recover ends the call.                         *)
RecordSend(r) ==
  /\ rec[r] \in Results
  /\ rec' = [rec EXCEPT ![r] = "idle"]
  /\ \/ /\ chClosed
        /\ UNCHANGED <<ch, accepted, dropped>>
     \/ /\ ~chClosed
        /\ Room
        /\ accepted' = accepted + 1
        /\ ch' = Append(ch, accepted + 1)
        /\ UNCHANGED dropped
     \/ /\ ~chClosed
        /\ ~Room
        /\ dropped' = dropped \cup {rec[r]}
        /\ UNCHANGED <<ch, accepted>>
  /\ UNCHANGED <<calls, crashes, closeVars, drainVars>>

-----------------------------------------------------------------------------
(* Close *)

(* closed.Swap(true): only the first caller goes on. *)
CloseSwap(c) ==
  /\ closer[c] = "idle"
  /\ closer' = [closer EXCEPT ![c] = IF closed THEN "returned" ELSE "close"]
  /\ closed' = TRUE
  /\ UNCHANGED <<chClosed, crashes, recVars, drainVars>>

(* Variant: Close does not close the channel. *)
CloseChannelForgotten(c) ==
  /\ closer[c] = "close"
  /\ closer' = [closer EXCEPT ![c] = "wait"]
  /\ UNCHANGED <<closed, chClosed, crashes, recVars, drainVars>>

CloseChannel(c) ==
  /\ closer[c] = "close"
  /\ closer' = [closer EXCEPT ![c] = "wait"]
  /\ chClosed' = TRUE
  /\ UNCHANGED <<closed, crashes, recVars, drainVars>>

(* Variant: Close does not wait. *)
DrainedNotAwaited == TRUE

(* What drainWg.Wait() waits for. *)
Drained == drain = "exited"

CloseWait(c) ==
  /\ closer[c] = "wait"
  /\ Drained
  /\ closer' = [closer EXCEPT ![c] = "flushed"]
  /\ UNCHANGED <<closed, chClosed, crashes, recVars, drainVars>>

-----------------------------------------------------------------------------
(* drain and LedgerSafeAppend *)

(* Variant: the newest entry is taken first. *)
ReceiveNewest ==
  /\ drain = "receive"
  /\ ch # <<>>
  /\ cur' = ch[Len(ch)]
  /\ ch' = SubSeq(ch, 1, Len(ch) - 1)
  /\ drain' = "read"
  /\ UNCHANGED <<rec, accepted, calls, dropped, existing, cut, file, tmp,
                 faults, crashes, closeVars>>

(* for entry := range l.ch *)
Receive ==
  /\ drain = "receive"
  /\ ch # <<>>
  /\ cur' = Head(ch)
  /\ ch' = Tail(ch)
  /\ drain' = "read"
  /\ UNCHANGED <<rec, accepted, calls, dropped, existing, cut, file, tmp,
                 faults, crashes, closeVars>>

(* The channel is closed and empty: the loop ends and drainWg.Done() runs. *)
Exit ==
  /\ drain = "receive"
  /\ ch = <<>>
  /\ chClosed
  /\ drain' = "exited"
  /\ UNCHANGED <<cur, existing, cut, file, tmp, faults, crashes, recVars, closeVars>>

Fault ==
  /\ faults < MaxFaults
  /\ faults' = faults + 1

(* What a ReadFile that fails has read by then.  A cut in the JSON of a    *)
(* line leaves no entry of it to be found; one behind it loses only the    *)
(* end of the line.                                                        *)
ReadPart ==
  \E n \in 0..Len(file.lines) :
    \/ /\ existing' = SubSeq(file.lines, 1, n)
       /\ cut' \in IF n = 0 THEN {FALSE} ELSE BOOLEAN
    \/ /\ n < Len(file.lines)
       /\ existing' = Append(SubSeq(file.lines, 1, n), Torn)
       /\ cut' = TRUE

(* existing, _ := os.ReadFile(fpath): the error is dropped, and what was   *)
(* read before it is taken for the file.                                   *)
Read ==
  /\ drain = "read"
  /\ \/ /\ existing' = file.lines
        /\ cut' = FALSE
        /\ UNCHANGED faults
     \/ /\ ReadPart
        /\ Fault
  /\ drain' = "create"
  /\ UNCHANGED <<cur, file, tmp, crashes, recVars, closeVars>>

(* os.Create truncates what an earlier run may have left behind. *)
CreateTmp ==
  /\ drain = "create"
  /\ tmp' = Empty
  /\ drain' = "write"
  /\ UNCHANGED <<cur, existing, cut, file, faults, crashes, recVars, closeVars>>

(* Variant: the new line is put before the ones that were read. *)
FullPrepended == <<cur>> \o existing

(* Variant: the lines that were read are forgotten. *)
FullOnlyNew == <<cur>>

(* full := append(existing, appendLine...).  Glued to a line that was cut, *)
(* the new entry is lost: ledgerLineJSON reads a line up to its first tab. *)
Full == IF cut THEN existing ELSE Append(existing, cur)

(* f.Write(full) *)
WriteTmp ==
  /\ drain = "write"
  /\ tmp' = Contents(Full, FALSE)
  /\ drain' = "sync"
  /\ UNCHANGED <<cur, existing, cut, file, faults, crashes, recVars, closeVars>>

(* Variant: the temporary file is not synced before the rename. *)
SyncTmpSkipped ==
  /\ drain = "sync"
  /\ drain' = "rename"
  /\ UNCHANGED <<cur, existing, cut, file, tmp, faults, crashes, recVars, closeVars>>

(* f.Sync() and f.Close() *)
SyncTmp ==
  /\ drain = "sync"
  /\ tmp' = [tmp EXCEPT !.synced = TRUE]
  /\ drain' = "rename"
  /\ UNCHANGED <<cur, existing, cut, file, faults, crashes, recVars, closeVars>>

RenameTmp ==
  /\ drain = "rename"
  /\ file' = tmp
  /\ tmp' = Empty
  /\ drain' = "receive"
  /\ UNCHANGED <<cur, existing, cut, faults, crashes, recVars, closeVars>>

(* Any other operation fails: the temporary file this call made is         *)
(* removed, the error is logged and drain goes on with the next entry.     *)
AppendFails ==
  /\ drain \in {"read", "create", "write", "sync", "rename"}
  /\ Fault
  /\ tmp' = IF drain \in {"read", "create"} THEN tmp ELSE Empty
  /\ drain' = "receive"
  /\ UNCHANGED <<cur, existing, cut, file, crashes, recVars, closeVars>>

-----------------------------------------------------------------------------
(* A stop of the machine and the next NewFileLedger *)

(* What the disk holds of a file: all of it once synced, otherwise any     *)
(* part of it, the last line possibly cut.                                 *)
OnDisk(f) ==
  IF f.synced
  THEN {f}
  ELSE {Contents(p, TRUE) : p \in Parts(f.lines)}

Crash ==
  /\ crashes < MaxCrashes
  /\ crashes' = crashes + 1
  /\ file' \in OnDisk(file)
  /\ tmp' \in OnDisk(tmp)
  /\ rec' = [r \in Recorders |-> "idle"]
  /\ closer' = [c \in Closers |-> "idle"]
  /\ closed' = FALSE
  /\ ch' = <<>>
  /\ chClosed' = FALSE
  /\ drain' = "receive"
  /\ cur' = 0
  /\ existing' = <<>>
  /\ cut' = FALSE
  /\ UNCHANGED <<accepted, calls, dropped, faults>>

-----------------------------------------------------------------------------
Drain ==
  \/ Receive \/ Exit \/ Read \/ CreateTmp \/ WriteTmp \/ SyncTmp \/ RenameTmp
  \/ AppendFails

Next ==
  \/ \E r \in Recorders, s \in Results : RecordCall(r, s)
  \/ \E r \in Recorders : RecordSend(r)
  \/ \E c \in Closers : CloseSwap(c) \/ CloseChannel(c) \/ CloseWait(c)
  \/ Drain
  \/ Crash

SafeSpec == Init /\ [][Next]_vars

(* The Go scheduler runs every goroutine that can run: drain, and a Close  *)
(* in progress.  Nobody has to call Record or Close.                       *)
Spec ==
  /\ SafeSpec
  /\ WF_vars(Drain)
  /\ \A c \in Closers : WF_vars(CloseChannel(c) \/ CloseWait(c))

-----------------------------------------------------------------------------
(* Properties *)

Appending == {"read", "create", "write", "sync", "rename"}
InFlight == IF drain \in Appending THEN <<cur>> ELSE <<>>

TypeOK ==
  /\ rec \in [Recorders -> {"idle"} \cup Results]
  /\ closer \in [Closers -> {"idle", "close", "wait", "flushed", "returned"}]
  /\ closed \in BOOLEAN
  /\ chClosed \in BOOLEAN
  /\ accepted \in Nat
  /\ ch \in Seq(Nat)
  /\ Len(ch) <= Capacity
  /\ drain \in Appending \cup {"receive", "exited"}
  /\ cur \in 0..accepted
  /\ existing \in Seq(Nat)
  /\ cut \in BOOLEAN
  /\ file \in [lines : Seq(Nat), synced : BOOLEAN]
  /\ tmp \in [lines : Seq(Nat), synced : BOOLEAN]
  /\ calls \in Nat
  /\ dropped \in SUBSET Results
  /\ faults \in Nat
  /\ crashes \in Nat

(* The entries in ledger.jsonl are in the order the channel accepted them, *)
(* none twice, whatever failed and however often the machine stopped:      *)
(* drain is the only writer and never retries an entry.                    *)
StoredInOrder ==
  \A i, j \in 1..Len(file.lines) :
    i < j /\ file.lines[i] # Torn /\ file.lines[j] # Torn =>
      file.lines[i] < file.lines[j]

DamagedLines(lines) == {i \in 1..Len(lines) : lines[i] = Torn}

(* ledger.jsonl is always safe on the disk, and a stop of the machine in   *)
(* the middle of LedgerSafeAppend damages no line of it: what is renamed   *)
(* over it was written in full and synced.  Its lines hold accepted        *)
(* entries, but for those that a failing read cut: at most one for each    *)
(* operation that failed.                                                  *)
OnlyFaultsDamage ==
  /\ file.synced
  /\ \A i \in 1..Len(file.lines) : file.lines[i] \in 1..accepted \cup {Torn}
  /\ Cardinality(DamagedLines(file.lines)) <= faults

(* Unless a file operation failed or the machine stopped, every accepted   *)
(* entry is in the file, in the hands of drain or in the channel.          *)
NothingLost ==
  faults = 0 /\ crashes = 0 =>
    /\ Len(file.lines) + Len(InFlight) + Len(ch) = accepted
    /\ \A i \in 1..Len(file.lines) : file.lines[i] = i

(* Once the Close that waited has returned, the ledger is at rest: drain   *)
(* is gone, nothing is left in the channel, and a Record that had passed   *)
(* its test of closed before the Close cannot put anything there.          *)
FlushedOnClose ==
  (\E c \in Closers : closer[c] = "flushed") =>
    drain = "exited" /\ ch = <<>> /\ chClosed

(* An entry that reports a failure is never refused for want of room.      *)
FailuresAreKept == "fail" \notin dropped

(* A Close in progress returns: drain empties the closed channel and       *)
(* leaves, failing file operations or not.                                 *)
CloseReturns ==
  \A c \in Closers : closer[c] = "close" ~> closer[c] \in {"flushed", "idle"}

(* The ledger implements its abstract specification. *)
Audit ==
  INSTANCE AuditLog WITH
    MaxPending <- Capacity + 1,
    pending <- InFlight \o ch,
    log <- file.lines,
    open <- ~chClosed

ImplementsAuditLog == Audit!Spec
=============================================================================
