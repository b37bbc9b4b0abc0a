---------------------------- MODULE LedgerProofs ----------------------------
(***************************************************************************)
(* Proofs about the audit ledger, for any number of recorders and closers, *)
(* any capacity of the channel and any number of failures and crashes.     *)
(*                                                                         *)
(* The argument: the channel holds the last entries that were accepted,    *)
(* without gaps, drain holds the one before them, and everything in the    *)
(* file is older.  So what drain appends is newer than all that is there,  *)
(* however little of the file its read gave it.                            *)
(***************************************************************************)
EXTENDS Ledger, SequenceTheorems, FiniteSetTheorems, TLAPS

(* Accepted entries that have left the channel. *)
Taken == accepted - Len(ch)

(* The channel and the hands of drain hold the last accepted entries. *)
ChannelContiguous ==
  /\ Len(ch) <= accepted
  /\ \A i \in 1..Len(ch) : ch[i] = Taken + i
  /\ drain \in Appending => cur = Taken /\ cur >= 1

(* The lines of the file are older than the entry drain is appending. *)
FileOlder ==
  \A i \in 1..Len(file.lines) :
    /\ file.lines[i] \in 1..Taken \cup {Torn}
    /\ drain \in Appending => file.lines[i] < cur

(* What was read is the beginning of the file, whole lines or a cut one.   *)
HasRead ==
  \E n \in 0..Len(file.lines) :
    \/ existing = SubSeq(file.lines, 1, n)
    \/ n < Len(file.lines) /\ existing = Append(SubSeq(file.lines, 1, n), Torn) /\ cut

(* No more damage in the file than operations that failed. *)
DamageBounded == Cardinality(DamagedLines(file.lines)) <= faults

(* Where LedgerSafeAppend is, between its read and its rename. *)
AppendProgress ==
  /\ drain \in {"create", "write", "sync", "rename"} =>
       /\ HasRead
       /\ faults = 0 => existing = file.lines /\ ~cut
       /\ Cardinality(DamagedLines(existing)) <= faults
  /\ drain \in {"sync", "rename"} => tmp.lines = Full
  /\ drain = "rename" => tmp.synced

(* Nothing is missing before the first failure. *)
Complete ==
  faults = 0 /\ crashes = 0 =>
    /\ Len(file.lines) = IF drain \in Appending THEN Taken - 1 ELSE Taken
    /\ \A i \in 1..Len(file.lines) : file.lines[i] = i

(* The order in which Close comes to its end. *)
ClosingOrder ==
  /\ drain = "exited" => chClosed /\ ch = <<>>
  /\ \A c \in Closers : closer[c] = "flushed" => drain = "exited"

Inv ==
  /\ TypeOK
  /\ file.synced
  /\ StoredInOrder
  /\ DamageBounded
  /\ ChannelContiguous
  /\ FileOlder
  /\ AppendProgress
  /\ Complete
  /\ ClosingOrder

-----------------------------------------------------------------------------
FileType == [lines : Seq(Nat), synced : BOOLEAN]

LEMMA EmptyFile == Empty \in FileType
<1>1. <<>> \in Seq(Nat)
  OBVIOUS
<1> QED
  BY <1>1 DEF Empty, Contents, FileType

LEMMA InitInv == Init => Inv
<1> SUFFICES ASSUME Init PROVE Inv
  OBVIOUS
<1>1. /\ file = [lines |-> <<>>, synced |-> TRUE]
      /\ tmp = file
      /\ Len(file.lines) = 0
      /\ Len(ch) = 0
  BY DEF Init, Empty, Contents
<1>2. TypeOK
  <2>1. /\ rec \in [Recorders -> {"idle"} \cup Results]
        /\ closer \in [Closers -> {"idle", "close", "wait", "flushed", "returned"}]
    BY DEF Init
  <2>2. /\ file \in [lines : Seq(Nat), synced : BOOLEAN]
        /\ tmp \in [lines : Seq(Nat), synced : BOOLEAN]
    BY <1>1
  <2>3. ch \in Seq(Nat) /\ Len(ch) <= Capacity /\ existing \in Seq(Nat)
    BY LedgerAssumption DEF Init
  <2>4. /\ closed \in BOOLEAN /\ chClosed \in BOOLEAN
        /\ drain \in Appending \cup {"receive", "exited"}
        /\ dropped \in SUBSET Results
    BY DEF Init
  <2>5. /\ accepted \in Nat /\ cur \in 0..accepted /\ calls \in Nat
        /\ faults \in Nat /\ crashes \in Nat
    BY DEF Init
  <2>6. cut \in BOOLEAN
    BY Zenon DEF Init
  <2> QED
    BY <2>1, <2>2, <2>3, <2>4, <2>5, <2>6 DEF TypeOK
<1>3. file.synced /\ StoredInOrder /\ FileOlder /\ AppendProgress
  BY <1>1 DEF Init, StoredInOrder, FileOlder, AppendProgress, HasRead, Full, Appending
<1>4. DamageBounded
  <2>1. DamagedLines(file.lines) = {}
    BY <1>1 DEF DamagedLines
  <2> QED
    BY <2>1, FS_EmptySet DEF Init, DamageBounded
<1>5. ChannelContiguous /\ Complete
  <2>1. Taken = 0 /\ accepted = 0 /\ drain \notin Appending
    <3>1. accepted = 0 /\ drain = "receive"
      BY DEF Init
    <3> QED
      BY <1>1, <3>1 DEF Taken, Appending
  <2> QED
    BY <1>1, <2>1 DEF ChannelContiguous, Complete
<1>6. ClosingOrder
  BY DEF Init, ClosingOrder
<1> QED
  BY <1>1, <1>2, <1>3, <1>4, <1>5, <1>6 DEF Inv

(* A call of Record touches nothing but its own goroutine. *)
LEMMA RecordCallInv ==
  ASSUME Inv, NEW r \in Recorders, NEW s \in Results, RecordCall(r, s)
  PROVE  Inv'
<1>1. TypeOK'
  BY DEF RecordCall, Inv, TypeOK, closeVars, drainVars
<1>2. DamageBounded'
  BY DEF RecordCall, Inv, DamageBounded, drainVars
<1>3. /\ file'.synced /\ StoredInOrder' /\ ChannelContiguous' /\ FileOlder'
      /\ AppendProgress' /\ Complete' /\ ClosingOrder'
  BY DEF RecordCall, Inv, StoredInOrder, ChannelContiguous, FileOlder,
     AppendProgress, HasRead, Full, Complete, ClosingOrder, Taken, closeVars, drainVars
<1> QED
  BY <1>1, <1>2, <1>3 DEF Inv

(* A send either leaves the channel alone or puts the newest entry last. *)
LEMMA RecordSendInv ==
  ASSUME Inv, NEW r \in Recorders, RecordSend(r)
  PROVE  Inv'
<1>1. /\ rec \in [Recorders -> {"idle"} \cup Results]
      /\ rec' = [rec EXCEPT ![r] = "idle"]
  BY DEF RecordSend, Inv, TypeOK
<1>2. DamageBounded'
  BY DEF RecordSend, Inv, DamageBounded, drainVars
<1>3. CASE UNCHANGED <<ch, accepted>>
  <2>1. TypeOK'
    BY <1>1, <1>3 DEF RecordSend, Inv, TypeOK, closeVars, drainVars
  <2>2. /\ file'.synced /\ StoredInOrder' /\ ChannelContiguous' /\ FileOlder'
        /\ AppendProgress' /\ Complete' /\ ClosingOrder'
    BY <1>3 DEF RecordSend, Inv, StoredInOrder, ChannelContiguous, FileOlder,
       AppendProgress, HasRead, Full, Complete, ClosingOrder, Taken, closeVars, drainVars
  <2> QED
    BY <1>2, <2>1, <2>2 DEF Inv
<1>4. CASE /\ ~chClosed
           /\ Len(ch) < Capacity
           /\ accepted' = accepted + 1
           /\ ch' = Append(ch, accepted + 1)
           /\ UNCHANGED dropped
  <2>1. /\ ch' \in Seq(Nat)
        /\ Len(ch') = Len(ch) + 1
        /\ Len(ch') <= Capacity
        /\ \A i \in 1..Len(ch) : ch'[i] = ch[i]
        /\ ch'[Len(ch) + 1] = accepted + 1
        /\ accepted \in Nat /\ accepted' \in Nat
        /\ Taken' = Taken
    BY <1>4, LedgerAssumption DEF Inv, TypeOK, Taken
  <2>2. TypeOK'
    BY <1>1, <1>4, <2>1 DEF RecordSend, Inv, TypeOK, closeVars, drainVars
  <2>3. ChannelContiguous'
    <3>1. \A i \in 1..Len(ch') : ch'[i] = Taken' + i
      <4> SUFFICES ASSUME NEW i \in 1..Len(ch') PROVE ch'[i] = Taken + i
        BY <2>1
      <4>1. CASE i \in 1..Len(ch)
        BY <2>1, <4>1 DEF Inv, ChannelContiguous
      <4>2. CASE i = Len(ch) + 1
        BY <2>1, <4>2 DEF Inv, TypeOK, Taken
      <4> QED
        BY <2>1, <4>1, <4>2 DEF Inv, TypeOK
    <3>2. Len(ch') <= accepted'
      BY <1>4, <2>1 DEF Inv, TypeOK, ChannelContiguous
    <3>3. drain' = drain /\ cur' = cur
      BY DEF RecordSend, drainVars
    <3> QED
      BY <2>1, <3>1, <3>2, <3>3 DEF Inv, ChannelContiguous, Appending
  <2>4. file'.synced /\ StoredInOrder' /\ FileOlder' /\ AppendProgress' /\ Complete'
    BY <2>1 DEF RecordSend, Inv, StoredInOrder, FileOlder, AppendProgress, HasRead, Full,
       Complete, drainVars
  <2>5. ClosingOrder'
    BY <1>4 DEF RecordSend, Inv, ClosingOrder, closeVars, drainVars
  <2> QED
    BY <1>2, <2>2, <2>3, <2>4, <2>5 DEF Inv
<1> QED
  BY <1>3, <1>4 DEF RecordSend, Room

LEMMA CloseInv ==
  ASSUME Inv, NEW c \in Closers, CloseSwap(c) \/ CloseChannel(c) \/ CloseWait(c)
  PROVE  Inv'
<1>1. TypeOK'
  BY DEF CloseSwap, CloseChannel, CloseWait, Inv, TypeOK, recVars, drainVars
<1>2. /\ file'.synced /\ StoredInOrder' /\ ChannelContiguous' /\ FileOlder'
      /\ AppendProgress' /\ Complete' /\ DamageBounded'
  BY DEF CloseSwap, CloseChannel, CloseWait, Inv, StoredInOrder,
     ChannelContiguous, FileOlder, AppendProgress, HasRead, Full, Complete, DamageBounded,
     Taken, recVars, drainVars
<1>3. ClosingOrder'
  BY DEF CloseSwap, CloseChannel, CloseWait, Drained, Inv, TypeOK, ClosingOrder,
     recVars, drainVars
<1> QED
  BY <1>1, <1>2, <1>3 DEF Inv

-----------------------------------------------------------------------------
(* drain takes the oldest entry of the channel: it is newer than the file. *)
LEMMA ReceiveInv ==
  ASSUME Inv, Receive
  PROVE  Inv'
<1> USE DEF Inv
<1>1. /\ ch \in Seq(Nat) /\ ch # <<>> /\ accepted \in Nat
      /\ drain = "receive" /\ drain' = "read"
      /\ cur' = Head(ch) /\ ch' = Tail(ch)
      /\ UNCHANGED <<rec, closer, closed, chClosed, accepted, calls, dropped,
                     existing, cut, file, tmp, faults, crashes>>
  BY DEF Receive, TypeOK, closeVars
<1>2. /\ ch' \in Seq(Nat)
      /\ Len(ch') = Len(ch) - 1
      /\ Len(ch) \in Nat /\ Len(ch) >= 1
      /\ \A i \in 1..Len(ch') : ch'[i] = ch[i + 1]
      /\ cur' = ch[1]
  BY <1>1
<1>3. Taken \in Nat /\ Taken' = Taken + 1 /\ cur' = Taken + 1 /\ cur' = Taken'
  BY <1>1, <1>2 DEF ChannelContiguous, Taken
<1>4. TypeOK'
  <2>1. Len(ch') <= Capacity
    BY <1>2, LedgerAssumption DEF TypeOK
  <2>2. cur' \in 0..accepted'
    BY <1>1, <1>2, <1>3 DEF Taken
  <2> QED
    BY <1>1, <1>2, <2>1, <2>2 DEF TypeOK, Appending
<1>5. ChannelContiguous'
  BY <1>1, <1>2, <1>3 DEF ChannelContiguous, Appending, Taken
<1>6. FileOlder'
  BY <1>1, <1>3 DEF FileOlder, Appending, Torn
<1>7. Complete'
  BY <1>1, <1>3 DEF Complete, Appending
<1>8. /\ file'.synced /\ StoredInOrder' /\ DamageBounded' /\ AppendProgress'
      /\ ClosingOrder'
  BY <1>1 DEF StoredInOrder, DamageBounded, AppendProgress, HasRead, Full, ClosingOrder
<1> QED
  BY <1>4, <1>5, <1>6, <1>7, <1>8

LEMMA ExitInv ==
  ASSUME Inv, Exit
  PROVE  Inv'
<1>1. TypeOK'
  BY DEF Exit, Inv, TypeOK, recVars, closeVars
<1>2. /\ file'.synced /\ StoredInOrder' /\ ChannelContiguous' /\ FileOlder'
      /\ AppendProgress' /\ Complete' /\ DamageBounded' /\ ClosingOrder'
  BY DEF Exit, Inv, StoredInOrder, ChannelContiguous, FileOlder, AppendProgress, HasRead, Full,
     Complete, DamageBounded, ClosingOrder, Taken, Appending, recVars, closeVars
<1> QED
  BY <1>1, <1>2 DEF Inv

LEMMA DamagedCount ==
  ASSUME NEW lines \in Seq(Nat)
  PROVE  /\ IsFiniteSet(DamagedLines(lines))
         /\ Cardinality(DamagedLines(lines)) \in Nat
<1>1. IsFiniteSet(1..Len(lines)) /\ DamagedLines(lines) \subseteq 1..Len(lines)
  BY FS_Interval DEF DamagedLines
<1> QED
  BY <1>1, FS_Subset, FS_CardinalityType

(* A part of a file holds nothing that was not there, but for one cut line. *)
LEMMA PartOfLines ==
  ASSUME NEW lines \in Seq(Nat), NEW part,
         \E n \in 0..Len(lines) :
           \/ part = SubSeq(lines, 1, n)
           \/ n < Len(lines) /\ part = Append(SubSeq(lines, 1, n), Torn)
  PROVE  /\ part \in Seq(Nat)
         /\ Len(part) <= Len(lines)
         /\ \A i \in 1..Len(part) : part[i] = lines[i] \/ part[i] = Torn
         /\ Cardinality(DamagedLines(part)) <= Cardinality(DamagedLines(lines)) + 1
<1>1. PICK n \in 0..Len(lines) :
        \/ part = SubSeq(lines, 1, n)
        \/ n < Len(lines) /\ part = Append(SubSeq(lines, 1, n), Torn)
  OBVIOUS
<1>2. /\ SubSeq(lines, 1, n) \in Seq(Nat)
      /\ Len(SubSeq(lines, 1, n)) = n
      /\ \A i \in 1..n : SubSeq(lines, 1, n)[i] = lines[i]
  BY <1>1
<1>3. Torn \in Nat
  BY DEF Torn
<1>4. /\ part \in Seq(Nat)
      /\ Len(part) <= Len(lines)
      /\ \A i \in 1..Len(part) : part[i] = lines[i] \/ (part[i] = Torn /\ i = Len(part))
  <2>1. CASE part = SubSeq(lines, 1, n)
    BY <1>2, <2>1
  <2>2. CASE n < Len(lines) /\ part = Append(SubSeq(lines, 1, n), Torn)
    <3> DEFINE whole == SubSeq(lines, 1, n)
    <3>1. whole \in Seq(Nat) /\ Len(whole) = n /\ part = Append(whole, Torn)
      BY <1>2, <2>2
    <3>2. \A i \in 1..n : whole[i] = lines[i]
      BY <1>2
    <3> HIDE DEF whole
    <3>3. /\ part \in Seq(Nat)
          /\ Len(part) = n + 1
          /\ part[n + 1] = Torn
          /\ \A i \in 1..n : part[i] = whole[i]
      BY <1>3, <3>1
    <3> QED
      BY <2>2, <3>2, <3>3
  <2> QED
    BY <1>1, <2>1, <2>2
<1>5. /\ IsFiniteSet(DamagedLines(lines))
      /\ Cardinality(DamagedLines(lines)) \in Nat
  BY DamagedCount
<1> DEFINE More == DamagedLines(lines) \cup {Len(part)}
<1>6. DamagedLines(part) \subseteq More
  <2> SUFFICES ASSUME NEW i \in 1..Len(part), part[i] = Torn PROVE i \in More
    BY DEF DamagedLines
  <2>1. i \in 1..Len(lines) /\ (lines[i] = Torn \/ i = Len(part))
    BY <1>4
  <2> QED
    BY <2>1 DEF DamagedLines
<1>7. IsFiniteSet(More) /\ Cardinality(More) <= Cardinality(DamagedLines(lines)) + 1
  <2>1. /\ IsFiniteSet(More)
        /\ \/ Cardinality(More) = Cardinality(DamagedLines(lines))
           \/ Cardinality(More) = Cardinality(DamagedLines(lines)) + 1
    BY <1>5, FS_AddElement, Zenon
  <2> HIDE DEF More
  <2> QED
    BY <1>5, <2>1
<1>8. Cardinality(DamagedLines(part)) <= Cardinality(More)
  BY <1>6, <1>7, FS_Subset
<1>9. Cardinality(DamagedLines(part)) \in Nat /\ Cardinality(More) \in Nat
  BY <1>6, <1>7, FS_Subset, FS_CardinalityType
<1>10. Cardinality(DamagedLines(part)) <= Cardinality(DamagedLines(lines)) + 1
  <2> HIDE DEF More
  <2> QED
    BY <1>5, <1>7, <1>8, <1>9
<1> QED
  BY <1>4, <1>10

(* What a read gives, of the file or of a part of it. *)
LEMMA ReadGives ==
  ASSUME Inv, Read
  PROVE  /\ existing' \in Seq(Nat) /\ cut' \in BOOLEAN
         /\ HasRead'
         /\ faults' = 0 => existing' = file'.lines /\ ~cut'
         /\ Cardinality(DamagedLines(existing')) <= faults'
<1>1. /\ file' = file /\ file.lines \in Seq(Nat) /\ faults \in Nat
      /\ Cardinality(DamagedLines(file.lines)) <= faults
  BY DEF Read, Inv, TypeOK, DamageBounded
<1>2. CASE existing' = file.lines /\ cut' = FALSE /\ UNCHANGED faults
  <2>1. file.lines = SubSeq(file.lines, 1, Len(file.lines)) /\ Len(file.lines) \in 0..Len(file.lines)
    BY <1>1
  <2> QED
    BY <1>1, <1>2, <2>1 DEF HasRead
<1>3. CASE ReadPart /\ Fault
  <2>1. faults' = faults + 1
    BY <1>3 DEF Fault
  <2>2. PICK n \in 0..Len(file.lines) :
          \/ /\ existing' = SubSeq(file.lines, 1, n)
             /\ cut' \in IF n = 0 THEN {FALSE} ELSE BOOLEAN
          \/ /\ n < Len(file.lines)
             /\ existing' = Append(SubSeq(file.lines, 1, n), Torn)
             /\ cut' = TRUE
    BY <1>3 DEF ReadPart
  <2>3. cut' \in BOOLEAN
    BY <2>2
  <2>6. HasRead'
    BY <1>1, <2>2, Zenon DEF HasRead
  <2>4. /\ existing' \in Seq(Nat)
        /\ Cardinality(DamagedLines(existing'))
             <= Cardinality(DamagedLines(file.lines)) + 1
    BY <1>1, <2>2, PartOfLines
  <2>5. /\ Cardinality(DamagedLines(existing')) \in Nat
        /\ Cardinality(DamagedLines(file.lines)) \in Nat
    BY <1>1, <2>4, DamagedCount
  <2> QED
    BY <1>1, <2>1, <2>3, <2>4, <2>5, <2>6
<1> QED
  BY <1>2, <1>3 DEF Read

(* Until the rename, LedgerSafeAppend leaves the file alone. *)
LEMMA PrepareInv ==
  ASSUME Inv, Read \/ CreateTmp \/ WriteTmp \/ SyncTmp
  PROVE  Inv'
<1> USE DEF Inv
<1>1. /\ UNCHANGED <<rec, closer, closed, ch, chClosed, cur, file, accepted,
                     calls, dropped, crashes>>
      /\ drain \in Appending /\ drain' \in Appending
      /\ faults \in Nat /\ faults' \in Nat /\ faults' >= faults
      /\ cur \in Nat /\ existing \in Seq(Nat)
      /\ file \in [lines : Seq(Nat), synced : BOOLEAN]
      /\ tmp \in [lines : Seq(Nat), synced : BOOLEAN]
  <2>1. /\ UNCHANGED <<rec, closer, closed, ch, chClosed, cur, file, accepted,
                       calls, dropped, crashes>>
        /\ drain \in Appending /\ drain' \in Appending
        /\ faults' \in {faults, faults + 1}
    BY DEF Read, CreateTmp, WriteTmp, SyncTmp, Fault, Appending, recVars, closeVars
  <2>2. /\ faults \in Nat /\ cur \in Nat /\ existing \in Seq(Nat)
        /\ file \in [lines : Seq(Nat), synced : BOOLEAN]
        /\ tmp \in [lines : Seq(Nat), synced : BOOLEAN]
    BY DEF TypeOK
  <2> QED
    BY <2>1, <2>2
<1>2. TypeOK'
  <2>1. existing' \in Seq(Nat) /\ cut' \in BOOLEAN
    <3>1. CASE Read
      BY <3>1, ReadGives
    <3>2. CASE CreateTmp \/ WriteTmp \/ SyncTmp
      BY <3>2 DEF CreateTmp, WriteTmp, SyncTmp, TypeOK
    <3> QED
      BY <3>1, <3>2
  <2>2. tmp' \in [lines : Seq(Nat), synced : BOOLEAN]
    <3>1. Full \in Seq(Nat)
      BY <1>1 DEF Full
    <3>2. CASE Read
      BY <1>1, <3>2 DEF Read
    <3>3. CASE CreateTmp
      BY <3>3, EmptyFile DEF CreateTmp, FileType
    <3>4. CASE WriteTmp
      BY <3>1, <3>4 DEF WriteTmp, Contents, Full
    <3>5. CASE SyncTmp
      BY <1>1, <3>5 DEF SyncTmp
    <3> QED
      BY <3>2, <3>3, <3>4, <3>5
  <2> QED
    BY <1>1, <2>1, <2>2 DEF TypeOK
<1>3. /\ file'.synced /\ StoredInOrder' /\ ChannelContiguous'
      /\ FileOlder' /\ Complete'
  BY <1>1 DEF StoredInOrder, ChannelContiguous, FileOlder, Complete, Taken
<1>31. DamageBounded'
  <2>1. Cardinality(DamagedLines(file.lines)) \in Nat
    BY <1>1, DamagedCount
  <2> QED
    BY <1>1, <2>1 DEF DamageBounded
<1>4. ClosingOrder'
  BY <1>1 DEF ClosingOrder, Appending
<1>5. AppendProgress'
  <2>1. CASE Read
    BY <2>1, <1>1, ReadGives DEF Read, AppendProgress, Full
  <2>2. CASE CreateTmp
    BY <2>2, <1>1 DEF CreateTmp, AppendProgress, HasRead, Full
  <2>3. CASE WriteTmp
    BY <2>3, <1>1 DEF WriteTmp, AppendProgress, HasRead, Full, Contents, Full
  <2>4. CASE SyncTmp
    BY <2>4, <1>1 DEF SyncTmp, AppendProgress, HasRead, Full
  <2> QED
    BY <2>1, <2>2, <2>3, <2>4
<1> QED
  BY <1>2, <1>3, <1>31, <1>4, <1>5

(* The rename puts the newest entry after what was read. *)
LEMMA RenameInv ==
  ASSUME Inv, RenameTmp
  PROVE  Inv'
<1> USE DEF Inv
<1>1. /\ UNCHANGED <<rec, closer, closed, ch, chClosed, cur, existing, cut,
                     accepted, calls, dropped, faults, crashes>>
      /\ drain = "rename" /\ drain' = "receive"
      /\ file' = tmp /\ tmp' = Empty
      /\ cur \in Nat /\ existing \in Seq(Nat) /\ faults \in Nat
      /\ file \in [lines : Seq(Nat), synced : BOOLEAN]
      /\ tmp \in [lines : Seq(Nat), synced : BOOLEAN]
      /\ ch \in Seq(Nat) /\ accepted \in Nat
  BY DEF RenameTmp, TypeOK, recVars, closeVars
<1>2. /\ file'.lines = Full
      /\ file'.synced
      /\ HasRead
      /\ faults = 0 => existing = file.lines /\ ~cut
      /\ Cardinality(DamagedLines(existing)) <= faults
      /\ cur = Taken /\ cur >= 1
      /\ Taken \in Nat /\ Taken' = Taken
  <2>1. /\ file'.lines = Full
        /\ file'.synced
        /\ HasRead
        /\ faults = 0 => existing = file.lines /\ ~cut
        /\ Cardinality(DamagedLines(existing)) <= faults
    <3>1. drain \in {"create", "write", "sync", "rename"} /\ drain \in {"sync", "rename"}
      BY <1>1
    <3>2. file'.lines = tmp.lines /\ file'.synced = tmp.synced
      BY <1>1
    <3> QED
      BY <1>1, <3>1, <3>2, Zenon DEF AppendProgress
  <2>2. cur = Taken /\ cur >= 1
    BY <1>1 DEF ChannelContiguous, Appending
  <2>3. Taken \in Nat /\ Taken' = Taken
    BY <1>1, <2>2 DEF Taken
  <2> QED
    BY <2>1, <2>2, <2>3
<1>3. /\ Len(existing) \in Nat
      /\ \A i \in 1..Len(existing) : /\ existing[i] \in 1..Taken \cup {Torn}
                                     /\ existing[i] < cur
      /\ \A i, j \in 1..Len(existing) :
           i < j /\ existing[i] # Torn /\ existing[j] # Torn => existing[i] < existing[j]
  <2>1. /\ Len(existing) <= Len(file.lines)
        /\ \A i \in 1..Len(existing) : existing[i] = file.lines[i] \/ existing[i] = Torn
    BY <1>1, <1>2, PartOfLines DEF HasRead
  <2>2. \A i \in 1..Len(existing) : i \in 1..Len(file.lines)
    BY <1>1, <2>1
  <2>3. \A i \in 1..Len(file.lines) : /\ file.lines[i] \in 1..Taken \cup {Torn}
                                      /\ file.lines[i] < cur
    BY <1>1 DEF FileOlder, Appending
  <2>4. Torn = 0 /\ Torn < cur
    BY <1>2 DEF Torn
  <2>5. \A i \in 1..Len(existing) : /\ existing[i] \in 1..Taken \cup {Torn}
                                    /\ existing[i] < cur
    BY <2>1, <2>2, <2>3, <2>4
  <2>6. \A i, j \in 1..Len(existing) :
          i < j /\ existing[i] # Torn /\ existing[j] # Torn => existing[i] < existing[j]
    BY <2>1, <2>2 DEF StoredInOrder
  <2> QED
    BY <1>1, <2>5, <2>6
<1>31. \/ cut /\ file'.lines = existing
       \/ /\ ~cut
          /\ Len(file'.lines) = Len(existing) + 1
          /\ file'.lines[Len(existing) + 1] = cur
          /\ \A i \in 1..Len(existing) : file'.lines[i] = existing[i]
  BY <1>1, <1>2 DEF Full
<1>4. TypeOK'
  <2>1. tmp' \in [lines : Seq(Nat), synced : BOOLEAN]
    BY <1>1, EmptyFile DEF FileType
  <2> QED
    BY <1>1, <2>1 DEF TypeOK
<1>5. StoredInOrder'
  <2> SUFFICES ASSUME NEW i \in 1..Len(file'.lines), NEW j \in 1..Len(file'.lines),
                      i < j, file'.lines[i] # Torn, file'.lines[j] # Torn
               PROVE  file'.lines[i] < file'.lines[j]
    BY DEF StoredInOrder
  <2>1. CASE i \in 1..Len(existing) /\ j \in 1..Len(existing)
    <3>1. file'.lines[i] = existing[i] /\ file'.lines[j] = existing[j]
      BY <1>31, <2>1
    <3> QED
      BY <1>3, <2>1, <3>1
  <2>2. CASE ~(i \in 1..Len(existing) /\ j \in 1..Len(existing))
    <3>1. /\ i \in 1..Len(existing)
          /\ file'.lines[i] = existing[i]
          /\ file'.lines[j] = cur
      BY <1>3, <1>31, <2>2
    <3> QED
      BY <1>3, <3>1
  <2> QED
    BY <2>1, <2>2
<1>6. FileOlder'
  <2>1. /\ Taken' = Taken /\ Taken \in Nat /\ cur \in 1..Taken \cup {Torn}
        /\ drain' \notin Appending
    BY <1>1, <1>2 DEF Appending
  <2>2. \A i \in 1..Len(file'.lines) : file'.lines[i] \in 1..Taken \cup {Torn}
    <3>1. \A i \in 1..Len(existing) : existing[i] \in 1..Taken \cup {Torn}
      BY <1>3
    <3> QED
      BY <1>3, <1>31, <2>1, <3>1
  <2> QED
    BY <2>1, <2>2 DEF FileOlder
<1>7. Complete'
  <2> SUFFICES ASSUME faults = 0, crashes = 0
               PROVE  /\ Len(file'.lines) = Taken
                      /\ \A i \in 1..Len(file'.lines) : file'.lines[i] = i
    <3>1. drain' \notin Appending
      BY <1>1 DEF Appending
    <3>2. faults' = faults /\ crashes' = crashes /\ Taken' = Taken
      BY <1>1, <1>2
    <3> QED
      BY <3>1, <3>2, Zenon DEF Complete
  <2>1. /\ Len(existing) = Taken - 1
        /\ \A i \in 1..Len(existing) : existing[i] = i
    BY <1>1, <1>2 DEF Complete, Appending
  <2>2. ~cut
    BY <1>2
  <2> QED
    BY <1>2, <1>3, <1>31, <2>1, <2>2
<1>8. ChannelContiguous' /\ AppendProgress'
  BY <1>1 DEF ChannelContiguous, AppendProgress, Appending, Taken
<1>10. DamageBounded'
  <2>1. DamagedLines(file'.lines) = DamagedLines(existing)
    BY <1>2, <1>3, <1>31 DEF DamagedLines, Torn
  <2> QED
    BY <1>1, <1>2, <2>1 DEF DamageBounded
<1>9. ClosingOrder'
  BY <1>1 DEF ClosingOrder
<1> QED
  BY <1>2, <1>4, <1>5, <1>6, <1>7, <1>8, <1>9, <1>10

LEMMA AppendFailsInv ==
  ASSUME Inv, AppendFails
  PROVE  Inv'
<1> USE DEF Inv
<1>1. /\ UNCHANGED <<rec, closer, closed, ch, chClosed, cur, existing, cut, file,
                     accepted, calls, dropped, crashes>>
      /\ drain \in Appending /\ drain' = "receive"
      /\ faults \in Nat /\ faults' = faults + 1
      /\ tmp' \in {tmp, Empty}
  BY DEF AppendFails, Fault, TypeOK, Appending, recVars, closeVars
<1>2. TypeOK'
  <2>1. tmp' \in [lines : Seq(Nat), synced : BOOLEAN]
    BY <1>1, EmptyFile DEF TypeOK, FileType
  <2> QED
    BY <1>1, <2>1 DEF TypeOK
<1>3. file'.synced /\ StoredInOrder' /\ DamageBounded'
  <2>1. Cardinality(DamagedLines(file.lines)) \in Nat
    BY DamagedCount DEF TypeOK
  <2> QED
    BY <1>1, <2>1 DEF StoredInOrder, DamageBounded
<1>4. ChannelContiguous' /\ FileOlder' /\ AppendProgress'
  BY <1>1 DEF ChannelContiguous, FileOlder, AppendProgress, HasRead, Full, Appending, Taken
<1>5. Complete'
  BY <1>1 DEF Complete
<1>6. ClosingOrder'
  BY <1>1 DEF ClosingOrder, Appending
<1> QED
  BY <1>2, <1>3, <1>4, <1>5, <1>6

(* A crash empties the channel; the file, being synced, survives it. *)
LEMMA CrashInv ==
  ASSUME Inv, Crash
  PROVE  Inv'
<1> USE DEF Inv
<1>1. /\ file' = file
      /\ UNCHANGED <<accepted, calls, dropped, faults>>
      /\ drain' = "receive" /\ ch' = <<>> /\ cur' = 0 /\ existing' = <<>>
      /\ cut' = FALSE
      /\ closed' = FALSE /\ chClosed' = FALSE
      /\ rec' = [r \in Recorders |-> "idle"]
      /\ closer' = [c \in Closers |-> "idle"]
      /\ crashes \in Nat /\ crashes' = crashes + 1
      /\ tmp \in [lines : Seq(Nat), synced : BOOLEAN]
      /\ ch \in Seq(Nat) /\ accepted \in Nat
  BY DEF Crash, OnDisk, TypeOK
<1>2. /\ Len(ch') = 0
      /\ Taken \in Nat /\ Taken' \in Nat /\ Taken <= Taken'
  BY <1>1 DEF Taken, ChannelContiguous
<1>3. TypeOK'
  <2>1. tmp' \in [lines : Seq(Nat), synced : BOOLEAN]
    <3>1. \A part \in Parts(tmp.lines) : part \in Seq(Nat)
      <4> SUFFICES ASSUME NEW part \in Parts(tmp.lines) PROVE part \in Seq(Nat)
        OBVIOUS
      <4>1. \E n \in 0..Len(tmp.lines) :
              \/ part = SubSeq(tmp.lines, 1, n)
              \/ n < Len(tmp.lines) /\ part = Append(SubSeq(tmp.lines, 1, n), Torn)
        <5>1. Len(tmp.lines) \in Nat
          BY <1>1
        <5>2. \A n \in 0..(Len(tmp.lines) - 1) : n \in 0..Len(tmp.lines) /\ n < Len(tmp.lines)
          BY <5>1
        <5> QED
          BY <5>2, Zenon DEF Parts
      <4> QED
        BY <1>1, <4>1, PartOfLines
    <3>4. CASE tmp.synced
      BY <1>1, <3>4 DEF Crash, OnDisk
    <3>5. CASE ~tmp.synced
      <4>1. PICK part \in Parts(tmp.lines) : tmp' = Contents(part, TRUE)
        BY <3>5, Zenon DEF Crash, OnDisk
      <4> QED
        BY <3>1, <4>1 DEF Contents
    <3> QED
      BY <3>4, <3>5
  <2>2. /\ rec' \in [Recorders -> {"idle"} \cup Results]
        /\ closer' \in [Closers -> {"idle", "close", "wait", "flushed", "returned"}]
    BY <1>1
  <2>3. ch' \in Seq(Nat) /\ Len(ch') <= Capacity /\ existing' \in Seq(Nat)
    BY <1>1, <1>2, LedgerAssumption
  <2>4. file' \in [lines : Seq(Nat), synced : BOOLEAN] /\ cut' \in BOOLEAN
    BY <1>1 DEF TypeOK
  <2>5. /\ closed' \in BOOLEAN /\ chClosed' \in BOOLEAN
        /\ drain' \in Appending \cup {"receive", "exited"}
        /\ dropped' \in SUBSET Results
        /\ accepted' \in Nat /\ cur' \in 0..accepted' /\ calls' \in Nat
        /\ faults' \in Nat /\ crashes' \in Nat
    <3>1. /\ calls \in Nat /\ faults \in Nat /\ accepted \in Nat
          /\ dropped \in SUBSET Results
      BY DEF TypeOK
    <3>2. 0 \in 0..accepted
      BY <3>1
    <3>3. /\ closed' \in BOOLEAN /\ chClosed' \in BOOLEAN
          /\ drain' \in Appending \cup {"receive", "exited"}
          /\ dropped' \in SUBSET Results
      BY <1>1, <3>1, Zenon
    <3>4. /\ accepted' = accepted /\ cur' = 0 /\ calls' = calls
          /\ faults' = faults /\ crashes' = crashes + 1 /\ crashes \in Nat
      BY <1>1, Zenon
    <3> QED
      BY <3>1, <3>2, <3>3, <3>4
  <2> QED
    BY <1>1, <2>1, <2>2, <2>3, <2>4, <2>5 DEF TypeOK
<1>4. file'.synced /\ StoredInOrder' /\ DamageBounded' /\ AppendProgress'
  BY <1>1 DEF StoredInOrder, DamageBounded, AppendProgress, HasRead, Full
<1>5. ChannelContiguous' /\ FileOlder'
  BY <1>1, <1>2 DEF ChannelContiguous, FileOlder, Appending
<1>6. Complete' /\ ClosingOrder'
  BY <1>1 DEF Complete, ClosingOrder
<1> QED
  BY <1>3, <1>4, <1>5, <1>6

(* A step that changes nothing. *)
LEMMA StutterInv ==
  ASSUME Inv, UNCHANGED vars
  PROVE  Inv'
<1>1. TypeOK'
  BY DEF vars, Inv, TypeOK
<1>2. StoredInOrder' /\ DamageBounded' /\ AppendProgress'
  BY DEF vars, Inv, StoredInOrder, DamageBounded, AppendProgress, HasRead, Full
<1>3. ChannelContiguous' /\ FileOlder'
  BY DEF vars, Inv, ChannelContiguous, FileOlder, Taken
<1>4. Complete' /\ ClosingOrder'
  BY DEF vars, Inv, Complete, ClosingOrder, Taken
<1>5. file'.synced
  BY DEF vars, Inv
<1> QED
  BY <1>1, <1>2, <1>3, <1>4, <1>5 DEF Inv

LEMMA NextInv == Inv /\ [Next]_vars => Inv'
<1> SUFFICES ASSUME Inv, [Next]_vars PROVE Inv'
  OBVIOUS
<1>1. ASSUME NEW r \in Recorders, NEW s \in Results, RecordCall(r, s)
      PROVE  Inv'
  BY <1>1, RecordCallInv
<1>2. ASSUME NEW r \in Recorders, RecordSend(r)
      PROVE  Inv'
  BY <1>2, RecordSendInv
<1>3. ASSUME NEW c \in Closers, CloseSwap(c) \/ CloseChannel(c) \/ CloseWait(c)
      PROVE  Inv'
  BY <1>3, CloseInv
<1>4. CASE Drain
  BY <1>4, ReceiveInv, ExitInv, PrepareInv, RenameInv, AppendFailsInv DEF Drain
<1>5. CASE Crash
  BY <1>5, CrashInv
<1>6. CASE UNCHANGED vars
  BY <1>6, StutterInv
<1> QED
  BY <1>1, <1>2, <1>3, <1>4, <1>5, <1>6 DEF Next

(* The inductive invariant holds in every reachable state. *)
THEOREM LedgerInvariant == SafeSpec => []Inv
<1>1. Init => Inv
  BY InitInv
<1>2. Inv /\ [Next]_vars => Inv'
  BY NextInv
<1> QED
  BY <1>1, <1>2, PTL DEF SafeSpec

(* The variables keep their types. *)
THEOREM LedgerTypeOK == SafeSpec => []TypeOK
BY LedgerInvariant, PTL DEF Inv

(* The entries in ledger.jsonl are in the order of their acceptance and    *)
(* none is there twice, through failing file operations and stops of the   *)
(* machine in the middle of LedgerSafeAppend.                              *)
THEOREM LedgerStored == SafeSpec => []StoredInOrder
BY LedgerInvariant, PTL DEF Inv

(* ledger.jsonl is always safe on the disk, its lines hold entries that    *)
(* were accepted, and those that hold none are at most as many as          *)
(* operations that failed: a stop of the machine damages no line.          *)
THEOREM LedgerDamage == SafeSpec => []OnlyFaultsDamage
<1>1. Inv => OnlyFaultsDamage
  <2> SUFFICES ASSUME Inv
               PROVE \A i \in 1..Len(file.lines) : file.lines[i] \in 1..accepted \cup {Torn}
    BY DEF Inv, OnlyFaultsDamage, DamageBounded
  <2>1. Len(ch) \in Nat /\ accepted \in Nat
    BY DEF Inv, TypeOK
  <2> QED
    BY <2>1 DEF Inv, FileOlder, Taken
<1> QED
  BY <1>1, LedgerInvariant, PTL

(* Before the first failure no accepted entry is missing: each is in the   *)
(* file, in the hands of drain or in the channel.                          *)
THEOREM LedgerNothingLost == SafeSpec => []NothingLost
<1>1. Inv => NothingLost
  <2> SUFFICES ASSUME Inv, faults = 0, crashes = 0
               PROVE  /\ Len(file.lines) + Len(InFlight) + Len(ch) = accepted
                      /\ \A i \in 1..Len(file.lines) : file.lines[i] = i
    BY DEF NothingLost
  <2>1. Len(ch) \in Nat /\ accepted \in Nat
    BY DEF Inv, TypeOK
  <2>2. CASE drain \in Appending
    <3>1. Len(InFlight) = 1
      BY <2>2 DEF InFlight
    <3> QED
      BY <2>1, <2>2, <3>1 DEF Inv, Complete, Taken
  <2>3. CASE drain \notin Appending
    <3>1. Len(InFlight) = 0
      BY <2>3 DEF InFlight
    <3> QED
      BY <2>1, <2>3, <3>1 DEF Inv, Complete, Taken
  <2> QED
    BY <2>2, <2>3
<1> QED
  BY <1>1, LedgerInvariant, PTL

(* The Close that waited leaves nothing behind in the channel.             *)
THEOREM LedgerClosing == SafeSpec => []FlushedOnClose
<1>1. Inv => FlushedOnClose
  BY DEF Inv, ClosingOrder, FlushedOnClose
<1> QED
  BY <1>1, LedgerInvariant, PTL

-----------------------------------------------------------------------------
(* Refinement *)

Pending == InFlight \o ch

LEMMA PendingType ==
  ASSUME Inv
  PROVE  /\ InFlight \in Seq(Nat) /\ Pending \in Seq(Nat)
         /\ Len(InFlight) <= 1
         /\ Len(Pending) = Len(InFlight) + Len(ch)
<1>1. ch \in Seq(Nat) /\ cur \in Nat
  BY DEF Inv, TypeOK
<1> QED
  BY <1>1 DEF InFlight, Pending

LEMMA RefineInit == Init => Audit!Init
BY DEF Init, Audit!Init, InFlight, Appending, Empty, Contents

LEMMA RefineSend ==
  ASSUME Inv, NEW r \in Recorders, RecordSend(r)
  PROVE  [Audit!Next]_Audit!vars
<1>1. drain' = drain /\ cur' = cur /\ file' = file /\ chClosed' = chClosed
  BY DEF RecordSend, drainVars, closeVars
<1>2. CASE UNCHANGED <<ch, accepted>>
  BY <1>1, <1>2 DEF Audit!vars, InFlight
<1>3. CASE /\ ~chClosed
           /\ Len(ch) < Capacity
           /\ accepted' = accepted + 1
           /\ ch' = Append(ch, accepted + 1)
  <2>1. ch \in Seq(Nat) /\ accepted \in Nat /\ InFlight' = InFlight
    BY <1>1 DEF Inv, TypeOK, InFlight
  <2>2. InFlight \o Append(ch, accepted + 1) = Append(InFlight \o ch, accepted + 1)
    <3> DEFINE e == accepted + 1
    <3>1. e \in Nat /\ <<e>> \in Seq(Nat) /\ InFlight \in Seq(Nat)
      BY <2>1, PendingType
    <3>2. Append(ch, e) = ch \o <<e>>
      BY <2>1, <3>1, AppendIsConcat, Zenon
    <3>3. Append(InFlight \o ch, e) = (InFlight \o ch) \o <<e>>
      BY <3>1, PendingType, AppendIsConcat, Zenon DEF Pending
    <3>4. (InFlight \o ch) \o <<e>> = InFlight \o (ch \o <<e>>)
      BY <2>1, <3>1, ConcatAssociative
    <3> QED
      BY <3>2, <3>3, <3>4
  <2>3. Len(InFlight \o ch) < Capacity + 1
    BY <1>3, <2>1, PendingType, LedgerAssumption DEF Pending
  <2>4. Audit!Accept
    BY <1>1, <1>3, <2>1, <2>2, <2>3 DEF Audit!Accept
  <2> QED
    BY <2>4 DEF Audit!Next
<1> QED
  BY <1>2, <1>3 DEF RecordSend, Room

(* A step of drain that settles the entry in its hands. *)
LEMMA Settling ==
  ASSUME Inv, drain \in Appending, drain' = "receive",
         UNCHANGED <<ch, accepted, chClosed>>,
         NEW newLog, file'.lines = newLog
  PROVE  Audit!Settle(newLog)
<1>1. ch \in Seq(Nat) /\ cur \in Nat
  BY DEF Inv, TypeOK
<1>2. InFlight = <<cur>> /\ InFlight' = <<>>
  BY DEF InFlight, Appending
<1>3. <<cur>> \o ch # <<>> /\ Tail(<<cur>> \o ch) = ch /\ <<>> \o ch = ch
  BY <1>1
<1> QED
  BY <1>2, <1>3 DEF Audit!Settle

LEMMA RefineDrain ==
  ASSUME Inv, Drain
  PROVE  [Audit!Next]_Audit!vars
<1>1. ch \in Seq(Nat) /\ cur \in Nat
  BY DEF Inv, TypeOK
<1>2. CASE Receive
  <2>1. <<Head(ch)>> \o Tail(ch) = <<>> \o ch
    BY <1>1, <1>2 DEF Receive
  <2>2. InFlight = <<>> /\ InFlight' = <<Head(ch)>>
    BY <1>2 DEF Receive, InFlight, Appending
  <2> QED
    BY <1>2, <2>1, <2>2 DEF Receive, closeVars, Audit!vars
<1>3. CASE Exit
  <2>1. InFlight' = InFlight
    BY <1>3 DEF Exit, InFlight, Appending
  <2> QED
    BY <1>3, <2>1 DEF Exit, recVars, closeVars, Audit!vars
<1>4. CASE Read \/ CreateTmp \/ WriteTmp \/ SyncTmp
  <2>1. /\ UNCHANGED <<accepted, ch, chClosed, cur, file>>
        /\ drain \in Appending /\ drain' \in Appending
    BY <1>4 DEF Read, CreateTmp, WriteTmp, SyncTmp, Appending, recVars, closeVars
  <2>2. InFlight' = InFlight
    BY <2>1 DEF InFlight
  <2> QED
    BY <2>1, <2>2 DEF Audit!vars
<1>5. CASE RenameTmp
  <2>1. /\ drain \in Appending /\ drain' = "receive"
        /\ UNCHANGED <<ch, accepted, chClosed>>
        /\ file' = tmp /\ drain = "rename"
    BY <1>5 DEF RenameTmp, Appending, recVars, closeVars
  <2>2. tmp.lines = Full /\ HasRead
    BY <2>1 DEF Inv, AppendProgress
  <2>3. Head(InFlight \o ch) = cur
    BY <1>1, <2>1 DEF InFlight
  <2>4. Audit!Settle(Full)
    BY <2>1, <2>2, Settling
  <2>5. PICK n \in 0..Len(file.lines) :
          \/ existing = SubSeq(file.lines, 1, n)
          \/ n < Len(file.lines) /\ existing = Append(SubSeq(file.lines, 1, n), Torn) /\ cut
    BY <2>2 DEF HasRead
  <2>6. \/ Full = SubSeq(file.lines, 1, n)
        \/ Full = Append(SubSeq(file.lines, 1, n), cur)
        \/ n < Len(file.lines) /\ Full = Append(SubSeq(file.lines, 1, n), 0)
    BY <2>5, Zenon DEF Full, Torn
  <2> QED
    BY <2>3, <2>4, <2>6, Zenon DEF Audit!Shorten, Audit!Next, Audit!Damaged
<1>6. CASE AppendFails
  <2>1. /\ drain \in Appending /\ drain' = "receive"
        /\ UNCHANGED <<ch, accepted, chClosed, file>>
    BY <1>6 DEF AppendFails, Appending, recVars, closeVars
  <2>2. Audit!Settle(file.lines)
    BY <2>1, Settling
  <2> QED
    BY <2>2 DEF Audit!Lose, Audit!Next
<1> QED
  BY <1>2, <1>3, <1>4, <1>5, <1>6 DEF Drain

LEMMA RefineCrash ==
  ASSUME Inv, Crash
  PROVE  Audit!Restart
<1>1. file' = file
  BY DEF Crash, OnDisk, Inv
<1>2. InFlight' = <<>> /\ ch' = <<>>
  BY DEF Crash, InFlight, Appending
<1> QED
  BY <1>1, <1>2 DEF Crash, Audit!Restart

(* Every step of the ledger is a step of the abstract ledger, or none.     *)
LEMMA RefineNext == Inv /\ [Next]_vars => [Audit!Next]_Audit!vars
<1> SUFFICES ASSUME Inv, [Next]_vars PROVE [Audit!Next]_Audit!vars
  OBVIOUS
<1>1. ASSUME NEW r \in Recorders, NEW s \in Results, RecordCall(r, s)
      PROVE  UNCHANGED Audit!vars
  BY <1>1 DEF RecordCall, closeVars, drainVars, Audit!vars, InFlight
<1>2. ASSUME NEW r \in Recorders, RecordSend(r)
      PROVE  [Audit!Next]_Audit!vars
  BY <1>2, RefineSend
<1>3. ASSUME NEW c \in Closers, CloseSwap(c) \/ CloseWait(c)
      PROVE  UNCHANGED Audit!vars
  BY <1>3 DEF CloseSwap, CloseWait, recVars, drainVars, Audit!vars, InFlight
<1>4. ASSUME NEW c \in Closers, CloseChannel(c)
      PROVE  Audit!Shut
  BY <1>4 DEF CloseChannel, recVars, drainVars, Audit!Shut, InFlight
<1>5. CASE Drain
  BY <1>5, RefineDrain
<1>6. CASE Crash
  BY <1>6, RefineCrash DEF Audit!Next
<1>7. CASE UNCHANGED vars
  BY <1>7 DEF vars, Audit!vars, InFlight
<1> QED
  BY <1>1, <1>2, <1>3, <1>4, <1>5, <1>6, <1>7 DEF Next, Audit!Next

(* The ledger implements AuditLog: entries are accepted into a bounded     *)
(* queue and leave it one by one, oldest first, stored or given up.        *)
THEOREM LedgerImplementsAuditLog == SafeSpec => Audit!SafeSpec
<1>1. Init => Audit!Init
  BY RefineInit
<1>2. Inv /\ [Next]_vars => [Audit!Next]_Audit!vars
  BY RefineNext
<1> QED
  BY <1>1, <1>2, LedgerInvariant, PTL DEF SafeSpec, Audit!SafeSpec
=============================================================================
