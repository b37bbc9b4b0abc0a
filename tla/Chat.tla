-------------------------------- MODULE Chat --------------------------------
(***************************************************************************)
(* Chat: Butler.HandleChat and HandleChatStream (butler/butler.go) over    *)
(* MemoryManager (butler/memory.go) and ConversationManager                *)
(* (butler/conversation.go).                                               *)
(*                                                                         *)
(* Every chat is the chat of one user, "default", whatever client it comes *)
(* from.  A chat appends its message to the user's session, a window of    *)
(* the last messages kept in memory, and to the file of the session; asks  *)
(* the model with the window as context; and appends the answer likewise.  *)
(* The session is guarded by a mutex, the file is not: persist creates     *)
(* <user>.jsonl.tmp, writes the window line by line, syncs and renames,    *)
(* after the mutex was given back.  A chat without a message reads the     *)
(* file into the session instead.                                          *)
(*                                                                         *)
(* A message is the number of its append to the session.  A name of the    *)
(* directory refers to an inode, and so does an open file: two goroutines  *)
(* may write to one inode, even when it has been renamed meanwhile.  A     *)
(* message takes one line of a file.  Not every message that is written is *)
(* read again: a line without a role is skipped, and the Scanner stops at  *)
(* a line of more than 64 KiB.  The places at which two writers meet in    *)
(* one file are counted in lines, as if these were of one length.          *)
(*                                                                         *)
(* A definition whose comment begins with "Variant" is a faulty form of    *)
(* the definition that follows it and is used only to see that a property  *)
(* notices it.                                                             *)
(***************************************************************************)
EXTENDS Naturals, Sequences, FiniteSetsExt, TLC

CONSTANTS
  Chats,       \* goroutines that serve chats
  Window,      \* defaultContextWindow
  MaxChats,    \* bound on the chats
  MaxOdd,      \* bound on the messages without a role or with a long line
  MaxFaults,   \* bound on the failing file operations
  MaxCrashes,  \* bound on the crashes
  MaxMishaps   \* bound on all three together

ASSUME ChatAssumption ==
  /\ Window \in Nat \ {0}
  /\ MaxChats \in Nat
  /\ MaxOdd \in Nat
  /\ MaxFaults \in Nat
  /\ MaxCrashes \in Nat
  /\ MaxMishaps \in Nat
  /\ IsFiniteSet(Chats)

VARIABLES
  pc,          \* chat: what it does next
  role,        \* chat: "none" (it has no message), "user" or "assistant":
               \* whose message it appends
  own,         \* chat: its last message in the session, 0 if none
  msgs,        \* chat: the window persist writes, or the lines it read
  prompt,      \* chat: the messages it asks the model with
  fd,          \* chat: the inode its file refers to, 0 if none
  written,     \* chat: lines written to it
  session,     \* ConversationManager.sessions["default"]
  appended,    \* messages appended to the session
  roleless,    \* those of them whose role is empty
  long,        \* those of them whose line is longer than 64 KiB
  file,        \* inode of default.jsonl, 0 if there is none
  tmp,         \* inode of default.jsonl.tmp, 0 if there is none
  inode,       \* inode: its lines, and whether they are safe on the disk
  overlapped,  \* two uses of the conversation have been in progress at once
  chats, faults, crashes

chatVars == <<pc, role, own, msgs, prompt>>
diskVars == <<fd, written, file, tmp, inode>>
kinds == <<roleless, long>>
bounds == <<chats, faults, crashes>>
vars == <<chatVars, diskVars, session, appended, kinds, overlapped, bounds>>

Torn == 0
NoLines == [lines |-> <<>>, synced |-> TRUE]

(* Enough inodes: one for each name and one for each open file. *)
Inodes == 1..(Cardinality(Chats) + 2)
Unused == Inodes \ ({file, tmp} \cup {fd[c] : c \in Chats})

(* Variant: one message more than the window is kept. *)
LatestAndOne(s, n) == SubSeq(s, IF Len(s) > n + 1 THEN Len(s) - n ELSE 1, Len(s))

(* The last n elements of s. *)
Latest(s, n) == SubSeq(s, IF Len(s) > n THEN Len(s) - n + 1 ELSE 1, Len(s))

(* The elements of s at the places P, in their order. *)
Nth(P, k) == CHOOSE i \in P : Cardinality({j \in P : j <= i}) = k
Picked(s, P) == [k \in 1..Cardinality(P) |-> s[Nth(P, k)]]

(* The lines that loadFromFile makes messages of: those that parse and     *)
(* have a role, up to the first long one.                                  *)
Whole(lines) ==
  {i \in 1..Len(lines) : /\ lines[i] # Torn
                         /\ lines[i] \notin roleless
                         /\ \A j \in 1..i : lines[j] \notin long}

(* Variant: the last line is not read. *)
MessagesButLast(lines) == Picked(lines, Whole(lines) \ {Len(lines)})

(* loadFromFile, and what it makes of default.jsonl.                       *)
Messages(lines) == Picked(lines, Whole(lines))
Stored == IF file = 0 THEN <<>> ELSE Messages(inode[file].lines)

Init ==
  /\ pc = [c \in Chats |-> "idle"]
  /\ role = [c \in Chats |-> "none"]
  /\ own = [c \in Chats |-> 0]
  /\ msgs = [c \in Chats |-> <<>>]
  /\ prompt = [c \in Chats |-> <<>>]
  /\ fd = [c \in Chats |-> 0]
  /\ written = [c \in Chats |-> 0]
  /\ session = <<>>
  /\ appended = 0
  /\ roleless = {}
  /\ long = {}
  /\ file = 0
  /\ tmp = 0
  /\ inode = [i \in Inodes |-> NoLines]
  /\ overlapped = FALSE
  /\ chats = 0
  /\ faults = 0
  /\ crashes = 0

Mishaps == faults + crashes + Cardinality(roleless \cup long)

Fault ==
  /\ faults < MaxFaults
  /\ Mishaps < MaxMishaps
  /\ faults' = faults + 1

(* What a failing Open or Read leaves of what is read: loadFromFile keeps  *)
(* the messages it has and reports no error.                               *)
Reads(s) == {SubSeq(s, 1, n) : n \in 0..Len(s)}

(* The places between the first and the last access of one call of Append  *)
(* or LoadContext to the session and its file.                             *)
Using == {"create", "write", "sync", "rename", "enter"}
BeginUse == overlapped' = (overlapped \/ \E c \in Chats : pc[c] \in Using)

-----------------------------------------------------------------------------
(* HandleChat and HandleChatStream *)

(* The grant is denied: the chat ends at once, which leaves no trace here. *)
(* Otherwise the chat has a message, or only wants the context.            *)
HandleChat(c) ==
  /\ pc[c] = "idle"
  /\ chats < MaxChats
  /\ chats' = chats + 1
  /\ \/ /\ pc' = [pc EXCEPT ![c] = "save"]
        /\ role' = [role EXCEPT ![c] = "user"]
     \/ /\ pc' = [pc EXCEPT ![c] = "load"]
        /\ role' = [role EXCEPT ![c] = "none"]
  /\ UNCHANGED <<own, msgs, prompt, session, appended, kinds, overlapped, faults,
                 crashes, diskVars>>

(* Where Append returns to.  For a message of the user its error is logged *)
(* and the chat goes on without any messages.                              *)
AppendReturns(c, ctx) ==
  IF role[c] = "user"
  THEN pc' = [pc EXCEPT ![c] = "ask"] /\ prompt' = [prompt EXCEPT ![c] = ctx]
  ELSE pc' = [pc EXCEPT ![c] = "answer"] /\ UNCHANGED prompt

(* Variant: the context is read anew after the mutex was given back. *)
ContextReadLate(c) == session

(* The copy that Append made under the mutex. *)
Context(c) == msgs[c]

(* SaveMemory fails before the session is touched. *)
SaveFails(c) ==
  /\ pc[c] = "save"
  /\ Fault
  /\ AppendReturns(c, <<>>)
  /\ UNCHANGED <<role, own, msgs, session, appended, kinds, overlapped, chats, crashes,
                 diskVars>>

(* The message that c appends: its role is the one the client sent, which  *)
(* may be none, and it may be of any length.                               *)
TakeKind(c) ==
  /\ roleless' \in {roleless} \cup
                     IF role[c] = "user" THEN {roleless \cup {appended + 1}} ELSE {}
  /\ long' \in {long, long \cup {appended + 1}}
  /\ Cardinality(roleless' \cup long') <= MaxOdd
  /\ faults + crashes + Cardinality(roleless' \cup long') <= MaxMishaps

(* Variant: the file gets the window before it is cut. *)
EnterPersistsAll(c) ==
  /\ pc[c] = "save"
  /\ appended' = appended + 1
  /\ TakeKind(c)
  /\ session' = Latest(Append(session, appended + 1), Window)
  /\ msgs' = [msgs EXCEPT ![c] = Append(session, appended + 1)]
  /\ own' = [own EXCEPT ![c] = appended + 1]
  /\ pc' = [pc EXCEPT ![c] = "create"]
  /\ BeginUse
  /\ UNCHANGED <<role, prompt, bounds, diskVars>>

(* SaveMemory, then Append up to its Unlock. *)
Enter(c) ==
  /\ pc[c] = "save"
  /\ appended' = appended + 1
  /\ TakeKind(c)
  /\ session' = Latest(Append(session, appended + 1), Window)
  /\ msgs' = [msgs EXCEPT ![c] = session']
  /\ own' = [own EXCEPT ![c] = appended + 1]
  /\ pc' = [pc EXCEPT ![c] = "create"]
  /\ BeginUse
  /\ UNCHANGED <<role, prompt, bounds, diskVars>>

(* LoadContext reads the file.  LoadHistory, its second source, finds      *)
(* nothing: the session identifier is the time of the call.                *)
Load(c) ==
  /\ pc[c] = "load"
  /\ \E read \in Reads(Stored) :
       /\ \/ read = Stored /\ UNCHANGED faults
          \/ Fault
       /\ msgs' = [msgs EXCEPT ![c] = Latest(read, Window)]
       /\ IF read = <<>>
          THEN /\ pc' = [pc EXCEPT ![c] = "ask"]
               /\ UNCHANGED overlapped
          ELSE /\ pc' = [pc EXCEPT ![c] = "enter"]
               /\ BeginUse
  /\ UNCHANGED <<role, own, prompt, session, appended, kinds, chats, crashes,
                 diskVars>>

(* What was read becomes the session. *)
EnterLoaded(c) ==
  /\ pc[c] = "enter"
  /\ session' = msgs[c]
  /\ prompt' = [prompt EXCEPT ![c] = msgs[c]]
  /\ pc' = [pc EXCEPT ![c] = "ask"]
  /\ UNCHANGED <<role, own, msgs, appended, kinds, overlapped, bounds, diskVars>>

(* The model answers, also with a stream that breaks off. *)
ModelAnswers(c) ==
  /\ pc[c] = "ask"
  /\ pc' = [pc EXCEPT ![c] = "save"]
  /\ role' = [role EXCEPT ![c] = "assistant"]
  /\ prompt' = [prompt EXCEPT ![c] = <<>>]
  /\ own' = [own EXCEPT ![c] = 0]
  /\ UNCHANGED <<msgs, session, appended, kinds, overlapped, bounds, diskVars>>

(* The chat is over: with an answer, or with the error of the model. *)
Respond(c) ==
  /\ pc[c] \in {"ask", "answer"}
  /\ pc' = [pc EXCEPT ![c] = "idle"]
  /\ role' = [role EXCEPT ![c] = "none"]
  /\ own' = [own EXCEPT ![c] = 0]
  /\ msgs' = [msgs EXCEPT ![c] = <<>>]
  /\ prompt' = [prompt EXCEPT ![c] = <<>>]
  /\ UNCHANGED <<session, appended, kinds, overlapped, bounds, diskVars>>

-----------------------------------------------------------------------------
(* persist *)

CloseFile(c) ==
  /\ fd' = [fd EXCEPT ![c] = 0]
  /\ written' = [written EXCEPT ![c] = 0]

(* os.Create truncates the file that bears the name, if there is one. *)
CreateTmp(c) ==
  /\ pc[c] = "create"
  /\ LET i == IF tmp # 0 THEN tmp ELSE CHOOSE j \in Unused : TRUE IN
       /\ tmp' = i
       /\ fd' = [fd EXCEPT ![c] = i]
       /\ inode' = [inode EXCEPT ![i] = NoLines]
  /\ pc' = [pc EXCEPT ![c] = "write"]
  /\ UNCHANGED <<role, own, msgs, prompt, written, file, session, appended, kinds,
                 overlapped, bounds>>

(* A write at the n-th line of a file that may have become shorter, or     *)
(* hold the lines of another writer.                                       *)
Overwrite(lines, n, m) ==
  [k \in 1..Max({n, Len(lines)}) |->
     IF k = n THEN m ELSE IF k <= Len(lines) THEN lines[k] ELSE Torn]

WriteLine(c) ==
  /\ pc[c] = "write"
  /\ written[c] < Len(msgs[c])
  /\ written' = [written EXCEPT ![c] = @ + 1]
  /\ inode' = [inode EXCEPT ![fd[c]] =
                 [lines |-> Overwrite(@.lines, written[c] + 1,
                                      msgs[c][written[c] + 1]),
                  synced |-> FALSE]]
  /\ pc' = [pc EXCEPT ![c] = IF written'[c] = Len(msgs[c]) THEN "sync" ELSE @]
  /\ UNCHANGED <<role, own, msgs, prompt, fd, file, tmp, session, appended, kinds,
                 overlapped, bounds>>

(* Variant: the file is renamed without a sync. *)
SyncTmpSkipped(c) ==
  /\ pc[c] = "sync"
  /\ CloseFile(c)
  /\ pc' = [pc EXCEPT ![c] = "rename"]
  /\ UNCHANGED <<role, own, msgs, prompt, file, tmp, inode, session, appended, kinds,
                 overlapped, bounds>>

(* f.Sync() and f.Close() *)
SyncTmp(c) ==
  /\ pc[c] = "sync"
  /\ inode' = [inode EXCEPT ![fd[c]].synced = TRUE]
  /\ CloseFile(c)
  /\ pc' = [pc EXCEPT ![c] = "rename"]
  /\ UNCHANGED <<role, own, msgs, prompt, file, tmp, session, appended, kinds,
                 overlapped, bounds>>

(* os.Rename.  The name may be gone: another persist has renamed it. *)
RenameTmp(c) ==
  /\ pc[c] = "rename"
  /\ IF tmp = 0
     THEN UNCHANGED <<file, tmp>> /\ AppendReturns(c, <<>>)
     ELSE file' = tmp /\ tmp' = 0 /\ AppendReturns(c, Context(c))
  /\ UNCHANGED <<role, own, msgs, fd, written, inode, session, appended, kinds,
                 overlapped, bounds>>

(* A file operation fails.  A failed write or sync removes the name. *)
PersistFails(c) ==
  /\ pc[c] \in {"create", "write", "sync", "rename"}
  /\ Fault
  /\ tmp' = IF pc[c] \in {"write", "sync"} THEN 0 ELSE tmp
  /\ CloseFile(c)
  /\ AppendReturns(c, <<>>)
  /\ UNCHANGED <<role, own, msgs, file, inode, session, appended, kinds, overlapped,
                 chats, crashes>>

-----------------------------------------------------------------------------
(* What the disk holds of an inode: all of it once synced, otherwise any   *)
(* part of it, the last line possibly cut.                                 *)
OnDisk(i) ==
  IF i = 0 THEN {<<>>}
  ELSE LET lines == inode[i].lines
       IN  IF inode[i].synced
           THEN {lines}
           ELSE {SubSeq(lines, 1, n) : n \in 0..Len(lines)} \cup
                {Append(SubSeq(lines, 1, n), Torn) : n \in 0..(Len(lines) - 1)}

(* The machine stops, and NewConversationManager restores the session.     *)
(* Only what has a name is left of the disk.                               *)
Crash ==
  /\ crashes < MaxCrashes
  /\ Mishaps < MaxMishaps
  /\ crashes' = crashes + 1
  /\ \E keptFile \in OnDisk(file), keptTmp \in OnDisk(tmp) :
       inode' = [i \in Inodes |->
                   [lines |-> IF i = file THEN keptFile
                              ELSE IF i = tmp THEN keptTmp ELSE <<>>,
                    synced |-> TRUE]]
  /\ LET stored == IF file = 0 THEN <<>> ELSE Messages(inode'[file].lines)
     IN  \E read \in Reads(stored) :
           /\ \/ read = stored /\ UNCHANGED faults
              \/ Fault
           /\ session' = Latest(read, Window)
  /\ pc' = [c \in Chats |-> "idle"]
  /\ role' = [c \in Chats |-> "none"]
  /\ own' = [c \in Chats |-> 0]
  /\ msgs' = [c \in Chats |-> <<>>]
  /\ prompt' = [c \in Chats |-> <<>>]
  /\ fd' = [c \in Chats |-> 0]
  /\ written' = [c \in Chats |-> 0]
  /\ UNCHANGED <<appended, kinds, file, tmp, overlapped, chats>>

-----------------------------------------------------------------------------
ChatStep(c) ==
  \/ SaveFails(c) \/ Enter(c) \/ Load(c) \/ EnterLoaded(c)
  \/ ModelAnswers(c) \/ Respond(c)
  \/ CreateTmp(c) \/ WriteLine(c) \/ SyncTmp(c) \/ RenameTmp(c)
  \/ PersistFails(c)

Next == Crash \/ \E c \in Chats : HandleChat(c) \/ ChatStep(c)

Spec == Init /\ [][Next]_vars

(* Nothing tells one goroutine from another. *)
Symmetry == Permutations(Chats)

(* What the rest of a run may still read of the inodes and of the windows: *)
(* states that differ in nothing else are one.                             *)
WritingTmp == {"write", "sync", "rename"}
LiveInodes ==
  [i \in Inodes |->
     IF i = file \/ \E c \in Chats : pc[c] \in WritingTmp /\ i \in {tmp, fd[c]}
     THEN inode[i] ELSE NoLines]
LiveMsgs == [c \in Chats |-> IF pc[c] \in Using THEN msgs[c] ELSE <<>>]
ChatView == <<pc, role, own, LiveMsgs, prompt, fd, written, file, tmp, LiveInodes,
              session, appended, kinds, overlapped, bounds>>

-----------------------------------------------------------------------------
(* Properties *)

TypeOK ==
  /\ pc \in [Chats -> Using \cup {"idle", "save", "load", "ask", "answer"}]
  /\ role \in [Chats -> {"none", "user", "assistant"}]
  /\ appended \in Nat
  /\ roleless \subseteq 1..appended
  /\ long \subseteq 1..appended
  /\ own \in [Chats -> 0..appended]
  /\ session \in Seq(Nat)
  /\ Len(session) <= Window
  /\ msgs \in [Chats -> Seq(Nat)]
  /\ \A c \in Chats : Len(msgs[c]) <= Window
  /\ prompt \in [Chats -> Seq(Nat)]
  /\ fd \in [Chats -> Inodes \cup {0}]
  /\ written \in [Chats -> Nat]
  /\ file \in Inodes \cup {0}
  /\ tmp \in Inodes \cup {0}
  /\ inode \in [Inodes -> [lines : Seq(Nat), synced : BOOLEAN]]
  /\ overlapped \in BOOLEAN
  /\ chats \in Nat /\ faults \in Nat /\ crashes \in Nat

(* However the chats of all the clients interleave, a chat never asks the  *)
(* model to answer the message of another chat: what it asks with ends     *)
(* with its own message, or is empty.                                      *)
PromptIsOwn ==
  \A c \in Chats : pc[c] = "ask" /\ role[c] = "user" =>
    prompt[c] = <<>> \/ prompt[c][Len(prompt[c])] = own[c]

(* The messages that a reload may lose though nothing fails: those without *)
(* a role, and those that stand behind a long one in the same window.      *)
Unreadable(m) == m \in roleless \/ \E k \in long : k <= m /\ m < k + Window

(* As long as no two uses of the conversation overlap and nothing fails, a *)
(* chat asks with the messages that came before its own in their order,    *)
(* whichever chats they came from: of the last ones, as many as the window *)
(* holds, none is missing but those that a reload cannot read back.        *)
PromptComplete ==
  ~overlapped /\ faults = 0 /\ crashes = 0 =>
    \A c \in Chats : pc[c] = "ask" /\ role[c] = "user" =>
      /\ \A i, j \in 1..Len(prompt[c]) : i < j => prompt[c][i] < prompt[c][j]
      /\ \A m \in 1..own[c] : m + Window > own[c] =>
           Unreadable(m) \/ \E i \in 1..Len(prompt[c]) : prompt[c][i] = m

(* As long as no two uses of the conversation overlap, its file holds      *)
(* whole messages, each once and in order, and is safe on the disk,        *)
(* whatever operation fails and wherever the machine stops.                *)
FileWhole ==
  ~overlapped /\ file # 0 =>
    LET lines == inode[file].lines IN
      /\ inode[file].synced
      /\ \A i \in 1..Len(lines) : lines[i] \in 1..appended
      /\ \A i, j \in 1..Len(lines) : i < j => lines[i] < lines[j]

(* As long as no two uses of the conversation overlap and no file          *)
(* operation fails, the file gives back the messages of the session that   *)
(* can be read again, and no others, whenever no use is in progress: a     *)
(* restart loses those that cannot, and the message it interrupts.         *)
FileMatchesSession ==
  ~overlapped /\ faults = 0 /\ (\A c \in Chats : pc[c] \notin Using) =>
    Stored = Messages(session)

(* A chat never asks the model with nothing.                               *)
PromptNotEmpty ==
  \A c \in Chats : pc[c] = "ask" /\ role[c] = "user" => prompt[c] # <<>>
=============================================================================
