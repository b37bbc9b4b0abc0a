--------------------------- MODULE GatewayProofs ---------------------------
(***************************************************************************)
(* The gateway and the governor: what the runs of MCGateway check on small *)
(* instances, for any finite sets of goroutines and any limits.            *)
(*                                                                         *)
(* The modules share no state, so a behavior of all of them is one of      *)
(* each.  First come chats, the firewall, the token buckets and the chain  *)
(* of a request, each with an inductive invariant of its own; then all of  *)
(* them together, with the theorems of SovereigntyProofs.                  *)
(***************************************************************************)
EXTENDS MCGateway, FiniteSetTheorems, SequenceTheorems, WellFoundedInduction, TLAPS

-----------------------------------------------------------------------------
(* Numbers and lists of times *)

LEMMA LessIsWellFounded == IsWellFoundedOn({ss \in Nat \X Nat : ss[1] < ss[2]}, Nat)
<1>1. IsWellFoundedOn(OpToRel(<, Nat), Nat)
  BY NatLessThanWellFounded
<1>2. OpToRel(<, Nat) = {ss \in Nat \X Nat : ss[1] < ss[2]}
  BY DEF OpToRel
<1> QED
  BY <1>1, <1>2, Zenon

(* What holds of some number holds of a least one.                         *)
LEMMA LeastNumber ==
  ASSUME NEW T, T \subseteq Nat, T # {}
  PROVE  \E n \in T : \A m \in T : n <= m
<1> DEFINE less == {ss \in Nat \X Nat : ss[1] < ss[2]}
<1>1. \E n \in T : \A m \in T : ~(<<m, n>> \in less)
  <2> HIDE DEF less
  <2>1. IsWellFoundedOn(less, Nat)
    BY LessIsWellFounded DEF less
  <2> QED
    BY <2>1, WFMin
<1>2. PICK n \in T : \A m \in T : ~(<<m, n>> \in less)
  BY <1>1
<1>3. \A m \in T : ~(m < n)
  <2> TAKE m \in T
  <2>1. m \in Nat /\ n \in Nat /\ <<m, n>> \in Nat \X Nat /\ ~(<<m, n>> \in less)
    BY <1>2
  <2> QED
    BY <2>1
<1> QED
  BY <1>3

Sorted(l) == \A i, j \in 1..Len(l) : i <= j => l[i] <= l[j]

(* In a sorted list what is over comes first.                              *)
LEMMA SinceIsSuffix ==
  ASSUME NEW times \in Seq(Nat), Sorted(times), NEW span \in Nat, NEW time \in Nat
  PROVE  \E m \in 0..Len(times) :
           /\ Since(times, span, time) = SubSeq(times, m + 1, Len(times))
           /\ \A i \in 1..m : times[i] + span <= time
<1> DEFINE n == Len(times)
           over == {i \in 1..n : times[i] + span <= time}
           T == {k \in Nat : k >= n \/ times[k + 1] + span > time}
<1>1. n \in Nat /\ DOMAIN times = 1..n
  OBVIOUS
<1>2. n \in T /\ T \subseteq Nat
  BY <1>1
<1>3. \E m \in T : \A k \in T : m <= k
  <2> HIDE DEF T
  <2> QED
    BY <1>2, LeastNumber
<1>4. PICK m \in T : \A k \in T : m <= k
  BY <1>3
<1>5. m \in Nat /\ m <= n /\ (m >= n \/ times[m + 1] + span > time)
  BY <1>2, <1>4
<1>6. \A i \in 1..m : times[i] + span <= time
  <2> SUFFICES ASSUME NEW i \in 1..m, ~(times[i] + span <= time) PROVE FALSE
    OBVIOUS
  <2>1. i - 1 \in Nat /\ i - 1 < m /\ (i - 1) + 1 = i /\ times[i] \in Nat
    BY <1>5, ElementOfSeq
  <2>2. i - 1 \notin T
    <3> HIDE DEF T
    <3> QED
      BY <1>4, <1>5, <2>1
  <2> QED
    BY <1>1, <1>5, <2>1, <2>2
<1>7. over = 1..m
  <2>1. ASSUME NEW i \in 1..n, times[i] + span <= time, ~(i <= m) PROVE FALSE
    <3>1. m + 1 \in 1..n /\ m + 1 <= i /\ times[m + 1] + span > time
      BY <1>5, <2>1
    <3>2. times[m + 1] <= times[i] /\ times[m + 1] \in Nat /\ times[i] \in Nat
      BY <3>1, ElementOfSeq DEF Sorted
    <3> QED
      BY <2>1, <3>1, <3>2
  <2> QED
    BY <1>5, <1>6, <2>1
<1>8. Cardinality(over) = m
  <2>1. Cardinality(1..m) = m
    BY <1>5, FS_Interval
  <2> QED
    BY <1>7, <2>1
<1>9. Since(times, span, time) = SubSeq(times, m + 1, n)
  BY <1>1, <1>8 DEF Since
<1> QED
  BY <1>5, <1>6, <1>9

-----------------------------------------------------------------------------
(* The windows of quota and policy *)

(* A list of the times at which something was let pass, and the end of it  *)
(* that is kept: what is not kept is over.                                 *)
Window(passes, kept, span, time, limit) ==
  /\ Len(kept) <= Len(passes)
  /\ Sorted(passes)
  /\ \A i \in 1..Len(passes) : passes[i] <= time
  /\ \A i \in 1..Len(kept) : kept[i] = passes[Len(passes) - Len(kept) + i]
  /\ \A i \in 1..(Len(passes) - Len(kept)) : passes[i] + span <= time
  /\ \A i, j \in 1..Len(passes) : j - i >= limit => passes[j] >= passes[i] + span

LEMMA WindowLater ==
  ASSUME NEW passes \in Seq(Nat), NEW kept \in Seq(Nat), NEW span \in Nat, NEW limit \in Nat,
         NEW time \in Nat, NEW later \in Nat, time <= later,
         Window(passes, kept, span, time, limit)
  PROVE  Window(passes, kept, span, later, limit)
<1>1. \A i \in 1..Len(passes) : passes[i] \in Nat /\ passes[i] <= later
  BY ElementOfSeq DEF Window
<1>2. \A i \in 1..(Len(passes) - Len(kept)) : passes[i] + span <= later
  <2> TAKE i \in 1..(Len(passes) - Len(kept))
  <2>1. passes[i] \in Nat /\ passes[i] + span <= time
    BY <1>1 DEF Window
  <2> QED
    BY <2>1
<1> QED
  BY <1>1, <1>2 DEF Window

(* What is kept, less what is over, is still the end of what was let pass. *)
LEMMA KeptIsSuffix ==
  ASSUME NEW passes \in Seq(Nat), NEW kept \in Seq(Nat), NEW span \in Nat, NEW limit \in Nat,
         NEW time \in Nat, Window(passes, kept, span, time, limit)
  PROVE  /\ Since(kept, span, time) \in Seq(Nat)
         /\ Window(passes, Since(kept, span, time), span, time, limit)
<1>1. PICK n \in Nat, k \in Nat : n = Len(passes) /\ k = Len(kept)
  OBVIOUS
<1>2. /\ k <= n /\ \A i \in 1..n : passes[i] \in Nat /\ passes[i] <= time
      /\ \A i \in 1..k : kept[i] = passes[n - k + i]
  BY <1>1, ElementOfSeq DEF Window
<1>3. Sorted(kept)
  <2> SUFFICES ASSUME NEW i \in 1..k, NEW j \in 1..k, i <= j
               PROVE  kept[i] <= kept[j]
    BY <1>1 DEF Sorted
  <2>1. n - k + i \in 1..n /\ n - k + j \in 1..n /\ n - k + i <= n - k + j
    BY <1>2
  <2> QED
    BY <1>1, <1>2, <2>1 DEF Window, Sorted
<1>4. PICK m \in 0..k :
        /\ Since(kept, span, time) = SubSeq(kept, m + 1, k)
        /\ \A i \in 1..m : kept[i] + span <= time
  BY <1>1, <1>3, SinceIsSuffix
<1>5. PICK r : r = Since(kept, span, time)
  OBVIOUS
<1>6. r \in Seq(Nat) /\ Len(r) = k - m /\ \A i \in 1..(k - m) : r[i] = kept[m + i]
  <2>1. \A i \in (m + 1)..k : kept[i] \in Nat
    BY <1>1, ElementOfSeq
  <2>2. /\ r \in Seq(Nat) /\ Len(r) = IF m + 1 <= k THEN k - (m + 1) + 1 ELSE 0
        /\ \A i \in 1..(k - (m + 1) + 1) : r[i] = kept[(m + 1) + i - 1]
    BY <1>4, <1>5, <2>1, SubSeqProperties
  <2>3. \A i \in 1..(k - m) : i \in 1..(k - (m + 1) + 1) /\ (m + 1) + i - 1 = m + i
    OBVIOUS
  <2>4. \A i \in 1..(k - m) : r[i] = kept[m + i]
    <3> TAKE i \in 1..(k - m)
    <3>1. i \in 1..(k - (m + 1) + 1) /\ (m + 1) + i - 1 = m + i
      BY <2>3
    <3>2. r[i] = kept[(m + 1) + i - 1]
      BY <2>2, <3>1
    <3> QED
      BY <3>1, <3>2
  <2>5. Len(r) = k - m
    BY <2>2
  <2> QED
    BY <2>2, <2>4, <2>5
<1>7. \A i \in 1..(k - m) : r[i] = passes[n - (k - m) + i]
  <2> TAKE i \in 1..(k - m)
  <2>1. m + i \in 1..k /\ n - k + (m + i) = n - (k - m) + i
    BY <1>2
  <2> QED
    BY <1>2, <1>6, <2>1
<1>8. \A i \in 1..(n - (k - m)) : passes[i] + span <= time
  <2> TAKE i \in 1..(n - (k - m))
  <2>1. CASE i <= n - k
    BY <1>1, <1>2, <2>1 DEF Window
  <2>2. CASE i > n - k
    <3>1. PICK d \in Nat : d = i - (n - k)
      BY <1>2, <2>2
    <3>2. d \in 1..m /\ d \in 1..k /\ n - k + d = i
      BY <1>2, <2>2, <3>1
    <3> QED
      BY <1>2, <1>4, <3>2
  <2> QED
    BY <1>2, <2>1, <2>2
<1>9. k - m \in Nat /\ k - m <= n
  BY <1>2
<1> QED
  BY <1>1, <1>5, <1>6, <1>7, <1>8, <1>9 DEF Window

(* One more is let pass when fewer than the limit are kept.                *)
LEMMA WindowGrows ==
  ASSUME NEW passes \in Seq(Nat), NEW kept \in Seq(Nat), NEW span \in Nat, NEW limit \in Nat,
         NEW time \in Nat, Window(passes, kept, span, time, limit), Len(kept) < limit
  PROVE  Window(Append(passes, time), Append(kept, time), span, time, limit)
<1>1. PICK n \in Nat, k \in Nat : n = Len(passes) /\ k = Len(kept)
  OBVIOUS
<1>2. /\ k <= n /\ k < limit
      /\ \A i \in 1..n : passes[i] \in Nat /\ passes[i] <= time
      /\ \A i \in 1..k : kept[i] = passes[n - k + i]
      /\ \A i \in 1..(n - k) : passes[i] + span <= time
      /\ \A i, j \in 1..n : i <= j => passes[i] <= passes[j]
      /\ \A i, j \in 1..n : j - i >= limit => passes[j] >= passes[i] + span
  BY <1>1, ElementOfSeq DEF Window, Sorted
<1>3. PICK longer \in Seq(Nat) : longer = Append(passes, time)
  BY AppendProperties
<1>4. PICK keeps \in Seq(Nat) : keeps = Append(kept, time)
  BY AppendProperties
<1>5. /\ Len(longer) = n + 1 /\ longer[n + 1] = time
      /\ \A i \in 1..n : longer[i] = passes[i]
  BY <1>1, <1>3, AppendProperties
<1>6. /\ Len(keeps) = k + 1 /\ keeps[k + 1] = time
      /\ \A i \in 1..k : keeps[i] = kept[i]
  BY <1>1, <1>4, AppendProperties
<1>7. \A i, j \in 1..(n + 1) : i <= j => longer[i] <= longer[j]
  <2> SUFFICES ASSUME NEW i \in 1..(n + 1), NEW j \in 1..(n + 1), i <= j
               PROVE  longer[i] <= longer[j]
    OBVIOUS
  <2>1. CASE j \in 1..n
    BY <1>2, <1>5, <2>1
  <2>2. CASE j = n + 1
    BY <1>2, <1>5, <2>2
  <2> QED
    BY <2>1, <2>2
<1>8. \A i \in 1..(n + 1) : longer[i] <= time
  <2> TAKE i \in 1..(n + 1)
  <2>1. CASE i \in 1..n
    <3>1. longer[i] = passes[i] /\ passes[i] <= time
      BY <1>2, <1>5, <2>1
    <3> QED
      BY <3>1
  <2>2. CASE i = n + 1
    BY <1>5, <2>2
  <2>3. i \in 1..n \/ i = n + 1
    OBVIOUS
  <2> QED
    BY <2>1, <2>2, <2>3
<1>9. \A i \in 1..(k + 1) : keeps[i] = longer[(n + 1) - (k + 1) + i]
  <2> TAKE i \in 1..(k + 1)
  <2>1. CASE i \in 1..k
    <3>1. n - k + i \in 1..n /\ (n + 1) - (k + 1) + i = n - k + i
      BY <1>2, <2>1
    <3> QED
      BY <1>2, <1>5, <1>6, <2>1, <3>1
  <2>2. CASE i = k + 1
    <3>1. (n + 1) - (k + 1) + i = n + 1
      BY <2>2
    <3> QED
      BY <1>5, <1>6, <2>2, <3>1
  <2>3. i \in 1..k \/ i = k + 1
    OBVIOUS
  <2> QED
    BY <2>1, <2>2, <2>3
<1>10. \A i \in 1..((n + 1) - (k + 1)) : longer[i] + span <= time
  <2>1. (n + 1) - (k + 1) = n - k /\ \A i \in 1..(n - k) : i \in 1..n
    BY <1>2
  <2> QED
    BY <1>2, <1>5, <2>1
<1>11. \A i, j \in 1..(n + 1) : j - i >= limit => longer[j] >= longer[i] + span
  <2> SUFFICES ASSUME NEW i \in 1..(n + 1), NEW j \in 1..(n + 1), j - i >= limit
               PROVE  longer[j] >= longer[i] + span
    OBVIOUS
  <2>1. CASE j \in 1..n
    <3>1. i \in 1..n
      BY <2>1
    <3> QED
      BY <1>2, <1>5, <2>1, <3>1
  <2>2. CASE j = n + 1
    <3>1. i \in 1..(n - k) /\ i \in 1..n
      BY <1>2, <2>2
    <3> QED
      BY <1>2, <1>5, <2>2, <3>1
  <2> QED
    BY <2>1, <2>2
<1>12. k + 1 <= n + 1
  BY <1>2
<1> QED
  BY <1>3, <1>4, <1>5, <1>6, <1>7, <1>8, <1>9, <1>10, <1>11, <1>12 DEF Window, Sorted

-----------------------------------------------------------------------------
(* Chats *)

Places == {"idle", "policy", "body", "stream", "release"}
ChatRecords == [at : Places, written : Nat, records : Nat]
Taken == {c \in Chatters : InProgress(c)}

Types == chat \in [Chatters -> ChatRecords] /\ userActive \in Nat

(* A chat that is not about to release its place has recorded nothing.     *)
RecordedLast ==
  \A c \in Chatters :
    /\ chat[c].records <= 1
    /\ chat[c].at # "release" => chat[c].records = 0

PlacesCounted == userActive = Cardinality(Taken) /\ userActive <= PerUserConcurrency

ChatInv == Types /\ RecordedLast /\ PlacesCounted

-----------------------------------------------------------------------------
LEMMA NoChatFacts == NoChat \in ChatRecords /\ NoChat.at = "idle" /\ NoChat.records = 0
BY DEF NoChat, ChatRecords, Places

LEMMA ChatInvInit ==
  ASSUME Init
  PROVE  ChatInv
<1>1. Types /\ RecordedLast
  BY NoChatFacts DEF Init, Types, RecordedLast
<1>2. Taken = {}
  BY NoChatFacts DEF Init, Taken, InProgress
<1>3. PlacesCounted
  BY <1>2, FS_EmptySet, GatewayAssumption DEF Init, PlacesCounted
<1>4. QED
  BY <1>1, <1>3 DEF ChatInv

(* One chat changes, and the others stay where they are. *)
LEMMA OneChat ==
  ASSUME ChatInv, NEW c \in Chatters, chat' \in [Chatters -> ChatRecords],
         \A d \in Chatters : d # c => chat'[d] = chat[d],
         chat'[c].records <= 1, chat'[c].at # "release" => chat'[c].records = 0
  PROVE  /\ RecordedLast'
         /\ Taken' = IF chat'[c].at = "idle" THEN Taken \ {c} ELSE Taken \cup {c}
<1>1. RecordedLast'
  BY DEF ChatInv, RecordedLast
<1>2. Taken' = IF chat'[c].at = "idle" THEN Taken \ {c} ELSE Taken \cup {c}
  BY DEF Taken, InProgress
<1>3. QED
  BY <1>1, <1>2

(* What the two ways to move on do to the chat that moves. *)
LEMMA GotoFacts ==
  ASSUME Types, NEW c \in Chatters, NEW at \in Places, Goto(c, at)
  PROVE  /\ chat' \in [Chatters -> ChatRecords]
         /\ chat'[c].at = at /\ chat'[c].records = chat[c].records
         /\ \A d \in Chatters : d # c => chat'[d] = chat[d]
BY DEF Types, Goto, ChatRecords

LEMMA RecordFacts ==
  ASSUME Types, NEW c \in Chatters, RecordAndRelease(c)
  PROVE  /\ chat' \in [Chatters -> ChatRecords]
         /\ chat'[c].at = "release" /\ chat'[c].records = chat[c].records + 1
         /\ \A d \in Chatters : d # c => chat'[d] = chat[d]
BY DEF Types, RecordAndRelease, ChatRecords, Places

(* A chat in progress that stays in progress keeps its place. *)
LEMMA MovesOn ==
  ASSUME ChatInv, NEW c \in Chatters, chat[c].at # "idle", chat'[c].at # "idle",
         chat' \in [Chatters -> ChatRecords],
         \A d \in Chatters : d # c => chat'[d] = chat[d],
         chat'[c].records <= 1, chat'[c].at # "release" => chat'[c].records = 0,
         userActive' = userActive
  PROVE  ChatInv'
<1>1. c \in Taken
  BY DEF Taken, InProgress
<1>2. RecordedLast' /\ Taken' = Taken \cup {c}
  BY OneChat
<1>3. Taken' = Taken
  BY <1>1, <1>2
<1>4. Types' /\ PlacesCounted'
  BY <1>3 DEF ChatInv, Types, PlacesCounted
<1>5. QED
  BY <1>2, <1>4 DEF ChatInv

LEMMA GotoInv ==
  ASSUME ChatInv, NEW c \in Chatters, chat[c].at \in {"policy", "body", "stream"},
         NEW at \in {"policy", "body", "stream", "release"}, Goto(c, at),
         userActive' = userActive
  PROVE  ChatInv'
<1>1. Types /\ at \in Places /\ chat[c].records = 0
  BY DEF ChatInv, RecordedLast, Places
<1>2. QED
  BY <1>1, GotoFacts, MovesOn

LEMMA RecordInv ==
  ASSUME ChatInv, NEW c \in Chatters, chat[c].at \in {"policy", "body", "stream"},
         RecordAndRelease(c), userActive' = userActive
  PROVE  ChatInv'
<1>1. Types /\ chat[c].records = 0
  BY DEF ChatInv, RecordedLast
<1>2. QED
  BY <1>1, RecordFacts, MovesOn

LEMMA ChunkInv ==
  ASSUME ChatInv, NEW c \in Chatters, Chunk(c)
  PROVE  ChatInv'
<1>1. /\ chat[c].at = "stream" /\ chat[c].records = 0 /\ userActive' = userActive
      /\ chat' = [chat EXCEPT ![c].written = @ + 1] /\ Types
  BY DEF ChatInv, RecordedLast, Chunk, UnchangedLimits
<1>2. /\ chat' \in [Chatters -> ChatRecords]
      /\ chat'[c].at = "stream" /\ chat'[c].records = 0
      /\ \A d \in Chatters : d # c => chat'[d] = chat[d]
  BY <1>1 DEF Types, ChatRecords
<1>3. QED
  BY <1>1, <1>2, MovesOn

LEMMA AllowInv ==
  ASSUME ChatInv, NEW c \in Chatters, Allow(c)
  PROVE  ChatInv'
<1>1. /\ chat[c].at = "idle" /\ chat[c].records = 0 /\ Goto(c, "policy")
      /\ userActive < PerUserConcurrency /\ userActive' = userActive + 1
      /\ userActive \in Nat /\ userActive = Cardinality(Taken) /\ Types
  BY DEF ChatInv, Types, RecordedLast, PlacesCounted, Allow
<1>2. /\ chat' \in [Chatters -> ChatRecords]
      /\ chat'[c].at = "policy" /\ chat'[c].records = 0
      /\ \A d \in Chatters : d # c => chat'[d] = chat[d]
  BY <1>1, GotoFacts DEF Places
<1>3. RecordedLast' /\ Taken' = Taken \cup {c}
  BY <1>2, OneChat
<1>4. IsFiniteSet(Taken) /\ c \notin Taken
  BY <1>1, FS_Subset, GatewayAssumption DEF Taken, InProgress
<1>5. Cardinality(Taken') = Cardinality(Taken) + 1
  BY <1>3, <1>4, FS_AddElement
<1>6. Types' /\ PlacesCounted'
  BY <1>1, <1>2, <1>5, GatewayAssumption DEF Types, PlacesCounted
<1>7. QED
  BY <1>3, <1>6 DEF ChatInv

LEMMA ReleaseInv ==
  ASSUME ChatInv, NEW c \in Chatters, Release(c)
  PROVE  ChatInv'
<1>1. /\ chat[c].at = "release" /\ chat' = [chat EXCEPT ![c] = NoChat]
      /\ userActive' = IF userActive > 0 THEN userActive - 1 ELSE userActive
      /\ userActive \in Nat /\ userActive = Cardinality(Taken)
      /\ userActive <= PerUserConcurrency /\ Types
  BY DEF ChatInv, Types, PlacesCounted, Release
<1>2. /\ chat' \in [Chatters -> ChatRecords]
      /\ chat'[c].at = "idle" /\ chat'[c].records = 0
      /\ \A d \in Chatters : d # c => chat'[d] = chat[d]
  BY <1>1, NoChatFacts DEF Types
<1>3. RecordedLast' /\ Taken' = Taken \ {c}
  BY <1>2, OneChat
<1>4. IsFiniteSet(Taken) /\ c \in Taken
  BY <1>1, FS_Subset, GatewayAssumption DEF Taken, InProgress
<1>5. Cardinality(Taken') = Cardinality(Taken) - 1
  BY <1>3, <1>4, FS_RemoveElement
<1>6. Cardinality(Taken) # 0
  BY <1>4, FS_EmptySet
<1>7. userActive' = Cardinality(Taken') /\ userActive' \in Nat
      /\ userActive' <= PerUserConcurrency
  BY <1>1, <1>5, <1>6, GatewayAssumption
<1>8. Types' /\ PlacesCounted'
  BY <1>2, <1>7 DEF Types, PlacesCounted
<1>9. QED
  BY <1>3, <1>8 DEF ChatInv

LEMMA ChatInvNext ==
  ASSUME ChatInv, [Next]_vars
  PROVE  ChatInv'
<1>1. ASSUME UNCHANGED <<userActive, chat>> PROVE ChatInv'
  BY <1>1 DEF ChatInv, Types, RecordedLast, PlacesCounted, Taken, InProgress
<1>2. ASSUME NEW c \in Chatters, Enforce(c) PROVE ChatInv'
  <2>1. chat[c].at = "policy" /\ userActive' = userActive
        /\ (Goto(c, "body") \/ RecordAndRelease(c))
    BY <1>2 DEF Enforce
  <2>2. QED
    BY <2>1, GotoInv, RecordInv
<1>3. ASSUME NEW c \in Chatters, BadBody(c) \/ BeginStream(c) \/ PanicInChat(c) PROVE ChatInv'
  <2>1. /\ chat[c].at \in {"body", "stream"} /\ userActive' = userActive
        /\ (Goto(c, "release") \/ Goto(c, "stream"))
    BY <1>3 DEF BadBody, BeginStream, PanicInChat, UnchangedLimits
  <2>2. QED
    BY <2>1, GotoInv
<1>4. ASSUME NEW c \in Chatters, Answer(c) \/ EndStream(c) PROVE ChatInv'
  <2>1. /\ chat[c].at \in {"body", "stream"} /\ userActive' = userActive
        /\ RecordAndRelease(c)
    BY <1>4 DEF Answer, EndStream, UnchangedLimits
  <2>2. QED
    BY <2>1, RecordInv
<1>5. CASE Tick \/ UNCHANGED vars
  BY <1>1, <1>5 DEF Tick, vars
<1>6. QED
  BY <1>2, <1>3, <1>4, <1>5, AllowInv, ChunkInv, ReleaseInv DEF Next

LEMMA ChatsCounted == ChatInv => PlacesTaken
BY DEF ChatInv, RecordedLast, PlacesCounted, PlacesTaken, Taken

(* A second of the clock is a number, and the clock never goes back.       *)
LEMMA ClockIsNat ==
  ASSUME NEW s \in Nat \ {0}, NEW t \in Nat
  PROVE  t \div s \in Nat
OBVIOUS

LEMMA ClockGoesOn ==
  ASSUME NEW s \in Nat \ {0}, NEW t \in Nat, NEW u \in Nat, t <= u
  PROVE  t \div s <= u \div s
OBVIOUS

WindowsInv ==
  /\ now \in Nat
  /\ allowed \in Seq(Nat) /\ skillTimes \in Seq(Nat)
  /\ enforced \in Seq(Nat) /\ qpsHits \in Seq(Nat)
  /\ Window(allowed, skillTimes, Second, now, PerSkillQPS)
  /\ Window(enforced, qpsHits, 1, Clock, MaxQPS)

LEMMA NoPasses ==
  ASSUME NEW span \in Nat, NEW limit \in Nat, NEW time \in Nat
  PROVE  Window(<<>>, <<>>, span, time, limit)
BY DEF Window, Sorted

LEMMA SecondIsNat == Second \in Nat \ {0}
BY GatewayAssumption DEF Rate!Parameters

LEMMA WindowsInvInit == Init => WindowsInv
<1> SUFFICES ASSUME Init PROVE WindowsInv
  OBVIOUS
<1>1. now = 0 /\ allowed = <<>> /\ skillTimes = <<>> /\ enforced = <<>> /\ qpsHits = <<>>
  BY DEF Init
<1>2. Clock \in Nat
  BY <1>1, SecondIsNat, ClockIsNat DEF Clock
<1>3. /\ Window(allowed, skillTimes, Second, now, PerSkillQPS)
      /\ Window(enforced, qpsHits, 1, Clock, MaxQPS)
  BY <1>1, <1>2, SecondIsNat, GatewayAssumption, NoPasses
<1> QED
  BY <1>1, <1>3 DEF WindowsInv

LEMMA WindowsInvNext == WindowsInv /\ [Next]_vars => WindowsInv'
<1> SUFFICES ASSUME WindowsInv, [Next]_vars PROVE WindowsInv'
  OBVIOUS
<1>1. /\ now \in Nat /\ Clock \in Nat
      /\ allowed \in Seq(Nat) /\ skillTimes \in Seq(Nat)
      /\ enforced \in Seq(Nat) /\ qpsHits \in Seq(Nat)
      /\ Window(allowed, skillTimes, Second, now, PerSkillQPS)
      /\ Window(enforced, qpsHits, 1, Clock, MaxQPS)
      /\ PerSkillQPS \in Nat /\ MaxQPS \in Nat /\ Second \in Nat
  BY SecondIsNat, ClockIsNat, GatewayAssumption DEF WindowsInv, Clock
<1>2. ASSUME UNCHANGED <<now, allowed, skillTimes, enforced, qpsHits>> PROVE WindowsInv'
  BY <1>2 DEF WindowsInv, Clock
<1>3. ASSUME NEW c \in Chatters, Allow(c) PROVE WindowsInv'
  <2>1. /\ Len(Recent(skillTimes)) < PerSkillQPS
        /\ skillTimes' = Append(Recent(skillTimes), now) /\ allowed' = Append(allowed, now)
        /\ UNCHANGED <<now, enforced, qpsHits>>
    BY <1>3 DEF Allow
  <2>2. /\ Recent(skillTimes) \in Seq(Nat)
        /\ Window(allowed, Recent(skillTimes), Second, now, PerSkillQPS)
    BY <1>1, KeptIsSuffix DEF Recent
  <2>3. Window(allowed', skillTimes', Second, now, PerSkillQPS)
    BY <1>1, <2>1, <2>2, WindowGrows
  <2>4. allowed' \in Seq(Nat) /\ skillTimes' \in Seq(Nat)
    BY <1>1, <2>1, <2>2, AppendProperties
  <2> QED
    BY <1>1, <2>1, <2>3, <2>4 DEF WindowsInv, Clock
<1>4. ASSUME NEW c \in Chatters, Enforce(c) PROVE WindowsInv'
  <2>1. CASE UNCHANGED <<qpsHits, enforced>>
    BY <1>2, <1>4, <2>1 DEF Enforce
  <2>2. CASE /\ Len(RecentHits) < MaxQPS
             /\ qpsHits' = Append(RecentHits, Clock) /\ enforced' = Append(enforced, Clock)
    <3>1. UNCHANGED <<now, allowed, skillTimes>>
      BY <1>4 DEF Enforce
    <3>2. RecentHits \in Seq(Nat) /\ Window(enforced, RecentHits, 1, Clock, MaxQPS)
      BY <1>1, KeptIsSuffix DEF RecentHits
    <3>3. Window(enforced', qpsHits', 1, Clock, MaxQPS)
      BY <1>1, <2>2, <3>2, WindowGrows
    <3>4. enforced' \in Seq(Nat) /\ qpsHits' \in Seq(Nat)
      BY <1>1, <2>2, <3>2, AppendProperties
    <3> QED
      BY <1>1, <3>1, <3>3, <3>4 DEF WindowsInv, Clock
  <2> QED
    BY <1>4, <2>1, <2>2 DEF Enforce
<1>5. CASE Tick
  <2>1. now' = now + 1 /\ UNCHANGED <<allowed, skillTimes, enforced, qpsHits>>
    BY <1>5 DEF Tick
  <2>2. now' \in Nat /\ now <= now' /\ Clock' \in Nat /\ Clock <= Clock'
    <3>1. now \in Nat /\ now' \in Nat /\ now <= now'
      BY <1>1, <2>1
    <3>2. now' \div Second \in Nat
      BY <3>1, SecondIsNat, ClockIsNat
    <3>3. now \div Second <= now' \div Second
      BY <3>1, SecondIsNat, ClockGoesOn
    <3> QED
      BY <3>1, <3>2, <3>3 DEF Clock
  <2>3. /\ Window(allowed, skillTimes, Second, now', PerSkillQPS)
        /\ Window(enforced, qpsHits, 1, Clock', MaxQPS)
    BY <1>1, <2>2, WindowLater
  <2> QED
    BY <1>1, <2>1, <2>2, <2>3 DEF WindowsInv
<1>6. ASSUME NEW c \in Chatters, ~Allow(c), ~Enforce(c), ~Tick,
             \/ BadBody(c) \/ Answer(c) \/ BeginStream(c) \/ Chunk(c) \/ EndStream(c)
             \/ PanicInChat(c) \/ Release(c)
      PROVE  WindowsInv'
  BY <1>2, <1>6 DEF BadBody, Answer, BeginStream, Chunk, EndStream, PanicInChat, Release,
     UnchangedLimits
<1>7. CASE UNCHANGED vars
  BY <1>2, <1>7 DEF vars
<1> QED
  BY <1>3, <1>4, <1>5, <1>6, <1>7 DEF Next

LEMMA WindowsCounted == WindowsInv => WindowsKept
<1> SUFFICES ASSUME WindowsInv PROVE WindowsKept
  OBVIOUS
<1>1. Second \in Nat /\ DOMAIN allowed = 1..Len(allowed) /\ DOMAIN enforced = 1..Len(enforced)
  BY SecondIsNat DEF WindowsInv
<1>2. ASSUME NEW i \in 1..Len(allowed), NEW j \in 1..Len(allowed), j - i >= PerSkillQPS
      PROVE  allowed[j] - allowed[i] >= Second
  <2>1. allowed[j] \in Nat /\ allowed[i] \in Nat
    BY ElementOfSeq DEF WindowsInv
  <2>2. allowed[j] >= allowed[i] + Second
    BY <1>2 DEF WindowsInv, Window
  <2> QED
    BY <1>1, <2>1, <2>2
<1>3. ASSUME NEW i \in 1..Len(enforced), NEW j \in 1..Len(enforced), j - i >= MaxQPS
      PROVE  enforced[j] > enforced[i]
  <2>1. enforced[j] \in Nat /\ enforced[i] \in Nat
    BY ElementOfSeq DEF WindowsInv
  <2>2. enforced[j] >= enforced[i] + 1
    BY <1>3 DEF WindowsInv, Window
  <2> QED
    BY <2>1, <2>2
<1> QED
  BY <1>1, <1>2, <1>3 DEF WindowsKept

-----------------------------------------------------------------------------
(* The firewall *)

(* Of the requests p of one address that went on: those of its window w    *)
(* began a second ago at most, and as many as the window counts, up to the *)
(* limit, came last; those before it came before the window began, and     *)
(* those before the one before it more than a second before.  A window     *)
(* that is forgotten begins, for this, now.                                *)
Begun(w, time) == IF w.count = 0 THEN time ELSE w.at
LetThrough(w) == IF w.count <= MaxRequestsPerIP THEN w.count ELSE MaxRequestsPerIP

Behind(p, k, start) ==
  /\ \A i \in 1..Len(p) : Len(p) - i >= k => p[i] < start
  /\ \A i \in 1..Len(p) : Len(p) - i >= k + MaxRequestsPerIP => p[i] + Second < start

SpacedOut(p) ==
  \A i, j \in 1..Len(p) : j - i >= 2 * MaxRequestsPerIP => p[j] > p[i] + Second

Walled(w, p, time) ==
  /\ w.at <= time
  /\ w.count = 0 => w = Wall!NoWindow
  /\ Behind(p, LetThrough(w), Begun(w, time))
  /\ w.count # 0 => \A i \in 1..Len(p) : p[i] <= w.at + Second
  /\ \A i \in 1..Len(p) : p[i] <= time
  /\ SpacedOut(p)

Windows == [count : Nat, at : Nat]

LEMMA LimitsAreNat == Second \in Nat /\ MaxRequestsPerIP \in Nat
BY GatewayAssumption DEF Rate!Parameters

(* A window that is over, or none, can be forgotten, and may start again.  *)
LEMMA Over ==
  ASSUME NEW w \in Windows, NEW p \in Seq(Nat), NEW time \in Nat, Walled(w, p, time),
         w.count = 0 \/ time - w.at > Second
  PROVE  Behind(p, 0, time)
<1>1. PICK n \in Nat, k \in Nat : n = Len(p) /\ k = LetThrough(w)
  BY LimitsAreNat DEF LetThrough, Windows
<1>2. /\ w.count \in Nat /\ w.at \in Nat /\ Second \in Nat /\ MaxRequestsPerIP \in Nat
      /\ k <= MaxRequestsPerIP
      /\ \A i \in 1..n : p[i] \in Nat
  BY <1>1, LimitsAreNat, ElementOfSeq DEF LetThrough, Windows
<1>3. CASE w.count = 0
  BY <1>1, <1>2, <1>3 DEF Walled, LetThrough, Begun
<1>4. CASE w.count # 0 /\ time - w.at > Second
  <2>1. \A i \in 1..n : p[i] < time
    BY <1>1, <1>2, <1>4 DEF Walled
  <2>2. ASSUME NEW i \in 1..n, n - i >= MaxRequestsPerIP PROVE p[i] + Second < time
    <3>1. n - i >= k
      BY <1>2, <2>2
    <3>2. p[i] < w.at
      BY <1>1, <1>4, <3>1 DEF Walled, Behind, Begun
    <3> QED
      BY <1>2, <1>4, <3>2
  <2> QED
    BY <1>1, <1>2, <2>1, <2>2 DEF Behind
<1> QED
  BY <1>3, <1>4

LEMMA Forgotten ==
  ASSUME NEW w \in Windows, NEW p \in Seq(Nat), NEW time \in Nat, Walled(w, p, time),
         time - w.at > Second
  PROVE  Wall!NoWindow \in Windows /\ Walled(Wall!NoWindow, p, time)
<1>1. Behind(p, 0, time)
  BY Over
<1>2. Wall!NoWindow.count = 0 /\ Wall!NoWindow.at = 0 /\ Wall!NoWindow \in Windows
  BY DEF Wall!NoWindow, Windows
<1> QED
  BY <1>1, <1>2, LimitsAreNat DEF Walled, LetThrough, Begun

LEMMA WalledLater ==
  ASSUME NEW w \in Windows, NEW p \in Seq(Nat), NEW time \in Nat, Walled(w, p, time)
  PROVE  Walled(w, p, time + 1)
<1>1. PICK b \in Nat, c \in Nat : b = Begun(w, time) /\ c = Begun(w, time + 1) /\ b <= c
  BY DEF Begun, Windows
<1>2. \A i \in 1..Len(p) : p[i] \in Nat
  BY ElementOfSeq
<1>3. Behind(p, LetThrough(w), b)
  BY <1>1 DEF Walled
<1>4. \A i \in 1..Len(p) : Len(p) - i >= LetThrough(w) => p[i] < c
  BY <1>1, <1>2, <1>3 DEF Behind
<1>5. \A i \in 1..Len(p) : Len(p) - i >= LetThrough(w) + MaxRequestsPerIP => p[i] + Second < c
  BY <1>1, <1>2, <1>3, LimitsAreNat DEF Behind
<1>6. Behind(p, LetThrough(w), Begun(w, time + 1))
  BY <1>1, <1>4, <1>5 DEF Behind
<1> QED
  BY <1>2, <1>6 DEF Walled, Windows

(* One more request goes on in a window that has let less than the limit   *)
(* through: k of it are the last, start is when it began.                  *)
LEMMA OneMorePasses ==
  ASSUME NEW p \in Seq(Nat), NEW k \in Nat, NEW start \in Nat, NEW time \in Nat,
         k < MaxRequestsPerIP, start <= time, Behind(p, k, start), SpacedOut(p)
  PROVE  Behind(Append(p, time), k + 1, start) /\ SpacedOut(Append(p, time))
<1>1. PICK n \in Nat, q \in Seq(Nat), limit \in Nat, span \in Nat :
        n = Len(p) /\ q = Append(p, time) /\ limit = MaxRequestsPerIP /\ span = Second
  <2>1. Append(p, time) \in Seq(Nat) /\ Len(p) \in Nat
    BY AppendProperties
  <2> QED
    BY <2>1, LimitsAreNat
<1>2. /\ Len(q) = n + 1 /\ q[n + 1] = time
      /\ \A i \in 1..n : q[i] = p[i] /\ p[i] \in Nat
  BY <1>1, AppendProperties, ElementOfSeq
<1>3. /\ \A i \in 1..n : n - i >= k => p[i] < start
      /\ \A i \in 1..n : n - i >= k + limit => p[i] + span < start
      /\ \A i, j \in 1..n : j - i >= 2 * limit => p[j] > p[i] + span
  BY <1>1 DEF Behind, SpacedOut
<1>4. ASSUME NEW i \in 1..(n + 1), (n + 1) - i >= k + 1 PROVE q[i] < start
  <2>1. i \in 1..n /\ n - i >= k
    BY <1>4
  <2> QED
    BY <1>2, <1>3, <2>1
<1>5. ASSUME NEW i \in 1..(n + 1), (n + 1) - i >= (k + 1) + limit PROVE q[i] + span < start
  <2>1. i \in 1..n /\ n - i >= k + limit
    BY <1>5
  <2> QED
    BY <1>2, <1>3, <2>1
<1>6. ASSUME NEW i \in 1..(n + 1), NEW j \in 1..(n + 1), j - i >= 2 * limit
      PROVE  q[j] > q[i] + span
  <2>1. CASE j \in 1..n
    <3>1. i \in 1..n
      BY <1>6, <2>1
    <3> QED
      BY <1>2, <1>3, <1>6, <2>1, <3>1
  <2>2. CASE j = n + 1
    <3>1. i \in 1..n /\ (n + 1) - i >= (k + 1) + limit
      BY <1>1, <1>6, <2>2
    <3>2. q[i] + span < start /\ q[i] \in Nat /\ q[j] = time
      BY <1>2, <1>5, <2>2, <3>1
    <3> QED
      BY <3>2
  <2> QED
    BY <2>1, <2>2
<1>7. Behind(q, k + 1, start)
  BY <1>1, <1>2, <1>4, <1>5 DEF Behind
<1>8. SpacedOut(q)
  BY <1>1, <1>2, <1>6 DEF SpacedOut
<1> QED
  BY <1>1, <1>7, <1>8

(* Counting a request, within its window or in a new one.                  *)
LEMMA CountedAgain ==
  ASSUME NEW w \in Windows, NEW p \in Seq(Nat), NEW time \in Nat, Walled(w, p, time),
         NEW v \in Windows,
         \/ v.count = 1 /\ v.at = time /\ (w.count = 0 \/ time - w.at > Second)
         \/ v.count = w.count + 1 /\ v.at = w.at /\ w.count # 0 /\ time - w.at <= Second
  PROVE  /\ v.count <= MaxRequestsPerIP => Walled(v, Append(p, time), time)
         /\ ~(v.count <= MaxRequestsPerIP) => Walled(v, p, time)
<1>1. PICK c \in Nat, start \in Nat : v.count = c + 1 /\ v.at = start /\ start <= time
  <2>1. v.count \in Nat /\ v.count # 0 /\ v.at \in Nat /\ v.at <= time
    BY DEF Windows, Walled
  <2>2. v.count - 1 \in Nat /\ v.count = (v.count - 1) + 1
    BY <2>1
  <2> QED
    BY <2>1, <2>2
<1>2. \A i \in 1..Len(p) : p[i] \in Nat /\ p[i] <= time
  BY ElementOfSeq DEF Walled
(* What is known of the requests before this one, whichever the window. *)
<1>3. PICK k \in Nat : /\ Behind(p, k, start)
                       /\ k = IF c <= MaxRequestsPerIP THEN c ELSE MaxRequestsPerIP
  <2>1. CASE v.count = 1 /\ v.at = time /\ (w.count = 0 \/ time - w.at > Second)
    <3>1. Behind(p, 0, start)
      BY <1>1, <2>1, Over
    <3>2. 0 = IF c <= MaxRequestsPerIP THEN c ELSE MaxRequestsPerIP
      BY <1>1, <2>1, LimitsAreNat
    <3> QED
      BY <3>1, <3>2
  <2>2. CASE v.count = w.count + 1 /\ v.at = w.at /\ w.count # 0 /\ time - w.at <= Second
    <3>1. w.count = c
      BY <1>1, <2>2 DEF Windows
    <3>2. Behind(p, LetThrough(w), start)
      BY <1>1, <2>2 DEF Walled, Begun
    <3>3. /\ LetThrough(w) \in Nat
          /\ LetThrough(w) = IF c <= MaxRequestsPerIP THEN c ELSE MaxRequestsPerIP
      BY <3>1, LimitsAreNat DEF LetThrough
    <3> QED
      BY <3>2, <3>3
  <2> QED
    BY <2>1, <2>2
<1>4. \A i \in 1..Len(p) : p[i] <= start + Second
  <2>1. CASE start = time
    BY <1>2, <2>1, LimitsAreNat
  <2>2. CASE v.at = w.at /\ w.count # 0
    BY <1>1, <2>2 DEF Walled
  <2> QED
    BY <1>1, <2>1, <2>2
<1>5. time <= start + Second
  BY <1>1, LimitsAreNat DEF Windows
<1>6. v.count # 0 /\ Begun(v, time) = start /\ SpacedOut(p)
  BY <1>1 DEF Begun, Walled
<1>7. ASSUME v.count <= MaxRequestsPerIP PROVE Walled(v, Append(p, time), time)
  <2>1. k < MaxRequestsPerIP /\ LetThrough(v) = k + 1
    BY <1>1, <1>3, <1>7, LimitsAreNat DEF LetThrough
  <2>2. Behind(Append(p, time), LetThrough(v), start) /\ SpacedOut(Append(p, time))
    <3>1. start <= time /\ Behind(p, k, start) /\ k < MaxRequestsPerIP /\ SpacedOut(p)
      BY <1>1, <1>3, <1>6, <2>1
    <3>2. Behind(Append(p, time), k + 1, start) /\ SpacedOut(Append(p, time))
      BY <3>1, OneMorePasses
    <3> QED
      BY <2>1, <3>2
  <2>3. PICK n \in Nat, q \in Seq(Nat) : n = Len(p) /\ q = Append(p, time)
    <3>1. Append(p, time) \in Seq(Nat) /\ Len(p) \in Nat
      BY AppendProperties
    <3> QED
      BY <3>1
  <2>4. Len(q) = n + 1 /\ q[n + 1] = time /\ \A i \in 1..n : q[i] = p[i]
    BY <2>3, AppendProperties
  <2>5. ASSUME NEW i \in 1..(n + 1) PROVE q[i] <= time /\ q[i] <= start + Second
    <3>1. CASE i \in 1..n
      BY <1>2, <1>4, <2>3, <2>4, <3>1
    <3>2. CASE i = n + 1
      BY <1>5, <2>4, <3>2
    <3> QED
      BY <3>1, <3>2
  <2> QED
    BY <1>1, <1>6, <2>2, <2>3, <2>4, <2>5 DEF Walled
<1>8. ASSUME ~(v.count <= MaxRequestsPerIP) PROVE Walled(v, p, time)
  <2>1. LetThrough(v) = MaxRequestsPerIP /\ k = MaxRequestsPerIP
    BY <1>1, <1>3, <1>8, LimitsAreNat DEF LetThrough
  <2> QED
    BY <1>1, <1>2, <1>3, <1>4, <1>6, <2>1 DEF Walled
<1> QED
  BY <1>7, <1>8

(* Of every address.                                                       *)
WallInv ==
  /\ wallNow \in Nat
  /\ ipCounts \in [Addresses -> Windows]
  /\ passed \in [Addresses -> Seq(Nat)]
  /\ \A c \in Goroutines : conn[c].addr \in Addresses
  /\ conn \in [Goroutines -> [at : {"idle", "arrived", "admitted", "over"}, addr : Addresses]]
  /\ \A a \in Addresses : Walled(ipCounts[a], passed[a], wallNow)

LEMMA WallInvInit == Wall!Init => WallInv
<1> SUFFICES ASSUME Wall!Init PROVE WallInv
  OBVIOUS
<1>1. Wall!NoWindow.count = 0 /\ Wall!NoWindow.at = 0 /\ Wall!NoWindow \in Windows
  BY DEF Wall!NoWindow, Windows
<1>2. Walled(Wall!NoWindow, <<>>, 0)
  BY <1>1, LimitsAreNat DEF Walled, Behind, SpacedOut
<1>3. /\ wallNow = 0 /\ ipCounts = [a \in Addresses |-> Wall!NoWindow]
      /\ passed = [a \in Addresses |-> <<>>]
  BY DEF Wall!Init
<1>4. PICK a \in Addresses : conn = [c \in Goroutines |-> [at |-> "idle", addr |-> a]]
  BY DEF Wall!Init
<1>5. conn \in [Goroutines -> [at : {"idle", "arrived", "admitted", "over"}, addr : Addresses]]
  BY <1>4
<1>6. passed \in [Addresses -> Seq(Nat)] /\ ipCounts \in [Addresses -> Windows]
  BY <1>1, <1>3
<1> QED
  BY <1>2, <1>3, <1>4, <1>5, <1>6 DEF WallInv

LEMMA WallInvNext == WallInv /\ [Wall!Next]_wallVars => WallInv'
<1> SUFFICES ASSUME WallInv, [Wall!Next]_wallVars PROVE WallInv'
  OBVIOUS
<1> DEFINE Requests == [at : {"idle", "arrived", "admitted", "over"}, addr : Addresses]
<1>1. /\ wallNow \in Nat /\ ipCounts \in [Addresses -> Windows]
      /\ passed \in [Addresses -> Seq(Nat)]
      /\ conn \in [Goroutines -> Requests]
      /\ \A c \in Goroutines : conn[c].addr \in Addresses
      /\ \A a \in Addresses : Walled(ipCounts[a], passed[a], wallNow)
  BY DEF WallInv
<1>2. ASSUME UNCHANGED <<wallNow, ipCounts, passed>>, conn' \in [Goroutines -> Requests]
      PROVE  WallInv'
  BY <1>1, <1>2 DEF WallInv
<1>3. ASSUME NEW c \in Goroutines, Wall!Arrive(c) PROVE WallInv'
  <2>1. conn' \in [Goroutines -> Requests]
    BY <1>1, <1>3 DEF Wall!Arrive
  <2> QED
    BY <1>2, <1>3, <2>1 DEF Wall!Arrive
<1>4. ASSUME NEW c \in Goroutines,
             \/ Wall!RefuseBanned(c) \/ Wall!RefuseHostile(c) \/ Wall!RefuseType(c)
             \/ Wall!Admit(c) \/ Wall!Ban(c)
      PROVE  WallInv'
  <2>1. conn' \in [Goroutines -> Requests]
    <3>1. PICK at \in {"idle", "admitted"} : conn' = [conn EXCEPT ![c].at = at]
      BY <1>4 DEF Wall!RefuseBanned, Wall!RefuseHostile, Wall!RefuseType, Wall!Admit,
         Wall!Ban, Wall!Idle
    <3> QED
      BY <1>1, <3>1
  <2>2. UNCHANGED <<wallNow, ipCounts, passed>>
    BY <1>4 DEF Wall!RefuseBanned, Wall!RefuseHostile, Wall!RefuseType, Wall!Admit, Wall!Ban
  <2> QED
    BY <1>2, <2>1, <2>2
<1>5. ASSUME NEW c \in Goroutines, Wall!Count(c) PROVE WallInv'
  <2>1. PICK a \in Addresses, w \in Windows, p \in Seq(Nat) :
          /\ a = conn[c].addr /\ w = ipCounts[a] /\ p = passed[a] /\ Walled(w, p, wallNow)
    BY <1>1
  <2>2. PICK v : v = Wall!Counted(w)
    OBVIOUS
  <2>3. /\ v \in Windows
        /\ \/ v.count = 1 /\ v.at = wallNow /\ (w.count = 0 \/ wallNow - w.at > Second)
           \/ v.count = w.count + 1 /\ v.at = w.at /\ w.count # 0 /\ wallNow - w.at <= Second
    <3>1. CASE w = Wall!NoWindow \/ wallNow - w.at > Second
      <4>1. v = [count |-> 1, at |-> wallNow]
        BY <2>2, <3>1 DEF Wall!Counted
      <4>2. w.count = 0 \/ wallNow - w.at > Second
        BY <3>1 DEF Wall!NoWindow
      <4> QED
        BY <1>1, <4>1, <4>2 DEF Windows
    <3>2. CASE ~(w = Wall!NoWindow \/ wallNow - w.at > Second)
      <4>1. v = [w EXCEPT !.count = @ + 1]
        BY <2>2, <3>2 DEF Wall!Counted
      <4>2. w.count # 0
        BY <2>1, <3>2 DEF Walled
      <4>3. w.count \in Nat /\ w.at \in Nat /\ Second \in Nat
        BY <2>1, LimitsAreNat DEF Windows
      <4>4. v \in Windows /\ v.count = w.count + 1 /\ v.at = w.at
        BY <4>1, <4>3 DEF Windows
      <4> QED
        BY <1>1, <3>2, <4>2, <4>3, <4>4
    <3> QED
      BY <3>1, <3>2
  <2>4. /\ ipCounts' = [ipCounts EXCEPT ![a] = v] /\ wallNow' = wallNow
        /\ IF v.count <= MaxRequestsPerIP
           THEN passed' = [passed EXCEPT ![a] = Append(p, wallNow)] /\ Wall!Idle(c)
           ELSE conn' = [conn EXCEPT ![c].at = "over"] /\ UNCHANGED passed
    BY <1>1, <1>5, <2>1, <2>2 DEF Wall!Count
  <2>5. /\ v.count <= MaxRequestsPerIP => Walled(v, Append(p, wallNow), wallNow)
        /\ ~(v.count <= MaxRequestsPerIP) => Walled(v, p, wallNow)
    BY <1>1, <2>1, <2>3, CountedAgain
  <2>6. conn' \in [Goroutines -> Requests]
    <3>1. PICK at \in {"idle", "over"} : conn' = [conn EXCEPT ![c].at = at]
      BY <2>4 DEF Wall!Idle
    <3> QED
      BY <1>1, <3>1
  <2>7. ipCounts' \in [Addresses -> Windows] /\ passed' \in [Addresses -> Seq(Nat)]
    <3>1. Append(p, wallNow) \in Seq(Nat)
      BY <1>1, AppendProperties
    <3>2. ipCounts' \in [Addresses -> Windows]
      BY <1>1, <2>3, <2>4
    <3>3. passed' \in [Addresses -> Seq(Nat)]
      BY <1>1, <2>4, <3>1
    <3> QED
      BY <3>2, <3>3
  <2>8. ASSUME NEW b \in Addresses PROVE Walled(ipCounts'[b], passed'[b], wallNow)
    <3>1. CASE b = a
      BY <1>1, <2>1, <2>4, <2>5, <3>1
    <3>2. CASE b # a
      <4>1. ipCounts'[b] = ipCounts[b] /\ passed'[b] = passed[b]
        BY <1>1, <2>4, <3>2
      <4> QED
        BY <1>1, <4>1
    <3> QED
      BY <3>1, <3>2
  <2> QED
    BY <1>1, <2>4, <2>6, <2>7, <2>8 DEF WallInv
<1>6. CASE Wall!Cleanup
  <2>1. /\ UNCHANGED <<wallNow, passed, conn>>
        /\ ipCounts' = [a \in Addresses |-> IF wallNow - ipCounts[a].at > Second
                                             THEN Wall!NoWindow ELSE ipCounts[a]]
    BY <1>6 DEF Wall!Cleanup
  <2>2. ASSUME NEW a \in Addresses
        PROVE  ipCounts'[a] \in Windows /\ Walled(ipCounts'[a], passed[a], wallNow)
    <3>1. ipCounts[a] \in Windows /\ passed[a] \in Seq(Nat)
          /\ Walled(ipCounts[a], passed[a], wallNow)
      BY <1>1
    <3>2. CASE wallNow - ipCounts[a].at > Second
      BY <1>1, <2>1, <3>1, <3>2, Forgotten
    <3>3. CASE ~(wallNow - ipCounts[a].at > Second)
      BY <2>1, <3>1, <3>3
    <3> QED
      BY <3>2, <3>3
  <2>3. ipCounts' \in [Addresses -> Windows]
    BY <2>1, <2>2
  <2> QED
    BY <1>1, <2>1, <2>2, <2>3 DEF WallInv
<1>7. CASE Wall!Tick
  <2>1. wallNow' = wallNow + 1 /\ UNCHANGED <<ipCounts, passed, conn>>
    BY <1>7 DEF Wall!Tick
  <2>2. \A a \in Addresses : Walled(ipCounts[a], passed[a], wallNow + 1)
    <3> TAKE a \in Addresses
    <3> QED
      BY <1>1, WalledLater
  <2> QED
    BY <1>1, <2>1, <2>2 DEF WallInv
<1>8. CASE UNCHANGED wallVars
  BY <1>1, <1>2, <1>8 DEF wallVars
<1> QED
  BY <1>3, <1>4, <1>5, <1>6, <1>7, <1>8 DEF Wall!Next

LEMMA WallCounted == WallInv => Wall!AtMostTwoWindows
<1> SUFFICES ASSUME WallInv, NEW a \in Addresses, NEW i \in DOMAIN passed[a],
                    NEW j \in DOMAIN passed[a], j - i >= 2 * MaxRequestsPerIP
             PROVE  passed[a][j] - passed[a][i] > Second
  BY DEF Wall!AtMostTwoWindows
<1>1. PICK p \in Seq(Nat) : p = passed[a] /\ SpacedOut(p)
  <2>1. passed[a] \in Seq(Nat) /\ Walled(ipCounts[a], passed[a], wallNow)
    BY DEF WallInv
  <2> QED
    BY <2>1 DEF Walled
<1>2. i \in 1..Len(p) /\ j \in 1..Len(p) /\ p[i] \in Nat /\ p[j] \in Nat
  <2>1. i \in 1..Len(p) /\ j \in 1..Len(p)
    BY <1>1
  <2> QED
    BY <2>1, ElementOfSeq
<1>3. p[j] > p[i] + Second
  <2>1. \A k, l \in 1..Len(p) : l - k >= 2 * MaxRequestsPerIP => p[l] > p[k] + Second
    BY <1>1 DEF SpacedOut
  <2> QED
    BY <1>2, <2>1
<1> QED
  BY <1>1, <1>2, <1>3, LimitsAreNat

-----------------------------------------------------------------------------
(* The token buckets *)

Buckets == [capacity : Nat, tokens : Nat, rate : Nat, last : Nat]

RateTypes ==
  /\ rateNow \in Nat
  /\ limits \in Rate!Limits /\ config \in Rate!Limits
  /\ bucket \in [Rate!Keys -> Buckets]
  /\ granted \in [Rate!Keys -> Seq(Nat)]
  /\ toAsk \in [Goroutines -> Seq(Rate!Keys)]
  /\ toReplace \in Seq(Rate!Kinds)

(* A bucket b that has granted at the times g. *)
Paid(b, g) ==
  /\ b.tokens <= b.capacity
  /\ \A i \in 1..Len(g) :
       /\ g[i] <= b.last
       /\ Second * (Len(g) - i + 1) + b.tokens <= b.capacity + b.rate * (b.last - g[i])

Respected(b, g) ==
  \A i, j \in 1..Len(g) :
    i <= j => Second * (j - i + 1) <= b.capacity + b.rate * (g[j] - g[i])

RateInv ==
  /\ RateTypes
  /\ \A k \in Rate!Keys :
       /\ bucket[k].last <= rateNow
       /\ bucket[k] = Rate!Absent => granted[k] = <<>>
       /\ bucket[k] = Rate!Absent \/ bucket[k].capacity # 0
       /\ Paid(bucket[k], granted[k])
       /\ Respected(bucket[k], granted[k])

-----------------------------------------------------------------------------
LEMMA MaxOfTwo == \A a \in Int : Rate!Max({a, 1}) \in Nat \ {0}
<1> SUFFICES ASSUME NEW a \in Int PROVE Rate!Max({a, 1}) \in Nat \ {0}
  OBVIOUS
<1>1. \E x \in {a, 1} : \A y \in {a, 1} : x >= y
  OBVIOUS
<1>2. Rate!Max({a, 1}) \in {a, 1} /\ \A y \in {a, 1} : Rate!Max({a, 1}) >= y
  BY <1>1 DEF Rate!Max
<1>3. QED
  BY <1>2

LEMMA MinOfTwo ==
  \A a, b \in Int : /\ Rate!Min({a, b}) \in {a, b}
                    /\ Rate!Min({a, b}) <= a /\ Rate!Min({a, b}) <= b
<1> SUFFICES ASSUME NEW a \in Int, NEW b \in Int
             PROVE  Rate!Min({a, b}) \in {a, b} /\ Rate!Min({a, b}) <= a /\ Rate!Min({a, b}) <= b
  OBVIOUS
<1>1. \E x \in {a, b} : \A y \in {a, b} : x <= y
  OBVIOUS
<1>2. Rate!Min({a, b}) \in {a, b} /\ \A y \in {a, b} : Rate!Min({a, b}) <= y
  BY <1>1 DEF Rate!Min
<1>3. QED
  BY <1>2

LEMMA NewBucket ==
  ASSUME Rate!Parameters, rateNow \in Nat, NEW l \in [rate : Int, burst : Int]
  PROVE  /\ Rate!NewTokenBucket(l) \in Buckets /\ Rate!NewTokenBucket(l).capacity # 0
         /\ Rate!NewTokenBucket(l).tokens = Rate!NewTokenBucket(l).capacity
         /\ Rate!NewTokenBucket(l).last = rateNow
<1>1. PICK c \in Nat \ {0} : c = Rate!Max({l.burst, 1})
  BY MaxOfTwo
<1>2. PICK r \in Nat \ {0} : r = Rate!Max({l.rate, 1})
  BY MaxOfTwo
<1>3. Second * c \in Nat /\ Second * c # 0
  BY DEF Rate!Parameters
<1>4. Rate!NewTokenBucket(l)
        = [capacity |-> Second * c, tokens |-> Second * c, rate |-> r, last |-> rateNow]
  BY <1>1, <1>2 DEF Rate!NewTokenBucket
<1>5. QED
  BY <1>3, <1>4 DEF Buckets

(* What a bucket holds that has granted nothing is its burst at most. *)
LEMMA NothingGranted ==
  ASSUME NEW b \in Buckets, b.tokens <= b.capacity
  PROVE  Paid(b, <<>>) /\ Respected(b, <<>>)
BY DEF Paid, Respected

(* What a refill adds to both sides. *)
LEMMA Distributes ==
  \A rate, x, y \in Int : rate * (x + y) = rate * x + y * rate
OBVIOUS

LEMMA BothGain ==
  \A spent, before, gain, capacity, old, new \in Int :
    spent + old <= capacity + before /\ new <= old + gain
      => spent + new <= capacity + (before + gain)
OBVIOUS

(* A look at a bucket. *)
LEMMA RefillPays ==
  ASSUME Rate!Parameters, rateNow \in Nat, NEW b \in Buckets, NEW g \in Seq(Nat),
         b.last <= rateNow, Paid(b, g), Respected(b, g)
  PROVE  /\ Rate!Refilled(b) \in Buckets /\ Rate!Refilled(b).last = rateNow
         /\ Rate!Refilled(b).capacity = b.capacity /\ Rate!Refilled(b).rate = b.rate
         /\ Paid(Rate!Refilled(b), g) /\ Respected(Rate!Refilled(b), g)
<1> DEFINE gain == (rateNow - b.last) * b.rate
           t == Rate!Min({b.capacity, b.tokens + gain})
<1>1. /\ b.capacity \in Nat /\ b.tokens \in Nat /\ b.rate \in Nat /\ b.last \in Nat
      /\ rateNow - b.last \in Nat /\ Second \in Nat
  BY DEF Buckets, Rate!Parameters
<1>2. gain \in Nat
  BY <1>1
<1>3. t \in Nat /\ t <= b.capacity /\ t <= b.tokens + gain
  <2> HIDE DEF gain
  <2>1. b.capacity \in Int /\ b.tokens + gain \in Int
    BY <1>1, <1>2
  <2>2. t \in {b.capacity, b.tokens + gain} /\ t <= b.capacity /\ t <= b.tokens + gain
    BY <2>1, MinOfTwo
  <2>3. QED
    BY <1>1, <1>2, <2>2
<1>4. Rate!Refilled(b) = [capacity |-> b.capacity, tokens |-> t, rate |-> b.rate, last |-> rateNow]
  BY DEF Rate!Refilled, Buckets
<1> HIDE DEF t
<1>5. ASSUME NEW i \in 1..Len(g)
      PROVE  /\ g[i] <= rateNow
             /\ Second * (Len(g) - i + 1) + t <= b.capacity + b.rate * (rateNow - g[i])
  <2>1. g[i] \in Nat /\ Len(g) \in Nat
    OBVIOUS
  <2>2. /\ g[i] <= b.last
        /\ Second * (Len(g) - i + 1) + b.tokens <= b.capacity + b.rate * (b.last - g[i])
    BY DEF Paid
  <2> DEFINE spent == Second * (Len(g) - i + 1)
             before == b.rate * (b.last - g[i])
  <2>3. b.rate * (rateNow - g[i]) = before + gain
    <3>1. rateNow - g[i] = (b.last - g[i]) + (rateNow - b.last)
      BY <1>1, <2>1
    <3>2. b.last - g[i] \in Int /\ rateNow - b.last \in Int /\ b.rate \in Int
      BY <1>1, <2>1
    <3>3. b.rate * ((b.last - g[i]) + (rateNow - b.last)) = before + gain
      BY <3>2, Distributes
    <3>4. QED
      BY <3>1, <3>3
  <2>4. spent \in Int /\ before \in Int
    BY <1>1, <2>1
  <2>5. spent + b.tokens <= b.capacity + before
    BY <2>2
  <2> HIDE DEF spent, before, gain
  <2>6. spent + t <= b.capacity + (before + gain)
    <3>1. b.capacity \in Int /\ b.tokens \in Int /\ gain \in Int /\ t \in Int
      BY <1>1, <1>2, <1>3
    <3>2. QED
      BY <1>3, <2>4, <2>5, <3>1, BothGain
  <2>7. g[i] <= rateNow
    BY <1>1, <2>1, <2>2
  <2>8. spent + t <= b.capacity + b.rate * (rateNow - g[i])
    BY <2>3, <2>6
  <2>9. QED
    BY <2>7, <2>8 DEF spent
<1>6. QED
  BY <1>1, <1>3, <1>4, <1>5 DEF Buckets, Paid, Respected

(* A token is taken. *)
LEMMA GrantPays ==
  ASSUME Rate!Parameters, rateNow \in Nat, NEW b \in Buckets, NEW g \in Seq(Nat),
         b.last = rateNow, b.tokens >= Second, Paid(b, g), Respected(b, g)
  PROVE  LET c == [b EXCEPT !.tokens = @ - Second] IN
           /\ c \in Buckets /\ c.last = rateNow
           /\ c.capacity = b.capacity
           /\ Paid(c, Append(g, rateNow)) /\ Respected(c, Append(g, rateNow))
<1> DEFINE n == Len(g)
           h == Append(g, rateNow)
           t == b.tokens - Second
<1>1. /\ b.capacity \in Nat /\ b.tokens \in Nat /\ b.rate \in Nat /\ b.last \in Nat
      /\ Second \in Nat \ {0} /\ n \in Nat /\ b.tokens <= b.capacity
  BY DEF Buckets, Rate!Parameters, Paid
<1>2. t \in Nat /\ t + Second = b.tokens
  BY <1>1
<1>3. PICK c : c = [b EXCEPT !.tokens = @ - Second]
  OBVIOUS
<1>4. c = [capacity |-> b.capacity, tokens |-> t, rate |-> b.rate, last |-> rateNow]
  BY <1>3 DEF Buckets
<1>5. /\ h \in Seq(Nat) /\ Len(h) = n + 1 /\ h[n + 1] = rateNow
      /\ \A i \in 1..n : h[i] = g[i]
  OBVIOUS
<1> HIDE DEF h, n, t
<1>6. ASSUME NEW i \in 1..n
      PROVE  /\ g[i] <= rateNow /\ g[i] \in Nat
             /\ Second * (n + 1 - i + 1) + t <= b.capacity + b.rate * (rateNow - g[i])
  <2>1. /\ g[i] <= rateNow /\ g[i] \in Nat
        /\ Second * (n - i + 1) + b.tokens <= b.capacity + b.rate * (rateNow - g[i])
    BY DEF Paid, n
  <2>2. Second * (n + 1 - i + 1) = Second * (n - i + 1) + Second
    BY <1>1
  <2> DEFINE spent == Second * (n - i + 1)
             gained == b.rate * (rateNow - g[i])
  <2>3. spent \in Int /\ gained \in Int
    BY <1>1, <2>1
  <2> HIDE DEF spent, gained
  <2>4. spent + b.tokens <= b.capacity + gained => (spent + Second) + t <= b.capacity + gained
    BY <1>1, <1>2, <2>3
  <2>5. QED
    BY <2>1, <2>2, <2>4 DEF spent, gained
<1>7. Second * (n + 1 - (n + 1) + 1) + t <= b.capacity + b.rate * (rateNow - rateNow)
  <2>1. n + 1 - (n + 1) + 1 = 1 /\ rateNow - rateNow = 0
    BY <1>1
  <2>2. Second * 1 = Second /\ b.rate * 0 = 0
    BY <1>1
  <2>3. QED
    BY <1>1, <1>2, <2>1, <2>2
<1>8. ASSUME NEW i \in 1..n + 1
      PROVE  /\ h[i] <= rateNow
             /\ Second * (n + 1 - i + 1) + t <= b.capacity + b.rate * (rateNow - h[i])
  <2>1. CASE i \in 1..n
    BY <1>5, <1>6, <2>1
  <2>2. CASE i = n + 1
    BY <1>1, <1>5, <1>7, <2>2
  <2>3. QED
    BY <1>1, <2>1, <2>2
<1>9. Paid(c, h)
  <2>1. c.capacity = b.capacity /\ c.tokens = t /\ c.rate = b.rate /\ c.last = rateNow
    BY <1>4
  <2>2. t <= b.capacity
    BY <1>1, <1>2
  <2>3. ASSUME NEW i \in 1..Len(h)
        PROVE  /\ h[i] <= c.last
               /\ Second * (Len(h) - i + 1) + c.tokens <= c.capacity + c.rate * (c.last - h[i])
    <3>1. i \in 1..n + 1 /\ Second * (Len(h) - i + 1) = Second * (n + 1 - i + 1)
      <4>1. Len(h) = n + 1
        BY <1>5
      <4>2. i \in 1..n + 1
        BY <4>1
      <4>3. Len(h) - i + 1 = n + 1 - i + 1
        BY <1>1, <4>1, <4>2
      <4>4. QED
        BY <4>2, <4>3
    <3>2. c.rate * (c.last - h[i]) = b.rate * (rateNow - h[i])
      BY <2>1
    <3>3. QED
      BY <1>8, <2>1, <3>1, <3>2
  <2>4. QED
    BY <2>1, <2>2, <2>3 DEF Paid
<1>10. ASSUME NEW i \in 1..n + 1, NEW j \in 1..n + 1, i <= j
       PROVE  Second * (j - i + 1) <= b.capacity + b.rate * (h[j] - h[i])
  <2>1. CASE j \in 1..n
    <3>1. i \in 1..n /\ h[i] = g[i] /\ h[j] = g[j]
      BY <1>1, <1>5, <1>10, <2>1
    <3>2. Second * (j - i + 1) <= b.capacity + b.rate * (g[j] - g[i])
      BY <1>10, <2>1, <3>1 DEF Respected, n
    <3>3. QED
      BY <3>1, <3>2
  <2>2. CASE j = n + 1
    <3>1. Second * (n + 1 - i + 1) + t <= b.capacity + b.rate * (rateNow - h[i])
      BY <1>8
    <3>2. h[i] \in Nat
      BY <1>5
    <3> DEFINE spent == Second * (n + 1 - i + 1)
               gained == b.rate * (rateNow - h[i])
    <3>3. spent \in Int /\ gained \in Int
      BY <1>1, <3>2
    <3> HIDE DEF spent, gained
    <3>4. spent + t <= b.capacity + gained => spent <= b.capacity + gained
      BY <1>1, <1>2, <3>3
    <3>5. QED
      <4>1. spent <= b.capacity + gained
        BY <3>1, <3>4 DEF spent, gained
      <4>2. h[j] = rateNow
        BY <1>5, <2>2
      <4>3. Second * (j - i + 1) = spent
        <5>1. j - i + 1 = n + 1 - i + 1
          BY <1>1, <2>2
        <5>2. QED
          BY <5>1 DEF spent
      <4>4. b.rate * (h[j] - h[i]) = gained
        BY <4>2 DEF gained
      <4>5. QED
        BY <4>1, <4>3, <4>4
  <2>3. QED
    BY <1>1, <2>1, <2>2
<1>11. Respected(c, h)
  BY <1>4, <1>5, <1>10 DEF Respected
<1>12. c \in Buckets /\ c.last = rateNow /\ c.capacity = b.capacity
  BY <1>1, <1>2, <1>4 DEF Buckets
<1>13. QED
  BY <1>3, <1>9, <1>11, <1>12 DEF h

-----------------------------------------------------------------------------
LEMMA KindFacts ==
  ASSUME Rate!Parameters
  PROVE  /\ \A k \in Rate!Keys : Rate!Kind(k) \in Rate!Kinds
         /\ "global" \in Rate!Keys /\ Rate!Kind("global") = "global"
         /\ \A l \in Rate!Limits, d \in Rate!Kinds : l[d] \in [rate : Int, burst : Int]
BY DEF Rate!Parameters, Rate!Keys, Rate!Kind, Rate!Kinds, Rate!Limits

LEMMA RateInvInit == Rate!Parameters /\ Rate!Init => RateInv
<1> SUFFICES ASSUME Rate!Parameters, Rate!Init PROVE RateInv
  OBVIOUS
<1>1. rateNow \in Nat /\ rateNow = 0 /\ limits \in Rate!Limits /\ config \in Rate!Limits
  BY DEF Rate!Init, Rate!Parameters
<1> DEFINE new == Rate!NewTokenBucket(limits["global"])
<1>2. new \in Buckets /\ new.capacity # 0 /\ new.tokens = new.capacity /\ new.last = rateNow
  BY <1>1, KindFacts, NewBucket DEF Rate!Kinds
<1>3. /\ Rate!Absent \in Buckets /\ Rate!Absent.tokens = 0
      /\ Rate!Absent.capacity = 0 /\ Rate!Absent.last = 0
  BY DEF Rate!Absent, Buckets
<1> HIDE DEF new
<1>4. bucket = [k \in Rate!Keys |-> IF k = "global" THEN new ELSE Rate!Absent]
  BY DEF Rate!Init, new
<1>5. RateTypes
  <2>1. granted \in [Rate!Keys -> Seq(Nat)] /\ toAsk \in [Goroutines -> Seq(Rate!Keys)]
        /\ toReplace \in Seq(Rate!Kinds)
    BY DEF Rate!Init
  <2>2. QED
    BY <1>1, <1>2, <1>3, <1>4, <2>1 DEF RateTypes
<1>6. ASSUME NEW k \in Rate!Keys
      PROVE  /\ bucket[k].last <= rateNow /\ granted[k] = <<>>
             /\ bucket[k] = Rate!Absent \/ bucket[k].capacity # 0
             /\ Paid(bucket[k], <<>>) /\ Respected(bucket[k], <<>>)
  <2>1. bucket[k] \in {new, Rate!Absent}
    BY <1>4
  <2>2. granted[k] = <<>>
    BY DEF Rate!Init
  <2>3. \A b \in {new, Rate!Absent} : b \in Buckets /\ b.tokens <= b.capacity /\ b.last <= rateNow
    BY <1>1, <1>2, <1>3 DEF Buckets
  <2>4. QED
    BY <1>2, <2>1, <2>2, <2>3, NothingGranted
<1>7. QED
  BY <1>5, <1>6 DEF RateInv

LEMMA RateAllowInv ==
  ASSUME Rate!Parameters, RateInv, NEW c \in Goroutines, Rate!Allow(c)
  PROVE  RateInv'
<1>1. PICK k : k = Head(toAsk[c])
  OBVIOUS
<1>2. k \in Rate!Keys /\ Tail(toAsk[c]) \in Seq(Rate!Keys)
  BY <1>1, HeadTailProperties DEF RateInv, RateTypes, Rate!Allow
<1>3. PICK f : f = Rate!Found(k)
  OBVIOUS
<1>4. rateNow \in Nat /\ granted[k] \in Seq(Nat)
  BY <1>2 DEF RateInv, RateTypes
<1>5. /\ f \in Buckets /\ f.last <= rateNow
      /\ Paid(f, granted[k]) /\ Respected(f, granted[k]) /\ f.capacity # 0
  <2>1. CASE bucket[k] = Rate!Absent
    <3>1. limits[Rate!Kind(k)] \in [rate : Int, burst : Int]
      BY <1>2, KindFacts DEF RateInv, RateTypes
    <3>2. f = Rate!NewTokenBucket(limits[Rate!Kind(k)])
      BY <1>3, <2>1 DEF Rate!Found
    <3>3. f \in Buckets /\ f.capacity # 0 /\ f.tokens = f.capacity /\ f.last = rateNow
      BY <1>4, <3>1, <3>2, NewBucket
    <3>4. f.tokens <= f.capacity /\ f.last <= rateNow
      BY <1>4, <3>3 DEF Buckets
    <3>5. granted[k] = <<>>
      BY <1>2, <2>1 DEF RateInv
    <3>6. QED
      BY <3>3, <3>4, <3>5, NothingGranted
  <2>2. CASE bucket[k] # Rate!Absent
    BY <1>2, <1>3, <2>2 DEF Rate!Found, RateInv, RateTypes
  <2>3. QED
    BY <2>1, <2>2
<1>6. PICK b : b = Rate!Refilled(f)
  OBVIOUS
<1>7. /\ b \in Buckets /\ b.last = rateNow /\ b.capacity = f.capacity
      /\ Paid(b, granted[k]) /\ Respected(b, granted[k])
  BY <1>4, <1>5, <1>6, RefillPays
<1>8. UNCHANGED <<rateNow, limits, config, toReplace>>
  BY DEF Rate!Allow, Rate!putVars
<1>9. ASSUME NEW d \in Buckets, NEW g \in Seq(Nat), d.last = rateNow,
             d.capacity # 0, Paid(d, g), Respected(d, g),
             bucket' = [bucket EXCEPT ![k] = d],
             granted' = [granted EXCEPT ![k] = g],
             toAsk' \in [Goroutines -> Seq(Rate!Keys)]
      PROVE  RateInv'
  <2>1. RateTypes'
    BY <1>8, <1>9 DEF RateInv, RateTypes
  <2>2. ASSUME NEW q \in Rate!Keys
        PROVE  /\ bucket'[q].last <= rateNow' /\ (bucket'[q] = Rate!Absent => granted'[q] = <<>>)
               /\ (bucket'[q] = Rate!Absent \/ bucket'[q].capacity # 0)
               /\ Paid(bucket'[q], granted'[q]) /\ Respected(bucket'[q], granted'[q])
    <3>1. CASE q = k
      <4>1. bucket'[q] = d /\ granted'[q] = g
        BY <1>2, <1>9, <3>1 DEF RateInv, RateTypes
      <4>2. QED
        BY <1>4, <1>8, <1>9, <4>1 DEF Rate!Absent
    <3>2. CASE q # k
      <4>1. bucket'[q] = bucket[q] /\ granted'[q] = granted[q]
        BY <1>9, <3>2 DEF RateInv, RateTypes
      <4>2. QED
        BY <1>8, <4>1 DEF RateInv
    <3>3. QED
      BY <3>1, <3>2
  <2>3. QED
    BY <2>1, <2>2 DEF RateInv, Paid, Respected
<1>10. CASE b.tokens >= Second
  <2>1. /\ bucket' = [bucket EXCEPT ![k] = [b EXCEPT !.tokens = @ - Second]]
        /\ granted' = [granted EXCEPT ![k] = Append(granted[k], rateNow)]
        /\ toAsk' = [toAsk EXCEPT ![c] = Tail(toAsk[c])]
    BY <1>1, <1>3, <1>6, <1>10 DEF Rate!Allow
  <2>2. PICK d : d = [b EXCEPT !.tokens = @ - Second]
    OBVIOUS
  <2>3. /\ d \in Buckets /\ d.last = rateNow /\ d.capacity # 0
        /\ Paid(d, Append(granted[k], rateNow)) /\ Respected(d, Append(granted[k], rateNow))
    BY <1>4, <1>5, <1>7, <1>10, <2>2, GrantPays
  <2>4. Append(granted[k], rateNow) \in Seq(Nat) /\ toAsk' \in [Goroutines -> Seq(Rate!Keys)]
    BY <1>2, <1>4, <2>1 DEF RateInv, RateTypes
  <2>5. QED
    BY <1>9, <2>1, <2>2, <2>3, <2>4
<1>11. CASE ~(b.tokens >= Second)
  <2>1. /\ bucket' = [bucket EXCEPT ![k] = b] /\ toAsk' = [toAsk EXCEPT ![c] = <<>>]
        /\ granted' = granted
    BY <1>1, <1>3, <1>6, <1>11 DEF Rate!Allow
  <2>2. granted' = [granted EXCEPT ![k] = granted[k]]
    BY <2>1 DEF RateInv, RateTypes
  <2>3. toAsk' \in [Goroutines -> Seq(Rate!Keys)]
    BY <2>1 DEF RateInv, RateTypes
  <2>4. QED
    BY <1>4, <1>5, <1>7, <1>9, <2>1, <2>2, <2>3
<1>12. QED
  BY <1>10, <1>11

LEMMA UpdateInv ==
  ASSUME Rate!Parameters, RateInv, Rate!UpdateConfig
  PROVE  RateInv'
<1>1. PICK kind : kind = Head(toReplace)
  OBVIOUS
<1>2. kind \in Rate!Kinds /\ Tail(toReplace) \in Seq(Rate!Kinds)
  BY <1>1, HeadTailProperties DEF RateInv, RateTypes, Rate!UpdateConfig
<1>3. /\ limits' = [limits EXCEPT ![kind] = config[kind]]
      /\ bucket' = [q \in Rate!Keys |->
           CASE q \notin {k \in Rate!Keys : Rate!Kind(k) = kind} -> bucket[q]
             [] q \in {k \in Rate!Keys : Rate!Kind(k) = kind} /\ q = "global"
                  -> Rate!NewTokenBucket(config[q])
             [] OTHER -> Rate!Absent]
      /\ granted' = [q \in Rate!Keys |->
           IF q \in {k \in Rate!Keys : Rate!Kind(k) = kind} THEN <<>> ELSE granted[q]]
      /\ toReplace' = Tail(toReplace) /\ UNCHANGED <<rateNow, toAsk, config>>
  BY <1>1 DEF Rate!UpdateConfig
<1>4. rateNow \in Nat /\ limits \in Rate!Limits /\ config \in Rate!Limits
  BY DEF RateInv, RateTypes
<1>5. Rate!Absent \in Buckets /\ Rate!Absent.tokens <= Rate!Absent.capacity /\ Rate!Absent.last = 0
  BY DEF Rate!Absent, Buckets
<1>6. ASSUME NEW q \in Rate!Keys
      PROVE  /\ bucket'[q] \in Buckets /\ granted'[q] \in Seq(Nat)
             /\ bucket'[q].last <= rateNow /\ (bucket'[q] = Rate!Absent => granted'[q] = <<>>)
             /\ (bucket'[q] = Rate!Absent \/ bucket'[q].capacity # 0)
             /\ Paid(bucket'[q], granted'[q]) /\ Respected(bucket'[q], granted'[q])
  <2>1. CASE Rate!Kind(q) # kind
    <3>1. bucket'[q] = bucket[q] /\ granted'[q] = granted[q]
      BY <1>3, <2>1
    <3>2. QED
      BY <3>1 DEF RateInv, RateTypes
  <2>2. CASE Rate!Kind(q) = kind /\ q = "global"
    <3>1. bucket'[q] = Rate!NewTokenBucket(config[q]) /\ granted'[q] = <<>>
      BY <1>3, <2>2
    <3>2. config[q] \in [rate : Int, burst : Int]
      BY <1>4, <2>2, KindFacts DEF Rate!Kinds
    <3>3. /\ bucket'[q] \in Buckets /\ bucket'[q].capacity # 0 /\ bucket'[q].last = rateNow
          /\ bucket'[q].tokens = bucket'[q].capacity
      BY <1>4, <3>1, <3>2, NewBucket
    <3>4. bucket'[q].tokens <= bucket'[q].capacity
      BY <3>3 DEF Buckets
    <3>5. QED
      BY <1>4, <3>1, <3>3, <3>4, NothingGranted
  <2>3. CASE Rate!Kind(q) = kind /\ q # "global"
    <3>1. bucket'[q] = Rate!Absent /\ granted'[q] = <<>>
      BY <1>3, <2>3
    <3>2. QED
      BY <1>4, <1>5, <3>1, NothingGranted
  <2>4. QED
    BY <2>1, <2>2, <2>3
<1>7. RateTypes'
  <2>1. limits' \in Rate!Limits
    BY <1>2, <1>3, <1>4 DEF Rate!Limits
  <2>2. bucket' \in [Rate!Keys -> Buckets]
    BY <1>3, <1>6
  <2>3. granted' \in [Rate!Keys -> Seq(Nat)]
    BY <1>3, <1>6
  <2>4. QED
    BY <1>2, <1>3, <2>1, <2>2, <2>3 DEF RateInv, RateTypes
<1>8. rateNow' = rateNow
  BY <1>3
<1>9. ASSUME NEW q \in Rate!Keys
      PROVE  ( /\ bucket[q].last <= rateNow
               /\ (bucket[q] = Rate!Absent => granted[q] = <<>>)
               /\ (bucket[q] = Rate!Absent \/ bucket[q].capacity # 0)
               /\ Paid(bucket[q], granted[q]) /\ Respected(bucket[q], granted[q]) )'
  BY <1>6, <1>8 DEF Paid, Respected, Rate!Absent
<1>10. QED
  BY <1>7, <1>9 DEF RateInv

LEMMA RateInvNext == Rate!Parameters /\ RateInv /\ [Rate!Next]_rateVars => RateInv'
<1> SUFFICES ASSUME Rate!Parameters, RateInv, [Rate!Next]_rateVars PROVE RateInv'
  OBVIOUS
<1>1. ASSUME RateTypes', UNCHANGED <<bucket, granted>>, rateNow' >= rateNow PROVE RateInv'
  <2>1. \A k \in Rate!Keys : bucket[k].last \in Nat /\ rateNow \in Nat /\ rateNow' \in Nat
    BY <1>1 DEF RateInv, RateTypes, Buckets
  <2>2. \A k \in Rate!Keys : bucket[k].last <= rateNow'
    BY <1>1, <2>1 DEF RateInv
  <2>3. QED
    BY <1>1, <2>2 DEF RateInv, Paid, Respected
<1>2. ASSUME NEW c \in Goroutines, Rate!Ask(c) PROVE RateInv'
  <2>1. PICK p \in SkillPaths : toAsk' = [toAsk EXCEPT ![c] = <<"global", "user", p>>]
    BY <1>2 DEF Rate!Ask
  <2>2. <<"global", "user", p>> \in Seq(Rate!Keys)
    BY DEF Rate!Keys
  <2>3. RateTypes'
    BY <1>2, <2>1, <2>2 DEF Rate!Ask, Rate!putVars, RateInv, RateTypes
  <2>4. rateNow' = rateNow /\ rateNow \in Nat /\ UNCHANGED <<bucket, granted>>
    BY <1>2 DEF Rate!Ask, RateInv, RateTypes
  <2>5. QED
    BY <1>1, <2>3, <2>4
<1>3. CASE Rate!Put
  <2>1. <<"global", "user", "path">> \in Seq(Rate!Kinds)
    BY DEF Rate!Kinds
  <2>2. RateTypes'
    BY <1>3, <2>1 DEF Rate!Put, RateInv, RateTypes, Rate!Parameters
  <2>3. rateNow' = rateNow /\ rateNow \in Nat /\ UNCHANGED <<bucket, granted>>
    BY <1>3 DEF Rate!Put, RateInv, RateTypes
  <2>4. QED
    BY <1>1, <2>2, <2>3
<1>4. CASE Rate!Tick
  <2>1. RateTypes'
    BY <1>4 DEF Rate!Tick, Rate!putVars, RateInv, RateTypes
  <2>2. rateNow' >= rateNow /\ UNCHANGED <<bucket, granted>>
    BY <1>4 DEF Rate!Tick, RateInv, RateTypes
  <2>3. QED
    BY <1>1, <2>1, <2>2
<1>5. CASE UNCHANGED rateVars
  <2>1. RateTypes'
    BY <1>5 DEF rateVars, Rate!putVars, RateInv, RateTypes
  <2>2. rateNow' >= rateNow /\ UNCHANGED <<bucket, granted>>
    BY <1>5 DEF rateVars, RateInv, RateTypes
  <2>3. QED
    BY <1>1, <2>1, <2>2
<1>6. QED
  BY <1>2, <1>3, <1>4, <1>5, RateAllowInv, UpdateInv DEF Rate!Next

(* Whatever a bucket grants, and whenever its limits were replaced, from   *)
(* any grant to any later one it grants no more than its burst and what it *)
(* gains in between (governor/ratelimit.go, TokenBucket.Allow).            *)
LEMMA RateCounted == RateInv => Rate!RateRespected
<1> SUFFICES ASSUME RateInv, NEW k \in Rate!Keys, NEW i \in DOMAIN granted[k],
                    NEW j \in DOMAIN granted[k], i <= j
             PROVE  Second * (j - i + 1)
                      <= bucket[k].capacity + bucket[k].rate * (granted[k][j] - granted[k][i])
  BY DEF Rate!RateRespected
<1>1. i \in 1..Len(granted[k]) /\ j \in 1..Len(granted[k])
  BY DEF RateInv, RateTypes
<1> QED
  BY <1>1 DEF RateInv, Respected

-----------------------------------------------------------------------------
(* The chain of a request *)

ChainPlaces == {"idle", "limits", "auth", "ironclaw", "handler", "ledger", "answered", "refused"}
Tokens == Nat
ChainRequests ==
  [at : ChainPlaces, path : Chain!Paths, method : Chain!Methods, token : Tokens,
   valid : BOOLEAN]
Entries == {"request", "panic_recovered", "ratelimit_update"}

ChainTypes ==
  /\ chainNow \in Nat
  /\ issued \subseteq Tokens
  /\ authOn \in BOOLEAN
  /\ req \in [Goroutines -> ChainRequests]
  /\ ledger \in [Goroutines -> Seq(Entries)]
  /\ logged \in [Goroutines -> Nat]

(* Nothing is recorded before the handler is left, and until the ledger    *)
(* middleware is, only what the handler recorded itself.                   *)
RecordedOf(q, entries, lines) ==
  /\ q.at \notin {"ledger", "answered"} => entries = <<>> /\ lines = 0
  /\ q.at = "ledger" => entries \in Chain!OwnEntries(q) /\ lines = 0
  /\ Chain!LeftBehind(q, entries, lines)

(* Authentication was passed before all that follows it. *)
AuthenticatedOf(q) ==
  (/\ authOn /\ q.at \in {"ironclaw", "handler", "ledger"}
   /\ ~Chain!IsFastPath(q.path) /\ Chain!V1(q.path))
    => Chain!IsTokenPost(q) \/ q.valid

ChainOf(q, entries, lines) == RecordedOf(q, entries, lines) /\ AuthenticatedOf(q)

ChainInv ==
  ChainTypes /\ \A s \in Goroutines : ChainOf(req[s], ledger[s], logged[s])

-----------------------------------------------------------------------------
LEMMA NoRequestType == Chain!NoRequest \in ChainRequests /\ Chain!NoRequest.at = "idle"
BY DEF Chain!NoRequest, Chain!NoToken, ChainRequests, ChainPlaces, Chain!Paths,
       Chain!Methods, Tokens, Chain!V1Paths

(* A request that is not yet past the authentication, with nothing         *)
(* recorded, is as it should be.                                           *)
LEMMA NothingYet ==
  ASSUME NEW q, q.at \in {"idle", "limits", "auth", "refused"}
  PROVE  ChainOf(q, <<>>, 0)
BY DEF ChainOf, RecordedOf, AuthenticatedOf, Chain!LeftBehind

LEMMA ChainInvInit == Chain!Init => ChainInv
<1> SUFFICES ASSUME Chain!Init PROVE ChainInv
  OBVIOUS
<1>1. ChainTypes
  BY NoRequestType DEF Chain!Init, ChainTypes, Tokens
<1>2. \A s \in Goroutines : req[s].at = "idle" /\ ledger[s] = <<>> /\ logged[s] = 0
  BY NoRequestType DEF Chain!Init
<1>3. \A s \in Goroutines : ChainOf(req[s], ledger[s], logged[s])
  BY <1>2, NothingYet
<1> QED
  BY <1>1, <1>3 DEF ChainInv

(* What a request is does not change while it moves on. *)
Same(q, r) == q.path = r.path /\ q.method = r.method

LEMMA SameRequest ==
  ASSUME NEW q, NEW r, Same(q, r)
  PROVE  /\ Chain!IsTokenPost(q) <=> Chain!IsTokenPost(r)
         /\ Chain!IsRateLimitPut(q) <=> Chain!IsRateLimitPut(r)
         /\ Chain!OwnEntries(q) = Chain!OwnEntries(r)
BY DEF Same, Chain!IsTokenPost, Chain!IsRateLimitPut, Chain!OwnEntries

LEMMA ChainGotoFacts ==
  ASSUME ChainTypes, NEW s \in Goroutines, NEW at \in ChainPlaces, Chain!Goto(s, at)
  PROVE  /\ req' \in [Goroutines -> ChainRequests]
         /\ req'[s].at = at /\ Same(req'[s], req[s]) /\ req'[s].valid = req[s].valid
         /\ \A q \in Goroutines : q # s => req'[q] = req[q]
BY DEF ChainTypes, Chain!Goto, ChainRequests, Same

LEMMA RecordDoes ==
  ASSUME ChainTypes, NEW s \in Goroutines, NEW e \in Entries, Chain!Record(s, e)
  PROVE  /\ ledger' \in [Goroutines -> Seq(Entries)]
         /\ ledger'[s] = Append(ledger[s], e)
         /\ \A q \in Goroutines : q # s => ledger'[q] = ledger[q]
BY DEF ChainTypes, Chain!Record

(* A step of one request is judged by that request. *)
LEMMA OneRequest ==
  ASSUME ChainInv, NEW s \in Goroutines, ChainTypes', authOn' = authOn,
         \A q \in Goroutines : q # s =>
           req'[q] = req[q] /\ ledger'[q] = ledger[q] /\ logged'[q] = logged[q],
         ChainOf(req'[s], ledger'[s], logged'[s])
  PROVE  ChainInv'
<1>1. ASSUME NEW q \in Goroutines PROVE ChainOf(req'[q], ledger'[q], logged'[q])
  <2>1. CASE q = s
    BY <2>1
  <2>2. CASE q # s
    <3>1. ChainOf(req[q], ledger[q], logged[q])
      BY DEF ChainInv
    <3> QED
      BY <2>2, <3>1
  <2> QED
    BY <2>1, <2>2
<1>2. ASSUME NEW q \in Goroutines PROVE ChainOf(req[q], ledger[q], logged[q])'
  <2>1. ChainOf(req'[q], ledger'[q], logged'[q])
    BY <1>1
  <2> QED
    BY <2>1 DEF ChainOf, RecordedOf, AuthenticatedOf
<1> QED
  BY <1>2 DEF ChainInv

(* The ledger middleware adds its entry to what the handler recorded.      *)
LEMMA Recorded ==
  ASSUME NEW q, NEW own \in Chain!OwnEntries(q), NEW r, Same(r, q), r.at = "answered"
  PROVE  /\ Chain!V1(q.path) => ChainOf(r, Append(own, "request"), 1)
         /\ ~Chain!V1(q.path) => ChainOf(r, own, 1)
<1>1. own \in Chain!OwnEntries(r) /\ r.path = q.path
  BY SameRequest DEF Same
<1> QED
  BY <1>1 DEF ChainOf, RecordedOf, AuthenticatedOf, Chain!LeftBehind

LEMMA ServeInv ==
  ASSUME ChainInv, NEW s \in Goroutines,
         \/ Chain!Arrive(s) \/ Chain!Limits(s) \/ Chain!AuthMiddleware(s)
         \/ Chain!Ironclaw(s) \/ Chain!Panic(s)
         \/ Chain!HandleToken(s) \/ Chain!HandleSovereigntyPost(s)
         \/ Chain!HandleRateLimitPut(s) \/ Chain!HandleOther(s)
         \/ Chain!LedgerMiddleware(s) \/ Chain!Done(s)
  PROVE  ChainInv'
<1>0. /\ ChainTypes /\ req[s] \in ChainRequests
      /\ RecordedOf(req[s], ledger[s], logged[s]) /\ AuthenticatedOf(req[s])
  BY DEF ChainInv, ChainOf, ChainTypes
<1>1. CASE Chain!Arrive(s)
  <2>1. PICK p \in Chain!Paths, m \in Chain!Methods, t \in issued \cup {Chain!NoToken} :
          req' = [req EXCEPT ![s] = [at |-> IF Chain!IsFastPath(p) THEN "handler" ELSE "limits",
                                     path |-> p, method |-> m, token |-> t, valid |-> FALSE]]
    BY <1>1 DEF Chain!Arrive
  <2>2. [at |-> IF Chain!IsFastPath(p) THEN "handler" ELSE "limits",
         path |-> p, method |-> m, token |-> t, valid |-> FALSE] \in ChainRequests
    BY <1>0 DEF ChainRequests, ChainTypes, Tokens, Chain!NoToken, ChainPlaces
  <2>3. /\ req'[s].at = IF Chain!IsFastPath(p) THEN "handler" ELSE "limits"
        /\ req'[s].path = p
        /\ \A q \in Goroutines : q # s => req'[q] = req[q]
    BY <1>0, <2>1 DEF ChainTypes
  <2>4. UNCHANGED <<chainNow, authOn, issued, ledger, logged>> /\ req[s].at = "idle"
    BY <1>1 DEF Chain!Arrive
  <2>5. ChainTypes'
    BY <1>0, <2>1, <2>2, <2>4 DEF ChainTypes
  <2>6. ledger'[s] = <<>> /\ logged'[s] = 0
    BY <1>0, <2>4 DEF RecordedOf
  <2>7. ChainOf(req'[s], ledger'[s], logged'[s])
    <3>1. CASE Chain!IsFastPath(p)
      BY <2>3, <2>6, <3>1 DEF ChainOf, RecordedOf, AuthenticatedOf, Chain!LeftBehind
    <3>2. CASE ~Chain!IsFastPath(p)
      BY <2>3, <2>6, <3>2, NothingYet
    <3> QED
      BY <3>1, <3>2
  <2> QED
    BY <2>3, <2>4, <2>5, <2>7, OneRequest
<1>2. CASE Chain!Limits(s)
  <2>1. PICK at \in {"auth", "refused"} : Chain!Goto(s, at)
    BY <1>2 DEF Chain!Limits
  <2>2. UNCHANGED <<chainNow, authOn, issued, ledger, logged>> /\ req[s].at = "limits"
    BY <1>2 DEF Chain!Limits, Chain!KeepRest
  <2>3. at \in ChainPlaces
    BY DEF ChainPlaces
  <2>4. ChainTypes'
    BY <1>0, <2>1, <2>2, <2>3, ChainGotoFacts DEF ChainTypes
  <2>5. ledger'[s] = <<>> /\ logged'[s] = 0 /\ req'[s].at = at
    BY <1>0, <2>1, <2>2, <2>3, ChainGotoFacts DEF RecordedOf
  <2>6. ChainOf(req'[s], ledger'[s], logged'[s])
    BY <2>5, NothingYet
  <2> QED
    BY <1>0, <2>1, <2>2, <2>3, <2>4, <2>6, ChainGotoFacts, OneRequest
<1>3. CASE Chain!AuthMiddleware(s)
  <2> DEFINE free == \/ ~authOn \/ ~Chain!V1(req[s].path) \/ req[s].path = "/v1/health"
                     \/ Chain!IsTokenPost(req[s])
             valid == Chain!ValidateToken(req[s].token)
  <2>1. /\ req[s].at = "auth"
        /\ req' = [req EXCEPT ![s].at = IF free \/ valid THEN "ironclaw" ELSE "refused",
                              ![s].valid = valid]
        /\ UNCHANGED <<chainNow, authOn, issued, ledger, logged>>
    BY <1>3 DEF Chain!AuthMiddleware, Chain!KeepRest
  <2>2. valid \in BOOLEAN
    BY DEF Chain!ValidateToken
  <2> HIDE DEF valid, free
  <2>3. /\ req' \in [Goroutines -> ChainRequests]
        /\ req'[s].at = IF free \/ valid THEN "ironclaw" ELSE "refused"
        /\ Same(req'[s], req[s]) /\ req'[s].valid = valid
        /\ \A q \in Goroutines : q # s => req'[q] = req[q]
    BY <1>0, <2>1, <2>2 DEF ChainTypes, ChainRequests, ChainPlaces, Same
  <2>4. ChainTypes'
    BY <1>0, <2>1, <2>3 DEF ChainTypes
  <2>5. ledger'[s] = <<>> /\ logged'[s] = 0
    BY <1>0, <2>1 DEF RecordedOf
  <2>6. ChainOf(req'[s], ledger'[s], logged'[s])
    <3>1. CASE req'[s].at = "refused"
      BY <2>5, <3>1, NothingYet
    <3>2. CASE req'[s].at = "ironclaw"
      <4>1. free \/ valid
        BY <2>3, <3>2
      <4>2. free => ~authOn \/ ~Chain!V1(req'[s].path) \/ Chain!IsFastPath(req'[s].path)
                    \/ Chain!IsTokenPost(req'[s])
        BY <2>3, SameRequest DEF free, Same, Chain!IsFastPath
      <4>3. AuthenticatedOf(req'[s])
        BY <2>3, <4>1, <4>2 DEF AuthenticatedOf
      <4> QED
        BY <2>5, <3>2, <4>3 DEF ChainOf, RecordedOf, Chain!LeftBehind
    <3> QED
      BY <2>3, <3>1, <3>2
  <2> QED
    BY <2>1, <2>3, <2>4, <2>6, OneRequest
<1>4. CASE Chain!Ironclaw(s)
  <2>1. PICK at \in {"handler", "refused"} : Chain!Goto(s, at)
    BY <1>4 DEF Chain!Ironclaw
  <2>2. UNCHANGED <<chainNow, authOn, issued, ledger, logged>> /\ req[s].at = "ironclaw"
    BY <1>4 DEF Chain!Ironclaw, Chain!KeepRest
  <2>3. at \in ChainPlaces
    BY DEF ChainPlaces
  <2>4. ChainTypes'
    BY <1>0, <2>1, <2>2, <2>3, ChainGotoFacts DEF ChainTypes
  <2>5. ledger'[s] = <<>> /\ logged'[s] = 0 /\ req'[s].at = at
    BY <1>0, <2>1, <2>2, <2>3, ChainGotoFacts DEF RecordedOf
  <2>6. Same(req'[s], req[s]) /\ req'[s].valid = req[s].valid
    BY <1>0, <2>1, <2>3, ChainGotoFacts
  <2>7. AuthenticatedOf(req'[s])
    BY <1>0, <2>2, <2>6, SameRequest DEF AuthenticatedOf, Same
  <2>8. ChainOf(req'[s], ledger'[s], logged'[s])
    BY <2>5, <2>7 DEF ChainOf, RecordedOf, Chain!LeftBehind
  <2> QED
    BY <1>0, <2>1, <2>2, <2>3, <2>4, <2>8, ChainGotoFacts, OneRequest
<1>5. CASE Chain!Panic(s)
  <2>1. /\ Chain!Goto(s, "answered") /\ Chain!Record(s, "panic_recovered")
        /\ UNCHANGED <<chainNow, authOn, issued, logged>> /\ req[s].at = "handler"
    BY <1>5 DEF Chain!Panic
  <2>2. "answered" \in ChainPlaces /\ "panic_recovered" \in Entries
    BY DEF ChainPlaces, Entries
  <2>3. ledger[s] = <<>> /\ logged'[s] = 0
    BY <1>0, <2>1 DEF RecordedOf
  <2>4. ledger'[s] = <<"panic_recovered">>
    BY <1>0, <2>1, <2>2, <2>3, RecordDoes
  <2>5. ChainTypes'
    BY <1>0, <2>1, <2>2, ChainGotoFacts, RecordDoes DEF ChainTypes
  <2>6. req'[s].at = "answered"
    BY <1>0, <2>1, <2>2, ChainGotoFacts
  <2>7. ChainOf(req'[s], ledger'[s], logged'[s])
    BY <2>3, <2>4, <2>6 DEF ChainOf, RecordedOf, AuthenticatedOf, Chain!LeftBehind
  <2> QED
    BY <1>0, <2>1, <2>2, <2>5, <2>7, ChainGotoFacts, RecordDoes, OneRequest
<1>6. CASE \/ Chain!HandleToken(s) \/ Chain!HandleSovereigntyPost(s)
           \/ Chain!HandleRateLimitPut(s) \/ Chain!HandleOther(s)
  <2>1. /\ Chain!Goto(s, IF Chain!Wrapped(s) THEN "ledger" ELSE "answered") /\ req[s].at = "handler"
        /\ UNCHANGED <<chainNow, authOn, logged>>
    BY <1>6 DEF Chain!HandleToken, Chain!HandleSovereigntyPost, Chain!HandleRateLimitPut,
       Chain!HandleOther, Chain!Return, Chain!KeepRest
  <2>2. issued' \subseteq Tokens
    BY <1>0, <1>6 DEF Chain!HandleToken, Chain!HandleSovereigntyPost, Chain!HandleOther,
       Chain!HandleRateLimitPut, Chain!KeepRest, ChainTypes, Tokens
  <2>3. PICK at \in {"ledger", "answered"} :
          Chain!Goto(s, at) /\ (at = "ledger" <=> Chain!Wrapped(s))
    BY <2>1
  <2>4. at \in ChainPlaces /\ "ratelimit_update" \in Entries
    BY DEF ChainPlaces, Entries
  <2>5. /\ ledger' \in [Goroutines -> Seq(Entries)]
        /\ \A q \in Goroutines : q # s => ledger'[q] = ledger[q]
        /\ \/ ledger'[s] = ledger[s]
           \/ /\ Chain!IsRateLimitPut(req[s])
              /\ ledger'[s] = Append(ledger[s], "ratelimit_update")
    <3>1. CASE UNCHANGED ledger
      BY <1>0, <3>1 DEF ChainTypes
    <3>2. CASE Chain!IsRateLimitPut(req[s]) /\ Chain!Record(s, "ratelimit_update")
      BY <1>0, <2>4, <3>2, RecordDoes
    <3> QED
      BY <1>6, <3>1, <3>2 DEF Chain!HandleToken, Chain!HandleSovereigntyPost, Chain!HandleOther,
         Chain!HandleRateLimitPut, Chain!KeepRest
  <2>6. ChainTypes'
    BY <1>0, <2>1, <2>2, <2>3, <2>4, <2>5, ChainGotoFacts DEF ChainTypes
  <2>7. ledger[s] = <<>> /\ logged'[s] = 0
    BY <1>0, <2>1 DEF RecordedOf
  <2>8. /\ req'[s].at = at /\ Same(req'[s], req[s]) /\ req'[s].valid = req[s].valid
        /\ \A q \in Goroutines : q # s => req'[q] = req[q]
    BY <1>0, <2>3, <2>4, ChainGotoFacts
  <2>9. ledger'[s] \in Chain!OwnEntries(req[s])
    <3>1. ledger'[s] = <<>> \/ (Chain!IsRateLimitPut(req[s]) /\ ledger'[s] = <<"ratelimit_update">>)
      BY <2>5, <2>7
    <3> QED
      BY <3>1 DEF Chain!OwnEntries
  <2>10. AuthenticatedOf(req'[s])
    BY <1>0, <2>1, <2>8, SameRequest DEF AuthenticatedOf, Same
  <2>11. ChainOf(req'[s], ledger'[s], logged'[s])
    <3>1. CASE at = "ledger"
      BY <2>7, <2>8, <2>9, <2>10, <3>1, SameRequest
        DEF ChainOf, RecordedOf, Chain!LeftBehind
    <3>2. CASE at = "answered"
      <4>1. Chain!IsFastPath(req'[s].path)
        BY <2>3, <2>8, <3>2 DEF Chain!Wrapped, Same
      <4> QED
        BY <2>8, <2>10, <3>2, <4>1 DEF ChainOf, RecordedOf, Chain!LeftBehind
    <3> QED
      BY <3>1, <3>2
  <2>12. \A q \in Goroutines : q # s => logged'[q] = logged[q]
    BY <2>1
  <2>13. authOn' = authOn
    BY <2>1
  <2> QED
    BY <2>5, <2>6, <2>8, <2>11, <2>12, <2>13, OneRequest
<1>7. CASE Chain!LedgerMiddleware(s)
  <2>1. /\ Chain!Goto(s, "answered") /\ req[s].at = "ledger"
        /\ IF Chain!V1(req[s].path) THEN Chain!Record(s, "request") ELSE UNCHANGED ledger
        /\ logged' = [logged EXCEPT ![s] = @ + 1]
        /\ UNCHANGED <<chainNow, authOn, issued>>
    BY <1>7 DEF Chain!LedgerMiddleware
  <2>2. "answered" \in ChainPlaces /\ "request" \in Entries
    BY DEF ChainPlaces, Entries
  <2>3. /\ ledger' \in [Goroutines -> Seq(Entries)]
        /\ ledger'[s] = IF Chain!V1(req[s].path) THEN Append(ledger[s], "request") ELSE ledger[s]
        /\ \A q \in Goroutines : q # s => ledger'[q] = ledger[q]
    <3>1. CASE Chain!V1(req[s].path)
      BY <1>0, <2>1, <2>2, <3>1, RecordDoes
    <3>2. CASE ~Chain!V1(req[s].path)
      BY <1>0, <2>1, <3>2 DEF ChainTypes
    <3> QED
      BY <3>1, <3>2
  <2>4. /\ logged' \in [Goroutines -> Nat] /\ logged'[s] = 1
        /\ \A q \in Goroutines : q # s => logged'[q] = logged[q]
    BY <1>0, <2>1 DEF ChainTypes, RecordedOf
  <2>5. ChainTypes'
    BY <1>0, <2>1, <2>2, <2>3, <2>4, ChainGotoFacts DEF ChainTypes
  <2>6. ledger[s] \in Chain!OwnEntries(req[s])
    BY <1>0, <2>1 DEF RecordedOf
  <2>7. req'[s].at = "answered" /\ Same(req'[s], req[s])
    BY <1>0, <2>1, <2>2, ChainGotoFacts
  <2>8. ChainOf(req'[s], ledger'[s], logged'[s])
    BY <2>3, <2>4, <2>6, <2>7, Recorded
  <2> QED
    BY <1>0, <2>1, <2>2, <2>3, <2>4, <2>5, <2>8, ChainGotoFacts, OneRequest
<1>8. CASE Chain!Done(s)
  <2>1. /\ req' = [req EXCEPT ![s] = Chain!NoRequest]
        /\ ledger' = [ledger EXCEPT ![s] = <<>>] /\ logged' = [logged EXCEPT ![s] = 0]
        /\ UNCHANGED <<chainNow, authOn, issued>>
    BY <1>8 DEF Chain!Done
  <2>2. /\ req'[s].at = "idle" /\ ledger'[s] = <<>> /\ logged'[s] = 0
        /\ \A q \in Goroutines : q # s =>
             req'[q] = req[q] /\ ledger'[q] = ledger[q] /\ logged'[q] = logged[q]
    BY <1>0, <2>1, NoRequestType DEF ChainTypes
  <2>3. ChainTypes'
    BY <1>0, <2>1, NoRequestType DEF ChainTypes
  <2>4. ChainOf(req'[s], ledger'[s], logged'[s])
    BY <2>2, NothingYet
  <2> QED
    BY <2>1, <2>2, <2>3, <2>4, OneRequest
<1> QED
  BY <1>1, <1>2, <1>3, <1>4, <1>5, <1>6, <1>7, <1>8

LEMMA ChainInvNext == ChainInv /\ [Chain!Next]_chainVars => ChainInv'
<1> SUFFICES ASSUME ChainInv, [Chain!Next]_chainVars PROVE ChainInv'
  OBVIOUS
<1>1. ASSUME UNCHANGED <<authOn, req, ledger, logged>>, chainNow' \in Nat, issued' \subseteq Tokens
      PROVE  ChainInv'
  BY <1>1 DEF ChainInv, ChainTypes, ChainOf, RecordedOf, AuthenticatedOf
<1>2. ASSUME NEW t \in issued, Chain!Refresh(t) PROVE ChainInv'
  BY <1>1, <1>2 DEF Chain!Refresh, ChainInv, ChainTypes, Tokens
<1>3. CASE Chain!Tick
  BY <1>1, <1>3 DEF Chain!Tick, ChainInv, ChainTypes
<1>4. CASE UNCHANGED chainVars
  BY <1>1, <1>4 DEF chainVars, ChainInv, ChainTypes
<1> QED
  BY <1>2, <1>3, <1>4, ServeInv DEF Chain!Next

-----------------------------------------------------------------------------
(* All of them *)

(* The theorems of Sovereignty are used with goroutines that serve POSTs,  *)
(* and one that sends for each address.                                    *)
SovP == INSTANCE SovereigntyProofs WITH Posts <- Goroutines, Senders <- Addresses

LEMMA SovereigntyInit == Sov!Init => SovP!Init
<1> SUFFICES ASSUME Sov!Init PROVE SovP!Init
  OBVIOUS
<1>1. /\ clientMode \in SovP!Modes
      /\ \E loaded \in SovP!LoadSovereigntyConfig(clientMode) :
           rules = loaded[1] /\ clientDomains = loaded[2]
  <2>1. SovP!ConfiguredRules = Sov!ConfiguredRules
    BY DEF Sov!ConfiguredRules, SovP!ConfiguredRules, Sov!Rule, SovP!Rule
  <2>2. SovP!ConfiguredDomains = Sov!ConfiguredDomains
    BY DEF Sov!ConfiguredDomains, SovP!ConfiguredDomains
  <2>3. SovP!LoadSovereigntyConfig(clientMode) = Sov!LoadSovereigntyConfig(clientMode)
    BY <2>1, <2>2 DEF Sov!LoadSovereigntyConfig, SovP!LoadSovereigntyConfig
  <2> QED
    BY <2>3 DEF Sov!Init, Sov!Modes, SovP!Modes
<1>2. gatewayMode = clientMode /\ overlapped = FALSE /\ posts = 0 /\ sends = 0
  BY DEF Sov!Init
<1>3. post = [p \in Goroutines |-> SovP!IdlePost]
  BY DEF Sov!Init, Sov!IdlePost, SovP!IdlePost
<1>4. send = [s \in Addresses |-> SovP!IdleSend]
  BY DEF Sov!Init, Sov!IdleSend, SovP!IdleSend, Sov!Request, SovP!Request,
     Sov!NoDest, SovP!NoDest
<1>5. switched = [m \in SovP!Modes |-> 0] /\ recorded = [m \in SovP!Modes |-> 0]
  BY DEF Sov!Init, Sov!Modes, SovP!Modes
<1> QED
  BY <1>1, <1>2, <1>3, <1>4, <1>5 DEF SovP!Init

LEMMA SovereigntyNext == Sov!Next => SovP!Next
<1>1. ASSUME NEW p \in Goroutines, Sov!Post(p) PROVE SovP!Post(p)
  <2>1. Sov!PassGateway(p) => SovP!PassGateway(p)
    BY DEF Sov!PassGateway, SovP!PassGateway, Sov!Modes, SovP!Modes, Sov!PastCheck,
       SovP!PastCheck, Sov!clientVars, SovP!clientVars, Sov!sendVars, SovP!sendVars
  <2>2. Sov!SetSovereigntyMode(p) => SovP!SetSovereigntyMode(p)
    BY DEF Sov!SetSovereigntyMode, SovP!SetSovereigntyMode, Sov!NowInForce, SovP!NowInForce
  <2>3. Sov!RecordSwitch(p) => SovP!RecordSwitch(p)
    BY DEF Sov!RecordSwitch, SovP!RecordSwitch, Sov!clientVars, SovP!clientVars, Sov!sendVars,
       SovP!sendVars
  <2>4. Sov!SetGatewayMode(p) => SovP!SetGatewayMode(p)
    BY DEF Sov!SetGatewayMode, SovP!SetGatewayMode, Sov!IdlePost, SovP!IdlePost,
       Sov!clientVars, SovP!clientVars, Sov!sendVars, SovP!sendVars
  <2> QED
    BY <1>1, <2>1, <2>2, <2>3, <2>4 DEF Sov!Post, SovP!Post
<1>2. ASSUME NEW s \in Addresses, Sov!RoundTrip(s) PROVE SovP!RoundTrip(s)
  <2>1. Sov!BeginSend(s) => SovP!BeginSend(s)
    BY DEF Sov!BeginSend, SovP!BeginSend, Sov!Request, SovP!Request, Sov!NoDest, SovP!NoDest,
       Sov!clientVars, SovP!clientVars, Sov!postVars, SovP!postVars
  <2>2. Sov!ReadMode(s) => SovP!ReadMode(s)
    <3>1. SovP!Dests = Sov!Dests
      BY DEF Sov!Dests, SovP!Dests, Sov!Hosts, SovP!Hosts
    <3> QED
      BY <3>1 DEF Sov!ReadMode, SovP!ReadMode, Sov!Request, SovP!Request,
         Sov!clientVars, SovP!clientVars, Sov!postVars, SovP!postVars
  <2>3. Sov!Decision(s) <=> SovP!Decision(s)
    BY DEF Sov!Decision, SovP!Decision, Sov!Allowed, SovP!Allowed, Sov!RulesAllow,
       SovP!RulesAllow, Sov!Schemed, SovP!Schemed, Sov!DomainAllowed, SovP!DomainAllowed,
       Sov!RuleMatches, SovP!RuleMatches, Sov!InDomains, SovP!InDomains, Sov!Covers,
       SovP!Covers, Sov!PortOf, SovP!PortOf, Sov!Hosts, SovP!Hosts
  <2>4. Sov!Send(s) => SovP!Send(s)
    BY <2>3 DEF Sov!Send, SovP!Send, Sov!clientVars, SovP!clientVars, Sov!postVars, SovP!postVars
  <2>5. Sov!Block(s) => SovP!Block(s)
    BY <2>3 DEF Sov!Block, SovP!Block, Sov!clientVars, SovP!clientVars, Sov!postVars, SovP!postVars
  <2>6. Sov!Return(s) => SovP!Return(s)
    BY DEF Sov!Return, SovP!Return, Sov!IdleSend, SovP!IdleSend, Sov!clientVars,
       SovP!clientVars, Sov!postVars, SovP!postVars, Sov!Request, SovP!Request, Sov!NoDest,
       SovP!NoDest
  <2> QED
    BY <1>2, <2>1, <2>2, <2>4, <2>5, <2>6 DEF Sov!RoundTrip, SovP!RoundTrip
<1> QED
  BY <1>1, <1>2 DEF Sov!Next, SovP!Next

LEMMA SovereigntySpec == GatewaySpec => SovP!Spec
<1>1. GatewayInit => SovP!Init
  BY SovereigntyInit DEF GatewayInit
<1>2. [GatewayNext]_gatewayVars => [SovP!Next]_(SovP!vars)
  <2> SUFFICES ASSUME [GatewayNext]_gatewayVars PROVE [SovP!Next]_(SovP!vars)
    OBVIOUS
  <2>1. Sov!Next \/ UNCHANGED sovVars
    BY DEF GatewayNext, SovereigntyStep, MachineStep, RateStep, WallStep, ChainStep, ChatStep,
       gatewayVars
  <2>2. CASE Sov!Next
    BY <2>2, SovereigntyNext
  <2>3. CASE UNCHANGED sovVars
    BY <2>3 DEF SovP!vars, SovP!clientVars, SovP!postVars, SovP!sendVars, sovVars
  <2> QED
    BY <2>1, <2>2, <2>3
<1> QED
  BY <1>1, <1>2, PTL DEF GatewaySpec, SovP!Spec

(* Both checks of outbound requests look at the mode and at the domains.   *)
LEMMA MachineAgrees == Machine!ChecksAgree
BY DEF Machine!ChecksAgree, Machine!TripleCheck, Machine!DomainAllowed

GatewayInv == RateInv /\ WallInv /\ ChainInv /\ ChatInv /\ WindowsInv

LEMMA GatewayInvInit == GatewayInit => GatewayInv
BY GatewayAssumption, RateInvInit, WallInvInit, ChainInvInit, ChatInvInit, WindowsInvInit
   DEF GatewayInit, GatewayInv

LEMMA GatewayInvNext == GatewayInv /\ [GatewayNext]_gatewayVars => GatewayInv'
<1> SUFFICES ASSUME GatewayInv, [GatewayNext]_gatewayVars PROVE GatewayInv'
  OBVIOUS
<1>1. [Rate!Next]_rateVars /\ [Wall!Next]_wallVars
  BY DEF GatewayNext, SovereigntyStep, MachineStep, RateStep, WallStep, ChainStep, ChatStep,
     gatewayVars
<1>2. [Chain!Next]_chainVars /\ [Next]_vars
  BY DEF GatewayNext, SovereigntyStep, MachineStep, RateStep, WallStep, ChainStep, ChatStep,
     gatewayVars, chatVars
<1>3. RateInv' /\ WallInv'
  BY <1>1, GatewayAssumption, RateInvNext, WallInvNext DEF GatewayInv
<1>4. ChainInv' /\ ChatInv' /\ WindowsInv'
  BY <1>2, ChainInvNext, ChatInvNext, WindowsInvNext DEF GatewayInv
<1> QED
  BY <1>3, <1>4 DEF GatewayInv

LEMMA GatewayInvariant == GatewaySpec => []GatewayInv
BY GatewayInvInit, GatewayInvNext, PTL DEF GatewaySpec

(* An outbound request is sent only if a pair of mode and domains that was *)
(* in force since it began allows it, and blocked only if one forbids it;  *)
(* TripleCheck allows nothing the client forbids (governor/client.go,      *)
(* RoundTrip; governor/sovereignty.go, TripleCheck).                       *)
THEOREM GatewayOutboundAsChecked == GatewaySpec => []OutboundAsChecked
<1>1. SovP!DecidedAsInForce => OutboundAsChecked
  <2>1. SovP!DecidedAsInForce => Sov!DecidedAsInForce
    BY DEF SovP!DecidedAsInForce, Sov!DecidedAsInForce, SovP!Allowed, Sov!Allowed,
       SovP!RulesAllow, Sov!RulesAllow, SovP!Schemed, Sov!Schemed, SovP!DomainAllowed,
       Sov!DomainAllowed, SovP!RuleMatches, Sov!RuleMatches, SovP!InDomains, Sov!InDomains,
       SovP!Covers, Sov!Covers, SovP!PortOf, Sov!PortOf, SovP!Hosts, Sov!Hosts
  <2> QED
    BY <2>1, MachineAgrees DEF OutboundAsChecked
<1>2. SovP!Spec => []SovP!DecidedAsInForce
  BY SovP!OutboundDecided
<1> QED
  BY <1>1, <1>2, SovereigntySpec, PTL

(* Every switch of the mode is in the ledger or about to be, and POSTs     *)
(* that never overlapped leave the gateway and the client in one mode      *)
(* (gateway/handlers.go, handleSovereigntyPost).                           *)
THEOREM GatewaySwitchesKept == GatewaySpec => []SwitchesKept
<1>1. SovP!SwitchesRecorded /\ SovP!ModesAgree => SwitchesKept
  <2>1. SovP!SwitchesRecorded => Sov!SwitchesRecorded
    BY DEF SovP!SwitchesRecorded, Sov!SwitchesRecorded, SovP!Modes, Sov!Modes,
       SovP!Cardinality, Sov!Cardinality
  <2>2. SovP!ModesAgree => Sov!ModesAgree
    BY DEF SovP!ModesAgree, Sov!ModesAgree, SovP!PastCheck, Sov!PastCheck
  <2> QED
    BY <2>1, <2>2 DEF SwitchesKept
<1>2. SovP!Spec => []SovP!SwitchesRecorded
  <2>1. SovP!IsFiniteSet(Goroutines)
    BY GatewayAssumption DEF IsFiniteSet, SovP!IsFiniteSet
  <2> QED
    BY <2>1, SovP!SwitchesAllRecorded
<1>3. SovP!Spec => []SovP!ModesAgree
  BY SovP!ModesAgreeAlone
<1> QED
  BY <1>1, <1>2, <1>3, SovereigntySpec, PTL

(* Whenever its limits were replaced, from any grant to any later one a    *)
(* bucket grants no more than its burst and what it gains in between; and  *)
(* the firewall lets at most two windows of one address through in a       *)
(* second (governor/ratelimit.go, TokenBucket.Allow; governor/firewall.go, *)
(* recordRequest).                                                         *)
THEOREM GatewayAdmissionBounded == GatewaySpec => []AdmissionBounded
<1>1. GatewayInv => AdmissionBounded
  BY RateCounted, WallCounted DEF GatewayInv, AdmissionBounded
<1> QED
  BY <1>1, GatewayInvariant, PTL

(* A refused request leaves no entry of the gateway.  Of one whose handler *)
(* panicked behind the full chain the ledger has that and the access log   *)
(* nothing; of one whose handler returned the log has one line and, under  *)
(* /v1/, the ledger one entry behind what the handler recorded itself.     *)
(* While authentication is on, none runs under /v1/ without a token that   *)
(* was valid when it was checked, but for the two POSTs that hand out      *)
(* tokens (gateway/middleware.go, ledgerMiddleware; gateway/gateway.go,    *)
(* recoverMiddleware, authMiddleware).                                     *)
THEOREM GatewayRequestsAccounted == GatewaySpec => []RequestsAccounted
<1>1. ChainInv => Chain!RecordedOnce
  BY DEF ChainInv, ChainOf, RecordedOf, Chain!RecordedOnce
<1>2. ChainInv => Chain!HandlersAuthenticated
  BY DEF ChainInv, ChainOf, AuthenticatedOf, Chain!HandlersAuthenticated, Chain!Wrapped
<1>3. GatewayInv => RequestsAccounted
  BY <1>1, <1>2 DEF GatewayInv, RequestsAccounted
<1> QED
  BY <1>3, GatewayInvariant, PTL

(* A chat takes one place of its user and gives it back however it ends;   *)
(* in any second at most PerSkillQPS chats pass the quota and, in any      *)
(* second of the clock, at most MaxQPS the policy                          *)
(* (gateway/handlers_chat.go, governor/quota.go,                           *)
(* governor/ironclaw/ironclaw.go).                                         *)
THEOREM GatewayConversationsBounded == GatewaySpec => []ConversationsBounded
<1>1. GatewayInv => ConversationsBounded
  BY ChatsCounted, WindowsCounted DEF GatewayInv, ConversationsBounded
<1> QED
  BY <1>1, GatewayInvariant, PTL
=============================================================================
