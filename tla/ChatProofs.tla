----------------------------- MODULE ChatProofs -----------------------------
(***************************************************************************)
(* The chats and the file of the conversation: what the run of Chat checks *)
(* on a small instance, for any finite set of goroutines, any window and   *)
(* any number of chats, failures and crashes.                              *)
(*                                                                         *)
(* One part of the invariant holds whatever overlaps: a chat that writes   *)
(* the file holds a copy of the session that ends with its own message.    *)
(* The others follow the file from its creation to its rename as long as   *)
(* no two uses of the conversation have been in progress at once.          *)
(***************************************************************************)
EXTENDS Chat, FiniteSetTheorems, SequenceTheorems, WellFoundedInduction, TLAPS

-----------------------------------------------------------------------------
(* Lists of messages *)

LEMMA EmptyHasNone == ASSUME NEW S PROVE <<>> \in Seq(S) /\ Len(<<>>) = 0
BY EmptySeq

(* The last n elements of a list.                                          *)
LEMMA LatestIs ==
  ASSUME NEW S, NEW s \in Seq(S), NEW n \in Nat \ {0}
  PROVE  /\ Latest(s, n) \in Seq(S)
         /\ Len(Latest(s, n)) = (IF Len(s) > n THEN n ELSE Len(s))
         /\ \A i \in 1..Len(Latest(s, n)) :
              Latest(s, n)[i] = s[i + (Len(s) - Len(Latest(s, n)))]
         /\ Len(s) <= n => Latest(s, n) = s
<1> DEFINE m == IF Len(s) > n THEN Len(s) - n + 1 ELSE 1
<1>1. Len(s) \in Nat /\ m \in Nat /\ m >= 1 /\ m \in Int /\ Len(s) \in Int
  OBVIOUS
<1>2. \A i \in m..Len(s) : s[i] \in S
  BY <1>1, ElementOfSeq
<1>3. /\ SubSeq(s, m, Len(s)) \in Seq(S)
      /\ Len(SubSeq(s, m, Len(s))) = IF m <= Len(s) THEN Len(s) - m + 1 ELSE 0
      /\ \A i \in 1..(Len(s) - m + 1) : SubSeq(s, m, Len(s))[i] = s[m + i - 1]
  <2> HIDE DEF m
  <2> QED
    BY <1>1, <1>2, SubSeqProperties
<1>4. Latest(s, n) = SubSeq(s, m, Len(s))
  BY DEF Latest
<1>5. Len(Latest(s, n)) = (IF Len(s) > n THEN n ELSE Len(s))
  <2>1. Len(Latest(s, n)) = IF m <= Len(s) THEN Len(s) - m + 1 ELSE 0
    BY <1>3, <1>4
  <2>2. CASE Len(s) > n
    <3>1. m = Len(s) - n + 1 /\ m <= Len(s) /\ Len(s) - m + 1 = n
      BY <1>1, <2>2
    <3> QED
      BY <2>1, <2>2, <3>1
  <2>3. CASE ~(Len(s) > n)
    <3>1. m = 1
      BY <2>3
    <3> QED
      BY <1>1, <2>1, <2>3, <3>1
  <2> QED
    BY <2>2, <2>3
<1>6. \A i \in 1..Len(Latest(s, n)) :
        Latest(s, n)[i] = s[i + (Len(s) - Len(Latest(s, n)))]
  <2> TAKE i \in 1..Len(Latest(s, n))
  <2>1. i \in 1..(Len(s) - m + 1) /\ m + i - 1 = i + (Len(s) - Len(Latest(s, n)))
    BY <1>1, <1>5
  <2> QED
    BY <1>3, <1>4, <2>1
<1>7. Len(s) <= n => Latest(s, n) = s
  <2> HAVE Len(s) <= n
  <2>1. m = 1
    BY <1>1
  <2>2. Latest(s, n) = SubSeq(s, 1, Len(s))
    BY <1>4, <2>1
  <2> QED
    BY <2>2, SubSeqFull
<1> QED
  BY <1>3, <1>4, <1>5, <1>6, <1>7

(* The message that is appended is the last one of the window.             *)
LEMMA LatestOfAppend ==
  ASSUME NEW s \in Seq(Nat), NEW x \in Nat, NEW n \in Nat \ {0}
  PROVE  LET l == Latest(Append(s, x), n)
         IN  l \in Seq(Nat) /\ Len(l) \in 1..n /\ l # <<>> /\ l[Len(l)] = x
<1> DEFINE l == Latest(Append(s, x), n)
<1>1. /\ Append(s, x) \in Seq(Nat)
      /\ Len(Append(s, x)) = Len(s) + 1
      /\ Append(s, x)[Len(s) + 1] = x
  OBVIOUS
<1>2. /\ l \in Seq(Nat)
      /\ Len(l) = (IF Len(Append(s, x)) > n THEN n ELSE Len(Append(s, x)))
      /\ \A i \in 1..Len(l) : l[i] = Append(s, x)[i + (Len(Append(s, x)) - Len(l))]
  BY <1>1, LatestIs
<1>3. Len(s) \in Nat /\ Len(l) \in 1..n
  BY <1>1, <1>2
<1>4. l[Len(l)] = x
  <2> HIDE DEF l
  <2>1. Len(l) \in 1..Len(l) /\ Len(l) + (Len(Append(s, x)) - Len(l)) = Len(s) + 1
    BY <1>1, <1>3
  <2> QED
    BY <1>1, <1>2, <2>1
<1>5. l # <<>>
  <2> HIDE DEF l
  <2> QED
    BY <1>3, EmptyHasNone
<1> QED
  BY <1>2, <1>3, <1>4, <1>5
-----------------------------------------------------------------------------
LEMMA LessIsWellFounded == IsWellFoundedOn({ss \in Nat \X Nat : ss[1] < ss[2]}, Nat)
<1>1. IsWellFoundedOn(OpToRel(<, Nat), Nat)
  BY NatLessThanWellFounded
<1>2. OpToRel(<, Nat) = {ss \in Nat \X Nat : ss[1] < ss[2]}
  BY DEF OpToRel
<1> QED
  BY <1>1, <1>2, Zenon

(* What holds of some number holds of a least one.                         *)
LEMMA LeastNumber ==
  ASSUME NEW T, T \subseteq Nat, T # {}
  PROVE  \E n \in T : \A m \in T : n <= m
<1> DEFINE less == {ss \in Nat \X Nat : ss[1] < ss[2]}
<1>1. \E n \in T : \A m \in T : ~(<<m, n>> \in less)
  <2> HIDE DEF less
  <2>1. IsWellFoundedOn(less, Nat)
    BY LessIsWellFounded DEF less
  <2> QED
    BY <2>1, WFMin
<1>2. PICK n \in T : \A m \in T : ~(<<m, n>> \in less)
  BY <1>1
<1>3. \A m \in T : ~(m < n)
  <2> TAKE m \in T
  <2>1. m \in Nat /\ n \in Nat /\ <<m, n>> \in Nat \X Nat /\ ~(<<m, n>> \in less)
    BY <1>2
  <2> QED
    BY <2>1
<1> QED
  BY <1>3

(* A set of places has a k-th for every k up to its size.                  *)
LEMMA NthIsPlace ==
  ASSUME NEW n \in Nat, NEW P \in SUBSET (1..n), NEW k \in 1..Cardinality(P)
  PROVE  Nth(P, k) \in P /\ Cardinality({j \in P : j <= Nth(P, k)}) = k
<1> DEFINE upto(i) == {j \in P : j <= i}
           T == {i \in Nat : i >= n \/ Cardinality(upto(i)) >= k}
<1>1. IsFiniteSet(P) /\ Cardinality(P) \in Nat
  <2>1. IsFiniteSet(1..n)
    BY FS_Interval
  <2> QED
    BY <2>1, FS_Subset, FS_CardinalityType
<1>0. \A j \in P : j \in Nat /\ j >= 1 /\ j <= n
  OBVIOUS
<1>2. \A i \in Nat : IsFiniteSet(upto(i)) /\ Cardinality(upto(i)) \in Nat
  <2> TAKE i \in Nat
  <2>1. upto(i) \in SUBSET P
    OBVIOUS
  <2> HIDE DEF upto
  <2> QED
    BY <1>1, <2>1, FS_Subset, FS_CardinalityType
<1>3. \E i \in T : \A m \in T : i <= m
  <2>1. n \in T /\ T \subseteq Nat
    OBVIOUS
  <2> HIDE DEF T
  <2> QED
    BY <2>1, LeastNumber
<1>4. PICK i \in T : \A m \in T : i <= m
  BY <1>3
<1>5. i \in Nat
  BY <1>4
<1>6. Cardinality(upto(i)) >= k
  <2>1. CASE i >= n
    <3>0. \A j \in P : j <= i
      BY <1>0, <1>5, <2>1
    <3>1. upto(i) = P
      BY <3>0
    <3> QED
      BY <1>1, <3>1
  <2>2. CASE ~(i >= n)
    BY <1>4, <1>5, <2>2
  <2> QED
    BY <2>1, <2>2
<1>7. i # 0
  <2>0. \A j \in P : ~(j <= 0)
    BY <1>0
  <2>1. upto(0) = {}
    BY <2>0
  <2>2. Cardinality({}) = 0
    BY FS_EmptySet
  <2> SUFFICES ASSUME i = 0 PROVE FALSE
    OBVIOUS
  <2>3. Cardinality(upto(i)) = 0
    BY <2>1, <2>2
  <2> QED
    BY <1>6, <2>3
<1>8. i - 1 \in Nat /\ ~(Cardinality(upto(i - 1)) >= k)
  <2>1. i - 1 \in Nat /\ ~(i <= i - 1)
    BY <1>5, <1>7
  <2>2. i - 1 \notin T
    <3> HIDE DEF T
    <3> QED
      BY <1>4, <2>1
  <2> QED
    BY <2>1, <2>2
<1>9. i \in P /\ Cardinality(upto(i)) = Cardinality(upto(i - 1)) + 1
  <2>1. CASE i \in P
    <3>0. i \in P /\ ~(i <= i - 1) /\ \A j \in P : j <= i <=> (j <= i - 1 \/ j = i)
      BY <1>0, <1>5, <1>7, <2>1
    <3>1. upto(i) = upto(i - 1) \cup {i} /\ i \notin upto(i - 1)
      BY <3>0, Zenon
    <3> HIDE DEF upto
    <3> QED
      BY <1>2, <1>8, <2>1, <3>1, FS_AddElement
  <2>2. CASE i \notin P
    <3>0. \A j \in P : j <= i <=> j <= i - 1
      BY <1>0, <1>5, <1>7, <2>2
    <3>1. upto(i) = upto(i - 1)
      BY <3>0, Zenon
    <3> QED
      BY <1>6, <1>8, <3>1
  <2> QED
    BY <2>1, <2>2
<1>10. Cardinality(upto(i)) = k
  <2> HIDE DEF upto
  <2> QED
    BY <1>1, <1>2, <1>5, <1>6, <1>8, <1>9
<1>11. \E x \in P : Cardinality({j \in P : j <= x}) = k
  BY <1>9, <1>10
<1> QED
  BY <1>11 DEF Nth

(* The places of a set in their order: all of them, each once.             *)
LEMMA NthIsOrdered ==
  ASSUME NEW n \in Nat, NEW P \in SUBSET (1..n)
  PROVE  /\ Cardinality(P) \in Nat /\ Cardinality(P) <= n
         /\ \A k \in 1..Cardinality(P) : Nth(P, k) \in P
         /\ \A k, l \in 1..Cardinality(P) : k < l => Nth(P, k) < Nth(P, l)
         /\ \A i \in P : \E k \in 1..Cardinality(P) : Nth(P, k) = i
<1> DEFINE upto(i) == {j \in P : j <= i}
<1>1. IsFiniteSet(1..n) /\ Cardinality(1..n) = n
  <2>1. 1 \in Int /\ n \in Int
    OBVIOUS
  <2>2. IsFiniteSet(1..n) /\ Cardinality(1..n) = IF 1 > n THEN 0 ELSE n - 1 + 1
    BY <2>1, FS_Interval
  <2> QED
    BY <2>2
<1>2. IsFiniteSet(P) /\ Cardinality(P) \in Nat /\ Cardinality(P) <= n
  BY <1>1, FS_Subset, FS_CardinalityType
<1>3. \A i \in P : i \in Nat
  OBVIOUS
<1>4. \A i : upto(i) \in SUBSET P
  OBVIOUS
<1>5. \A k \in 1..Cardinality(P) : Nth(P, k) \in P /\ Cardinality(upto(Nth(P, k))) = k
  BY NthIsPlace
<1>6. \A i \in P : IsFiniteSet(upto(i)) /\ Cardinality(upto(i)) \in Nat
  <2> HIDE DEF upto
  <2> QED
    BY <1>2, <1>4, FS_Subset, FS_CardinalityType
<1>7. ASSUME NEW a \in P, NEW b \in P, a < b
      PROVE  Cardinality(upto(a)) < Cardinality(upto(b))
  <2>1. \A j \in P : j <= a => j <= b
    BY <1>3, <1>7
  <2>0. b <= b /\ ~(b <= a)
    BY <1>3, <1>7
  <2>2. upto(a) \in SUBSET upto(b) /\ b \in upto(b) /\ b \notin upto(a)
    BY <2>0, <2>1, Zenon
  <2>3. upto(a) # upto(b)
    BY <2>2
  <2> HIDE DEF upto
  <2>4. Cardinality(upto(a)) <= Cardinality(upto(b)) /\ Cardinality(upto(a)) # Cardinality(upto(b))
    BY <1>6, <2>2, <2>3, FS_Subset
  <2> QED
    BY <1>6, <2>4
<1>8. \A k, l \in 1..Cardinality(P) : k < l => Nth(P, k) < Nth(P, l)
  <2> TAKE k, l \in 1..Cardinality(P)
  <2> HAVE k < l
  <2> DEFINE a == Nth(P, k)
             b == Nth(P, l)
  <2>1. /\ a \in P /\ b \in P /\ a \in Nat /\ b \in Nat
        /\ Cardinality(upto(a)) = k /\ Cardinality(upto(b)) = l
    BY <1>3, <1>5
  <2> HIDE DEF a, b, upto
  <2>2. b < a => l < k
    BY <1>7, <2>1
  <2>3. a # b /\ k \in Nat /\ l \in Nat
    BY <1>2, <2>1
  <2>4. a < b
    BY <2>1, <2>2, <2>3
  <2> QED
    BY <2>4 DEF a, b
<1>9. \A i \in P : \E k \in 1..Cardinality(P) : Nth(P, k) = i
  <2> TAKE i \in P
  <2> DEFINE k == Cardinality(upto(i))
             a == Nth(P, k)
  <2>1. i \in upto(i)
    BY <1>3
  <2>2. k \in Nat /\ k <= Cardinality(P) /\ k # 0
    <3> HIDE DEF upto
    <3>1. k # 0
      BY <1>6, <2>1, FS_EmptySet
    <3> QED
      BY <1>2, <1>4, <1>6, <3>1, FS_Subset
  <2>3. k \in 1..Cardinality(P)
    <3> HIDE DEF k
    <3> QED
      BY <1>2, <2>2
  <2>4. a \in P /\ a \in Nat /\ i \in Nat /\ Cardinality(upto(a)) = k
    BY <1>3, <1>5, <2>3
  <2> HIDE DEF a, upto
  <2>5. ~(a < i) /\ ~(i < a)
    <3>1. a < i => Cardinality(upto(a)) < Cardinality(upto(i))
      BY <1>7, <2>4
    <3>2. i < a => Cardinality(upto(i)) < Cardinality(upto(a))
      BY <1>7, <2>4
    <3> QED
      BY <2>2, <2>4, <3>1, <3>2
  <2>6. a = i
    BY <2>4, <2>5
  <2> QED
    BY <2>3, <2>6 DEF a
<1> QED
  BY <1>2, <1>5, <1>8, <1>9

(* What a file gives is messages.                                          *)
LEMMA MessagesType ==
  ASSUME NEW lines \in Seq(Nat)
  PROVE  Messages(lines) \in Seq(Nat)
<1> DEFINE n == Len(lines)
           P == Whole(lines)
<1>1. n \in Nat /\ P \in SUBSET (1..n)
  BY DEF Whole
<1>2. Cardinality(P) \in Nat
  <2>1. IsFiniteSet(1..n)
    BY <1>1, FS_Interval
  <2> HIDE DEF P
  <2> QED
    BY <1>1, <2>1, FS_Subset, FS_CardinalityType
<1>3. \A k \in 1..Cardinality(P) : lines[Nth(P, k)] \in Nat
  <2> TAKE k \in 1..Cardinality(P)
  <2> HIDE DEF P, n
  <2>1. Nth(P, k) \in 1..n
    BY <1>1, NthIsPlace
  <2> QED
    BY <2>1, ElementOfSeq DEF n
<1>4. [k \in 1..Cardinality(P) |-> lines[Nth(P, k)]] \in Seq(Nat)
  <2> HIDE DEF P
  <2> QED
    BY <1>2, <1>3, IsASeq
<1> QED
  BY <1>4 DEF Messages, Picked

(* A file whose lines can all be read is read as it is.                    *)
Readable(m) == m # Torn /\ m \notin roleless /\ m \notin long

LEMMA MessagesWhole ==
  ASSUME NEW lines \in Seq(Nat), \A i \in 1..Len(lines) : Readable(lines[i])
  PROVE  Messages(lines) = lines
<1> DEFINE n == Len(lines)
<1>1. n \in Nat /\ Whole(lines) = 1..n
  <2>1. \A i \in 1..n : \A j \in 1..i : j \in 1..n
    OBVIOUS
  <2> QED
    BY <2>1 DEF Whole, Readable
<1>2. Cardinality(1..n) = n
  <2>1. 1 \in Int /\ n \in Int
    BY <1>1
  <2> HIDE DEF n
  <2>2. Cardinality(1..n) = IF 1 > n THEN 0 ELSE n - 1 + 1
    BY <2>1, FS_Interval
  <2> QED
    BY <1>1, <2>2
<1>3. \A k \in 1..n : Nth(1..n, k) = k
  <2> TAKE k \in 1..n
  <2> DEFINE i == Nth(1..n, k)
  <2> HIDE DEF n
  <2>1. i \in 1..n /\ Cardinality({j \in 1..n : j <= i}) = k
    <3>1. 1..n \in SUBSET (1..n) /\ k \in 1..Cardinality(1..n)
      BY <1>2
    <3> QED
      BY <1>1, <3>1, NthIsPlace
  <2> HIDE DEF i
  <2>2. {j \in 1..n : j <= i} = 1..i
    BY <1>1, <2>1
  <2>3. Cardinality(1..i) = i
    <3>1. 1 \in Int /\ i \in Int /\ 1 <= i
      BY <1>1, <2>1
    <3>2. Cardinality(1..i) = IF 1 > i THEN 0 ELSE i - 1 + 1
      BY <3>1, FS_Interval
    <3> QED
      BY <3>1, <3>2
  <2>4. i = k
    BY <2>1, <2>2, <2>3
  <2> QED
    BY <2>4 DEF i
<1>4. Messages(lines) \in Seq(Nat)
  BY MessagesType
<1>5. Messages(lines) = [k \in 1..n |-> lines[Nth(1..n, k)]]
  BY <1>1, <1>2 DEF Messages, Picked
<1>6. Messages(lines) = [k \in 1..n |-> lines[k]]
  BY <1>3, <1>5
<1>7. lines = [k \in 1..n |-> lines[k]]
  BY <1>1
<1> QED
  BY <1>6, <1>7
-----------------------------------------------------------------------------
(* The invariant *)

Persisting == {"create", "write", "sync", "rename"}

(* Some of the first n messages, each once and in order.                   *)
Ordered(s, n) ==
  /\ \A i \in 1..Len(s) : s[i] \in 1..n
  /\ \A i, j \in 1..Len(s) : i < j => s[i] < s[j]

(* Whatever overlaps: a chat that writes the file holds a copy of the      *)
(* session that ends with its own message, and has the file open while it  *)
(* writes.                                                                 *)
WritesOwn(c) ==
  /\ pc[c] \in {"load", "enter"} => role[c] = "none"
  /\ pc[c] \in Persisting => msgs[c] # <<>> /\ msgs[c][Len(msgs[c])] = own[c]
  /\ pc[c] \in {"write", "sync"} => fd[c] # 0
  /\ pc[c] \notin {"write", "sync"} => written[c] = 0
  /\ pc[c] = "ask" /\ role[c] = "user" =>
       prompt[c] = <<>> \/ prompt[c][Len(prompt[c])] = own[c]

OwnInv == (tmp # 0 => tmp # file) /\ \A c \in Chats : WritesOwn(c)

(* What the one use of the conversation that is in progress has made of    *)
(* the temporary file.                                                     *)
UseInv(c) ==
  /\ pc[c] \in Persisting => msgs[c] = session
  /\ pc[c] = "enter" => Ordered(msgs[c], appended)
  /\ pc[c] \in {"write", "sync"} => fd[c] = tmp
  /\ pc[c] = "write" =>
       /\ written[c] < Len(msgs[c])
       /\ Len(inode[tmp].lines) = written[c]
       /\ \A i \in 1..written[c] : inode[tmp].lines[i] = msgs[c][i]
  /\ pc[c] = "sync" => inode[tmp].lines = msgs[c]
  /\ pc[c] = "rename" => tmp # 0 /\ inode[tmp].lines = msgs[c] /\ inode[tmp].synced

Alone == \A c, d \in Chats : pc[c] \in Using /\ pc[d] \in Using => c = d

FileSafe ==
  file # 0 => /\ inode[file].synced
              /\ Len(inode[file].lines) <= Window
              /\ Ordered(inode[file].lines, appended)

FileInv ==
  ~overlapped => Alone /\ Ordered(session, appended) /\ FileSafe /\ \A c \in Chats : UseInv(c)

(* Without a failure, the file gives back what can be read of the session. *)
MatchInv ==
  ~overlapped /\ faults = 0 =>
    /\ (\A c \in Chats : pc[c] \notin Persisting) => Stored = Messages(session)
    /\ \A c \in Chats : pc[c] = "enter" => msgs[c] = Stored

(* Of the last messages up to the a-th, as many as the window holds, none  *)
(* is missing but those that cannot be read back.                          *)
Holds(s, m) == \E i \in 1..Len(s) : s[i] = m
Kept(s, a) == \A m \in 1..a : m + Window > a => Unreadable(m) \/ Holds(s, m)

(* Behind a long message nothing has been lost yet: a reload that loses    *)
(* any of it loses the long message, too.                                  *)
LongFollowed(s, a) == \A i \in 1..Len(s) : s[i] \in long => \A m \in s[i]..a : Holds(s, m)

CompleteInv ==
  ~overlapped /\ faults = 0 /\ crashes = 0 =>
    /\ Kept(session, appended)
    /\ LongFollowed(session, appended)
    /\ \A c \in Chats :
         /\ pc[c] \in Persisting => own[c] = appended
         /\ pc[c] = "ask" /\ role[c] = "user" =>
              Ordered(prompt[c], own[c]) /\ Kept(prompt[c], own[c])

ChatInv == TypeOK /\ OwnInv /\ FileInv /\ MatchInv /\ CompleteInv
-----------------------------------------------------------------------------
(* Types *)

LEMMA InodesAreNumbers ==
  Inodes \subseteq Nat \ {0} /\ IsFiniteSet(Inodes) /\ Cardinality(Inodes) = Cardinality(Chats) + 2
<1>1. IsFiniteSet(Chats) /\ Cardinality(Chats) \in Nat
  BY ChatAssumption, FS_CardinalityType
<1> DEFINE n == Cardinality(Chats) + 2
<1>2. n \in Nat /\ 1 \in Int /\ n \in Int /\ 1 <= n
  BY <1>1
<1>3. Inodes = 1..n
  BY DEF Inodes
<1> HIDE DEF n
<1>4. IsFiniteSet(1..n) /\ Cardinality(1..n) = IF 1 > n THEN 0 ELSE n - 1 + 1
  BY <1>2, FS_Interval
<1> QED
  BY <1>2, <1>3, <1>4 DEF n

(* There is always an inode for one more open file.                        *)
LEMMA SomeUnused == TypeOK /\ tmp = 0 => (CHOOSE j \in Unused : TRUE) \in Unused
<1> SUFFICES ASSUME TypeOK, tmp = 0 PROVE Unused # {}
  OBVIOUS
<1> DEFINE open == {fd[c] : c \in Chats}
           used == {file, tmp} \cup open
<1>1. IsFiniteSet(Chats) /\ Cardinality(Chats) \in Nat
  BY ChatAssumption, FS_CardinalityType
<1>2. IsFiniteSet(open) /\ Cardinality(open) <= Cardinality(Chats) /\ Cardinality(open) \in Nat
  <2>1. fd \in [Chats -> Inodes \cup {0}]
    BY DEF TypeOK
  <2>2. fd \in [Chats -> open]
    BY <2>1
  <2>3. \A t \in open : \E s \in Chats : fd[s] = t
    OBVIOUS
  <2> HIDE DEF open
  <2>4. fd \in Surjection(Chats, open)
    BY <2>2, <2>3 DEF Surjection
  <2> QED
    BY <1>1, <2>4, FS_Surjection, FS_CardinalityType
<1>3. IsFiniteSet(open \cup {0}) /\ Cardinality(open \cup {0}) <= Cardinality(Chats) + 1
  <2> HIDE DEF open
  <2>1. /\ IsFiniteSet(open \cup {0})
        /\ Cardinality(open \cup {0}) =
             IF 0 \in open THEN Cardinality(open) ELSE Cardinality(open) + 1
    BY <1>2, FS_AddElement
  <2> QED
    BY <1>1, <1>2, <2>1
<1>4. /\ IsFiniteSet((open \cup {0}) \cup {file})
      /\ Cardinality((open \cup {0}) \cup {file}) <= Cardinality(Chats) + 2
  <2> DEFINE some == open \cup {0}
  <2>1. /\ IsFiniteSet(some) /\ Cardinality(some) <= Cardinality(Chats) + 1
        /\ Cardinality(some) \in Nat
    BY <1>3, FS_CardinalityType
  <2> HIDE DEF some
  <2>2. /\ IsFiniteSet(some \cup {file})
        /\ Cardinality(some \cup {file}) =
             IF file \in some THEN Cardinality(some) ELSE Cardinality(some) + 1
    BY <2>1, FS_AddElement
  <2>3. IsFiniteSet(some \cup {file}) /\ Cardinality(some \cup {file}) <= Cardinality(Chats) + 2
    BY <1>1, <2>1, <2>2
  <2> QED
    BY <2>3 DEF some
<1>5. (open \cup {0}) \cup {file} = used
  OBVIOUS
<1> HIDE DEF open, used
<1>6. IsFiniteSet(used) /\ Cardinality(used) <= Cardinality(Chats) + 2 /\ 0 \in used
  BY <1>4, <1>5
<1>7. IsFiniteSet(used \ {0}) /\ Cardinality(used \ {0}) < Cardinality(Chats) + 2
  <2>1. Cardinality(used) \in Nat
    BY <1>6, FS_CardinalityType
  <2>2. /\ IsFiniteSet(used \ {0})
        /\ Cardinality(used \ {0}) = IF 0 \in used THEN Cardinality(used) - 1 ELSE Cardinality(used)
    BY <1>6, FS_RemoveElement
  <2> QED
    BY <1>1, <1>6, <2>1, <2>2
<1>8. SUFFICES ASSUME Unused = {} PROVE FALSE
  OBVIOUS
<1>9. Inodes \subseteq used \ {0}
  <2>1. Inodes \ used = {}
    BY <1>8 DEF Unused, used, open
  <2> QED
    BY <2>1, InodesAreNumbers
<1>10. Cardinality(Inodes) <= Cardinality(used \ {0})
  <2> DEFINE rest == used \ {0}
  <2>1. Inodes \in SUBSET rest /\ IsFiniteSet(rest)
    BY <1>7, <1>9
  <2> HIDE DEF rest
  <2>2. Cardinality(Inodes) <= Cardinality(rest)
    BY <2>1, FS_Subset
  <2> QED
    BY <2>2 DEF rest
<1> QED
  <2>1. Cardinality(used \ {0}) \in Nat
    BY <1>7, FS_CardinalityType
  <2> QED
    BY <1>1, <1>7, <1>10, <2>1, InodesAreNumbers

(* The lines of a file after a write at one place.                         *)
LEMMA OverwriteIs ==
  ASSUME NEW lines \in Seq(Nat), NEW n \in Nat \ {0}, NEW m \in Nat
  PROVE  /\ Overwrite(lines, n, m) \in Seq(Nat)
         /\ n = Len(lines) + 1 => Overwrite(lines, n, m) = Append(lines, m)
<1> DEFINE top == Max({n, Len(lines)})
<1>1. top \in {n, Len(lines)} /\ top >= n /\ top >= Len(lines) /\ top \in Nat
  <2>1. Len(lines) \in Nat
    OBVIOUS
  <2>2. \E x \in {n, Len(lines)} : \A y \in {n, Len(lines)} : x >= y
    BY <2>1
  <2>3. top = CHOOSE x \in {n, Len(lines)} : \A y \in {n, Len(lines)} : x >= y
    BY DEF Max
  <2> HIDE DEF top
  <2>4. top \in {n, Len(lines)} /\ \A y \in {n, Len(lines)} : top >= y
    BY <2>2, <2>3
  <2> QED
    BY <2>1, <2>4
<1> DEFINE e(k) == IF k = n THEN m ELSE IF k <= Len(lines) THEN lines[k] ELSE Torn
<1>2. \A k \in 1..top : e(k) \in Nat
  BY <1>1, ElementOfSeq DEF Torn
<1>3. Overwrite(lines, n, m) = [k \in 1..top |-> e(k)]
  BY DEF Overwrite
<1>4. [k \in 1..top |-> e(k)] \in Seq(Nat)
  <2> HIDE DEF e, top
  <2> QED
    BY <1>1, <1>2, IsASeq
<1>5. ASSUME n = Len(lines) + 1 PROVE Overwrite(lines, n, m) = Append(lines, m)
  <2>1. Len(lines) \in Nat /\ top = n
    BY <1>1, <1>5
  <2>2. Overwrite(lines, n, m) = [k \in 1..n |-> e(k)] /\ [k \in 1..n |-> e(k)] \in Seq(Nat)
    BY <1>3, <1>4, <2>1
  <2>3. \A k \in 1..n : e(k) = Append(lines, m)[k]
    BY <1>5, <2>1
  <2>4. Append(lines, m) \in Seq(Nat) /\ Len(Append(lines, m)) = n
    BY <1>5, <2>1
  <2> DEFINE a == [k \in 1..n |-> e(k)]
             b == Append(lines, m)
  <2>5. \A k \in 1..n : a[k] = b[k]
    <3> HIDE DEF e, top, b
    <3> QED
      BY <2>3 DEF b
  <2>6. a \in Seq(Nat) /\ Len(a) = n
    <3> HIDE DEF e
    <3>1. DOMAIN a = 1..n
      OBVIOUS
    <3> QED
      BY <2>2, <3>1
  <2> HIDE DEF a, b
  <2>7. a = b
    BY <2>4, <2>5, <2>6, SeqEqual DEF b
  <2> QED
    BY <2>2, <2>7 DEF a, b
<1> QED
  BY <1>3, <1>4, <1>5
-----------------------------------------------------------------------------
Steps == Using \cup {"idle", "save", "load", "ask", "answer"}

LEMMA StoredType == TypeOK => Stored \in Seq(Nat)
<1> SUFFICES ASSUME TypeOK PROVE Stored \in Seq(Nat)
  OBVIOUS
<1>1. <<>> \in Seq(Nat)
  BY EmptyHasNone
<1>2. file # 0 => inode[file].lines \in Seq(Nat)
  BY DEF TypeOK
<1> QED
  BY <1>1, <1>2, MessagesType DEF Stored

(* What a failing read leaves of a list is a part of it.                   *)
LEMMA ReadsType ==
  ASSUME NEW s \in Seq(Nat), NEW read \in Reads(s)
  PROVE  /\ read \in Seq(Nat) /\ Len(read) \in Nat /\ Len(read) <= Len(s)
         /\ \A i \in 1..Len(read) : i \in 1..Len(s) /\ read[i] = s[i]
<1>1. PICK n \in 0..Len(s) : read = SubSeq(s, 1, n)
  BY DEF Reads
<1>2. Len(s) \in Nat /\ n \in Nat /\ n <= Len(s) /\ 1 \in Int /\ n \in Int
  OBVIOUS
<1>3. \A k \in 1..n : s[k] \in Nat
  BY <1>2, ElementOfSeq
<1>4. /\ read \in Seq(Nat)
      /\ Len(read) = IF 1 <= n THEN n - 1 + 1 ELSE 0
      /\ \A k \in 1..(n - 1 + 1) : read[k] = s[1 + k - 1]
  BY <1>1, <1>2, <1>3, SubSeqProperties
<1>5. Len(read) = n
  BY <1>2, <1>4
<1> QED
  BY <1>2, <1>4, <1>5

LEMMA OnDiskType ==
  ASSUME TypeOK, NEW i \in Inodes \cup {0}, NEW kept \in OnDisk(i)
  PROVE  kept \in Seq(Nat)
<1>1. <<>> \in Seq(Nat)
  BY EmptyHasNone
<1>2. CASE i = 0
  BY <1>1, <1>2 DEF OnDisk
<1>3. CASE i # 0
  <2> DEFINE lines == inode[i].lines
  <2>1. lines \in Seq(Nat) /\ Len(lines) \in Nat
    BY <1>3 DEF TypeOK
  <2> HIDE DEF lines
  <2>2. ASSUME NEW n \in 0..Len(lines) PROVE SubSeq(lines, 1, n) \in Seq(Nat)
    <3>1. \A k \in 1..n : lines[k] \in Nat
      BY <2>1, ElementOfSeq
    <3>2. 1 \in Int /\ n \in Int
      BY <2>1
    <3> QED
      BY <3>1, <3>2, SubSeqProperties
  <2>3. \A n \in 0..(Len(lines) - 1) : n \in 0..Len(lines)
    BY <2>1
  <2>4. \A s \in Seq(Nat) : Append(s, Torn) \in Seq(Nat)
    BY DEF Torn
  <2>5. kept \in {lines} \cup {SubSeq(lines, 1, n) : n \in 0..Len(lines)} \cup
                 {Append(SubSeq(lines, 1, n), Torn) : n \in 0..(Len(lines) - 1)}
    BY <1>3, Zenon DEF OnDisk, lines
  <2> QED
    BY <2>1, <2>2, <2>3, <2>4, <2>5
<1> QED
  BY <1>2, <1>3

LEMMA TypeInit == Init => TypeOK
<1> SUFFICES ASSUME Init PROVE TypeOK
  OBVIOUS
<1>1. <<>> \in Seq(Nat) /\ Len(<<>>) = 0 /\ Window \in Nat \ {0}
  BY EmptyHasNone, ChatAssumption
<1>2. inode \in [Inodes -> [lines : Seq(Nat), synced : BOOLEAN]]
  BY <1>1 DEF Init, NoLines
<1>3. /\ pc \in [Chats -> Using \cup {"idle", "save", "load", "ask", "answer"}]
      /\ role \in [Chats -> {"none", "user", "assistant"}]
  BY DEF Init
<1>7. roleless \subseteq 1..appended /\ long \subseteq 1..appended
  BY DEF Init
<1>4. /\ appended \in Nat /\ own \in [Chats -> 0..appended]
      /\ session \in Seq(Nat) /\ Len(session) <= Window
  BY <1>1 DEF Init
<1>5. /\ msgs \in [Chats -> Seq(Nat)] /\ \A c \in Chats : Len(msgs[c]) <= Window
      /\ prompt \in [Chats -> Seq(Nat)]
  BY <1>1 DEF Init
<1>6. /\ fd \in [Chats -> Inodes \cup {0}] /\ written \in [Chats -> Nat]
      /\ file \in Inodes \cup {0} /\ tmp \in Inodes \cup {0}
      /\ overlapped \in BOOLEAN
      /\ chats \in Nat /\ faults \in Nat /\ crashes \in Nat
  BY DEF Init
<1> QED
  BY <1>2, <1>3, <1>4, <1>5, <1>6, <1>7 DEF TypeOK

(* The steps that leave the disk and the session alone.                    *)
Talking(c) ==
  \/ HandleChat(c) \/ SaveFails(c) \/ ModelAnswers(c) \/ Respond(c)

LEMMA TypeTalking ==
  ASSUME TypeOK, NEW c \in Chats, Talking(c)
  PROVE  TypeOK'
<1>1. <<>> \in Seq(Nat) /\ Len(<<>>) = 0 /\ Window \in Nat
  BY EmptyHasNone, ChatAssumption
<1>2. CASE HandleChat(c)
  <2>1. PICK at \in {"save", "load"}, r \in {"none", "user"} :
          pc' = [pc EXCEPT ![c] = at] /\ role' = [role EXCEPT ![c] = r]
    BY <1>2 DEF HandleChat
  <2>2. chats' \in Nat
    BY <1>2 DEF TypeOK, HandleChat
  <2>3. /\ pc' \in [Chats -> Using \cup {"idle", "save", "load", "ask", "answer"}]
        /\ role' \in [Chats -> {"none", "user", "assistant"}]
    BY <2>1 DEF TypeOK
  <2> QED
    BY <1>2, <2>2, <2>3 DEF TypeOK, HandleChat, diskVars, kinds
<1>3. CASE SaveFails(c)
  <2>1. PICK at \in {"ask", "answer"} : pc' = [pc EXCEPT ![c] = at]
    BY <1>3 DEF SaveFails, AppendReturns
  <2>2. prompt' \in [Chats -> Seq(Nat)]
    BY <1>1, <1>3 DEF TypeOK, SaveFails, AppendReturns
  <2>3. pc' \in [Chats -> Using \cup {"idle", "save", "load", "ask", "answer"}]
    BY <2>1 DEF TypeOK
  <2>4. faults' \in Nat
    BY <1>3 DEF TypeOK, SaveFails, Fault
  <2> QED
    BY <1>3, <2>2, <2>3, <2>4 DEF TypeOK, SaveFails, diskVars, kinds
<1>4. CASE ModelAnswers(c)
  BY <1>1, <1>4 DEF TypeOK, ModelAnswers, diskVars, bounds, kinds, Using
<1>5. CASE Respond(c)
  BY <1>1, <1>5 DEF TypeOK, Respond, diskVars, bounds, kinds, Using
<1> QED
  BY <1>2, <1>3, <1>4, <1>5 DEF Talking

(* Load, with what was read.                                               *)
LoadOf(c, read) ==
  /\ pc[c] = "load"
  /\ \/ read = Stored /\ UNCHANGED faults
     \/ Fault
  /\ msgs' = [msgs EXCEPT ![c] = Latest(read, Window)]
  /\ IF read = <<>>
     THEN /\ pc' = [pc EXCEPT ![c] = "ask"]
          /\ UNCHANGED overlapped
     ELSE /\ pc' = [pc EXCEPT ![c] = "enter"]
          /\ BeginUse
  /\ UNCHANGED <<role, own, prompt, session, appended, kinds, chats, crashes, diskVars>>

(* The steps that change the session.                                      *)
LEMMA TypeSession ==
  ASSUME TypeOK, NEW c \in Chats, Enter(c) \/ Load(c) \/ EnterLoaded(c)
  PROVE  TypeOK'
<1>1. CASE Enter(c)
  <2>1. /\ session' \in Seq(Nat)
        /\ Len(session') <= Window
    <3>1. session \in Seq(Nat) /\ appended + 1 \in Nat /\ Window \in Nat \ {0}
      BY ChatAssumption DEF TypeOK
    <3>2. session' = Latest(Append(session, appended + 1), Window)
      BY <1>1 DEF Enter
    <3>3. session' \in Seq(Nat) /\ Len(session') \in 1..Window
      BY <3>1, <3>2, LatestOfAppend
    <3> QED
      BY <3>1, <3>3
  <2>2. appended' \in Nat /\ own' \in [Chats -> 0..appended']
    BY <1>1 DEF TypeOK, Enter
  <2>3. roleless' \subseteq 1..appended' /\ long' \subseteq 1..appended'
    <3>1. appended' = appended + 1 /\ 1..appended \subseteq 1..(appended + 1)
          /\ appended + 1 \in 1..(appended + 1)
      BY <1>1 DEF Enter, TypeOK
    <3>2. /\ roleless' \subseteq roleless \cup {appended + 1}
          /\ long' \subseteq long \cup {appended + 1}
      BY <1>1 DEF Enter, TakeKind
    <3>3. roleless \subseteq 1..appended /\ long \subseteq 1..appended
      BY DEF TypeOK
    <3> DEFINE a == appended + 1
               b == 1..appended
               u == 1..a
    <3> HIDE DEF a, b, u
    <3>4. roleless' \subseteq u /\ long' \subseteq u
      BY <3>1, <3>2, <3>3, Zenon DEF a, b, u
    <3> QED
      BY <3>1, <3>4 DEF a, u
  <2> QED
    BY <1>1, <2>1, <2>2, <2>3 DEF TypeOK, Enter, BeginUse, bounds, kinds, diskVars, Using
<1>2. CASE Load(c)
  <2>1. PICK read \in Reads(Stored) : LoadOf(c, read)
    BY <1>2 DEF Load, LoadOf
  <2>2. Latest(read, Window) \in Seq(Nat) /\ Len(Latest(read, Window)) <= Window
    <3>1. Stored \in Seq(Nat) /\ Window \in Nat \ {0}
      BY StoredType, ChatAssumption
    <3>2. read \in Seq(Nat) /\ Len(read) \in Nat
      BY <3>1, ReadsType
    <3> QED
      BY <3>1, <3>2, LatestIs
  <2>3. faults' \in Nat
    BY <2>1 DEF LoadOf, Fault, TypeOK
  <2>4. PICK at \in {"ask", "enter"} : pc' = [pc EXCEPT ![c] = at]
    BY <2>1 DEF LoadOf
  <2>5. pc' \in [Chats -> Using \cup {"idle", "save", "load", "ask", "answer"}]
    BY <2>4 DEF TypeOK, Using
  <2>6. overlapped' \in BOOLEAN
    BY <2>1, Zenon DEF LoadOf, BeginUse, TypeOK
  <2>7. msgs' \in [Chats -> Seq(Nat)] /\ \A d \in Chats : Len(msgs'[d]) <= Window
    BY <2>1, <2>2 DEF LoadOf, TypeOK
  <2> QED
    BY <2>1, <2>3, <2>5, <2>6, <2>7 DEF TypeOK, LoadOf, diskVars, kinds
<1>3. CASE EnterLoaded(c)
  <2> QED
    BY <1>3 DEF TypeOK, EnterLoaded, bounds, kinds, diskVars, Using
<1> QED
  BY <1>1, <1>2, <1>3
-----------------------------------------------------------------------------
(* What the steps of persist do to the inodes.                             *)
InodeType(i) == inode[i].lines \in Seq(Nat) /\ inode[i].synced \in BOOLEAN

LEMMA InodeFields ==
  ASSUME TypeOK, NEW i \in Inodes
  PROVE  InodeType(i) /\ inode[i] = [lines |-> inode[i].lines, synced |-> inode[i].synced]
BY DEF TypeOK, InodeType

LEMMA CreateDoes ==
  ASSUME TypeOK, OwnInv, NEW c \in Chats, CreateTmp(c)
  PROVE  /\ tmp' \in Inodes /\ tmp' # 0 /\ tmp' # file
         /\ fd' = [fd EXCEPT ![c] = tmp']
         /\ inode' \in [Inodes -> [lines : Seq(Nat), synced : BOOLEAN]]
         /\ inode'[tmp'].lines = <<>>
         /\ \A j \in Inodes : j # tmp' => inode'[j] = inode[j]
<1> DEFINE i == IF tmp # 0 THEN tmp ELSE CHOOSE j \in Unused : TRUE
<1>1. i \in Inodes /\ i # 0 /\ i # file
  <2>1. CASE tmp # 0
    BY <2>1 DEF TypeOK, OwnInv
  <2>2. CASE tmp = 0
    <3>1. i \in Unused
      BY <2>2, SomeUnused
    <3> QED
      BY <3>1, InodesAreNumbers DEF Unused
  <2> QED
    BY <2>1, <2>2
<1>2. tmp' = i /\ fd' = [fd EXCEPT ![c] = i] /\ inode' = [inode EXCEPT ![i] = NoLines]
  BY DEF CreateTmp
<1> HIDE DEF i
<1>3. NoLines \in [lines : Seq(Nat), synced : BOOLEAN] /\ NoLines.lines = <<>>
  <2>1. <<>> \in Seq(Nat)
    BY EmptyHasNone
  <2> QED
    BY <2>1 DEF NoLines
<1>4. inode' \in [Inodes -> [lines : Seq(Nat), synced : BOOLEAN]]
  BY <1>1, <1>2, <1>3 DEF TypeOK
<1>5. inode'[i].lines = <<>> /\ \A j \in Inodes : j # i => inode'[j] = inode[j]
  BY <1>1, <1>2, <1>3 DEF TypeOK
<1> QED
  BY <1>1, <1>2, <1>4, <1>5

LEMMA WriteDoes ==
  ASSUME TypeOK, OwnInv, NEW c \in Chats, WriteLine(c)
  PROVE  /\ fd[c] \in Inodes
         /\ written[c] + 1 \in 1..Len(msgs[c])
         /\ inode' \in [Inodes -> [lines : Seq(Nat), synced : BOOLEAN]]
         /\ inode'[fd[c]].lines =
              Overwrite(inode[fd[c]].lines, written[c] + 1, msgs[c][written[c] + 1])
         /\ \A j \in Inodes : j # fd[c] => inode'[j] = inode[j]
<1> DEFINE n == written[c] + 1
           lines == Overwrite(inode[fd[c]].lines, n, msgs[c][n])
           new == [lines |-> lines, synced |-> FALSE]
<1>1. fd[c] \in Inodes
  BY DEF WriteLine, TypeOK, OwnInv, WritesOwn
<1>2. n \in 1..Len(msgs[c]) /\ msgs[c] \in Seq(Nat)
  BY DEF WriteLine, TypeOK
<1>3. lines \in Seq(Nat)
  <2>0. inode[fd[c]].lines \in Seq(Nat)
    BY <1>1 DEF TypeOK
  <2>1. msgs[c][n] \in Nat /\ n \in Nat \ {0}
    <3>1. n \in Nat \ {0}
      BY <1>2
    <3> HIDE DEF n
    <3> QED
      BY <1>2, <3>1, ElementOfSeq
  <2> HIDE DEF n
  <2> QED
    BY <2>0, <2>1, OverwriteIs
<1>4. inode' = [inode EXCEPT ![fd[c]] = new]
  BY DEF WriteLine
<1>5. new \in [lines : Seq(Nat), synced : BOOLEAN] /\ new.lines = lines
  <2> HIDE DEF lines
  <2> QED
    BY <1>3
<1> HIDE DEF new, lines
<1>6. /\ inode' \in [Inodes -> [lines : Seq(Nat), synced : BOOLEAN]]
      /\ inode'[fd[c]].lines = lines
      /\ \A j \in Inodes : j # fd[c] => inode'[j] = inode[j]
  BY <1>1, <1>4, <1>5 DEF TypeOK
<1> QED
  BY <1>1, <1>2, <1>6 DEF lines

LEMMA SyncDoes ==
  ASSUME TypeOK, OwnInv, NEW c \in Chats, SyncTmp(c)
  PROVE  /\ fd[c] \in Inodes
         /\ inode' \in [Inodes -> [lines : Seq(Nat), synced : BOOLEAN]]
         /\ inode'[fd[c]].lines = inode[fd[c]].lines
         /\ inode'[fd[c]].synced
         /\ \A j \in Inodes : j # fd[c] => inode'[j] = inode[j]
<1>1. fd[c] \in Inodes
  BY DEF SyncTmp, TypeOK, OwnInv, WritesOwn
<1>2. inode' = [inode EXCEPT ![fd[c]].synced = TRUE]
  BY DEF SyncTmp
<1> QED
  BY <1>1, <1>2 DEF TypeOK

LEMMA TypePersist ==
  ASSUME TypeOK, OwnInv, NEW c \in Chats,
         CreateTmp(c) \/ WriteLine(c) \/ SyncTmp(c) \/ RenameTmp(c) \/ PersistFails(c)
  PROVE  TypeOK'
<1> DEFINE Step == Using \cup {"idle", "save", "load", "ask", "answer"}
<1>1. CASE CreateTmp(c)
  <2>1. /\ tmp' \in Inodes
        /\ inode' \in [Inodes -> [lines : Seq(Nat), synced : BOOLEAN]]
        /\ fd' \in [Chats -> Inodes \cup {0}]
    BY <1>1, CreateDoes DEF TypeOK
  <2>2. pc' \in [Chats -> Step]
    BY <1>1 DEF CreateTmp, TypeOK, Using
  <2> QED
    BY <1>1, <2>1, <2>2 DEF TypeOK, CreateTmp, bounds, kinds
<1>2. CASE WriteLine(c)
  <2>1. inode' \in [Inodes -> [lines : Seq(Nat), synced : BOOLEAN]]
    BY <1>2, WriteDoes
  <2>2. PICK at \in {"write", "sync"} : pc' = [pc EXCEPT ![c] = at]
    BY <1>2 DEF WriteLine
  <2>3. pc' \in [Chats -> Step]
    BY <2>2 DEF TypeOK, Using
  <2>4. written' \in [Chats -> Nat]
    BY <1>2 DEF WriteLine, TypeOK
  <2> QED
    BY <1>2, <2>1, <2>3, <2>4 DEF TypeOK, WriteLine, bounds, kinds
<1>3. CASE SyncTmp(c)
  <2>1. inode' \in [Inodes -> [lines : Seq(Nat), synced : BOOLEAN]]
    BY <1>3, SyncDoes
  <2>2. pc' \in [Chats -> Step] /\ written' \in [Chats -> Nat] /\ fd' \in [Chats -> Inodes \cup {0}]
    BY <1>3 DEF SyncTmp, CloseFile, TypeOK, Using
  <2> QED
    BY <1>3, <2>1, <2>2 DEF TypeOK, SyncTmp, CloseFile, bounds, kinds
<1>4. ASSUME NEW ctx \in Seq(Nat), AppendReturns(c, ctx)
      PROVE  pc' \in [Chats -> Step] /\ prompt' \in [Chats -> Seq(Nat)]
  <2>1. PICK at \in {"ask", "answer"} : pc' = [pc EXCEPT ![c] = at]
    BY <1>4 DEF AppendReturns
  <2>2. pc' \in [Chats -> Step]
    BY <2>1 DEF TypeOK
  <2>3. CASE role[c] = "user"
    <3>1. prompt' = [prompt EXCEPT ![c] = ctx]
      BY <1>4, <2>3 DEF AppendReturns
    <3> QED
      BY <2>2, <3>1 DEF TypeOK
  <2>4. CASE role[c] # "user"
    <3>1. prompt' = prompt
      BY <1>4, <2>4 DEF AppendReturns
    <3> QED
      BY <2>2, <3>1 DEF TypeOK
  <2> QED
    BY <2>3, <2>4
<1>5. <<>> \in Seq(Nat)
  BY EmptyHasNone
<1>6. CASE RenameTmp(c)
  <2>1. \E ctx \in Seq(Nat) : AppendReturns(c, ctx)
    BY <1>5, <1>6 DEF RenameTmp, Context, TypeOK
  <2>2. pc' \in [Chats -> Step] /\ prompt' \in [Chats -> Seq(Nat)]
    BY <1>4, <2>1
  <2>3. file' \in Inodes \cup {0} /\ tmp' \in Inodes \cup {0}
    BY <1>6 DEF RenameTmp, TypeOK
  <2> QED
    BY <1>6, <2>2, <2>3 DEF TypeOK, RenameTmp, bounds, kinds
<1>7. CASE PersistFails(c)
  <2>1. pc' \in [Chats -> Step] /\ prompt' \in [Chats -> Seq(Nat)]
    BY <1>4, <1>5, <1>7 DEF PersistFails
  <2>2. faults' \in Nat /\ tmp' \in Inodes \cup {0}
    BY <1>7 DEF PersistFails, Fault, TypeOK
  <2>3. written' \in [Chats -> Nat] /\ fd' \in [Chats -> Inodes \cup {0}]
    BY <1>7 DEF PersistFails, CloseFile, TypeOK
  <2> QED
    BY <1>7, <2>1, <2>2, <2>3 DEF TypeOK, PersistFails, kinds
<1> QED
  BY <1>1, <1>2, <1>3, <1>6, <1>7

LEMMA CrashDoes ==
  ASSUME TypeOK, Crash
  PROVE  /\ inode' \in [Inodes -> [lines : Seq(Nat), synced : BOOLEAN]]
         /\ file # 0 => inode'[file].synced /\ inode'[file].lines \in OnDisk(file)
         /\ session' \in Seq(Nat) /\ Len(session') <= Window
         /\ \E read \in Reads(Stored') : /\ session' = Latest(read, Window)
                                         /\ faults' = faults => read = Stored'
         /\ faults' \in {faults, faults + 1}
<1>1. PICK keptFile \in OnDisk(file), keptTmp \in OnDisk(tmp) :
        inode' = [i \in Inodes |->
                   [lines |-> IF i = file THEN keptFile
                              ELSE IF i = tmp THEN keptTmp ELSE <<>>,
                    synced |-> TRUE]]
  BY DEF Crash
<1>2. file \in Inodes \cup {0} /\ tmp \in Inodes \cup {0}
  BY DEF TypeOK
<1>3. keptFile \in Seq(Nat) /\ keptTmp \in Seq(Nat) /\ <<>> \in Seq(Nat)
  BY <1>2, OnDiskType, EmptyHasNone
<1>4. inode' \in [Inodes -> [lines : Seq(Nat), synced : BOOLEAN]]
  BY <1>1, <1>3
<1>5. file # 0 => inode'[file].synced /\ inode'[file].lines = keptFile
  BY <1>1, <1>2
<1>6. file' = file /\ Window \in Nat \ {0}
  BY ChatAssumption DEF Crash
<1>7. Stored' = IF file = 0 THEN <<>> ELSE Messages(inode'[file].lines)
  <2>1. roleless' = roleless /\ long' = long
    BY DEF Crash, kinds
  <2>2. Messages(inode[file].lines)' = Messages(inode'[file].lines)
    BY <1>6, <2>1 DEF Messages, Picked, Whole, Torn
  <2> QED
    BY <1>6, <2>2 DEF Stored
<1>8. /\ Stored' \in Seq(Nat)
      /\ \E read \in Reads(Stored') :
           /\ session' = Latest(read, Window)
           /\ (read = Stored' /\ faults' = faults) \/ Fault
  <2>1. Stored' \in Seq(Nat)
    BY <1>3, <1>5, <1>7, MessagesType
  <2>2. \E read \in Reads(IF file = 0 THEN <<>> ELSE Messages(inode'[file].lines)) :
           /\ \/ /\ read = IF file = 0 THEN <<>> ELSE Messages(inode'[file].lines)
                 /\ UNCHANGED faults
              \/ Fault
           /\ session' = Latest(read, Window)
    BY DEF Crash
  <2> QED
    BY <1>7, <2>1, <2>2
<1>11. PICK read \in Reads(Stored') :
         /\ session' = Latest(read, Window)
         /\ (read = Stored' /\ faults' = faults) \/ Fault
  BY <1>8
<1>9. session' \in Seq(Nat) /\ Len(session') <= Window
  <2> DEFINE s == Stored'
  <2>1. s \in Seq(Nat) /\ read \in Reads(s)
    BY <1>8, <1>11
  <2> HIDE DEF s
  <2>2. read \in Seq(Nat) /\ Len(read) \in Nat
    BY <2>1, ReadsType
  <2>3. Latest(read, Window) \in Seq(Nat) /\ Len(Latest(read, Window)) <= Window
    BY <1>6, <2>2, LatestIs
  <2> QED
    BY <1>11, <2>3
<1>10. faults' \in {faults, faults + 1} /\ (faults' = faults => read = Stored')
  BY <1>11 DEF Fault, TypeOK
<1> QED
  BY <1>4, <1>5, <1>9, <1>10, <1>11

LEMMA TypeCrash == TypeOK /\ Crash => TypeOK'
<1> SUFFICES ASSUME TypeOK, Crash PROVE TypeOK'
  OBVIOUS
<1>1. <<>> \in Seq(Nat) /\ Len(<<>>) = 0 /\ Window \in Nat
  BY EmptyHasNone, ChatAssumption
<1>2. /\ inode' \in [Inodes -> [lines : Seq(Nat), synced : BOOLEAN]]
      /\ session' \in Seq(Nat) /\ Len(session') <= Window
  BY CrashDoes
<1>3. /\ pc' \in [Chats -> Using \cup {"idle", "save", "load", "ask", "answer"}]
      /\ role' \in [Chats -> {"none", "user", "assistant"}]
  BY DEF Crash
<1>4. appended' \in Nat /\ own' \in [Chats -> 0..appended']
  BY DEF Crash, TypeOK
<1>7. roleless' \subseteq 1..appended' /\ long' \subseteq 1..appended'
  BY DEF Crash, TypeOK, kinds
<1>5. /\ msgs' \in [Chats -> Seq(Nat)] /\ (\A c \in Chats : Len(msgs'[c]) <= Window)
      /\ prompt' \in [Chats -> Seq(Nat)]
  BY <1>1 DEF Crash
<1>6. /\ fd' \in [Chats -> Inodes \cup {0}] /\ written' \in [Chats -> Nat]
      /\ file' \in Inodes \cup {0} /\ tmp' \in Inodes \cup {0}
      /\ overlapped' \in BOOLEAN
      /\ chats' \in Nat /\ crashes' \in Nat
  BY DEF Crash, TypeOK
<1>8. faults' \in Nat
  <2>1. faults' \in {faults, faults + 1} /\ faults \in Nat
    BY CrashDoes DEF TypeOK
  <2> QED
    BY <2>1
<1> QED
  BY <1>2, <1>3, <1>4, <1>5, <1>6, <1>7, <1>8 DEF TypeOK

LEMMA TypeStep == TypeOK /\ OwnInv /\ [Next]_vars => TypeOK'
<1> SUFFICES ASSUME TypeOK, OwnInv, [Next]_vars PROVE TypeOK'
  OBVIOUS
<1>1. CASE UNCHANGED vars
  BY <1>1 DEF TypeOK, vars, chatVars, diskVars, bounds, kinds
<1>2. CASE Crash
  BY <1>2, TypeCrash
<1>3. ASSUME NEW c \in Chats, HandleChat(c) \/ ChatStep(c) PROVE TypeOK'
  BY <1>3, TypeTalking, TypeSession, TypePersist DEF ChatStep, Talking
<1> QED
  BY <1>1, <1>2, <1>3 DEF Next
-----------------------------------------------------------------------------
(* Whatever overlaps                                                       *)

LEMMA OwnInit == Init => OwnInv
BY DEF Init, OwnInv, WritesOwn, Persisting

(* Only a chat's own steps change what it holds.                           *)
SameChat(d) ==
  /\ pc'[d] = pc[d] /\ role'[d] = role[d] /\ own'[d] = own[d] /\ msgs'[d] = msgs[d]
  /\ prompt'[d] = prompt[d] /\ fd'[d] = fd[d] /\ written'[d] = written[d]

LEMMA OthersKeep ==
  ASSUME TypeOK, NEW c \in Chats, HandleChat(c) \/ ChatStep(c), NEW d \in Chats, d # c
  PROVE  SameChat(d)
<1>1. CASE Talking(c)
  BY <1>1 DEF TypeOK, SameChat, Talking, HandleChat, SaveFails, ModelAnswers, Respond,
              AppendReturns, diskVars
<1>2. CASE Enter(c) \/ Load(c) \/ EnterLoaded(c)
  BY <1>2 DEF TypeOK, SameChat, Enter, Load, EnterLoaded, diskVars
<1>3. CASE CreateTmp(c) \/ WriteLine(c) \/ SyncTmp(c)
  BY <1>3 DEF TypeOK, SameChat, CreateTmp, WriteLine, SyncTmp, CloseFile
<1>4. CASE RenameTmp(c) \/ PersistFails(c)
  BY <1>4 DEF TypeOK, SameChat, RenameTmp, PersistFails, CloseFile, AppendReturns
<1> QED
  BY <1>1, <1>2, <1>3, <1>4 DEF ChatStep, Talking

LEMMA SameChatWritesOwn ==
  ASSUME NEW d \in Chats, SameChat(d), WritesOwn(d)
  PROVE  WritesOwn(d)'
BY DEF SameChat, WritesOwn

LEMMA NamesDiffer ==
  ASSUME TypeOK, OwnInv, NEW c \in Chats, HandleChat(c) \/ ChatStep(c)
  PROVE  tmp' # 0 => tmp' # file'
<1>1. CASE Talking(c)
  BY <1>1 DEF OwnInv, Talking, HandleChat, SaveFails, ModelAnswers, Respond, diskVars
<1>2. CASE Enter(c) \/ Load(c) \/ EnterLoaded(c)
  BY <1>2 DEF OwnInv, Enter, Load, EnterLoaded, diskVars
<1>3. CASE CreateTmp(c)
  BY <1>3, CreateDoes DEF CreateTmp
<1>4. CASE WriteLine(c) \/ SyncTmp(c)
  BY <1>4 DEF OwnInv, WriteLine, SyncTmp
<1>5. CASE RenameTmp(c) \/ PersistFails(c)
  BY <1>5 DEF OwnInv, RenameTmp, PersistFails
<1> QED
  BY <1>1, <1>2, <1>3, <1>4, <1>5 DEF ChatStep, Talking

(* What Append returns is nothing, or a list that ends with the chat's     *)
(* message.                                                                *)
LEMMA ReturnsOwn ==
  ASSUME TypeOK, NEW c \in Chats, NEW ctx, AppendReturns(c, ctx),
         own'[c] = own[c], role'[c] = role[c], written'[c] = 0,
         ctx = <<>> \/ ctx[Len(ctx)] = own[c]
  PROVE  WritesOwn(c)'
<1>1. CASE role[c] = "user"
  <2>1. pc'[c] = "ask" /\ prompt'[c] = ctx
    BY <1>1 DEF AppendReturns, TypeOK
  <2> QED
    BY <2>1 DEF WritesOwn, Persisting
<1>2. CASE role[c] # "user"
  <2>1. pc'[c] = "answer"
    BY <1>2 DEF AppendReturns, TypeOK
  <2> QED
    BY <2>1 DEF WritesOwn, Persisting
<1> QED
  BY <1>1, <1>2

LEMMA OwnKept ==
  ASSUME TypeOK, OwnInv, NEW c \in Chats, HandleChat(c) \/ ChatStep(c)
  PROVE  WritesOwn(c)'
<1>0. WritesOwn(c)
  BY DEF OwnInv
<1>1. CASE HandleChat(c)
  <2>1. (pc'[c] = "save" /\ role'[c] = "user") \/ (pc'[c] = "load" /\ role'[c] = "none")
    BY <1>1 DEF HandleChat, TypeOK
  <2>2. written'[c] = 0
    BY <1>0, <1>1 DEF HandleChat, WritesOwn, diskVars
  <2> QED
    BY <2>1, <2>2 DEF WritesOwn, Persisting
<1>2. CASE SaveFails(c)
  BY <1>0, <1>2, ReturnsOwn DEF SaveFails, WritesOwn, diskVars
<1>3. CASE Enter(c)
  <2>1. session \in Seq(Nat) /\ appended + 1 \in Nat /\ Window \in Nat \ {0}
    BY ChatAssumption DEF TypeOK
  <2>2. /\ msgs'[c] = Latest(Append(session, appended + 1), Window)
        /\ own'[c] = appended + 1 /\ pc'[c] = "create" /\ written'[c] = 0
    BY <1>0, <1>3 DEF Enter, TypeOK, WritesOwn, diskVars
  <2>3. msgs'[c] # <<>> /\ msgs'[c][Len(msgs'[c])] = own'[c]
    <3> DEFINE x == appended + 1
               l == Latest(Append(session, x), Window)
    <3>1. msgs'[c] = l /\ own'[c] = x /\ x \in Nat
      BY <2>1, <2>2
    <3> HIDE DEF x
    <3>2. l # <<>> /\ l[Len(l)] = x
      BY <2>1, <3>1, LatestOfAppend
    <3> HIDE DEF l
    <3> QED
      BY <3>1, <3>2
  <2> QED
    BY <2>2, <2>3 DEF WritesOwn
<1>4. CASE Load(c)
  <2>1. pc'[c] \in {"ask", "enter"} /\ role'[c] = "none" /\ written'[c] = 0
    BY <1>0, <1>4 DEF Load, TypeOK, WritesOwn, diskVars
  <2> QED
    BY <2>1 DEF WritesOwn, Persisting
<1>5. CASE EnterLoaded(c)
  <2>1. pc'[c] = "ask" /\ role'[c] = "none" /\ written'[c] = 0
    BY <1>0, <1>5 DEF EnterLoaded, TypeOK, WritesOwn, diskVars
  <2> QED
    BY <2>1 DEF WritesOwn, Persisting
<1>6. CASE ModelAnswers(c) \/ Respond(c)
  <2>1. pc'[c] \in {"save", "idle"} /\ written'[c] = 0
    BY <1>0, <1>6 DEF ModelAnswers, Respond, TypeOK, WritesOwn, diskVars
  <2> QED
    BY <2>1 DEF WritesOwn, Persisting
<1>7. CASE CreateTmp(c)
  <2>1. pc'[c] = "write" /\ msgs'[c] = msgs[c] /\ own'[c] = own[c] /\ pc[c] = "create"
    BY <1>7 DEF CreateTmp, TypeOK
  <2>2. fd'[c] # 0
    BY <1>7, CreateDoes DEF TypeOK
  <2> QED
    BY <1>0, <2>1, <2>2 DEF WritesOwn, Persisting
<1>8. CASE WriteLine(c)
  <2>1. /\ pc'[c] \in {"write", "sync"} /\ msgs'[c] = msgs[c] /\ own'[c] = own[c]
        /\ pc[c] = "write" /\ fd'[c] = fd[c]
    BY <1>8 DEF WriteLine, TypeOK
  <2> QED
    BY <1>0, <2>1 DEF WritesOwn, Persisting
<1>9. CASE SyncTmp(c)
  <2>1. /\ pc'[c] = "rename" /\ msgs'[c] = msgs[c] /\ own'[c] = own[c]
        /\ pc[c] = "sync" /\ written'[c] = 0
    BY <1>9 DEF SyncTmp, CloseFile, TypeOK
  <2> QED
    BY <1>0, <2>1 DEF WritesOwn, Persisting
<1>10. CASE RenameTmp(c)
  <2>1. written'[c] = 0 /\ own'[c] = own[c] /\ role'[c] = role[c] /\ pc[c] = "rename"
    BY <1>0, <1>10 DEF RenameTmp, WritesOwn
  <2>2. msgs[c][Len(msgs[c])] = own[c]
    BY <1>0, <2>1 DEF WritesOwn, Persisting
  <2>3. AppendReturns(c, <<>>) \/ AppendReturns(c, msgs[c])
    BY <1>10 DEF RenameTmp, Context
  <2> QED
    BY <2>1, <2>2, <2>3, ReturnsOwn
<1>11. CASE PersistFails(c)
  <2>1. written'[c] = 0 /\ own'[c] = own[c] /\ role'[c] = role[c] /\ AppendReturns(c, <<>>)
    BY <1>11 DEF PersistFails, CloseFile, TypeOK
  <2> QED
    BY <2>1, ReturnsOwn
<1> QED
  BY <1>1, <1>2, <1>3, <1>4, <1>5, <1>6, <1>7, <1>8, <1>9, <1>10, <1>11 DEF ChatStep

LEMMA OwnStep == TypeOK /\ OwnInv /\ [Next]_vars => OwnInv'
<1> SUFFICES ASSUME TypeOK, OwnInv, [Next]_vars PROVE OwnInv'
  OBVIOUS
<1>1. CASE UNCHANGED vars
  BY <1>1 DEF OwnInv, WritesOwn, vars, chatVars, diskVars
<1>2. CASE Crash
  BY <1>2 DEF OwnInv, WritesOwn, Crash, Persisting
<1>3. ASSUME NEW c \in Chats, HandleChat(c) \/ ChatStep(c) PROVE OwnInv'
  <2>1. tmp' # 0 => tmp' # file'
    BY <1>3, NamesDiffer
  <2>2. ASSUME NEW d \in Chats PROVE WritesOwn(d)'
    <3>1. CASE d = c
      BY <1>3, <3>1, OwnKept
    <3>2. CASE d # c
      BY <1>3, <3>2, OthersKeep, SameChatWritesOwn DEF OwnInv
    <3> QED
      BY <3>1, <3>2
  <2> QED
    BY <2>1, <2>2 DEF OwnInv
<1> QED
  BY <1>1, <1>2, <1>3 DEF Next
-----------------------------------------------------------------------------
(* As long as no two uses overlap                                          *)

LEMMA FileInit == Init => FileInv
<1> SUFFICES ASSUME Init PROVE FileInv
  OBVIOUS
<1>1. Ordered(<<>>, 0)
  <2>1. Len(<<>>) = 0
    BY EmptyHasNone
  <2>2. \A i \in 1..Len(<<>>) : FALSE
    BY <2>1
  <2> QED
    BY <2>2 DEF Ordered
<1>2. Alone /\ FileSafe /\ \A c \in Chats : UseInv(c)
  BY DEF Init, Alone, FileSafe, UseInv, Using, Persisting
<1> QED
  BY <1>1, <1>2 DEF Init, FileInv

LEMMA OrderedOfMore ==
  ASSUME NEW s \in Seq(Nat), NEW n \in Nat, NEW m \in Nat, n <= m, Ordered(s, n)
  PROVE  Ordered(s, m)
BY DEF Ordered

LEMMA OrderedLatest ==
  ASSUME NEW s \in Seq(Nat), NEW n \in Nat, Ordered(s, n), NEW w \in Nat \ {0}
  PROVE  Ordered(Latest(Append(s, n + 1), w), n + 1)
<1> DEFINE t == Append(s, n + 1)
           l == Latest(t, w)
<1>1. t \in Seq(Nat) /\ Len(t) = Len(s) + 1 /\ Len(s) \in Nat
  OBVIOUS
<1>2. \A i \in 1..Len(t) : i \in Nat /\ t[i] = IF i = Len(t) THEN n + 1 ELSE s[i]
  BY <1>1
<1>3. \A i \in 1..Len(s) : s[i] \in 1..n
  BY DEF Ordered
<1>4. \A i \in 1..Len(t) : t[i] \in 1..(n + 1)
  BY <1>1, <1>2, <1>3
<1>5. \A i, j \in 1..Len(t) : i < j => t[i] < t[j]
  <2> TAKE i, j \in 1..Len(t)
  <2> HAVE i < j
  <2>1. i \in 1..Len(s) /\ s[i] \in 1..n /\ t[i] = s[i]
    BY <1>1, <1>2, <1>3
  <2>2. CASE j = Len(t)
    BY <1>2, <2>1, <2>2
  <2>3. CASE j # Len(t)
    <3>1. j \in 1..Len(s) /\ t[j] = s[j]
      BY <1>1, <1>2, <2>3
    <3> QED
      BY <2>1, <3>1 DEF Ordered
  <2> QED
    BY <2>2, <2>3
<1> HIDE DEF t
<1>6. /\ Len(l) \in Nat /\ Len(l) <= Len(t)
      /\ \A i \in 1..Len(l) : l[i] = t[i + (Len(t) - Len(l))]
  <2>1. /\ l \in Seq(Nat)
        /\ Len(l) = (IF Len(t) > w THEN w ELSE Len(t))
        /\ \A i \in 1..Len(l) : l[i] = t[i + (Len(t) - Len(l))]
    BY <1>1, LatestIs
  <2> HIDE DEF l
  <2>2. Len(l) \in Nat /\ Len(t) \in Nat /\ w \in Nat
    BY <1>1, <2>1
  <2>3. Len(l) <= Len(t)
    BY <2>1, <2>2
  <2> QED
    BY <2>1, <2>2, <2>3
<1> HIDE DEF l
<1>7. \A i \in 1..Len(l) : i + (Len(t) - Len(l)) \in 1..Len(t)
  BY <1>1, <1>6
<1>8. \A i \in 1..Len(l) : l[i] \in 1..(n + 1)
  BY <1>4, <1>6, <1>7
<1>9. \A i, j \in 1..Len(l) : i < j => l[i] < l[j]
  <2> TAKE i, j \in 1..Len(l)
  <2> HAVE i < j
  <2>1. i + (Len(t) - Len(l)) < j + (Len(t) - Len(l))
    BY <1>1, <1>6
  <2> QED
    BY <1>5, <1>6, <1>7, <2>1
<1> QED
  BY <1>8, <1>9 DEF Ordered, l, t

(* What is read of ordered lines is ordered, can be read again, and lacks  *)
(* no line that can be read.                                               *)
LEMMA MessagesOrdered ==
  ASSUME NEW lines \in Seq(Nat), NEW n \in Nat, Ordered(lines, n)
  PROVE  /\ Messages(lines) \in Seq(Nat) /\ Len(Messages(lines)) <= Len(lines)
         /\ Ordered(Messages(lines), n)
         /\ \A k \in 1..Len(Messages(lines)) : Readable(Messages(lines)[k])
         /\ \A i \in Whole(lines) : Holds(Messages(lines), lines[i])
<1> DEFINE P == Whole(lines)
           read == Messages(lines)
           w == Cardinality(P)
           z == Len(lines)
           nth(k) == Nth(P, k)
<1>1. z \in Nat /\ P \in SUBSET (1..z)
  BY DEF Whole
<1>2. /\ w \in Nat /\ w <= z
      /\ \A k \in 1..w : nth(k) \in P
      /\ \A k, l \in 1..w : k < l => nth(k) < nth(l)
      /\ \A i \in P : \E k \in 1..w : nth(k) = i
  <2> HIDE DEF P, z
  <2> QED
    BY <1>1, NthIsOrdered
<1>3. read \in Seq(Nat) /\ Len(read) = w /\ \A k \in 1..w : read[k] = lines[nth(k)]
  <2>1. read = [k \in 1..w |-> lines[nth(k)]]
    BY DEF Messages, Picked
  <2>2. read \in Seq(Nat)
    BY MessagesType
  <2> HIDE DEF P, nth, w, read
  <2> QED
    BY <1>2, <2>1, <2>2
<1>4. \A i \in P : Readable(lines[i])
  <2> TAKE i \in P
  <2>1. i \in 1..z /\ lines[i] # Torn /\ lines[i] \notin roleless
        /\ \A j \in 1..i : lines[j] \notin long
    BY DEF Whole
  <2>2. i \in 1..i
    BY <1>1, <2>1
  <2> QED
    BY <2>1, <2>2 DEF Readable
<1>5. \A i \in P : i \in 1..z
  BY <1>1
<1> HIDE DEF P, nth, w, read, z
<1>6. Ordered(read, n)
  <2>1. /\ \A i \in 1..z : lines[i] \in 1..n
        /\ \A i, j \in 1..z : i < j => lines[i] < lines[j]
    BY DEF Ordered, z
  <2>2. \A k \in 1..w : read[k] \in 1..n
    BY <1>2, <1>3, <1>5, <2>1
  <2>3. \A k, l \in 1..w : k < l => read[k] < read[l]
    <3> TAKE k, l \in 1..w
    <3> HAVE k < l
    <3>1. nth(k) \in 1..z /\ nth(l) \in 1..z /\ nth(k) < nth(l)
      BY <1>2, <1>5
    <3>2. lines[nth(k)] < lines[nth(l)]
      BY <2>1, <3>1
    <3> QED
      BY <1>3, <3>2
  <2> QED
    BY <1>3, <2>2, <2>3 DEF Ordered
<1>7. \A k \in 1..Len(read) : Readable(read[k])
  BY <1>2, <1>3, <1>4
<1>8. \A i \in P : Holds(read, lines[i])
  BY <1>2, <1>3 DEF Holds
<1> QED
  BY <1>2, <1>3, <1>6, <1>7, <1>8 DEF P, read, z

LEMMA ReadsOrdered ==
  ASSUME NEW s \in Seq(Nat), NEW n \in Nat, Ordered(s, n), NEW read \in Reads(s)
  PROVE  Ordered(read, n)
<1>1. /\ \A i \in 1..Len(read) : i \in 1..Len(s) /\ read[i] = s[i]
  BY ReadsType
<1> QED
  BY <1>1 DEF Ordered

(* What is read of a file that is whole, wherever the reading stops, fits  *)
(* the window.                                                             *)
LEMMA StoredIs ==
  ASSUME TypeOK, FileSafe
  PROVE  /\ Stored \in Seq(Nat) /\ Len(Stored) <= Window
         /\ Messages(Stored) = Stored
         /\ \A k \in 1..Len(Stored) : Readable(Stored[k])
         /\ Stored \in Reads(Stored)
         /\ \A read \in Reads(Stored) :
              Latest(read, Window) = read /\ Ordered(read, appended) /\ read \in Seq(Nat)
<1>1. Window \in Nat \ {0} /\ appended \in Nat
  BY ChatAssumption DEF TypeOK
<1>2. /\ Stored \in Seq(Nat) /\ Len(Stored) <= Window /\ Ordered(Stored, appended)
      /\ \A k \in 1..Len(Stored) : Readable(Stored[k])
  <2>1. CASE file = 0
    <3>1. Stored = <<>> /\ <<>> \in Seq(Nat) /\ Len(<<>>) = 0
      BY <2>1, EmptyHasNone DEF Stored
    <3>2. \A i \in 1..Len(<<>>) : FALSE
      BY <3>1
    <3>3. Ordered(<<>>, appended)
      BY <3>2 DEF Ordered
    <3>4. Len(<<>>) <= Window
      BY <1>1, <3>1
    <3> QED
      BY <3>1, <3>2, <3>3, <3>4
  <2>2. CASE file # 0
    <3> DEFINE lines == inode[file].lines
    <3>1. lines \in Seq(Nat) /\ Len(lines) <= Window /\ Ordered(lines, appended)
      BY <2>2 DEF TypeOK, FileSafe
    <3>2. Stored = Messages(lines)
      BY <2>2 DEF Stored
    <3> HIDE DEF lines
    <3>3. /\ Messages(lines) \in Seq(Nat) /\ Len(Messages(lines)) <= Len(lines)
          /\ Ordered(Messages(lines), appended)
          /\ \A k \in 1..Len(Messages(lines)) : Readable(Messages(lines)[k])
      BY <1>1, <3>1, MessagesOrdered
    <3> DEFINE m == Messages(lines)
    <3>4. Len(m) \in Nat /\ Len(lines) \in Nat
      BY <3>1, <3>3
    <3> HIDE DEF m
    <3>5. Len(m) <= Window
      BY <1>1, <3>1, <3>3, <3>4 DEF m
    <3> QED
      BY <3>2, <3>3, <3>5 DEF m
  <2> QED
    BY <2>1, <2>2
<1> DEFINE s == Stored
<1>3. s \in Seq(Nat) /\ Len(s) \in Nat /\ Len(s) <= Window /\ Ordered(s, appended)
      /\ \A k \in 1..Len(s) : Readable(s[k])
  BY <1>2
<1> HIDE DEF s
<1>4. Messages(s) = s
  BY <1>3, MessagesWhole
<1>5. s \in Reads(s)
  <2>1. s = SubSeq(s, 1, Len(s)) /\ Len(s) \in 0..Len(s)
    BY <1>3, SubSeqFull
  <2> QED
    BY <2>1 DEF Reads
<1>6. \A read \in Reads(s) :
        Latest(read, Window) = read /\ Ordered(read, appended) /\ read \in Seq(Nat)
  <2> TAKE read \in Reads(s)
  <2>1. read \in Seq(Nat) /\ Len(read) \in Nat /\ Len(read) <= Len(s)
    BY <1>3, ReadsType
  <2>2. Ordered(read, appended)
    BY <1>1, <1>3, ReadsOrdered
  <2>3. Len(read) <= Window
    BY <1>1, <1>3, <2>1
  <2>4. Latest(read, Window) = read
    BY <1>1, <2>1, <2>3, LatestIs
  <2> QED
    BY <2>1, <2>2, <2>4
<1> QED
  BY <1>3, <1>4, <1>5, <1>6 DEF s

(* A chat that uses nothing and stands still.                              *)
LEMMA UnusedStays ==
  ASSUME NEW d \in Chats, pc'[d] \notin Using
  PROVE  UseInv(d)'
BY DEF UseInv, Using, Persisting

LEMMA AloneStays ==
  ASSUME NEW c \in Chats, \A d \in Chats : d # c => pc'[d] \notin Using
  PROVE  Alone'
BY DEF Alone
-----------------------------------------------------------------------------
(* What FileInv says of one state.                                         *)
Followed == Alone /\ Ordered(session, appended) /\ FileSafe /\ \A c \in Chats : UseInv(c)

LEMMA TalkingFollowed ==
  ASSUME TypeOK, Followed, NEW c \in Chats, Talking(c)
  PROVE  Followed'
<1>1. /\ pc'[c] \notin Using /\ session' = session /\ appended' = appended
      /\ file' = file /\ tmp' = tmp /\ inode' = inode
  BY DEF Talking, HandleChat, SaveFails, ModelAnswers, Respond, AppendReturns, diskVars,
         TypeOK, Using
<1>2. \A d \in Chats : d # c => SameChat(d)
  BY OthersKeep DEF Talking, ChatStep
<1>4. \A d \in Chats : pc'[d] \in Using => d # c /\ pc[d] \in Using
  BY <1>1, <1>2 DEF SameChat
<1>5. Alone'
  BY <1>4 DEF Followed, Alone
<1>6. ASSUME NEW d \in Chats PROVE UseInv(d)'
  <2>1. CASE d = c
    BY <1>1, <2>1, UnusedStays
  <2>2. CASE d # c
    BY <1>1, <1>2, <2>2 DEF Followed, UseInv, SameChat
  <2> QED
    BY <2>1, <2>2
<1>7. Ordered(session, appended)' /\ FileSafe'
  BY <1>1 DEF Followed, FileSafe
<1> QED
  BY <1>5, <1>6, <1>7 DEF Followed

(* The one use that is in progress: nobody else has one before or after.   *)
LEMMA OneUse ==
  ASSUME TypeOK, NEW c \in Chats, ChatStep(c),
         \A d \in Chats : d # c => pc[d] \notin Using,
         Ordered(session, appended)', FileSafe', UseInv(c)'
  PROVE  Followed'
<1>1. \A d \in Chats : d # c => pc'[d] \notin Using
  BY OthersKeep DEF SameChat
<1>2. Alone'
  BY <1>1, AloneStays
<1>3. ASSUME NEW d \in Chats PROVE UseInv(d)'
  BY <1>1, UnusedStays
<1> QED
  BY <1>2, <1>3 DEF Followed

LEMMA SessionFollowed ==
  ASSUME TypeOK, Followed, NEW c \in Chats, ~overlapped',
         Enter(c) \/ Load(c) \/ EnterLoaded(c)
  PROVE  Followed'
<1>1. CASE Enter(c)
  <2>1. \A d \in Chats : pc[d] \notin Using
    BY <1>1 DEF Enter, BeginUse
  <2>2. /\ session' = Latest(Append(session, appended + 1), Window)
        /\ appended' = appended + 1 /\ pc'[c] = "create" /\ msgs'[c] = session'
        /\ file' = file /\ inode' = inode
    BY <1>1 DEF Enter, TypeOK, diskVars
  <2>3. session \in Seq(Nat) /\ appended \in Nat /\ Window \in Nat \ {0}
    BY ChatAssumption DEF TypeOK
  <2>4. Ordered(session, appended)'
    <3>1. Ordered(Latest(Append(session, appended + 1), Window), appended + 1)
      BY <2>3, OrderedLatest DEF Followed
    <3> QED
      BY <2>2, <3>1
  <2>5. FileSafe'
    <3>1. CASE file = 0
      BY <2>2, <3>1 DEF FileSafe
    <3>2. CASE file # 0
      <4> DEFINE lines == inode[file].lines
      <4>1. /\ lines \in Seq(Nat) /\ Ordered(lines, appended)
            /\ inode[file].synced /\ Len(lines) <= Window
        BY <3>2 DEF TypeOK, Followed, FileSafe
      <4> HIDE DEF lines
      <4>2. Ordered(lines, appended + 1)
        BY <2>3, <4>1, OrderedOfMore
      <4> QED
        BY <2>2, <4>1, <4>2 DEF FileSafe, lines
    <3> QED
      BY <3>1, <3>2
  <2>6. UseInv(c)'
    BY <2>2 DEF UseInv, Persisting
  <2> QED
    BY <1>1, <2>1, <2>4, <2>5, <2>6, OneUse DEF ChatStep
<1>2. CASE Load(c)
  <2>0. PICK read \in Reads(Stored) : LoadOf(c, read)
    BY <1>2 DEF Load, LoadOf
  <2>1. /\ session' = session /\ appended' = appended
        /\ file' = file /\ tmp' = tmp /\ inode' = inode
    BY <2>0 DEF LoadOf, diskVars
  <2>3. Ordered(session, appended)' /\ FileSafe'
    BY <2>1 DEF Followed, FileSafe
  <2>4. \A d \in Chats : d # c => SameChat(d)
    BY <1>2, OthersKeep DEF ChatStep
  <2>5. CASE read = <<>>
    <3>1. pc'[c] = "ask"
      BY <2>0, <2>5 DEF LoadOf, TypeOK
    <3>2. \A d \in Chats : pc'[d] \in Using => d # c /\ pc[d] \in Using
      BY <2>4, <3>1 DEF SameChat, Using
    <3>3. Alone'
      BY <3>2 DEF Followed, Alone
    <3>4. ASSUME NEW d \in Chats PROVE UseInv(d)'
      <4>1. CASE d = c
        BY <3>1, <4>1 DEF UseInv, Persisting
      <4>2. CASE d # c
        BY <2>1, <2>4, <4>2 DEF Followed, UseInv, SameChat
      <4> QED
        BY <4>1, <4>2
    <3> QED
      BY <2>3, <3>3, <3>4 DEF Followed
  <2>6. CASE read # <<>>
    <3>1. \A d \in Chats : pc[d] \notin Using
      BY <2>0, <2>6 DEF LoadOf, BeginUse
    <3>2. pc'[c] = "enter" /\ msgs'[c] = Latest(read, Window)
      BY <2>0, <2>6 DEF LoadOf, TypeOK
    <3>3. Ordered(msgs'[c], appended)
      BY <3>2, StoredIs DEF Followed
    <3>4. UseInv(c)'
      BY <2>1, <3>2, <3>3 DEF UseInv, Persisting
    <3> QED
      BY <1>2, <2>3, <3>1, <3>4, OneUse DEF ChatStep
  <2> QED
    BY <2>5, <2>6
<1>3. CASE EnterLoaded(c)
  <2>1. pc[c] = "enter" /\ \A d \in Chats : d # c => pc[d] \notin Using
    BY <1>3 DEF EnterLoaded, Followed, Alone, Using
  <2>2. /\ session' = msgs[c] /\ appended' = appended /\ pc'[c] = "ask"
        /\ file' = file /\ inode' = inode
    BY <1>3, <2>1 DEF EnterLoaded, TypeOK, diskVars
  <2>3. Ordered(session, appended)'
    BY <2>1, <2>2 DEF Followed, UseInv
  <2>4. FileSafe'
    BY <2>2 DEF Followed, FileSafe
  <2>5. UseInv(c)'
    BY <2>2 DEF UseInv, Persisting
  <2> QED
    BY <1>3, <2>1, <2>3, <2>4, <2>5, OneUse DEF ChatStep
<1> QED
  BY <1>1, <1>2, <1>3
-----------------------------------------------------------------------------
LEMMA CreateFollowed ==
  ASSUME TypeOK, OwnInv, Followed, NEW c \in Chats, CreateTmp(c)
  PROVE  Followed'
<1>1. pc[c] = "create" /\ \A d \in Chats : d # c => pc[d] \notin Using
  BY DEF CreateTmp, Followed, Alone, Using
<1>2. /\ session' = session /\ appended' = appended /\ file' = file /\ pc'[c] = "write"
      /\ msgs' = msgs /\ written' = written
  BY DEF CreateTmp, TypeOK
<1>3. /\ tmp' \in Inodes /\ tmp' # file /\ fd'[c] = tmp' /\ inode'[tmp'].lines = <<>>
      /\ \A j \in Inodes : j # tmp' => inode'[j] = inode[j]
  BY CreateDoes DEF TypeOK
<1>4. file # 0 => file \in Inodes /\ inode'[file] = inode[file]
  BY <1>3 DEF TypeOK
<1>5. Ordered(session, appended)' /\ FileSafe'
  BY <1>2, <1>4 DEF Followed, FileSafe
<1>6. msgs[c] \in Seq(Nat) /\ msgs[c] # <<>> /\ written[c] = 0 /\ msgs[c] = session
  BY <1>1 DEF TypeOK, OwnInv, WritesOwn, Followed, UseInv, Persisting
<1>7. 0 < Len(msgs[c]) /\ Len(<<>>) = 0 /\ \A i \in 1..0 : FALSE
  BY <1>6, EmptySeq
<1>8. UseInv(c)'
  BY <1>2, <1>3, <1>6, <1>7 DEF UseInv
<1> QED
  BY <1>1, <1>5, <1>8, OneUse DEF ChatStep

(* One line more of the list is in the file.                               *)
LEMMA LineWritten ==
  ASSUME NEW list \in Seq(Nat), NEW lines \in Seq(Nat), NEW n \in Nat, n < Len(list),
         Len(lines) = n, \A i \in 1..n : lines[i] = list[i]
  PROVE  LET after == Overwrite(lines, n + 1, list[n + 1])
         IN  /\ Len(after) = n + 1
             /\ \A i \in 1..(n + 1) : after[i] = list[i]
             /\ n + 1 = Len(list) => after = list
<1> DEFINE after == Overwrite(lines, n + 1, list[n + 1])
<1>1. Len(list) \in Nat /\ n + 1 \in 1..Len(list) /\ n + 1 \in Nat \ {0}
  OBVIOUS
<1>2. list[n + 1] \in Nat
  BY <1>1, ElementOfSeq
<1>3. /\ after \in Seq(Nat) /\ Len(after) = n + 1
      /\ after[n + 1] = list[n + 1]
      /\ \A k \in 1..n : after[k] = lines[k]
  <2> DEFINE m == list[n + 1]
  <2>1. after = Append(lines, m)
    BY <1>1, <1>2, OverwriteIs
  <2>2. m \in Nat
    BY <1>2
  <2> HIDE DEF m, after
  <2>3. after \in Seq(Nat) /\ Len(after) = n + 1 /\ after[n + 1] = m
    BY <2>1, <2>2
  <2>4. \A k \in 1..n : after[k] = lines[k]
    BY <2>1, <2>2
  <2> QED
    BY <2>3, <2>4 DEF m
<1> HIDE DEF after
<1>4. \A i \in 1..(n + 1) : after[i] = list[i]
  <2> TAKE i \in 1..(n + 1)
  <2>1. i = n + 1 \/ i \in 1..n
    OBVIOUS
  <2> QED
    BY <1>3, <2>1
<1>5. n + 1 = Len(list) => after = list
  BY <1>3, <1>4, SeqEqual
<1> QED
  BY <1>3, <1>4, <1>5 DEF after

LEMMA WriteFollowed ==
  ASSUME TypeOK, OwnInv, Followed, NEW c \in Chats, WriteLine(c)
  PROVE  Followed'
<1>1. pc[c] = "write" /\ \A d \in Chats : d # c => pc[d] \notin Using
  BY DEF WriteLine, Followed, Alone, Using
<1>2. /\ session' = session /\ appended' = appended /\ file' = file /\ tmp' = tmp
      /\ msgs' = msgs /\ fd' = fd /\ written'[c] = written[c] + 1
      /\ pc'[c] = IF written'[c] = Len(msgs[c]) THEN "sync" ELSE "write"
  BY <1>1 DEF WriteLine, TypeOK
<1>3. /\ fd[c] = tmp /\ tmp \in Inodes /\ tmp # file
      /\ msgs[c] = session /\ written[c] < Len(msgs[c])
      /\ Len(inode[tmp].lines) = written[c]
      /\ \A i \in 1..written[c] : inode[tmp].lines[i] = msgs[c][i]
  BY <1>1, WriteDoes DEF Followed, UseInv, OwnInv, WritesOwn, Persisting
<1>4. /\ inode'[tmp].lines =
           Overwrite(inode[tmp].lines, written[c] + 1, msgs[c][written[c] + 1])
      /\ \A j \in Inodes : j # tmp => inode'[j] = inode[j]
  BY <1>3, WriteDoes
<1>5. file # 0 => file \in Inodes /\ inode'[file] = inode[file]
  BY <1>3, <1>4 DEF TypeOK
<1>6. Ordered(session, appended)' /\ FileSafe'
  BY <1>2, <1>5 DEF Followed, FileSafe
<1> DEFINE list == msgs[c]
           lines == inode[tmp].lines
           n == written[c]
           after == inode'[tmp].lines
<1>7. list \in Seq(Nat) /\ lines \in Seq(Nat) /\ n \in Nat
  BY <1>3 DEF TypeOK
<1>8. /\ Len(after) = n + 1
      /\ \A i \in 1..(n + 1) : after[i] = list[i]
      /\ n + 1 = Len(list) => after = list
  <2>1. /\ n < Len(list) /\ Len(lines) = n /\ \A i \in 1..n : lines[i] = list[i]
        /\ after = Overwrite(lines, n + 1, list[n + 1])
    BY <1>3, <1>4
  <2> HIDE DEF list, lines, n, after
  <2>2. /\ Len(Overwrite(lines, n + 1, list[n + 1])) = n + 1
        /\ \A i \in 1..(n + 1) : Overwrite(lines, n + 1, list[n + 1])[i] = list[i]
        /\ n + 1 = Len(list) => Overwrite(lines, n + 1, list[n + 1]) = list
    BY <1>7, <2>1, LineWritten, Zenon
  <2> QED
    BY <2>1, <2>2
<1>9. UseInv(c)'
  <2>1. CASE n + 1 = Len(list)
    <3>1. pc'[c] = "sync" /\ inode'[tmp'].lines = msgs'[c] /\ fd'[c] = tmp' /\ msgs'[c] = session'
      BY <1>2, <1>3, <1>8, <2>1
    <3> QED
      BY <3>1 DEF UseInv, Persisting
  <2>2. CASE n + 1 # Len(list)
    <3>1. /\ pc'[c] = "write" /\ fd'[c] = tmp' /\ msgs'[c] = session'
          /\ Len(inode'[tmp'].lines) = written'[c]
          /\ \A i \in 1..written'[c] : inode'[tmp'].lines[i] = msgs'[c][i]
      BY <1>2, <1>3, <1>8, <2>2
    <3>2. Len(list) \in Nat /\ n < Len(list)
      BY <1>3, <1>7
    <3>3. written'[c] < Len(msgs'[c])
      BY <1>2, <1>7, <2>2, <3>2
    <3> QED
      BY <3>1, <3>3 DEF UseInv, Persisting
  <2> QED
    BY <2>1, <2>2
<1> QED
  BY <1>1, <1>6, <1>9, OneUse DEF ChatStep

LEMMA SyncFollowed ==
  ASSUME TypeOK, OwnInv, Followed, NEW c \in Chats, SyncTmp(c)
  PROVE  Followed'
<1>1. pc[c] = "sync" /\ \A d \in Chats : d # c => pc[d] \notin Using
  BY DEF SyncTmp, Followed, Alone, Using
<1>2. /\ session' = session /\ appended' = appended /\ file' = file /\ tmp' = tmp
      /\ msgs' = msgs /\ pc'[c] = "rename"
  BY DEF SyncTmp, TypeOK
<1>3. /\ fd[c] = tmp /\ tmp \in Inodes /\ tmp # 0 /\ tmp # file
      /\ msgs[c] = session /\ inode[tmp].lines = msgs[c]
  BY <1>1, SyncDoes, InodesAreNumbers DEF Followed, UseInv, OwnInv, WritesOwn, Persisting
<1>4. /\ inode'[tmp].lines = inode[tmp].lines /\ inode'[tmp].synced
      /\ \A j \in Inodes : j # tmp => inode'[j] = inode[j]
  BY <1>3, SyncDoes
<1>5. file # 0 => file \in Inodes /\ inode'[file] = inode[file]
  BY <1>3, <1>4 DEF TypeOK
<1>6. Ordered(session, appended)' /\ FileSafe'
  BY <1>2, <1>5 DEF Followed, FileSafe
<1>7. UseInv(c)'
  BY <1>2, <1>3, <1>4 DEF UseInv
<1> QED
  BY <1>1, <1>6, <1>7, OneUse DEF ChatStep

LEMMA RenameFollowed ==
  ASSUME TypeOK, Followed, NEW c \in Chats, RenameTmp(c)
  PROVE  Followed' /\ Stored' = Messages(session)' /\ pc'[c] \notin Using
<1>1. pc[c] = "rename" /\ \A d \in Chats : d # c => pc[d] \notin Using
  BY DEF RenameTmp, Followed, Alone, Using
<1>2. tmp # 0 /\ inode[tmp].lines = session /\ inode[tmp].synced
  BY <1>1 DEF Followed, UseInv, Persisting
<1>3. /\ session' = session /\ appended' = appended /\ inode' = inode /\ file' = tmp
      /\ pc'[c] \in {"ask", "answer"}
      /\ roleless' = roleless /\ long' = long
  BY <1>2 DEF RenameTmp, AppendReturns, TypeOK, kinds
<1>4. session \in Seq(Nat) /\ Len(session) <= Window /\ Ordered(session, appended)
      /\ appended \in Nat
  BY DEF TypeOK, Followed
<1>5. FileSafe'
  BY <1>2, <1>3, <1>4 DEF FileSafe
<1>6. UseInv(c)' /\ pc'[c] \notin Using
  BY <1>3 DEF UseInv, Using, Persisting
<1>7. Followed'
  <2>1. Ordered(session, appended)'
    BY <1>3, <1>4
  <2> QED
    BY <1>1, <1>5, <1>6, <2>1, OneUse DEF ChatStep
<1>8. Stored' = Messages(session)'
  <2>1. Stored' = Messages(session)
    <3>1. Stored' = Messages(inode[tmp].lines)
      <4>1. tmp \in Inodes /\ tmp # 0 /\ inode' = inode /\ file' = tmp
        BY <1>2, <1>3 DEF TypeOK
      <4> QED
        BY <1>3, <4>1 DEF Stored, Messages, Picked, Whole, Torn
    <3> QED
      BY <1>2, <3>1
  <2>2. Messages(session)' = Messages(session)
    BY <1>3 DEF Messages, Picked, Whole, Torn
  <2> QED
    BY <2>1, <2>2
<1> QED
  BY <1>6, <1>7, <1>8

LEMMA FailFollowed ==
  ASSUME TypeOK, Followed, NEW c \in Chats, PersistFails(c)
  PROVE  Followed'
<1>1. pc[c] \in Using /\ \A d \in Chats : d # c => pc[d] \notin Using
  BY DEF PersistFails, Followed, Alone, Using
<1>2. /\ session' = session /\ appended' = appended /\ inode' = inode /\ file' = file
      /\ pc'[c] \in {"ask", "answer"}
  BY DEF PersistFails, AppendReturns, TypeOK
<1>3. Ordered(session, appended)' /\ FileSafe' /\ UseInv(c)'
  BY <1>2 DEF Followed, FileSafe, UseInv, Persisting
<1> QED
  BY <1>1, <1>3, OneUse DEF ChatStep

LEMMA CrashFollowed ==
  ASSUME TypeOK, Followed, Crash
  PROVE  /\ Followed'
         /\ faults' = faults => Messages(session)' = Stored'
<1>1. /\ appended' = appended /\ file' = file
      /\ \A c \in Chats : pc'[c] = "idle"
  BY DEF Crash
<1>2. file # 0 => inode'[file].synced /\ inode'[file].lines = inode[file].lines
  <2>1. SUFFICES ASSUME file # 0
                 PROVE  inode'[file].synced /\ inode'[file].lines = inode[file].lines
    OBVIOUS
  <2>2. inode[file].synced
    BY <2>1 DEF Followed, FileSafe
  <2>3. OnDisk(file) = {inode[file].lines}
    BY <2>1, <2>2 DEF OnDisk
  <2> QED
    BY <2>1, <2>3, CrashDoes
<1>0. roleless' = roleless /\ long' = long
  BY DEF Crash, kinds
<1>3. Stored' = Stored
  <2>1. CASE file = 0
    BY <1>1, <2>1 DEF Stored
  <2>2. CASE file # 0
    <3>1. Stored' = Messages(inode'[file].lines)
      BY <1>0, <1>1, <2>2 DEF Stored, Messages, Picked, Whole, Torn
    <3> QED
      BY <1>2, <2>2, <3>1 DEF Stored
  <2> QED
    BY <2>1, <2>2
<1>4. PICK read \in Reads(Stored) :
        session' = Latest(read, Window) /\ (faults' = faults => read = Stored)
  BY <1>3, CrashDoes
<1>5. Ordered(session, appended)' /\ (faults' = faults => session' = Stored')
  <2>1. read \in Reads(Stored)
    BY <1>4
  <2>2. Latest(read, Window) = read /\ Ordered(read, appended)
    BY <2>1, StoredIs DEF Followed
  <2>3. session' = read
    BY <1>4, <2>2
  <2>4. Ordered(session', appended')
    BY <1>1, <2>2, <2>3
  <2>5. Ordered(session, appended)'
    BY <2>4
  <2> QED
    BY <1>3, <1>4, <2>3, <2>5
<1>8. faults' = faults => Messages(session)' = Stored'
  <2>1. Messages(session)' = Messages(session')
    BY <1>0 DEF Messages, Picked, Whole, Torn
  <2>2. Messages(Stored) = Stored
    BY StoredIs DEF Followed
  <2> QED
    BY <1>3, <1>5, <2>1, <2>2
<1>6. FileSafe'
  BY <1>1, <1>2 DEF Followed, FileSafe
<1>7. Alone' /\ \A c \in Chats : UseInv(c)'
  BY <1>1, UnusedStays DEF Alone, Using
<1> QED
  BY <1>5, <1>6, <1>7, <1>8 DEF Followed

LEMMA OverlapStays == [Next]_vars /\ ~overlapped' => ~overlapped
BY DEF Next, ChatStep, vars, HandleChat, SaveFails, Enter, Load, EnterLoaded, ModelAnswers,
       Respond, CreateTmp, WriteLine, SyncTmp, RenameTmp, PersistFails, Crash, BeginUse

LEMMA FileStep == TypeOK /\ OwnInv /\ FileInv /\ [Next]_vars => FileInv'
<1> SUFFICES ASSUME TypeOK, OwnInv, FileInv, [Next]_vars, ~overlapped' PROVE Followed'
  BY DEF FileInv, Followed
<1>0. Followed
  BY OverlapStays DEF FileInv, Followed
<1>1. CASE UNCHANGED vars
  BY <1>0, <1>1 DEF Followed, Alone, FileSafe, UseInv, Stored, vars, chatVars, diskVars
<1>2. CASE Crash
  BY <1>0, <1>2, CrashFollowed
<1>3. ASSUME NEW c \in Chats, HandleChat(c) \/ ChatStep(c) PROVE Followed'
  BY <1>0, <1>3, TalkingFollowed, SessionFollowed, CreateFollowed, WriteFollowed,
     SyncFollowed, RenameFollowed, FailFollowed DEF Talking, ChatStep
<1> QED
  BY <1>1, <1>2, <1>3 DEF Next
-----------------------------------------------------------------------------
(* Without a failure                                                       *)

(* What MatchInv says of one state.                                        *)
Matched ==
  /\ (\A c \in Chats : pc[c] \notin Persisting) => Stored = Messages(session)
  /\ \A c \in Chats : pc[c] = "enter" => msgs[c] = Stored

LEMMA UsingOrNot ==
  /\ \A x \in Persisting : x \in Using /\ x # "enter"
  /\ "enter" \in Using
  /\ \A x \in Using : x \in Persisting \/ x = "enter"
BY DEF Using, Persisting

LEMMA MatchInit == Init => MatchInv
<1> SUFFICES ASSUME Init PROVE MatchInv
  OBVIOUS
<1>1. <<>> \in Seq(Nat) /\ Len(<<>>) = 0
  BY EmptyHasNone
<1>2. \A i \in 1..Len(<<>>) : FALSE
  BY <1>1
<1>3. Messages(<<>>) = <<>>
  BY <1>1, <1>2, MessagesWhole
<1> QED
  BY <1>3 DEF Init, MatchInv, Stored

(* What is read changes only with the file, or with the kinds of messages. *)
LEMMA ReadSame ==
  ASSUME session' = session, file' = file, inode' = inode, kinds' = kinds
  PROVE  Stored' = Stored /\ Messages(session)' = Messages(session)
BY DEF kinds, Stored, Messages, Picked, Whole, Torn

(* A step after which its chat is the only use left, or none is.           *)
LEMMA LastUse ==
  ASSUME TypeOK, NEW c \in Chats, ChatStep(c), \A d \in Chats : d # c => pc[d] \notin Using,
         pc'[c] # "enter", pc'[c] \in Persisting \/ Stored' = Messages(session)'
  PROVE  Matched'
<1>1. \A d \in Chats : d # c => pc'[d] \notin Using
  BY OthersKeep DEF SameChat
<1>2. \A d \in Chats : pc'[d] # "enter"
  BY <1>1, UsingOrNot
<1> QED
  BY <1>2 DEF Matched

LEMMA MatchChat ==
  ASSUME TypeOK, Followed, Matched, NEW c \in Chats, HandleChat(c) \/ ChatStep(c),
         ~overlapped', faults = 0, faults' = 0
  PROVE  Matched'
<1>0. \A d \in Chats : d # c => SameChat(d)
  BY OthersKeep
<1>1. CASE HandleChat(c) \/ ModelAnswers(c) \/ Respond(c)
  <2>1. /\ pc[c] \notin Persisting /\ pc'[c] # "enter" /\ session' = session
        /\ file' = file /\ inode' = inode /\ kinds' = kinds
    BY <1>1 DEF HandleChat, ModelAnswers, Respond, TypeOK, Persisting, diskVars
  <2>2. Stored' = Stored /\ Messages(session)' = Messages(session)
    BY <2>1, ReadSame
  <2>3. (\A d \in Chats : pc'[d] \notin Persisting) => \A d \in Chats : pc[d] \notin Persisting
    BY <1>0, <2>1 DEF SameChat
  <2> QED
    BY <1>0, <2>1, <2>2, <2>3 DEF Matched, SameChat
<1>2. CASE SaveFails(c) \/ PersistFails(c)
  BY <1>2 DEF SaveFails, PersistFails, Fault
<1>3. CASE Enter(c)
  <2>1. (\A d \in Chats : pc[d] \notin Using) /\ pc'[c] = "create"
    BY <1>3 DEF Enter, BeginUse, TypeOK
  <2> QED
    BY <1>3, <2>1, LastUse DEF ChatStep, Persisting
<1>4. CASE Load(c)
  <2>0. PICK read \in Reads(Stored) : LoadOf(c, read)
    BY <1>4 DEF Load, LoadOf
  <2>1. /\ pc[c] = "load" /\ pc'[c] \in {"ask", "enter"} /\ session' = session
        /\ file' = file /\ inode' = inode /\ kinds' = kinds
        /\ read = Stored
        /\ pc'[c] = "enter" => msgs'[c] = Latest(Stored, Window)
    BY <2>0 DEF LoadOf, TypeOK, diskVars, Fault
  <2>2. Stored' = Stored /\ Messages(session)' = Messages(session)
    BY <2>1, ReadSame
  <2>3. (\A d \in Chats : pc'[d] \notin Persisting) => \A d \in Chats : pc[d] \notin Persisting
    BY <1>0, <2>1 DEF SameChat, Persisting
  <2>4. pc'[c] = "enter" => msgs'[c] = Stored
    BY <2>1, StoredIs DEF Followed
  <2> QED
    BY <1>0, <2>1, <2>2, <2>3, <2>4 DEF Matched, SameChat
<1>5. CASE EnterLoaded(c)
  <2>1. pc[c] = "enter" /\ \A d \in Chats : d # c => pc[d] \notin Using
    BY <1>5 DEF EnterLoaded, Followed, Alone, Using
  <2>2. /\ session' = Stored /\ pc'[c] = "ask" /\ file' = file /\ inode' = inode
        /\ roleless' = roleless /\ long' = long
    BY <1>5, <2>1 DEF EnterLoaded, TypeOK, diskVars, Matched, kinds
  <2>3. Stored' = Stored /\ Messages(session)' = Messages(Stored)
    <3>1. Messages(session)' = Messages(session')
      BY <2>2 DEF Messages, Picked, Whole, Torn
    <3>2. Stored' = Stored
      BY <2>2 DEF Stored, Messages, Picked, Whole, Torn
    <3> QED
      BY <2>2, <3>1, <3>2
  <2>4. Messages(Stored) = Stored
    BY StoredIs DEF Followed
  <2> QED
    BY <1>5, <2>1, <2>2, <2>3, <2>4, LastUse DEF ChatStep
<1>6. CASE CreateTmp(c) \/ WriteLine(c) \/ SyncTmp(c)
  <2>1. pc[c] \in Using /\ pc'[c] \in Persisting
    BY <1>6 DEF CreateTmp, WriteLine, SyncTmp, TypeOK, Using, Persisting
  <2>2. \A d \in Chats : d # c => pc[d] \notin Using
    BY <2>1 DEF Followed, Alone
  <2> QED
    BY <1>6, <2>1, <2>2, LastUse, UsingOrNot DEF ChatStep
<1>7. CASE RenameTmp(c)
  <2>1. pc[c] \in Using
    BY <1>7 DEF RenameTmp, Using
  <2>2. \A d \in Chats : d # c => pc[d] \notin Using
    BY <2>1 DEF Followed, Alone
  <2>3. Stored' = Messages(session)' /\ pc'[c] # "enter"
    BY <1>7, RenameFollowed, UsingOrNot
  <2> QED
    BY <1>7, <2>1, <2>2, <2>3, LastUse DEF ChatStep
<1> QED
  BY <1>1, <1>2, <1>3, <1>4, <1>5, <1>6, <1>7 DEF ChatStep

LEMMA FaultsStay == TypeOK /\ [Next]_vars /\ faults' = 0 => faults = 0
<1> SUFFICES ASSUME TypeOK, [Next]_vars, faults' = 0 PROVE faults = 0
  OBVIOUS
<1>1. faults \in Nat
  BY DEF TypeOK
<1>2. faults' = faults \/ faults' = faults + 1
  <2>1. CASE Crash
    BY <2>1, CrashDoes
  <2>2. CASE ~Crash
    BY <2>2 DEF Next, ChatStep, vars, bounds, HandleChat, SaveFails, Enter, Load, EnterLoaded,
           ModelAnswers, Respond, CreateTmp, WriteLine, SyncTmp, RenameTmp, PersistFails,
           Fault
  <2> QED
    BY <2>1, <2>2
<1> QED
  BY <1>1, <1>2

LEMMA MatchStep == TypeOK /\ FileInv /\ MatchInv /\ [Next]_vars => MatchInv'
<1> SUFFICES ASSUME TypeOK, FileInv, MatchInv, [Next]_vars, ~overlapped', faults' = 0
             PROVE  Matched'
  BY DEF MatchInv, Matched
<1>0. Followed /\ Matched /\ faults = 0
  BY OverlapStays, FaultsStay DEF FileInv, Followed, MatchInv, Matched
<1>1. CASE UNCHANGED vars
  <2>1. Stored' = Stored /\ Messages(session)' = Messages(session)
    BY <1>1, ReadSame DEF vars, diskVars
  <2> QED
    BY <1>0, <1>1, <2>1 DEF Matched, vars, chatVars
<1>2. CASE Crash
  <2>1. Stored' = Messages(session)' /\ \A c \in Chats : pc'[c] = "idle"
    BY <1>0, <1>2, CrashFollowed DEF Crash
  <2> QED
    BY <2>1 DEF Matched
<1>3. ASSUME NEW c \in Chats, HandleChat(c) \/ ChatStep(c) PROVE Matched'
  BY <1>0, <1>3, MatchChat
<1> QED
  BY <1>1, <1>2, <1>3 DEF Next
-----------------------------------------------------------------------------
(* Without a failure and without a crash                                   *)

(* A list that holds every number from k to a has as many elements.        *)
LEMMA HoldsMany ==
  ASSUME NEW s \in Seq(Nat), NEW k \in Nat, NEW a \in Nat, \A m \in k..a : Holds(s, m)
  PROVE  a - k + 1 <= Len(s)
<1> DEFINE f == [m \in k..a |-> CHOOSE i \in 1..Len(s) : s[i] = m]
<1>1. \A m \in k..a : f[m] \in 1..Len(s) /\ s[f[m]] = m
  BY DEF Holds
<1>2. f \in [k..a -> 1..Len(s)]
  BY <1>1
<1> HIDE DEF f
<1>3. \A m, n \in k..a : f[m] = f[n] => m = n
  BY <1>1, Zenon
<1>4. f \in Injection(k..a, 1..Len(s))
  BY <1>2, <1>3 DEF Injection, IsInjective
<1>5. Len(s) \in Nat /\ 1 \in Int /\ Len(s) \in Int /\ k \in Int /\ a \in Int
  OBVIOUS
<1>6. IsFiniteSet(1..Len(s)) /\ Cardinality(1..Len(s)) = IF 1 > Len(s) THEN 0 ELSE Len(s) - 1 + 1
  BY <1>5, FS_Interval
<1>7. Cardinality(k..a) = IF k > a THEN 0 ELSE a - k + 1
  BY <1>5, FS_Interval
<1>8. Cardinality(k..a) <= Cardinality(1..Len(s))
  BY <1>4, <1>6, FS_Injection
<1> QED
  BY <1>5, <1>6, <1>7, <1>8

(* An ordered list of numbers from k to a has no more elements than these. *)
LEMMA OrderedNarrow ==
  ASSUME NEW s \in Seq(Nat), NEW k \in Nat, NEW a \in Nat, k <= a,
         \A i \in 1..Len(s) : s[i] \in k..a,
         \A i, j \in 1..Len(s) : i < j => s[i] < s[j]
  PROVE  Len(s) <= a - k + 1
<1>1. Len(s) \in Nat /\ 1 \in Int /\ Len(s) \in Int /\ k \in Int /\ a \in Int
  OBVIOUS
<1> DEFINE f == [i \in 1..Len(s) |-> s[i]]
<1>2. f \in [1..Len(s) -> k..a]
  OBVIOUS
<1>3. \A i, j \in 1..Len(s) : s[i] = s[j] => i = j
  <2> TAKE i, j \in 1..Len(s)
  <2>1. s[i] \in Nat /\ s[j] \in Nat /\ i \in Nat /\ j \in Nat
    OBVIOUS
  <2>2. (i < j => s[i] < s[j]) /\ (j < i => s[j] < s[i])
    OBVIOUS
  <2> QED
    BY <2>1, <2>2
<1>4. \A i, j \in 1..Len(s) : f[i] = f[j] => i = j
  BY <1>3
<1> HIDE DEF f
<1>5. f \in Injection(1..Len(s), k..a)
  BY <1>2, <1>4 DEF Injection, IsInjective
<1>6. Cardinality(1..Len(s)) = IF 1 > Len(s) THEN 0 ELSE Len(s) - 1 + 1
  BY <1>1, FS_Interval
<1>7. IsFiniteSet(k..a) /\ Cardinality(k..a) = IF k > a THEN 0 ELSE a - k + 1
  BY <1>1, FS_Interval
<1>8. Cardinality(1..Len(s)) <= Cardinality(k..a)
  BY <1>5, <1>7, FS_Injection
<1> QED
  BY <1>1, <1>6, <1>7, <1>8

(* The window over one message more: what it loses is at least as old as   *)
(* the window is long.                                                     *)
LEMMA WindowHolds ==
  ASSUME NEW s \in Seq(Nat), NEW a \in Nat, NEW w \in Nat \ {0}, Ordered(s, a), Len(s) <= w
  PROVE  LET l == Latest(Append(s, a + 1), w)
         IN  /\ Holds(l, a + 1)
             /\ \A i \in 1..Len(l) : l[i] \in 1..(a + 1)
             /\ \A i \in 1..Len(l) : l[i] = a + 1 \/ Holds(s, l[i])
             /\ \A i \in 1..Len(l) : \A m \in 1..a : l[i] <= m /\ Holds(s, m) => Holds(l, m)
             /\ \A m \in 1..a : m + w > a + 1 /\ Holds(s, m) => Holds(l, m)
<1> DEFINE t == Append(s, a + 1)
           l == Latest(t, w)
           z == Len(s)
           n == Len(l)
           d == z + 1 - n
<1>1. /\ t \in Seq(Nat) /\ Len(t) = z + 1 /\ z \in Nat
      /\ t[z + 1] = a + 1 /\ \A i \in 1..z : t[i] = s[i]
  OBVIOUS
<1>2. /\ \A i \in 1..z : s[i] \in 1..a
      /\ \A i, j \in 1..z : i < j => s[i] < s[j]
  BY DEF Ordered
<1> HIDE DEF t
<1>3. /\ l \in Seq(Nat)
      /\ n = (IF Len(t) > w THEN w ELSE Len(t))
      /\ \A i \in 1..n : l[i] = t[i + (Len(t) - n)]
  BY <1>1, LatestIs
<1> HIDE DEF l
<1>4. n \in Nat /\ z \in Nat /\ z <= w
  BY <1>1, <1>3
<1>5. /\ n = (IF z + 1 > w THEN w ELSE z + 1)
      /\ \A i \in 1..n : l[i] = t[i + d]
  <2>1. Len(t) - n = d
    BY <1>1
  <2> HIDE DEF d
  <2>2. \A i \in 1..n : l[i] = t[i + d]
    BY <1>3, <2>1, Zenon
  <2>3. n = (IF z + 1 > w THEN w ELSE z + 1)
    BY <1>1, <1>3
  <2> QED
    BY <2>2, <2>3
<1> HIDE DEF n, z
<1>6. n \in Nat \ {0} /\ d \in Nat /\ n + d = z + 1 /\ (d = 0 \/ (d = 1 /\ z = w))
  BY <1>4, <1>5
<1> HIDE DEF d
<1>7. \A j \in 1..z : d < j => Holds(l, s[j])
  <2> TAKE j \in 1..z
  <2> HAVE d < j
  <2>1. j - d \in 1..n /\ (j - d) + d = j
    BY <1>4, <1>6
  <2>2. l[j - d] = s[j]
    BY <1>1, <1>5, <2>1
  <2> QED
    BY <2>1, <2>2 DEF Holds, n
<1>8. Holds(l, a + 1)
  <2>1. n \in 1..n /\ l[n] = a + 1
    BY <1>1, <1>5, <1>6
  <2> QED
    BY <2>1 DEF Holds, n
<1>9. ASSUME NEW i \in 1..n
      PROVE  (i = n /\ l[i] = a + 1) \/ (i + d \in 1..z /\ l[i] = s[i + d])
  <2>1. CASE i = n
    BY <1>1, <1>5, <1>6, <2>1
  <2>2. CASE i # n
    <3>1. i + d \in 1..z
      BY <1>4, <1>6, <2>2
    <3> QED
      BY <1>1, <1>5, <3>1
  <2> QED
    BY <2>1, <2>2
<1>10. \A i \in 1..n : l[i] \in 1..(a + 1) /\ (l[i] = a + 1 \/ Holds(s, l[i]))
  <2> TAKE i \in 1..n
  <2>1. CASE l[i] = a + 1
    BY <2>1
  <2>2. CASE i + d \in 1..z /\ l[i] = s[i + d]
    <3>1. s[i + d] \in 1..a
      BY <1>2, <2>2
    <3> QED
      BY <2>2, <3>1 DEF Holds, z
  <2> QED
    BY <1>9, <2>1, <2>2
<1>11. ASSUME NEW i \in 1..n, NEW m \in 1..a, l[i] <= m, Holds(s, m) PROVE Holds(l, m)
  <2>1. PICK j \in 1..z : s[j] = m
    BY <1>11 DEF Holds, z
  <2>2. i + d \in 1..z /\ l[i] = s[i + d]
    BY <1>9, <1>11
  <2>3. ~(j < i + d)
    <3>1. j < i + d => s[j] < s[i + d]
      BY <1>2, <2>2
    <3>2. s[i + d] \in 1..a
      BY <1>2, <2>2
    <3> QED
      BY <1>11, <2>1, <2>2, <3>1, <3>2
  <2>4. d < j
    BY <1>6, <2>3
  <2> QED
    BY <1>7, <2>1, <2>4
<1>12. ASSUME NEW m \in 1..a, m + w > a + 1, Holds(s, m) PROVE Holds(l, m)
  <2>1. PICK j \in 1..z : s[j] = m
    BY <1>12 DEF Holds, z
  <2>2. CASE d < j
    BY <1>7, <2>1, <2>2
  <2>3. CASE ~(d < j)
    <3>1. j = 1 /\ z = w
      BY <1>4, <1>6, <2>3
    <3>2. \A i \in 1..z : s[i] \in m..a
      <4> TAKE i \in 1..z
      <4>1. s[i] \in 1..a /\ (1 < i => s[1] < s[i]) /\ (i = 1 \/ 1 < i)
        BY <1>2, <3>1
      <4> QED
        BY <2>1, <3>1, <4>1
    <3>3. m \in Nat /\ m <= a
      OBVIOUS
    <3>4. z <= a - m + 1
      BY <1>2, <3>2, <3>3, OrderedNarrow DEF z
    <3> QED
      BY <1>4, <1>12, <3>1, <3>3, <3>4
  <2> QED
    BY <2>2, <2>3
<1> QED
  BY <1>8, <1>10, <1>11, <1>12 DEF l, n, t

(* A reload keeps what it can read, and then nothing long is left.         *)
LEMMA ReadKept ==
  ASSUME NEW s \in Seq(Nat), NEW a \in Nat, Ordered(s, a), Len(s) <= Window,
         Kept(s, a), LongFollowed(s, a), Window \in Nat, roleless \subseteq Nat, long \subseteq Nat
  PROVE  Kept(Messages(s), a) /\ LongFollowed(Messages(s), a)
<1> DEFINE r == Messages(s)
<1>1. /\ \A k \in 1..Len(r) : Readable(r[k])
      /\ \A i \in Whole(s) : Holds(r, s[i])
  BY MessagesOrdered
<1>2. LongFollowed(r, a)
  BY <1>1 DEF LongFollowed, Readable
<1> HIDE DEF r
<1>3. ASSUME NEW m \in 1..a, m + Window > a PROVE Unreadable(m) \/ Holds(r, m)
  <2>1. CASE Unreadable(m)
    BY <2>1
  <2>2. CASE Holds(s, m)
    <3>1. PICK i \in 1..Len(s) : s[i] = m
      BY <2>2 DEF Holds
    <3>2. CASE i \in Whole(s)
      BY <1>1, <3>1, <3>2
    <3>3. CASE i \notin Whole(s)
      <4>1. m # Torn
        BY DEF Torn
      <4>2. m \in roleless \/ \E j \in 1..i : s[j] \in long
        BY <3>1, <3>3, <4>1 DEF Whole
      <4>3. CASE m \in roleless
        BY <4>3 DEF Unreadable
      <4>4. CASE \E j \in 1..i : s[j] \in long
        <5>1. PICK j \in 1..i : s[j] \in long
          BY <4>4
        <5>2. j \in 1..Len(s) /\ (j = i \/ j < i)
          OBVIOUS
        <5>3. s[j] \in 1..a /\ s[j] <= m
          BY <3>1, <5>2 DEF Ordered
        <5>4. \A x \in s[j]..a : Holds(s, x)
          BY <5>1, <5>2 DEF LongFollowed
        <5>5. s[j] \in Nat
          BY <5>3
        <5>6. a - s[j] + 1 <= Len(s)
          BY <5>4, <5>5, HoldsMany
        <5>7. m < s[j] + Window
          BY <5>3, <5>6
        <5> QED
          BY <5>1, <5>3, <5>7 DEF Unreadable
      <4> QED
        BY <4>2, <4>3, <4>4
    <3> QED
      BY <3>2, <3>3
  <2> QED
    BY <1>3, <2>1, <2>2 DEF Kept
<1> QED
  BY <1>2, <1>3 DEF Kept, r

(* What could not be read never can.                                       *)
LEMMA UnreadableStays ==
  ASSUME roleless \subseteq roleless', long \subseteq long'
  PROVE  \A m \in Nat : Unreadable(m) => Unreadable(m)'
BY DEF Unreadable

(* What CompleteInv says of one state.                                     *)
CompleteOf(c) ==
  /\ pc[c] \in Persisting => own[c] = appended
  /\ pc[c] = "ask" /\ role[c] = "user" =>
       Ordered(prompt[c], own[c]) /\ Kept(prompt[c], own[c])

Complete ==
  /\ Kept(session, appended) /\ LongFollowed(session, appended)
  /\ \A c \in Chats : CompleteOf(c)

LEMMA CompleteInit == Init => CompleteInv
<1> SUFFICES ASSUME Init PROVE CompleteInv
  OBVIOUS
<1>1. Kept(session, appended) /\ LongFollowed(session, appended)
  BY DEF Init, Kept, LongFollowed
<1> QED
  BY <1>1 DEF Init, CompleteInv, Persisting

LEMMA KeptEnter ==
  ASSUME TypeOK, Followed, Complete, NEW c \in Chats, Enter(c)
  PROVE  Kept(session, appended)' /\ LongFollowed(session, appended)'
<1> DEFINE a == appended
           l == Latest(Append(session, a + 1), Window)
<1>1. /\ session' = l /\ appended' = a + 1 /\ a \in Nat /\ Window \in Nat \ {0}
      /\ session \in Seq(Nat) /\ Ordered(session, a) /\ Len(session) <= Window
  BY ChatAssumption DEF Enter, TypeOK, Followed
<1>2. /\ Holds(l, a + 1)
      /\ \A i \in 1..Len(l) : l[i] \in 1..(a + 1)
      /\ \A i \in 1..Len(l) : l[i] = a + 1 \/ Holds(session, l[i])
      /\ \A i \in 1..Len(l) : \A m \in 1..a : l[i] <= m /\ Holds(session, m) => Holds(l, m)
      /\ \A m \in 1..a : m + Window > a + 1 /\ Holds(session, m) => Holds(l, m)
  BY <1>1, WindowHolds
<1>3. roleless \subseteq roleless' /\ long \subseteq long' /\ long' \subseteq long \cup {a + 1}
  BY DEF Enter, TakeKind
<1>4. \A m \in Nat : Unreadable(m) => Unreadable(m)'
  BY <1>3, UnreadableStays
<1> HIDE DEF l, a
<1>5. ASSUME NEW m \in 1..(a + 1), m + Window > a + 1 PROVE Unreadable(m)' \/ Holds(l, m)
  <2>1. CASE m = a + 1
    BY <1>2, <2>1
  <2>2. CASE m # a + 1
    <3>1. m \in 1..a /\ m + Window > a /\ m \in Nat
      BY <1>1, <1>5, <2>2
    <3>2. Unreadable(m) \/ Holds(session, m)
      BY <3>1 DEF Complete, Kept, a
    <3> QED
      BY <1>2, <1>4, <1>5, <3>1, <3>2
  <2> QED
    BY <2>1, <2>2
<1>6. Kept(session, appended)'
  BY <1>1, <1>5 DEF Kept, Holds
<1>7. ASSUME NEW i \in 1..Len(l), l[i] \in long', NEW m \in l[i]..(a + 1) PROVE Holds(l, m)
  <2>0. l[i] \in 1..(a + 1) /\ m \in 1..(a + 1) /\ l[i] <= m
    BY <1>1, <1>2
  <2>1. CASE m = a + 1
    BY <1>2, <2>1
  <2>2. CASE m # a + 1
    <3>1. m \in 1..a /\ l[i] # a + 1
      BY <1>1, <2>0, <2>2
    <3>2. l[i] \in long /\ Holds(session, l[i])
      BY <1>2, <1>3, <1>7, <3>1
    <3>3. PICK j \in 1..Len(session) : session[j] = l[i]
      BY <3>2 DEF Holds
    <3>4. m \in session[j]..a
      BY <1>1, <2>0, <3>1, <3>3
    <3>5. Holds(session, m)
      BY <3>2, <3>3, <3>4 DEF Complete, LongFollowed, a
    <3> QED
      BY <1>2, <2>0, <3>1, <3>5
  <2> QED
    BY <2>1, <2>2
<1>8. LongFollowed(session, appended)'
  BY <1>1, <1>7 DEF LongFollowed, Holds
<1> QED
  BY <1>6, <1>8

LEMMA CompleteChat ==
  ASSUME TypeOK, OwnInv, Followed, Matched, Complete, NEW c \in Chats, HandleChat(c) \/ ChatStep(c),
         ~overlapped', faults = 0, faults' = 0
  PROVE  Complete'
<1>0. \A d \in Chats : d # c => SameChat(d)
  BY OthersKeep
<1>00. own \in [Chats -> 0..appended] /\ appended \in Nat
  BY DEF TypeOK
<1>1. CASE Enter(c)
  <2>1. /\ \A d \in Chats : pc[d] \notin Using
        /\ own'[c] = appended' /\ pc'[c] = "create"
    BY <1>1 DEF Enter, BeginUse, TypeOK
  <2>2. Kept(session, appended)' /\ LongFollowed(session, appended)'
    BY <1>1, KeptEnter
  <2>3. roleless \subseteq roleless' /\ long \subseteq long'
    BY <1>1 DEF Enter, TakeKind
  <2>4. \A m \in Nat : Unreadable(m) => Unreadable(m)'
    BY <2>3, UnreadableStays
  <2>5. ASSUME NEW d \in Chats PROVE CompleteOf(d)'
    <3>1. CASE d = c
      BY <2>1, <3>1 DEF CompleteOf
    <3>2. CASE d # c
      <4>1. SameChat(d) /\ pc[d] \notin Persisting
        BY <1>0, <2>1, <3>2, UsingOrNot
      <4>2. ASSUME pc'[d] = "ask", role'[d] = "user"
            PROVE  Ordered(prompt'[d], own'[d]) /\ Kept(prompt[d], own[d])'
        <5>1. Ordered(prompt[d], own[d]) /\ Kept(prompt[d], own[d])
          BY <4>1, <4>2 DEF Complete, CompleteOf, SameChat
        <5>2. prompt'[d] = prompt[d] /\ own'[d] = own[d]
          BY <4>1 DEF SameChat
        <5>3. \A m \in 1..own[d] : m \in Nat
          OBVIOUS
        <5>4. Kept(prompt[d], own[d])'
          BY <2>4, <5>1, <5>2, <5>3 DEF Kept, Holds
        <5> QED
          BY <5>1, <5>2, <5>4
      <4>3. pc'[d] \notin Persisting
        BY <4>1 DEF SameChat
      <4> QED
        BY <4>2, <4>3 DEF CompleteOf, Ordered
    <3> QED
      BY <3>1, <3>2
  <2> QED
    BY <2>2, <2>5 DEF Complete
<1>2. ASSUME ~Enter(c) PROVE appended' = appended /\ roleless' = roleless /\ long' = long
  BY <1>2 DEF ChatStep, HandleChat, SaveFails, Load, EnterLoaded, ModelAnswers, Respond,
     CreateTmp, WriteLine, SyncTmp, RenameTmp, PersistFails, kinds
<1>3. ASSUME ~Enter(c) PROVE Kept(session', appended) /\ LongFollowed(session', appended)
  <2>1. CASE EnterLoaded(c)
    <3>1. session' = msgs[c] /\ pc[c] = "enter"
      BY <2>1 DEF EnterLoaded
    <3>2. \A d \in Chats : pc[d] \notin Persisting
      BY <3>1, UsingOrNot DEF Followed, Alone
    <3>3. session' = Messages(session)
      BY <3>1, <3>2 DEF Matched
    <3>4. /\ session \in Seq(Nat) /\ Ordered(session, appended) /\ Len(session) <= Window
          /\ Window \in Nat /\ roleless \subseteq Nat /\ long \subseteq Nat
          /\ Kept(session, appended) /\ LongFollowed(session, appended)
      BY ChatAssumption DEF TypeOK, Followed, Complete
    <3>5. Kept(Messages(session), appended) /\ LongFollowed(Messages(session), appended)
      BY <1>00, <3>4, ReadKept
    <3> QED
      BY <3>3, <3>5
  <2>2. CASE ~EnterLoaded(c)
    <3>1. session' = session
      BY <1>3, <2>2 DEF ChatStep, HandleChat, SaveFails, Load, ModelAnswers, Respond,
         CreateTmp, WriteLine, SyncTmp, RenameTmp, PersistFails
    <3> QED
      BY <3>1 DEF Complete
  <2> QED
    BY <2>1, <2>2
<1>4. CASE ~Enter(c)
  <2>0. Kept(session, appended)' /\ LongFollowed(session, appended)'
    BY <1>2, <1>3, <1>4 DEF Kept, LongFollowed, Unreadable, Holds
  <2>1. CompleteOf(c)'
    <3>1. CASE HandleChat(c) \/ ModelAnswers(c) \/ Respond(c)
      BY <3>1 DEF HandleChat, ModelAnswers, Respond, TypeOK, CompleteOf, Persisting
    <3>2. CASE SaveFails(c) \/ PersistFails(c)
      BY <3>2 DEF SaveFails, PersistFails, Fault
    <3>3. CASE Load(c) \/ EnterLoaded(c)
      <4>1. role'[c] = "none" /\ pc'[c] \in {"ask", "enter"}
        BY <3>3 DEF Load, EnterLoaded, TypeOK, OwnInv, WritesOwn
      <4> QED
        BY <4>1 DEF CompleteOf, Persisting
    <3>4. CASE CreateTmp(c) \/ WriteLine(c) \/ SyncTmp(c)
      <4>1. pc[c] \in Persisting /\ pc'[c] \in Persisting /\ own'[c] = own[c]
        BY <3>4 DEF CreateTmp, WriteLine, SyncTmp, TypeOK, Persisting
      <4>2. pc'[c] # "ask"
        BY <4>1 DEF Persisting
      <4> QED
        BY <1>2, <1>4, <4>1, <4>2 DEF Complete, CompleteOf
    <3>5. CASE RenameTmp(c)
      <4>1. pc[c] = "rename" /\ own'[c] = own[c] /\ role'[c] = role[c]
        BY <3>5 DEF RenameTmp
      <4>2. tmp # 0 /\ msgs[c] = session /\ own[c] = appended
        BY <4>1 DEF Followed, UseInv, Complete, CompleteOf, Persisting
      <4>3. AppendReturns(c, session)
        BY <3>5, <4>2 DEF RenameTmp, Context
      <4>4. pc'[c] \in {"ask", "answer"} /\ role[c] = "user" => prompt'[c] = session
        BY <4>3 DEF AppendReturns, TypeOK
      <4>5. pc'[c] \notin Persisting
        BY <3>5, RenameFollowed, UsingOrNot
      <4>6. Ordered(session, appended) /\ Kept(session, appended)
        BY DEF Followed, Complete
      <4>7. ASSUME pc'[c] = "ask", role'[c] = "user"
            PROVE  Ordered(prompt[c], own[c])' /\ Kept(prompt[c], own[c])'
        <5>1. prompt'[c] = session /\ own'[c] = appended
          BY <4>1, <4>2, <4>4, <4>7
        <5> QED
          BY <1>2, <1>4, <4>6, <5>1 DEF Ordered, Kept, Unreadable, Holds
      <4> QED
        BY <4>5, <4>7 DEF CompleteOf
    <3> QED
      BY <1>4, <3>1, <3>2, <3>3, <3>4, <3>5 DEF ChatStep
  <2>2. ASSUME NEW d \in Chats, d # c PROVE CompleteOf(d)'
    <3>1. SameChat(d)
      BY <1>0, <2>2
    <3>2. CompleteOf(d)
      BY DEF Complete
    <3> QED
      BY <1>2, <1>4, <3>1, <3>2 DEF CompleteOf, SameChat, Ordered, Kept, Unreadable, Holds
  <2> QED
    BY <2>0, <2>1, <2>2 DEF Complete
<1> QED
  BY <1>1, <1>4

LEMMA CrashesStay == TypeOK /\ [Next]_vars /\ crashes' = 0 => crashes = 0 /\ ~Crash
<1> SUFFICES ASSUME TypeOK, [Next]_vars, crashes' = 0 PROVE crashes = 0 /\ ~Crash
  OBVIOUS
<1>1. crashes \in Nat
  BY DEF TypeOK
<1>2. Crash => crashes' = crashes + 1
  BY DEF Crash
<1>3. ~Crash => crashes' = crashes
  BY DEF Next, ChatStep, vars, bounds, HandleChat, SaveFails, Enter, Load, EnterLoaded,
         ModelAnswers, Respond, CreateTmp, WriteLine, SyncTmp, RenameTmp, PersistFails
<1> QED
  BY <1>1, <1>2, <1>3

LEMMA CompleteStep ==
  TypeOK /\ OwnInv /\ FileInv /\ MatchInv /\ CompleteInv /\ [Next]_vars => CompleteInv'
<1> SUFFICES ASSUME TypeOK, OwnInv, FileInv, MatchInv, CompleteInv, [Next]_vars,
                    ~overlapped', faults' = 0, crashes' = 0
             PROVE  Complete'
  BY DEF CompleteInv, Complete, CompleteOf
<1>0. Followed /\ Matched /\ Complete /\ faults = 0 /\ ~Crash
  BY OverlapStays, FaultsStay, CrashesStay
     DEF FileInv, Followed, MatchInv, Matched, CompleteInv, Complete, CompleteOf
<1>1. CASE UNCHANGED vars
  <2>1. /\ session' = session /\ appended' = appended /\ pc' = pc /\ role' = role
        /\ own' = own /\ prompt' = prompt /\ roleless' = roleless /\ long' = long
    BY <1>1 DEF vars, chatVars, kinds
  <2> QED
    BY <1>0, <2>1 DEF Complete, CompleteOf, Ordered, Kept, LongFollowed, Unreadable, Holds
<1>2. ASSUME NEW c \in Chats, HandleChat(c) \/ ChatStep(c) PROVE Complete'
  BY <1>0, <1>2, CompleteChat
<1> QED
  BY <1>0, <1>1, <1>2 DEF Next
-----------------------------------------------------------------------------
(* Theorems                                                                *)

LEMMA ChatInvariant == Spec => []ChatInv
<1>1. Init => ChatInv
  BY TypeInit, OwnInit, FileInit, MatchInit, CompleteInit DEF ChatInv
<1>2. ChatInv /\ [Next]_vars => ChatInv'
  BY TypeStep, OwnStep, FileStep, MatchStep, CompleteStep DEF ChatInv
<1> QED
  BY <1>1, <1>2, PTL DEF Spec

(* However the chats of all the clients interleave, whatever file          *)
(* operation fails and wherever the machine stops, a chat never asks the   *)
(* model to answer the message of another chat (Butler.HandleChat,         *)
(* ConversationManager.Append).                                            *)
THEOREM ChatPromptIsOwn == Spec => []PromptIsOwn
<1>1. ChatInv => PromptIsOwn
  BY DEF ChatInv, OwnInv, WritesOwn, PromptIsOwn
<1> QED
  BY <1>1, ChatInvariant, PTL

(* As long as no two uses of the conversation overlap and nothing fails, a *)
(* chat asks with the messages before its own in their order, and lacks    *)
(* none of those that the window holds but what a reload cannot read back  *)
(* (ConversationManager.Append, LoadContext and loadFromFile).             *)
THEOREM ChatPromptComplete == Spec => []PromptComplete
<1>1. ChatInv => PromptComplete
  BY DEF ChatInv, CompleteInv, Ordered, Kept, Holds, PromptComplete
<1> QED
  BY <1>1, ChatInvariant, PTL

(* As long as no two uses of the conversation overlap, its file holds      *)
(* whole messages, each once and in order, and is safe on the disk,        *)
(* whatever operation fails and wherever the machine stops                 *)
(* (ConversationManager.persist).                                          *)
THEOREM ChatFileWhole == Spec => []FileWhole
<1>1. ChatInv => FileWhole
  BY DEF ChatInv, FileInv, FileSafe, Ordered, FileWhole
<1> QED
  BY <1>1, ChatInvariant, PTL

(* As long as no two uses of the conversation overlap and no file          *)
(* operation fails, the file gives back what can be read of the session,   *)
(* and nothing else, whenever no use is in progress                        *)
(* (ConversationManager.Append and NewConversationManager).                *)
THEOREM ChatFileMatches == Spec => []FileMatchesSession
<1>1. ChatInv => FileMatchesSession
  BY UsingOrNot DEF ChatInv, MatchInv, FileMatchesSession
<1> QED
  BY <1>1, ChatInvariant, PTL
=============================================================================
