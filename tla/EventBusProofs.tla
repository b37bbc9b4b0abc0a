--------------------------- MODULE EventBusProofs ---------------------------
(***************************************************************************)
(* The topic bus, for any number of topics, subscriptions and events and   *)
(* any sizes of its channels: handlers see the events of their topic in    *)
(* the order of publication, and miss only what their own full channel     *)
(* refused.                                                                *)
(*                                                                         *)
(* The argument: eventCh holds the last events, without gaps, and the      *)
(* dispatcher the one before them, so what it hands out is newer than all  *)
(* that any subscription got so far; and it hands it to each subscription  *)
(* once, since no list of subscribers holds one twice.                     *)
(***************************************************************************)
EXTENDS EventBus, SequenceTheorems, TLAPS

(* What a handler has been called with, and what awaits it. *)
Got(s) == seen[s] \o ch[s]

(* Events that have left eventCh. *)
Taken == Len(topicOf) - Len(eventCh)

(* The dispatcher still has to offer its event to s. *)
Ahead(s) == current # 0 /\ (~copied \/ Contains(targets, s))

NoRepeats(q) == \A i, j \in 1..Len(q) : q[i] = q[j] => i = j
Ascending(q) == \A i, j \in 1..Len(q) : i < j => q[i] < q[j]

(* eventCh and the dispatcher hold the last events. *)
ChannelContiguous ==
  /\ Taken \in Nat
  /\ \A i \in 1..Len(eventCh) : eventCh[i] = Taken + i
  /\ current # 0 => current = Taken
  /\ copied => current # 0
  /\ ~copied => targets = <<>>

(* The list of a topic holds its open subscriptions, each once. *)
ListsExact ==
  /\ \A t \in Topics : NoRepeats(subscribers[t])
  /\ \A t \in Topics, s \in Subscriptions :
       Contains(subscribers[t], s) <=> chState[s] = "open" /\ Interest[s] = t
  /\ \A s \in Subscriptions : since[s] <= Len(topicOf)

(* The copy of the list, as far as it is not served. *)
TargetsExact ==
  /\ NoRepeats(targets)
  /\ \A s \in Subscriptions :
       Contains(targets, s) => chState[s] # "none" /\ Interest[s] = topicOf[current]

(* What a subscription got is in order, of its topic, and older than what  *)
(* the dispatcher still has for it.                                        *)
GotInOrder ==
  \A s \in Subscriptions :
    /\ Ascending(Got(s))
    /\ \A n \in Events : Contains(Got(s), n) =>
         n <= Taken /\ topicOf[n] = Interest[s] /\ (Ahead(s) => n # current)

(* What it did not get was refused, or the dispatcher has it. *)
GotAll ==
  \A s \in Subscriptions : chState[s] = "open" =>
    \A n \in Events : n <= Taken /\ n > since[s] /\ topicOf[n] = Interest[s] =>
      Contains(Got(s), n) \/ n \in refused[s] \/ (n = current /\ Ahead(s))

Inv == TypeOK /\ ChannelContiguous /\ ListsExact /\ TargetsExact /\ GotInOrder /\ GotAll

-----------------------------------------------------------------------------
(* Sequences *)

(* Appending an element. *)
LEMMA AppendFacts ==
  ASSUME NEW S, NEW q \in Seq(S), NEW x \in S
  PROVE  /\ Append(q, x) \in Seq(S)
         /\ \A e : Contains(Append(q, x), e) <=> Contains(q, e) \/ e = x
         /\ NoRepeats(q) /\ ~Contains(q, x) => NoRepeats(Append(q, x))
<1>1. /\ Append(q, x) \in Seq(S) /\ Len(q) \in Nat /\ Len(Append(q, x)) = Len(q) + 1
      /\ \A i \in 1..Len(q) : Append(q, x)[i] = q[i]
      /\ Append(q, x)[Len(q) + 1] = x
  OBVIOUS
<1>2. \A e : Contains(Append(q, x), e) <=> Contains(q, e) \/ e = x
  BY <1>1 DEF Contains
<1>3. NoRepeats(q) /\ ~Contains(q, x) => NoRepeats(Append(q, x))
  BY <1>1 DEF Contains, NoRepeats
<1>4. QED
  BY <1>1, <1>2, <1>3

(* Appending a number above all others. *)
LEMMA AppendAscending ==
  ASSUME NEW q \in Seq(Nat), NEW x \in Nat, Ascending(q),
         \A e \in Nat : Contains(q, e) => e < x
  PROVE  Ascending(Append(q, x))
<1>1. /\ Len(q) \in Nat /\ Len(Append(q, x)) = Len(q) + 1
      /\ \A i \in 1..Len(q) : Append(q, x)[i] = q[i] /\ q[i] < x
      /\ Append(q, x)[Len(q) + 1] = x
  BY DEF Contains
<1>2. QED
  BY <1>1 DEF Ascending

(* Taking the first element. *)
LEMMA TailFacts ==
  ASSUME NEW S, NEW q \in Seq(S), q # <<>>
  PROVE  /\ Head(q) \in S /\ Tail(q) \in Seq(S) /\ Contains(q, Head(q))
         /\ \A e : Contains(q, e) <=> Contains(Tail(q), e) \/ e = Head(q)
         /\ NoRepeats(q) => NoRepeats(Tail(q)) /\ ~Contains(Tail(q), Head(q))
<1>1. /\ Head(q) \in S /\ Tail(q) \in Seq(S) /\ Len(q) \in Nat \ {0}
      /\ Len(Tail(q)) = Len(q) - 1 /\ Head(q) = q[1]
      /\ \A i \in 1..Len(Tail(q)) : Tail(q)[i] = q[i + 1]
  BY HeadTailProperties
<1>2. \A e : Contains(q, e) <=> Contains(Tail(q), e) \/ e = Head(q)
  <2>1. ASSUME NEW e, Contains(Tail(q), e) PROVE Contains(q, e)
    BY <1>1, <2>1 DEF Contains
  <2>2. ASSUME NEW e, Contains(q, e), e # Head(q) PROVE Contains(Tail(q), e)
    <3>1. PICK i \in 1..Len(q) : q[i] = e
      BY <2>2 DEF Contains
    <3>2. i # 1 /\ i - 1 \in 1..Len(Tail(q)) /\ Tail(q)[i - 1] = e
      BY <1>1, <2>2, <3>1
    <3>3. QED
      BY <3>2 DEF Contains
  <2>3. Contains(q, Head(q))
    BY <1>1 DEF Contains
  <2>4. QED
    BY <2>1, <2>2, <2>3
<1>3. NoRepeats(q) => NoRepeats(Tail(q)) /\ ~Contains(Tail(q), Head(q))
  <2> SUFFICES ASSUME NoRepeats(q) PROVE NoRepeats(Tail(q)) /\ ~Contains(Tail(q), Head(q))
    OBVIOUS
  <2>1. \A i \in 1..Len(Tail(q)) : i + 1 \in 1..Len(q) /\ 1 \in 1..Len(q)
    BY <1>1
  <2>2. NoRepeats(Tail(q))
    BY <1>1, <2>1 DEF NoRepeats
  <2>3. ~Contains(Tail(q), Head(q))
    BY <1>1, <2>1 DEF NoRepeats, Contains
  <2>4. QED
    BY <2>2, <2>3
<1>4. QED
  BY <1>1, <1>2, <1>3

(* Removing one element from the middle. *)
LEMMA RemoveAtFacts ==
  ASSUME NEW S, NEW q \in Seq(S), NEW k \in 1..Len(q), NoRepeats(q)
  PROVE  /\ RemoveAt(q, k) \in Seq(S)
         /\ NoRepeats(RemoveAt(q, k))
         /\ \A e : Contains(RemoveAt(q, k), e) <=> Contains(q, e) /\ e # q[k]
<1> DEFINE r == RemoveAt(q, k)
           a == SubSeq(q, 1, k - 1)
           b == SubSeq(q, k + 1, Len(q))
<1>1. Len(q) \in Nat /\ \A i \in 1..Len(q) : q[i] \in S
  OBVIOUS
<1>2. a \in Seq(S) /\ Len(a) = k - 1 /\ \A i \in 1..k - 1 : a[i] = q[i]
  BY <1>1, SubSeqProperties
<1>3. b \in Seq(S) /\ Len(b) = Len(q) - k /\ \A i \in 1..Len(q) - k : b[i] = q[k + i]
  BY <1>1, SubSeqProperties
<1>4. r = a \o b
  BY DEF RemoveAt
<1> HIDE DEF r, a, b
<1>5. /\ r \in Seq(S) /\ Len(r) = Len(q) - 1
      /\ \A i \in 1..Len(r) : r[i] = IF i < k THEN q[i] ELSE q[i + 1]
  <2>1. /\ r \in Seq(S) /\ Len(r) = Len(a) + Len(b)
        /\ \A i \in 1..Len(a) + Len(b) : r[i] = IF i <= Len(a) THEN a[i] ELSE b[i - Len(a)]
    BY <1>2, <1>3, <1>4, ConcatProperties
  <2>2. Len(r) = Len(q) - 1
    BY <1>1, <1>2, <1>3, <2>1
  <2>3. ASSUME NEW i \in 1..Len(r) PROVE r[i] = IF i < k THEN q[i] ELSE q[i + 1]
    <3>1. CASE i < k
      BY <1>1, <1>2, <2>1, <3>1
    <3>2. CASE i >= k
      <4>1. i - (k - 1) \in 1..Len(q) - k /\ k + (i - (k - 1)) = i + 1
        BY <1>1, <2>2, <3>2
      <4>2. r[i] = b[i - (k - 1)]
        BY <1>1, <1>2, <2>1, <3>2
      <4>3. QED
        BY <1>1, <1>3, <3>2, <4>1, <4>2
    <3>3. QED
      BY <1>1, <3>1, <3>2
  <2>4. QED
    BY <2>1, <2>2, <2>3
<1>6. NoRepeats(r)
  <2> DEFINE at(i) == IF i < k THEN i ELSE i + 1
  <2>1. ASSUME NEW i \in 1..Len(r) PROVE at(i) \in 1..Len(q) /\ r[i] = q[at(i)]
    BY <1>1, <1>5
  <2>2. ASSUME NEW i \in 1..Len(r), NEW j \in 1..Len(r), r[i] = r[j] PROVE i = j
    <3>1. at(i) = at(j)
      <4> HIDE DEF at
      <4>1. q[at(i)] = q[at(j)] /\ at(i) \in 1..Len(q) /\ at(j) \in 1..Len(q)
        BY <2>1, <2>2
      <4>2. QED
        BY <4>1 DEF NoRepeats
    <3>2. QED
      BY <1>1, <3>1
  <2>3. QED
    BY <2>2 DEF NoRepeats
<1>7. ASSUME NEW e PROVE Contains(r, e) <=> Contains(q, e) /\ e # q[k]
  <2>1. ASSUME NEW i \in 1..Len(r), r[i] = e PROVE Contains(q, e) /\ e # q[k]
    BY <1>1, <1>5, <2>1 DEF NoRepeats, Contains
  <2>2. ASSUME NEW i \in 1..Len(q), q[i] = e, e # q[k] PROVE Contains(r, e)
    <3>1. CASE i < k
      BY <1>1, <1>5, <2>2, <3>1 DEF Contains
    <3>2. CASE i > k
      <4>1. i - 1 \in 1..Len(r) /\ r[i - 1] = e
        BY <1>1, <1>5, <2>2, <3>2
      <4>2. QED
        BY <4>1 DEF Contains
    <3>3. QED
      BY <2>2, <3>1, <3>2
  <2>3. QED
    BY <2>1, <2>2 DEF Contains
<1>8. QED
  BY <1>5, <1>6, <1>7 DEF r

(* What was handled and what awaits the handler, when one more waits and   *)
(* when one is handled.                                                    *)
LEMMA OneMoreWaits ==
  ASSUME NEW S, NEW u \in Seq(S), NEW w \in Seq(S), NEW x \in S
  PROVE  u \o Append(w, x) = Append(u \o w, x)
OBVIOUS

LEMMA OneIsHandled ==
  ASSUME NEW S, NEW u \in Seq(S), NEW w \in Seq(S), w # <<>>
  PROVE  Append(u, Head(w)) \o Tail(w) = u \o w
OBVIOUS

-----------------------------------------------------------------------------
(* The invariant *)

(* What every step may assume. *)
LEMMA InvTypes ==
  ASSUME TypeOK, ChannelContiguous
  PROVE  /\ Taken \in Nat /\ Len(topicOf) \in Nat /\ Len(eventCh) \in Nat
         /\ Taken <= Len(topicOf) /\ Events \subseteq Nat /\ 0 \notin Events
         /\ \A n \in Nat : n \in Events <=> 1 <= n /\ n <= Len(topicOf)
         /\ \A s \in Subscriptions : Got(s) \in Seq(Events) /\ Got(s) \in Seq(Nat)
         /\ \A n \in Events : topicOf[n] \in Topics
<1>1. Len(topicOf) \in Nat /\ Len(eventCh) \in Nat
  BY DEF TypeOK
<1>2. ASSUME NEW s \in Subscriptions PROVE Got(s) \in Seq(Events)
  BY DEF Got, TypeOK
<1>3. Events \subseteq Nat /\ 0 \notin Events
  BY <1>1 DEF Events
<1>4. ASSUME NEW s \in Subscriptions PROVE Got(s) \in Seq(Nat)
  BY <1>2, <1>3, SeqMonotonic
<1>5. Taken \in Nat /\ Taken <= Len(topicOf)
  BY <1>1 DEF ChannelContiguous, Taken
<1>6. \A n \in Nat : n \in Events <=> 1 <= n /\ n <= Len(topicOf)
  BY <1>1 DEF Events
<1>7. \A n \in Events : topicOf[n] \in Topics
  BY DEF TypeOK, Events
<1>8. QED
  BY <1>1, <1>2, <1>3, <1>4, <1>5, <1>6, <1>7

LEMMA ContainsInSeq ==
  ASSUME NEW S, NEW q \in Seq(S), NEW e, Contains(q, e)
  PROVE  e \in S
BY DEF Contains

LEMMA InvInit == Init => Inv
<1> SUFFICES ASSUME Init PROVE Inv
  OBVIOUS
<1>1. /\ topicOf = <<>> /\ eventCh = <<>> /\ targets = <<>> /\ current = 0 /\ copied = FALSE
      /\ \A t \in Topics : subscribers[t] = <<>>
      /\ \A s \in Subscriptions : chState[s] = "none" /\ since[s] = 0
  BY DEF Init
<1>2. \A e : ~Contains(<<>>, e)
  BY DEF Contains
<1>3. NoRepeats(<<>>)
  BY DEF NoRepeats
<1>4. Events = {} /\ Taken = 0 /\ Len(topicOf) = 0
  BY <1>1 DEF Events, Taken
<1>5. TypeOK
  <2>1. \A S : <<>> \in Seq(S)
    OBVIOUS
  <2>2. QED
    <3>1. topicOf \in Seq(Topics) /\ eventCh \in Seq(Events) /\ Len(eventCh) <= EventBuf
      BY <1>1, <2>1, EventBusAssumption
    <3>2. subscribers \in [Topics -> Seq(Subscriptions)] /\ targets \in Seq(Subscriptions)
      BY <2>1 DEF Init
    <3>3. /\ ch \in [Subscriptions -> Seq(Events)] /\ seen \in [Subscriptions -> Seq(Events)]
          /\ \A s \in Subscriptions : Len(ch[s]) <= SubBuf
      BY <2>1, EventBusAssumption DEF Init
    <3>4. /\ chState \in [Subscriptions -> {"none", "open", "closed"}]
          /\ since \in [Subscriptions -> Nat]
          /\ handler \in [Subscriptions -> {"none", "ready", "hung", "gone"}]
          /\ refused \in [Subscriptions -> SUBSET Events]
      BY DEF Init
    <3>5. current \in Events \cup {0} /\ copied \in BOOLEAN /\ crashed \in BOOLEAN
      BY DEF Init
    <3>6. QED
      BY <3>1, <3>2, <3>3, <3>4, <3>5 DEF TypeOK
<1>6. ChannelContiguous
  BY <1>1, <1>4 DEF ChannelContiguous
<1>7. ListsExact
  BY <1>1, <1>2, <1>3, <1>4 DEF ListsExact
<1>8. TargetsExact
  BY <1>1, <1>2, <1>3 DEF TargetsExact
<1>9. GotInOrder
  <2>1. ASSUME NEW s \in Subscriptions PROVE Got(s) = <<>>
    BY DEF Init, Got
  <2>2. Ascending(<<>>)
    BY DEF Ascending
  <2>3. QED
    BY <1>4, <2>1, <2>2 DEF GotInOrder
<1>10. GotAll
  BY <1>1 DEF GotAll
<1>11. QED
  BY <1>5, <1>6, <1>7, <1>8, <1>9, <1>10 DEF Inv

(* A step that leaves the bus and what the subscriptions got alone. *)
LEMMA BusUntouched ==
  ASSUME Inv, TypeOK',
         UNCHANGED <<topicOf, eventCh, current, copied, targets, subscribers, chState,
                     since, refused>>,
         \A s \in Subscriptions : Got(s)' = Got(s)
  PROVE  Inv'
<1>1. Taken' = Taken /\ Events' = Events
  BY DEF Taken, Events
<1>2. \A s \in Subscriptions : Ahead(s)' = Ahead(s)
  BY DEF Ahead
<1>3. ChannelContiguous' /\ ListsExact' /\ TargetsExact'
  BY <1>1 DEF Inv, ChannelContiguous, ListsExact, TargetsExact
<1>4. GotInOrder' /\ GotAll'
  BY <1>1, <1>2 DEF Inv, GotInOrder, GotAll
<1>5. QED
  BY <1>3, <1>4 DEF Inv

LEMMA PublishInv ==
  ASSUME Inv, NEW t \in Topics, Publish(t)
  PROVE  Inv'
<1> DEFINE n == Len(topicOf) + 1
<1>0. TypeOK /\ ChannelContiguous /\ ListsExact /\ TargetsExact /\ GotInOrder /\ GotAll
  BY DEF Inv
<1>1. /\ topicOf' = Append(topicOf, t) /\ eventCh' = Append(eventCh, n)
      /\ UNCHANGED <<ch, handler, seen, refused, crashed, current, copied, targets,
                     subscribers, chState, since>>
      /\ Len(eventCh) < EventBuf
  BY DEF Publish, dispatchVars, subVars
<1>2. /\ Len(topicOf') = n /\ n \in Nat /\ Len(eventCh') = Len(eventCh) + 1
      /\ topicOf' \in Seq(Topics)
      /\ \A i \in Events : topicOf'[i] = topicOf[i]
  BY <1>0, <1>1 DEF TypeOK, Events
<1>3. Taken' = Taken /\ Events' = Events \cup {n} /\ n \notin Events /\ Taken < n
  BY <1>0, <1>2, InvTypes DEF Taken, Events
<1>4. Events \subseteq Events' /\ n \in Events'
  BY <1>3
<1>5. \A q : q \in Seq(Events) => q \in Seq(Events')
  BY <1>4, SeqMonotonic
<1>6. \A s \in Subscriptions : Got(s)' = Got(s) /\ Ahead(s)' = Ahead(s)
  BY <1>1 DEF Got, Ahead
<1>7. TypeOK'
  <2>1. eventCh' \in Seq(Events') /\ Len(eventCh') <= EventBuf
    <3>1. eventCh \in Seq(Events')
      BY <1>0, <1>5 DEF TypeOK
    <3>2. QED
      BY <1>0, <1>1, <1>2, <1>4, <3>1, EventBusAssumption DEF TypeOK
  <2>2. ch' \in [Subscriptions -> Seq(Events')] /\ seen' \in [Subscriptions -> Seq(Events')]
    BY <1>0, <1>1, <1>5 DEF TypeOK
  <2>3. refused' \in [Subscriptions -> SUBSET Events'] /\ current' \in Events' \cup {0}
    BY <1>0, <1>1, <1>4 DEF TypeOK
  <2>4. QED
    BY <1>0, <1>1, <1>2, <2>1, <2>2, <2>3 DEF TypeOK
<1>8. ChannelContiguous'
  <2>1. ASSUME NEW i \in 1..Len(eventCh') PROVE eventCh'[i] = Taken' + i
    <3>1. Len(eventCh) \in Nat /\ Taken + (Len(eventCh) + 1) = n /\ Taken' = Taken
      BY <1>0, <1>2, <1>3, InvTypes DEF Taken
    <3>2. eventCh'[i] = IF i = Len(eventCh) + 1 THEN n ELSE eventCh[i]
      BY <1>0, <1>1, <1>2 DEF TypeOK
    <3>3. i # Len(eventCh) + 1 => i \in 1..Len(eventCh)
      BY <1>2, <3>1
    <3>4. QED
      BY <1>0, <3>1, <3>2, <3>3 DEF ChannelContiguous
  <2>2. QED
    BY <1>0, <1>1, <1>3, <2>1 DEF ChannelContiguous
<1>9. ListsExact'
  <2>1. \A s \in Subscriptions : since[s] \in Nat
    BY <1>0 DEF TypeOK
  <2>2. QED
    BY <1>0, <1>1, <1>2, <2>1, InvTypes DEF ListsExact
<1>10. TargetsExact'
  <2>1. ASSUME NEW s \in Subscriptions, Contains(targets, s) PROVE current \in Events
    BY <1>0, <2>1 DEF ChannelContiguous, Contains, TypeOK
  <2>2. QED
    BY <1>0, <1>1, <1>2, <2>1 DEF TargetsExact
<1>11. GotInOrder'
  <2>1. ASSUME NEW s \in Subscriptions, NEW e \in Events', Contains(Got(s), e)
        PROVE  e \in Events
    BY <1>0, <2>1, InvTypes, ContainsInSeq
  <2>2. QED
    BY <1>0, <1>1, <1>2, <1>3, <1>6, <2>1 DEF GotInOrder
<1>12. GotAll'
  <2>1. ASSUME NEW e \in Events', e <= Taken' PROVE e \in Events
    BY <1>0, <1>2, <1>3, <2>1, InvTypes
  <2>2. QED
    BY <1>0, <1>1, <1>2, <1>3, <1>6, <2>1 DEF GotAll
<1>13. QED
  BY <1>7, <1>8, <1>9, <1>10, <1>11, <1>12 DEF Inv

LEMMA SubscribeInv ==
  ASSUME Inv, NEW s \in Subscriptions, SubscribeTopic(s)
  PROVE  Inv'
<1>0. TypeOK /\ ChannelContiguous /\ ListsExact /\ TargetsExact /\ GotInOrder /\ GotAll
  BY DEF Inv
<1>1. /\ chState[s] = "none"
      /\ chState' = [chState EXCEPT ![s] = "open"]
      /\ subscribers' = [subscribers EXCEPT ![Interest[s]] = Append(@, s)]
      /\ since' = [since EXCEPT ![s] = Len(topicOf)]
      /\ handler' = [handler EXCEPT ![s] = "ready"]
      /\ UNCHANGED <<eventCh, topicOf, ch, seen, refused, crashed, current, copied, targets>>
  BY DEF SubscribeTopic, dispatchVars
<1>2. Interest[s] \in Topics /\ Events' = Events /\ Taken' = Taken /\ Len(topicOf) \in Nat
  BY <1>0, <1>1, EventBusAssumption, InvTypes DEF Events, Taken
<1>3. \A q \in Subscriptions : Got(q)' = Got(q) /\ Ahead(q)' = Ahead(q)
  BY <1>1 DEF Got, Ahead
<1>4. /\ subscribers'[Interest[s]] \in Seq(Subscriptions)
      /\ \A e : Contains(subscribers'[Interest[s]], e)
                  <=> Contains(subscribers[Interest[s]], e) \/ e = s
      /\ NoRepeats(subscribers'[Interest[s]])
  <2>1. subscribers'[Interest[s]] = Append(subscribers[Interest[s]], s)
    BY <1>0, <1>1, <1>2 DEF TypeOK
  <2>2. subscribers[Interest[s]] \in Seq(Subscriptions) /\ NoRepeats(subscribers[Interest[s]])
        /\ ~Contains(subscribers[Interest[s]], s)
    BY <1>0, <1>1, <1>2 DEF TypeOK, ListsExact
  <2>3. QED
    BY <2>1, <2>2, AppendFacts
<1>5. \A t \in Topics : t # Interest[s] => subscribers'[t] = subscribers[t]
  BY <1>0, <1>1 DEF TypeOK
<1>6. TypeOK'
  <2>1. subscribers' \in [Topics -> Seq(Subscriptions)]
    BY <1>0, <1>1, <1>2, <1>4 DEF TypeOK
  <2>2. QED
    BY <1>0, <1>1, <1>2, <2>1 DEF TypeOK
<1>7. ChannelContiguous'
  BY <1>0, <1>1, <1>2 DEF ChannelContiguous
<1>8. /\ chState'[s] = "open" /\ since'[s] = Len(topicOf)
      /\ \A q \in Subscriptions : q # s => chState'[q] = chState[q] /\ since'[q] = since[q]
  BY <1>0, <1>1 DEF TypeOK
<1>9. ListsExact'
  <2>1. ASSUME NEW t \in Topics PROVE NoRepeats(subscribers'[t])
    BY <1>0, <1>4, <1>5 DEF ListsExact
  <2>2. ASSUME NEW t \in Topics, NEW q \in Subscriptions
        PROVE  Contains(subscribers'[t], q) <=> chState'[q] = "open" /\ Interest[q] = t
    <3>1. Contains(subscribers[t], q) <=> chState[q] = "open" /\ Interest[q] = t
      BY <1>0 DEF ListsExact
    <3>2. CASE t = Interest[s]
      BY <1>1, <1>4, <1>8, <3>1, <3>2
    <3>3. CASE t # Interest[s]
      BY <1>1, <1>5, <1>8, <3>1, <3>3
    <3>4. QED
      BY <3>2, <3>3
  <2>3. ASSUME NEW q \in Subscriptions PROVE since'[q] <= Len(topicOf')
    BY <1>0, <1>1, <1>2, <1>8 DEF ListsExact
  <2>4. QED
    BY <2>1, <2>2, <2>3 DEF ListsExact
<1>10. TargetsExact'
  BY <1>0, <1>1, <1>8 DEF TargetsExact
<1>11. GotInOrder'
  BY <1>0, <1>1, <1>2, <1>3 DEF GotInOrder
<1>12. GotAll'
  <2>1. ASSUME NEW n \in Events PROVE ~(n > Len(topicOf))
    BY <1>2 DEF Events
  <2>2. QED
    BY <1>0, <1>1, <1>2, <1>3, <1>8, <2>1 DEF GotAll
<1>13. QED
  BY <1>6, <1>7, <1>9, <1>10, <1>11, <1>12 DEF Inv

LEMMA UnsubscribeInv ==
  ASSUME Inv, NEW s \in Subscriptions, Unsubscribe(s)
  PROVE  Inv'
<1>0. TypeOK /\ ChannelContiguous /\ ListsExact /\ TargetsExact /\ GotInOrder /\ GotAll
  BY DEF Inv
<1> DEFINE list == subscribers[Interest[s]]
<1>1. PICK i \in DOMAIN list :
        /\ list[i] = s
        /\ subscribers' = [subscribers EXCEPT ![Interest[s]] = RemoveAt(list, i)]
  BY DEF Unsubscribe
<1>2. /\ chState' = [chState EXCEPT ![s] = "closed"]
      /\ UNCHANGED <<eventCh, topicOf, ch, since, handler, seen, refused, crashed,
                     current, copied, targets>>
  BY DEF Unsubscribe, dispatchVars
<1>3. Interest[s] \in Topics /\ Events' = Events /\ Taken' = Taken
  BY <1>2, EventBusAssumption DEF Events, Taken
<1>4. \A q \in Subscriptions : Got(q)' = Got(q) /\ Ahead(q)' = Ahead(q)
  BY <1>2 DEF Got, Ahead
<1>5. /\ subscribers'[Interest[s]] \in Seq(Subscriptions)
      /\ NoRepeats(subscribers'[Interest[s]])
      /\ \A e : Contains(subscribers'[Interest[s]], e) <=> Contains(list, e) /\ e # s
  <2>1. list \in Seq(Subscriptions) /\ NoRepeats(list)
    BY <1>0, <1>3 DEF TypeOK, ListsExact
  <2>2. i \in 1..Len(list)
    BY <2>1
  <2>3. subscribers'[Interest[s]] = RemoveAt(list, i)
    BY <1>0, <1>1, <1>3 DEF TypeOK
  <2>4. QED
    BY <1>1, <2>1, <2>2, <2>3, RemoveAtFacts
<1>6. \A t \in Topics : t # Interest[s] => subscribers'[t] = subscribers[t]
  BY <1>0, <1>1 DEF TypeOK
<1>7. /\ chState'[s] = "closed"
      /\ \A q \in Subscriptions : q # s => chState'[q] = chState[q]
  BY <1>0, <1>2 DEF TypeOK
<1>8. TypeOK'
  <2>1. subscribers' \in [Topics -> Seq(Subscriptions)]
    BY <1>0, <1>1, <1>3, <1>5 DEF TypeOK
  <2>2. QED
    BY <1>0, <1>2, <1>3, <2>1 DEF TypeOK
<1>9. ChannelContiguous'
  BY <1>0, <1>2, <1>3 DEF ChannelContiguous
<1>10. ListsExact'
  <2>1. ASSUME NEW t \in Topics PROVE NoRepeats(subscribers'[t])
    BY <1>0, <1>5, <1>6 DEF ListsExact
  <2>2. ASSUME NEW t \in Topics, NEW q \in Subscriptions
        PROVE  Contains(subscribers'[t], q) <=> chState'[q] = "open" /\ Interest[q] = t
    <3>1. Contains(subscribers[t], q) <=> chState[q] = "open" /\ Interest[q] = t
      BY <1>0 DEF ListsExact
    <3>2. CASE t = Interest[s]
      BY <1>5, <1>7, <3>1, <3>2
    <3>3. CASE t # Interest[s]
      BY <1>6, <1>7, <3>1, <3>3
    <3>4. QED
      BY <3>2, <3>3
  <2>3. QED
    BY <1>0, <1>2, <2>1, <2>2 DEF ListsExact
<1>11. TargetsExact'
  BY <1>0, <1>2, <1>7 DEF TargetsExact
<1>12. GotInOrder'
  BY <1>0, <1>2, <1>3, <1>4 DEF GotInOrder
<1>13. GotAll'
  BY <1>0, <1>2, <1>3, <1>4, <1>7 DEF GotAll
<1>14. QED
  BY <1>8, <1>9, <1>10, <1>11, <1>12, <1>13 DEF Inv

-----------------------------------------------------------------------------
(* The dispatcher *)

LEMMA TakeInv ==
  ASSUME Inv, Take
  PROVE  Inv'
<1>0. TypeOK /\ ChannelContiguous /\ ListsExact /\ TargetsExact /\ GotInOrder /\ GotAll
  BY DEF Inv
<1>1. /\ current = 0 /\ eventCh # <<>>
      /\ current' = Head(eventCh) /\ eventCh' = Tail(eventCh)
      /\ UNCHANGED <<topicOf, copied, targets, ch, handler, seen, refused, crashed,
                     subscribers, chState, since>>
  BY DEF Take, subVars
<1>2. /\ Head(eventCh) \in Events /\ Tail(eventCh) \in Seq(Events)
      /\ Len(Tail(eventCh)) = Len(eventCh) - 1 /\ Len(eventCh) \in Nat \ {0}
      /\ Head(eventCh) = eventCh[1]
      /\ \A i \in 1..Len(eventCh) - 1 : Tail(eventCh)[i] = eventCh[i + 1]
  BY <1>0, <1>1, HeadTailProperties DEF TypeOK
<1>3. Events' = Events /\ Taken' = Taken + 1 /\ Taken \in Nat
  BY <1>0, <1>1, <1>2, InvTypes DEF Events, Taken
<1>4. current' = Taken' /\ current' # 0 /\ current' \in Events
  BY <1>0, <1>1, <1>2, <1>3 DEF ChannelContiguous
<1>5. ~copied /\ targets = <<>>
  BY <1>0, <1>1 DEF ChannelContiguous
<1>6. TypeOK'
  <2>1. Len(eventCh') <= EventBuf
    BY <1>0, <1>1, <1>2, EventBusAssumption DEF TypeOK
  <2>2. QED
    BY <1>0, <1>1, <1>2, <1>3, <1>4, <2>1 DEF TypeOK
<1>7. ChannelContiguous'
  <2>1. ASSUME NEW i \in 1..Len(eventCh') PROVE eventCh'[i] = Taken' + i
    <3>1. i \in 1..Len(eventCh) - 1 /\ i + 1 \in 1..Len(eventCh)
      BY <1>1, <1>2
    <3>2. eventCh'[i] = Taken + (i + 1)
      BY <1>0, <1>1, <1>2, <3>1 DEF ChannelContiguous
    <3>3. QED
      BY <1>3, <3>1, <3>2
  <2>2. QED
    BY <1>1, <1>3, <1>4, <1>5, <2>1 DEF ChannelContiguous
<1>8. ListsExact'
  BY <1>0, <1>1 DEF ListsExact
<1>9. TargetsExact'
  <2>1. \A e : ~Contains(<<>>, e)
    BY DEF Contains
  <2>2. NoRepeats(<<>>)
    BY DEF NoRepeats
  <2>3. QED
    BY <1>1, <1>5, <2>1, <2>2 DEF TargetsExact
<1>10. \A s \in Subscriptions : Got(s)' = Got(s)
  BY <1>1 DEF Got
<1>11. Events \subseteq Nat
  BY <1>0, InvTypes
<1>12. GotInOrder'
  <2>1. ASSUME NEW s \in Subscriptions, NEW n \in Events, Contains(Got(s), n)
        PROVE  n <= Taken /\ n <= Taken' /\ n # current' /\ topicOf[n] = Interest[s]
    <3>1. n <= Taken /\ topicOf[n] = Interest[s]
      BY <1>0, <2>1 DEF GotInOrder
    <3>2. QED
      BY <1>3, <1>4, <1>11, <3>1
  <2>2. QED
    BY <1>0, <1>1, <1>3, <1>10, <2>1 DEF GotInOrder
<1>13. GotAll'
  <2>1. ASSUME NEW s \in Subscriptions, NEW n \in Events, n <= Taken', chState[s] = "open",
               n > since[s], topicOf[n] = Interest[s]
        PROVE  Contains(Got(s), n) \/ n \in refused[s] \/ (n = current' /\ Ahead(s)')
    <3>1. CASE n <= Taken
      BY <1>0, <1>1, <2>1, <3>1 DEF GotAll, Ahead
    <3>2. CASE n = current'
      BY <1>1, <1>4, <1>5, <3>2 DEF Ahead
    <3>3. QED
      BY <1>3, <1>4, <1>11, <2>1, <3>1, <3>2
  <2>2. QED
    BY <1>1, <1>3, <1>10, <2>1 DEF GotAll
<1>14. QED
  BY <1>6, <1>7, <1>8, <1>9, <1>12, <1>13 DEF Inv

LEMMA CopyInv ==
  ASSUME Inv, CopySubscribers
  PROVE  Inv'
<1>0. TypeOK /\ ChannelContiguous /\ ListsExact /\ TargetsExact /\ GotInOrder /\ GotAll
  BY DEF Inv
<1>1. /\ current # 0 /\ ~copied /\ copied' = TRUE /\ targets' = subscribers[topicOf[current]]
      /\ UNCHANGED <<eventCh, topicOf, current, ch, handler, seen, refused, crashed,
                     subscribers, chState, since>>
  BY DEF CopySubscribers, subVars
<1>2. Events' = Events /\ Taken' = Taken
  BY <1>1 DEF Events, Taken
<1>3. current \in Events /\ topicOf[current] \in Topics
  BY <1>0, <1>1, InvTypes DEF TypeOK
<1>4. \A s \in Subscriptions :
        /\ Got(s)' = Got(s) /\ Ahead(s)
        /\ Ahead(s)' <=> chState[s] = "open" /\ Interest[s] = topicOf[current]
  BY <1>0, <1>1, <1>3 DEF Got, Ahead, ListsExact
<1>5. TypeOK'
  BY <1>0, <1>1, <1>2, <1>3 DEF TypeOK
<1>6. ChannelContiguous' /\ ListsExact'
  BY <1>0, <1>1, <1>2 DEF ChannelContiguous, ListsExact
<1>7. TargetsExact'
  BY <1>0, <1>1, <1>3 DEF TargetsExact, ListsExact
<1>8. GotInOrder' /\ GotAll'
  BY <1>0, <1>1, <1>2, <1>4 DEF GotInOrder, GotAll
<1>9. QED
  BY <1>5, <1>6, <1>7, <1>8 DEF Inv

LEMMA AllServedInv ==
  ASSUME Inv, AllServed
  PROVE  Inv'
<1>0. TypeOK /\ ChannelContiguous /\ ListsExact /\ TargetsExact /\ GotInOrder /\ GotAll
  BY DEF Inv
<1>1. /\ copied /\ targets = <<>> /\ current' = 0 /\ copied' = FALSE
      /\ UNCHANGED <<eventCh, topicOf, targets, ch, handler, seen, refused, crashed,
                     subscribers, chState, since>>
  BY DEF AllServed, subVars
<1>2. Events' = Events /\ Taken' = Taken
  BY <1>1 DEF Events, Taken
<1>3. \A e : ~Contains(<<>>, e)
  BY DEF Contains
<1>4. \A s \in Subscriptions : Got(s)' = Got(s) /\ ~Ahead(s) /\ ~Ahead(s)'
  BY <1>1, <1>3 DEF Got, Ahead
<1>5. TypeOK'
  BY <1>0, <1>1, <1>2 DEF TypeOK
<1>6. ChannelContiguous' /\ ListsExact'
  BY <1>0, <1>1, <1>2 DEF ChannelContiguous, ListsExact
<1>7. TargetsExact'
  BY <1>0, <1>1, <1>3 DEF TargetsExact
<1>8. GotInOrder' /\ GotAll'
  BY <1>0, <1>1, <1>2, <1>4 DEF GotInOrder, GotAll
<1>9. QED
  BY <1>5, <1>6, <1>7, <1>8 DEF Inv

LEMMA SendNextInv ==
  ASSUME Inv, SendNext
  PROVE  Inv'
<1>0. TypeOK /\ ChannelContiguous /\ ListsExact /\ TargetsExact /\ GotInOrder /\ GotAll
  BY DEF Inv
<1> PICK h : h = Head(targets)
  OBVIOUS
<1>1. /\ copied /\ targets # <<>> /\ targets' = Tail(targets)
      /\ UNCHANGED <<eventCh, topicOf, current, copied, handler, seen,
                     subscribers, chState, since>>
  BY DEF SendNext, subVars
<1>2. /\ h \in Subscriptions /\ targets' \in Seq(Subscriptions)
      /\ Contains(targets, h) /\ NoRepeats(targets') /\ ~Contains(targets', h)
      /\ \A e : Contains(targets, e) <=> Contains(targets', e) \/ e = h
  BY <1>0, <1>1, TailFacts DEF TypeOK, TargetsExact
<1>3. current \in Events /\ current # 0 /\ current = Taken /\ Events \subseteq Nat
      /\ Interest[h] = topicOf[current]
  BY <1>0, <1>1, <1>2, InvTypes DEF ChannelContiguous, TypeOK, TargetsExact
<1>4. Events' = Events /\ Taken' = Taken
  BY <1>1 DEF Events, Taken
<1>5. ChannelContiguous' /\ ListsExact'
  BY <1>0, <1>1, <1>4 DEF ChannelContiguous, ListsExact
<1>6. TargetsExact'
  BY <1>0, <1>1, <1>2 DEF TargetsExact
<1>7. \A s \in Subscriptions : Ahead(s)' <=> Ahead(s) /\ s # h
  BY <1>1, <1>2, <1>3 DEF Ahead
<1>8. Ahead(h)
  BY <1>1, <1>2, <1>3 DEF Ahead
<1>9. CASE chState[h] = "closed" /\ crashed' = TRUE /\ UNCHANGED <<ch, refused>>
  <2>1. \A s \in Subscriptions : Got(s)' = Got(s)
    BY <1>1, <1>9 DEF Got
  <2>2. TypeOK'
    BY <1>0, <1>1, <1>2, <1>4, <1>9 DEF TypeOK
  <2>3. GotInOrder' /\ GotAll'
    BY <1>0, <1>1, <1>4, <1>7, <1>9, <2>1 DEF GotInOrder, GotAll
  <2>4. QED
    BY <1>5, <1>6, <2>2, <2>3 DEF Inv
<1>10. CASE /\ Len(ch[h]) < SubBuf /\ ch' = [ch EXCEPT ![h] = Append(@, current)]
            /\ UNCHANGED <<refused, crashed>>
  <2>1. ch'[h] = Append(ch[h], current) /\ \A s \in Subscriptions : s # h => ch'[s] = ch[s]
    BY <1>0, <1>2, <1>10 DEF TypeOK
  <2>2. /\ Got(h)' = Append(Got(h), current)
        /\ \A s \in Subscriptions : s # h => Got(s)' = Got(s)
    <3>1. seen[h] \in Seq(Events) /\ ch[h] \in Seq(Events)
      BY <1>0, <1>2 DEF TypeOK
    <3>2. seen[h] \o Append(ch[h], current) = Append(seen[h] \o ch[h], current)
      <4>1. current \in Events
        BY <1>3
      <4>2. QED
        <5>1. \A u, w \in Seq(Events), x \in Events : u \o Append(w, x) = Append(u \o w, x)
          BY OneMoreWaits
        <5>2. QED
          BY <3>1, <4>1, <5>1
    <3>3. QED
      BY <1>1, <2>1, <3>2 DEF Got
  <2>3. TypeOK'
    <3>1. /\ ch[h] \in Seq(Events) /\ Append(ch[h], current) \in Seq(Events)
          /\ Len(Append(ch[h], current)) <= SubBuf
      BY <1>0, <1>2, <1>3, <1>10, EventBusAssumption DEF TypeOK
    <3>2. ch' \in [Subscriptions -> Seq(Events)]
      BY <1>0, <1>10, <3>1 DEF TypeOK
    <3>3. \A s \in Subscriptions : Len(ch'[s]) <= SubBuf
      BY <1>0, <2>1, <3>1 DEF TypeOK
    <3>4. QED
      BY <1>0, <1>1, <1>2, <1>4, <1>10, <3>2, <3>3 DEF TypeOK
  <2>4. Got(h) \in Seq(Events) /\ Got(h) \in Seq(Nat)
    BY <1>0, <1>2, InvTypes
  <2>5. \A e : Contains(Got(h)', e) <=> Contains(Got(h), e) \/ e = current
    <3>1. \A e : Contains(Append(Got(h), current), e) <=> Contains(Got(h), e) \/ e = current
      BY <1>3, <2>4, AppendFacts
    <3>2. QED
      BY <2>2, <3>1 DEF Contains
  <2>6. GotInOrder'
    <3>1. ASSUME NEW e \in Nat, Contains(Got(h), e) PROVE e < current
      <4>1. e \in Events
        BY <2>4, <3>1, ContainsInSeq
      <4>2. e <= Taken /\ e # current
        BY <1>0, <1>2, <1>8, <3>1, <4>1 DEF GotInOrder
      <4>3. QED
        BY <1>3, <4>2
    <3>2. Ascending(Got(h)')
      BY <1>0, <1>2, <1>3, <2>2, <2>4, <3>1, AppendAscending DEF GotInOrder
    <3>3. ASSUME NEW n \in Events, Contains(Got(h)', n)
          PROVE  n <= Taken /\ topicOf[n] = Interest[h]
      BY <1>0, <1>2, <1>3, <2>5, <3>3 DEF GotInOrder
    <3>4. ASSUME NEW s \in Subscriptions
          PROVE  /\ Ascending(Got(s)')
                 /\ \A n \in Events : Contains(Got(s)', n) =>
                      n <= Taken /\ topicOf[n] = Interest[s] /\ (Ahead(s)' => n # current)
      <4>1. CASE s = h
        BY <1>7, <3>2, <3>3, <4>1
      <4>2. CASE s # h
        BY <1>0, <1>7, <2>2, <4>2 DEF GotInOrder
      <4>3. QED
        BY <4>1, <4>2
    <3>5. QED
      BY <1>1, <1>4, <3>4 DEF GotInOrder
  <2>7. GotAll'
    <3>1. ASSUME NEW s \in Subscriptions, chState[s] = "open", NEW n \in Events, n <= Taken,
                 n > since[s], topicOf[n] = Interest[s]
          PROVE  Contains(Got(s)', n) \/ n \in refused[s] \/ (n = current /\ Ahead(s)')
      <4>1. Contains(Got(s), n) \/ n \in refused[s] \/ (n = current /\ Ahead(s))
        BY <1>0, <3>1 DEF GotAll
      <4>2. CASE s = h
        BY <2>5, <4>1, <4>2
      <4>3. CASE s # h
        BY <1>7, <2>2, <4>1, <4>3
      <4>4. QED
        BY <4>2, <4>3
    <3>2. QED
      BY <1>1, <1>4, <1>10, <3>1 DEF GotAll
  <2>8. QED
    BY <1>5, <1>6, <2>3, <2>6, <2>7 DEF Inv
<1>11. CASE refused' = [refused EXCEPT ![h] = @ \cup {current}] /\ UNCHANGED <<ch, crashed>>
  <2>1. \A s \in Subscriptions : Got(s)' = Got(s)
    BY <1>1, <1>11 DEF Got
  <2>2. /\ refused'[h] = refused[h] \cup {current}
        /\ \A s \in Subscriptions : s # h => refused'[s] = refused[s]
    BY <1>0, <1>2, <1>11 DEF TypeOK
  <2>3. TypeOK'
    <3>1. refused' \in [Subscriptions -> SUBSET Events]
      BY <1>0, <1>2, <1>3, <1>11 DEF TypeOK
    <3>2. QED
      BY <1>0, <1>1, <1>2, <1>4, <1>11, <3>1 DEF TypeOK
  <2>4. GotInOrder'
    <3>1. ASSUME NEW s \in Subscriptions
          PROVE  /\ Ascending(Got(s)')
                 /\ \A n \in Events : Contains(Got(s)', n) =>
                      n <= Taken /\ topicOf[n] = Interest[s] /\ (Ahead(s)' => n # current)
      <4>1. Got(s)' = Got(s) /\ (Ahead(s)' => Ahead(s))
        BY <1>7, <2>1
      <4>2. QED
        BY <1>0, <4>1 DEF GotInOrder
    <3>2. QED
      BY <1>1, <1>4, <3>1 DEF GotInOrder
  <2>5. GotAll'
    <3>1. ASSUME NEW s \in Subscriptions, chState[s] = "open", NEW n \in Events, n <= Taken,
                 n > since[s], topicOf[n] = Interest[s]
          PROVE  Contains(Got(s)', n) \/ n \in refused'[s] \/ (n = current /\ Ahead(s)')
      <4>1. Contains(Got(s), n) \/ n \in refused[s] \/ (n = current /\ Ahead(s))
        BY <1>0, <3>1 DEF GotAll
      <4>2. Got(s)' = Got(s) /\ refused[s] \subseteq refused'[s]
        BY <2>1, <2>2
      <4>3. CASE s = h
        BY <2>2, <4>1, <4>2, <4>3
      <4>4. CASE s # h
        BY <1>7, <4>1, <4>2, <4>4
      <4>5. QED
        BY <4>3, <4>4
    <3>2. QED
      BY <1>1, <1>4, <3>1 DEF GotAll
  <2>6. QED
    BY <1>5, <1>6, <2>3, <2>4, <2>5 DEF Inv
<1>12. QED
  BY <1>9, <1>10, <1>11 DEF SendNext, Accepts, RoomIn

-----------------------------------------------------------------------------
(* The goroutine of a subscription *)

LEMMA HandlerInv ==
  ASSUME Inv, NEW s \in Subscriptions, HandlerStep(s)
  PROVE  Inv'
<1>0. TypeOK
  BY DEF Inv
<1>1. ASSUME NEW state \in {"ready", "hung"}, HandlerCalled(s, state) PROVE Inv'
  <2>1. /\ ch[s] # <<>> /\ handler' = [handler EXCEPT ![s] = state]
        /\ seen' = [seen EXCEPT ![s] = Append(@, Head(ch[s]))]
        /\ ch' = [ch EXCEPT ![s] = Tail(@)]
        /\ UNCHANGED <<eventCh, topicOf, refused, crashed, current, copied, targets,
                       subscribers, chState, since>>
    BY <1>1 DEF HandlerCalled, dispatchVars, subVars
  <2>2. /\ ch[s] \in Seq(Events) /\ seen[s] \in Seq(Events) /\ Len(ch[s]) <= SubBuf
    BY <1>0 DEF TypeOK
  <2>3. /\ Head(ch[s]) \in Events /\ Tail(ch[s]) \in Seq(Events)
        /\ Len(ch[s]) \in Nat /\ Len(Tail(ch[s])) = Len(ch[s]) - 1
    BY <2>1, <2>2, HeadTailProperties, LenProperties
  <2>4. Append(seen[s], Head(ch[s])) \in Seq(Events)
    BY <2>2, <2>3
  <2>5. Events' = Events
    BY <2>1 DEF Events
  <2>6. /\ ch'[s] = Tail(ch[s]) /\ seen'[s] = Append(seen[s], Head(ch[s]))
        /\ \A q \in Subscriptions : q # s => ch'[q] = ch[q] /\ seen'[q] = seen[q]
    BY <1>0, <2>1 DEF TypeOK
  <2>7. TypeOK'
    <3>1. ch' \in [Subscriptions -> Seq(Events)] /\ seen' \in [Subscriptions -> Seq(Events)]
      BY <1>0, <2>1, <2>3, <2>4 DEF TypeOK
    <3>2. \A q \in Subscriptions : Len(ch'[q]) <= SubBuf
      <4>1. Len(Tail(ch[s])) <= SubBuf
        BY <2>2, <2>3, EventBusAssumption
      <4>2. QED
        BY <1>0, <2>6, <4>1 DEF TypeOK
    <3>3. handler' \in [Subscriptions -> {"none", "ready", "hung", "gone"}]
      BY <1>0, <2>1 DEF TypeOK
    <3>4. QED
      BY <1>0, <2>1, <2>5, <3>1, <3>2, <3>3 DEF TypeOK
  <2>8. \A q \in Subscriptions : Got(q)' = Got(q)
    <3>1. Append(seen[s], Head(ch[s])) \o Tail(ch[s]) = seen[s] \o ch[s]
      BY <2>1, <2>2, OneIsHandled
    <3>2. QED
      BY <2>6, <3>1 DEF Got
  <2>9. QED
    BY <2>1, <2>7, <2>8, BusUntouched
<1>2. ASSUME HandlerLeaves(s) PROVE Inv'
  <2>1. /\ handler' = [handler EXCEPT ![s] = "gone"]
        /\ UNCHANGED <<eventCh, topicOf, ch, seen, refused, crashed, current, copied, targets,
                       subscribers, chState, since>>
    BY <1>2 DEF HandlerLeaves, dispatchVars, subVars
  <2>2. Events' = Events /\ \A q \in Subscriptions : Got(q)' = Got(q)
    BY <2>1 DEF Events, Got
  <2>3. TypeOK'
    BY <1>0, <2>1, <2>2 DEF TypeOK
  <2>4. QED
    BY <2>1, <2>2, <2>3, BusUntouched
<1>3. QED
  BY <1>1, <1>2 DEF HandlerStep

LEMMA InvNext == Inv /\ [Next]_vars => Inv'
<1> SUFFICES ASSUME Inv, [Next]_vars PROVE Inv'
  OBVIOUS
<1>1. CASE UNCHANGED vars
  <2>1. /\ UNCHANGED <<topicOf, eventCh, current, copied, targets, subscribers, chState,
                       since, refused, ch, seen, handler, crashed>>
    BY <1>1 DEF vars
  <2>2. Events' = Events /\ \A s \in Subscriptions : Got(s)' = Got(s)
    BY <2>1 DEF Events, Got
  <2>3. TypeOK'
    BY <2>1, <2>2 DEF Inv, TypeOK
  <2>4. QED
    BY <2>1, <2>2, <2>3, BusUntouched
<1>2. QED
  BY <1>1, PublishInv, SubscribeInv, UnsubscribeInv, HandlerInv, TakeInv, CopyInv,
     SendNextInv, AllServedInv DEF Next, Dispatch

-----------------------------------------------------------------------------
LEMMA InvAlways == Spec => []Inv
<1>1. QED
  BY InvInit, InvNext, PTL DEF Spec

(* The variables of the bus keep their types and the channels their bounds. *)
THEOREM BusTypeOK == Spec => []TypeOK
<1>1. Inv => TypeOK
  BY DEF Inv
<1>2. QED
  BY <1>1, InvAlways, PTL

(* A handler sees the events of its topic in the order of publication,     *)
(* each at most once (bus/bus.go, the dispatcher of init).                 *)
THEOREM BusHandledInOrder == Spec => []HandledInOrder
<1>1. Inv => HandledInOrder
  <2> SUFFICES ASSUME Inv, NEW s \in Subscriptions
               PROVE  /\ \A i, j \in 1..Len(Got(s)) : i < j => Got(s)[i] < Got(s)[j]
                      /\ \A i \in 1..Len(Got(s)) : topicOf[Got(s)[i]] = Interest[s]
    BY DEF HandledInOrder, Got
  <2>1. Got(s) \in Seq(Events) /\ Ascending(Got(s))
    BY InvTypes DEF Inv, GotInOrder
  <2>2. ASSUME NEW i \in 1..Len(Got(s)) PROVE topicOf[Got(s)[i]] = Interest[s]
    <3>1. Got(s)[i] \in Events /\ Contains(Got(s), Got(s)[i])
      BY <2>1 DEF Contains
    <3>2. QED
      BY <3>1 DEF Inv, GotInOrder
  <2>3. QED
    BY <2>1, <2>2 DEF Ascending
<1>2. QED
  BY <1>1, InvAlways, PTL

(* A subscriber misses only what its own full channel refused, whoever     *)
(* else subscribes, unsubscribes or hangs (bus/bus.go, the dispatcher).    *)
THEOREM BusNothingMissed == Spec => []NothingMissed
<1>1. Inv => NothingMissed
  <2> SUFFICES ASSUME Inv, NEW s \in Subscriptions, chState[s] = "open", NEW n \in Done,
                      n > since[s], topicOf[n] = Interest[s]
               PROVE  Contains(Got(s), n) \/ n \in refused[s]
    BY DEF NothingMissed, Got
  <2>1. n \in Events /\ ~Contains(eventCh, n) /\ n # current
    BY DEF Done
  <2>2. n <= Taken
    <3>1. SUFFICES ASSUME ~(n <= Taken) PROVE FALSE
      OBVIOUS
    <3>2. n - Taken \in 1..Len(eventCh) /\ Taken + (n - Taken) = n
      BY <2>1, <3>1, InvTypes DEF Inv, Events, Taken
    <3>3. eventCh[n - Taken] = n
      BY <3>2 DEF Inv, ChannelContiguous
    <3>4. QED
      BY <2>1, <3>2, <3>3 DEF Contains
  <2>3. QED
    BY <2>1, <2>2 DEF Inv, GotAll
<1>2. QED
  BY <1>1, InvAlways, PTL
=============================================================================
