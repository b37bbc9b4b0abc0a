------------------------------ MODULE EventBus ------------------------------
(***************************************************************************)
(* The topic bus (bus/bus.go): Publish, SubscribeTopic, the unsubscribe    *)
(* function it returns, and the dispatcher that init starts.               *)
(*                                                                         *)
(* Publish offers an event to a bounded channel and never waits.  The      *)
(* dispatcher takes one event, copies the list of the topic's subscribers  *)
(* under the lock, gives the lock back, and offers the event to each       *)
(* subscriber's channel, again without waiting.  Each subscription has a   *)
(* goroutine that calls its handler for what is in its channel.  A handler *)
(* may hang.                                                               *)
(*                                                                         *)
(* An event is the number of its acceptance; topicOf gives its topic.      *)
(*                                                                         *)
(* A definition whose comment begins with "Variant" is a faulty form of    *)
(* the definition that follows it and is used only to see that a property  *)
(* notices it.                                                             *)
(***************************************************************************)
EXTENDS Naturals, Sequences, SequencesExt

CONSTANTS
  Topics,
  Subscriptions,  \* calls of SubscribeTopic
  Interest,       \* subscription: its topic
  EventBuf,       \* eventBuf
  SubBuf,         \* buffer of a subscription's channel
  MaxEvents       \* bound on the events published

ASSUME EventBusAssumption ==
  /\ Interest \in [Subscriptions -> Topics]
  /\ EventBuf \in Nat \ {0}
  /\ SubBuf \in Nat \ {0}
  /\ MaxEvents \in Nat

VARIABLES
  eventCh,      \* events in eventCh
  topicOf,      \* topic of every event accepted so far
  subscribers,  \* topic: the subscriptions of the list, in order
  current,      \* event the dispatcher is busy with, 0 if none
  copied,       \* the dispatcher has copied the list for it
  targets,      \* subscriptions of the copy not yet served
  ch,           \* subscription: events in its channel
  chState,      \* subscription: its channel is "none", "open" or "closed"
  since,        \* subscription: events accepted before it was entered
  handler,      \* subscription: its goroutine is "none", "ready", "hung" in
                \* the handler, or "gone"
  seen,         \* subscription: the events its handler was called with
  refused,      \* subscription: events its full channel refused
  crashed       \* a send on a closed channel has ended the process

dispatchVars == <<current, copied, targets>>
subVars == <<subscribers, chState, since>>
vars == <<eventCh, topicOf, subscribers, current, copied, targets, ch, chState,
          since, handler, seen, refused, crashed>>

Init ==
  /\ eventCh = <<>>
  /\ topicOf = <<>>
  /\ subscribers = [t \in Topics |-> <<>>]
  /\ current = 0
  /\ copied = FALSE
  /\ targets = <<>>
  /\ ch = [s \in Subscriptions |-> <<>>]
  /\ chState = [s \in Subscriptions |-> "none"]
  /\ since = [s \in Subscriptions |-> 0]
  /\ handler = [s \in Subscriptions |-> "none"]
  /\ seen = [s \in Subscriptions |-> <<>>]
  /\ refused = [s \in Subscriptions |-> {}]
  /\ crashed = FALSE

-----------------------------------------------------------------------------
(* An event that finds the channel full is lost without a trace. *)
Publish(t) ==
  /\ ~crashed
  /\ Len(topicOf) < MaxEvents
  /\ Len(eventCh) < EventBuf
  /\ topicOf' = Append(topicOf, t)
  /\ eventCh' = Append(eventCh, Len(topicOf) + 1)
  /\ UNCHANGED <<ch, handler, seen, refused, crashed, dispatchVars, subVars>>

SubscribeTopic(s) ==
  /\ ~crashed
  /\ chState[s] = "none"
  /\ chState' = [chState EXCEPT ![s] = "open"]
  /\ subscribers' = [subscribers EXCEPT ![Interest[s]] = Append(@, s)]
  /\ since' = [since EXCEPT ![s] = Len(topicOf)]
  /\ handler' = [handler EXCEPT ![s] = "ready"]
  /\ UNCHANGED <<eventCh, topicOf, ch, seen, refused, crashed, dispatchVars>>

(* Variant: the dispatcher walks the list itself, where a removal moves    *)
(* the later subscriptions one place forward.                              *)
UnsubscribeMovesTargets(s) ==
  /\ ~crashed
  /\ \E i \in DOMAIN subscribers[Interest[s]] :
       /\ subscribers[Interest[s]][i] = s
       /\ subscribers' = [subscribers EXCEPT ![Interest[s]] = RemoveAt(@, i)]
  /\ chState' = [chState EXCEPT ![s] = "closed"]
  /\ targets' = IF targets = <<>> THEN targets ELSE Tail(targets)
  /\ UNCHANGED <<eventCh, topicOf, current, copied, ch, since, handler, seen,
                 refused, crashed>>

(* The function SubscribeTopic returned.  A second call finds nothing to   *)
(* remove.                                                                 *)
Unsubscribe(s) ==
  /\ ~crashed
  /\ \E i \in DOMAIN subscribers[Interest[s]] :
       /\ subscribers[Interest[s]][i] = s
       /\ subscribers' = [subscribers EXCEPT ![Interest[s]] = RemoveAt(@, i)]
  /\ chState' = [chState EXCEPT ![s] = "closed"]
  /\ UNCHANGED <<eventCh, topicOf, ch, since, handler, seen, refused, crashed,
                 dispatchVars>>

-----------------------------------------------------------------------------
(* The dispatcher *)

Take ==
  /\ ~crashed
  /\ current = 0
  /\ eventCh # <<>>
  /\ current' = Head(eventCh)
  /\ eventCh' = Tail(eventCh)
  /\ UNCHANGED <<topicOf, copied, targets, ch, handler, seen, refused, crashed,
                 subVars>>

(* Variant: the subscriptions of all topics are copied. *)
CopySubscribersOfAll ==
  /\ ~crashed
  /\ current # 0
  /\ ~copied
  /\ copied' = TRUE
  /\ targets' = SetToSeq(UNION {ToSet(subscribers[t]) : t \in Topics})
  /\ UNCHANGED <<eventCh, topicOf, current, ch, handler, seen, refused, crashed,
                 subVars>>

CopySubscribers ==
  /\ ~crashed
  /\ current # 0
  /\ ~copied
  /\ copied' = TRUE
  /\ targets' = subscribers[topicOf[current]]
  /\ UNCHANGED <<eventCh, topicOf, current, ch, handler, seen, refused, crashed,
                 subVars>>

RoomIn(s) == Len(ch[s]) < SubBuf

(* Variant: the buffer is taken for one larger than it is. *)
AcceptsByOne(s) == Len(ch[s]) <= SubBuf

(* The send of the select does not have to wait. *)
Accepts(s) == RoomIn(s)

(* Variant: without its default case, the select waits for room. *)
GivesUpNever(s) == FALSE

(* The default case of the select. *)
GivesUp(s) == ~RoomIn(s)

(* The send to the next subscription.  On a closed channel it panics, and  *)
(* nothing recovers from that.                                             *)
SendNext ==
  /\ ~crashed
  /\ copied
  /\ targets # <<>>
  /\ LET s == Head(targets) IN
       \/ /\ chState[s] = "closed"
          /\ crashed' = TRUE
          /\ UNCHANGED <<ch, refused>>
       \/ /\ chState[s] = "open"
          /\ Accepts(s)
          /\ ch' = [ch EXCEPT ![s] = Append(@, current)]
          /\ UNCHANGED <<refused, crashed>>
       \/ /\ chState[s] = "open"
          /\ GivesUp(s)
          /\ refused' = [refused EXCEPT ![s] = @ \cup {current}]
          /\ UNCHANGED <<ch, crashed>>
  /\ targets' = Tail(targets)
  /\ UNCHANGED <<eventCh, topicOf, current, copied, handler, seen, subVars>>

AllServed ==
  /\ ~crashed
  /\ copied
  /\ targets = <<>>
  /\ current' = 0
  /\ copied' = FALSE
  /\ UNCHANGED <<eventCh, topicOf, targets, ch, handler, seen, refused, crashed,
                 subVars>>

Dispatch == Take \/ CopySubscribers \/ SendNext \/ AllServed

-----------------------------------------------------------------------------
(* The goroutine of a subscription: for p := range ch { handler(p) } *)

(* The handler is called, and returns or never will.                       *)
HandlerCalled(s, state) ==
  /\ ~crashed
  /\ handler[s] = "ready"
  /\ ch[s] # <<>>
  /\ handler' = [handler EXCEPT ![s] = state]
  /\ seen' = [seen EXCEPT ![s] = Append(@, Head(ch[s]))]
  /\ ch' = [ch EXCEPT ![s] = Tail(@)]
  /\ UNCHANGED <<eventCh, topicOf, refused, crashed, dispatchVars, subVars>>

(* Variant: the goroutine does not see that its channel is closed. *)
ChannelExhaustedNever(s) == FALSE

(* The range over the channel ends. *)
ChannelExhausted(s) == chState[s] = "closed" /\ ch[s] = <<>>

HandlerLeaves(s) ==
  /\ ~crashed
  /\ handler[s] = "ready"
  /\ ChannelExhausted(s)
  /\ handler' = [handler EXCEPT ![s] = "gone"]
  /\ UNCHANGED <<eventCh, topicOf, ch, seen, refused, crashed, dispatchVars,
                 subVars>>

HandlerStep(s) ==
  \/ \E state \in {"ready", "hung"} : HandlerCalled(s, state)
  \/ HandlerLeaves(s)

Next ==
  \/ \E t \in Topics : Publish(t)
  \/ \E s \in Subscriptions : SubscribeTopic(s) \/ Unsubscribe(s) \/ HandlerStep(s)
  \/ Dispatch

(* Goroutines that can run do; a handler that never returns has hung.      *)
Spec ==
  /\ Init
  /\ [][Next]_vars
  /\ WF_vars(Dispatch)
  /\ \A s \in Subscriptions : WF_vars(HandlerStep(s))

-----------------------------------------------------------------------------
(* Properties *)

Events == 1..Len(topicOf)

TypeOK ==
  /\ topicOf \in Seq(Topics)
  /\ eventCh \in Seq(Events)
  /\ Len(eventCh) <= EventBuf
  /\ subscribers \in [Topics -> Seq(Subscriptions)]
  /\ current \in Events \cup {0}
  /\ copied \in BOOLEAN
  /\ targets \in Seq(Subscriptions)
  /\ ch \in [Subscriptions -> Seq(Events)]
  /\ \A s \in Subscriptions : Len(ch[s]) <= SubBuf
  /\ chState \in [Subscriptions -> {"none", "open", "closed"}]
  /\ since \in [Subscriptions -> Nat]
  /\ handler \in [Subscriptions -> {"none", "ready", "hung", "gone"}]
  /\ seen \in [Subscriptions -> Seq(Events)]
  /\ refused \in [Subscriptions -> SUBSET Events]
  /\ crashed \in BOOLEAN

(* A handler is called with the events of its topic in the order they were *)
(* published, each at most once.                                           *)
HandledInOrder ==
  \A s \in Subscriptions :
    LET got == seen[s] \o ch[s] IN
      /\ \A i, j \in 1..Len(got) : i < j => got[i] < got[j]
      /\ \A i \in 1..Len(got) : topicOf[got[i]] = Interest[s]

(* A subscriber misses nothing but what its own full channel refused: each *)
(* event of its topic that was published while it was subscribed, and that *)
(* the dispatcher is done with, was handled, is in its channel or was      *)
(* refused there, whatever the other subscribers do meanwhile.             *)
Done == {n \in Events : ~Contains(eventCh, n) /\ n # current}

NothingMissed ==
  \A s \in Subscriptions : chState[s] = "open" =>
    \A n \in Done : n > since[s] /\ topicOf[n] = Interest[s] =>
      Contains(seen[s] \o ch[s], n) \/ n \in refused[s]

(* No handler, slow or hung, holds up the dispatcher: it gets through with *)
(* every event it has begun.                                               *)
DispatcherProgresses ==
  current # 0 ~> current = 0 \/ crashed

(* The goroutine of an unsubscribed handler ends, unless the handler hangs. *)
UnsubscribedEnds ==
  \A s \in Subscriptions :
    chState[s] = "closed" ~> handler[s] \in {"gone", "hung"} \/ crashed

(* Unsubscribing is safe at any time. *)
DispatcherSurvives == ~crashed
=============================================================================
