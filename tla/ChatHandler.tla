---------------------------- MODULE ChatHandler ----------------------------
(***************************************************************************)
(* handleChat and handleChatStream (gateway/handlers_chat.go) with the     *)
(* quota (governor/quota.go) and the policy of "chat" (ironclaw.Enforce)   *)
(* in front of them.  The Butler behind them is the module Chat; here it   *)
(* answers, fails, or streams chunks.                                      *)
(*                                                                         *)
(* All chats are those of one user, "default".  The quota bounds how many  *)
(* are in progress and how many begin in any second; the policy bounds     *)
(* how many begin in a second of the clock.                                *)
(***************************************************************************)
EXTENDS Naturals, Sequences, FiniteSets

CONSTANTS
  Chatters,             \* goroutines that serve POST /v1/chat/completions
  Second,               \* ticks per second
  PerUserConcurrency, PerSkillQPS,   \* of the quota
  MaxQPS,               \* of the policy
  Chunks,               \* bound on the chunks of a stream
  MaxTime,              \* bound on the clock
  MaxBegun              \* bound on the chats

VARIABLES
  now,
  userActive,   \* Quota.userActive["default"]
  skillTimes,   \* Quota.skillTimes["chat"]
  qpsHits,      \* qpsHits["chat"], in seconds of the clock
  chat,         \* goroutine: where its chat is, chunks written, entries recorded
  allowed,      \* when the quota allowed chats
  enforced,     \* in which second the policy let chats pass
  begun

vars == <<now, userActive, skillTimes, qpsHits, chat, allowed, enforced, begun>>

NoChat == [at |-> "idle", written |-> 0, records |-> 0]
InProgress(c) == chat[c].at # "idle"
Clock == now \div Second

Init ==
  /\ now = 0
  /\ userActive = 0
  /\ skillTimes = <<>> /\ qpsHits = <<>>
  /\ chat = [c \in Chatters |-> NoChat]
  /\ allowed = <<>> /\ enforced = <<>>
  /\ begun = 0

Goto(c, at) == chat' = [chat EXCEPT ![c].at = at]
RecordAndRelease(c) == chat' = [chat EXCEPT ![c].at = "release", ![c].records = @ + 1]
UnchangedLimits == UNCHANGED <<now, userActive, skillTimes, qpsHits, allowed, enforced, begun>>

(* The loops that keep what is younger than a span: times come in order,   *)
(* each is taken under the mutex, so that those that are over come first.  *)
Since(times, span, time) ==
  LET over == {i \in DOMAIN times : times[i] + span <= time}
  IN  SubSeq(times, Cardinality(over) + 1, Len(times))

(* Variant: a window of one tick for one of a second. *)
RecentOfTick(times) == Since(times, 1, now)

(* The times less than a second ago. *)
Recent(times) == Since(times, Second, now)

(* Hits of this second of the clock. *)
RecentHits == Since(qpsHits, 1, Clock)

(* Quota.Allow; a chat it refuses is answered 429 and leaves nothing.  It  *)
(* may also refuse because too many goroutines run.                        *)
Allow(c) ==
  /\ chat[c].at = "idle"
  /\ begun < MaxBegun
  /\ begun' = begun + 1
  /\ userActive < PerUserConcurrency
  /\ Len(Recent(skillTimes)) < PerSkillQPS
  /\ userActive' = userActive + 1
  /\ skillTimes' = Append(Recent(skillTimes), now)
  /\ allowed' = Append(allowed, now)
  /\ Goto(c, "policy")
  /\ UNCHANGED <<now, qpsHits, enforced>>

(* Variant: the number of hits is not compared with the limit. *)
EnforceUnlimited(c) ==
  /\ chat[c].at = "policy"
  /\ qpsHits' = Append(RecentHits, Clock)
  /\ enforced' = Append(enforced, Clock)
  /\ (Goto(c, "body") \/ RecordAndRelease(c))
  /\ UNCHANGED <<now, userActive, skillTimes, allowed, begun>>

(* Enforce: allowed users; the hits of this second, to which this one is   *)
(* added; token and classification, which may deny the chat after that.    *)
Enforce(c) ==
  /\ chat[c].at = "policy"
  /\ \/ /\ Len(RecentHits) < MaxQPS
        /\ qpsHits' = Append(RecentHits, Clock)
        /\ enforced' = Append(enforced, Clock)
        /\ (Goto(c, "body") \/ RecordAndRelease(c))
     \/ /\ RecordAndRelease(c)
        /\ UNCHANGED <<qpsHits, enforced>>
  /\ UNCHANGED <<now, userActive, skillTimes, allowed, begun>>

(* The body cannot be read or is no JSON: 400, no record. *)
BadBody(c) == chat[c].at = "body" /\ Goto(c, "release") /\ UnchangedLimits

(* HandleChat answers or fails, or HandleChatStream fails. *)
Answer(c) == chat[c].at = "body" /\ RecordAndRelease(c) /\ UnchangedLimits

(* HandleChatStream begins: the header is written. *)
BeginStream(c) == chat[c].at = "body" /\ Goto(c, "stream") /\ UnchangedLimits

(* A chunk is written.  The writer the handler sees is loggerMiddleware's   *)
(* responseRecorder, which embeds an http.ResponseWriter and has no Flush:  *)
(* the client may see the chunk only when the handler returns.              *)
Chunk(c) ==
  /\ chat[c].at = "stream"
  /\ chat[c].written < Chunks
  /\ chat' = [chat EXCEPT ![c].written = @ + 1]
  /\ UnchangedLimits

(* The stream has ended: SaveStreamedResponse, the record, [DONE]. *)
EndStream(c) == chat[c].at = "stream" /\ RecordAndRelease(c) /\ UnchangedLimits

(* The Butler panics: only the deferred calls run. *)
PanicInChat(c) == chat[c].at \in {"body", "stream"} /\ Goto(c, "release") /\ UnchangedLimits

(* Variant: a chat that failed keeps its place. *)
ReleaseRecordedOnly(c) ==
  /\ chat[c].at = "release"
  /\ userActive' = IF chat[c].records > 0 THEN userActive - 1 ELSE userActive
  /\ chat' = [chat EXCEPT ![c] = NoChat]
  /\ UNCHANGED <<now, skillTimes, qpsHits, allowed, enforced, begun>>

(* The deferred Quota.Release; what was written reaches the client. *)
Release(c) ==
  /\ chat[c].at = "release"
  /\ userActive' = IF userActive > 0 THEN userActive - 1 ELSE userActive
  /\ chat' = [chat EXCEPT ![c] = NoChat]
  /\ UNCHANGED <<now, skillTimes, qpsHits, allowed, enforced, begun>>

Tick ==
  /\ now < MaxTime
  /\ now' = now + 1
  /\ UNCHANGED <<userActive, skillTimes, qpsHits, chat, allowed, enforced, begun>>

Next ==
  \/ \E c \in Chatters : \/ Allow(c) \/ Enforce(c) \/ BadBody(c) \/ Answer(c) \/ BeginStream(c)
                         \/ Chunk(c) \/ EndStream(c) \/ PanicInChat(c) \/ Release(c)
  \/ Tick

Spec == Init /\ [][Next]_vars

-----------------------------------------------------------------------------
(* Properties *)

(* The user's places are taken by exactly the chats in progress, however   *)
(* they end, and each of them leaves at most one entry of its own.         *)
PlacesTaken ==
  /\ userActive = Cardinality({c \in Chatters : InProgress(c)})
  /\ userActive <= PerUserConcurrency
  /\ \A c \in Chatters : chat[c].records <= 1

(* The quota allows at most PerSkillQPS chats within any second, wherever  *)
(* it begins; the policy at most MaxQPS in each second of the clock.       *)
WindowsKept ==
  /\ \A i, j \in DOMAIN allowed :
       j - i >= PerSkillQPS => allowed[j] - allowed[i] >= Second
  /\ \A i, j \in DOMAIN enforced :
       j - i >= MaxQPS => enforced[j] > enforced[i]
=============================================================================
