-------------------------------- MODULE Edge --------------------------------
(***************************************************************************)
(* The edge program (cmd/hc-edge/main.go) with its OfflineManager          *)
(* (internal/edge/offline.go): a loop asks the backend for its health, the *)
(* chats pass through a proxy, which refuses them while offline, and the   *)
(* answers are kept; what is kept when the backend is back is to be sent   *)
(* to it.  Check holds the lock while it asks.                             *)
(***************************************************************************)
EXTENDS Naturals, Sequences, SequencesExt

CONSTANTS
  Chats,            \* requests that can be in progress
  CacheSize,        \* answers kept
  MaxAnswers, MaxDowns

VARIABLES
  up,               \* the backend answers
  offline,          \* OfflineManager.offline
  connected,        \* the flag of main
  checking,         \* "no", "asks" (the lock is held) or "told" (connected not yet set)
  chat,             \* request: "idle" or "proxied"
  kept,             \* the answers of the cache
  pending, sent,    \* the answers to send, and those sent
  syncing,          \* what a synchronisation in progress has read
  answers,          \* answers so far
  downs

vars == <<up, offline, connected, checking, chat, kept, pending, sent, syncing, answers, downs>>

Init ==
  /\ up = TRUE /\ offline = FALSE /\ connected = FALSE /\ checking = "no"
  /\ chat = [c \in Chats |-> "idle"]
  /\ kept = <<>> /\ pending = <<>> /\ sent = {} /\ syncing = <<>>
  /\ answers = 0 /\ downs = 0

BackendFails ==
  /\ up /\ downs < MaxDowns
  /\ up' = FALSE /\ downs' = downs + 1
  /\ UNCHANGED <<offline, connected, checking, chat, kept, pending, sent, syncing, answers>>

BackendRecovers ==
  /\ ~up /\ up' = TRUE
  /\ UNCHANGED <<offline, connected, checking, chat, kept, pending, sent, syncing, answers, downs>>

-----------------------------------------------------------------------------
(* healthLoop and Check *)

CheckAsks ==
  /\ checking = "no"
  /\ checking' = "asks"
  /\ UNCHANGED <<up, offline, connected, chat, kept, pending, sent, syncing, answers, downs>>

(* Variant: once offline, the manager does not ask again. *)
CheckOnlineOnly ==
  /\ checking = "asks"
  /\ checking' = "told"
  /\ offline' = (offline \/ ~up)
  /\ UNCHANGED <<up, connected, chat, kept, pending, sent, syncing, answers, downs>>

(* Back online, all that is kept is to be sent, what was sent before too.  *)
CheckTold ==
  /\ checking = "asks"
  /\ checking' = "told"
  /\ offline' = ~up
  /\ pending' = IF offline /\ up THEN kept ELSE pending
  /\ UNCHANGED <<up, connected, chat, kept, sent, syncing, answers, downs>>

SetConnected ==
  /\ checking = "told"
  /\ checking' = "no"
  /\ connected' = ~offline
  /\ UNCHANGED <<up, offline, chat, kept, pending, sent, syncing, answers, downs>>

-----------------------------------------------------------------------------
(* handleProxy *)

Proxy(c) ==
  /\ chat[c] = "idle" /\ checking # "asks" /\ ~offline
  /\ chat' = [chat EXCEPT ![c] = "proxied"]
  /\ UNCHANGED <<up, offline, connected, checking, kept, pending, sent, syncing, answers, downs>>

(* Variant: the oldest are kept. *)
RecordFirst(n) == SubSeq(Append(kept, n), 1, IF Len(kept) < CacheSize THEN Len(kept) + 1 ELSE CacheSize)

Record(n) == LET all == Append(kept, n)
             IN  IF Len(all) > CacheSize THEN Tail(all) ELSE all

(* ModifyResponse keeps an answer of status 200.                           *)
Answer(c) ==
  /\ chat[c] = "proxied"
  /\ chat' = [chat EXCEPT ![c] = "idle"]
  /\ IF up /\ answers < MaxAnswers
     THEN checking # "asks" /\ answers' = answers + 1 /\ kept' = Record(answers')
     ELSE UNCHANGED <<answers, kept>>
  /\ UNCHANGED <<up, offline, connected, checking, pending, sent, syncing, downs>>

-----------------------------------------------------------------------------
(* GetPendingSync and, when that was sent, ClearPending *)

GetPendingSync ==
  /\ checking # "asks" /\ syncing = <<>> /\ pending # <<>>
  /\ syncing' = pending
  /\ UNCHANGED <<up, offline, connected, checking, chat, kept, pending, sent, answers, downs>>

ClearPending ==
  /\ checking # "asks" /\ syncing # <<>>
  /\ sent' = sent \cup ToSet(syncing)
  /\ pending' = <<>> /\ syncing' = <<>>
  /\ UNCHANGED <<up, offline, connected, checking, chat, kept, answers, downs>>

Next ==
  \/ BackendFails \/ BackendRecovers \/ CheckAsks \/ CheckTold \/ SetConnected
  \/ \E c \in Chats : Proxy(c) \/ Answer(c)
  \/ GetPendingSync \/ ClearPending

(* The ticker of the loop fires, and a request to the backend ends. *)
Spec == Init /\ [][Next]_vars /\ WF_vars(CheckAsks) /\ WF_vars(CheckTold) /\ WF_vars(SetConnected)

-----------------------------------------------------------------------------
(* Properties *)

(* What is kept are the latest answers, in order and as many as the cache  *)
(* holds, and nothing is sent that was not answered, though answers, the   *)
(* return of the backend and a synchronisation come in between.            *)
LatestKept ==
  /\ kept = [i \in DOMAIN kept |-> answers - Len(kept) + i]
  /\ Len(kept) = (IF answers < CacheSize THEN answers ELSE CacheSize)
  /\ ToSet(pending) \cup ToSet(syncing) \cup sent \subseteq 1..answers

(* A backend that stays up is noticed: the edge goes online and stays so.  *)
BackOnline == <>[]up => <>[](~offline /\ connected)
=============================================================================
