----------------------------- MODULE LLMRouter -----------------------------
(***************************************************************************)
(* llm/router.go: a request goes to the backends its sovereignty mode      *)
(* admits, one after the other, until one answers; a stream is read from   *)
(* the backend by a goroutine and handed to the reader over a channel.     *)
(***************************************************************************)
EXTENDS Naturals, Sequences

CONSTANTS
  Requests, Modes,
  Backends,          \* a sequence
  Sovereignty,       \* backend: the modes it admits
  HasKey,            \* backend: it needs no key, or the key is set
  Tokens,            \* tokens of a stream
  ChanCap

VARIABLES
  request,           \* request: where it is, its mode, and the backends left to try, as
                     \* places in Backends
  called,            \* request: the backends called, in order, and whether each answered
  stream             \* request: tokens produced, in the channel and read; "open"ness

vars == <<request, called, stream>>

NoStream == [state |-> "none", produced |-> 0, buffered |-> 0, read |-> 0]

Init ==
  /\ request = [r \in Requests |-> [at |-> "idle", mode |-> "", streamed |-> FALSE, left |-> {}]]
  /\ called = [r \in Requests |-> <<>>]
  /\ stream = [r \in Requests |-> NoStream]

(* Variant: a backend without a list admits every mode of the others. *)
FilterByAnyone(mode) ==
  {i \in DOMAIN Backends : \E j \in DOMAIN Backends : mode \in Sovereignty[Backends[j]]}

(* The order of the list stays. *)
FilterBySovereignty(mode) == {i \in DOMAIN Backends : mode \in Sovereignty[Backends[i]]}

Foremost(left) == {i \in left : \A j \in left : i <= j}

(* Chat and ChatStream; an empty mode counts as airlock. *)
Begin(r, mode, streamed) ==
  /\ request[r].at = "idle"
  /\ request' = [request EXCEPT ![r] = [at |-> "try", mode |-> mode, streamed |-> streamed,
                   left |-> FilterBySovereignty(IF mode = "" THEN "airlock" ELSE mode)]]
  /\ UNCHANGED <<called, stream>>

SkipBackend(r) ==
  /\ request[r].at = "try"
  /\ \E i \in Foremost(request[r].left) :
       /\ ~HasKey[Backends[i]]
       /\ request' = [request EXCEPT ![r].left = @ \ {i}]
  /\ UNCHANGED <<called, stream>>

CallBackend(r, ok) ==
  /\ request[r].at = "try"
  /\ \E i \in Foremost(request[r].left) :
       /\ HasKey[Backends[i]]
       /\ called' = [called EXCEPT ![r] = Append(@, [backend |-> i, ok |-> ok])]
       /\ request' = [request EXCEPT ![r].left = @ \ {i},
                        ![r].at = IF ~ok THEN @ ELSE IF request[r].streamed THEN "read" ELSE "answered"]
  /\ stream' = IF ok /\ request[r].streamed THEN [stream EXCEPT ![r].state = "open"] ELSE stream

(* No backend is left: an error, or a stream with a message of its own. *)
Exhausted(r) ==
  /\ request[r].at = "try" /\ request[r].left = {}
  /\ request' = [request EXCEPT ![r].at = IF request[r].streamed THEN "read" ELSE "failed"]
  /\ stream' = IF request[r].streamed
               THEN [stream EXCEPT ![r] = [NoStream EXCEPT !.state = "closed", !.produced = 1, !.buffered = 1]]
               ELSE stream
  /\ UNCHANGED called

-----------------------------------------------------------------------------
(* The goroutine of a stream and its reader *)

Produce(r) ==
  /\ stream[r].state = "open" /\ stream[r].produced < Tokens /\ stream[r].buffered < ChanCap
  /\ stream' = [stream EXCEPT ![r].produced = @ + 1, ![r].buffered = @ + 1]
  /\ UNCHANGED <<request, called>>

(* Variant: the channel is closed at the end mark alone. *)
ProducerEndsOnMark(r) ==
  /\ stream[r].state = "open" /\ stream[r].produced = Tokens
  /\ \E marked \in BOOLEAN : stream' = [stream EXCEPT ![r].state = IF marked THEN "closed" ELSE "broken"]
  /\ UNCHANGED <<request, called>>

(* At the end mark; at the end of a body that breaks off, or a line too    *)
(* long, at any token: the reader cannot tell.                             *)
ProducerEnds(r) ==
  /\ stream[r].state = "open"
  /\ stream' = [stream EXCEPT ![r].state = "closed"]
  /\ UNCHANGED <<request, called>>

ReadToken(r) ==
  /\ request[r].at = "read"
  /\ IF stream[r].buffered > 0
     THEN stream' = [stream EXCEPT ![r].buffered = @ - 1, ![r].read = @ + 1] /\ UNCHANGED request
     ELSE /\ stream[r].state = "closed"
          /\ request' = [request EXCEPT ![r].at = "answered"]
          /\ UNCHANGED stream
  /\ UNCHANGED called

(* The reader goes away: nobody tells the goroutine. *)
ReaderLeaves(r) ==
  /\ request[r].at = "read"
  /\ request' = [request EXCEPT ![r].at = "gone"]
  /\ UNCHANGED <<called, stream>>

ProducerStep(r) == Produce(r) \/ (stream[r].produced = Tokens /\ ProducerEnds(r))

Next ==
  \E r \in Requests :
    \/ \E mode \in Modes \cup {""}, streamed \in BOOLEAN : Begin(r, mode, streamed)
    \/ SkipBackend(r) \/ (\E ok \in BOOLEAN : CallBackend(r, ok)) \/ Exhausted(r)
    \/ Produce(r) \/ ProducerEnds(r) \/ ReadToken(r) \/ ReaderLeaves(r)

(* A body ends, the goroutine runs and a reader who stays reads on. *)
Spec ==
  /\ Init /\ [][Next]_vars
  /\ \A r \in Requests : WF_vars(ProducerStep(r)) /\ WF_vars(ReadToken(r))

-----------------------------------------------------------------------------
(* Properties *)

(* Only backends that admit the mode of a request are called for it, each  *)
(* once and in the order of the list; and one that answered is the last.   *)
BackendsInOrder ==
  \A r \in Requests :
    LET mode == IF request[r].mode = "" THEN "airlock" ELSE request[r].mode
        place(i) == called[r][i].backend
    IN  /\ \A i \in DOMAIN called[r] :
             /\ mode \in Sovereignty[Backends[place(i)]] /\ HasKey[Backends[place(i)]]
             /\ \A j \in DOMAIN called[r] : i < j => place(i) < place(j) /\ ~called[r][i].ok
        /\ stream[r].produced = stream[r].buffered + stream[r].read

(* A reader who stays comes to the end of its stream, though the           *)
(* goroutine, the channel and the body are another's.                      *)
StreamEnds ==
  \A r \in Requests : request[r].at = "read" ~> request[r].at \in {"answered", "gone"}
=============================================================================
