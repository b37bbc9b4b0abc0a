----------------------------- MODULE SSEStream -----------------------------
(***************************************************************************)
(* butler/sse.go: a stream of events with the goroutine of its heartbeat,  *)
(* goroutines that send, and an owner that stops it when it is done; the   *)
(* context of the request may end at any time.                             *)
(***************************************************************************)
EXTENDS Naturals, Sequences

CONSTANTS
  Senders, Limit,
  MaxEvents           \* bound on the sends and on the heartbeats

VARIABLES
  done,               \* the done channel is closed
  cancelled,          \* the context of the request
  closed,             \* SSEWriter.closed
  wire,               \* the ids written to the connection
  backlog,            \* length of SSEStream.queue
  lastID,
  stopper,            \* the heartbeat's goroutine and the owner: "run", "stop",
                      \* "close", "writer" or "left"
  sender,             \* goroutine: the id WriteEvent gave it, 0 for none
  panicked,           \* done was closed twice
  sends, beats

vars == <<done, cancelled, closed, wire, backlog, lastID, stopper, sender, panicked, sends, beats>>

Init ==
  /\ done = FALSE /\ cancelled = FALSE /\ closed = FALSE /\ panicked = FALSE
  /\ wire = <<>> /\ backlog = 0 /\ lastID = 0
  /\ stopper = [p \in {"beat", "owner"} |-> "run"]
  /\ sender = [s \in Senders |-> [at |-> "idle", id |-> 0]]
  /\ sends = 0 /\ beats = 0

NextId == Len(wire) + 1

(* Variant: a writer that was closed is written to. *)
WriteToClosed == wire' = Append(wire, [id |-> NextId, late |-> closed])

(* WriteEvent, under the lock of the writer. *)
WriteEvent == wire' = IF closed THEN wire ELSE Append(wire, [id |-> NextId, late |-> closed])

(* Send: the backlog loses its oldest; then the event is written, and its  *)
(* id noted under the lock of the stream, 0 when the writer was closed.    *)
SendWrites(s) ==
  /\ ~panicked /\ sender[s].at = "idle" /\ sends < MaxEvents
  /\ sends' = sends + 1
  /\ backlog' = IF backlog >= Limit THEN backlog ELSE backlog + 1
  /\ WriteEvent
  /\ sender' = [sender EXCEPT ![s] = [at |-> "note", id |-> IF closed THEN 0 ELSE NextId]]
  /\ UNCHANGED <<done, cancelled, closed, lastID, stopper, panicked, beats>>

SendNotes(s) ==
  /\ ~panicked /\ sender[s].at = "note"
  /\ lastID' = sender[s].id
  /\ sender' = [sender EXCEPT ![s] = [at |-> "idle", id |-> 0]]
  /\ UNCHANGED <<done, cancelled, closed, wire, backlog, stopper, panicked, sends, beats>>

Heartbeat ==
  /\ ~panicked /\ stopper["beat"] = "run" /\ beats < MaxEvents
  /\ beats' = beats + 1
  /\ WriteEvent
  /\ UNCHANGED <<done, cancelled, closed, backlog, lastID, stopper, sender, panicked, sends>>

Leave(p, at) ==
  /\ stopper' = [stopper EXCEPT ![p] = at]
  /\ UNCHANGED <<done, cancelled, closed, wire, backlog, lastID, sender, panicked, sends, beats>>

(* Variant: the loop does not notice that its context has ended. *)
HeartbeatEndsOnDone == ~panicked /\ stopper["beat"] = "run" /\ done /\ Leave("beat", "left")

HeartbeatEnds ==
  /\ ~panicked /\ stopper["beat"] = "run"
  /\ (done /\ Leave("beat", "left")) \/ (cancelled /\ Leave("beat", "stop"))

OwnerStops == ~panicked /\ stopper["owner"] = "run" /\ Leave("owner", "stop")

Cancel ==
  /\ ~panicked /\ ~cancelled
  /\ cancelled' = TRUE
  /\ UNCHANGED <<done, closed, wire, backlog, lastID, stopper, sender, panicked, sends, beats>>

(* Stop tests done, closes it and closes the writer, without a lock around *)
(* them; who closes done a second time panics, and the process ends.       *)
Stop(p) ==
  /\ ~panicked
  /\ \/ /\ stopper[p] = "stop"
        /\ stopper' = [stopper EXCEPT ![p] = IF done THEN "writer" ELSE "close"]
        /\ UNCHANGED <<done, closed, panicked>>
     \/ /\ stopper[p] = "close"
        /\ stopper' = [stopper EXCEPT ![p] = "writer"]
        /\ done' = TRUE /\ panicked' = done
        /\ UNCHANGED closed
     \/ /\ stopper[p] = "writer"
        /\ stopper' = [stopper EXCEPT ![p] = "left"]
        /\ closed' = TRUE
        /\ UNCHANGED <<done, panicked>>
  /\ UNCHANGED <<cancelled, wire, backlog, lastID, sender, sends, beats>>

Next ==
  \/ \E s \in Senders : SendWrites(s) \/ SendNotes(s)
  \/ Heartbeat \/ HeartbeatEnds \/ Cancel \/ OwnerStops
  \/ \E p \in {"beat", "owner"} : Stop(p)

(* The goroutine of the heartbeat is scheduled. *)
Spec == Init /\ [][Next]_vars /\ WF_vars(HeartbeatEnds) /\ WF_vars(Stop("beat"))

-----------------------------------------------------------------------------
(* Properties *)

(* The ids count the events of a client without a gap, and nothing is      *)
(* written once a stop has returned, whoever else sends or stops.          *)
EventsCounted ==
  /\ \A i \in DOMAIN wire : wire[i].id = i /\ ~wire[i].late
  /\ stopper["owner"] = "left" => closed

(* The heartbeat's goroutine leaves once the request's context has ended.  *)
HeartbeatLeaves == cancelled ~> (stopper["beat"] = "left" \/ panicked)
=============================================================================
