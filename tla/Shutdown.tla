------------------------------ MODULE Shutdown ------------------------------
(***************************************************************************)
(* The end of the process (cmd/harmonclaw/main.go): the goroutine that     *)
(* waits for SIGINT or SIGTERM, and main itself, which returns when the    *)
(* server no longer listens.  Both close the ledger (viking/ledger.go) and *)
(* both end the process.  The ledger is a number of entries its drain has  *)
(* still to write; how it writes them is the module Ledger.                *)
(***************************************************************************)
EXTENDS Naturals, FiniteSets

CONSTANTS
  Connections,      \* requests that can be in progress
  ChannelSize,      \* entries the ledger's channel holds
  MaxAccepted       \* bound on the requests

VARIABLES
  server,      \* "unset" (httpServer is nil), "set", "listening", "closed"
  main,        \* "boot", "serve", "close", "wait", "return"
  signal,      \* "none", "shutdown", "snapshot", "record", "close", "wait", "exit"
  running,     \* requests whose handler has not returned
  accepted, timedOut,
  closer,      \* who closed the ledger first: "none", "main" or "signal"
  pending, draining,
  exit         \* who ended the process: "no", "main", "signal", "fatal"

serverVars == <<server, running, accepted, timedOut>>
ledgerVars == <<closer, pending, draining>>
vars == <<serverVars, ledgerVars, main, signal, exit>>

Init ==
  /\ server = "unset" /\ main = "boot" /\ signal = "none"
  /\ running = {} /\ accepted = 0 /\ timedOut = FALSE
  /\ closer = "none" /\ pending = 0 /\ draining = TRUE
  /\ exit = "no"

Alive == exit = "no"

(* Ledger.Record: dropped when the ledger is closed or its channel full. *)
Record == pending' = IF closer = "none" /\ pending < ChannelSize THEN pending + 1 ELSE pending

-----------------------------------------------------------------------------
(* Requests and the drain *)

Accept(r) ==
  /\ Alive /\ server = "listening" /\ accepted < MaxAccepted
  /\ r \notin running
  /\ running' = running \cup {r}
  /\ accepted' = accepted + 1
  /\ UNCHANGED <<server, timedOut, ledgerVars, main, signal, exit>>

Finish(r) ==
  /\ Alive /\ r \in running
  /\ running' = running \ {r}
  /\ Record
  /\ UNCHANGED <<server, accepted, timedOut, closer, draining, main, signal, exit>>

(* Variant: the drain does not notice that the channel is closed. *)
DrainUnending ==
  /\ Alive /\ draining
  /\ pending > 0
  /\ pending' = pending - 1
  /\ UNCHANGED <<serverVars, closer, draining, main, signal, exit>>

Drain ==
  /\ Alive /\ draining
  /\ pending > 0 \/ closer # "none"
  /\ pending' = IF pending > 0 THEN pending - 1 ELSE 0
  /\ draining' = (pending > 0)
  /\ UNCHANGED <<serverVars, closer, main, signal, exit>>

-----------------------------------------------------------------------------
(* main: ListenAndServeTLS sets httpServer and listens; the call returns   *)
(* when it cannot listen (log.Fatal runs no deferred call) and, with       *)
(* ErrServerClosed, as soon as Shutdown begins; then the deferred Close.   *)

NewServer ==
  /\ Alive /\ main = "boot"
  /\ server' = "set" /\ main' = "serve"
  /\ UNCHANGED <<running, accepted, timedOut, ledgerVars, signal, exit>>

Listen ==
  /\ Alive /\ main = "serve" /\ server = "set"
  /\ server' = "listening"
  /\ UNCHANGED <<running, accepted, timedOut, ledgerVars, main, signal, exit>>

ListenFails ==
  /\ Alive /\ main = "serve" /\ server = "set"
  /\ exit' = "fatal"
  /\ UNCHANGED <<serverVars, ledgerVars, main, signal>>

ServerClosed ==
  /\ Alive /\ main = "serve" /\ server = "closed"
  /\ main' = "close"
  /\ UNCHANGED <<serverVars, ledgerVars, signal, exit>>

(* Variant: Close does not wait for the drain. *)
CloseUnwaited(who) ==
  /\ closer' = IF closer = "none" THEN who ELSE closer
  /\ IF who = "main" THEN main' = "return" /\ UNCHANGED signal
                     ELSE signal' = "exit" /\ UNCHANGED main

(* Ledger.Close: the first call waits for the drain, any other returns. *)
Close(who) ==
  /\ closer' = IF closer = "none" THEN who ELSE closer
  /\ LET next(atOnce) == IF closer = "none" THEN "wait" ELSE atOnce
     IN  IF who = "main" THEN main' = next("return") /\ UNCHANGED signal
                         ELSE signal' = next("exit") /\ UNCHANGED main

MainClose ==
  /\ Alive /\ main = "close"
  /\ Close("main")
  /\ UNCHANGED <<serverVars, pending, draining, exit>>

MainDrained ==
  /\ Alive /\ main = "wait" /\ ~draining
  /\ main' = "return"
  /\ UNCHANGED <<serverVars, ledgerVars, signal, exit>>

Return ==
  /\ Alive /\ main = "return"
  /\ exit' = "main"
  /\ UNCHANGED <<serverVars, ledgerVars, main, signal>>

-----------------------------------------------------------------------------
(* The goroutine of the signal *)

(* srv.Shutdown begins: it closes the listeners; without an httpServer it  *)
(* returns at once.                                                        *)
Signal ==
  /\ Alive /\ signal = "none"
  /\ \/ server = "unset" /\ signal' = "snapshot" /\ UNCHANGED server
     \/ server # "unset" /\ signal' = "shutdown" /\ server' = "closed"
  /\ UNCHANGED <<running, accepted, timedOut, ledgerVars, main, exit>>

(* It ends when no request is in progress, or after 30 s. *)
ShutdownEnds ==
  /\ Alive /\ signal = "shutdown"
  /\ signal' = "snapshot"
  /\ timedOut' = (running # {})
  /\ UNCHANGED <<server, running, accepted, ledgerVars, main, exit>>

(* Crons.Stop and Snapshot, which touch neither the ledger nor main. *)
Snapshot ==
  /\ Alive /\ signal = "snapshot"
  /\ signal' = "record"
  /\ UNCHANGED <<serverVars, ledgerVars, main, exit>>

RecordShutdown ==
  /\ Alive /\ signal = "record"
  /\ Record
  /\ signal' = "close"
  /\ UNCHANGED <<serverVars, closer, draining, main, exit>>

SignalClose ==
  /\ Alive /\ signal = "close"
  /\ Close("signal")
  /\ UNCHANGED <<serverVars, pending, draining, exit>>

SignalDrained ==
  /\ Alive /\ signal = "wait" /\ ~draining
  /\ signal' = "exit"
  /\ UNCHANGED <<serverVars, ledgerVars, main, exit>>

Exit ==
  /\ Alive /\ signal = "exit"
  /\ exit' = "signal"
  /\ UNCHANGED <<serverVars, ledgerVars, main, signal>>

-----------------------------------------------------------------------------
MainStep == NewServer \/ ServerClosed \/ MainClose \/ MainDrained \/ Return
SignalStep == ShutdownEnds \/ Snapshot \/ RecordShutdown \/ SignalClose \/ SignalDrained \/ Exit

Next ==
  \/ \E r \in Connections : Accept(r) \/ Finish(r)
  \/ Drain \/ MainStep \/ Listen \/ ListenFails \/ Signal \/ SignalStep

Spec == Init /\ [][Next]_vars

TypeOK ==
  /\ server \in {"unset", "set", "listening", "closed"}
  /\ main \in {"boot", "serve", "close", "wait", "return"}
  /\ signal \in {"none", "shutdown", "snapshot", "record", "close", "wait", "exit"}
  /\ running \subseteq Connections /\ accepted \in 0..MaxAccepted /\ timedOut \in BOOLEAN
  /\ closer \in {"none", "main", "signal"} /\ pending \in 0..ChannelSize /\ draining \in BOOLEAN
  /\ exit \in {"no", "main", "signal", "fatal"}

(* Whoever closes the ledger first ends the process only when everything   *)
(* the ledger accepted is written.  (The other, whose Close returns at     *)
(* once, may end it meanwhile, and so may a server that cannot listen.)    *)
FirstCloserFlushes == exit = closer => pending = 0

(* After a signal the process ends, also when a request never does and     *)
(* when the signal comes before there is a server: neither Close waits for *)
(* something that the other has ended.                                     *)
SignalEndsProcess == signal # "none" ~> exit # "no"

(* .cursorrules:280-291 and the name of srv.Shutdown: after a signal, the  *)
(* requests in progress complete, or have had 30 s to complete, before the *)
(* process ends.                                                           *)
DrainedBeforeExit == exit \in {"main", "signal"} => running = {} \/ timedOut
=============================================================================
