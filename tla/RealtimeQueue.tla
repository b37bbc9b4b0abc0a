--------------------------- MODULE RealtimeQueue ---------------------------
(***************************************************************************)
(* butler/queue.go: two lists under a mutex and a channel of tokens, one   *)
(* for every item the queue has room for.  Enqueue takes its token before  *)
(* it locks; Dequeue gives one back after it has unlocked, with a send     *)
(* that blocks while the channel is full.                                  *)
(***************************************************************************)
EXTENDS Naturals, Sequences, FiniteSets

CONSTANTS Callers, QueueCap

ASSUME QueueAssumption == QueueCap \in Nat /\ IsFiniteSet(Callers)

VARIABLES
  avail,       \* tokens in the channel
  prio, norm,  \* number of items in each list
  at           \* caller: "idle", "append" (has taken a token) or "return" (owes one)

vars == <<avail, prio, norm, at>>

Init == avail = QueueCap /\ prio = 0 /\ norm = 0 /\ at = [c \in Callers |-> "idle"]

(* Enqueue: refused when no token is left. *)
TakeToken(c) ==
  /\ at[c] = "idle" /\ avail > 0
  /\ avail' = avail - 1
  /\ at' = [at EXCEPT ![c] = "append"]
  /\ UNCHANGED <<prio, norm>>

AppendItem(c, priority) ==
  /\ at[c] = "append"
  /\ at' = [at EXCEPT ![c] = "idle"]
  /\ prio' = IF priority THEN prio + 1 ELSE prio
  /\ norm' = IF priority THEN norm ELSE norm + 1
  /\ UNCHANGED avail

(* Variant: a token is given back for nothing as well. *)
RemoveOrNothing(c) ==
  /\ at[c] = "idle"
  /\ prio' = IF prio > 0 THEN prio - 1 ELSE prio
  /\ norm' = IF prio = 0 /\ norm > 0 THEN norm - 1 ELSE norm
  /\ at' = [at EXCEPT ![c] = "return"]
  /\ UNCHANGED avail

(* Dequeue: an item of norm only when prio is empty; an empty queue        *)
(* returns nothing.                                                        *)
Remove(c) ==
  /\ at[c] = "idle" /\ prio + norm > 0
  /\ prio' = IF prio > 0 THEN prio - 1 ELSE prio
  /\ norm' = IF prio > 0 THEN norm ELSE norm - 1
  /\ at' = [at EXCEPT ![c] = "return"]
  /\ UNCHANGED avail

ReturnToken(c) ==
  /\ at[c] = "return" /\ avail < QueueCap
  /\ avail' = avail + 1
  /\ at' = [at EXCEPT ![c] = "idle"]
  /\ UNCHANGED <<prio, norm>>

Next ==
  \E c \in Callers :
    \/ TakeToken(c) \/ (\E priority \in BOOLEAN : AppendItem(c, priority))
    \/ Remove(c) \/ ReturnToken(c)

Spec == Init /\ [][Next]_vars

-----------------------------------------------------------------------------
(* Properties *)

TypeOK ==
  /\ avail \in Nat /\ prio \in Nat /\ norm \in Nat
  /\ at \in [Callers -> {"idle", "append", "return"}]

Holding == {c \in Callers : at[c] # "idle"}

(* Every token is in the channel, stands for an item, or is in the hands   *)
(* of one caller.                                                          *)
TokensAccounted == avail + prio + norm + Cardinality(Holding) = QueueCap

(* Dequeue never blocks on the token it gives back, and the queue holds no *)
(* more than its capacity, however many callers are in the middle of a     *)
(* call.                                                                   *)
DequeueNeverBlocks ==
  /\ \A c \in Callers : at[c] = "return" => avail < QueueCap
  /\ prio + norm <= QueueCap
=============================================================================
