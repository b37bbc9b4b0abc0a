------------------------------ MODULE AuditLog ------------------------------
(***************************************************************************)
(* What the audit ledger promises to the code that records into it,        *)
(* without files, goroutines or channels.  Entries are numbered in the     *)
(* order the ledger accepts them.  An accepted entry is pending until it   *)
(* is stored or given up; entries are stored in the order they were        *)
(* accepted, each at most once, and nothing is accepted between Shut and   *)
(* Restart.  The ledger does not promise more than the code gives: it may  *)
(* give an entry up (Lose, Restart), and when it settles one it may keep   *)
(* only the oldest part of the log, the last line of it damaged (Shorten). *)
(***************************************************************************)
EXTENDS Naturals, Sequences

CONSTANT MaxPending   \* pending entries the ledger can hold

VARIABLES
  accepted,   \* number of entries accepted so far
  pending,    \* accepted entries that are neither stored nor given up
  log,        \* stored entries, oldest first
  open        \* whether entries are being accepted

vars == <<accepted, pending, log, open>>

Init ==
  /\ accepted = 0
  /\ pending = <<>>
  /\ log = <<>>
  /\ open = TRUE

Accept ==
  /\ open
  /\ Len(pending) < MaxPending
  /\ accepted' = accepted + 1
  /\ pending' = Append(pending, accepted + 1)
  /\ UNCHANGED <<log, open>>

Settle(newLog) ==
  /\ pending # <<>>
  /\ pending' = Tail(pending)
  /\ log' = newLog
  /\ UNCHANGED <<accepted, open>>

Store == Settle(Append(log, Head(pending)))
Lose == Settle(log)

Damaged == 0

Shorten ==
  \E n \in 0..Len(log) :
    \/ Settle(SubSeq(log, 1, n))
    \/ Settle(Append(SubSeq(log, 1, n), Head(pending)))
    \/ n < Len(log) /\ Settle(Append(SubSeq(log, 1, n), Damaged))

Shut ==
  /\ open' = FALSE
  /\ UNCHANGED <<accepted, pending, log>>

Restart ==
  /\ pending' = <<>>
  /\ open' \in BOOLEAN
  /\ UNCHANGED <<accepted, log>>

Next == Accept \/ Store \/ Lose \/ Shorten \/ Shut \/ Restart

SafeSpec == Init /\ [][Next]_vars

(* Every pending entry is settled: the ledger is never stuck on one. *)
Spec == SafeSpec /\ WF_vars(Store \/ Lose \/ Shorten)
=============================================================================
