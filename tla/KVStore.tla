------------------------------- MODULE KVStore -------------------------------
(***************************************************************************)
(* KVStore (viking/store.go): values with a level and a time to live.  An  *)
(* expired item goes when Get meets it or when the loop that runs every    *)
(* minute, or the GC, calls Expire.  Every operation holds the mutex and   *)
(* reads the clock under it.                                               *)
(***************************************************************************)
EXTENDS Naturals, FiniteSets

CONSTANTS Keys, Values, Levels, TTLs, None, MaxTime, MaxSets

VARIABLES
  clock,
  items,      \* key: item or None
  last,       \* key: the item that was Set last, or None after Delete
  got, listed, \* what a Get and a List at this moment return
  sets

vars == <<clock, items, last, got, listed, sets>>

NoExpiry == 0
Expired(item) == item.expiresAt # NoExpiry /\ clock > item.expiresAt

Init ==
  /\ clock = 1
  /\ items = [k \in Keys |-> None] /\ last = [k \in Keys |-> None]
  /\ got = None /\ listed = {}
  /\ sets = 0

Quiet == got' = None /\ listed' = {}

Set(k, v, level, ttl) ==
  /\ sets < MaxSets
  /\ sets' = sets + 1
  /\ LET item == [value |-> v, level |-> level,
                  expiresAt |-> IF ttl > 0 THEN clock + ttl ELSE NoExpiry]
     IN  items' = [items EXCEPT ![k] = item] /\ last' = [last EXCEPT ![k] = item]
  /\ Quiet
  /\ UNCHANGED clock

(* An expired item is deleted; one below minLevel is not shown. *)
Get(k, minLevel) ==
  LET item == items[k]
      gone == item # None /\ Expired(item)
      seen == item # None /\ ~gone /\ ~(minLevel > 0 /\ item.level < minLevel)
  IN  /\ items' = IF gone THEN [items EXCEPT ![k] = None] ELSE items
      /\ got' = [key |-> k, minLevel |-> minLevel, value |-> IF seen THEN item.value ELSE None]
      /\ listed' = {}
      /\ UNCHANGED <<clock, last, sets>>

Delete(k) ==
  /\ items' = [items EXCEPT ![k] = None]
  /\ last' = [last EXCEPT ![k] = None]
  /\ Quiet
  /\ UNCHANGED <<clock, sets>>

List ==
  /\ listed' = {k \in Keys : items[k] # None /\ ~Expired(items[k])}
  /\ got' = None
  /\ UNCHANGED <<clock, items, last, sets>>

(* Variant: the times are compared without regard to items that have none. *)
ExpireZero ==
  /\ items' = [k \in Keys |-> IF items[k] # None /\ clock > items[k].expiresAt THEN None ELSE items[k]]
  /\ Quiet
  /\ UNCHANGED <<clock, last, sets>>

Expire ==
  /\ items' = [k \in Keys |-> IF items[k] # None /\ Expired(items[k]) THEN None ELSE items[k]]
  /\ Quiet
  /\ UNCHANGED <<clock, last, sets>>

Tick == clock < MaxTime /\ clock' = clock + 1 /\ Quiet /\ UNCHANGED <<items, last, sets>>

Next ==
  \/ \E k \in Keys : \/ \E v \in Values, l \in Levels, t \in TTLs : Set(k, v, l, t)
                     \/ \E l \in Levels : Get(k, l)
                     \/ Delete(k)
  \/ List \/ Expire \/ Tick

Spec == Init /\ [][Next]_vars

(* When items are collected makes no difference: Get returns, and List     *)
(* names, what was Set last and has neither expired nor been deleted.      *)
LastValueSeen ==
  LET live(k) == last[k] # None /\ ~Expired(last[k])
  IN  /\ listed \in {{}, {k \in Keys : live(k)}}
      /\ got # None =>
           LET k == got.key
           IN  got.value = IF live(k) /\ (got.minLevel > 0 => last[k].level >= got.minLevel)
                           THEN last[k].value ELSE None
=============================================================================
