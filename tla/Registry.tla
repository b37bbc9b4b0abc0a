------------------------------ MODULE Registry ------------------------------
(***************************************************************************)
(* architect/registry.go: the metadata of the skills, which Register,      *)
(* Unregister and SyncFromGlobal change, and the loop of StartHealthCheck, *)
(* which lists the skills, asks each for its health without the lock and   *)
(* records the answer under the id.                                        *)
(***************************************************************************)
EXTENDS Naturals

CONSTANTS
  SkillIds,
  Global,             \* the ids of skills.Registry
  DegradedFailCount,
  MaxChecks, MaxRegistrations

VARIABLES
  meta,               \* id: its metadata, if registered
  loop,               \* the ids the loop has still to check, and the answer it holds
  failures,           \* id: failed checks in a row of this registration
  checks, registrations

vars == <<meta, loop, failures, checks, registrations>>

Unregistered == [registered |-> FALSE, healthy |-> FALSE, fails |-> 0, checked |-> FALSE]
Fresh == [Unregistered EXCEPT !.registered = TRUE, !.healthy = TRUE]
NoAnswer == [held |-> FALSE, healthy |-> FALSE, stale |-> FALSE]

Init ==
  /\ meta = [k \in SkillIds |-> Unregistered]
  /\ loop = [ids |-> {}, answer |-> [k \in SkillIds |-> NoAnswer]]
  /\ failures = [k \in SkillIds |-> 0]
  /\ checks = 0 /\ registrations = 0

(* Answers taken before a registration are not answers about it. *)
Renewed(ids) ==
  /\ failures' = [k \in SkillIds |-> IF k \in ids THEN 0 ELSE failures[k]]
  /\ loop' = [loop EXCEPT !.answer = [k \in SkillIds |-> IF k \in ids
                                        THEN [loop.answer[k] EXCEPT !.stale = TRUE] ELSE loop.answer[k]]]

Register(k) ==
  /\ registrations < MaxRegistrations
  /\ registrations' = registrations + 1
  /\ meta' = [meta EXCEPT ![k] = Fresh]
  /\ Renewed({k})
  /\ UNCHANGED checks

Unregister(k) ==
  /\ meta' = [meta EXCEPT ![k] = Unregistered]
  /\ UNCHANGED <<loop, failures, checks, registrations>>

(* A skill that was checked keeps what is known of it. *)
SyncFromGlobal ==
  /\ registrations < MaxRegistrations
  /\ registrations' = registrations + 1
  /\ meta' = [k \in SkillIds |-> IF k \notin Global THEN meta[k]
                ELSE [meta[k] EXCEPT !.registered = TRUE, !.healthy = @ \/ ~meta[k].checked]]
  /\ Renewed({k \in Global : ~meta[k].registered})
  /\ UNCHANGED checks

StartHealthCheck ==
  /\ loop.ids = {} /\ \A k \in SkillIds : ~loop.answer[k].held
  /\ loop' = [loop EXCEPT !.ids = {k \in SkillIds : meta[k].registered}]
  /\ UNCHANGED <<meta, failures, checks, registrations>>

(* checkFn; the list may name a skill that is gone by now. *)
CheckFn(k, healthy) ==
  /\ k \in loop.ids /\ checks < MaxChecks
  /\ \A j \in SkillIds : ~loop.answer[j].held
  /\ checks' = checks + 1
  /\ loop' = [ids |-> loop.ids \ {k},
              answer |-> [loop.answer EXCEPT ![k] = [held |-> TRUE, healthy |-> healthy, stale |-> ~meta[k].registered]]]
  /\ UNCHANGED <<meta, failures, registrations>>

(* Variant: the count is not reset by a good answer. *)
CheckedUnforgiving(m, healthy) ==
  IF healthy THEN [m EXCEPT !.checked = TRUE, !.healthy = m.fails < DegradedFailCount]
  ELSE [m EXCEPT !.checked = TRUE, !.fails = @ + 1, !.healthy = @ /\ m.fails + 1 < DegradedFailCount]

Checked(m, healthy) ==
  IF healthy THEN [m EXCEPT !.checked = TRUE, !.fails = 0, !.healthy = TRUE]
  ELSE [m EXCEPT !.checked = TRUE, !.fails = @ + 1, !.healthy = @ /\ m.fails + 1 < DegradedFailCount]

HealthCheck(k) ==
  /\ loop.answer[k].held
  /\ loop' = [loop EXCEPT !.answer[k] = NoAnswer]
  /\ meta' = IF meta[k].registered
             THEN [meta EXCEPT ![k] = Checked(meta[k], loop.answer[k].healthy)] ELSE meta
  /\ failures' = IF ~meta[k].registered \/ loop.answer[k].stale THEN failures
                 ELSE [failures EXCEPT ![k] = IF loop.answer[k].healthy THEN 0 ELSE @ + 1]
  /\ UNCHANGED <<checks, registrations>>

Next ==
  \/ \E k \in SkillIds :
       Register(k) \/ Unregister(k) \/ (\E healthy \in BOOLEAN : CheckFn(k, healthy)) \/ HealthCheck(k)
  \/ SyncFromGlobal \/ StartHealthCheck

Spec == Init /\ [][Next]_vars

(* A skill is taken for unhealthy exactly when three failures in a row are *)
(* on its record, and at most one of those is about an earlier             *)
(* registration, whatever is registered while its health is asked for.     *)
FailuresItsOwn ==
  \A k \in SkillIds : meta[k].registered =>
    /\ meta[k].healthy <=> meta[k].fails < DegradedFailCount
    /\ meta[k].fails <= failures[k] + 1
=============================================================================
