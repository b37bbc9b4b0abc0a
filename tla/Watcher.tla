------------------------------ MODULE Watcher ------------------------------
(***************************************************************************)
(* configs/watcher.go: every poll looks through the files, one after the   *)
(* other and while others write them, and stops at the first whose time of *)
(* modification is not the one noted; one event tells of it.  The bus may  *)
(* drop the event.                                                         *)
(***************************************************************************)
EXTENDS Naturals

CONSTANTS Files, MaxWrites

VARIABLES
  modTime,       \* file: its time of modification, 0 if there is none
  noted,         \* file: the time the watcher has noted
  unseen,        \* files the poll in progress has still to look at
  watcher,       \* "seed", "wait", "poll" or "stopped"
  told,          \* file: the time of modification when the latest event was published
  writes

vars == <<modTime, noted, unseen, watcher, told, writes>>

Init ==
  /\ modTime \in [Files -> {0, 1}]
  /\ noted = [f \in Files |-> 0] /\ told = modTime
  /\ unseen = {} /\ watcher = "seed" /\ writes = 1

Write(f) ==
  /\ writes <= MaxWrites
  /\ writes' = writes + 1
  /\ modTime' = [modTime EXCEPT ![f] = writes']
  /\ UNCHANGED <<noted, unseen, watcher, told>>

Seed ==
  /\ watcher = "seed"
  /\ watcher' = "wait"
  /\ noted' = modTime
  /\ told' = modTime      \* nobody is told of what was written before
  /\ UNCHANGED <<modTime, unseen, writes>>

Poll ==
  /\ watcher = "wait"
  /\ watcher' = "poll" /\ unseen' = Files
  /\ UNCHANGED <<modTime, noted, told, writes>>

(* Variant: a change is noted for all files at once. *)
LookNotingAll(f) ==
  /\ watcher = "poll" /\ f \in unseen
  /\ IF modTime[f] # noted[f]
     THEN noted' = modTime /\ told' = [told EXCEPT ![f] = modTime[f]] /\ watcher' = "wait" /\ unseen' = {}
     ELSE unseen' = unseen \ {f} /\ UNCHANGED <<noted, told, watcher>>
  /\ UNCHANGED <<modTime, writes>>

Look(f) ==
  /\ watcher = "poll" /\ f \in unseen
  /\ IF modTime[f] # noted[f]
     THEN /\ noted' = [noted EXCEPT ![f] = modTime[f]]
          /\ told' = [told EXCEPT ![f] = modTime[f]]
          /\ watcher' = "wait" /\ unseen' = {}
     ELSE unseen' = unseen \ {f} /\ UNCHANGED <<noted, told, watcher>>
  /\ UNCHANGED <<modTime, writes>>

PollEnds ==
  /\ watcher = "poll" /\ unseen = {}
  /\ watcher' = "wait"
  /\ UNCHANGED <<modTime, noted, unseen, told, writes>>

Stop ==
  /\ watcher = "wait"
  /\ watcher' = "stopped"
  /\ UNCHANGED <<modTime, noted, unseen, told, writes>>

WatcherStep == Seed \/ Poll \/ (\E f \in Files : Look(f)) \/ PollEnds

Next == (\E f \in Files : Write(f)) \/ WatcherStep \/ Stop

(* The ticker of the watcher fires and its goroutine is scheduled. *)
Spec == Init /\ [][Next]_vars /\ WF_vars(WatcherStep)

(* Every file that was written is published, though a poll stops at the    *)
(* first change it meets and files are written behind its back.            *)
ChangesPublished == \A f \in Files : told[f] # modTime[f] ~> (told[f] = modTime[f] \/ watcher = "stopped")
=============================================================================
