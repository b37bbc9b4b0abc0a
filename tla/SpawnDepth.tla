----------------------------- MODULE SpawnDepth -----------------------------
(***************************************************************************)
(* bus/depth_controller.go: the depth and the number of children of every  *)
(* core, which Spawn checks and records under one lock.  CanSpawn asks     *)
(* first, under a lock of its own.                                         *)
(***************************************************************************)
EXTENDS Naturals, FiniteSets

CONSTANTS CoreIds, MaxSpawnDepth, MaxChildrenPerCore

VARIABLES
  depths, children,   \* core: 0 if unknown
  parents,            \* core: all cores it was spawned by
  told                \* cores that were told they may spawn

vars == <<depths, children, parents, told>>

Init ==
  /\ depths = [c \in CoreIds |-> 0] /\ children = [c \in CoreIds |-> 0]
  /\ parents = [c \in CoreIds |-> {}] /\ told = {}

CanSpawn(c) ==
  /\ depths[c] < MaxSpawnDepth /\ children[c] < MaxChildrenPerCore
  /\ told' = told \cup {c}
  /\ UNCHANGED <<depths, children, parents>>

(* Variant: who was told so spawns. *)
SpawnAsTold(parent, child) ==
  /\ parent # child /\ parent \in told
  /\ depths' = [depths EXCEPT ![child] = depths[parent] + 1]
  /\ children' = [children EXCEPT ![parent] = @ + 1]
  /\ parents' = [parents EXCEPT ![child] = @ \cup {parent}]
  /\ told' = told \ {parent}

(* Spawned again, a child takes the depth of its latest parent. *)
Spawn(parent, child) ==
  /\ parent # child /\ parent \in told
  /\ told' = told \ {parent}
  /\ IF depths[parent] >= MaxSpawnDepth \/ children[parent] >= MaxChildrenPerCore
     THEN UNCHANGED <<depths, children, parents>>
     ELSE /\ depths' = [depths EXCEPT ![child] = depths[parent] + 1]
          /\ children' = [children EXCEPT ![parent] = @ + 1]
          /\ parents' = [parents EXCEPT ![child] = @ \cup {parent}]

Next == \E c, d \in CoreIds : CanSpawn(c) \/ Spawn(c, d)

Spec == Init /\ [][Next]_vars

(* A core that spawned before it was spawned itself left its children at   *)
(* the depth it had, and one spawned twice has the depth of its latest     *)
(* parent: otherwise the depths count the generations.                     *)
InOrder == \A c \in CoreIds : \A p \in parents[c] : depths[c] = depths[p] + 1

(* Everyone in line was spawned by the next. *)
Descent(line) == \A n \in 0..MaxSpawnDepth : line[n + 1] \in parents[line[n]]

(* Nobody has more children than allowed; and while the cores were spawned *)
(* in order, nobody has more ancestors than the depth allows.              *)
NestingBounded ==
  /\ \A c \in CoreIds : Cardinality({d \in CoreIds : c \in parents[d]}) <= MaxChildrenPerCore
  /\ InOrder => \A line \in [0..(MaxSpawnDepth + 1) -> CoreIds] : ~Descent(line)
=============================================================================
