----------------------------- MODULE Scheduler -----------------------------
(***************************************************************************)
(* architect/scheduler.go over the pool of architect/pool.go.  Calls of    *)
(* Schedule wait for the schedules of the skills they depend on, register  *)
(* under their own skill and submit one task; ScheduleParallel submits     *)
(* several and waits for their results.  The pool is stopped at most once. *)
(***************************************************************************)
EXTENDS Naturals, Sequences, FiniteSets

CONSTANTS
  Calls,          \* calls of Schedule
  SkillOf,        \* call: its skill
  DependsOn,      \* call: the skills it depends on
  ParTasks,       \* the tasks of the one ScheduleParallel
  Workers, QueueCap,
  None

VARIABLES
  queue, worker,  \* the tasks of the pool; a task is a call or one of ParTasks
  pool,           \* "running", "stopping", "stopped"
  call,           \* call: where it is, the dependencies left, and whom it waits for
  done,           \* skill: the call whose channel is registered, or None
  par             \* ScheduleParallel

poolVars == <<queue, worker, pool>>
vars == <<poolVars, call, done, par>>

Idle == "idle"
Off == "off"
TaskSkills == {SkillOf[c] : c \in Calls}

Init ==
  /\ queue = <<>> /\ worker = [w \in Workers |-> Idle] /\ pool = "running"
  /\ call = [c \in Calls |-> [at |-> "start", deps |-> {}, on |-> None]]
  /\ done = [k \in TaskSkills |-> None]
  /\ par = [at |-> "start", left |-> ParTasks, refused |-> FALSE, panicked |-> FALSE,
            results |-> 0, collected |-> 0]

-----------------------------------------------------------------------------
(* The pool *)

WorkerTakes(w) ==
  /\ worker[w] = Idle /\ queue # <<>>
  /\ worker' = [worker EXCEPT ![w] = Head(queue)]
  /\ queue' = Tail(queue)
  /\ UNCHANGED <<pool, call, done, par>>

(* A task that panics is recovered by the pool; it has no result then. *)
WorkerRuns(w, panics) ==
  /\ worker[w] \notin {Idle, Off}
  /\ worker' = [worker EXCEPT ![w] = Idle]
  /\ par' = IF worker[w] \in Calls THEN par
            ELSE IF panics THEN [par EXCEPT !.panicked = TRUE]
            ELSE [par EXCEPT !.results = @ + 1]
  /\ UNCHANGED <<queue, pool, call, done>>

WorkerLeaves(w) ==
  /\ pool = "stopping" /\ worker[w] = Idle
  /\ worker' = [worker EXCEPT ![w] = Off]
  /\ UNCHANGED <<queue, pool, call, done, par>>

Stop == pool = "running" /\ pool' = "stopping" /\ UNCHANGED <<queue, worker, call, done, par>>

StopEnds ==
  /\ pool = "stopping" /\ \A w \in Workers : worker[w] = Off
  /\ pool' = "stopped"
  /\ UNCHANGED <<queue, worker, call, done, par>>

(* Submit: false is ErrBackpressure. *)
Submit(task, accepted) ==
  /\ accepted = (Len(queue) < QueueCap)
  /\ queue' = IF accepted THEN Append(queue, task) ELSE queue
  /\ UNCHANGED <<worker, pool>>

-----------------------------------------------------------------------------
(* Schedule *)

Goto(c, at) == call' = [call EXCEPT ![c].at = at]

(* Variant: the channel is registered before the dependencies are awaited. *)
ScheduleRegistered(c) ==
  /\ call[c].at = "start"
  /\ call' = [call EXCEPT ![c] = [at |-> "deps", deps |-> DependsOn[c], on |-> None]]
  /\ done' = [done EXCEPT ![SkillOf[c]] = c]
  /\ UNCHANGED <<poolVars, par>>

Schedule(c) ==
  /\ call[c].at = "start"
  /\ call' = [call EXCEPT ![c] = [at |-> "deps", deps |-> DependsOn[c], on |-> None]]
  /\ UNCHANGED <<poolVars, done, par>>

(* One dependency after the other; one that nobody has registered is not   *)
(* waited for.                                                             *)
Depend(c, dep) ==
  /\ call[c].at = "deps" /\ dep \in call[c].deps
  /\ LET ch == IF dep \in TaskSkills THEN done[dep] ELSE None
     IN  call' = [call EXCEPT ![c] = [at |-> IF ch = None THEN "deps" ELSE "wait",
                                      deps |-> call[c].deps \ {dep}, on |-> ch]]
  /\ UNCHANGED <<poolVars, done, par>>

Depended(c) ==
  /\ call[c].at = "wait" /\ call[call[c].on].at \in {"forget", "returned"}
  /\ Goto(c, "deps")
  /\ UNCHANGED <<poolVars, done, par>>

CallCancelled(c) ==
  /\ call[c].at = "wait"
  /\ Goto(c, "cancelled")
  /\ UNCHANGED <<poolVars, done, par>>

Register(c) ==
  /\ call[c].at = "deps" /\ call[c].deps = {}
  /\ Goto(c, "submit")
  /\ done' = [done EXCEPT ![SkillOf[c]] = c]
  /\ UNCHANGED <<poolVars, par>>

(* The task is submitted and the channel closed; then the skill's entry    *)
(* goes, whosever it is.                                                   *)
SubmitTask(c) ==
  /\ call[c].at = "submit"
  /\ \E accepted \in BOOLEAN : Submit(c, accepted)
  /\ Goto(c, "forget")
  /\ UNCHANGED <<done, par>>

Forget(c) ==
  /\ call[c].at = "forget"
  /\ Goto(c, "returned")
  /\ done' = [done EXCEPT ![SkillOf[c]] = None]
  /\ UNCHANGED <<poolVars, par>>

-----------------------------------------------------------------------------
(* ScheduleParallel *)

ParSubmit ==
  /\ par.at = "start"
  /\ \E task \in par.left, accepted \in BOOLEAN :
       /\ Submit(task, accepted)
       /\ par' = [par EXCEPT !.left = @ \ {task}, !.refused = @ \/ ~accepted]
  /\ UNCHANGED <<call, done>>

(* Variant: only results that come before the first wait are counted. *)
ParReceiveOnce ==
  /\ par.left = {} /\ par.at = "start" /\ par.results > 0
  /\ par' = [par EXCEPT !.results = 0, !.collected = @ + 1]
  /\ UNCHANGED <<poolVars, call, done>>

ParReceive ==
  /\ par.left = {} /\ par.at = "start" /\ par.results > 0
  /\ par' = [par EXCEPT !.results = @ - 1, !.collected = @ + 1]
  /\ UNCHANGED <<poolVars, call, done>>

(* One result is awaited for every task, the refused ones included. *)
ParReturn ==
  /\ par.at = "start" /\ par.collected = Cardinality(ParTasks)
  /\ par' = [par EXCEPT !.at = "returned"]
  /\ UNCHANGED <<poolVars, call, done>>

ParCancelled ==
  /\ par.at = "start" /\ par.left = {}
  /\ par' = [par EXCEPT !.at = "returned"]
  /\ UNCHANGED <<poolVars, call, done>>

WorkerStep(w) == WorkerTakes(w) \/ (\E panics \in BOOLEAN : WorkerRuns(w, panics)) \/ WorkerLeaves(w)
CallStep(c) ==
  \/ (\E dep \in call[c].deps : Depend(c, dep)) \/ Depended(c)
  \/ Register(c) \/ SubmitTask(c) \/ Forget(c)
ParStep == ParSubmit \/ ParReceive \/ ParReturn

Next ==
  \/ \E w \in Workers : WorkerStep(w)
  \/ \E c \in Calls : Schedule(c) \/ CallStep(c) \/ CallCancelled(c)
  \/ ParStep \/ ParCancelled \/ Stop \/ StopEnds

(* Goroutines are scheduled and tasks end. *)
Spec ==
  /\ Init /\ [][Next]_vars
  /\ \A w \in Workers : WF_vars(WorkerStep(w))
  /\ \A c \in Calls : WF_vars(CallStep(c))
  /\ WF_vars(ParStep)

-----------------------------------------------------------------------------
(* Properties *)

(* Every call of Schedule ends without help of its context, also when      *)
(* skills depend on each other in a circle: who waits has not registered.  *)
SchedulesEnd ==
  \A c \in Calls : call[c].at = "deps" ~> call[c].at \in {"returned", "cancelled"}

(* ScheduleParallel ends unless a task was refused, one panicked or the    *)
(* pool was stopped: then it waits for its context.                        *)
ParallelEnds ==
  <>(par.at = "returned" \/ par.refused \/ par.panicked \/ pool # "running")
=============================================================================
