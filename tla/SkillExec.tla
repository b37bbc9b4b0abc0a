------------------------------ MODULE SkillExec ------------------------------
(***************************************************************************)
(* Execution of skills: the gateway handlers (gateway/handlers_chat.go,    *)
(* handlers_v1.go), Architect.ExecuteSkill, Pipeline.Run, the worker pool  *)
(* (architect/pool.go) and the sandbox (skills/sandbox.go).                *)
(*                                                                         *)
(* A caller submits a job to a bounded queue, or is refused when the queue *)
(* is full, and waits for the reply.  A worker takes the job, starts the   *)
(* skill in a goroutine of its own and waits for its result or for the     *)
(* timeout, whichever it notices first.  The skill may return, panic or    *)
(* hang: after the timeout its goroutine is abandoned, not stopped.        *)
(*                                                                         *)
(* Two kinds of callers share the queue: requests to /v1/skills, which     *)
(* hold a slot of their user's quota from Allow to the deferred Release,   *)
(* and pipelines, which run their stages one after the other and pass what *)
(* one returned on to the next.                                            *)
(*                                                                         *)
(* A definition whose comment begins with "Variant" is a faulty form of    *)
(* the definition that follows it and is used only to see that a property  *)
(* notices it.                                                             *)
(***************************************************************************)
EXTENDS Naturals, Sequences, FiniteSets

CONSTANTS
  Requests,    \* goroutines that serve handleSkills, all for one user
  Pipelines,   \* goroutines that serve handlePipelineExecute
  Workers,     \* workers of the pool: NumCPU
  QueueCap,    \* defaultQueueCap
  PerUser,     \* perUserConcurrency
  MaxCalls     \* bounds: calls of each request, stages of each
               \* pipeline

ASSUME SkillExecAssumption ==
  /\ QueueCap \in Nat \ {0}
  /\ PerUser \in Nat \ {0}
  /\ MaxCalls \in [Requests \cup Pipelines -> Nat]
  /\ IsFiniteSet(Requests)
  /\ Requests \cap Pipelines = {}

Callers == Requests \cup Pipelines
Jobs == UNION {{c} \X (1..MaxCalls[c]) : c \in Callers}

VARIABLES
  pc,           \* caller: "idle", "admitted", "waiting", "answered",
                \* "recorded" or "over"
  calls,        \* caller: its calls so far; its job is <<c, calls[c]>>
  answer,       \* caller: the output or the error it got last
  audit,        \* caller: what its handler recorded of its last call
  userActive,   \* Quota.userActive of the user
  tasks,        \* WorkerPool.tasks
  worker,       \* worker: Off, Free, or the job it is waiting for
  poolRunning,  \* WorkerPool.running
  skill,        \* job: its goroutine is "none", "running", about to send
                \* what it returned ("ok" or "error"), or "gone"
  result,       \* job: what is in the channel of RunSandboxedWithTimeout
  reply         \* job: what is in the channel of ExecuteSkill or Run

callerVars == <<pc, calls, answer, audit, userActive>>
poolVars == <<tasks, worker, poolRunning>>
vars == <<callerVars, poolVars, skill, result, reply>>

JobOf(c) == <<c, calls[c]>>

(* What a worker holds that holds no job. *)
Free == <<"free", 0>>
Off == <<"off", 0>>

Init ==
  /\ pc = [c \in Callers |-> "idle"]
  /\ calls = [c \in Callers |-> 0]
  /\ answer = [c \in Callers |-> "none"]
  /\ audit = [c \in Callers |-> "none"]
  /\ userActive = 0
  /\ tasks = <<>>
  /\ worker = [w \in Workers |-> Off]
  /\ poolRunning = FALSE
  /\ skill = [j \in Jobs |-> "none"]
  /\ result = [j \in Jobs |-> "none"]
  /\ reply = [j \in Jobs |-> "none"]

-----------------------------------------------------------------------------
(* The pool *)

(* main starts the pool; requests may come before. *)
PoolStart ==
  /\ ~poolRunning
  /\ poolRunning' = TRUE
  /\ worker' = [w \in Workers |-> Free]
  /\ UNCHANGED <<tasks, skill, result, reply, callerVars>>

(* runTask, up to the select of RunSandboxedWithTimeout. *)
WorkerTakes(w) ==
  /\ worker[w] = Free
  /\ tasks # <<>>
  /\ tasks' = Tail(tasks)
  /\ worker' = [worker EXCEPT ![w] = Head(tasks)]
  /\ skill' = [skill EXCEPT ![Head(tasks)] = "running"]
  /\ UNCHANGED <<poolRunning, result, reply, callerVars>>

(* The reply goes into a channel of capacity one that nobody else uses. *)
WorkerReplies(w, out) ==
  /\ reply' = [reply EXCEPT ![worker[w]] = out]
  /\ worker' = [worker EXCEPT ![w] = Free]
  /\ UNCHANGED <<tasks, poolRunning, skill, callerVars>>

WorkerResult(w) ==
  /\ worker[w] \in Jobs
  /\ result[worker[w]] # "none"
  /\ result' = [result EXCEPT ![worker[w]] = "none"]
  /\ WorkerReplies(w, result[worker[w]])

(* Variant: a job that timed out is also queued again. *)
WorkerTimeoutRetries(w) ==
  /\ worker[w] \in Jobs
  /\ result' = [result EXCEPT ![worker[w]] = "none"]
  /\ reply' = [reply EXCEPT ![worker[w]] = "timeout"]
  /\ worker' = [worker EXCEPT ![w] = Free]
  /\ tasks' = IF Len(tasks) < QueueCap THEN Append(tasks, worker[w]) ELSE tasks
  /\ UNCHANGED <<poolRunning, skill, callerVars>>

(* Variant: the sandbox waits for the skill only. *)
WorkerTimeoutNever(w) ==
  /\ worker[w] \in Jobs
  /\ skill[worker[w]] = "none"
  /\ result' = [result EXCEPT ![worker[w]] = "none"]
  /\ WorkerReplies(w, "timeout")

(* ctx.Done(): the time is over, or the client of a pipeline has gone. *)
WorkerTimeout(w) ==
  /\ worker[w] \in Jobs
  /\ result' = [result EXCEPT ![worker[w]] = "none"]
  /\ WorkerReplies(w, "timeout")

-----------------------------------------------------------------------------
(* The goroutine of a skill *)

(* fn() returns, or panics and the deferred recover makes an error of it. *)
SkillEnds(j, out) ==
  /\ skill[j] = "running"
  /\ skill' = [skill EXCEPT ![j] = out]
  /\ UNCHANGED <<result, reply, callerVars, poolVars>>

(* Variant: an unbuffered channel, which needs a receiver. *)
RoomForResultUnbuffered(j) == \E w \in Workers : worker[w] = j

(* Room in the channel of RunSandboxedWithTimeout, of capacity one. *)
RoomForResult(j) == result[j] = "none"

(* A result that no worker waits for any more is dropped with its channel. *)
SkillSends(j) ==
  /\ skill[j] \in {"ok", "error"}
  /\ RoomForResult(j)
  /\ result' = [result EXCEPT ![j] =
                  IF \E w \in Workers : worker[w] = j THEN skill[j] ELSE "none"]
  /\ skill' = [skill EXCEPT ![j] = "gone"]
  /\ UNCHANGED <<reply, callerVars, poolVars>>

-----------------------------------------------------------------------------
(* Callers *)

(* Variant: the buffer is taken for one larger than it is. *)
RoomByOne == Len(tasks) <= QueueCap

Room == Len(tasks) < QueueCap

(* WorkerPool.Submit of the next job of c, when there is room for it. *)
Submit(c) ==
  /\ Room
  /\ calls' = [calls EXCEPT ![c] = @ + 1]
  /\ tasks' = Append(tasks, <<c, calls[c] + 1>>)
  /\ pc' = [pc EXCEPT ![c] = "waiting"]
  /\ UNCHANGED <<answer, audit, userActive, worker, poolRunning>>

(* The call of c ends without a job: out is what it returns. *)
Answer(c, out) ==
  /\ answer' = [answer EXCEPT ![c] = out]
  /\ pc' = [pc EXCEPT ![c] = "answered"]
  /\ UNCHANGED <<calls, audit, userActive, poolVars>>

(* Architect.ExecuteSkill: the guard, the registry, the pool. *)
ExecuteSkill(c) ==
  /\ \/ Answer(c, "error")             \* blocked by the whitelist
     \/ Answer(c, "ok")                \* approved, but not registered
     \/ Submit(c)
     \/ ~Room /\ Answer(c, "backlogged")
  /\ UNCHANGED <<skill, result, reply>>

(* The reply of its job reaches the caller. *)
Receive(c) ==
  /\ pc[c] = "waiting"
  /\ reply[JobOf(c)] # "none"
  /\ answer' = [answer EXCEPT ![c] = reply[JobOf(c)]]
  /\ reply' = [reply EXCEPT ![JobOf(c)] = "none"]
  /\ pc' = [pc EXCEPT ![c] = "answered"]
  /\ UNCHANGED <<calls, audit, userActive, skill, result, poolVars>>

(* handleSkills up to Quota.Allow.  Its other limits, on the calls per     *)
(* second and on the goroutines, may refuse any call; a refused call       *)
(* changes nothing.                                                        *)
RequestAllow(c) ==
  /\ pc[c] = "idle"
  /\ calls[c] < MaxCalls[c]
  /\ userActive < PerUser
  /\ userActive' = userActive + 1
  /\ pc' = [pc EXCEPT ![c] = "admitted"]
  /\ UNCHANGED <<calls, answer, audit, skill, result, reply, poolVars>>

(* Variant: a refused request returns before its Release is deferred. *)
RequestRefusedKeepsSlot(c) ==
  /\ pc[c] = "admitted"
  /\ pc' = [pc EXCEPT ![c] = "idle"]
  /\ UNCHANGED <<calls, answer, audit, userActive, skill, result, reply, poolVars>>

(* ironclaw.Enforce refuses the call, or there is no input text. *)
RequestRefused(c) ==
  /\ pc[c] = "admitted"
  /\ pc' = [pc EXCEPT ![c] = "recorded"]
  /\ answer' = [answer EXCEPT ![c] = "refused"]
  /\ \/ audit' = [audit EXCEPT ![c] = "fail"]
     \/ UNCHANGED audit
  /\ UNCHANGED <<calls, userActive, skill, result, reply, poolVars>>

RequestExecute(c) ==
  /\ pc[c] = "admitted"
  /\ ExecuteSkill(c)

(* What handleSkills itself records once ExecuteSkill has returned; the     *)
(* ledger middleware around it (Middleware) adds a success in any case.    *)
AuditOf(out) ==
  CASE out = "ok" -> "success"
    [] out = "backlogged" -> "none"
    [] OTHER -> "fail"

RequestRecord(c) ==
  /\ pc[c] = "answered"
  /\ audit' = [audit EXCEPT ![c] = AuditOf(answer[c])]
  /\ pc' = [pc EXCEPT ![c] = "recorded"]
  /\ UNCHANGED <<calls, answer, userActive, skill, result, reply, poolVars>>

(* The caller has what it is told, and forgets it. *)
Forget(c, next) ==
  /\ pc' = [pc EXCEPT ![c] = next]
  /\ answer' = [answer EXCEPT ![c] = "none"]
  /\ audit' = [audit EXCEPT ![c] = "none"]
  /\ UNCHANGED <<calls, skill, result, reply, poolVars>>

(* The response is written and the deferred Quota.Release runs. *)
RequestReturn(c) ==
  /\ pc[c] = "recorded"
  /\ userActive' = IF userActive > 0 THEN userActive - 1 ELSE userActive
  /\ Forget(c, "idle")

(* Pipeline.Run: the arguments of the next stage are put into the map that *)
(* all the stages share, and the stage is submitted.  An unknown skill or  *)
(* a full queue ends the pipeline.                                         *)
PipelineStage(c) ==
  /\ pc[c] = "idle"
  /\ calls[c] < MaxCalls[c]
  /\ \/ Submit(c)
     \/ Answer(c, "error")
     \/ ~Room /\ Answer(c, "backlogged")
  /\ UNCHANGED <<skill, result, reply>>

(* Variant: a stage that timed out does not end the pipeline. *)
StageNotFailed(out) == out \in {"ok", "timeout"}

(* Whether Run goes on with the next stage. *)
StageSucceeded(out) == out = "ok"

PipelineRecord(c) ==
  /\ pc[c] = "answered"
  /\ audit' = [audit EXCEPT ![c] =
                 IF StageSucceeded(answer[c]) THEN "success" ELSE "fail"]
  /\ pc' = [pc EXCEPT ![c] = "recorded"]
  /\ UNCHANGED <<calls, answer, userActive, skill, result, reply, poolVars>>

PipelineNext(c) ==
  /\ pc[c] = "recorded"
  /\ UNCHANGED userActive
  /\ Forget(c, IF StageSucceeded(answer[c]) /\ calls[c] < MaxCalls[c]
               THEN "idle" ELSE "over")

-----------------------------------------------------------------------------
WorkerStep(w) ==
  WorkerTakes(w) \/ WorkerResult(w) \/ WorkerTimeout(w)

RequestStep(c) ==
  RequestRefused(c) \/ RequestExecute(c) \/ RequestRecord(c) \/ RequestReturn(c)

Next ==
  \/ PoolStart
  \/ \E w \in Workers : WorkerStep(w)
  \/ \E j \in Jobs : (\E out \in {"ok", "error"} : SkillEnds(j, out)) \/ SkillSends(j)
  \/ \E c \in Requests : RequestAllow(c) \/ Receive(c) \/ RequestStep(c)
  \/ \E c \in Pipelines :
       PipelineStage(c) \/ Receive(c) \/ PipelineRecord(c) \/ PipelineNext(c)

SafeSpec == Init /\ [][Next]_vars

(* main starts the pool; workers run, and their timers fire; a goroutine   *)
(* that can send or receive does; a handler that has begun goes on.  A     *)
(* skill need not ever return, and nobody has to call.                     *)
Spec ==
  /\ SafeSpec
  /\ WF_vars(PoolStart)
  /\ \A w \in Workers : WF_vars(WorkerStep(w))
  /\ \A j \in Jobs : WF_vars(SkillSends(j))
  /\ \A c \in Callers : WF_vars(Receive(c))
  /\ \A c \in Requests : WF_vars(RequestStep(c))

-----------------------------------------------------------------------------
(* Properties *)

Outputs == {"none", "ok", "error", "timeout", "backlogged", "refused"}

TypeOK ==
  /\ pc \in [Callers -> {"idle", "admitted", "waiting", "answered", "recorded",
                        "over"}]
  /\ calls \in [Callers -> Nat]
  /\ \A c \in Callers : calls[c] <= MaxCalls[c]
  /\ answer \in [Callers -> Outputs]
  /\ audit \in [Callers -> {"none", "success", "fail"}]
  /\ userActive \in Nat
  /\ tasks \in Seq(Jobs)
  /\ Len(tasks) <= QueueCap
  /\ worker \in [Workers -> Jobs \cup {Off, Free}]
  /\ poolRunning \in BOOLEAN
  /\ skill \in [Jobs -> {"none", "running", "ok", "error", "gone"}]
  /\ result \in [Jobs -> {"none", "ok", "error"}]
  /\ reply \in [Jobs -> {"none", "ok", "error", "timeout"}]

(* A slot of the quota is held by exactly the requests that are between    *)
(* their Allow and their Release: none leaks on the ways out that refuse,  *)
(* fail or find the queue full, and none is given back twice.              *)
InService ==
  {c \in Requests : pc[c] \in {"admitted", "waiting", "answered", "recorded"}}

QuotaAccounted == userActive = Cardinality(InService) /\ userActive <= PerUser

(* The job of a waiting caller is in exactly one place: once in the queue, *)
(* in the hands of one worker, or replied to; and queue, workers and       *)
(* replies hold no other jobs.  So no call is lost, run twice or answered  *)
(* twice, and an abandoned skill never answers a later call.               *)
Queued(j) == {i \in 1..Len(tasks) : tasks[i] = j}
Serving(j) == {w \in Workers : worker[w] = j}
Replied(j) == {r \in {reply[j]} : r # "none"}

JobInOnePlace ==
  \A c \in Callers : \A n \in 1..MaxCalls[c] :
    LET j == <<c, n>>
    IN  Cardinality(Queued(j)) + Cardinality(Serving(j)) + Cardinality(Replied(j))
          = IF pc[c] = "waiting" /\ n = calls[c] THEN 1 ELSE 0

(* While a pipeline prepares the arguments of its next stage, in the map   *)
(* it has handed to the skills of the earlier ones, none of those skills   *)
(* is running: a stage that timed out ends the pipeline.                   *)
PipelineArgsPrivate ==
  \A c \in Pipelines :
    pc[c] = "idle" => \A n \in 1..MaxCalls[c] : skill[<<c, n>>] # "running"

(* Every caller whose job was taken into the queue gets an answer, though  *)
(* skills may hang for ever.                                               *)
CallersAnswered ==
  \A c \in Callers : pc[c] = "waiting" ~> pc[c] # "waiting"

(* A skill that ends after its time still gets rid of its result and its   *)
(* goroutine ends: late results do not pile up blocked goroutines.         *)
GoroutinesEnd ==
  \A j \in Jobs : skill[j] \in {"ok", "error"} ~> skill[j] = "gone"

(* No more skills run at a time than the pool has workers.                 *)
ExecutionBounded ==
  Cardinality({j \in Jobs : skill[j] = "running"}) <= Cardinality(Workers)
=============================================================================
