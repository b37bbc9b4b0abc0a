-------------------------- MODULE SkillExecProofs --------------------------
(***************************************************************************)
(* Proofs about the execution of skills, for any number of requests,       *)
(* pipelines and workers, any capacity of the queue and of the quota and   *)
(* any number of calls.                                                    *)
(*                                                                         *)
(* Two arguments that do not depend on each other.  The quota: the slots   *)
(* taken are counted by the requests in service, so a step changes both or *)
(* neither.  The jobs: a job is in the queue, with a worker or replied to, *)
(* never in two of these, and exactly when its caller waits for it.        *)
(***************************************************************************)
EXTENDS SkillExec, FiniteSetTheorems, SequenceTheorems, TLAPS

(* A request that was admitted still has a call to make.                   *)
AdmittedHasCall == \A c \in Callers : pc[c] = "admitted" => calls[c] < MaxCalls[c]

(* No worker holds a job before the pool was started.                      *)
NotStarted == ~poolRunning => \A w \in Workers : worker[w] = Off

(* The job of a waiting caller is one of its calls.                        *)
WaitingHasJob == \A c \in Callers : pc[c] = "waiting" => calls[c] >= 1

InQueue(j) == \E i \in 1..Len(tasks) : tasks[i] = j
WithWorker(j) == \E w \in Workers : worker[w] = j
HasReply(j) == reply[j] # "none"
Held(j) == InQueue(j) \/ WithWorker(j) \/ HasReply(j)

(* Each place holds a job at most once, and no two places hold the same.   *)
NoJobTwice ==
  /\ \A i, k \in 1..Len(tasks) : tasks[i] = tasks[k] => i = k
  /\ \A w, v \in Workers : worker[w] \in Jobs /\ worker[w] = worker[v] => w = v
  /\ \A j \in Jobs : /\ ~(InQueue(j) /\ WithWorker(j))
                     /\ ~(InQueue(j) /\ HasReply(j))
                     /\ ~(WithWorker(j) /\ HasReply(j))

(* A job is somewhere exactly when its caller waits for it.                *)
AwaitedJobsHeld ==
  \A c \in Callers : \A n \in 1..MaxCalls[c] :
    (pc[c] = "waiting" /\ calls[c] = n) <=> Held(<<c, n>>)

JobInv ==
  /\ TypeOK
  /\ AdmittedHasCall
  /\ WaitingHasJob
  /\ NotStarted
  /\ NoJobTwice
  /\ AwaitedJobsHeld

-----------------------------------------------------------------------------
(* Jobs *)

LEMMA CallIsJob ==
  ASSUME NEW c \in Callers, NEW n \in 1..MaxCalls[c]
  PROVE  <<c, n>> \in Jobs
<1>1. <<c, n>> \in {c} \X (1..MaxCalls[c])
  OBVIOUS
<1> QED
  BY <1>1 DEF Jobs

LEMMA JobIsCall ==
  ASSUME NEW j \in Jobs
  PROVE  \E c \in Callers : \E n \in 1..MaxCalls[c] : j = <<c, n>>
<1>1. PICK c \in Callers : j \in {c} \X (1..MaxCalls[c])
  BY DEF Jobs
<1> QED
  BY <1>1

LEMMA NoJob == Off \notin Jobs /\ Free \notin Jobs /\ Off # Free
<1>1. \A c \in Callers : MaxCalls[c] \in Nat
  BY SkillExecAssumption DEF Callers
<1>2. \A j \in Jobs : j[2] # 0
  <2> TAKE j \in Jobs
  <2>1. PICK c \in Callers : \E n \in 1..MaxCalls[c] : j = <<c, n>>
    BY JobIsCall
  <2> QED
    BY <1>1, <2>1
<1>3. Off[2] = 0 /\ Free[2] = 0 /\ Off[1] = "off" /\ Free[1] = "free"
  BY DEF Off, Free
<1> QED
  BY <1>2, <1>3

(* A step that leaves the three places, the calls and who waits alone.     *)
LEMMA PlacesUntouched ==
  ASSUME JobInv, TypeOK', AdmittedHasCall',
         UNCHANGED <<tasks, worker, poolRunning, reply, calls>>,
         \A c \in Callers : pc'[c] = "waiting" <=> pc[c] = "waiting"
  PROVE  JobInv'
<1>1. WaitingHasJob' /\ NotStarted'
  BY DEF JobInv, WaitingHasJob, NotStarted
<1>2. NoJobTwice'
  BY DEF JobInv, NoJobTwice, InQueue, WithWorker, HasReply
<1>3. AwaitedJobsHeld'
  <2>1. \A j : Held(j)' <=> Held(j)
    BY DEF Held, InQueue, WithWorker, HasReply
  <2>2. AwaitedJobsHeld
    BY DEF JobInv
  <2>3. QED
    BY <2>1, <2>2 DEF AwaitedJobsHeld
<1> QED
  BY <1>1, <1>2, <1>3 DEF JobInv

(* Moving a job from place to place answers nobody.                         *)
LEMMA SameJobsHeld ==
  ASSUME AwaitedJobsHeld, UNCHANGED <<pc, calls>>,
         \A j \in Jobs : Held(j)' <=> Held(j)
  PROVE  AwaitedJobsHeld'
<1> SUFFICES ASSUME NEW c \in Callers, NEW n \in 1..MaxCalls[c]
             PROVE  (pc[c] = "waiting" /\ calls[c] = n) <=> Held(<<c, n>>)'
  BY DEF AwaitedJobsHeld
<1>1. Held(<<c, n>>)' <=> Held(<<c, n>>)
  BY CallIsJob
<1> QED
  BY <1>1 DEF AwaitedJobsHeld

LEMMA InitJobInv == Init => JobInv
<1> SUFFICES ASSUME Init PROVE JobInv
  OBVIOUS
<1>1. \A c \in Callers : MaxCalls[c] \in Nat
  BY SkillExecAssumption DEF Callers
<1>2. tasks = <<>> /\ Len(tasks) = 0 /\ tasks \in Seq(Jobs) /\ QueueCap \in Nat
  BY SkillExecAssumption DEF Init
<1>3. /\ calls \in [Callers -> Nat]
      /\ \A c \in Callers : calls[c] <= MaxCalls[c] /\ calls[c] = 0
  BY <1>1 DEF Init
<1>4. TypeOK
  <2>1. Len(tasks) <= QueueCap /\ userActive \in Nat
    BY <1>2 DEF Init
  <2> QED
    BY <1>2, <1>3, <2>1 DEF Init, TypeOK, Outputs
<1>5. AdmittedHasCall /\ WaitingHasJob /\ NotStarted
  BY DEF Init, AdmittedHasCall, WaitingHasJob, NotStarted
<1>6. \A j \in Jobs : ~InQueue(j) /\ ~WithWorker(j) /\ ~HasReply(j)
  BY <1>2, NoJob DEF Init, InQueue, WithWorker, HasReply
<1>7. NoJobTwice
  BY <1>2, <1>6, NoJob DEF Init, NoJobTwice
<1>8. AwaitedJobsHeld
  BY <1>6, CallIsJob DEF Init, AwaitedJobsHeld, Held
<1> QED
  BY <1>4, <1>5, <1>7, <1>8 DEF JobInv

-----------------------------------------------------------------------------
(* The pool *)

LEMMA PoolStartJobInv ==
  ASSUME JobInv, PoolStart
  PROVE  JobInv'
<1> USE DEF JobInv, PoolStart, callerVars
<1>1. TypeOK' /\ AdmittedHasCall' /\ WaitingHasJob' /\ NotStarted'
  BY DEF TypeOK, AdmittedHasCall, WaitingHasJob, NotStarted
<1>2. \A j \in Jobs : /\ InQueue(j)' <=> InQueue(j)
                      /\ WithWorker(j)' <=> WithWorker(j)
                      /\ HasReply(j)' <=> HasReply(j)
  BY NoJob DEF NotStarted, InQueue, WithWorker, HasReply
<1>3. NoJobTwice'
  BY <1>2, NoJob DEF NoJobTwice
<1>4. AwaitedJobsHeld'
  BY <1>2, SameJobsHeld DEF Held
<1> QED
  BY <1>1, <1>3, <1>4

(* The first job of the queue goes to the worker.                          *)
LEMMA WorkerTakesJobInv ==
  ASSUME JobInv, NEW w \in Workers, WorkerTakes(w)
  PROVE  JobInv'
<1> USE DEF JobInv
<1>1. /\ tasks \in Seq(Jobs) /\ tasks # <<>> /\ tasks' = Tail(tasks)
      /\ worker[w] = Free /\ worker' = [worker EXCEPT ![w] = tasks[1]]
      /\ worker \in [Workers -> Jobs \cup {Off, Free}]
      /\ skill' = [skill EXCEPT ![tasks[1]] = "running"]
      /\ UNCHANGED <<pc, calls, answer, audit, userActive, poolRunning, result, reply>>
  BY DEF WorkerTakes, TypeOK, callerVars
<1>2. /\ Len(tasks) \in Nat /\ Len(tasks) >= 1 /\ tasks[1] \in Jobs
      /\ tasks' \in Seq(Jobs) /\ Len(tasks') = Len(tasks) - 1
      /\ \A i \in 1..Len(tasks') : tasks'[i] = tasks[i + 1]
  BY <1>1
<1>3. TypeOK'
  <2>1. Len(tasks') <= QueueCap
    BY <1>2, SkillExecAssumption DEF TypeOK
  <2>2. worker' \in [Workers -> Jobs \cup {Off, Free}]
    BY <1>1, <1>2
  <2>3. skill' \in [Jobs -> {"none", "running", "ok", "error", "gone"}]
    BY <1>1, <1>2 DEF TypeOK
  <2> QED
    BY <1>1, <1>2, <2>1, <2>2, <2>3 DEF TypeOK
<1>4. AdmittedHasCall' /\ WaitingHasJob'
  BY <1>1 DEF AdmittedHasCall, WaitingHasJob
<1>5. NotStarted'
  BY <1>1, NoJob DEF NotStarted
<1>6. \A j \in Jobs : /\ InQueue(j)' <=> InQueue(j) /\ j # tasks[1]
                      /\ WithWorker(j)' <=> WithWorker(j) \/ j = tasks[1]
                      /\ HasReply(j)' <=> HasReply(j)
  <2> TAKE j \in Jobs
  <2>1. InQueue(j)' => InQueue(j) /\ j # tasks[1]
    BY <1>2 DEF InQueue, NoJobTwice
  <2>2. InQueue(j) /\ j # tasks[1] => InQueue(j)'
    <3> SUFFICES ASSUME NEW i \in 1..Len(tasks), tasks[i] = j, j # tasks[1]
                 PROVE  \E k \in 1..Len(tasks') : tasks'[k] = j
      BY DEF InQueue
    <3>1. i - 1 \in 1..Len(tasks') /\ tasks'[i - 1] = tasks[i]
      BY <1>2
    <3> QED
      BY <3>1
  <2>3. WithWorker(j)' <=> WithWorker(j) \/ j = tasks[1]
    BY <1>1, NoJob DEF WithWorker
  <2>4. HasReply(j)' <=> HasReply(j)
    BY <1>1 DEF HasReply
  <2> QED
    BY <2>1, <2>2, <2>3, <2>4
<1>7. InQueue(tasks[1])
  BY <1>2 DEF InQueue
<1>8. NoJobTwice'
  <2>1. \A i, k \in 1..Len(tasks') : tasks'[i] = tasks'[k] => i = k
    BY <1>2 DEF NoJobTwice
  <2>2. \A v \in Workers : worker[v] # tasks[1]
    BY <1>2, <1>7 DEF NoJobTwice, WithWorker
  <2>3. \A u, v \in Workers : worker'[u] \in Jobs /\ worker'[u] = worker'[v] => u = v
    BY <1>1, <2>2 DEF NoJobTwice
  <2>4. \A j \in Jobs : /\ ~(InQueue(j)' /\ WithWorker(j)')
                        /\ ~(InQueue(j)' /\ HasReply(j)')
                        /\ ~(WithWorker(j)' /\ HasReply(j)')
    BY <1>2, <1>6, <1>7 DEF NoJobTwice
  <2> QED
    BY <2>1, <2>3, <2>4 DEF NoJobTwice
<1>9. AwaitedJobsHeld'
  BY <1>1, <1>6, <1>7, SameJobsHeld DEF Held
<1> QED
  BY <1>3, <1>4, <1>5, <1>8, <1>9

(* A worker that replies holds its job no longer.                          *)
LEMMA WorkerRepliesJobInv ==
  ASSUME JobInv, NEW w \in Workers, NEW out \in {"ok", "error", "timeout"},
         worker[w] \in Jobs,
         result' = [result EXCEPT ![worker[w]] = "none"],
         WorkerReplies(w, out)
  PROVE  JobInv'
<1> USE DEF JobInv
<1> DEFINE job == worker[w]
<1>1. /\ reply' = [reply EXCEPT ![job] = out]
      /\ reply \in [Jobs -> {"none", "ok", "error", "timeout"}]
      /\ worker' = [worker EXCEPT ![w] = Free]
      /\ worker \in [Workers -> Jobs \cup {Off, Free}]
      /\ UNCHANGED <<pc, calls, answer, audit, userActive, poolRunning, tasks, skill>>
  BY DEF WorkerReplies, TypeOK, callerVars
<1>2. TypeOK'
  <2>1. worker' \in [Workers -> Jobs \cup {Off, Free}]
    BY <1>1
  <2>2. reply' \in [Jobs -> {"none", "ok", "error", "timeout"}]
    BY <1>1
  <2>3. result' \in [Jobs -> {"none", "ok", "error"}]
    BY DEF TypeOK
  <2> QED
    BY <1>1, <2>1, <2>2, <2>3 DEF TypeOK
<1>3. AdmittedHasCall' /\ WaitingHasJob'
  BY <1>1 DEF AdmittedHasCall, WaitingHasJob
<1>4. NotStarted'
  BY <1>1, NoJob DEF NotStarted
<1>5. \A j \in Jobs : /\ InQueue(j)' <=> InQueue(j)
                      /\ WithWorker(j)' <=> WithWorker(j) /\ j # job
                      /\ HasReply(j)' <=> HasReply(j) \/ j = job
  <2> TAKE j \in Jobs
  <2>1. InQueue(j)' <=> InQueue(j)
    BY <1>1 DEF InQueue
  <2>2. WithWorker(j)' <=> WithWorker(j) /\ j # job
    BY <1>1, NoJob DEF WithWorker, NoJobTwice
  <2>3. HasReply(j)' <=> HasReply(j) \/ j = job
    BY <1>1 DEF HasReply
  <2> QED
    BY <2>1, <2>2, <2>3
<1>6. WithWorker(job)
  BY DEF WithWorker
<1>7. NoJobTwice'
  <2>1. \A i, k \in 1..Len(tasks') : tasks'[i] = tasks'[k] => i = k
    BY <1>1 DEF NoJobTwice
  <2>2. \A u, v \in Workers : worker'[u] \in Jobs /\ worker'[u] = worker'[v] => u = v
    BY <1>1, NoJob DEF NoJobTwice
  <2>3. \A j \in Jobs : /\ ~(InQueue(j)' /\ WithWorker(j)')
                        /\ ~(InQueue(j)' /\ HasReply(j)')
                        /\ ~(WithWorker(j)' /\ HasReply(j)')
    BY <1>5, <1>6 DEF NoJobTwice
  <2> QED
    BY <2>1, <2>2, <2>3 DEF NoJobTwice
<1>8. AwaitedJobsHeld'
  BY <1>1, <1>5, <1>6, SameJobsHeld DEF Held
<1> QED
  BY <1>2, <1>3, <1>4, <1>7, <1>8

-----------------------------------------------------------------------------
(* The goroutines of the skills and the callers *)

LEMMA SkillJobInv ==
  ASSUME JobInv, NEW j \in Jobs, NEW out \in {"ok", "error"},
         SkillEnds(j, out) \/ SkillSends(j)
  PROVE  JobInv'
<1>1. UNCHANGED <<pc, calls, answer, audit, userActive, tasks, worker,
                  poolRunning, reply>>
  BY DEF SkillEnds, SkillSends, callerVars, poolVars
<1>2. skill' \in [Jobs -> {"none", "running", "ok", "error", "gone"}]
  BY DEF SkillEnds, SkillSends, JobInv, TypeOK
<1>3. result' \in [Jobs -> {"none", "ok", "error"}]
  BY DEF SkillEnds, SkillSends, JobInv, TypeOK
<1>4. TypeOK' /\ AdmittedHasCall'
  BY <1>1, <1>2, <1>3 DEF JobInv, TypeOK, AdmittedHasCall
<1> QED
  BY <1>1, <1>4, PlacesUntouched

(* The job of a call that is not waiting yet is new, and goes last.        *)
LEMMA SubmitJobInv ==
  ASSUME JobInv, NEW c \in Callers, pc[c] \in {"idle", "admitted"},
         calls[c] < MaxCalls[c], Submit(c), UNCHANGED <<skill, result, reply>>
  PROVE  JobInv'
<1> USE DEF JobInv
<1> DEFINE job == <<c, calls[c] + 1>>
<1>1. /\ calls \in [Callers -> Nat] /\ calls' = [calls EXCEPT ![c] = calls[c] + 1]
      /\ pc \in [Callers -> {"idle", "admitted", "waiting", "answered",
                             "recorded", "over"}]
      /\ pc' = [pc EXCEPT ![c] = "waiting"]
      /\ tasks \in Seq(Jobs) /\ Len(tasks) < QueueCap /\ tasks' = Append(tasks, job)
      /\ UNCHANGED <<answer, audit, userActive, worker, poolRunning, skill,
                     result, reply>>
  BY DEF Submit, Room, TypeOK
<1>2. MaxCalls[c] \in Nat /\ calls[c] + 1 \in 1..MaxCalls[c] /\ job \in Jobs
  BY <1>1, CallIsJob, SkillExecAssumption DEF Callers
<1>3. /\ tasks' \in Seq(Jobs) /\ Len(tasks') = Len(tasks) + 1 /\ Len(tasks) \in Nat
      /\ \A i \in 1..Len(tasks) : tasks'[i] = tasks[i]
      /\ tasks'[Len(tasks) + 1] = job
  BY <1>1, <1>2
<1>4. TypeOK'
  <2>1. Len(tasks') <= QueueCap
    BY <1>1, <1>3, SkillExecAssumption
  <2>2. calls' \in [Callers -> Nat] /\ \A d \in Callers : calls'[d] <= MaxCalls[d]
    BY <1>1, <1>2 DEF TypeOK
  <2>3. pc' \in [Callers -> {"idle", "admitted", "waiting", "answered",
                             "recorded", "over"}]
    BY <1>1
  <2> QED
    BY <1>1, <1>3, <2>1, <2>2, <2>3 DEF TypeOK
<1>5. AdmittedHasCall' /\ WaitingHasJob' /\ NotStarted'
  BY <1>1 DEF AdmittedHasCall, WaitingHasJob, NotStarted
<1>6. ~Held(job)
  BY <1>2 DEF AwaitedJobsHeld
<1>7. \A j \in Jobs : /\ InQueue(j)' <=> InQueue(j) \/ j = job
                      /\ WithWorker(j)' <=> WithWorker(j)
                      /\ HasReply(j)' <=> HasReply(j)
  <2> TAKE j \in Jobs
  <2>1. InQueue(j)' => InQueue(j) \/ j = job
    <3> SUFFICES ASSUME NEW i \in 1..Len(tasks'), tasks'[i] = j
                 PROVE  InQueue(j) \/ j = job
      BY DEF InQueue
    <3>1. i \in 1..Len(tasks) \/ i = Len(tasks) + 1
      BY <1>3
    <3> QED
      BY <1>3, <3>1 DEF InQueue
  <2>2. InQueue(j) => InQueue(j)'
    BY <1>3 DEF InQueue
  <2>3. j = job => InQueue(j)'
    <3>1. Len(tasks) + 1 \in 1..Len(tasks')
      BY <1>3
    <3> QED
      BY <1>3, <3>1 DEF InQueue
  <2>4. /\ WithWorker(j)' <=> WithWorker(j)
        /\ HasReply(j)' <=> HasReply(j)
    BY <1>1 DEF WithWorker, HasReply
  <2> QED
    BY <2>1, <2>2, <2>3, <2>4
<1>8. NoJobTwice'
  <2>1. \A i, k \in 1..Len(tasks') : tasks'[i] = tasks'[k] => i = k
    <3>1. \A i \in 1..Len(tasks) : tasks[i] # job
      BY <1>6 DEF Held, InQueue
    <3> QED
      BY <1>3, <3>1 DEF NoJobTwice
  <2>2. \A u, v \in Workers : worker'[u] \in Jobs /\ worker'[u] = worker'[v] => u = v
    BY <1>1 DEF NoJobTwice
  <2>3. \A j \in Jobs : /\ ~(InQueue(j)' /\ WithWorker(j)')
                        /\ ~(InQueue(j)' /\ HasReply(j)')
                        /\ ~(WithWorker(j)' /\ HasReply(j)')
    BY <1>6, <1>7 DEF NoJobTwice, Held
  <2> QED
    BY <2>1, <2>2, <2>3 DEF NoJobTwice
<1>9. AwaitedJobsHeld'
  <2> SUFFICES ASSUME NEW d \in Callers, NEW n \in 1..MaxCalls[d]
               PROVE  (pc'[d] = "waiting" /\ calls'[d] = n) <=> Held(<<d, n>>)'
    BY DEF AwaitedJobsHeld
  <2>1. Held(<<d, n>>)' <=> Held(<<d, n>>) \/ <<d, n>> = job
    BY <1>7, CallIsJob DEF Held
  <2>2. (pc[d] = "waiting" /\ calls[d] = n) <=> Held(<<d, n>>)
    BY DEF AwaitedJobsHeld
  <2>3. <<d, n>> = job <=> d = c /\ n = calls[c] + 1
    OBVIOUS
  <2>4. CASE d = c
    BY <1>1, <2>1, <2>2, <2>3, <2>4
  <2>5. CASE d # c
    BY <1>1, <2>1, <2>2, <2>3, <2>5
  <2> QED
    BY <2>4, <2>5
<1> QED
  BY <1>4, <1>5, <1>8, <1>9

(* A call that ends without a job was not waiting.                         *)
LEMMA AnswerJobInv ==
  ASSUME JobInv, NEW c \in Callers, pc[c] \in {"idle", "admitted"},
         NEW out \in Outputs, Answer(c, out), UNCHANGED <<skill, result, reply>>
  PROVE  JobInv'
<1>1. TypeOK' /\ AdmittedHasCall'
  BY DEF Answer, JobInv, TypeOK, AdmittedHasCall, poolVars
<1>2. /\ UNCHANGED <<tasks, worker, poolRunning, reply, calls>>
      /\ \A d \in Callers : pc'[d] = "waiting" <=> pc[d] = "waiting"
  BY DEF Answer, JobInv, TypeOK, poolVars
<1> QED
  BY <1>1, <1>2, PlacesUntouched

(* A caller that has its reply stops waiting, and its job is gone.         *)
LEMMA ReceiveJobInv ==
  ASSUME JobInv, NEW c \in Callers, Receive(c)
  PROVE  JobInv'
<1> USE DEF JobInv
<1> DEFINE job == <<c, calls[c]>>
<1>1. /\ pc \in [Callers -> {"idle", "admitted", "waiting", "answered",
                             "recorded", "over"}]
      /\ pc[c] = "waiting" /\ pc' = [pc EXCEPT ![c] = "answered"]
      /\ reply \in [Jobs -> {"none", "ok", "error", "timeout"}]
      /\ reply' = [reply EXCEPT ![job] = "none"] /\ reply[job] # "none"
      /\ answer' = [answer EXCEPT ![c] = reply[job]]
      /\ UNCHANGED <<calls, audit, userActive, skill, result, tasks, worker, poolRunning>>
  BY DEF Receive, JobOf, TypeOK, poolVars
<1>2. calls[c] \in 1..MaxCalls[c] /\ job \in Jobs
  BY <1>1, CallIsJob, SkillExecAssumption DEF Callers, TypeOK, WaitingHasJob
<1>3. TypeOK'
  <2>1. answer' \in [Callers -> Outputs]
    BY <1>1, <1>2 DEF TypeOK, Outputs
  <2>2. reply' \in [Jobs -> {"none", "ok", "error", "timeout"}]
    BY <1>1
  <2>3. pc' \in [Callers -> {"idle", "admitted", "waiting", "answered",
                             "recorded", "over"}]
    BY <1>1
  <2> QED
    BY <1>1, <2>1, <2>2, <2>3 DEF TypeOK
<1>4. AdmittedHasCall' /\ WaitingHasJob' /\ NotStarted'
  BY <1>1 DEF AdmittedHasCall, WaitingHasJob, NotStarted
<1>5. HasReply(job) /\ ~InQueue(job) /\ ~WithWorker(job)
  BY <1>1, <1>2 DEF HasReply, NoJobTwice
<1>6. \A j \in Jobs : /\ InQueue(j)' <=> InQueue(j)
                      /\ WithWorker(j)' <=> WithWorker(j)
                      /\ HasReply(j)' <=> HasReply(j) /\ j # job
  BY <1>1 DEF InQueue, WithWorker, HasReply
<1>7. NoJobTwice'
  <2>1. /\ \A i, k \in 1..Len(tasks') : tasks'[i] = tasks'[k] => i = k
        /\ \A u, v \in Workers : worker'[u] \in Jobs /\ worker'[u] = worker'[v] => u = v
    BY <1>1 DEF NoJobTwice
  <2> QED
    BY <1>6, <2>1 DEF NoJobTwice
<1>8. AwaitedJobsHeld'
  <2> SUFFICES ASSUME NEW d \in Callers, NEW n \in 1..MaxCalls[d]
               PROVE  (pc'[d] = "waiting" /\ calls'[d] = n) <=> Held(<<d, n>>)'
    BY DEF AwaitedJobsHeld
  <2>1. Held(<<d, n>>)' <=> Held(<<d, n>>) /\ <<d, n>> # job
    BY <1>5, <1>6, CallIsJob DEF Held
  <2>2. (pc[d] = "waiting" /\ calls[d] = n) <=> Held(<<d, n>>)
    BY DEF AwaitedJobsHeld
  <2>3. <<d, n>> = job <=> d = c /\ n = calls[c]
    OBVIOUS
  <2>4. CASE d = c
    BY <1>1, <2>1, <2>2, <2>3, <2>4
  <2>5. CASE d # c
    BY <1>1, <2>1, <2>2, <2>3, <2>5
  <2> QED
    BY <2>4, <2>5
<1> QED
  BY <1>3, <1>4, <1>7, <1>8

(* The other steps of the callers leave the jobs alone.                    *)
LEMMA CallerJobInv ==
  ASSUME JobInv, NEW c \in Callers,
         \/ RequestAllow(c) \/ RequestRefused(c) \/ RequestRecord(c)
         \/ RequestReturn(c) \/ PipelineRecord(c) \/ PipelineNext(c)
  PROVE  JobInv'
<1>1. TypeOK'
  <2>1. userActive' \in Nat
    BY DEF RequestAllow, RequestRefused, RequestRecord, RequestReturn,
       PipelineRecord, PipelineNext, JobInv, TypeOK
  <2>2. answer' \in [Callers -> Outputs] /\ audit' \in [Callers -> {"none", "success", "fail"}]
    BY DEF RequestAllow, RequestRefused, RequestRecord, RequestReturn,
       PipelineRecord, PipelineNext, Forget, AuditOf, JobInv, TypeOK, Outputs
  <2>3. pc' \in [Callers -> {"idle", "admitted", "waiting", "answered",
                             "recorded", "over"}]
    <3>1. \E next \in {"idle", "admitted", "recorded", "over"} :
            pc' = [pc EXCEPT ![c] = next]
      BY DEF RequestAllow, RequestRefused, RequestRecord, RequestReturn,
         PipelineRecord, PipelineNext, Forget
    <3> QED
      BY <3>1 DEF JobInv, TypeOK
  <2>4. UNCHANGED <<calls, tasks, worker, poolRunning, skill, result, reply>>
    BY DEF RequestAllow, RequestRefused, RequestRecord, RequestReturn,
       PipelineRecord, PipelineNext, Forget, poolVars
  <2> QED
    BY <2>1, <2>2, <2>3, <2>4 DEF JobInv, TypeOK
<1>2. AdmittedHasCall'
  BY DEF RequestAllow, RequestRefused, RequestRecord, RequestReturn,
     PipelineRecord, PipelineNext, Forget, JobInv, TypeOK, AdmittedHasCall
<1>3. /\ UNCHANGED <<tasks, worker, poolRunning, reply, calls>>
      /\ \A d \in Callers : pc'[d] = "waiting" <=> pc[d] = "waiting"
  BY DEF RequestAllow, RequestRefused, RequestRecord, RequestReturn,
     PipelineRecord, PipelineNext, Forget, JobInv, TypeOK, poolVars
<1> QED
  BY <1>1, <1>2, <1>3, PlacesUntouched

-----------------------------------------------------------------------------
LEMMA NextJobInv == JobInv /\ [Next]_vars => JobInv'
<1> SUFFICES ASSUME JobInv, [Next]_vars PROVE JobInv'
  OBVIOUS
<1>1. CASE PoolStart
  BY <1>1, PoolStartJobInv
<1>2. ASSUME NEW w \in Workers, WorkerStep(w) PROVE JobInv'
  <2>1. CASE WorkerTakes(w)
    BY <2>1, WorkerTakesJobInv
  <2>2. CASE WorkerResult(w)
    <3>1. result[worker[w]] \in {"ok", "error", "timeout"}
      BY <2>2 DEF WorkerResult, JobInv, TypeOK
    <3> QED
      BY <2>2, <3>1, WorkerRepliesJobInv DEF WorkerResult
  <2>3. CASE WorkerTimeout(w)
    BY <2>3, WorkerRepliesJobInv DEF WorkerTimeout
  <2> QED
    BY <1>2, <2>1, <2>2, <2>3 DEF WorkerStep
<1>3. ASSUME NEW j \in Jobs,
             (\E out \in {"ok", "error"} : SkillEnds(j, out)) \/ SkillSends(j)
      PROVE  JobInv'
  BY <1>3, SkillJobInv
<1>4. ASSUME NEW c \in Requests, RequestAllow(c) \/ Receive(c) \/ RequestStep(c)
      PROVE  JobInv'
  <2>1. c \in Callers
    BY DEF Callers
  <2>2. CASE RequestExecute(c)
    <3>1. /\ pc[c] = "admitted" /\ calls[c] < MaxCalls[c]
          /\ UNCHANGED <<skill, result, reply>>
          /\ Submit(c) \/ \E out \in Outputs : Answer(c, out)
      BY <2>1, <2>2 DEF RequestExecute, ExecuteSkill, JobInv, AdmittedHasCall, Outputs
    <3> QED
      BY <2>1, <3>1, SubmitJobInv, AnswerJobInv
  <2>3. CASE Receive(c)
    BY <2>1, <2>3, ReceiveJobInv
  <2>4. CASE RequestAllow(c) \/ RequestRefused(c) \/ RequestRecord(c) \/ RequestReturn(c)
    BY <2>1, <2>4, CallerJobInv
  <2> QED
    BY <1>4, <2>2, <2>3, <2>4 DEF RequestStep
<1>5. ASSUME NEW c \in Pipelines,
             PipelineStage(c) \/ Receive(c) \/ PipelineRecord(c) \/ PipelineNext(c)
      PROVE  JobInv'
  <2>1. c \in Callers
    BY DEF Callers
  <2>2. CASE PipelineStage(c)
    <3>1. /\ pc[c] = "idle" /\ calls[c] < MaxCalls[c]
          /\ UNCHANGED <<skill, result, reply>>
          /\ Submit(c) \/ \E out \in Outputs : Answer(c, out)
      BY <2>2 DEF PipelineStage, Outputs
    <3> QED
      BY <2>1, <3>1, SubmitJobInv, AnswerJobInv
  <2>3. CASE Receive(c)
    BY <2>1, <2>3, ReceiveJobInv
  <2>4. CASE PipelineRecord(c) \/ PipelineNext(c)
    BY <2>1, <2>4, CallerJobInv
  <2> QED
    BY <1>5, <2>2, <2>3, <2>4
<1>6. CASE UNCHANGED vars
  <2>1. UNCHANGED <<pc, calls, answer, audit, userActive, tasks, worker,
                    poolRunning, skill, result, reply>>
    BY <1>6 DEF vars, callerVars, poolVars
  <2>2. TypeOK' /\ AdmittedHasCall'
    BY <2>1 DEF JobInv, TypeOK, AdmittedHasCall
  <2> QED
    BY <2>1, <2>2, PlacesUntouched
<1> QED
  BY <1>1, <1>2, <1>3, <1>4, <1>5, <1>6 DEF Next

LEMMA SafeJobInv == SafeSpec => []JobInv
BY InitJobInv, NextJobInv, PTL DEF SafeSpec

(* Every variable keeps its type: no call goes beyond the bound of its     *)
(* caller, and the queue never holds more jobs than it has room for.       *)
THEOREM ExecTypeOK == SafeSpec => []TypeOK
<1>1. JobInv => TypeOK
  BY DEF JobInv
<1> QED
  BY <1>1, SafeJobInv, PTL

(* A set without two different elements.                                   *)
LEMMA AtMostOne ==
  ASSUME NEW S, \A x, y \in S : x = y
  PROVE  Cardinality(S) = IF S = {} THEN 0 ELSE 1
<1>1. CASE S = {}
  BY <1>1, FS_EmptySet
<1>2. CASE S # {}
  <2>1. PICK x : S = {x}
    BY <1>2
  <2> QED
    BY <1>2, <2>1, FS_Singleton
<1> QED
  BY <1>1, <1>2

LEMMA JobPlaces == JobInv => JobInOnePlace
<1> SUFFICES ASSUME JobInv, NEW c \in Callers, NEW n \in 1..MaxCalls[c]
             PROVE  LET j == <<c, n>> IN
                      Cardinality(Queued(j)) + Cardinality(Serving(j))
                        + Cardinality(Replied(j))
                      = IF pc[c] = "waiting" /\ n = calls[c] THEN 1 ELSE 0
  BY DEF JobInOnePlace
<1> USE DEF JobInv
<1> DEFINE j == <<c, n>>
<1>1. j \in Jobs
  BY CallIsJob
<1>2. Cardinality(Queued(j)) = IF InQueue(j) THEN 1 ELSE 0
  <2>1. \A i, k \in Queued(j) : i = k
    BY DEF Queued, NoJobTwice
  <2>2. Queued(j) = {} <=> ~InQueue(j)
    BY DEF Queued, InQueue
  <2> QED
    BY <2>1, <2>2, AtMostOne
<1>3. Cardinality(Serving(j)) = IF WithWorker(j) THEN 1 ELSE 0
  <2>1. \A w, v \in Serving(j) : w = v
    BY <1>1 DEF Serving, NoJobTwice
  <2>2. Serving(j) = {} <=> ~WithWorker(j)
    BY DEF Serving, WithWorker
  <2> QED
    BY <2>1, <2>2, AtMostOne
<1>4. Cardinality(Replied(j)) = IF HasReply(j) THEN 1 ELSE 0
  <2>1. \A r, q \in Replied(j) : r = q
    BY DEF Replied
  <2>2. Replied(j) = {} <=> ~HasReply(j)
    BY DEF Replied, HasReply
  <2> QED
    BY <2>1, <2>2, AtMostOne
<1>5. /\ ~(InQueue(j) /\ WithWorker(j))
      /\ ~(InQueue(j) /\ HasReply(j))
      /\ ~(WithWorker(j) /\ HasReply(j))
  BY <1>1 DEF NoJobTwice
<1>6. (pc[c] = "waiting" /\ calls[c] = n) <=>
        InQueue(j) \/ WithWorker(j) \/ HasReply(j)
  BY DEF AwaitedJobsHeld, Held
<1> QED
  BY <1>2, <1>3, <1>4, <1>5, <1>6

(* The job of a waiting caller is in the queue, with one worker or replied *)
(* to, in exactly one of these and once, and no other job is anywhere:     *)
(* whatever times out, hangs or answers late, no call is lost, run twice   *)
(* or answered twice.                                                      *)
THEOREM ExecJobInOnePlace == SafeSpec => []JobInOnePlace
BY SafeJobInv, JobPlaces, PTL

-----------------------------------------------------------------------------
(* The quota *)

PcOK ==
  pc \in [Callers -> {"idle", "admitted", "waiting", "answered", "recorded",
                      "over"}]

LEMMA InServiceFinite == IsFiniteSet(InService)
<1>1. InService \in SUBSET Requests
  BY DEF InService
<1> QED
  BY <1>1, FS_Subset, SkillExecAssumption

LEMMA InitQuota == Init => QuotaAccounted
<1> SUFFICES ASSUME Init PROVE QuotaAccounted
  OBVIOUS
<1>1. InService = {}
  BY DEF Init, InService, Callers
<1> QED
  BY <1>1, FS_EmptySet, SkillExecAssumption DEF Init, QuotaAccounted

(* A step that leaves the slots and who is in service alone.               *)
LEMMA QuotaUntouched ==
  ASSUME QuotaAccounted, UNCHANGED userActive,
         \A c \in Requests :
           pc'[c] \in {"admitted", "waiting", "answered", "recorded"} <=>
           pc[c] \in {"admitted", "waiting", "answered", "recorded"}
  PROVE  QuotaAccounted'
<1>1. InService' = InService
  BY DEF InService
<1> QED
  BY <1>1 DEF QuotaAccounted

LEMMA AllowQuota ==
  ASSUME QuotaAccounted, PcOK, NEW c \in Requests, RequestAllow(c)
  PROVE  QuotaAccounted'
<1>1. InService' = InService \cup {c} /\ c \notin InService
  BY DEF RequestAllow, InService, PcOK, Callers
<1>2. Cardinality(InService') = Cardinality(InService) + 1
  BY <1>1, FS_AddElement, InServiceFinite
<1>3. userActive \in Nat
  BY FS_CardinalityType, InServiceFinite DEF QuotaAccounted
<1> QED
  BY <1>2, <1>3, SkillExecAssumption DEF RequestAllow, QuotaAccounted

LEMMA ReturnQuota ==
  ASSUME QuotaAccounted, PcOK, NEW c \in Requests, RequestReturn(c)
  PROVE  QuotaAccounted'
<1>1. InService' = InService \ {c} /\ c \in InService
  BY DEF RequestReturn, Forget, InService, PcOK, Callers
<1>2. Cardinality(InService') = Cardinality(InService) - 1
  BY <1>1, FS_RemoveElement, InServiceFinite
<1>3. userActive \in Nat /\ userActive # 0
  BY <1>1, FS_CardinalityType, FS_EmptySet, InServiceFinite DEF QuotaAccounted
<1> QED
  BY <1>2, <1>3, SkillExecAssumption DEF RequestReturn, QuotaAccounted

LEMMA NextQuota == QuotaAccounted /\ TypeOK /\ [Next]_vars => QuotaAccounted'
<1> SUFFICES ASSUME QuotaAccounted, TypeOK, [Next]_vars PROVE QuotaAccounted'
  OBVIOUS
<1>1. PcOK
  BY DEF TypeOK, PcOK
<1>2. CASE UNCHANGED <<pc, userActive>>
  BY <1>2, QuotaUntouched
<1>3. CASE PoolStart \/ UNCHANGED vars
  BY <1>2, <1>3 DEF PoolStart, vars, callerVars
<1>4. ASSUME NEW w \in Workers, WorkerStep(w) PROVE QuotaAccounted'
  BY <1>2, <1>4 DEF WorkerStep, WorkerTakes, WorkerResult, WorkerTimeout,
     WorkerReplies, callerVars
<1>5. ASSUME NEW j \in Jobs,
             (\E out \in {"ok", "error"} : SkillEnds(j, out)) \/ SkillSends(j)
      PROVE  QuotaAccounted'
  BY <1>2, <1>5 DEF SkillEnds, SkillSends, callerVars
<1>6. ASSUME NEW c \in Requests, RequestAllow(c) \/ Receive(c) \/ RequestStep(c)
      PROVE  QuotaAccounted'
  <2>1. CASE RequestAllow(c)
    BY <1>1, <2>1, AllowQuota
  <2>2. CASE RequestReturn(c)
    BY <1>1, <2>2, ReturnQuota
  <2>3. CASE Receive(c) \/ RequestRefused(c) \/ RequestExecute(c) \/ RequestRecord(c)
    <3>1. /\ UNCHANGED userActive
          /\ pc[c] \in {"admitted", "waiting", "answered"}
          /\ \E next \in {"waiting", "answered", "recorded"} :
               pc' = [pc EXCEPT ![c] = next]
      BY <2>3 DEF Receive, RequestRefused, RequestExecute, ExecuteSkill, Submit,
         Answer, RequestRecord
    <3> QED
      BY <1>1, <3>1, QuotaUntouched DEF PcOK
  <2> QED
    BY <1>6, <2>1, <2>2, <2>3 DEF RequestStep
<1>7. ASSUME NEW c \in Pipelines,
             PipelineStage(c) \/ Receive(c) \/ PipelineRecord(c) \/ PipelineNext(c)
      PROVE  QuotaAccounted'
  <2>1. UNCHANGED userActive
    BY <1>7 DEF PipelineStage, Submit, Answer, Receive, PipelineRecord, PipelineNext
  <2>2. \E next \in {"idle", "waiting", "answered", "recorded", "over"} :
          pc' = [pc EXCEPT ![c] = next]
    BY <1>7 DEF PipelineStage, Submit, Answer, Receive, PipelineRecord,
       PipelineNext, Forget
  <2>3. \A r \in Requests : pc'[r] = pc[r]
    BY <1>1, <2>2, SkillExecAssumption DEF PcOK, Callers
  <2> QED
    BY <2>1, <2>3, QuotaUntouched
<1> QED
  BY <1>3, <1>4, <1>5, <1>6, <1>7 DEF Next

(* A slot of the quota is taken for exactly the requests between Allow and *)
(* Release, on every way through the handler, and the limit is kept.       *)
THEOREM ExecQuotaAccounted == SafeSpec => []QuotaAccounted
<1>1. QuotaAccounted /\ TypeOK /\ TypeOK' /\ [Next]_vars => QuotaAccounted'
  BY NextQuota
<1> QED
  BY <1>1, InitQuota, ExecTypeOK, PTL DEF SafeSpec

-----------------------------------------------------------------------------
(* What runs for a pipeline *)

(* A result is under way only from a goroutine that has ended to a worker. *)
ResultsAwaited == \A j \in Jobs : result[j] # "none" => skill[j] = "gone" /\ WithWorker(j)

(* The stage that may be running: the one that is waited for, unless it    *)
(* has returned, or the one that ended the pipeline.                       *)
MayRun(c, n) ==
  /\ n = calls[c]
  /\ \/ pc[c] = "waiting" /\ reply[<<c, n>>] \in {"none", "timeout"}
     \/ pc[c] \in {"answered", "recorded"} /\ answer[c] # "ok"
     \/ pc[c] = "over"

RunningStages ==
  \A c \in Pipelines : \A n \in 1..MaxCalls[c] :
    skill[<<c, n>>] = "running" => MayRun(c, n)

StageInv == ResultsAwaited /\ RunningStages

LEMMA InitStageInv == Init => StageInv
<1> SUFFICES ASSUME Init PROVE StageInv
  OBVIOUS
<1>1. \A c \in Pipelines : \A n \in 1..MaxCalls[c] : skill[<<c, n>>] = "none"
  BY CallIsJob DEF Init, Callers
<1> QED
  BY <1>1 DEF Init, StageInv, ResultsAwaited, RunningStages

(* A step that leaves alone what the pipelines wait for.                   *)
LEMMA StagesUntouched ==
  ASSUME StageInv, UNCHANGED <<pc, calls, answer, reply>>,
         \A j \in Jobs : skill'[j] = "running" => skill[j] = "running"
  PROVE  RunningStages'
<1> SUFFICES ASSUME NEW c \in Pipelines, NEW n \in 1..MaxCalls[c],
                    skill'[<<c, n>>] = "running"
             PROVE  MayRun(c, n)'
  BY DEF RunningStages
<1>1. skill[<<c, n>>] = "running"
  BY CallIsJob DEF Callers
<1>2. MayRun(c, n)
  BY <1>1 DEF StageInv, RunningStages
<1> QED
  BY <1>2 DEF MayRun

LEMMA PoolStageInv ==
  ASSUME JobInv, StageInv, PoolStart
  PROVE  StageInv'
<1>1. \A j \in Jobs : result[j] = "none"
  BY NoJob DEF JobInv, NotStarted, PoolStart, StageInv, ResultsAwaited, WithWorker
<1>2. ResultsAwaited'
  BY <1>1 DEF ResultsAwaited, PoolStart
<1>3. RunningStages'
  BY StagesUntouched DEF PoolStart, callerVars
<1> QED
  BY <1>2, <1>3 DEF StageInv

(* The job that is taken is waited for, and nothing has come of it yet.    *)
LEMMA TakesStageInv ==
  ASSUME JobInv, StageInv, NEW w \in Workers, WorkerTakes(w)
  PROVE  StageInv'
<1> DEFINE job == tasks[1]
<1>1. /\ tasks \in Seq(Jobs) /\ tasks # <<>> /\ Len(tasks) \in Nat
      /\ worker[w] = Free /\ worker' = [worker EXCEPT ![w] = job]
      /\ worker \in [Workers -> Jobs \cup {Off, Free}]
      /\ skill' = [skill EXCEPT ![job] = "running"]
      /\ skill \in [Jobs -> {"none", "running", "ok", "error", "gone"}]
      /\ UNCHANGED <<pc, calls, answer, result, reply>>
  BY DEF WorkerTakes, JobInv, TypeOK, callerVars
<1>2. job \in Jobs /\ InQueue(job)
  BY <1>1 DEF InQueue
<1>3. ~WithWorker(job) /\ ~HasReply(job)
  BY <1>2 DEF JobInv, NoJobTwice
<1>4. ResultsAwaited'
  <2> SUFFICES ASSUME NEW j \in Jobs, result[j] # "none"
               PROVE  skill'[j] = "gone" /\ WithWorker(j)'
    BY <1>1 DEF ResultsAwaited
  <2>1. skill[j] = "gone" /\ WithWorker(j) /\ j # job
    BY <1>3 DEF StageInv, ResultsAwaited
  <2>2. PICK v \in Workers : worker[v] = j
    BY <2>1 DEF WithWorker
  <2>3. v # w /\ worker'[v] = j
    BY <1>1, <2>2, NoJob
  <2> QED
    BY <1>1, <2>1, <2>3 DEF WithWorker
<1>5. RunningStages'
  <2> SUFFICES ASSUME NEW c \in Pipelines, NEW n \in 1..MaxCalls[c],
                      skill'[<<c, n>>] = "running"
               PROVE  MayRun(c, n)'
    BY DEF RunningStages
  <2>1. <<c, n>> \in Jobs /\ c \in Callers
    BY CallIsJob DEF Callers
  <2>2. CASE <<c, n>> = job
    <3>1. pc[c] = "waiting" /\ calls[c] = n
      BY <1>2, <2>1, <2>2 DEF JobInv, AwaitedJobsHeld, Held
    <3>2. reply[<<c, n>>] = "none"
      BY <1>3, <2>2 DEF HasReply
    <3> QED
      BY <1>1, <3>1, <3>2 DEF MayRun
  <2>3. CASE <<c, n>> # job
    <3>1. skill[<<c, n>>] = "running"
      BY <1>1, <2>1, <2>3
    <3>2. MayRun(c, n)
      BY <3>1 DEF StageInv, RunningStages
    <3> QED
      BY <1>1, <3>2 DEF MayRun
  <2> QED
    BY <2>2, <2>3
<1> QED
  BY <1>4, <1>5 DEF StageInv

(* A worker replies with a result, whose goroutine has ended, or with      *)
(* "timeout".                                                              *)
LEMMA RepliesStageInv ==
  ASSUME JobInv, StageInv, NEW w \in Workers, worker[w] \in Jobs,
         NEW out \in {"ok", "error", "timeout"},
         out = "timeout" \/ skill[worker[w]] = "gone",
         result' = [result EXCEPT ![worker[w]] = "none"],
         WorkerReplies(w, out)
  PROVE  StageInv'
<1> DEFINE job == worker[w]
<1>1. /\ worker' = [worker EXCEPT ![w] = Free]
      /\ worker \in [Workers -> Jobs \cup {Off, Free}]
      /\ reply' = [reply EXCEPT ![job] = out]
      /\ reply \in [Jobs -> {"none", "ok", "error", "timeout"}]
      /\ result \in [Jobs -> {"none", "ok", "error"}]
      /\ UNCHANGED <<pc, calls, answer, skill>>
  BY DEF WorkerReplies, JobInv, TypeOK, callerVars
<1>2. ResultsAwaited'
  <2> SUFFICES ASSUME NEW j \in Jobs, result'[j] # "none"
               PROVE  skill'[j] = "gone" /\ WithWorker(j)'
    BY DEF ResultsAwaited
  <2>1. j # job /\ result[j] # "none"
    BY <1>1
  <2>2. skill[j] = "gone" /\ WithWorker(j)
    BY <2>1 DEF StageInv, ResultsAwaited
  <2>3. PICK v \in Workers : worker[v] = j
    BY <2>2 DEF WithWorker
  <2>4. worker'[v] = j
    BY <1>1, <2>1, <2>3
  <2> QED
    BY <1>1, <2>2, <2>4 DEF WithWorker
<1>3. RunningStages'
  <2> SUFFICES ASSUME NEW c \in Pipelines, NEW n \in 1..MaxCalls[c],
                      skill[<<c, n>>] = "running"
               PROVE  MayRun(c, n)'
    BY <1>1 DEF RunningStages
  <2>1. MayRun(c, n) /\ <<c, n>> \in Jobs
    BY CallIsJob DEF StageInv, RunningStages, Callers
  <2>2. reply'[<<c, n>>] = reply[<<c, n>>] \/ reply'[<<c, n>>] = "timeout"
    BY <1>1, <2>1
  <2> QED
    BY <1>1, <2>1, <2>2 DEF MayRun
<1> QED
  BY <1>2, <1>3 DEF StageInv

LEMMA SkillStageInv ==
  ASSUME JobInv, StageInv, NEW j \in Jobs, NEW out \in {"ok", "error"},
         SkillEnds(j, out) \/ SkillSends(j)
  PROVE  StageInv'
<1>1. UNCHANGED <<pc, calls, answer, reply, worker>>
  BY DEF SkillEnds, SkillSends, callerVars, poolVars
<1>2. \A i \in Jobs : skill'[i] = "running" => skill[i] = "running"
  BY DEF SkillEnds, SkillSends, JobInv, TypeOK
<1>3. ResultsAwaited'
  <2> SUFFICES ASSUME NEW i \in Jobs, result'[i] # "none"
               PROVE  skill'[i] = "gone" /\ WithWorker(i)'
    BY DEF ResultsAwaited
  <2>1. CASE SkillEnds(j, out)
    <3>1. result[i] # "none" /\ skill[j] = "running"
      BY <2>1 DEF SkillEnds
    <3>2. skill[i] = "gone" /\ WithWorker(i)
      BY <3>1 DEF StageInv, ResultsAwaited
    <3> QED
      BY <1>1, <2>1, <3>1, <3>2 DEF SkillEnds, JobInv, TypeOK, WithWorker
  <2>2. CASE SkillSends(j)
    <3>1. CASE i = j
      BY <1>1, <2>2, <3>1 DEF SkillSends, JobInv, TypeOK, WithWorker
    <3>2. CASE i # j
      BY <1>1, <2>2, <3>2 DEF SkillSends, JobInv, TypeOK, WithWorker, StageInv, ResultsAwaited
    <3> QED
      BY <3>1, <3>2
  <2> QED
    BY <2>1, <2>2
<1> QED
  BY <1>1, <1>2, <1>3, StagesUntouched DEF StageInv

(* The steps of the callers start and stop no skill.                       *)
LEMMA ResultsUntouched ==
  ASSUME StageInv, UNCHANGED <<skill, result, worker>>
  PROVE  ResultsAwaited'
BY DEF StageInv, ResultsAwaited, WithWorker

(* A request is no pipeline.                                               *)
LEMMA RequestStageInv ==
  ASSUME JobInv, StageInv, NEW c \in Requests,
         RequestAllow(c) \/ Receive(c) \/ RequestStep(c)
  PROVE  StageInv'
<1>1. UNCHANGED <<skill, result, worker>>
  BY DEF RequestAllow, Receive, RequestStep, RequestRefused, RequestExecute, ExecuteSkill,
     Submit, Answer, RequestRecord, RequestReturn, Forget, poolVars
<1>2. \A d \in Pipelines : d # c /\ d \in Callers
  BY SkillExecAssumption DEF Callers
<1>3. \A d \in Pipelines : pc'[d] = pc[d] /\ calls'[d] = calls[d] /\ answer'[d] = answer[d]
  BY <1>2 DEF RequestAllow, Receive, RequestStep, RequestRefused, RequestExecute,
     ExecuteSkill, Submit, Answer, RequestRecord, RequestReturn, Forget, JobInv, TypeOK
<1>4. \A d \in Pipelines : \A n \in 1..MaxCalls[d] : reply'[<<d, n>>] = reply[<<d, n>>]
  <2> SUFFICES ASSUME NEW d \in Pipelines, NEW n \in 1..MaxCalls[d]
               PROVE  reply'[<<d, n>>] = reply[<<d, n>>]
    OBVIOUS
  <2>1. <<d, n>> \in Jobs /\ <<d, n>> # JobOf(c)
    BY <1>2, CallIsJob DEF JobOf
  <2>2. CASE Receive(c)
    BY <2>1, <2>2 DEF Receive, JobInv, TypeOK
  <2>3. CASE ~Receive(c)
    BY <2>3 DEF RequestAllow, RequestStep, RequestRefused, RequestExecute, ExecuteSkill,
       RequestRecord, RequestReturn, Forget
  <2> QED
    BY <2>2, <2>3
<1>5. RunningStages'
  BY <1>1, <1>3, <1>4 DEF RunningStages, StageInv, MayRun
<1> QED
  BY <1>1, <1>5, ResultsUntouched DEF StageInv

(* No earlier stage is running when a pipeline goes on.                    *)
LEMMA PipelineStageInv ==
  ASSUME JobInv, StageInv, NEW c \in Pipelines,
         PipelineStage(c) \/ Receive(c) \/ PipelineRecord(c) \/ PipelineNext(c)
  PROVE  StageInv'
<1>1. c \in Callers
  BY DEF Callers
<1>2. UNCHANGED <<skill, result, worker>>
  BY DEF PipelineStage, Submit, Answer, Receive, PipelineRecord, PipelineNext, Forget, poolVars
<1>3. RunningStages'
  <2> SUFFICES ASSUME NEW d \in Pipelines, NEW n \in 1..MaxCalls[d],
                      skill[<<d, n>>] = "running"
               PROVE  MayRun(d, n)'
    BY <1>2 DEF RunningStages
  <2>1. MayRun(d, n) /\ <<d, n>> \in Jobs /\ d \in Callers
    BY CallIsJob DEF StageInv, RunningStages, Callers
  <2>2. CASE d # c
    <3>1. pc'[d] = pc[d] /\ calls'[d] = calls[d] /\ answer'[d] = answer[d]
      BY <1>1, <2>1, <2>2 DEF PipelineStage, Submit, Answer, Receive, PipelineRecord,
         PipelineNext, Forget, JobInv, TypeOK
    <3>2. <<d, n>> # JobOf(c)
      BY <2>2 DEF JobOf
    <3>3. reply'[<<d, n>>] = reply[<<d, n>>]
      <4>1. CASE Receive(c)
        BY <2>1, <3>2, <4>1 DEF Receive, JobInv, TypeOK
      <4>2. CASE ~Receive(c)
        BY <4>2 DEF PipelineStage, PipelineRecord, PipelineNext, Forget
      <4> QED
        BY <4>1, <4>2
    <3> QED
      BY <2>1, <3>1, <3>3 DEF MayRun
  <2>3. CASE d = c
    <3>1. ~PipelineStage(c)
      BY <2>1, <2>3 DEF PipelineStage, MayRun
    <3>2. CASE Receive(c)
      <4>1. JobOf(c) = <<c, n>> /\ reply[<<c, n>>] = "timeout"
        BY <2>1, <2>3, <3>2 DEF Receive, MayRun, JobOf
      <4>2. pc'[c] = "answered" /\ answer'[c] = "timeout" /\ calls' = calls
        BY <1>1, <3>2, <4>1 DEF Receive, JobInv, TypeOK
      <4> QED
        BY <2>1, <2>3, <4>2 DEF MayRun
    <3>3. CASE PipelineRecord(c)
      BY <1>1, <2>1, <2>3, <3>3 DEF PipelineRecord, MayRun, JobInv, TypeOK
    <3>4. CASE PipelineNext(c)
      <4>1. answer[c] # "ok"
        BY <2>1, <2>3, <3>4 DEF PipelineNext, MayRun
      <4> QED
        BY <1>1, <2>1, <2>3, <3>4, <4>1 DEF PipelineNext, Forget, StageSucceeded, MayRun,
           JobInv, TypeOK
    <3> QED
      BY <3>1, <3>2, <3>3, <3>4
  <2> QED
    BY <2>2, <2>3
<1> QED
  BY <1>2, <1>3, ResultsUntouched DEF StageInv

LEMMA NextStageInv == JobInv /\ StageInv /\ [Next]_vars => StageInv'
<1> SUFFICES ASSUME JobInv, StageInv, [Next]_vars PROVE StageInv'
  OBVIOUS
<1>1. CASE PoolStart
  BY <1>1, PoolStageInv
<1>2. ASSUME NEW w \in Workers, WorkerStep(w) PROVE StageInv'
  <2>1. CASE WorkerTakes(w)
    BY <2>1, TakesStageInv
  <2>2. CASE WorkerResult(w)
    <3>1. /\ result[worker[w]] \in {"ok", "error"} /\ skill[worker[w]] = "gone"
          /\ worker[w] \in Jobs
      BY <2>2 DEF WorkerResult, JobInv, TypeOK, StageInv, ResultsAwaited
    <3> QED
      BY <2>2, <3>1, RepliesStageInv DEF WorkerResult
  <2>3. CASE WorkerTimeout(w)
    BY <2>3, RepliesStageInv DEF WorkerTimeout
  <2> QED
    BY <1>2, <2>1, <2>2, <2>3 DEF WorkerStep
<1>3. ASSUME NEW j \in Jobs,
             (\E out \in {"ok", "error"} : SkillEnds(j, out)) \/ SkillSends(j)
      PROVE  StageInv'
  BY <1>3, SkillStageInv
<1>4. ASSUME NEW c \in Requests, RequestAllow(c) \/ Receive(c) \/ RequestStep(c)
      PROVE  StageInv'
  BY <1>4, RequestStageInv
<1>5. ASSUME NEW c \in Pipelines,
             PipelineStage(c) \/ Receive(c) \/ PipelineRecord(c) \/ PipelineNext(c)
      PROVE  StageInv'
  BY <1>5, PipelineStageInv
<1>6. CASE UNCHANGED vars
  BY <1>6, StagesUntouched, ResultsUntouched DEF vars, callerVars, poolVars, StageInv
<1> QED
  BY <1>1, <1>2, <1>3, <1>4, <1>5, <1>6 DEF Next

LEMMA StagesPrivate == StageInv => PipelineArgsPrivate
BY DEF StageInv, RunningStages, MayRun, PipelineArgsPrivate

(* A pipeline that writes the arguments of its next stage shares their map *)
(* with no skill that is still running, however late skills return: only a *)
(* stage whose goroutine has ended lets the pipeline go on.                *)
THEOREM ExecPipelineArgsPrivate == SafeSpec => []PipelineArgsPrivate
BY SafeJobInv, InitStageInv, NextStageInv, StagesPrivate, PTL DEF SafeSpec

=============================================================================
